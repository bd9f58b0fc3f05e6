--------------------------- MODULE TreeSync_versions ---------------------------
(* NothingLost, Converged and StaysDead, for any number of directories, names,    *)
(* versions and crashes, when users are in haste but do not remove directories.   *)
(* What holds of the versions of a file whatever users do is proved first:        *)
(* TreeSync_removals needs it too.                                                *)
EXTENDS TreeSync_proofs

--------------------------------------------------------------------------------
(* A file.  Users leave a directory alone that the engine works on or whose twin  *)
(* has news; what else they do is said with each theorem.                         *)
Apart == "race" \notin Hurry /\ "busy" \notin Hurry

\* There is nothing of p on s that anybody would miss, or nothing the other side lacks.
Spare(s, p) == file[s][p] \in dead \cup aside \cup {0}
Twin(s, p)  == Spare(s, p) \/ file[s][p] = file[Other(s)][p]

Numbered == \A s \in Side, p \in Files : file[s][p] <= clock /\ row[s][p] <= clock

\* A version that its side has recorded is one the other side has, or that a user
\* replaced, or has nothing against it; one whose twin was recorded and is gone is dead.
Blame(s, p) ==
    row[s][p] # 0 => /\ file[s][p] = row[s][p] => file[Other(s)][p] = 0 \/ Twin(s, p)
                     /\ file[s][p] = 0 => Spare(Other(s), p)

\* The rows below a directory are about to go with it.
Erasing(d) == job.at = "unrecord" /\ job.dir = d

\* Where a deletion is on its way, the other side has nothing that is only there.
Departure(s, p) == Leaving(s, p) => /\ Twin(Other(s), p)
                                    /\ Leaving(Other(s), p) => Spare(s, p)

\* Where a whole directory is going to be copied from s, the other side has no version
\* of its own of a file that s has too.
Heralded(s, d) ==
    \/ slot[s][d] = "content"
    \/ \E i \in DOMAIN sent : sent[i].side = s /\ sent[i].kind = "content" /\ sent[i].path = d
Copying(s, d)  == job.at \in {"mkdir", "copy"} /\ job.src = s /\ job.dir = d
Coming(s, d)   == Heralded(s, d) \/ Copying(s, d)
CopySafe(s, p) == FileOf(s, p) => Twin(Other(s), p)
Arrival(s, p)  == Coming(s, p[1]) => CopySafe(s, p)

PathInv(p) == \A s \in Side : /\ Erasing(p[1]) \/ Blame(s, p)
                              /\ Departure(s, p) /\ Arrival(s, p)

\* What has been copied is on both sides until it is recorded.
Copied ==
    job.at \in {"copy", "note", "walkA", "walkB"} =>
        \A p \in In(job.dir) : \/ file[job.src][p] \in {0, file[Other(job.src)][p]}
                               \/ job.at = "copy" /\ p \in job.todo

\* What is still planned is as the scan found it.
Planned ==
    /\ \A p \in job.plan \cap Files : \A s \in Side : job.inv.file[s][p] = file[s][p]
    /\ \A d \in job.plan \cap Dirs : \A s \in Side : d \in job.inv.has[s] <=> d \in has[s]
    /\ job.plan # {} => job.scope # {} /\ job.at \notin {"idle", "scan"}
    /\ job.at \notin {"idle", "scan", "next"} => job.plan \cap Handled(job.dir) = {}

\* Nobody renames a directory, and what was done to one is not heard of as a rename.
Steady ==
    /\ \A i \in DOMAIN sent : sent[i].kind # "move"
    /\ job.at \notin {"move", "renote"}
    /\ job.at # "unrecord" => job.echo \in {"none", "content"}

VersionInv ==
    /\ Numbered /\ Copied /\ Planned /\ Steady /\ NothingLost
    /\ \A p \in Files : PathInv(p)

--------------------------------------------------------------------------------
(* One path from a step to the next.                                              *)
LEMMA InvFacts ==
    ASSUME TreeAssumption, Inv
    PROVE  /\ \A s \in Side, p \in Files : file[s][p] \in Nat /\ row[s][p] \in Nat
           /\ \A s \in Side, p \in Files : file[s][p] # 0 => p[1] \in has[s]
           /\ clock \in Nat /\ \A p \in Files : p \notin Dirs /\ p[1] \in Dirs
           /\ job.plan \subseteq Dirs \cup Files
<1>1. \A s \in Side, p \in Files : file[s][p] \in Version /\ row[s][p] \in Version
  BY DEF Inv, DiskOK, RowsOK
<1>2. Version \subseteq Nat
  BY DEF Version, TreeAssumption
<1>3. clock \in Version /\ job.plan \subseteq Dirs \cup Files
  BY DEF Inv, RestOK, JobOK, Job
<1>4. \A s \in Side, p \in Files : file[s][p] # 0 => p[1] \in has[s]
  BY DEF Inv, DiskOK, Housed, FileOf
<1>5. \A p \in Files : p \notin Dirs /\ p[1] \in Dirs
  BY FilesAre DEF TreeAssumption
<1> QED BY <1>1, <1>2, <1>3, <1>4, <1>5

LEMMA PathStays ==
    ASSUME NEW p \in Files, PathInv(p), dead \subseteq dead', aside \subseteq aside',
           Erasing(p[1]) => Erasing(p[1])',
           \A x \in Side : file'[x][p] = file[x][p] /\ row'[x][p] = row[x][p],
           \A x \in Side : Leaving(x, p)' => Leaving(x, p),
           \A x \in Side : Coming(x, p[1])' => Coming(x, p[1]) \/ CopySafe(x, p)
    PROVE  PathInv(p)'
<1>1. \A x \in Side : (Spare(x, p) => Spare(x, p)') /\ (Twin(x, p) => Twin(x, p)')
  BY Sides DEF Spare, Twin
<1>2. ASSUME NEW s \in Side
      PROVE  (Erasing(p[1])' \/ Blame(s, p)') /\ Departure(s, p)' /\ Arrival(s, p)'
  <2>1. /\ Erasing(p[1]) \/ Blame(s, p)
        /\ Departure(s, p) /\ Arrival(s, p) /\ Other(s) \in Side
    BY Sides DEF PathInv
  <2>2. Blame(s, p) => Blame(s, p)'
    BY <1>1, <2>1 DEF Blame
  <2>3. Departure(s, p)'
    BY <1>1, <2>1 DEF Departure
  <2>4. ASSUME Coming(s, p[1])' PROVE CopySafe(s, p)'
    <3>1. CopySafe(s, p)
      BY <2>1, <2>4 DEF Arrival
    <3>2. FileOf(s, p)' => FileOf(s, p)
      BY DEF FileOf
    <3>3. Twin(Other(s), p) => Twin(Other(s), p)'
      BY <1>1, <2>1
    <3> QED BY <3>1, <3>2, <3>3 DEF CopySafe
  <2> QED BY <2>1, <2>2, <2>3, <2>4 DEF Arrival
<1> QED BY <1>2 DEF PathInv

\* Nobody would miss anything on either side: whatever happens to the path is right.
LEMMA PathTwin ==
    ASSUME NEW p \in Files, \A x \in Side : Twin(x, p)',
           \A x \in Side : Leaving(x, p)' /\ Leaving(Other(x), p)' => Spare(x, p)'
    PROVE  PathInv(p)'
<1>1. ASSUME NEW s \in Side PROVE Blame(s, p)' /\ Departure(s, p)' /\ Arrival(s, p)'
  <2>1. Twin(s, p)' /\ Twin(Other(s), p)' /\ Other(s) \in Side /\ Other(Other(s)) = s
    BY Sides
  <2>2. Blame(s, p)'
    BY <2>1 DEF Blame, Twin, Spare
  <2>3. Departure(s, p)'
    BY <1>1, <2>1 DEF Departure
  <2>4. Arrival(s, p)'
    BY <2>1 DEF Arrival, CopySafe
  <2> QED BY <2>2, <2>3, <2>4
<1> QED BY <1>1 DEF PathInv

LEMMA PathSpare ==
    ASSUME NEW p \in Files, \A x \in Side : Spare(x, p)'
    PROVE  PathInv(p)'
BY PathTwin DEF Twin

\* A version leaves a disk only if it is dead, elsewhere, or put aside.
LEMMA StillThere ==
    ASSUME TreeAssumption, Inv, NothingLost, clock' = clock, dead \subseteq dead',
           aside \subseteq aside',
           \A x \in Side, d \in Dirs :
               kept[x][d] \subseteq dead' \cup aside' \cup kept'[x][d] \cup kept'[Other(x)][d],
           \A x \in Side, p \in Files :
               \/ file[x][p] \in dead' \cup aside' \cup {0}
               \/ \E y \in Side : file'[y][p] = file[x][p] \/ file[x][p] \in kept'[y][p[1]]
    PROVE  NothingLost'
<1> SUFFICES ASSUME NEW v \in 1..clock, v \notin dead', v \notin aside'
             PROVE  \E s \in Side, d \in Dirs : v \in VersionsIn(s, d)'
  BY DEF NothingLost
<1>1. v # 0
  OBVIOUS
<1>2. PICK s \in Side, d \in Dirs : v \in VersionsIn(s, d)
  BY DEF NothingLost
<1>3. CASE v \in kept[s][d]
  <2>1. (v \in kept'[s][d] \/ v \in kept'[Other(s)][d]) /\ Other(s) \in Side
    BY <1>2, <1>3, Sides
  <2> QED BY <1>2, <2>1 DEF VersionsIn
<1>4. CASE v \notin kept[s][d]
  <2>1. PICK p \in In(d) : v = file[s][p]
    BY <1>2, <1>4 DEF VersionsIn, FilesIn
  <2>2. p \in Files /\ p[1] = d
    BY <1>2, <2>1, FilesAre
  <2>3. PICK y \in Side : file'[y][p] = v \/ v \in kept'[y][d]
    BY <1>1, <2>1, <2>2
  <2>4. v \in VersionsIn(y, d)'
    BY <1>1, <2>1, <2>3 DEF VersionsIn, FilesIn, FileOf
  <2> QED BY <1>2, <2>4
<1> QED BY <1>3, <1>4

--------------------------------------------------------------------------------
(* Events: what is on its way after a step was before, or was just pending.       *)
LEMMA SlotEffect ==
    ASSUME slot \in Slots, NEW s \in Side, NEW P, NEW k, Slot(s, P, k)
    PROVE  \A x \in Side, q \in Dirs \cup Files :
               slot'[x][q] = IF x = s /\ q \in P THEN k ELSE slot[x][q]
BY DEF Slots, Slot

NoNewMail == \A i \in DOMAIN sent' : \E j \in DOMAIN sent : sent'[i] = sent[j]

LEMMA Mail ==
    ASSUME EventsOK,
           sent' \in {sent, << >>} \/ (sent # << >> /\ sent' = Tail(sent))
    PROVE  NoNewMail
<1>1. CASE sent' = sent
  BY <1>1 DEF NoNewMail
<1>2. CASE sent' = << >>
  BY <1>2 DEF NoNewMail
<1>3. CASE sent # << >> /\ sent' = Tail(sent)
  <2>1. sent \in Seq(Letters)
    BY DEF EventsOK
  <2>2. \A i \in DOMAIN sent' : i + 1 \in DOMAIN sent /\ sent'[i] = sent[i + 1]
    BY <1>3, <2>1
  <2> QED BY <2>2 DEF NoNewMail
<1> QED BY <1>1, <1>2, <1>3

LEMMA NoMore ==
    ASSUME NoNewMail
    PROVE  /\ \A x \in Side, p \in Files :
                  (slot'[x][p] = "delete" => Leaving(x, p)) => (Leaving(x, p)' => Leaving(x, p))
           /\ \A x \in Side, d \in Dirs :
                  (slot'[x][d] = "content" => Heralded(x, d)) => (Heralded(x, d)' => Heralded(x, d))
BY DEF NoNewMail, Leaving, Heralded

LEMMA SteadyRemains ==
    ASSUME Steady, NoNewMail, job'.at \in At \ {"move", "renote", "unrecord"},
           job'.echo \in {"none", "content"}
    PROVE  Steady'
BY DEF Steady, NoNewMail

\* A plan stays as it was made while no path of it changes.
LEMMA PlanStays ==
    ASSUME Planned, job'.plan \subseteq job.plan,
           job'.plan # {} => job'.inv = job.inv /\ job'.scope = job.scope,
           job'.plan # {} => job'.at \notin {"idle", "scan"},
           job'.at \notin {"idle", "scan", "next"} => job'.plan \cap Handled(job'.dir) = {},
           \A p \in job'.plan \cap Files : \A s \in Side : file'[s][p] = file[s][p],
           \A d \in job'.plan \cap Dirs : \A s \in Side : d \in has[s] <=> d \in has'[s]
    PROVE  Planned'
<1>2. \A p \in job'.plan \cap Files : \A s \in Side : job'.inv.file[s][p] = file'[s][p]
  BY DEF Planned
<1>3. \A d \in job'.plan \cap Dirs : \A s \in Side : d \in job'.inv.has[s] <=> d \in has'[s]
  BY DEF Planned
<1>4. job'.plan # {} => job'.scope # {}
  BY DEF Planned
<1> QED BY <1>2, <1>3, <1>4 DEF Planned

\* The job at rest, and when a reconciliation begins.
LEMMA Resting ==
    LET start == [Idle EXCEPT !.at = "scan", !.scope = Dirs]
    IN /\ Idle.at = "idle" /\ Idle.echo = "none" /\ Idle.plan = {} /\ Idle.scope = {}
       /\ start.at = "scan" /\ start.echo = "none" /\ start.plan = {} /\ start.scope = Dirs
BY DEF Idle

\* An operation is over.
LEMMA EndedPlan ==
    ASSUME TreeAssumption, Inv, Planned
    PROVE  /\ Ended.at \in {"idle", "next"} /\ Ended.echo = "none" /\ Ended.plan \subseteq job.plan
           /\ Ended.plan # {} => /\ Ended.at = "next"
                                 /\ Ended.inv = job.inv /\ Ended.scope = job.scope
<1>1. Idle.at = "idle" /\ Idle.echo = "none" /\ Idle.plan = {}
  BY DEF Idle
<1>2. CASE job.scope = {}
  BY <1>1, <1>2 DEF Ended
<1>3. CASE job.scope # {}
  <2>1. Ended = [Idle EXCEPT !.at = "next", !.scope = job.scope, !.inv = job.inv, !.plan = job.plan]
    BY <1>3 DEF Ended
  <2> QED BY <2>1 DEF Idle
<1> QED BY <1>2, <1>3

--------------------------------------------------------------------------------
(* Users.                                                                         *)
LEMMA TellEffect ==
    ASSUME slot \in Slots, NEW s \in Side, NEW d, NEW P, NEW k, Tell(s, d, P, k)
    PROVE  \A x \in Side, q \in Dirs \cup Files :
               slot'[x][q] = slot[x][q] \/ (x = s /\ q \in P /\ slot'[x][q] = k)
<1>1. Slot(s, P, k) \/ slot' = slot
  BY DEF Tell
<1> QED BY <1>1, SlotEffect

\* Nothing is planned while a user may touch a directory, and it is not in hand.
LEMMA LeftAlone ==
    ASSUME Apart, Planned, NEW d, Free(d)
    PROVE  job.plan = {} /\ (job.at = "idle" \/ d # job.dir) /\ ~Erasing(d)
BY DEF Apart, Planned, Free, Busy, Erasing

LEMMA UserFrame ==
    ASSUME Planned, Steady, job.plan = {}, UNCHANGED <<sent, job>>
    PROVE  Planned' /\ Steady' /\ NoNewMail
BY DEF Planned, Steady, NoNewMail

LEMMA MakeDirKeeps ==
    ASSUME TreeAssumption, Apart, Inv, VersionInv, NEW s \in Side, NEW d \in Dirs, MakeDir(s, d)
    PROVE  VersionInv'
<1>1. /\ d \notin has[s] /\ May(s, d) /\ has' = [has EXCEPT ![s] = @ \cup {d}]
      /\ Tell(s, d, {d}, "content")
      /\ UNCHANGED <<file, kept, aside, rowDir, row, sent, job, clock, dead>>
  BY DEF MakeDir, state
<1>2. job.plan = {}
  BY <1>1, LeftAlone DEF May, VersionInv
<1>3. \A x \in Side, q \in Dirs \cup Files :
          slot'[x][q] = slot[x][q] \/ (x = s /\ q = d /\ slot'[x][q] = "content")
  BY <1>1, TellEffect DEF Inv, EventsOK
<1>4. Planned' /\ Steady' /\ NoNewMail
  BY <1>1, <1>2, UserFrame DEF VersionInv
<1>5. ASSUME NEW p \in Files PROVE PathInv(p)'
  <2>1. \A x \in Side : Leaving(x, p)' => Leaving(x, p)
    <3>1. \A x \in Side : slot'[x][p] = "delete" => Leaving(x, p)
      BY <1>3 DEF Leaving
    <3> QED BY <1>4, <3>1, NoMore
  <2>2. ASSUME NEW x \in Side, Coming(x, p[1])' PROVE Coming(x, p[1]) \/ CopySafe(x, p)
    <3>1. CASE x = s /\ p[1] = d
      BY <1>1, <3>1, InvFacts DEF CopySafe, FileOf
    <3>2. CASE ~(x = s /\ p[1] = d)
      <4>1. p[1] \in Dirs
        BY InvFacts
      <4>2. slot'[x][p[1]] = slot[x][p[1]]
        BY <1>3, <3>2, <4>1
      <4>3. Heralded(x, p[1])' => Heralded(x, p[1])
        BY <1>4, <4>1, <4>2, NoMore DEF Heralded
      <4> QED BY <1>1, <2>2, <4>3 DEF Coming, Copying
    <3> QED BY <3>1, <3>2
  <2>3. Erasing(p[1]) => Erasing(p[1])'
    BY <1>1 DEF Erasing
  <2> QED BY <1>1, <2>1, <2>2, <2>3, PathStays DEF VersionInv
<1>6. Numbered' /\ Copied'
  BY <1>1 DEF VersionInv, Numbered, Copied, In
<1>7. NothingLost'
  BY <1>1 DEF VersionInv, NothingLost, VersionsIn, FilesIn, FileOf
<1> QED BY <1>4, <1>5, <1>6, <1>7 DEF VersionInv

\* One file of a side changes while its directory is not in hand.
LEMMA CopiedElsewhere ==
    ASSUME Copied, NEW s \in Side, NEW p \in Files, job' = job,
           job.at = "idle" \/ p \notin In(job.dir), job.src \in Side,
           job.at \in {"copy", "note", "walkA", "walkB"} => job.dir \in Dirs,
           \A x \in Side, q \in Files : q # p => file'[x][q] = file[x][q]
    PROVE  Copied'
<1> SUFFICES ASSUME job.at \in {"copy", "note", "walkA", "walkB"}, NEW q \in In(job.dir)
             PROVE  \/ file'[job.src][q] \in {0, file'[Other(job.src)][q]}
                    \/ job.at = "copy" /\ q \in job.todo
  BY DEF Copied, In
<1>1. q # p /\ q \in Files /\ Other(job.src) \in Side
  BY FilesAre, Sides
<1>2. file'[job.src][q] = file[job.src][q] /\ file'[Other(job.src)][q] = file[Other(job.src)][q]
  BY <1>1
<1> QED BY <1>2 DEF Copied

LEMMA DeleteKeeps ==
    ASSUME TreeAssumption, Apart, Inv, VersionInv, NEW s \in Side, NEW p \in Files, Delete(s, p)
    PROVE  VersionInv'
<1> DEFINE o == Other(s)
<1>1. /\ file[s][p] # 0 /\ May(s, p[1]) /\ file' = [file EXCEPT ![s][p] = 0]
      /\ dead' = dead \cup {file[s][p]} /\ Tell(s, p[1], {p}, "delete")
      /\ UNCHANGED <<has, kept, aside, rowDir, row, sent, job, clock>>
  BY DEF Delete, state, FileOf
<1>2. /\ o \in Side /\ o # s /\ \A x \in Side : x \in {s, o}
      /\ p[1] \in Dirs /\ p \in In(p[1]) /\ p \notin Dirs
  BY Sides, FilesAre, InvFacts
<1>3. /\ job.plan = {} /\ (job.at = "idle" \/ p[1] # job.dir) /\ ~Erasing(p[1])
      /\ Clean(o, p[1])
  BY <1>1, LeftAlone DEF May, VersionInv, Apart
<1>4. \A x \in Side, q \in Dirs \cup Files :
          slot'[x][q] = slot[x][q] \/ (x = s /\ q = p /\ slot'[x][q] = "delete")
  BY <1>1, TellEffect DEF Inv, EventsOK
<1>5. Planned' /\ Steady' /\ NoNewMail
  BY <1>1, <1>3, UserFrame DEF VersionInv
<1>6. /\ \A x \in Side, q \in Files : x # s \/ q # p => file'[x][q] = file[x][q]
      /\ file'[s][p] = 0
  BY <1>1 DEF Inv, DiskOK
<1>7. file[o][p] \in dead \cup aside \cup {0, file[s][p]}
  <2>1. file[o][p] = row[o][p] /\ Other(o) = s
    BY <1>2, <1>3, Sides DEF Clean, Recorded, Settled
  <2>2. Blame(o, p)
    BY <1>2, <1>3 DEF VersionInv, PathInv
  <2> QED BY <1>1, <2>1, <2>2 DEF Blame, Twin, Spare
<1>8. ASSUME NEW q \in Files PROVE PathInv(q)'
  <2>1. CASE q = p
    <3>1. \A x \in Side : file'[x][p] \in dead' \cup aside \cup {0}
      <4> HIDE DEF o
      <4> QED BY <1>1, <1>2, <1>6, <1>7
    <3>2. aside' = aside
      BY <1>1
    <3> QED BY <2>1, <3>1, <3>2, PathSpare DEF Spare
  <2>2. CASE q # p
    <3>1. \A x \in Side : Leaving(x, q)' => Leaving(x, q)
      <4>1. \A x \in Side : slot'[x][q] = "delete" => Leaving(x, q)
        BY <1>4, <2>2 DEF Leaving
      <4> QED BY <1>5, <4>1, NoMore
    <3>2. \A x \in Side : Coming(x, q[1])' => Coming(x, q[1])
      <4>1. q[1] \in Dirs
        BY InvFacts
      <4>2. \A x \in Side : slot'[x][q[1]] = slot[x][q[1]]
        BY <1>2, <1>4, <4>1
      <4>3. \A x \in Side : Heralded(x, q[1])' => Heralded(x, q[1])
        BY <1>5, <4>1, <4>2, NoMore DEF Heralded
      <4> QED BY <1>1, <4>3 DEF Coming, Copying
    <3>3. Erasing(q[1]) => Erasing(q[1])'
      BY <1>1 DEF Erasing
    <3> QED BY <1>1, <1>6, <2>2, <3>1, <3>2, <3>3, PathStays DEF VersionInv
  <2> QED BY <2>1, <2>2
<1>9. Numbered'
  <2>1. 0 <= clock
    BY InvFacts
  <2> QED BY <1>1, <1>6, <2>1 DEF VersionInv, Numbered
<1>10. Copied'
  <2>1. job.at = "idle" \/ p \notin In(job.dir)
    BY <1>3 DEF In
  <2>2. job.src \in Side
    BY DEF Inv, JobOK, Job
  <2>3. job.at \in {"copy", "note", "walkA", "walkB"} => job.dir \in Dirs
    BY DEF Inv, JobOK, Working, At
  <2> QED BY <1>1, <1>6, <2>1, <2>2, <2>3, CopiedElsewhere DEF VersionInv
<1>11. NothingLost'
  <2>1. \A x \in Side, q \in Files :
           file[x][q] \in dead' \/ \E y \in Side : file'[y][q] = file[x][q]
    BY <1>1, <1>6
  <2> QED BY <1>1, <2>1, StillThere DEF VersionInv
<1> QED BY <1>5, <1>8, <1>9, <1>10, <1>11 DEF VersionInv

\* What a user may write: the other side has no news of the path, ...
LEMMA WriteBeside ==
    ASSUME TreeAssumption, Apart, Inv, VersionInv, NEW s \in Side, NEW p \in Files,
           May(s, p[1])
    PROVE  LET o == Other(s)
           IN /\ file[o][p] \in dead \cup aside \cup {0, file[s][p]}
              /\ row[o][p] # 0 => file[o][p] # 0
              /\ ~Leaving(o, p) /\ ~Heralded(o, p[1])
<1> DEFINE o == Other(s)
<1>1. o \in Side /\ Other(o) = s /\ p \in In(p[1])
  BY Sides, FilesAre
<1>2. Clean(o, p[1])
  BY DEF May, Apart
<1>3. file[o][p] = row[o][p] /\ row[o][p] = row[s][p]
  BY <1>1, <1>2, Sides DEF Clean, Recorded, Settled
<1>4. ~Pending(o, p) /\ ~Pending(o, p[1])
  BY <1>1, <1>2 DEF Clean
<1>5. Blame(o, p) /\ Blame(s, p)
  <2>1. ~Erasing(p[1])
    BY LeftAlone DEF May, VersionInv
  <2> QED BY <1>1, <2>1 DEF VersionInv, PathInv
<1>6. file[o][p] \in dead \cup aside \cup {0, file[s][p]}
  BY <1>1, <1>3, <1>5 DEF Blame, Twin, Spare
<1>7. ~Leaving(o, p) /\ ~Heralded(o, p[1])
  BY <1>4 DEF Leaving, Heralded, Pending, Sent
<1> QED BY <1>3, <1>6, <1>7

\* ... or the path is new, on this side at least.
LEMMA WriteNew ==
    ASSUME TreeAssumption, Inv, VersionInv, NEW s \in Side, NEW p \in Files,
           MayWrite(s, p), ~May(s, p[1])
    PROVE  LET o == Other(s)
           IN /\ file[s][p] = 0 /\ row["A"][p] = 0 /\ row["B"][p] = 0 /\ ~Leaving(o, p)
              /\ file[o][p] = 0 \/ \A x \in Side : ~Heralded(x, p[1])
              /\ Leaving(s, p) => file[o][p] \in dead \cup aside \cup {0}
<1> DEFINE o == Other(s)
<1>1. /\ file[s][p] = 0 /\ Unknown(p) /\ ~Leaving(o, p)
      /\ file[o][p] = 0 \/ \A x \in Side : ~Pending(x, p[1])
  BY DEF MayWrite
<1>2. \A x \in Side : ~Pending(x, p[1]) => ~Heralded(x, p[1])
  BY DEF Heralded, Pending, Sent
<1>3. Departure(s, p) /\ Other(o) = s
  BY Sides DEF VersionInv, PathInv
<1>4. Leaving(s, p) => file[o][p] \in dead \cup aside \cup {0}
  BY <1>1, <1>3 DEF Departure, Twin, Spare
<1> QED BY <1>1, <1>2, <1>4 DEF Unknown

LEMMA WriteKeeps ==
    ASSUME TreeAssumption, Apart, Inv, VersionInv, NEW s \in Side, NEW p \in Files, Write(s, p)
    PROVE  VersionInv'
<1> DEFINE o == Other(s)
           n == clock + 1
<1>1. /\ MayWrite(s, p) /\ file' = [file EXCEPT ![s][p] = n] /\ clock' = n
      /\ dead' = dead \cup ({file[s][p]} \ {0}) /\ Tell(s, p[1], {p}, "content")
      /\ UNCHANGED <<has, kept, aside, rowDir, row, sent, job>>
  BY DEF Write, state
<1>2. /\ o \in Side /\ o # s /\ \A x \in Side : x \in {s, o}
      /\ p[1] \in Dirs /\ p \in In(p[1]) /\ p \notin Dirs /\ Other(o) = s
  BY Sides, FilesAre, InvFacts
<1>3. job.plan = {} /\ (job.at = "idle" \/ p[1] # job.dir)
  <2>1. Free(p[1])
    BY <1>1 DEF MayWrite, May
  <2> QED BY <2>1, LeftAlone DEF VersionInv
<1>4. \A x \in Side, q \in Dirs \cup Files :
          slot'[x][q] = slot[x][q] \/ (x = s /\ q = p /\ slot'[x][q] = "content")
  BY <1>1, TellEffect DEF Inv, EventsOK
<1>5. Planned' /\ Steady' /\ NoNewMail
  BY <1>1, <1>3, UserFrame DEF VersionInv
<1>6. n \in Nat /\ n # 0 /\ n > clock /\ clock \in Nat
  BY InvFacts
<1>7. \A x \in Side, q \in Files : file'[x][q] = IF x = s /\ q = p THEN n ELSE file[x][q]
  <2> HIDE DEF n
  <2> QED BY <1>1 DEF Inv, DiskOK
<1>8. \A x \in Side : row[x][p] # n
  <2>1. ASSUME NEW x \in Side PROVE row[x][p] # n
    <3>1. row[x][p] <= clock /\ row[x][p] \in Nat
      BY InvFacts DEF VersionInv, Numbered
    <3> QED BY <1>6, <3>1
  <2> QED BY <2>1
<1> HIDE DEF n, o
<1>9. \A x \in Side, q \in Files : Leaving(x, q)' => Leaving(x, q)
  <2>1. \A x \in Side, q \in Files : slot'[x][q] = "delete" => Leaving(x, q)
    BY <1>4 DEF Leaving
  <2> QED BY <1>5, <2>1, NoMore
<1>10. \A x \in Side, d \in Dirs : Coming(x, d)' => Coming(x, d)
  <2>1. \A x \in Side, d \in Dirs : slot'[x][d] = slot[x][d]
    BY <1>2, <1>4
  <2>2. \A x \in Side, d \in Dirs : Heralded(x, d)' => Heralded(x, d)
    BY <1>5, <2>1, NoMore DEF Heralded
  <2> QED BY <1>1, <2>2 DEF Coming, Copying
<1>11. \A x \in Side : ~Copying(x, p[1])
  BY <1>3 DEF Copying
<1>12. PathInv(p)'
  <2>1. file'[s][p] = n /\ file'[o][p] = file[o][p] /\ row' = row
    BY <1>1, <1>2, <1>7
  <2>2. CASE May(s, p[1])
    <3>1. /\ file[o][p] \in dead \cup aside \cup {0, file[s][p]}
          /\ row[o][p] # 0 => file[o][p] # 0
          /\ ~Leaving(o, p) /\ ~Heralded(o, p[1])
      BY <2>2, WriteBeside DEF o
    <3>2. Spare(o, p)'
      BY <1>1, <2>1, <3>1 DEF Spare
    <3>3. Blame(s, p)' /\ Departure(s, p)' /\ Arrival(s, p)'
      BY <1>6, <1>8, <2>1, <3>1, <3>2, <1>2, <1>9
      DEF Blame, Departure, Arrival, CopySafe, Twin, o
    <3>4. Blame(o, p)'
      BY <1>2, <2>1, <3>1, <3>2 DEF Blame, Twin
    <3>5. Departure(o, p)' /\ Arrival(o, p)'
      BY <1>2, <1>9, <1>10, <1>11, <3>1 DEF Departure, Arrival, Coming
    <3> QED BY <1>2, <3>3, <3>4, <3>5 DEF PathInv
  <2>3. CASE ~May(s, p[1])
    <3>1. /\ file[s][p] = 0 /\ row["A"][p] = 0 /\ row["B"][p] = 0 /\ ~Leaving(o, p)
          /\ file[o][p] = 0 \/ \A x \in Side : ~Heralded(x, p[1])
          /\ Leaving(s, p) => file[o][p] \in dead \cup aside \cup {0}
      BY <1>1, <2>3, WriteNew DEF o
    <3>2. Blame(s, p)' /\ Blame(o, p)'
      BY <1>2, <2>1, <3>1, Sides DEF Blame
    <3>3. Departure(s, p)'
      BY <1>1, <1>2, <1>9, <2>1, <3>1 DEF Departure, Twin, Spare, o
    <3>4. Departure(o, p)'
      BY <1>2, <1>9, <3>1 DEF Departure
    <3>5. ASSUME NEW x \in Side, Coming(x, p[1])' PROVE CopySafe(x, p)'
      <4>1. file[o][p] = 0
        BY <1>2, <1>10, <1>11, <3>1, <3>5 DEF Coming
      <4>2. CASE x = s
        BY <1>2, <2>1, <4>1, <4>2 DEF CopySafe, Twin, Spare, o
      <4>3. CASE x = o
        BY <2>1, <4>1, <4>3 DEF CopySafe, FileOf
      <4> QED BY <1>2, <4>2, <4>3
    <3> QED BY <1>2, <3>2, <3>3, <3>4, <3>5 DEF PathInv, Arrival
  <2> QED BY <2>2, <2>3
<1>13. ASSUME NEW q \in Files, q # p PROVE PathInv(q)'
  <2>1. q[1] \in Dirs
    BY InvFacts
  <2>2. Erasing(q[1]) => Erasing(q[1])'
    BY <1>1 DEF Erasing
  <2> QED BY <1>1, <1>7, <1>9, <1>10, <1>13, <2>1, <2>2, PathStays DEF VersionInv
<1>14. Numbered'
  <2>1. ASSUME NEW x \in Side, NEW q \in Files PROVE file'[x][q] <= n /\ row'[x][q] <= n
    <3>1. /\ file[x][q] <= clock /\ file[x][q] \in Nat
          /\ row[x][q] <= clock /\ row[x][q] \in Nat
      BY InvFacts DEF VersionInv, Numbered
    <3>2. file[x][q] <= n /\ row[x][q] <= n /\ n <= n
      BY <1>6, <3>1
    <3> QED BY <1>1, <1>7, <3>2
  <2> QED BY <1>1, <2>1 DEF Numbered
<1>15. Copied'
  <2>1. job.at = "idle" \/ p \notin In(job.dir)
    BY <1>3 DEF In
  <2>2. job.src \in Side
    BY DEF Inv, JobOK, Job
  <2>3. job.at \in {"copy", "note", "walkA", "walkB"} => job.dir \in Dirs
    BY DEF Inv, JobOK, Working, At
  <2> QED BY <1>1, <1>7, <2>1, <2>2, <2>3, CopiedElsewhere DEF VersionInv
<1>16. NothingLost'
  <2>1. SUFFICES ASSUME NEW v \in 1..n, v \notin dead', v \notin aside
                 PROVE  \E x \in Side, d \in Dirs : v \in VersionsIn(x, d)'
    BY <1>1 DEF NothingLost
  <2>2. CASE v = n
    <3>1. v \in VersionsIn(s, p[1])'
      BY <1>2, <1>6, <1>7, <2>2 DEF VersionsIn, FilesIn, FileOf, In
    <3> QED BY <1>2, <3>1
  <2>3. CASE v # n
    <3>1. v \in 1..clock /\ v # 0
      BY <1>6, <2>3 DEF n
    <3>2. PICK x \in Side, d \in Dirs : v \in VersionsIn(x, d)
      BY <1>1, <2>1, <3>1 DEF VersionInv, NothingLost
    <3>3. CASE v \in kept[x][d]
      BY <1>1, <3>2, <3>3 DEF VersionsIn
    <3>4. CASE v \notin kept[x][d]
      <4>1. PICK q \in In(d) : v = file[x][q] /\ q \in Files
        BY <3>2, <3>4, FilesAre DEF VersionsIn, FilesIn
      <4>2. file'[x][q] = v
        BY <1>1, <1>7, <2>1, <3>1, <4>1
      <4>3. v \in VersionsIn(x, d)'
        BY <3>1, <4>1, <4>2 DEF VersionsIn, FilesIn, FileOf, In
      <4> QED BY <3>2, <4>3
    <3> QED BY <3>3, <3>4
  <2> QED BY <2>2, <2>3
<1> QED BY <1>5, <1>12, <1>13, <1>14, <1>15, <1>16 DEF VersionInv

--------------------------------------------------------------------------------
(* Steps that change no file and no row of one.                                   *)
LEMMA FilesStay ==
    ASSUME TreeAssumption, Inv, VersionInv, UNCHANGED <<file, row, clock, dead, aside>>,
           \A d \in Dirs : Erasing(d) => Erasing(d)',
           \A x \in Side, d \in Dirs : kept[x][d] \subseteq kept'[x][d],
           \A x \in Side, q \in Files : Leaving(x, q)' => Leaving(x, q),
           \A x \in Side, q \in Files : Coming(x, q[1])' => Coming(x, q[1]) \/ CopySafe(x, q)
    PROVE  Numbered' /\ NothingLost' /\ \A p \in Files : PathInv(p)'
<1>1. ASSUME NEW p \in Files PROVE PathInv(p)'
  BY InvFacts, PathStays DEF VersionInv
<1>2. NothingLost'
  BY StillThere DEF VersionInv
<1>3. Numbered'
  BY DEF VersionInv, Numbered
<1> QED BY <1>1, <1>2, <1>3

\* What is on its way stays, or less of it.
LEMMA EventsFewer ==
    ASSUME TreeAssumption, Inv, VersionInv, NoNewMail,
           \A x \in Side, q \in Dirs \cup Files : slot'[x][q] \in {slot[x][q], "none"}
    PROVE  /\ \A x \in Side, q \in Files : Leaving(x, q)' => Leaving(x, q)
           /\ \A x \in Side, d \in Dirs : Heralded(x, d)' => Heralded(x, d)
<1>1. \A x \in Side, q \in Files : slot'[x][q] = "delete" => Leaving(x, q)
  BY DEF Leaving
<1>2. \A x \in Side, d \in Dirs : slot'[x][d] = "content" => Heralded(x, d)
  BY DEF Heralded
<1> QED BY <1>1, <1>2, NoMore

\* Only the operation goes on, or another begins where its directory may come.
LEMMA JobGoesOn ==
    ASSUME TreeAssumption, Inv, VersionInv, NoNewMail,
           \A x \in Side, q \in Dirs \cup Files : slot'[x][q] \in {slot[x][q], "none"},
           UNCHANGED <<has, file, row, clock, dead, aside>>,
           \A x \in Side, d \in Dirs : kept[x][d] \subseteq kept'[x][d],
           job.at # "unrecord", job'.at \in At \ {"move", "renote", "unrecord"},
           job'.echo \in {"none", "content"},
           \A x \in Side, q \in Files :
               Copying(x, q[1])' => Coming(x, q[1]) \/ CopySafe(x, q)
    PROVE  Steady' /\ Numbered' /\ NothingLost' /\ \A p \in Files : PathInv(p)'
<1>1. /\ \A x \in Side, q \in Files : Leaving(x, q)' => Leaving(x, q)
      /\ \A x \in Side, d \in Dirs : Heralded(x, d)' => Heralded(x, d)
  BY EventsFewer
<1>2. Steady'
  BY SteadyRemains DEF VersionInv
<1>3. \A x \in Side, q \in Files : Coming(x, q[1])' => Coming(x, q[1]) \/ CopySafe(x, q)
  BY <1>1, InvFacts DEF Coming
<1>4. \A d \in Dirs : ~Erasing(d)
  BY DEF Erasing
<1> QED BY <1>1, <1>2, <1>3, <1>4, FilesStay

LEMMA TimerKeeps ==
    ASSUME TreeAssumption, Inv, VersionInv, NEW s \in Side, NEW p \in Dirs \cup Files,
           TimerFires(s, p)
    PROVE  VersionInv'
<1> DEFINE e == [side |-> s, kind |-> slot[s][p], path |-> p, from |-> NoDir]
<1>1. /\ slot[s][p] # "none" /\ sent' = Append(sent, e) /\ Slot(s, {p}, "none")
      /\ UNCHANGED <<has, file, kept, aside, rowDir, row, job, clock, dead>>
  BY DEF TimerFires, disk, state, bounds
<1>2. \A x \in Side, q \in Dirs \cup Files :
          slot'[x][q] = IF x = s /\ q = p THEN "none" ELSE slot[x][q]
  BY <1>1, SlotEffect DEF Inv, EventsOK
<1>3. slot[s][p] \in {"content", "delete"}
  BY <1>1 DEF Inv, EventsOK, Slots
<1>4. /\ e.side = s /\ e.kind = slot[s][p] /\ e.path = p
      /\ \A i \in DOMAIN sent' : (i \in DOMAIN sent /\ sent'[i] = sent[i]) \/ sent'[i] = e
  <2>1. sent \in Seq(Letters)
    BY DEF Inv, EventsOK
  <2> HIDE DEF e
  <2>2. \A i \in DOMAIN sent' : (i \in DOMAIN sent /\ sent'[i] = sent[i]) \/ sent'[i] = e
    BY <1>1, <2>1
  <2> QED BY <2>2 DEF e
<1> HIDE DEF e
<1>5. \A x \in Side, q \in Files : Leaving(x, q)' => Leaving(x, q)
  BY <1>2, <1>4 DEF Leaving
<1>6. \A x \in Side, d \in Dirs : Heralded(x, d)' => Heralded(x, d)
  BY <1>2, <1>4 DEF Heralded
<1>7. \A x \in Side, q \in Files : Coming(x, q[1])' => Coming(x, q[1])
  BY <1>1, <1>6, InvFacts DEF Coming, Copying
<1>8. Numbered' /\ NothingLost' /\ \A q \in Files : PathInv(q)'
  <2>1. \A d \in Dirs : Erasing(d) => Erasing(d)'
    BY <1>1 DEF Erasing
  <2> QED BY <1>1, <1>5, <1>7, <2>1, FilesStay
<1>9. Steady'
  BY <1>1, <1>3, <1>4 DEF VersionInv, Steady
<1>10. Copied' /\ Planned'
  BY <1>1 DEF VersionInv, Copied, Planned, In
<1> QED BY <1>8, <1>9, <1>10 DEF VersionInv

LEMMA CrashKeeps ==
    ASSUME TreeAssumption, Inv, VersionInv, Crash \/ Boot, job.at # "unrecord"
    PROVE  VersionInv'
<1>1. UNCHANGED <<has, file, kept, aside, rowDir, row, clock, dead>>
  BY DEF Crash, Boot, disk, state, bounds
<1>2. /\ job'.at \in {"idle", "scan"} /\ job'.echo = "none" /\ job'.plan = {}
      /\ sent' \in {sent, << >>}
      /\ \A x \in Side, q \in Dirs \cup Files : slot'[x][q] \in {slot[x][q], "none"}
  <2>2. CASE Crash
    BY <2>2, Resting DEF Crash
  <2>3. CASE Boot
    BY <2>3, Resting DEF Boot, events
  <2> QED BY <2>2, <2>3
<1>3. NoNewMail
  BY <1>2, Mail DEF Inv
<1>4. \A x \in Side, d \in Dirs : ~Copying(x, d)'
  BY <1>2 DEF Copying
<1>5. Steady' /\ Numbered' /\ NothingLost' /\ \A p \in Files : PathInv(p)'
  BY <1>1, <1>2, <1>3, <1>4, InvFacts, JobGoesOn DEF At
<1>6. Copied' /\ Planned'
  BY <1>2 DEF Copied, Planned
<1> QED BY <1>5, <1>6 DEF VersionInv

--------------------------------------------------------------------------------
(* A file is propagated, or removed, by an event or by a reconciliation.          *)

\* propagateContent: what is overwritten is preserved, or nobody's, or the same.
LEMMA PropagateEffect ==
    ASSUME TreeAssumption, Inv, NEW s \in Side, NEW p \in Files, NEW forced,
           PropagateContent(s, p, forced)
    PROVE  LET t == Other(s)
           IN /\ \A x \in Side, q \in Files :
                     /\ q # p => file'[x][q] = file[x][q] /\ row'[x][q] = row[x][q]
                     /\ file'[x][p] = IF x = t /\ file[s][p] # 0 THEN file[s][p] ELSE file[x][p]
                     /\ row'[x][p] = IF file[s][p] # 0 THEN file[s][p] ELSE row[x][p]
              /\ \A x \in Side, d \in Dirs :
                     /\ d \in has'[x] <=> d \in has[x] \/ (x = t /\ d = p[1])
                     /\ kept[x][d] \subseteq kept'[x][d]
              /\ file[s][p] # 0 /\ Differs(s, p, forced) => file[t][p] \in kept'[t][p[1]]
              /\ \A x \in Side, q \in Dirs \cup Files :
                     \/ slot'[x][q] = slot[x][q]
                     \/ x = t /\ q = p[1] /\ p[1] \notin has[t] /\ slot'[x][q] = "content"
              /\ UNCHANGED <<aside, rowDir>>
<1> DEFINE t == Other(s)
           d == p[1]
           v == file[s][p]
<1>1. t \in Side /\ d \in Dirs /\ \A x \in Side : x \in {s, t}
  BY Sides, FilesAre
<1>2. /\ has' = [has EXCEPT ![t] = @ \cup {d}] /\ aside' = aside /\ rowDir' = rowDir
      /\ IF d \notin has[t] THEN Slot(t, {d}, "content") ELSE slot' = slot
      /\ IF v = 0 THEN UNCHANGED <<file, kept, row>>
         ELSE /\ file' = [file EXCEPT ![t][p] = v] /\ SetRow(p, v, v)
              /\ kept' = IF Differs(s, p, forced)
                         THEN [kept EXCEPT ![t][d] = @ \cup {file[t][p]}] ELSE kept
  BY DEF PropagateContent
<1> HIDE DEF t, d, v
<1>3. \A x \in Side, q \in Files :
          /\ q # p => file'[x][q] = file[x][q]
          /\ file'[x][p] = IF x = t /\ v # 0 THEN v ELSE file[x][p]
  BY <1>1, <1>2 DEF Inv, DiskOK
<1>4. \A x \in Side, q \in Files :
          /\ q # p => row'[x][q] = row[x][q]
          /\ row'[x][p] = IF v # 0 THEN v ELSE row[x][p]
  BY <1>1, <1>2, Sides DEF Inv, RowsOK, SetRow
<1>5. \A x \in Side, e \in Dirs : e \in has'[x] <=> e \in has[x] \/ (x = t /\ e = d)
  BY <1>1, <1>2 DEF Inv, DiskOK
<1>6. /\ \A x \in Side, e \in Dirs : kept[x][e] \subseteq kept'[x][e]
      /\ v # 0 /\ Differs(s, p, forced) => file[t][p] \in kept'[t][d]
  BY <1>1, <1>2 DEF Inv, DiskOK
<1>7. \A x \in Side, q \in Dirs \cup Files :
          \/ slot'[x][q] = slot[x][q]
          \/ x = t /\ q = d /\ d \notin has[t] /\ slot'[x][q] = "content"
  BY <1>1, <1>2, SlotEffect DEF Inv, EventsOK
<1> QED BY <1>2, <1>3, <1>4, <1>5, <1>6, <1>7 DEF t, d, v

LEMMA PropagateKeeps ==
    ASSUME TreeAssumption, Inv, VersionInv, NEW s \in Side, NEW p \in Files, NEW forced,
           PropagateContent(s, p, forced), NoNewMail, UNCHANGED <<clock, dead>>,
           job.at # "unrecord", job'.at \in {"idle", "next"}, job'.echo \in {"none", "content"}
    PROVE  Steady' /\ Numbered' /\ NothingLost' /\ \A q \in Files : PathInv(q)'
<1> DEFINE t == Other(s)
           v == file[s][p]
<1>1. t \in Side /\ s # t /\ Other(t) = s /\ p[1] \in Dirs /\ \A x \in Side : x \in {s, t}
  BY Sides, FilesAre
<1>2. /\ \A x \in Side, q \in Files :
             /\ q # p => file'[x][q] = file[x][q] /\ row'[x][q] = row[x][q]
             /\ file'[x][p] = IF x = t /\ v # 0 THEN v ELSE file[x][p]
             /\ row'[x][p] = IF v # 0 THEN v ELSE row[x][p]
      /\ \A x \in Side, d \in Dirs :
             /\ d \in has'[x] <=> d \in has[x] \/ (x = t /\ d = p[1])
             /\ kept[x][d] \subseteq kept'[x][d]
      /\ v # 0 /\ Differs(s, p, forced) => file[t][p] \in kept'[t][p[1]]
      /\ \A x \in Side, q \in Dirs \cup Files :
             \/ slot'[x][q] = slot[x][q]
             \/ x = t /\ q = p[1] /\ p[1] \notin has[t] /\ slot'[x][q] = "content"
      /\ UNCHANGED <<aside, rowDir>>
  BY PropagateEffect
<1> HIDE DEF t, v
<1>3. \A x \in Side, q \in Files : Leaving(x, q)' => Leaving(x, q)
  <2>1. \A x \in Side, q \in Files : slot'[x][q] = "delete" => Leaving(x, q)
    BY <1>2 DEF Leaving
  <2> QED BY <2>1, NoMore
<1>4. ASSUME NEW x \in Side, NEW q \in Files, Coming(x, q[1])'
      PROVE  Coming(x, q[1]) \/ CopySafe(x, q)
  <2>1. q[1] \in Dirs
    BY InvFacts
  <2>2. Heralded(x, q[1])'
    BY <1>4 DEF Coming, Copying
  <2>3. CASE x = t /\ q[1] = p[1] /\ p[1] \notin has[t]
    BY <2>3, InvFacts DEF CopySafe, FileOf
  <2>4. CASE ~(x = t /\ q[1] = p[1] /\ p[1] \notin has[t])
    <3>1. slot'[x][q[1]] = slot[x][q[1]]
      BY <1>2, <2>1, <2>4
    <3> QED BY <2>1, <2>2, <3>1, NoMore DEF Heralded, Coming
  <2> QED BY <2>3, <2>4
<1>10. \A d \in Dirs : ~Erasing(d)
  BY DEF Erasing
<1>5. ASSUME NEW q \in Files, q # p \/ v = 0 PROVE PathInv(q)'
  <2>1. \A x \in Side : file'[x][q] = file[x][q] /\ row'[x][q] = row[x][q]
    BY <1>2, <1>5
  <2>2. ~Erasing(q[1]) /\ aside' = aside
    BY <1>2, <1>10, InvFacts
  <2> QED BY <1>3, <1>4, <2>1, <2>2, PathStays DEF VersionInv
<1>6. ASSUME v # 0 PROVE PathInv(p)'
  <2>1. \A x \in Side : file'[x][p] = v
    BY <1>1, <1>2, <1>6 DEF v
  <2>2. ASSUME NEW x \in Side, Leaving(x, p)', Leaving(Other(x), p)' PROVE Spare(x, p)'
    <3>1. Leaving(s, p) /\ Leaving(t, p)
      BY <1>1, <1>3, <2>2, Sides
    <3>2. Spare(s, p)
      BY <1>1, <3>1 DEF VersionInv, PathInv, Departure, t
    <3> QED BY <1>2, <1>6, <2>1, <3>2 DEF Spare, v
  <2>3. \A x \in Side : Twin(x, p)'
    BY <2>1, Sides DEF Twin
  <2> QED BY <2>2, <2>3, PathTwin
<1>7. NothingLost'
  <2>1. ASSUME NEW x \in Side, NEW q \in Files
        PROVE  \/ file[x][q] \in dead' \cup aside' \cup {0}
               \/ \E y \in Side : file'[y][q] = file[x][q] \/ file[x][q] \in kept'[y][q[1]]
    <3>1. CASE ~(x = t /\ q = p /\ v # 0)
      BY <1>2, <3>1
    <3>2. CASE x = t /\ q = p /\ v # 0
      <4>1. file'[t][p] = v
        BY <1>1, <1>2, <3>2
      <4>2. CASE Differs(s, p, forced)
        BY <1>1, <1>2, <3>2, <4>2
      <4>3. CASE ~Differs(s, p, forced)
        <5>1. file[t][p] \in {0, v} \/ (row[t][p] # 0 /\ row[t][p] = file[t][p])
          BY <4>3 DEF Differs, FileOf, t, v
        <5>2. Blame(t, p)
          BY <1>1, <1>10 DEF VersionInv, PathInv
        <5>3. file[t][p] \in dead \cup aside \cup {0, v}
          BY <1>1, <3>2, <5>1, <5>2 DEF Blame, Twin, Spare, v
        <5> QED BY <1>1, <1>2, <3>2, <4>1, <5>3
      <4> QED BY <4>2, <4>3
    <3> QED BY <3>1, <3>2
  <2> QED BY <1>2, <2>1, StillThere DEF VersionInv
<1>8. Numbered'
  BY <1>1, <1>2 DEF VersionInv, Numbered, v
<1>9. Steady'
  BY SteadyRemains DEF VersionInv, At
<1> QED BY <1>5, <1>6, <1>7, <1>8, <1>9

\* A deletion is propagated to side t, or the reconciliation removes what one side has.
LEMMA RemoveKeeps ==
    ASSUME TreeAssumption, Inv, VersionInv, NEW t \in Side, NEW p \in Files, RemoveFile(t, p),
           Twin(t, p), Leaving(t, p) => Spare(Other(t), p),
           NoNewMail, UNCHANGED <<clock, dead>>, job.at # "unrecord",
           job'.at \in {"idle", "next"}, job'.echo \in {"none", "content"}
    PROVE  Steady' /\ Numbered' /\ NothingLost' /\ \A q \in Files : PathInv(q)'
<1> DEFINE o == Other(t)
<1>1. o \in Side /\ o # t /\ Other(o) = t /\ \A x \in Side : x \in {t, o}
  BY Sides
<1>2. /\ file' = [file EXCEPT ![t][p] = 0] /\ SetRow(p, 0, 0)
      /\ UNCHANGED <<has, kept, aside, rowDir, slot>>
  BY DEF RemoveFile
<1>3. /\ \A x \in Side, q \in Files :
             file'[x][q] = IF x = t /\ q = p THEN 0 ELSE file[x][q]
      /\ \A x \in Side, q \in Files : row'[x][q] = IF q = p THEN 0 ELSE row[x][q]
  BY <1>2, Sides DEF Inv, DiskOK, RowsOK, SetRow
<1>4. /\ \A x \in Side, q \in Files : Leaving(x, q)' => Leaving(x, q)
      /\ \A x \in Side, d \in Dirs : Heralded(x, d)' => Heralded(x, d)
  BY <1>2, EventsFewer
<1>5. \A x \in Side, q \in Files : Coming(x, q[1])' => Coming(x, q[1])
  BY <1>4, InvFacts DEF Coming, Copying
<1>6. ASSUME NEW q \in Files, q # p PROVE PathInv(q)'
  <2>1. ~Erasing(q[1])
    BY DEF Erasing
  <2> QED BY <1>2, <1>3, <1>4, <1>5, <1>6, <2>1, PathStays DEF VersionInv
<1>7. PathInv(p)'
  <2>1. /\ file'[t][p] = 0 /\ file'[o][p] = file[o][p]
        /\ \A x \in Side : row'[x][p] = 0
    BY <1>1, <1>3
  <2>2. \A x \in Side : Blame(x, p)'
    BY <2>1 DEF Blame
  <2>3. Spare(t, p)' /\ (Leaving(t, p)' => Spare(o, p)')
    BY <1>2, <1>4, <2>1 DEF Spare
  <2>4. Departure(t, p)' /\ Departure(o, p)'
    BY <1>1, <2>3 DEF Departure, Twin
  <2>5. Arrival(t, p)' /\ Arrival(o, p)'
    BY <1>1, <2>1, <2>3 DEF Arrival, CopySafe, Twin, FileOf
  <2> QED BY <1>1, <2>2, <2>4, <2>5 DEF PathInv
<1>8. NothingLost'
  <2>1. \A x \in Side, q \in Files :
           file[x][q] \in dead' \cup aside' \cup {0} \/ \E y \in Side : file'[y][q] = file[x][q]
    BY <1>1, <1>2, <1>3 DEF Twin, Spare
  <2> QED BY <1>2, <2>1, StillThere DEF VersionInv
<1>9. Numbered'
  <2>1. 0 <= clock
    BY InvFacts
  <2> QED BY <1>3, <2>1 DEF VersionInv, Numbered
<1>10. Steady'
  BY SteadyRemains DEF VersionInv, At
<1> QED BY <1>6, <1>7, <1>8, <1>9, <1>10

--------------------------------------------------------------------------------
(* The worker takes an event.                                                     *)
LEMMA IdleFacts ==
    ASSUME TreeAssumption, Inv, VersionInv, NEW k, Taking(k)
    PROVE  /\ Ev.side \in Side /\ Ev \in Letters /\ Ev.kind = k /\ NoNewMail
           /\ job = Idle /\ job.at = "idle" /\ job.echo = "none" /\ job.plan = {}
           /\ 1 \in DOMAIN sent /\ sent[1] = Ev
<1>1. sent \in Seq(Letters) /\ sent # << >> /\ sent' = Tail(sent) /\ job = Idle
  BY DEF Taking, Inv, EventsOK
<1>2. NoNewMail
  BY <1>1, Mail DEF Inv
<1>3. 1 \in DOMAIN sent /\ sent[1] = Ev
  BY <1>1 DEF Ev
<1> QED BY <1>1, <1>2, <1>3, EvTypes DEF Idle, Inv

LEMMA IdleKeeps ==
    ASSUME job.at = "idle", job.plan = {}, job' = job
    PROVE  Copied' /\ Planned'
BY DEF Copied, Planned

LEMMA ProcessFileKeeps ==
    ASSUME TreeAssumption, Inv, VersionInv, ProcessFile
    PROVE  VersionInv'
<1> DEFINE s == Ev.side
           p == Ev.path
<1>1. /\ Taking("content") /\ p \in Files /\ job' = job /\ UNCHANGED <<clock, dead>>
      /\ PropagateContent(s, p, FALSE) \/ UNCHANGED <<disk, state, slot>>
  BY DEF ProcessFile, Still, bounds
<1>2. /\ s \in Side /\ NoNewMail /\ job.at = "idle" /\ job.echo = "none" /\ job.plan = {}
  BY <1>1, IdleFacts
<1> HIDE DEF s, p
<1>3. Steady' /\ Numbered' /\ NothingLost' /\ \A q \in Files : PathInv(q)'
  <2>1. CASE PropagateContent(s, p, FALSE)
    BY <1>1, <1>2, <2>1, PropagateKeeps
  <2>2. CASE UNCHANGED <<disk, state, slot>>
    <3>1. UNCHANGED <<has, file, row, rowDir, kept, aside, slot, job>>
      BY <1>1, <2>2 DEF disk, state
    <3>2. \A x \in Side, d \in Dirs : ~Copying(x, d)'
      BY <1>1, <1>2 DEF Copying
    <3> QED BY <1>1, <1>2, <3>1, <3>2, InvFacts, JobGoesOn DEF At
  <2> QED BY <1>1, <2>1, <2>2
<1> QED BY <1>1, <1>2, <1>3, IdleKeeps DEF VersionInv

LEMMA ProcessFileGoneKeeps ==
    ASSUME TreeAssumption, Inv, VersionInv, ProcessFileGone
    PROVE  VersionInv'
<1> DEFINE s == Ev.side
           t == Other(s)
           p == Ev.path
<1>1. /\ Taking("delete") /\ p \in Files /\ job' = job /\ UNCHANGED <<clock, dead>>
      /\ RemoveFile(t, p) \/ UNCHANGED <<disk, state, slot>>
  BY DEF ProcessFileGone, Still, bounds
<1>2. /\ s \in Side /\ NoNewMail /\ job.at = "idle" /\ job.echo = "none" /\ job.plan = {}
      /\ 1 \in DOMAIN sent /\ sent[1] = Ev /\ Ev.kind = "delete"
  BY <1>1, IdleFacts
<1>3. Leaving(s, p)
  BY <1>2 DEF Leaving
<1>4. t \in Side /\ Other(t) = s
  BY <1>2, Sides
<1>5. Twin(t, p) /\ (Leaving(t, p) => Spare(s, p))
  BY <1>1, <1>2, <1>3 DEF VersionInv, PathInv, Departure
<1> HIDE DEF s, t, p
<1>6. Steady' /\ Numbered' /\ NothingLost' /\ \A q \in Files : PathInv(q)'
  <2>1. CASE RemoveFile(t, p)
    BY <1>1, <1>2, <1>4, <1>5, <2>1, RemoveKeeps
  <2>2. CASE UNCHANGED <<disk, state, slot>>
    <3>1. UNCHANGED <<has, file, row, rowDir, kept, aside, slot, job>>
      BY <1>1, <2>2 DEF disk, state
    <3>2. \A x \in Side, d \in Dirs : ~Copying(x, d)'
      BY <1>1, <1>2 DEF Copying
    <3> QED BY <1>1, <1>2, <3>1, <3>2, InvFacts, JobGoesOn DEF At
  <2> QED BY <1>1, <2>1, <2>2
<1> QED BY <1>1, <1>2, <1>6, IdleKeeps DEF VersionInv

LEMMA ProcessDirKeeps ==
    ASSUME TreeAssumption, Inv, VersionInv, ProcessDir
    PROVE  VersionInv'
<1> DEFINE s == Ev.side
           d == Ev.path
<1>1. /\ Taking("content") /\ d \in Dirs /\ job' = StartDir(s, d)
      /\ UNCHANGED <<has, file, row, rowDir, kept, aside, slot, clock, dead>>
  BY DEF ProcessDir, Still, bounds, disk, state
<1>2. /\ s \in Side /\ NoNewMail /\ job = Idle
      /\ job.at = "idle" /\ job.echo = "none" /\ job.plan = {}
      /\ 1 \in DOMAIN sent /\ sent[1] = Ev /\ Ev.kind = "content"
  BY <1>1, IdleFacts
<1>3. Heralded(s, d)
  BY <1>2 DEF Heralded
<1> HIDE DEF s, d
<1>4. job'.at = "mkdir" /\ job'.src = s /\ job'.dir = d /\ job'.echo = "none" /\ job'.plan = {}
  BY <1>1, <1>2 DEF StartDir, Idle
<1>5. \A x \in Side, q \in Files : Copying(x, q[1])' => Coming(x, q[1])
  BY <1>3, <1>4 DEF Copying, Coming
<1>6. Steady' /\ Numbered' /\ NothingLost' /\ \A q \in Files : PathInv(q)'
  BY <1>1, <1>2, <1>4, <1>5, JobGoesOn DEF At
<1>7. Copied' /\ Planned'
  BY <1>4 DEF Copied, Planned
<1> QED BY <1>6, <1>7 DEF VersionInv

--------------------------------------------------------------------------------
(* A directory is copied, then recorded.                                          *)
LEMMA Handling ==
    ASSUME TreeAssumption, Inv, VersionInv,
           NEW label \in {"mkdir", "copy", "note", "walkA", "walkB", "inspect", "aside",
                      "unrecord"},
           Doing(label)
    PROVE  /\ D \in Dirs /\ job.dir = D /\ job.src \in Side /\ Dst \in Side /\ Dst # job.src
           /\ Other(Dst) = job.src /\ Other(job.src) = Dst /\ \A x \in Side : x \in {job.src, Dst}
           /\ D \notin job.plan /\ job.plan \cap In(D) = {} /\ job.at = label
           /\ label # "unrecord" => job.echo \in {"none", "content"}
<1>1. label \in Working /\ job.at = label
  BY DEF Working, At, Doing
<1>2. D \in Dirs /\ job.src \in Side /\ job.dir = D
  BY <1>1, InHands DEF Inv, D
<1>3. job.plan \cap Handled(D) = {}
  BY <1>1, <1>2 DEF VersionInv, Planned
<1> QED BY <1>1, <1>2, <1>3, Sides DEF Dst, Handled, VersionInv, Steady

\* The plan of an operation that goes on, or is over.
LEMMA PlanGoesOn ==
    ASSUME TreeAssumption, Inv, VersionInv,
           NEW label \in {"mkdir", "copy", "note", "walkA", "walkB", "inspect", "aside",
                      "unrecord"},
           Doing(label),
           \/ job' = Ended
           \/ /\ job'.plan = job.plan /\ job'.inv = job.inv /\ job'.scope = job.scope
              /\ job'.dir = job.dir /\ job'.at \notin {"idle", "scan"},
           \A p \in Files \ In(D) : \A s \in Side : file'[s][p] = file[s][p],
           \A d \in Dirs \ {D} : \A s \in Side : d \in has[s] <=> d \in has'[s]
    PROVE  Planned'
<1>1. D \notin job.plan /\ job.plan \cap In(D) = {}
  BY Handling
<1>2. /\ job'.plan \subseteq job.plan
      /\ job'.plan # {} => /\ job'.inv = job.inv /\ job'.scope = job.scope
                           /\ job'.at \notin {"idle", "scan"}
      /\ job'.at \notin {"idle", "scan", "next"} => job'.plan = job.plan /\ job'.dir = job.dir
  BY EndedPlan DEF VersionInv
<1>3. job'.at \notin {"idle", "scan", "next"} => job'.plan \cap Handled(job'.dir) = {}
  BY <1>1, <1>2 DEF Handled, D
<1> QED BY <1>1, <1>2, <1>3, PlanStays DEF VersionInv

\* An operation is over that changed nothing.
LEMMA FailKeeps ==
    ASSUME TreeAssumption, Inv, VersionInv,
           NEW label \in {"mkdir", "copy", "note", "walkA", "walkB"}, Doing(label),
           Fail, UNCHANGED <<disk, state, events>>, UNCHANGED <<clock, dead>>
    PROVE  VersionInv'
<1>1. /\ job' = Ended /\ UNCHANGED <<has, file, row, rowDir, kept, aside, slot, sent>>
  BY DEF Fail, disk, state, events
<1>2. job'.at \in {"idle", "next"} /\ job'.echo = "none"
  BY <1>1, EndedPlan DEF VersionInv
<1>3. NoNewMail
  BY <1>1, Mail DEF Inv
<1>4. \A x \in Side, d \in Dirs : ~Copying(x, d)'
  BY <1>2 DEF Copying
<1>5. Steady' /\ Numbered' /\ NothingLost' /\ \A q \in Files : PathInv(q)'
  BY <1>1, <1>2, <1>3, <1>4, InvFacts, JobGoesOn DEF At, Doing
<1>6. Planned'
  BY <1>1, PlanGoesOn
<1>7. Copied'
  BY <1>2 DEF Copied
<1> QED BY <1>5, <1>6, <1>7 DEF VersionInv

LEMMA MkdirKeeps ==
    ASSUME TreeAssumption, Inv, VersionInv, Mkdir
    PROVE  VersionInv'
<1> DEFINE s == job.src
           full == VersionsIn(s, D) # {}
<1>1. Doing("mkdir") /\ UNCHANGED <<file, kept, aside, state, events, clock, dead>>
  BY DEF Mkdir, Still, bounds
<1>2. CASE Fail /\ UNCHANGED has
  BY <1>1, <1>2, FailKeeps DEF disk
<1>3. CASE D \in has[s]
  <2>1. /\ has' = [has EXCEPT ![Dst] = @ \cup {D}]
        /\ job' = [job EXCEPT !.at = IF full THEN "copy" ELSE "note", !.deep = full,
                              !.todo = FilesIn(s, D),
                              !.echo = IF D \in has[Dst] THEN "none" ELSE "content"]
        /\ UNCHANGED <<file, kept, aside, row, rowDir, slot, sent, clock, dead>>
    BY <1>1, <1>3 DEF Mkdir, state, events
  <2>2. /\ D \in Dirs /\ job.dir = D /\ s \in Side /\ Dst \in Side /\ Other(s) = Dst
        /\ job.at = "mkdir"
    BY <1>1, Handling
  <2>3. /\ job'.at = IF full THEN "copy" ELSE "note"
        /\ job'.src = s /\ job'.dir = D /\ job'.todo = FilesIn(s, D)
        /\ job'.echo \in {"none", "content"}
        /\ job'.plan = job.plan /\ job'.inv = job.inv /\ job'.scope = job.scope
    BY <2>1, <2>2 DEF Inv, JobOK, Job
  <2>4. \A x \in Side, e \in Dirs : e \in has'[x] <=> e \in has[x] \/ (x = Dst /\ e = D)
    BY <2>1, <2>2 DEF Inv, DiskOK
  <2>5. NoNewMail
    BY <2>1, Mail DEF Inv
  <2>6. \A x \in Side, e \in Dirs : Copying(x, e)' => Copying(x, e)
    BY <2>2, <2>3 DEF Copying
  <2>7. /\ \A x \in Side, q \in Files : Leaving(x, q)' => Leaving(x, q)
        /\ \A x \in Side, e \in Dirs : Heralded(x, e)' => Heralded(x, e)
    BY <2>1, <2>5, EventsFewer
  <2>8. Numbered' /\ NothingLost' /\ \A q \in Files : PathInv(q)'
    BY <2>1, <2>2, <2>6, <2>7, InvFacts, FilesStay DEF Coming, Erasing
  <2>9. Steady'
    BY <2>3, <2>5, SteadyRemains DEF VersionInv, At
  <2>10. Copied'
    <3>1. SUFFICES ASSUME NEW q \in In(D)
                   PROVE  file[s][q] = 0 \/ (full /\ q \in FilesIn(s, D))
      BY <2>1, <2>3 DEF Copied, In
    <3> QED BY <3>1 DEF FilesIn, VersionsIn, FileOf
  <2>11. Planned'
    BY <1>1, <2>1, <2>2, <2>3, <2>4, PlanGoesOn
  <2> QED BY <2>8, <2>9, <2>10, <2>11 DEF VersionInv
<1> QED BY <1>2, <1>3 DEF Mkdir

LEMMA CopyOneKeeps ==
    ASSUME TreeAssumption, Inv, VersionInv, CopyOne
    PROVE  VersionInv'
<1> DEFINE s == job.src
<1>1. Doing("copy") /\ UNCHANGED <<has, kept, aside, state, events, clock, dead>>
  BY DEF CopyOne, Still, bounds
<1>2. PICK p \in job.todo :
        \/ /\ FileOf(s, p) /\ file' = [file EXCEPT ![Dst][p] = file[s][p]]
           /\ job' = [job EXCEPT !.todo = @ \ {p}]
        \/ Fail /\ UNCHANGED file
  BY DEF CopyOne
<1>3. CASE Fail /\ UNCHANGED file
  BY <1>1, <1>3, FailKeeps DEF disk
<1>4. CASE /\ FileOf(s, p) /\ file' = [file EXCEPT ![Dst][p] = file[s][p]]
           /\ job' = [job EXCEPT !.todo = @ \ {p}]
  <2>1. /\ D \in Dirs /\ job.dir = D /\ s \in Side /\ Dst \in Side /\ Other(s) = Dst
        /\ Other(Dst) = s /\ Dst # s /\ job.at = "copy" /\ job.echo \in {"none", "content"}
        /\ \A x \in Side : x \in {s, Dst}
    BY <1>1, Handling
  <2>2. p \in In(D) /\ p \in Files /\ p[1] = D
    <3>1. p \in In(D)
      BY <2>1 DEF Inv, JobOK
    <3> QED BY <2>1, <3>1, FilesAre
  <2>3. /\ job'.at = "copy" /\ job'.src = s /\ job'.dir = D /\ job'.echo = job.echo
        /\ job'.todo = job.todo \ {p}
        /\ job'.plan = job.plan /\ job'.inv = job.inv /\ job'.scope = job.scope
    BY <1>4, <2>1 DEF Inv, JobOK, Job
  <2>4. \A x \in Side, q \in Files : file'[x][q] = IF q = p THEN file[s][p] ELSE file[x][q]
    <3>1. \A x \in Side, q \in Files :
             file'[x][q] = IF x = Dst /\ q = p THEN file[s][p] ELSE file[x][q]
      BY <1>4, <2>1 DEF Inv, DiskOK
    <3> QED BY <2>1, <3>1
  <2>5. UNCHANGED <<has, kept, aside, row, rowDir, slot, sent, clock, dead>>
    BY <1>1 DEF state, events
  <2>6. NoNewMail
    BY <2>5, Mail DEF Inv
  <2>7. /\ \A x \in Side, q \in Files : Leaving(x, q)' => Leaving(x, q)
        /\ \A x \in Side, e \in Dirs : Heralded(x, e)' => Heralded(x, e)
    BY <2>5, <2>6, EventsFewer
  <2>8. \A x \in Side, q \in Files : Coming(x, q[1])' => Coming(x, q[1])
    BY <2>1, <2>3, <2>7, InvFacts DEF Coming, Copying
  <2>9. Twin(Dst, p)
    <3>1. Coming(s, p[1])
      BY <2>1, <2>2 DEF Coming, Copying
    <3> QED BY <1>4, <2>1, <2>2, <3>1 DEF VersionInv, PathInv, Arrival, CopySafe
  <2>10. ASSUME NEW q \in Files PROVE PathInv(q)'
    <3>1. CASE q # p
      BY <2>1, <2>4, <2>5, <2>7, <2>8, <3>1, PathStays DEF VersionInv, Erasing
    <3>2. CASE q = p
      <4>1. \A x \in Side : Twin(x, p)'
        BY <2>2, <2>4, Sides DEF Twin
      <4>2. ASSUME NEW x \in Side, Leaving(x, p)', Leaving(Other(x), p)' PROVE Spare(x, p)'
        <5>1. Leaving(s, p) /\ Leaving(Dst, p)
          BY <2>1, <2>2, <2>7, <4>2, Sides
        <5>2. Spare(s, p)
          BY <2>1, <2>2, <5>1 DEF VersionInv, PathInv, Departure
        <5> QED BY <2>2, <2>4, <2>5, <5>2 DEF Spare
      <4> QED BY <3>2, <4>1, <4>2, PathTwin
    <3> QED BY <3>1, <3>2
  <2>11. NothingLost'
    <3>1. \A x \in Side, q \in Files :
             file[x][q] \in dead' \cup aside' \cup {0} \/ \E y \in Side : file'[y][q] = file[x][q]
      BY <2>1, <2>4, <2>5, <2>9 DEF Twin, Spare
    <3> QED BY <2>5, <3>1, StillThere DEF VersionInv
  <2>12. Numbered'
    BY <2>1, <2>2, <2>4, <2>5 DEF VersionInv, Numbered
  <2>13. Steady'
    BY <2>1, <2>3, <2>6, SteadyRemains DEF VersionInv, At
  <2>14. Copied'
    <3>1. SUFFICES ASSUME NEW q \in In(D)
                   PROVE  file'[s][q] \in {0, file'[Dst][q]} \/ q \in job.todo \ {p}
      BY <2>1, <2>3 DEF Copied, In
    <3>2. q \in Files
      BY <2>1, <3>1, FilesAre
    <3>3. CASE q = p
      BY <2>1, <2>4, <3>2, <3>3
    <3>4. CASE q # p
      BY <2>1, <2>4, <3>2, <3>4 DEF VersionInv, Copied
    <3> QED BY <3>3, <3>4
  <2>15. Planned'
    BY <1>1, <2>1, <2>2, <2>3, <2>4, <2>5, PlanGoesOn
  <2> QED BY <2>10, <2>11, <2>12, <2>13, <2>14, <2>15 DEF VersionInv
<1> QED BY <1>2, <1>3, <1>4

LEMMA CopyDoneKeeps ==
    ASSUME TreeAssumption, Inv, VersionInv, CopyDone
    PROVE  VersionInv'
<1> DEFINE s == job.src
<1>1. /\ Doing("copy") /\ job.todo = {} /\ job' = [job EXCEPT !.at = "note"]
      /\ kept' = IF D \in has[Dst] THEN [kept EXCEPT ![Dst][D] = @ \cup kept[s][D]] ELSE kept
      /\ UNCHANGED <<has, file, aside, row, rowDir, slot, sent, clock, dead>>
  BY DEF CopyDone, Proceed, Still, bounds, state, events
<1>2. /\ D \in Dirs /\ job.dir = D /\ s \in Side /\ Dst \in Side /\ job.at = "copy"
      /\ job.echo \in {"none", "content"} /\ Other(s) = Dst
  BY <1>1, Handling
<1>3. /\ job'.at = "note" /\ job'.src = s /\ job'.dir = D /\ job'.echo = job.echo
      /\ job'.plan = job.plan /\ job'.inv = job.inv /\ job'.scope = job.scope
  BY <1>1, <1>2 DEF Inv, JobOK, Job
<1>4. \A x \in Side, e \in Dirs : kept[x][e] \subseteq kept'[x][e]
  BY <1>1, <1>2 DEF Inv, DiskOK
<1>5. NoNewMail
  BY <1>1, Mail DEF Inv
<1>6. \A x \in Side, e \in Dirs : ~Copying(x, e)'
  BY <1>3 DEF Copying
<1>7. Steady' /\ Numbered' /\ NothingLost' /\ \A q \in Files : PathInv(q)'
  BY <1>1, <1>2, <1>3, <1>4, <1>5, <1>6, InvFacts, JobGoesOn DEF At
<1>8. Copied'
  BY <1>1, <1>2, <1>3 DEF VersionInv, Copied, In
<1>9. Planned'
  BY <1>1, <1>2, <1>3, PlanGoesOn
<1> QED BY <1>7, <1>8, <1>9 DEF VersionInv

\* The echo of what was done: where the directory is now, its twin has what it has.
LEMMA LeakEffect ==
    ASSUME TreeAssumption, Inv, VersionInv, NEW label \in {"note", "walkB"}, Doing(label), Leak
    PROVE  /\ sent' = sent
           /\ \A x \in Side, q \in Dirs \cup Files :
                  \/ slot'[x][q] = slot[x][q]
                  \/ x = Dst /\ q = D /\ slot'[x][q] = "content"
           /\ \A q \in In(D) : CopySafe(Dst, q)
<1>1. /\ D \in Dirs /\ job.dir = D /\ job.src \in Side /\ Dst \in Side /\ job.at = label
      /\ job.echo \in {"none", "content"} /\ Other(job.src) = Dst /\ Other(Dst) = job.src
  BY Handling
<1>2. \A q \in In(D) : CopySafe(Dst, q)
  BY <1>1 DEF VersionInv, Copied, CopySafe, Twin, Spare
<1>3. sent' = sent /\ (slot' = slot \/ Slot(Dst, {D}, "content"))
  BY <1>1 DEF Leak, events
<1>4. \A x \in Side, q \in Dirs \cup Files :
          \/ slot'[x][q] = slot[x][q]
          \/ x = Dst /\ q = D /\ slot'[x][q] = "content"
  BY <1>1, <1>3, SlotEffect DEF Inv, EventsOK
<1> QED BY <1>2, <1>3, <1>4

LEMMA LeakComing ==
    ASSUME TreeAssumption, Inv, VersionInv, NEW label \in {"note", "walkB"}, Doing(label), Leak,
           \A x \in Side, e \in Dirs : ~Copying(x, e)'
    PROVE  /\ NoNewMail
           /\ \A x \in Side, q \in Files : Leaving(x, q)' => Leaving(x, q)
           /\ \A x \in Side, q \in Files : Coming(x, q[1])' => Coming(x, q[1]) \/ CopySafe(x, q)
<1>1. /\ sent' = sent
      /\ \A x \in Side, q \in Dirs \cup Files :
             \/ slot'[x][q] = slot[x][q]
             \/ x = Dst /\ q = D /\ slot'[x][q] = "content"
      /\ \A q \in In(D) : CopySafe(Dst, q)
  BY LeakEffect
<1>2. NoNewMail
  BY <1>1, Mail DEF Inv
<1>4. \A x \in Side, q \in Files : Leaving(x, q)' => Leaving(x, q)
  <2>1. \A x \in Side, q \in Files : slot'[x][q] = "delete" => Leaving(x, q)
    BY <1>1 DEF Leaving
  <2> QED BY <1>2, <2>1, NoMore
<1>5. ASSUME NEW x \in Side, NEW q \in Files, Coming(x, q[1])'
      PROVE  Coming(x, q[1]) \/ CopySafe(x, q)
  <2>1. q[1] \in Dirs /\ Heralded(x, q[1])'
    BY <1>5, InvFacts DEF Coming
  <2>2. CASE x = Dst /\ q[1] = D
    <3>1. q \in In(D)
      BY <2>1, <2>2, FilesAre
    <3> QED BY <1>1, <2>2, <3>1
  <2>3. CASE ~(x = Dst /\ q[1] = D)
    <3>1. slot'[x][q[1]] = slot[x][q[1]]
      BY <1>1, <2>1, <2>3
    <3> QED BY <1>2, <2>1, <3>1, NoMore DEF Heralded, Coming
  <2> QED BY <2>2, <2>3
<1> QED BY <1>2, <1>4, <1>5

LEMMA NoteKeeps ==
    ASSUME TreeAssumption, Inv, VersionInv, Note
    PROVE  VersionInv'
<1>1. Doing("note") /\ UNCHANGED <<has, file, kept, aside, row, clock, dead>>
  BY DEF Note, Still, bounds, disk
<1>2. /\ D \in Dirs /\ job.dir = D /\ job.src \in Side /\ Dst \in Side /\ job.at = "note"
      /\ job.echo \in {"none", "content"} /\ Other(job.src) = Dst
  BY <1>1, Handling
<1>3. CASE Fail /\ UNCHANGED <<rowDir, events>>
  BY <1>1, <1>3, FailKeeps DEF disk, state
<1>4. CASE /\ D \in has["A"] \cap has["B"]
           /\ rowDir' = [x \in Side |-> rowDir[x] \cup {D}]
           /\ \/ job' = [job EXCEPT !.at = "walkA"] /\ UNCHANGED events
              \/ job' = Ended /\ Leak
  <2>2. CASE job' = [job EXCEPT !.at = "walkA"] /\ UNCHANGED events
    <3>1. /\ job'.at = "walkA" /\ job'.src = job.src /\ job'.dir = D /\ job'.echo = job.echo
          /\ job'.plan = job.plan /\ job'.inv = job.inv /\ job'.scope = job.scope
      BY <1>2, <2>2 DEF Inv, JobOK, Job
    <3>2. UNCHANGED <<slot, sent>>
      BY <2>2 DEF events
    <3>3. NoNewMail /\ \A x \in Side, e \in Dirs : ~Copying(x, e)'
      BY <3>1, <3>2, Mail DEF Inv, Copying
    <3>4. Steady' /\ Numbered' /\ NothingLost' /\ \A q \in Files : PathInv(q)'
      BY <1>1, <1>2, <3>1, <3>2, <3>3, InvFacts, JobGoesOn DEF At
    <3>5. Copied'
      BY <1>1, <1>2, <3>1 DEF VersionInv, Copied, In
    <3>6. Planned'
      BY <1>1, <1>2, <3>1, PlanGoesOn
    <3> QED BY <3>4, <3>5, <3>6 DEF VersionInv
  <2>3. CASE job' = Ended /\ Leak
    <3>1. job'.at \in {"idle", "next"} /\ job'.echo = "none"
      BY <2>3, EndedPlan DEF VersionInv
    <3>2. \A x \in Side, e \in Dirs : ~Copying(x, e)'
      BY <3>1 DEF Copying
    <3>3. /\ NoNewMail
          /\ \A x \in Side, q \in Files : Leaving(x, q)' => Leaving(x, q)
          /\ \A x \in Side, q \in Files : Coming(x, q[1])' => Coming(x, q[1]) \/ CopySafe(x, q)
      BY <1>1, <2>3, <3>2, LeakComing
    <3>4. Numbered' /\ NothingLost' /\ \A q \in Files : PathInv(q)'
      BY <1>1, <1>2, <3>3, FilesStay DEF Erasing
    <3>5. Steady'
      BY <3>1, <3>3, SteadyRemains DEF VersionInv, At
    <3>6. Copied'
      BY <3>1 DEF Copied
    <3>7. Planned'
      BY <1>1, <2>3, PlanGoesOn
    <3> QED BY <3>4, <3>5, <3>6, <3>7 DEF VersionInv
  <2> QED BY <1>4, <2>2, <2>3
<1> QED BY <1>1, <1>3, <1>4 DEF Note, Proceed, Finish

\* A side records what it has below the directory: the other side has the same there,
\* or nothing, or nothing was copied from it.
LEMMA RecordTreeKeeps ==
    ASSUME TreeAssumption, Inv, VersionInv, NEW label \in {"walkA", "walkB"}, Doing(label),
           NEW s \in Side, RecordTree(s), UNCHANGED <<has, file, kept, aside, clock, dead>>,
           \A x \in Side, q \in Files : Leaving(x, q)' => Leaving(x, q),
           \A x \in Side, q \in Files : Coming(x, q[1])' => Coming(x, q[1]) \/ CopySafe(x, q)
    PROVE  Numbered' /\ NothingLost' /\ \A q \in Files : PathInv(q)'
<1>1. /\ D \in Dirs /\ job.dir = D /\ job.src \in Side /\ Dst \in Side /\ job.at = label
      /\ Other(job.src) = Dst /\ Other(Dst) = job.src /\ \A x \in Side : x \in {job.src, Dst}
  BY Handling
<1>2. /\ \A x \in Side, q \in Files :
             row'[x][q] = IF x = s /\ q \in FilesIn(s, D) THEN file[s][q] ELSE row[x][q]
      /\ \A x \in Side : rowDir'[x] \subseteq rowDir[x] \cup ({D} \cap has[x])
  BY DEF RecordTree, Inv, RowsOK
<1>3. ASSUME NEW q \in Files, NEW x \in Side PROVE Blame(x, q)'
  <2>1. CASE x = s /\ q \in FilesIn(s, D)
    <3>1. q \in In(D) /\ file[x][q] # 0 /\ row'[x][q] = file[x][q]
      BY <1>2, <2>1 DEF FilesIn, FileOf
    <3>2. file[job.src][q] \in {0, file[Dst][q]}
      BY <1>1, <3>1 DEF VersionInv, Copied
    <3>3. file[Other(x)][q] \in {0, file[x][q]}
      BY <1>1, <3>1, <3>2
    <3> QED BY <3>1, <3>3 DEF Blame, Twin
  <2>2. CASE ~(x = s /\ q \in FilesIn(s, D))
    <3>1. row'[x][q] = row[x][q] /\ Blame(x, q)
      BY <1>1, <1>2, <2>2 DEF VersionInv, PathInv, Erasing
    <3> QED BY <3>1 DEF Blame, Twin, Spare
  <2> QED BY <2>1, <2>2
<1>4. ASSUME NEW q \in Files PROVE PathInv(q)'
  <2>1. ASSUME NEW x \in Side PROVE Departure(x, q)' /\ Arrival(x, q)'
    <3>1. Departure(x, q) /\ Arrival(x, q) /\ Other(x) \in Side
      BY Sides DEF VersionInv, PathInv
    <3>2. Departure(x, q)'
      BY <3>1 DEF Departure, Twin, Spare
    <3>3. Arrival(x, q)'
      BY <3>1 DEF Arrival, CopySafe, Twin, Spare, FileOf
    <3> QED BY <3>2, <3>3
  <2> QED BY <1>3, <2>1 DEF PathInv
<1>5. Numbered'
  BY <1>2 DEF VersionInv, Numbered
<1>6. NothingLost'
  BY StillThere DEF VersionInv
<1> QED BY <1>4, <1>5, <1>6

LEMMA WalkKeeps ==
    ASSUME TreeAssumption, Inv, VersionInv, WalkA \/ WalkB
    PROVE  VersionInv'
<1>1. CASE WalkA
  <2>1. /\ Doing("walkA") /\ RecordTree("A") /\ job' = [job EXCEPT !.at = "walkB"]
        /\ UNCHANGED <<has, file, kept, aside, slot, sent, clock, dead>>
    BY <1>1 DEF WalkA, Proceed, Still, disk, events, bounds
  <2>2. /\ job.dir = D /\ job.at = "walkA" /\ job.echo \in {"none", "content"}
    BY <2>1, Handling
  <2>3. /\ job'.at = "walkB" /\ job'.src = job.src /\ job'.dir = D /\ job'.echo = job.echo
        /\ job'.plan = job.plan /\ job'.inv = job.inv /\ job'.scope = job.scope
    BY <2>1, <2>2 DEF Inv, JobOK, Job
  <2>4. NoNewMail /\ \A x \in Side, e \in Dirs : ~Copying(x, e)'
    BY <2>1, <2>3, Mail DEF Inv, Copying
  <2>5. /\ \A x \in Side, q \in Files : Leaving(x, q)' => Leaving(x, q)
        /\ \A x \in Side, e \in Dirs : Heralded(x, e)' => Heralded(x, e)
    BY <2>1, <2>4, EventsFewer
  <2>6. \A x \in Side, q \in Files : Coming(x, q[1])' => Coming(x, q[1])
    BY <2>4, <2>5, InvFacts DEF Coming
  <2>7. Numbered' /\ NothingLost' /\ \A q \in Files : PathInv(q)'
    BY <2>1, <2>5, <2>6, RecordTreeKeeps, Sides
  <2>8. Steady'
    BY <2>2, <2>3, <2>4, SteadyRemains DEF VersionInv, At
  <2>9. Copied'
    BY <2>1, <2>2, <2>3 DEF VersionInv, Copied, In
  <2>10. Planned'
    BY <2>1, <2>2, <2>3, PlanGoesOn
  <2> QED BY <2>7, <2>8, <2>9, <2>10 DEF VersionInv
<1>2. CASE WalkB
  <2>1. /\ Doing("walkB") /\ RecordTree("B") /\ job' = Ended /\ Leak
        /\ UNCHANGED <<has, file, kept, aside, clock, dead>>
    BY <1>2 DEF WalkB, Finish, Still, disk, bounds
  <2>2. job'.at \in {"idle", "next"} /\ job'.echo = "none"
    BY <2>1, EndedPlan DEF VersionInv
  <2>3. \A x \in Side, e \in Dirs : ~Copying(x, e)'
    BY <2>2 DEF Copying
  <2>4. /\ NoNewMail
        /\ \A x \in Side, q \in Files : Leaving(x, q)' => Leaving(x, q)
        /\ \A x \in Side, q \in Files : Coming(x, q[1])' => Coming(x, q[1]) \/ CopySafe(x, q)
    BY <2>1, <2>3, LeakComing
  <2>5. Numbered' /\ NothingLost' /\ \A q \in Files : PathInv(q)'
    BY <2>1, <2>4, RecordTreeKeeps, Sides
  <2>6. Steady'
    BY <2>2, <2>4, SteadyRemains DEF VersionInv, At
  <2>7. Copied'
    BY <2>2 DEF Copied
  <2>8. Planned'
    BY <2>1, PlanGoesOn
  <2> QED BY <2>5, <2>6, <2>7, <2>8 DEF VersionInv
<1> QED BY <1>1, <1>2

--------------------------------------------------------------------------------
(* A reconciliation plans over what it saw, and nobody touches it meanwhile.      *)
LEMMA ScanKeeps ==
    ASSUME TreeAssumption, Inv, VersionInv, StartResync \/ Scan \/ ReconcileDone
    PROVE  VersionInv'
<1>1. UNCHANGED <<has, file, kept, aside, row, rowDir, slot, sent, clock, dead>>
  BY DEF StartResync, Scan, ReconcileDone, Still, disk, state, events, bounds
<1>2. NoNewMail
  BY <1>1, Mail DEF Inv
<1>3. job'.at \in {"idle", "scan", "next"} /\ job'.echo \in {"none", "content"} /\ Planned'
  <2>1. CASE StartResync \/ ReconcileDone
    <3>1. job' = Idle \/ job' = [Idle EXCEPT !.at = "scan", !.scope = Dirs]
      BY <2>1 DEF StartResync, ReconcileDone
    <3>3. job'.at \in {"idle", "scan"} /\ job'.echo = "none" /\ job'.plan = {}
      BY <3>1, Resting
    <3> QED BY <3>3 DEF Planned
  <2>2. CASE Scan
    <3> DEFINE ih == [s \in Side |-> has[s] \cap job.scope]
               iff == [s \in Side |-> [p \in Files |->
                                          IF p[1] \in job.scope THEN file[s][p] ELSE 0]]
               inv == [has |-> ih, file |-> iff]
               plan == ih["A"] \cup ih["B"] \cup {p \in Files : \E s \in Side : iff[s][p] # 0}
    <3>1. job' = [job EXCEPT !.at = "next", !.inv = inv, !.plan = plan]
      BY <2>2 DEF Scan
    <3>2. ih["A"] \cup ih["B"] \subseteq Dirs /\ ih["A"] \cup ih["B"] \subseteq job.scope
      BY Sides DEF Inv, DiskOK
    <3>3. \A p \in plan \cap Files : p[1] \in job.scope
      BY <3>2, InvFacts
    <3>4. \A p \in plan \cap Files : \A s \in Side : iff[s][p] = file[s][p]
      BY <3>3
    <3>5. \A d \in plan \cap Dirs : d \in job.scope
      BY <3>2, InvFacts
    <3>6. \A d \in plan \cap Dirs : \A s \in Side : d \in ih[s] <=> d \in has[s]
      BY <3>5
    <3>7. plan # {} => job.scope # {}
      <4>1. plan \subseteq Files \cup Dirs
        BY <3>2
      <4> HIDE DEF plan
      <4> QED BY <4>1, <3>3, <3>5
    <3> HIDE DEF ih, iff, plan
    <3>8. /\ job'.at = "next" /\ job'.plan = plan /\ job'.inv.has = ih /\ job'.inv.file = iff
          /\ job'.scope = job.scope /\ job'.echo = job.echo
      BY <3>1 DEF Inv, JobOK, Job
    <3>9. Planned'
      BY <1>1, <3>4, <3>6, <3>7, <3>8 DEF Planned
    <3>10. job.echo \in {"none", "content"}
      BY <2>2 DEF VersionInv, Steady, Scan, Doing
    <3> QED BY <3>8, <3>9, <3>10
  <2> QED BY <2>1, <2>2
<1>4. (\A x \in Side, d \in Dirs : ~Copying(x, d)') /\ job.at # "unrecord"
  BY <1>3 DEF Copying, StartResync, Scan, ReconcileDone, Doing, Idle
<1>5. Steady' /\ Numbered' /\ NothingLost' /\ \A q \in Files : PathInv(q)'
  BY <1>1, <1>2, <1>3, <1>4, InvFacts, JobGoesOn DEF At
<1>6. Copied'
  BY <1>3 DEF Copied
<1> QED BY <1>3, <1>5, <1>6 DEF VersionInv

\* Directories come before files, and what comes is as it was seen.
LEMMA TurnFacts ==
    ASSUME TreeAssumption, Inv, VersionInv, NEW P, Turn(P)
    PROVE  /\ Ahead \in job.plan /\ Ahead \in P /\ job.at = "next" /\ job.scope # {}
           /\ job.echo \in {"none", "content"}
           /\ P = Files => /\ job.plan \cap Dirs = {}
                           /\ \A s \in Side : SeenFile(s, Ahead) = file[s][Ahead]
           /\ P = Dirs => \A s \in Side : SeenDir(s, Ahead) <=> Ahead \in has[s]
<1>1. Ahead \in P /\ job.at = "next" /\ job.plan # {}
  BY DEF Turn, Doing
<1>2. \E p \in job.plan : p \in Dirs \/ job.plan \cap Dirs = {}
  BY <1>1
<1>3. Ahead \in job.plan /\ (Ahead \in Dirs \/ job.plan \cap Dirs = {})
  BY <1>2 DEF Ahead
<1>4. P = Files => job.plan \cap Dirs = {}
  BY <1>1, <1>3, InvFacts
<1> QED BY <1>1, <1>3, <1>4 DEF VersionInv, Planned, SeenFile, SeenDir, Steady

LEMMA RestFacts ==
    ASSUME TreeAssumption, Inv, VersionInv, NEW P, Turn(P), job' = Rest({Ahead}),
           \A q \in Files : q # Ahead => \A s \in Side : file'[s][q] = file[s][q],
           \A d \in job.plan \cap Dirs : \A s \in Side : d \in has[s] <=> d \in has'[s]
    PROVE  /\ job'.at = "next" /\ job'.echo \in {"none", "content"} /\ Planned' /\ Copied'
           /\ \A x \in Side, e \in Dirs : ~Copying(x, e)'
<1>1. job.at = "next" /\ job.echo \in {"none", "content"}
  BY TurnFacts
<1>2. /\ job'.at = "next" /\ job'.echo = job.echo /\ job'.plan = job.plan \ {Ahead}
      /\ job'.inv = job.inv /\ job'.scope = job.scope
  BY <1>1 DEF Rest, Inv, JobOK, Job
<1>3. Planned'
  BY <1>2, PlanStays DEF VersionInv
<1>4. Copied'
  BY <1>2 DEF Copied
<1> QED BY <1>1, <1>2, <1>3, <1>4 DEF Copying

LEMMA ReconcileDirKeeps ==
    ASSUME TreeAssumption, Inv, VersionInv, ReconcileDir
    PROVE  VersionInv'
<1>1. /\ Turn(Dirs) /\ job' = Rest({Ahead})
      /\ UNCHANGED <<has, file, kept, aside, row, slot, sent, clock, dead>>
  BY DEF ReconcileDir, Still, disk, events, bounds
<1>2. NoNewMail /\ job.at # "unrecord"
  BY <1>1, Mail, TurnFacts DEF Inv
<1>3. /\ job'.at = "next" /\ job'.echo \in {"none", "content"} /\ Planned' /\ Copied'
      /\ \A x \in Side, e \in Dirs : ~Copying(x, e)'
  BY <1>1, RestFacts
<1>4. Steady' /\ Numbered' /\ NothingLost' /\ \A q \in Files : PathInv(q)'
  BY <1>1, <1>2, <1>3, InvFacts, JobGoesOn DEF At
<1> QED BY <1>3, <1>4 DEF VersionInv

\* What one side alone has is copied, or removed.
LEMMA OneDirEffect ==
    ASSUME TreeAssumption, Inv, VersionInv, ReconcileOneDir
    PROVE  \E s \in Side, d \in Dirs :
               /\ d = Ahead /\ Turn(Dirs) /\ up /\ up' = up
               /\ UNCHANGED <<has, file, kept, aside, row, rowDir, slot, sent, clock, dead>>
               /\ job.at = "next" /\ job.echo \in {"none", "content"}
               /\ d \in has[s] /\ d \notin has[Other(s)]
               /\ \/ job'.at = "mkdir" /\ job'.src = s
                  \/ job'.at = "inspect" /\ job'.src = Other(s) /\ d \in rowDir[Other(s)]
               /\ job'.dir = d /\ job'.echo = job.echo /\ job'.plan = job.plan \ Handled(d)
               /\ job'.inv = job.inv /\ job'.scope = job.scope
<1>1. /\ Turn(Dirs) /\ up /\ up' = up
      /\ UNCHANGED <<has, file, kept, aside, row, rowDir, slot, sent, clock, dead>>
  BY DEF ReconcileOneDir, Turn, Doing, Still, disk, state, events, bounds
<1>2. PICK s \in Side :
        /\ SeenDir(s, Ahead) /\ ~SeenDir(Other(s), Ahead)
        /\ \/ /\ Ahead \in rowDir[Other(s)]
              /\ job' = [StartRemove(Other(s), Ahead) EXCEPT !.plan = @ \ Handled(Ahead)]
           \/ job' = [StartDir(s, Ahead) EXCEPT !.plan = @ \ Handled(Ahead)]
  BY DEF ReconcileOneDir
<1>3. PICK d \in Dirs : d = Ahead
  BY <1>1, TurnFacts
<1>4. /\ job.at = "next" /\ job.echo \in {"none", "content"}
      /\ d \in has[s] /\ d \notin has[Other(s)]
  BY <1>1, <1>2, <1>3, TurnFacts, Sides
<1>5. CASE job' = [StartDir(s, d) EXCEPT !.plan = @ \ Handled(d)]
  <2>1. /\ job'.at = "mkdir" /\ job'.src = s /\ job'.dir = d /\ job'.echo = job.echo
        /\ job'.plan = job.plan \ Handled(d) /\ job'.inv = job.inv /\ job'.scope = job.scope
    BY <1>5 DEF StartDir, Inv, JobOK, Job
  <2> QED BY <1>1, <1>3, <1>4, <2>1
<1>6. CASE /\ d \in rowDir[Other(s)]
           /\ job' = [StartRemove(Other(s), d) EXCEPT !.plan = @ \ Handled(d)]
  <2>1. /\ job'.at = "inspect" /\ job'.src = Other(s) /\ job'.dir = d /\ job'.echo = job.echo
        /\ job'.plan = job.plan \ Handled(d) /\ job'.inv = job.inv /\ job'.scope = job.scope
    BY <1>6 DEF StartRemove, Inv, JobOK, Job
  <2> QED BY <1>1, <1>3, <1>4, <1>6, <2>1
<1> QED BY <1>2, <1>3, <1>5, <1>6

LEMMA OneDirKeeps ==
    ASSUME TreeAssumption, Inv, VersionInv, ReconcileOneDir
    PROVE  VersionInv'
<1>1. PICK s \in Side, d \in Dirs :
        /\ UNCHANGED <<has, file, kept, aside, row, rowDir, slot, sent, clock, dead>>
        /\ job.at = "next" /\ job.echo \in {"none", "content"}
        /\ d \in has[s] /\ d \notin has[Other(s)]
        /\ (job'.at = "mkdir" /\ job'.src = s) \/ job'.at = "inspect"
        /\ job'.dir = d /\ job'.echo = job.echo /\ job'.plan = job.plan \ Handled(d)
        /\ job'.inv = job.inv /\ job'.scope = job.scope
  BY OneDirEffect
<1>2. NoNewMail
  BY <1>1, Mail DEF Inv
<1>3. \A x \in Side, q \in Files : Copying(x, q[1])' => CopySafe(x, q)
  <2>1. \A q \in Files : q[1] = d => file[Other(s)][q] = 0
    BY <1>1, InvFacts, Sides
  <2> QED BY <1>1, <2>1 DEF Copying, CopySafe, Twin, Spare
<1>4. Steady' /\ Numbered' /\ NothingLost' /\ \A q \in Files : PathInv(q)'
  BY <1>1, <1>2, <1>3, JobGoesOn DEF At
<1>5. Copied'
  BY <1>1 DEF Copied
<1>6. Planned'
  BY <1>1, PlanStays DEF VersionInv
<1> QED BY <1>4, <1>5, <1>6 DEF VersionInv

\* The files of a plan, one by one.
LEMMA PropagatePlanned ==
    ASSUME TreeAssumption, Inv, VersionInv, Turn(Files), NEW s \in Side, NEW forced,
           PropagateContent(s, Ahead, forced),
           job' = Rest({Ahead}), sent' = sent, UNCHANGED <<clock, dead>>
    PROVE  VersionInv'
<1>1. Ahead \in Files /\ job.plan \cap Dirs = {}
  BY TurnFacts
<1>2. \A q \in Files : q # Ahead => \A x \in Side : file'[x][q] = file[x][q]
  BY <1>1, PropagateEffect
<1>3. /\ job'.at = "next" /\ job'.echo \in {"none", "content"} /\ Planned' /\ Copied'
      /\ job.at = "next"
  BY <1>1, <1>2, RestFacts, TurnFacts
<1>4. NoNewMail
  BY Mail DEF Inv
<1>5. Steady' /\ Numbered' /\ NothingLost' /\ \A q \in Files : PathInv(q)'
  BY <1>1, <1>3, <1>4, PropagateKeeps
<1> QED BY <1>3, <1>5 DEF VersionInv

LEMMA ReconcileOneFileKeeps ==
    ASSUME TreeAssumption, Inv, VersionInv, ReconcileOneFile
    PROVE  VersionInv'
<1>1. Turn(Files) /\ job' = Rest({Ahead}) /\ UNCHANGED <<sent, clock, dead>>
  BY DEF ReconcileOneFile, Still, bounds
<1>2. PICK s \in Side :
        /\ SeenFile(Other(s), Ahead) = 0
        /\ IF row[Other(s)][Ahead] # 0 THEN RemoveFile(s, Ahead)
           ELSE PropagateContent(s, Ahead, FALSE)
  BY DEF ReconcileOneFile
<1>3. CASE PropagateContent(s, Ahead, FALSE)
  BY <1>1, <1>3, PropagatePlanned
<1>4. CASE row[Other(s)][Ahead] # 0 /\ RemoveFile(s, Ahead)
  <2>1. /\ Ahead \in Files /\ job.plan \cap Dirs = {} /\ Other(s) \in Side /\ Other(Other(s)) = s
        /\ file[Other(s)][Ahead] = 0 /\ job.at = "next"
    BY <1>1, <1>2, TurnFacts, Sides
  <2>2. Spare(Other(s), Ahead) /\ Spare(s, Ahead)
    BY <1>4, <2>1 DEF Spare, VersionInv, PathInv, Blame, Erasing
  <2>3. file' = [file EXCEPT ![s][Ahead] = 0] /\ has' = has
    BY <1>4 DEF RemoveFile
  <2>4. \A q \in Files : q # Ahead => \A x \in Side : file'[x][q] = file[x][q]
    BY <2>1, <2>3 DEF Inv, DiskOK
  <2>5. job'.at = "next" /\ job'.echo \in {"none", "content"} /\ Planned' /\ Copied'
    BY <1>1, <2>3, <2>4, RestFacts
  <2>6. NoNewMail
    BY <1>1, Mail DEF Inv
  <2>7. Steady' /\ Numbered' /\ NothingLost' /\ \A q \in Files : PathInv(q)'
    BY <1>1, <1>4, <2>1, <2>2, <2>5, <2>6, RemoveKeeps DEF Twin
  <2> QED BY <2>5, <2>7 DEF VersionInv
<1> QED BY <1>2, <1>3, <1>4

LEMMA ReconcileFileKeeps ==
    ASSUME TreeAssumption, Inv, VersionInv, ReconcileFile
    PROVE  VersionInv'
<1> DEFINE p == Ahead
<1>1. Turn(Files) /\ job' = Rest({Ahead}) /\ UNCHANGED <<sent, clock, dead>>
  BY DEF ReconcileFile, Still, bounds
<1>2. /\ p \in Files /\ job.plan \cap Dirs = {}
      /\ \A s \in Side : SeenFile(s, p) = file[s][p]
  BY <1>1, TurnFacts
<1>3. \/ \E s \in Side, forced \in BOOLEAN : PropagateContent(s, p, forced)
      \/ /\ UNCHANGED <<disk, rowDir, slot>>
         /\ \/ UNCHANGED row
            \/ SeenFile("A", p) = SeenFile("B", p) /\ SetRow(p, file["A"][p], file["B"][p])
  <2>1. Newer(p) \in Side
    BY Sides DEF Newer
  <2>2. Origin(p) # {} => (CHOOSE s \in Origin(p) : TRUE) \in Side
    BY DEF Origin
  <2> HIDE DEF p
  <2> QED BY <2>1, <2>2 DEF ReconcileFile, state, p
<1>4. CASE \E s \in Side, forced \in BOOLEAN : PropagateContent(s, p, forced)
  BY <1>1, <1>4, PropagatePlanned
<1>5. CASE /\ UNCHANGED <<disk, rowDir, slot>>
           /\ \/ UNCHANGED row
              \/ SeenFile("A", p) = SeenFile("B", p) /\ SetRow(p, file["A"][p], file["B"][p])
  <2>1. UNCHANGED <<has, file, kept, aside, rowDir, slot, sent>>
    BY <1>1, <1>5 DEF disk
  <2> HIDE DEF p
  <2>2. /\ job'.at = "next" /\ job'.echo \in {"none", "content"} /\ Planned' /\ Copied'
        /\ \A x \in Side, e \in Dirs : ~Copying(x, e)'
    BY <1>1, <2>1, RestFacts
  <2>3. NoNewMail
    BY <2>1, Mail DEF Inv
  <2>4. job.at = "next"
    BY <1>1, TurnFacts
  <2>5. CASE UNCHANGED row
    <3>1. Steady' /\ Numbered' /\ NothingLost' /\ \A q \in Files : PathInv(q)'
      BY <1>1, <2>1, <2>2, <2>3, <2>4, <2>5, InvFacts, JobGoesOn DEF At
    <3> QED BY <2>2, <3>1 DEF VersionInv
  <2>6. CASE SeenFile("A", p) = SeenFile("B", p) /\ SetRow(p, file["A"][p], file["B"][p])
    <3>1. file["A"][p] = file["B"][p]
      BY <1>2, <2>6, Sides
    <3>2. \A x \in Side, q \in Files : row'[x][q] = IF q = p THEN file[x][p] ELSE row[x][q]
      BY <1>2, <2>6, Sides DEF Inv, RowsOK, SetRow
    <3>3. /\ \A x \in Side, q \in Files : Leaving(x, q)' => Leaving(x, q)
          /\ \A x \in Side, e \in Dirs : Heralded(x, e)' => Heralded(x, e)
      BY <2>1, <2>3, EventsFewer
    <3>4. \A x \in Side, q \in Files : Coming(x, q[1])' => Coming(x, q[1])
      BY <2>2, <3>3, InvFacts DEF Coming
    <3>5. ASSUME NEW q \in Files PROVE PathInv(q)'
      <4>1. CASE q = p
        <5>1. \A x \in Side : Twin(x, q)'
          BY <2>1, <3>1, <4>1, Sides DEF Twin, Other
        <5>2. \A x \in Side : Leaving(x, q)' /\ Leaving(Other(x), q)' => Spare(x, q)'
          <6>1. ASSUME NEW x \in Side, Leaving(x, q)', Leaving(Other(x), q)' PROVE Spare(x, q)'
            <7>1. Leaving(x, q) /\ Leaving(Other(x), q) /\ Departure(x, q)
              BY <3>3, <6>1, Sides DEF VersionInv, PathInv
            <7> QED BY <1>1, <2>1, <7>1 DEF Departure, Spare
          <6> QED BY <6>1
        <5> QED BY <5>1, <5>2, PathTwin
      <4>2. CASE q # p
        BY <1>1, <2>1, <2>4, <3>2, <3>3, <3>4, <4>2, PathStays DEF VersionInv, Erasing
      <4> QED BY <4>1, <4>2
    <3>6. NothingLost'
      BY <1>1, <2>1, StillThere DEF VersionInv
    <3>7. Numbered'
      BY <1>1, <1>2, <2>1, <3>2 DEF VersionInv, Numbered
    <3>8. Steady'
      BY <2>2, <2>3, SteadyRemains DEF VersionInv, At
    <3> QED BY <2>2, <3>5, <3>6, <3>7, <3>8 DEF VersionInv
  <2> QED BY <1>5, <2>5, <2>6
<1> QED BY <1>3, <1>4, <1>5

--------------------------------------------------------------------------------
(* Users make directories and write and delete files, and leave a directory alone *)
(* that the engine works on or whose twin has news.  Wherever the process dies,   *)
(* in whatever order windows close and however late echoes come, no version is    *)
(* lost.                                                                          *)
Unhurried == UserOps \subseteq {"write", "delete", "mkdir"} /\ Apart

\* Directories come and do not go.
DirsStay ==
    /\ \A s \in Side : rowDir[s] \subseteq has[s]
    /\ \A s \in Side, d \in Dirs : slot[s][d] # "delete"
    /\ \A i \in DOMAIN sent : sent[i].kind = "delete" => sent[i].path \in Files
    /\ job.at \notin {"inspect", "aside", "unrecord"}

LEMMA DirsRemain ==
    ASSUME DirsStay, NoNewMail, \A x \in Side : has[x] \subseteq has'[x],
           \A x \in Side : rowDir'[x] \subseteq rowDir[x] \cup has'[x],
           \A x \in Side, d \in Dirs : slot'[x][d] \in {slot[x][d], "none", "content"},
           job'.at \notin {"inspect", "aside", "unrecord"}
    PROVE  DirsStay'
BY DEF DirsStay, NoNewMail

LEMMA NoOtherUsers ==
    ASSUME Unhurried
    PROVE  /\ \A s \in Side, d \in Dirs : ~RemoveTree(s, d)
           /\ \A s \in Side, d, e \in Dirs : ~RenameDir(s, d, e)
<1>1. ~Acts("rmtree") /\ ~Acts("rename")
  BY DEF Unhurried, Acts
<1>2. ASSUME NEW s \in Side, NEW d \in Dirs, RemoveTree(s, d) PROVE FALSE
  BY <1>1, <1>2 DEF RemoveTree
<1>3. ASSUME NEW s \in Side, NEW d \in Dirs, NEW e \in Dirs, RenameDir(s, d, e) PROVE FALSE
  BY <1>1, <1>3 DEF RenameDir
<1> QED BY <1>2, <1>3

LEMMA UserDirs ==
    ASSUME TreeAssumption, Inv, DirsStay, NEW s \in Side,
           \/ \E d \in Dirs : MakeDir(s, d)
           \/ \E p \in Files : Write(s, p) \/ Delete(s, p)
    PROVE  DirsStay'
<1>1. /\ UNCHANGED <<rowDir, sent, job>> /\ \A x \in Side : has[x] \subseteq has'[x]
      /\ \/ \E d \in Dirs : Tell(s, d, {d}, "content")
         \/ \E p \in Files, k \in {"content", "delete"} : Tell(s, p[1], {p}, k)
  <2>1. ASSUME NEW d \in Dirs, MakeDir(s, d)
        PROVE  /\ UNCHANGED <<rowDir, sent, job>> /\ Tell(s, d, {d}, "content")
               /\ \A x \in Side : has[x] \subseteq has'[x]
    BY <2>1 DEF MakeDir, state, Inv, DiskOK
  <2>2. ASSUME NEW p \in Files, Write(s, p)
        PROVE  UNCHANGED <<has, rowDir, sent, job>> /\ Tell(s, p[1], {p}, "content")
    BY <2>2 DEF Write, state
  <2>3. ASSUME NEW p \in Files, Delete(s, p)
        PROVE  UNCHANGED <<has, rowDir, sent, job>> /\ Tell(s, p[1], {p}, "delete")
    BY <2>3 DEF Delete, state
  <2> QED BY <2>1, <2>2, <2>3
<1>2. NoNewMail
  BY <1>1 DEF NoNewMail
<1>3. \A x \in Side, e \in Dirs : slot'[x][e] \in {slot[x][e], "content"}
  <2>1. CASE \E d \in Dirs : Tell(s, d, {d}, "content")
    BY <2>1, TellEffect DEF Inv, EventsOK
  <2>2. CASE \E p \in Files, k \in {"content", "delete"} : Tell(s, p[1], {p}, k)
    <3>1. PICK p \in Files, k \in {"content", "delete"} : Tell(s, p[1], {p}, k)
      BY <2>2
    <3>2. \A x \in Side, e \in Dirs : slot'[x][e] = slot[x][e]
      BY <3>1, TellEffect, InvFacts DEF Inv, EventsOK
    <3> QED BY <3>2
  <2> QED BY <1>1, <2>1, <2>2
<1>4. job'.at \notin {"inspect", "aside", "unrecord"}
  BY <1>1 DEF DirsStay
<1> QED BY <1>1, <1>2, <1>3, <1>4, DirsRemain

LEMMA TimerDirs ==
    ASSUME TreeAssumption, Inv, DirsStay, NEW s \in Side, NEW p \in Dirs \cup Files,
           TimerFires(s, p)
    PROVE  DirsStay'
<1> DEFINE e == [side |-> s, kind |-> slot[s][p], path |-> p, from |-> NoDir]
<1>1. /\ sent' = Append(sent, e) /\ Slot(s, {p}, "none") /\ UNCHANGED <<has, rowDir, job>>
  BY DEF TimerFires, disk, state
<1>2. \A x \in Side, q \in Dirs \cup Files : slot'[x][q] \in {slot[x][q], "none"}
  BY <1>1, SlotEffect DEF Inv, EventsOK
<1>3. e.kind = "delete" => e.path \in Files
  BY DEF DirsStay
<1>4. \A i \in DOMAIN sent' : (i \in DOMAIN sent /\ sent'[i] = sent[i]) \/ sent'[i] = e
  <2>1. sent \in Seq(Letters)
    BY DEF Inv, EventsOK
  <2> HIDE DEF e
  <2> QED BY <1>1, <2>1
<1> HIDE DEF e
<1> QED BY <1>1, <1>2, <1>3, <1>4 DEF DirsStay

LEMMA ProcessDirs ==
    ASSUME TreeAssumption, Inv, VersionInv, DirsStay, Process
    PROVE  DirsStay' /\ ~ProcessDirGone /\ ~ProcessMove
<1>1. PICK k : Taking(k)
  BY DEF Process, ProcessFile, ProcessFileGone, ProcessDir, ProcessDirGone, ProcessMove
<1>2. /\ Ev.side \in Side /\ NoNewMail /\ Ev.kind = k
      /\ job = Idle /\ job.at = "idle" /\ 1 \in DOMAIN sent /\ sent[1] = Ev
  BY <1>1, IdleFacts
<1>3. ~ProcessDirGone /\ ~ProcessMove
  <2>1. Ev.kind # "move" /\ (Ev.kind = "delete" => Ev.path \in Files)
    BY <1>2 DEF VersionInv, Steady, DirsStay
  <2>2. Ev.path \in Files => Ev.path \notin Dirs
    BY InvFacts
  <2> QED BY <2>1, <2>2 DEF ProcessDirGone, ProcessMove, Taking
<1>4. job'.at \notin {"inspect", "aside", "unrecord"}
  BY <1>2, <1>3 DEF Process, ProcessFile, ProcessFileGone, ProcessDir, StartDir, Idle
<1>5. /\ \A x \in Side : has[x] \subseteq has'[x] /\ rowDir'[x] = rowDir[x]
      /\ \A x \in Side, d \in Dirs : slot'[x][d] \in {slot[x][d], "content"}
  <2>1. CASE \E s \in Side, p \in Files, f \in BOOLEAN : PropagateContent(s, p, f)
    <3>1. PICK s \in Side, p \in Files, f \in BOOLEAN : PropagateContent(s, p, f)
      BY <2>1
    <3>2. /\ \A x \in Side, d \in Dirs : d \in has[x] => d \in has'[x]
          /\ \A x \in Side, q \in Dirs \cup Files : slot'[x][q] \in {slot[x][q], "content"}
      BY <3>1, PropagateEffect
    <3>3. rowDir' = rowDir
      BY <3>1 DEF PropagateContent
    <3> QED BY <3>2, <3>3 DEF Inv, DiskOK
  <2>2. CASE UNCHANGED <<has, rowDir, slot>>
    BY <2>2
  <2>3. \/ \E s \in Side, p \in Files, f \in BOOLEAN : PropagateContent(s, p, f)
        \/ UNCHANGED <<has, rowDir, slot>>
    BY <1>2, <1>3 DEF Process, ProcessFile, ProcessFileGone, ProcessDir, RemoveFile, disk, state
  <2> QED BY <2>1, <2>2, <2>3
<1> QED BY <1>2, <1>3, <1>4, <1>5, DirsRemain

LEMMA OperateDirs ==
    ASSUME TreeAssumption, Inv, VersionInv, DirsStay, Operate
    PROVE  DirsStay' /\ ~(Inspect \/ MoveAside \/ RmTree \/ Unrecord \/ MoveDir \/ Renote)
<1>1. ~(Inspect \/ MoveAside \/ RmTree \/ Unrecord \/ MoveDir \/ Renote)
  BY DEF DirsStay, VersionInv, Steady, Inspect, MoveAside, RmTree, Unrecord, MoveDir, Renote,
         Doing
<1>2. PICK label \in {"mkdir", "copy", "note", "walkA", "walkB"} : Doing(label)
  BY <1>1 DEF Operate, Mkdir, CopyOne, CopyDone, Note, WalkA, WalkB
<1>3. D \in Dirs /\ Dst \in Side /\ job.src \in Side
  BY <1>2, Handling
<1>4. Ended.at \notin {"inspect", "aside", "unrecord"}
  BY EndedPlan DEF VersionInv
<1>5. job'.at \notin {"inspect", "aside", "unrecord"}
  <2>1. CASE job' = Ended
    BY <1>4, <2>1
  <2>2. CASE job' # Ended
    <3>1. job.at \in {"mkdir", "copy", "note", "walkA", "walkB"} /\ job \in Job
      BY <1>2 DEF Doing, Inv, JobOK
    <3> QED BY <1>1, <2>2, <3>1, ZenonT(60) DEF Operate, Mkdir, CopyOne, CopyDone, Note, WalkA, WalkB,
                                    Fail, Finish, Proceed, Job
  <2> QED BY <2>1, <2>2
<1>6. \A x \in Side : has[x] \subseteq has'[x]
  <2>1. has' = has \/ has' = [has EXCEPT ![Dst] = @ \cup {D}]
    BY <1>1 DEF Operate, Mkdir, CopyOne, CopyDone, Note, WalkA, WalkB, disk
  <2> QED BY <1>3, <2>1 DEF Inv, DiskOK
<1>7. \A x \in Side : rowDir'[x] \subseteq rowDir[x] \cup has'[x]
  <2>1. CASE Note
    <3>1. rowDir' = rowDir \/ /\ D \in has["A"] \cap has["B"]
                              /\ rowDir' = [s \in Side |-> rowDir[s] \cup {D}]
      BY <2>1 DEF Note
    <3>2. has' = has
      BY <2>1 DEF Note, disk
    <3> QED BY <3>1, <3>2, Sides
  <2>2. CASE WalkA \/ WalkB
    <3>1. PICK s \in Side : rowDir' = [rowDir EXCEPT ![s] = @ \cup ({D} \cap has[s])]
      BY <2>2, Sides DEF WalkA, WalkB, RecordTree
    <3>2. has' = has
      BY <2>2 DEF WalkA, WalkB, disk
    <3> QED BY <3>1, <3>2 DEF Inv, RowsOK
  <2>3. CASE Mkdir \/ CopyOne \/ CopyDone
    <3>1. rowDir' = rowDir
      BY <2>3 DEF Mkdir, CopyOne, CopyDone, state
    <3> QED BY <3>1
  <2> QED BY <1>1, <2>1, <2>2, <2>3 DEF Operate
<1>8. sent' = sent /\ \A x \in Side, d \in Dirs : slot'[x][d] \in {slot[x][d], "content"}
  <2>1. CASE UNCHANGED events
    BY <2>1 DEF events
  <2>2. CASE ~UNCHANGED events
    <3>1. Leak /\ (Doing("note") \/ Doing("walkB"))
      BY <1>1, <2>2 DEF Operate, Mkdir, CopyOne, CopyDone, Note, WalkA, WalkB
    <3>2. /\ sent' = sent
          /\ \A x \in Side, q \in Dirs \cup Files :
                 \/ slot'[x][q] = slot[x][q]
                 \/ x = Dst /\ q = D /\ slot'[x][q] = "content"
      BY <3>1, LeakEffect
    <3> QED BY <3>2
  <2> QED BY <2>1, <2>2
<1>9. NoNewMail
  BY <1>8, Mail DEF Inv
<1> QED BY <1>1, <1>5, <1>6, <1>7, <1>8, <1>9, DirsRemain

LEMMA ReconcileDirs ==
    ASSUME TreeAssumption, Inv, VersionInv, DirsStay, Reconcile
    PROVE  DirsStay'
<1>1. sent' = sent /\ NoNewMail
  <2>1. sent' = sent
    BY DEF Reconcile, StartResync, Scan, ReconcileDir, ReconcileOneDir, ReconcileOneFile,
           ReconcileFile, ReconcileDone, events
  <2> QED BY <2>1, Mail DEF Inv
<1>2. CASE ReconcileOneDir
  <2>1. PICK s \in Side, d \in Dirs :
          /\ UNCHANGED <<has, rowDir, slot>> /\ d \notin has[Other(s)]
          /\ job'.at = "mkdir" \/ d \in rowDir[Other(s)]
    BY <1>2, OneDirEffect
  <2>2. job'.at = "mkdir"
    BY <2>1, Sides DEF DirsStay
  <2> QED BY <1>1, <2>1, <2>2, DirsRemain
<1>3. CASE ~ReconcileOneDir
  <2>1. job'.at \notin {"inspect", "aside", "unrecord"}
    <3>1. CASE StartResync \/ ReconcileDone
      BY <3>1, Resting DEF StartResync, ReconcileDone
    <3>2. CASE Scan
      BY <3>2 DEF Scan, Inv, JobOK, Job
    <3>3. CASE ReconcileDir \/ ReconcileOneFile \/ ReconcileFile
      <4>1. job' = Rest({Ahead}) /\ job.at = "next"
        BY <3>3 DEF ReconcileDir, ReconcileOneFile, ReconcileFile, Turn, Doing
      <4> QED BY <4>1 DEF Rest, Inv, JobOK, Job
    <3> QED BY <1>3, <3>1, <3>2, <3>3 DEF Reconcile
  <2>2. \A x \in Side : rowDir'[x] \subseteq rowDir[x] \cup has[x]
    <3>1. CASE ReconcileDir
      <4>1. rowDir' \in {rowDir} \cup {[s \in Side |-> rowDir[s] \cup {d}] :
                                          d \in {Ahead} \cap has["A"] \cap has["B"]}
        BY <3>1 DEF ReconcileDir
      <4> QED BY <4>1, Sides
    <3>2. CASE ~ReconcileDir
      <4>1. rowDir' = rowDir
        BY <1>3, <3>2 DEF Reconcile, StartResync, Scan, ReconcileOneFile, ReconcileFile,
                          ReconcileDone, RemoveFile, PropagateContent, state
      <4> QED BY <4>1
    <3> QED BY <3>1, <3>2
  <2>3. /\ \A x \in Side : has[x] \subseteq has'[x]
        /\ \A x \in Side, d \in Dirs : slot'[x][d] \in {slot[x][d], "content"}
    <3>1. CASE \E s \in Side, f \in BOOLEAN : Turn(Files) /\ PropagateContent(s, Ahead, f)
      <4>1. PICK s \in Side, f \in BOOLEAN : Turn(Files) /\ PropagateContent(s, Ahead, f)
        BY <3>1
      <4>2. Ahead \in Files
        BY <4>1, TurnFacts
      <4>3. /\ \A x \in Side, d \in Dirs : d \in has[x] => d \in has'[x]
            /\ \A x \in Side, q \in Dirs \cup Files : slot'[x][q] \in {slot[x][q], "content"}
        BY <4>1, <4>2, PropagateEffect
      <4> QED BY <4>3 DEF Inv, DiskOK
    <3>2. CASE UNCHANGED <<has, slot>>
      BY <3>2
    <3>3. \/ \E s \in Side, f \in BOOLEAN : Turn(Files) /\ PropagateContent(s, Ahead, f)
          \/ UNCHANGED <<has, slot>>
      <4>1. CASE ReconcileOneFile
        BY <4>1 DEF ReconcileOneFile, RemoveFile
      <4>2. CASE ReconcileFile
        <5>1. Newer(Ahead) \in Side /\ (Origin(Ahead) # {} =>
                                           (CHOOSE s \in Origin(Ahead) : TRUE) \in Side)
          BY Sides DEF Newer, Origin
        <5> QED BY <4>2, <5>1 DEF ReconcileFile, disk
      <4>3. CASE ~ReconcileOneFile /\ ~ReconcileFile
        BY <1>3, <4>3 DEF Reconcile, StartResync, Scan, ReconcileDir, ReconcileDone, disk, events
      <4> QED BY <4>1, <4>2, <4>3
    <3> QED BY <3>1, <3>2, <3>3
  <2> QED BY <1>1, <1>3, <2>1, <2>2, <2>3, DirsRemain
<1> QED BY <1>2, <1>3

LEMMA InitKeeps == TreeAssumption /\ Init => VersionInv /\ DirsStay
<1> SUFFICES ASSUME TreeAssumption, Init PROVE VersionInv /\ DirsStay
  OBVIOUS
<1>1. /\ \A s \in Side, p \in Files : file[s][p] = 0 /\ row[s][p] = 0
      /\ \A s \in Side : has[s] = {} /\ rowDir[s] = {}
      /\ \A s \in Side, q \in Dirs \cup Files : slot[s][q] = "none"
      /\ sent = << >> /\ clock = 0
      /\ job.at = "idle" /\ job.echo = "none" /\ job.plan = {}
  BY DEF Init, NoFiles, Nothing, Idle
<1>2. Numbered /\ Copied /\ Planned /\ Steady /\ NothingLost
  BY <1>1 DEF Numbered, Copied, Planned, Steady, NothingLost
<1>3. ASSUME NEW p \in Files PROVE PathInv(p)
  <2>1. \A s \in Side : ~Leaving(s, p) /\ ~Coming(s, p[1])
    BY <1>1, FilesAre DEF Leaving, Coming, Heralded, Copying
  <2> QED BY <1>1, <2>1 DEF PathInv, Blame, Departure, Arrival
<1>4. DirsStay
  BY <1>1 DEF DirsStay
<1> QED BY <1>2, <1>3, <1>4 DEF VersionInv

LEMMA StutterKeeps ==
    ASSUME VersionInv, UNCHANGED vars
    PROVE  VersionInv'
<1>1. UNCHANGED <<has, file, kept, aside, row, rowDir, slot, sent, job, clock, dead>>
  BY DEF vars, disk, state, events, bounds
<1>2. Numbered' /\ Copied' /\ Planned' /\ Steady' /\ NothingLost'
  BY <1>1 DEF VersionInv, Numbered, Steady, Copied, Planned, NothingLost, VersionsIn,
              FilesIn, FileOf, Handled, In
<1>3. ASSUME NEW p \in Files PROVE PathInv(p)'
  <2>1. \A s \in Side : Leaving(s, p)' => Leaving(s, p)
    BY <1>1 DEF Leaving
  <2>2. \A s \in Side : Coming(s, p[1])' => Coming(s, p[1])
    BY <1>1 DEF Coming, Heralded, Copying
  <2>3. Erasing(p[1]) => Erasing(p[1])'
    BY <1>1 DEF Erasing
  <2> QED BY <1>1, <2>1, <2>2, <2>3, PathStays DEF VersionInv
<1> QED BY <1>2, <1>3 DEF VersionInv

LEMMA VersionStep ==
    ASSUME TreeAssumption, Unhurried, Inv, VersionInv, DirsStay, [Next]_vars
    PROVE  VersionInv' /\ DirsStay'
<1>1. CASE UNCHANGED vars
  <2>1. DirsStay'
    BY <1>1 DEF vars, disk, state, events, DirsStay
  <2> QED BY <1>1, <2>1, StutterKeeps
<1>2. CASE UserStep
  <2>1. PICK s \in Side : \/ \E d \in Dirs : MakeDir(s, d)
                          \/ \E p \in Files : Write(s, p) \/ Delete(s, p)
    BY <1>2, NoOtherUsers DEF UserStep
  <2> QED BY <2>1, UserDirs, MakeDirKeeps, WriteKeeps, DeleteKeeps DEF Unhurried
<1>3. CASE Daemon \/ Crash
  <2>1. CASE Process
    <3>1. DirsStay' /\ ~ProcessDirGone /\ ~ProcessMove
      BY <2>1, ProcessDirs
    <3> QED BY <2>1, <3>1, ProcessFileKeeps, ProcessFileGoneKeeps, ProcessDirKeeps DEF Process
  <2>2. CASE Operate
    <3>1. DirsStay' /\ ~(Inspect \/ MoveAside \/ RmTree \/ Unrecord \/ MoveDir \/ Renote)
      BY <2>2, OperateDirs
    <3> QED BY <2>2, <3>1, MkdirKeeps, CopyOneKeeps, CopyDoneKeeps, NoteKeeps, WalkKeeps
            DEF Operate
  <2>3. CASE Reconcile
    BY <2>3, ReconcileDirs, ScanKeeps, ReconcileDirKeeps, OneDirKeeps, ReconcileOneFileKeeps,
       ReconcileFileKeeps DEF Reconcile
  <2>4. CASE Boot \/ Crash
    <3>1. job.at # "unrecord"
      BY DEF DirsStay
    <3>2. VersionInv'
      BY <2>4, <3>1, CrashKeeps
    <3>3. UNCHANGED <<has, rowDir>>
      BY <2>4 DEF Crash, Boot, disk, state
    <3>4. /\ job'.at \notin {"inspect", "aside", "unrecord"}
          /\ sent' \in {sent, << >>}
          /\ \A x \in Side, d \in Dirs : slot'[x][d] \in {slot[x][d], "none"}
      <4>1. CASE Crash
        BY <4>1, Resting DEF Crash
      <4>2. CASE Boot
        BY <4>2, Resting DEF Boot, events
      <4> QED BY <2>4, <4>1, <4>2
    <3>5. NoNewMail
      BY <3>4, Mail DEF Inv
    <3> QED BY <3>2, <3>3, <3>4, <3>5, DirsRemain
  <2> QED BY <1>3, <2>1, <2>2, <2>3, <2>4 DEF Daemon
<1>5. CASE \E s \in Side, p \in Dirs \cup Files : TimerFires(s, p)
  BY <1>5, TimerKeeps, TimerDirs
<1> QED BY <1>1, <1>2, <1>3, <1>5 DEF Next

\* No version of a file is ever lost: what is overwritten, by an event, by the copy of
\* a directory or by a reconciliation, was deleted or replaced by a user, is on the
\* other side, or is preserved beside it.
THEOREM KeepsVersions == ASSUME Unhurried PROVE Spec => []NothingLost
<1> USE TreeAssumption
<1>1. Init => Inv /\ VersionInv /\ DirsStay
  BY InitTypes, InitKeeps
<1>2. Inv /\ VersionInv /\ DirsStay /\ [Next]_vars => Inv' /\ VersionInv' /\ DirsStay'
  BY TypeStep, VersionStep
<1>3. VersionInv => NothingLost
  BY DEF VersionInv
<1> QED BY <1>1, <1>2, <1>3, PTL DEF Spec

--------------------------------------------------------------------------------
(* Converged and StaysDead, for the same users.  Both are about the machinery at  *)
(* rest; what is so at every moment is that each path on which the sides or the   *)
(* rows disagree is on its way to agreement, and from which side.                 *)

\* A reconciliation is going to look at the path, ...
Due(p) == ~up \/ resync \/ job.at = "scan" \/ p \in job.plan

\* ... or what s has there is announced, by itself or with its directory.
Told(s, p) == Due(p) \/ Pending(s, p) \/ (FileOf(s, p) /\ Coming(s, p[1]))

\* A directory has been copied and will be recorded.
InWork(p) == /\ job.at \in {"copy", "note", "walkA", "walkB"} /\ job.deep
             /\ p \in In(job.dir)

\* A file that no user replaced or deleted, or none.
Fresh(s, p) == file[s][p] \notin dead

\* Both sides have the same, and the rows say so; ...
Agreed(p) == Settled("A", p) /\ Settled("B", p) /\ Fresh("A", p)

\* ... or s has changed what both had recorded, and nothing of the other side can undo
\* that: a deletion on its way, or the copy of a directory; ...
Leads(s, p) ==
    LET t == Other(s)
    IN /\ Settled(t, p) /\ file[s][p] # file[t][p] /\ Fresh(s, p) /\ Told(s, p)
       /\ ~Leaving(t, p) /\ (FileOf(t, p) => ~Coming(t, p[1]))

\* ... or both gave a new file that name; ...
Rivals(p) ==
    /\ Unknown(p) /\ file["A"][p] # file["B"][p]
    /\ \A s \in Side : /\ FileOf(s, p) /\ Fresh(s, p) /\ Told(s, p)
                       /\ ~Leaving(s, p) /\ ~Coming(s, p[1])

\* ... or a walk recorded a file that only s has; ...
HalfKnown(s, p) ==
    /\ FileOf(s, p) /\ row[s][p] = file[s][p] /\ Fresh(s, p) /\ Told(s, p)
    /\ file[Other(s)][p] = 0 /\ row[Other(s)][p] = 0

\* ... or a copy is to be recorded.
Unrecorded(p) ==
    /\ FileOf("A", p) /\ file["A"][p] = file["B"][p] /\ Fresh("A", p)
    /\ Due(p) \/ InWork(p)

Accounted(p) == \/ Agreed(p) \/ Rivals(p) \/ Unrecorded(p)
                \/ \E s \in Side : Leads(s, p) \/ HalfKnown(s, p)

\* A deletion on its way is of a file that is gone, or that is heard of again after it.
Rewritten(s, p) ==
    /\ slot[s][p] = "delete" => ~FileOf(s, p)
    /\ FileOf(s, p) /\ slot[s][p] # "content" =>
           \A j \in DOMAIN sent :
               sent[j].side = s /\ sent[j].kind = "delete" /\ sent[j].path = p =>
                   \E i \in DOMAIN sent : /\ j < i /\ sent[i].side = s /\ sent[i].path = p
                                          /\ sent[i].kind = "content"

\* A directory only one side has is on its way to the other.
DirKnown(s, d) == d \in has[s] => d \in has[Other(s)] \/ Due(d) \/ Coming(s, d)

\* What is announced, or recorded, has a directory to be in.
Placed == \A s \in Side : /\ \A d \in Dirs : Coming(s, d) => d \in has[s]
                          /\ \A p \in Files : row[s][p] # 0 => p[1] \in has[s]

\* The work in hand: users do not touch the directory meanwhile.
JobReady ==
    /\ job.at = "scan" => job.scope = Dirs
    /\ job.at = "copy" => job.deep /\ job.todo \subseteq FilesIn(job.src, job.dir)
    /\ job.at \in {"copy", "note", "walkA", "walkB"} =>
           /\ job.dir \in has["A"] \cap has["B"]
           /\ job.echo = "content" =>
                  \A p \in In(job.dir) : file[Other(job.src)][p] \in {0, file[job.src][p]}
    /\ job.at = "walkB" => \A p \in In(job.dir) : FileOf("A", p) => row["A"][p] = file["A"][p]

\* A version is written once, for one path.
Origins == /\ dead \subseteq 1..clock /\ aside = {}
           /\ \A x, y \in Side, p, q \in Files : FileOf(x, p) /\ file[x][p] = file[y][q] => p = q

\* Without the watchers there are no events.
Silent == ~up => sent = << >> /\ \A s \in Side, q \in Dirs \cup Files : slot[s][q] = "none"

AgreeInv == /\ JobReady /\ Placed /\ Origins /\ Silent
            /\ \A s \in Side, p \in Files : Rewritten(s, p)
            /\ \A s \in Side, d \in Dirs : DirKnown(s, d)
            /\ \A p \in Files : Accounted(p)

--------------------------------------------------------------------------------
(* One path from a step to the next.                                              *)
LEMMA AccountMoves ==
    ASSUME NEW p \in Files, Accounted(p),
           \A x \in Side : file'[x][p] = file[x][p] /\ row'[x][p] = row[x][p],
           \A x \in Side : Fresh(x, p) => Fresh(x, p)',
           \A x \in Side : Told(x, p) => Told(x, p)' \/ file[x][p] = file[Other(x)][p],
           \A x \in Side : Leaving(x, p)' => Leaving(x, p),
           \A x \in Side : Coming(x, p[1])' =>
                               Coming(x, p[1]) \/ file[x][p] \in {0, file[Other(x)][p]},
           Unrecorded(p) => Due(p)' \/ InWork(p)'
    PROVE  Accounted(p)'
<1>1. "A" \in Side /\ "B" \in Side /\ Other("A") = "B" /\ Other("B") = "A"
      /\ \A x \in Side : Other(x) \in Side /\ Other(Other(x)) = x /\ Other(x) # x
  BY Sides DEF Other
<1>2. CASE Agreed(p)
  BY <1>1, <1>2 DEF Agreed, Settled, Accounted
<1>3. CASE Rivals(p)
  <2>1. Unknown(p)' /\ file'["A"][p] # file'["B"][p]
    BY <1>1, <1>3 DEF Rivals, Unknown
  <2>2. ASSUME NEW s \in Side
        PROVE  FileOf(s, p)' /\ Fresh(s, p)' /\ Told(s, p)' /\ ~Leaving(s, p)' /\ ~Coming(s, p[1])'
    <3>1. FileOf(s, p) /\ Fresh(s, p) /\ Told(s, p) /\ ~Leaving(s, p) /\ ~Coming(s, p[1])
      BY <1>3 DEF Rivals
    <3>2. file[s][p] # file[Other(s)][p] /\ file[s][p] # 0
      BY <1>1, <1>3, <3>1, Sides DEF Rivals, FileOf
    <3> QED BY <3>1, <3>2 DEF FileOf
  <2> QED BY <2>1, <2>2 DEF Rivals, Accounted
<1>4. CASE Unrecorded(p)
  <2>1. Fresh("A", p)' /\ (Due(p)' \/ InWork(p)')
    BY <1>1, <1>4 DEF Unrecorded, FileOf
  <2> QED BY <1>1, <1>4, <2>1 DEF Unrecorded, FileOf, Accounted
<1>5. ASSUME NEW s \in Side, Leads(s, p) PROVE Accounted(p)'
  <2> DEFINE t == Other(s)
  <2>1. /\ Settled(t, p) /\ file[s][p] # file[t][p] /\ Fresh(s, p) /\ Told(s, p)
        /\ ~Leaving(t, p) /\ (FileOf(t, p) => ~Coming(t, p[1])) /\ t \in Side /\ Other(t) = s
    BY <1>1, <1>5 DEF Leads
  <2>2. Fresh(s, p)' /\ Told(s, p)' /\ ~Leaving(t, p)'
    BY <2>1
  <2>3. Settled(t, p)'
    BY <1>1, <2>1 DEF Settled
  <2>4. FileOf(t, p)' => ~Coming(t, p[1])'
    BY <2>1 DEF FileOf
  <2>5. file'[s][p] # file'[t][p]
    BY <2>1
  <2>6. Leads(s, p)'
    BY <2>2, <2>3, <2>4, <2>5 DEF Leads
  <2> QED BY <2>6 DEF Accounted
<1>6. ASSUME NEW s \in Side, HalfKnown(s, p) PROVE Accounted(p)'
  <2>1. HalfKnown(s, p)'
    BY <1>1, <1>6 DEF HalfKnown, FileOf
  <2> QED BY <2>1 DEF Accounted
<1> QED BY <1>2, <1>3, <1>4, <1>5, <1>6 DEF Accounted

LEMMA AccountRemains ==
    ASSUME NEW p \in Files, Accounted(p),
           \A x \in Side : file'[x][p] = file[x][p] /\ row'[x][p] = row[x][p],
           \A x \in Side : Fresh(x, p) => Fresh(x, p)',
           \A x \in Side : Told(x, p) => Told(x, p)' \/ file[x][p] = file[Other(x)][p],
           \A x \in Side : Leaving(x, p)' => Leaving(x, p),
           \A x \in Side : Coming(x, p[1])' =>
                               Coming(x, p[1]) \/ file[x][p] \in {0, file[Other(x)][p]},
           Due(p) \/ InWork(p) => Due(p)' \/ InWork(p)' \/ file["A"][p] = 0
    PROVE  Accounted(p)'
BY AccountMoves DEF Unrecorded, FileOf

LEMMA AccountAgreed ==
    ASSUME NEW p, file'["A"][p] \notin dead',
           \A x \in Side : file'[x][p] = file'["A"][p] /\ row'[x][p] = file'["A"][p]
    PROVE  Accounted(p)'
BY Sides DEF Accounted, Agreed, Settled, Fresh

LEMMA RewrittenRemains ==
    ASSUME EventsOK, NEW s \in Side, NEW p \in Files, Rewritten(s, p),
           \/ slot'[s][p] = "content"
           \/ ~Leaving(s, p)'
           \/ /\ slot'[s][p] = slot[s][p] /\ (FileOf(s, p)' => FileOf(s, p))
              /\ sent' = sent \/ (sent # << >> /\ sent' = Tail(sent))
    PROVE  Rewritten(s, p)'
<1>1. CASE slot'[s][p] = "content"
  BY <1>1 DEF Rewritten
<1>2. CASE ~Leaving(s, p)'
  BY <1>2 DEF Rewritten, Leaving
<1>3. CASE /\ slot'[s][p] = slot[s][p] /\ (FileOf(s, p)' => FileOf(s, p)) /\ sent' = sent
  BY <1>3 DEF Rewritten
<1>4. CASE /\ slot'[s][p] = slot[s][p] /\ (FileOf(s, p)' => FileOf(s, p))
           /\ sent # << >> /\ sent' = Tail(sent)
  <2>1. sent \in Seq(Letters)
    BY DEF EventsOK
  <2>2. \A j \in DOMAIN sent' : j \in Nat /\ j + 1 \in DOMAIN sent /\ sent'[j] = sent[j + 1]
    BY <1>4, <2>1
  <2>3. \A i \in DOMAIN sent : i \in Nat /\ (i > 1 => i - 1 \in DOMAIN sent' /\ sent'[i - 1] = sent[i])
    BY <1>4, <2>1
  <2>4. ASSUME FileOf(s, p)', slot'[s][p] # "content", NEW j \in DOMAIN sent',
               sent'[j].side = s, sent'[j].kind = "delete", sent'[j].path = p
        PROVE  \E i \in DOMAIN sent' : /\ j < i /\ sent'[i].side = s /\ sent'[i].path = p
                                       /\ sent'[i].kind = "content"
    <3>1. PICK i \in DOMAIN sent : /\ j + 1 < i /\ sent[i].side = s /\ sent[i].path = p
                                   /\ sent[i].kind = "content"
      BY <1>4, <2>2, <2>4 DEF Rewritten
    <3>2. i - 1 \in DOMAIN sent' /\ sent'[i - 1] = sent[i] /\ j < i - 1
      BY <2>2, <2>3, <3>1
    <3> QED BY <3>1, <3>2
  <2> QED BY <1>4, <2>4 DEF Rewritten
<1> QED BY <1>1, <1>2, <1>3, <1>4

\* Steps that write no new version.
LEMMA OriginsRemain ==
    ASSUME Origins, UNCHANGED <<dead, clock, aside>>,
           \A x \in Side, p \in Files : file'[x][p] = 0 \/ \E y \in Side : file'[x][p] = file[y][p]
    PROVE  Origins'
<1>1. ASSUME NEW x \in Side, NEW y \in Side, NEW p \in Files, NEW q \in Files,
             FileOf(x, p)', file'[x][p] = file'[y][q]
      PROVE  p = q
  <2>1. PICK z \in Side : file'[x][p] = file[z][p]
    BY <1>1 DEF FileOf
  <2>2. PICK w \in Side : file'[y][q] = file[w][q]
    BY <1>1 DEF FileOf
  <2>3. file[z][p] # 0 /\ file[z][p] = file[w][q]
    BY <1>1, <2>1, <2>2 DEF FileOf
  <2>4. FileOf(z, p)
    BY <2>3 DEF FileOf
  <2> QED BY <2>3, <2>4 DEF Origins
<1>2. dead' \subseteq 1..clock' /\ aside' = {}
  BY DEF Origins
<1> QED BY <1>1, <1>2 DEF Origins

LEMMA DirRemains ==
    ASSUME NEW s \in Side, NEW d \in Dirs, DirKnown(s, d),
           d \in has'[s] => d \in has[s], d \in has[Other(s)] => d \in has'[Other(s)],
           Due(d) => Due(d)' \/ d \in has'[Other(s)] \/ Coming(s, d)',
           Coming(s, d) => Coming(s, d)' \/ d \in has'[Other(s)]
    PROVE  DirKnown(s, d)'
BY DEF DirKnown

LEMMA NoneDead ==
    ASSUME TreeAssumption, Inv, VersionInv, AgreeInv
    PROVE  /\ 0 \notin dead /\ clock \in Nat /\ \A v \in dead : v \in Nat /\ v <= clock
           /\ \A s \in Side, p \in Files : file[s][p] \in Nat /\ file[s][p] <= clock
<1>1. clock \in Nat /\ dead \subseteq 1..clock
  BY InvFacts DEF AgreeInv, Origins
<1>2. \A s \in Side, p \in Files : file[s][p] \in Nat /\ file[s][p] <= clock
  BY InvFacts DEF VersionInv, Numbered
<1> QED BY <1>1, <1>2

--------------------------------------------------------------------------------
(* Users and timers.                                                              *)
LEMMA UserSlots ==
    ASSUME TreeAssumption, Apart, Inv, NEW s \in Side, NEW d, NEW P, NEW k,
           Free(d), Tell(s, d, P, k)
    PROVE  \A x \in Side, q \in Dirs \cup Files :
               slot'[x][q] = IF up /\ x = s /\ q \in P THEN k ELSE slot[x][q]
<1>1. ~Guarded(s, d)
  BY DEF Apart, Free, Busy, Guarded
<1>2. CASE up
  <2>1. Slot(s, P, k)
    BY <1>1, <1>2 DEF Tell, Heard
  <2> QED BY <1>2, <2>1, SlotEffect DEF Inv, EventsOK
<1>3. CASE ~up
  BY <1>3 DEF Tell, Heard
<1> QED BY <1>2, <1>3

LEMMA MakeDirAgrees ==
    ASSUME TreeAssumption, Apart, Inv, VersionInv, AgreeInv, NEW s \in Side, NEW d \in Dirs,
           MakeDir(s, d)
    PROVE  AgreeInv'
<1>1. /\ d \notin has[s] /\ May(s, d) /\ has' = [has EXCEPT ![s] = @ \cup {d}]
      /\ Tell(s, d, {d}, "content")
      /\ UNCHANGED <<file, aside, row, sent, job, resync, up, clock, dead>>
  BY DEF MakeDir, state
<1>2. \A x \in Side, q \in Dirs \cup Files :
          slot'[x][q] = IF up /\ x = s /\ q = d THEN "content" ELSE slot[x][q]
  BY <1>1, UserSlots DEF May
<1>3. \A x \in Side, e \in Dirs : e \in has'[x] <=> e \in has[x] \/ (x = s /\ e = d)
  BY <1>1 DEF Inv, DiskOK
<1>4. \A q \in Dirs \cup Files : Due(q)' <=> Due(q)
  BY <1>1 DEF Due
<1>5. \A x \in Side, q \in Files : slot'[x][q] = slot[x][q]
  BY <1>2, InvFacts
<1>6. \A x \in Side, e \in Dirs : /\ Coming(x, e) => Coming(x, e)'
                                  /\ Coming(x, e)' => Coming(x, e) \/ (x = s /\ e = d)
  BY <1>1, <1>2 DEF Coming, Heralded, Copying
<1>7. ASSUME NEW p \in Files PROVE Accounted(p)'
  <2>1. p[1] \in Dirs
    BY InvFacts
  <2>2. \A x \in Side : Told(x, p) => Told(x, p)'
    BY <1>1, <1>4, <1>5, <1>6, <2>1 DEF Told, Pending, Sent, FileOf
  <2>3. \A x \in Side : Leaving(x, p)' => Leaving(x, p)
    BY <1>1, <1>5 DEF Leaving
  <2>4. \A x \in Side : Coming(x, p[1])' => Coming(x, p[1]) \/ file[x][p] = 0
    BY <1>1, <1>6, <2>1, InvFacts
  <2>5. InWork(p) => InWork(p)'
    BY <1>1 DEF InWork
  <2>6. \A x \in Side : Fresh(x, p) => Fresh(x, p)'
    BY <1>1 DEF Fresh
  <2> QED BY <1>1, <1>4, <2>2, <2>3, <2>4, <2>5, <2>6, AccountRemains DEF AgreeInv
<1>8. JobReady'
  <2>1. \A x \in Side : has[x] \subseteq has'[x]
    BY <1>3 DEF Inv, DiskOK
  <2> QED BY <1>1, <2>1, Sides DEF AgreeInv, JobReady, FilesIn, FileOf
<1>9. Placed'
  BY <1>1, <1>3, <1>6, InvFacts DEF AgreeInv, Placed
<1>10. ASSUME NEW x \in Side, NEW e \in Dirs PROVE DirKnown(x, e)'
  <2>1. CASE x = s /\ e = d
    BY <1>1, <1>2, <2>1 DEF DirKnown, Due, Coming, Heralded
  <2>2. CASE ~(x = s /\ e = d)
    BY <1>3, <1>4, <1>6, <2>2, Sides, DirRemains DEF AgreeInv
  <2> QED BY <2>1, <2>2
<1>11. \A x \in Side, p \in Files : Rewritten(x, p)'
  BY <1>1, <1>5, RewrittenRemains DEF AgreeInv, Inv, FileOf
<1>12. Origins'
  BY <1>1, OriginsRemain DEF AgreeInv
<1>13. Silent'
  BY <1>1, <1>2 DEF AgreeInv, Silent
<1> QED BY <1>7, <1>8, <1>9, <1>10, <1>11, <1>12, <1>13 DEF AgreeInv

\* A user changes one file; w is the new version, or none.
LEMMA FileTouched ==
    ASSUME TreeAssumption, Apart, Inv, VersionInv, AgreeInv, NEW s \in Side, NEW p \in Files,
           NEW w, Free(p[1]), p[1] \in has[s],
           \A x \in Side, q \in Files : x # s \/ q # p => file'[x][q] = file[x][q],
           file'[s][p] = w,
           dead' = dead \cup ({file[s][p]} \ {0}),
           \/ w = 0 /\ clock' = clock
           \/ w = clock + 1 /\ clock' = clock + 1,
           \A x \in Side, q \in Dirs \cup Files : x # s \/ q # p => slot'[x][q] = slot[x][q],
           slot'[s][p] = slot[s][p] \/ up,
           UNCHANGED <<has, row, sent, job, up, resync, aside>>
    PROVE  /\ JobReady' /\ Placed' /\ Origins' /\ Silent'
           /\ \A x \in Side, d \in Dirs : DirKnown(x, d)'
           /\ \A x \in Side, q \in Files : x # s \/ q # p => Rewritten(x, q)'
           /\ \A q \in Files : q # p => Accounted(q)'
           /\ \A x \in Side, d \in Dirs : Coming(x, d)' <=> Coming(x, d)
           /\ 0 \notin dead' /\ (w # 0 => w \notin dead')
<1>1. /\ 0 \notin dead /\ clock \in Nat /\ \A v \in dead : v \in Nat /\ v <= clock
      /\ \A x \in Side, q \in Files : file[x][q] \in Nat /\ file[x][q] <= clock
  BY NoneDead
<1>2. /\ p \notin Dirs /\ p[1] \in Dirs /\ p \in In(p[1])
      /\ \A q \in Files : q \notin Dirs /\ q[1] \in Dirs
  BY InvFacts, FilesAre
<1>3. \A x \in Side, d \in Dirs : Coming(x, d)' <=> Coming(x, d)
  <2>1. \A x \in Side, d \in Dirs : slot'[x][d] = slot[x][d]
    BY <1>2
  <2> QED BY <2>1 DEF Coming, Heralded, Copying
<1>4. \A q \in Dirs \cup Files : Due(q)' <=> Due(q)
  BY DEF Due
<1>5. \A x \in Side, q \in Files : FileOf(x, q) => file[x][q] \in 1..clock
  BY <1>1 DEF FileOf
<1>6. Origins'
  <2>1. dead' \subseteq 1..clock' /\ aside' = {}
    <3>1. dead \subseteq 1..clock /\ aside = {}
      BY DEF AgreeInv, Origins
    <3>2. file[s][p] # 0 => file[s][p] \in 1..clock
      BY <1>5 DEF FileOf
    <3>3. 1..clock \subseteq 1..clock'
      BY <1>1
    <3> QED BY <3>1, <3>2, <3>3
  <2>2. ASSUME NEW x \in Side, NEW y \in Side, NEW q \in Files, NEW r \in Files,
               FileOf(x, q)', file'[x][q] = file'[y][r], q # r
        PROVE  FALSE
    <3>1. file'[x][q] # 0
      BY <2>2 DEF FileOf
    <3>2. CASE ~(x = s /\ q = p) /\ ~(y = s /\ r = p)
      <4>1. file[x][q] # 0 /\ file[x][q] = file[y][r]
        BY <2>2, <3>1, <3>2
      <4> QED BY <2>2, <4>1 DEF AgreeInv, Origins, FileOf
    <3>3. CASE x = s /\ q = p
      <4>1. file'[y][r] = file[y][r] /\ file[y][r] = w /\ w # 0
        BY <2>2, <3>1, <3>3
      <4> QED BY <1>1, <4>1
    <3>4. CASE y = s /\ r = p
      <4>1. file'[x][q] = file[x][q] /\ file[x][q] = w /\ w # 0
        BY <2>2, <3>1, <3>4
      <4> QED BY <1>1, <4>1
    <3> QED BY <3>2, <3>3, <3>4
  <2> QED BY <2>1, <2>2 DEF Origins
<1>7. 0 \notin dead' /\ (w # 0 => w \notin dead')
  <2>1. clock + 1 \notin dead /\ clock + 1 # file[s][p]
    BY <1>1
  <2> QED BY <1>1, <2>1
<1>8. ASSUME NEW q \in Files, q # p PROVE Accounted(q)'
  <2>1. q[1] \in Dirs /\ \A x \in Side : slot'[x][q] = slot[x][q] /\ file'[x][q] = file[x][q]
    BY <1>2, <1>8
  <2>2. \A x \in Side : Told(x, q) => Told(x, q)'
    BY <1>3, <1>4, <2>1 DEF Told, Pending, Sent, FileOf
  <2>3. \A x \in Side : Leaving(x, q)' => Leaving(x, q)
    BY <2>1 DEF Leaving
  <2>4. \A x \in Side : Coming(x, q[1])' => Coming(x, q[1])
    BY <1>3, <2>1
  <2>5. InWork(q) => InWork(q)'
    BY DEF InWork
  <2>6. ASSUME NEW x \in Side, Fresh(x, q) PROVE Fresh(x, q)'
    <3>1. file[x][q] # 0 => file[x][q] # file[s][p]
      BY <1>8 DEF AgreeInv, Origins, FileOf
    <3> QED BY <2>1, <2>6, <3>1 DEF Fresh
  <2> QED BY <1>4, <2>1, <2>2, <2>3, <2>4, <2>5, <2>6, AccountRemains DEF AgreeInv
<1>9. JobReady'
  <2>1. ~Busy(p[1])
    BY DEF Apart, Free
  <2>2. CASE job.at = "idle"
    BY <2>2 DEF JobReady
  <2>3. CASE p[1] # job.dir
    <3>1. \A x \in Side, q \in In(job.dir) :
             q \in Files => file'[x][q] = file[x][q]
      BY <2>3 DEF In
    <3>2. job.at \in {"copy", "note", "walkA", "walkB"} => job.dir \in Dirs /\ job.src \in Side
      BY DEF Inv, JobOK, Job, Working, At
    <3>3. job.dir \in Dirs => In(job.dir) \subseteq Files
      BY FilesAre
    <3>4. job.at \in {"copy", "note", "walkA", "walkB"} =>
              \A x \in Side, q \in In(job.dir) : file'[x][q] = file[x][q]
      BY <3>1, <3>2, <3>3
    <3>5. job.at = "copy" => FilesIn(job.src, job.dir)' = FilesIn(job.src, job.dir)
      BY <3>2, <3>4 DEF FilesIn, FileOf
    <3> QED BY <3>2, <3>4, <3>5, Sides DEF AgreeInv, JobReady, FileOf
  <2> QED BY <2>1, <2>2, <2>3 DEF Busy
<1>10. Placed'
  BY <1>3 DEF AgreeInv, Placed
<1>11. ASSUME NEW x \in Side, NEW d \in Dirs PROVE DirKnown(x, d)'
  BY <1>3, <1>4, Sides, DirRemains DEF AgreeInv
<1>12. ASSUME NEW x \in Side, NEW q \in Files, x # s \/ q # p PROVE Rewritten(x, q)'
  <2>1. slot'[x][q] = slot[x][q] /\ file'[x][q] = file[x][q]
    BY <1>12
  <2> QED BY <2>1, RewrittenRemains DEF AgreeInv, Inv, FileOf
<1>13. Silent'
  BY DEF AgreeInv, Silent
<1> QED BY <1>3, <1>6, <1>7, <1>8, <1>9, <1>10, <1>11, <1>12, <1>13

\* Where the other side has no news, what a user changes leads.
LEMMA LeadsNow ==
    ASSUME NEW s \in Side, NEW p \in Files, Settled(Other(s), p)', Fresh(s, p)', Told(s, p)',
           file'[s][p] # file'[Other(s)][p], ~Leaving(Other(s), p)',
           FileOf(Other(s), p)' => ~Coming(Other(s), p[1])'
    PROVE  Accounted(p)'
BY DEF Accounted, Leads

LEMMA NoNews ==
    ASSUME TreeAssumption, Apart, Inv, VersionInv, NEW s \in Side, NEW p \in Files, May(s, p[1])
    PROVE  LET o == Other(s)
           IN Settled(o, p) /\ ~Leaving(o, p) /\ ~Coming(o, p[1])
<1> DEFINE o == Other(s)
<1>1. p \in In(p[1])
  BY FilesAre
<1>2. Clean(o, p[1]) /\ Free(p[1])
  BY DEF May, Apart
<1>3. Settled(o, p) /\ ~Pending(o, p) /\ ~Pending(o, p[1])
  BY <1>1, <1>2 DEF Clean, Recorded
<1>4. ~Leaving(o, p) /\ ~Heralded(o, p[1])
  BY <1>3 DEF Pending, Leaving, Heralded, Sent
<1>5. ~Copying(o, p[1])
  BY <1>2, LeftAlone DEF VersionInv, Copying
<1> QED BY <1>3, <1>4, <1>5 DEF Coming

LEMMA DeleteAgrees ==
    ASSUME TreeAssumption, Apart, Inv, VersionInv, AgreeInv, NEW s \in Side, NEW p \in Files,
           Delete(s, p)
    PROVE  AgreeInv'
<1> DEFINE o == Other(s)
<1>1. /\ file[s][p] # 0 /\ May(s, p[1]) /\ file' = [file EXCEPT ![s][p] = 0]
      /\ dead' = dead \cup {file[s][p]} /\ Tell(s, p[1], {p}, "delete")
      /\ UNCHANGED <<has, row, aside, sent, job, clock, up, resync>>
  BY DEF Delete, state, FileOf
<1>2. /\ \A x \in Side, q \in Files : file'[x][q] = IF x = s /\ q = p THEN 0 ELSE file[x][q]
      /\ dead' = dead \cup ({file[s][p]} \ {0}) /\ Free(p[1]) /\ p[1] \in has[s]
  BY <1>1, InvFacts DEF Inv, DiskOK, May
<1>3. \A x \in Side, q \in Dirs \cup Files :
          slot'[x][q] = IF up /\ x = s /\ q = p THEN "delete" ELSE slot[x][q]
  BY <1>1, <1>2, UserSlots
<1>4. /\ JobReady' /\ Placed' /\ Origins' /\ Silent'
      /\ \A x \in Side, d \in Dirs : DirKnown(x, d)'
      /\ \A x \in Side, q \in Files : x # s \/ q # p => Rewritten(x, q)'
      /\ \A q \in Files : q # p => Accounted(q)'
      /\ \A x \in Side, d \in Dirs : Coming(x, d)' <=> Coming(x, d)
      /\ 0 \notin dead'
  BY <1>1, <1>2, <1>3, FileTouched
<1>5. Rewritten(s, p)'
  BY <1>2 DEF Rewritten, FileOf
<1>6. Accounted(p)'
  <2>1. Settled(o, p) /\ ~Leaving(o, p) /\ ~Coming(o, p[1]) /\ o \in Side /\ o # s /\ Other(o) = s
        /\ p[1] \in Dirs
    BY <1>1, NoNews, Sides, InvFacts
  <2>2. /\ file'[o][p] = file[o][p] /\ file'[s][p] = 0 /\ slot'[o][p] = slot[o][p]
        /\ row'["A"][p] = file[o][p] /\ row'["B"][p] = file[o][p]
    BY <1>1, <1>2, <1>3, <2>1, Sides DEF Settled
  <2>3. CASE file[o][p] = 0
    <3>1. \A x \in Side : file'[x][p] = 0 /\ row'[x][p] = 0
      BY <2>1, <2>2, <2>3, Sides
    <3> QED BY <1>4, <3>1, Sides, AccountAgreed
  <2>4. CASE file[o][p] # 0
    <3>1. Settled(o, p)'
      BY <1>1, <2>1, <2>2, Sides DEF Settled
    <3>2. Fresh(s, p)'
      BY <1>4, <2>2 DEF Fresh
    <3>3. Told(s, p)'
      BY <1>1, <1>3 DEF Told, Due, Pending
    <3>4. ~Leaving(o, p)'
      BY <1>1, <2>1, <2>2 DEF Leaving
    <3>5. ~Coming(o, p[1])'
      BY <1>4, <2>1
    <3> QED BY <2>2, <2>4, <3>1, <3>2, <3>3, <3>4, <3>5, LeadsNow
  <2> QED BY <2>3, <2>4
<1> QED BY <1>4, <1>5, <1>6 DEF AgreeInv

LEMMA WriteAgrees ==
    ASSUME TreeAssumption, Apart, Inv, VersionInv, AgreeInv, NEW s \in Side, NEW p \in Files,
           Write(s, p)
    PROVE  AgreeInv'
<1> DEFINE o == Other(s)
<1>1. /\ p[1] \in has[s] /\ MayWrite(s, p) /\ clock' = clock + 1
      /\ file' = [file EXCEPT ![s][p] = clock + 1]
      /\ dead' = dead \cup ({file[s][p]} \ {0}) /\ Tell(s, p[1], {p}, "content")
      /\ UNCHANGED <<has, row, aside, sent, job, up, resync>>
  BY DEF Write, state
<1>2. /\ clock + 1 \in Nat /\ Free(p[1])
      /\ \A x \in Side, q \in Files : file[x][q] \in Nat /\ file[x][q] <= clock /\ clock \in Nat
  BY <1>1, NoneDead DEF MayWrite, May
<1>3. \A x \in Side, q \in Files :
          file'[x][q] = IF x = s /\ q = p THEN clock + 1 ELSE file[x][q]
  BY <1>1 DEF Inv, DiskOK
<1>4. \A x \in Side, q \in Dirs \cup Files :
          slot'[x][q] = IF up /\ x = s /\ q = p THEN "content" ELSE slot[x][q]
  BY <1>1, <1>2, UserSlots
<1>5. /\ JobReady' /\ Placed' /\ Origins' /\ Silent'
      /\ \A x \in Side, d \in Dirs : DirKnown(x, d)'
      /\ \A x \in Side, q \in Files : x # s \/ q # p => Rewritten(x, q)'
      /\ \A q \in Files : q # p => Accounted(q)'
      /\ \A x \in Side, d \in Dirs : Coming(x, d)' <=> Coming(x, d)
      /\ clock + 1 \notin dead'
  <2>1. PICK w \in Nat : w = clock + 1
    BY <1>2
  <2>2. /\ Free(p[1]) /\ p[1] \in has[s] /\ dead' = dead \cup ({file[s][p]} \ {0})
        /\ UNCHANGED <<has, row, sent, job, up, resync, aside>>
    BY <1>1, <1>2
  <2>3. (w = 0 /\ clock' = clock) \/ (w = clock + 1 /\ clock' = clock + 1)
    BY <1>1, <2>1
  <2>4. /\ \A x \in Side, q \in Files : x # s \/ q # p => file'[x][q] = file[x][q]
        /\ file'[s][p] = w
    BY <1>3, <2>1
  <2>5. /\ \A x \in Side, q \in Dirs \cup Files : x # s \/ q # p => slot'[x][q] = slot[x][q]
        /\ slot'[s][p] = slot[s][p] \/ up
    BY <1>4
  <2>8. w # 0
    BY <1>2, <2>1
  <2>9. /\ JobReady' /\ Placed' /\ Origins' /\ Silent'
        /\ \A x \in Side, d \in Dirs : DirKnown(x, d)'
        /\ \A x \in Side, q \in Files : x # s \/ q # p => Rewritten(x, q)'
        /\ \A q \in Files : q # p => Accounted(q)'
        /\ \A x \in Side, d \in Dirs : Coming(x, d)' <=> Coming(x, d)
        /\ 0 \notin dead' /\ (w # 0 => w \notin dead')
    BY <2>2, <2>3, <2>4, <2>5, FileTouched
  <2> QED BY <2>1, <2>8, <2>9
<1>6. o \in Side /\ o # s /\ Other(o) = s /\ p[1] \in Dirs /\ Side = {s, o} /\ p \notin Dirs
  BY Sides, InvFacts
<1>7. /\ file'[o][p] = file[o][p] /\ file'[s][p] = clock + 1 /\ slot'[o][p] = slot[o][p]
      /\ file'[s][p] # file'[o][p] /\ file'[s][p] # 0 /\ row' = row
  BY <1>1, <1>2, <1>3, <1>4, <1>6
<1>8. /\ Fresh(s, p)' /\ Told(s, p)' /\ (Leaving(o, p)' => Leaving(o, p))
  <2>1. Fresh(s, p)'
    BY <1>5, <1>7 DEF Fresh
  <2>2. Told(s, p)'
    BY <1>1, <1>4 DEF Told, Due, Pending
  <2>3. Leaving(o, p)' => Leaving(o, p)
    BY <1>1, <1>7 DEF Leaving
  <2> QED BY <2>1, <2>2, <2>3
<1>9. CASE May(s, p[1])
  <2>1. Settled(o, p) /\ ~Leaving(o, p) /\ ~Coming(o, p[1])
    BY <1>9, NoNews
  <2>2. Settled(o, p)'
    BY <1>7, <2>1 DEF Settled
  <2>3. Accounted(p)'
    BY <1>5, <1>6, <1>7, <1>8, <2>1, <2>2, LeadsNow
  <2>4. Rewritten(s, p)'
    <3>1. up => slot'[s][p] = "content"
      BY <1>4
    <3>2. ~up => ~Leaving(s, p)'
      BY <1>1, <1>4 DEF AgreeInv, Silent, Leaving
    <3> QED BY <3>1, <3>2, RewrittenRemains DEF AgreeInv, Inv
  <2> QED BY <1>5, <2>3, <2>4 DEF AgreeInv
<1>10. CASE ~May(s, p[1])
  <2>1. /\ file[s][p] = 0 /\ Unknown(p) /\ ~Leaving(o, p)
        /\ file[o][p] = 0 \/ \A x \in Side : ~Pending(x, p[1])
    BY <1>1, <1>10 DEF MayWrite
  <2>2. Unknown(p)'
    BY <1>7, <2>1 DEF Unknown
  <2>3. Rewritten(s, p)'
    <3>1. up => slot'[s][p] = "content"
      BY <1>4
    <3>2. ~up => ~Leaving(s, p)'
      BY <1>1, <1>4 DEF AgreeInv, Silent, Leaving
    <3> QED BY <3>1, <3>2, RewrittenRemains DEF AgreeInv, Inv
  <2>4. CASE file[o][p] = 0
    <3>1. Settled(o, p)' /\ ~FileOf(o, p)'
      BY <1>6, <1>7, <2>2, <2>4, Sides DEF Settled, Unknown, FileOf
    <3> QED BY <1>5, <1>7, <1>8, <2>1, <2>3, <3>1, LeadsNow DEF AgreeInv
  <2>5. CASE file[o][p] # 0
    <3>1. Leads(o, p)
      <4>1. /\ file["A"][p] # file["B"][p] /\ ~FileOf(s, p)
            /\ row["A"][p] = 0 /\ row["B"][p] = 0
        BY <1>6, <2>1, <2>5, Sides DEF Unknown, FileOf
      <4>2. ~Agreed(p) /\ ~Rivals(p) /\ ~Unrecorded(p)
        BY <1>6, <4>1 DEF Agreed, Settled, Rivals, Unrecorded
      <4>3. ~HalfKnown(s, p) /\ ~HalfKnown(o, p)
        BY <1>6, <2>5, <4>1, Sides DEF HalfKnown
      <4>4. ~Leads(s, p)
        BY <1>6, <2>5, <4>1, Sides DEF Leads, Settled
      <4>5. Accounted(p)
        BY DEF AgreeInv
      <4> QED BY <1>6, <4>2, <4>3, <4>4, <4>5 DEF Accounted
    <3>2. Fresh(o, p) /\ Told(o, p) /\ ~Leaving(s, p)
      BY <1>6, <3>1 DEF Leads
    <3>3. Fresh(o, p)'
      BY <1>1, <1>7, <2>1, <3>2 DEF Fresh
    <3>4. Told(o, p)'
      BY <1>1, <1>5, <1>6, <1>7, <3>2 DEF Told, Due, Pending, Sent, FileOf
    <3>5. ~Leaving(s, p)' /\ ~Leaving(o, p)'
      <4>1. slot'[s][p] # "delete"
        BY <1>4, <3>2 DEF Leaving
      <4> QED BY <1>1, <1>8, <2>1, <3>2, <4>1 DEF Leaving
    <3>6. \A x \in Side : ~Coming(x, p[1])'
      <4>1. \A x \in Side : ~Heralded(x, p[1])
        BY <2>1, <2>5 DEF Pending, Sent, Heralded
      <4>2. \A x \in Side : ~Copying(x, p[1])
        BY <1>2, LeftAlone DEF VersionInv, Copying
      <4> QED BY <1>5, <1>6, <4>1, <4>2 DEF Coming
    <3>7. \A x \in Side : FileOf(x, p)'
      BY <1>6, <1>7, <2>5 DEF FileOf
    <3>8. file'["A"][p] # file'["B"][p]
      BY <1>6, <1>7, Sides
    <3>9. Rivals(p)'
      BY <1>6, <1>8, <2>2, <3>3, <3>4, <3>5, <3>6, <3>7, <3>8 DEF Rivals
    <3>10. Accounted(p)'
      BY <3>9 DEF Accounted
    <3> QED BY <1>5, <2>3, <3>10 DEF AgreeInv
  <2> QED BY <2>4, <2>5
<1> QED BY <1>9, <1>10

\* A debounce window closes: what was pending is on its way, after what was before it.
LEMMA TimerAgrees ==
    ASSUME TreeAssumption, Inv, VersionInv, AgreeInv, NEW s \in Side, NEW p \in Dirs \cup Files,
           TimerFires(s, p)
    PROVE  AgreeInv'
<1> DEFINE e == [side |-> s, kind |-> slot[s][p], path |-> p, from |-> NoDir]
           n == Len(sent) + 1
<1>1. /\ up /\ slot[s][p] # "none" /\ sent' = Append(sent, e) /\ Slot(s, {p}, "none")
      /\ UNCHANGED <<has, file, row, aside, job, clock, dead, up, resync>>
  BY DEF TimerFires, disk, state, bounds
<1>2. \A x \in Side, q \in Dirs \cup Files :
          slot'[x][q] = IF x = s /\ q = p THEN "none" ELSE slot[x][q]
  BY <1>1, SlotEffect DEF Inv, EventsOK
<1>3. slot[s][p] \in {"content", "delete"}
  BY <1>1 DEF Inv, EventsOK, Slots
<1>4. e.side = s /\ e.kind = slot[s][p] /\ e.path = p
  OBVIOUS
<1>5. /\ DOMAIN sent' = DOMAIN sent \cup {n} /\ sent'[n] = e
      /\ \A i \in DOMAIN sent : i < n /\ sent'[i] = sent[i]
  <2>1. sent \in Seq(Letters)
    BY DEF Inv, EventsOK
  <2> HIDE DEF e
  <2>2. /\ DOMAIN sent' = 1..n /\ DOMAIN sent = 1..Len(sent) /\ Len(sent) \in Nat
        /\ sent'[n] = e /\ \A i \in DOMAIN sent : sent'[i] = sent[i]
    BY <1>1, <2>1
  <2> QED BY <2>2
<1> HIDE DEF e, n
<1>6. \A x \in Side, q \in Dirs \cup Files : Leaving(x, q)' => Leaving(x, q)
  BY <1>2, <1>4, <1>5 DEF Leaving
<1>7. \A x \in Side, q \in Dirs \cup Files : Heralded(x, q)' => Heralded(x, q)
  BY <1>2, <1>4, <1>5 DEF Heralded
<1>8. \A x \in Side, d \in Dirs : Coming(x, d) <=> Coming(x, d)'
  <2>1. \A x \in Side, d \in Dirs : Heralded(x, d) => Heralded(x, d)'
    BY <1>2, <1>4, <1>5 DEF Heralded
  <2> QED BY <1>1, <1>7, <2>1 DEF Coming, Copying
<1>9. \A x \in Side, q \in Files : Pending(x, q) => Pending(x, q)'
  <2>1. \A x \in Side, q \in Files : Sent(x, q) => Sent(x, q)'
    BY <1>5 DEF Sent
  <2>2. slot[s][p] # "none" => Sent(s, p)'
    BY <1>4, <1>5 DEF Sent
  <2> QED BY <1>2, <2>1, <2>2 DEF Pending
<1>10. \A q \in Dirs \cup Files : Due(q)' <=> Due(q)
  BY <1>1 DEF Due
<1>11. ASSUME NEW q \in Files PROVE Accounted(q)'
  <2>1. \A x \in Side : Told(x, q) => Told(x, q)'
    BY <1>1, <1>8, <1>9, <1>10, InvFacts DEF Told, FileOf
  <2>2. InWork(q) => InWork(q)'
    BY <1>1 DEF InWork
  <2>3. \A x \in Side : Fresh(x, q) => Fresh(x, q)'
    BY <1>1 DEF Fresh
  <2>4. \A x \in Side : Coming(x, q[1])' => Coming(x, q[1])
    BY <1>8, InvFacts
  <2> QED BY <1>1, <1>6, <1>10, <2>1, <2>2, <2>3, <2>4, AccountRemains DEF AgreeInv
<1>12. ASSUME NEW x \in Side, NEW q \in Files PROVE Rewritten(x, q)'
  <2>1. Rewritten(x, q)
    BY DEF AgreeInv
  <2>2. slot'[x][q] = "delete" => ~FileOf(x, q)'
    BY <1>1, <1>2, <2>1 DEF Rewritten, FileOf
  <2>3. ASSUME FileOf(x, q)', slot'[x][q] # "content", NEW j \in DOMAIN sent',
               sent'[j].side = x, sent'[j].kind = "delete", sent'[j].path = q
        PROVE  \E i \in DOMAIN sent' : /\ j < i /\ sent'[i].side = x /\ sent'[i].path = q
                                       /\ sent'[i].kind = "content"
    <3>1. FileOf(x, q) /\ slot[x][q] # "delete"
      BY <1>1, <2>1, <2>3 DEF Rewritten, FileOf
    <3>2. j \in DOMAIN sent /\ sent'[j] = sent[j] /\ j < n
      BY <1>4, <1>5, <2>3, <3>1
    <3>3. CASE slot[x][q] = "content"
      <4>1. x = s /\ q = p
        BY <1>2, <2>3, <3>3
      <4> QED BY <1>4, <1>5, <3>2, <3>3, <4>1
    <3>4. CASE slot[x][q] # "content"
      BY <1>5, <2>1, <2>3, <3>1, <3>2, <3>4 DEF Rewritten
    <3> QED BY <3>3, <3>4
  <2> QED BY <2>2, <2>3 DEF Rewritten
<1>13. ASSUME NEW x \in Side, NEW d \in Dirs PROVE DirKnown(x, d)'
  BY <1>1, <1>8, <1>10, DirRemains DEF AgreeInv
<1>14. JobReady' /\ Placed' /\ Origins' /\ Silent'
  <2>1. JobReady'
    BY <1>1 DEF AgreeInv, JobReady, FilesIn, FileOf
  <2>2. Placed'
    BY <1>1, <1>8 DEF AgreeInv, Placed
  <2>3. Origins'
    BY <1>1, OriginsRemain DEF AgreeInv
  <2> QED BY <1>1, <2>1, <2>2, <2>3 DEF Silent
<1> QED BY <1>11, <1>12, <1>13, <1>14 DEF AgreeInv

--------------------------------------------------------------------------------
(* The process dies and comes back; reconciliations begin and end.                *)

\* Nothing changes but the job, and what is under way goes on or is due.
LEMMA OnlyTheJob ==
    ASSUME TreeAssumption, Inv, VersionInv, AgreeInv,
           UNCHANGED <<has, file, row, clock, dead, aside>>,
           \A x \in Side, q \in Files :
               Told(x, q) => Told(x, q)' \/ file[x][q] = file[Other(x)][q],
           \A x \in Side, q \in Files : Leaving(x, q)' => Leaving(x, q),
           \A x \in Side, d \in Dirs : Coming(x, d)' => Coming(x, d),
           \A q \in Files :
               Due(q) \/ InWork(q) => Due(q)' \/ InWork(q)' \/ file["A"][q] = 0
    PROVE  Placed' /\ Origins' /\ \A q \in Files : Accounted(q)'
<1>1. ASSUME NEW q \in Files PROVE Accounted(q)'
  <2>1. \A x \in Side : Fresh(x, q) => Fresh(x, q)'
    BY DEF Fresh
  <2>2. \A x \in Side : Coming(x, q[1])' => Coming(x, q[1])
    BY InvFacts
  <2> QED BY <2>1, <2>2, AccountRemains DEF AgreeInv
<1>2. Placed'
  BY DEF AgreeInv, Placed
<1>3. Origins'
  BY OriginsRemain DEF AgreeInv
<1> QED BY <1>1, <1>2, <1>3

\* From now on everything is due: the process is down, or a scan comes next.
LEMMA AllDue ==
    ASSUME TreeAssumption, Inv, VersionInv, AgreeInv,
           UNCHANGED <<has, file, row, clock, dead, aside>>,
           ~up' \/ job'.at = "scan", job'.at \in {"idle", "scan"},
           job'.at = "scan" => job'.scope = Dirs,
           \/ UNCHANGED <<slot, sent>> /\ up'
           \/ sent' = << >> /\ \A x \in Side, q \in Dirs \cup Files : slot'[x][q] = "none"
    PROVE  AgreeInv'
<1>1. \A q : Due(q)'
  BY DEF Due
<1>2. \A x \in Side : \A q : Told(x, q)'
  BY <1>1 DEF Told
<1>3. \A x \in Side, d \in Dirs : Coming(x, d)' => Coming(x, d)
  BY DEF Coming, Heralded, Copying
<1>4. \A x \in Side, q \in Dirs \cup Files : Leaving(x, q)' => Leaving(x, q)
  BY DEF Leaving
<1>5. Placed' /\ Origins' /\ \A q \in Files : Accounted(q)'
  BY <1>1, <1>2, <1>3, <1>4, OnlyTheJob
<1>6. ASSUME NEW x \in Side, NEW q \in Files PROVE Rewritten(x, q)'
  BY RewrittenRemains DEF AgreeInv, Inv, FileOf, Leaving
<1>7. \A x \in Side, d \in Dirs : DirKnown(x, d)'
  BY <1>1 DEF DirKnown
<1>8. JobReady' /\ Silent'
  BY DEF JobReady, Silent
<1> QED BY <1>5, <1>6, <1>7, <1>8 DEF AgreeInv

LEMMA RestartAgrees ==
    ASSUME TreeAssumption, Inv, VersionInv, AgreeInv, Crash \/ Boot \/ StartResync
    PROVE  AgreeInv'
<1>1. CASE Crash
  <2>1. /\ job'.at = "idle" /\ ~up' /\ sent' = << >>
        /\ \A x \in Side, q \in Dirs \cup Files : slot'[x][q] = "none"
        /\ UNCHANGED <<has, file, row, clock, dead, aside>>
    BY <1>1, Resting DEF Crash, disk, state
  <2> QED BY <2>1, AllDue
<1>2. CASE Boot \/ StartResync
  <2>1. /\ job' = [Idle EXCEPT !.at = "scan", !.scope = Dirs] /\ up' = TRUE
        /\ UNCHANGED <<has, file, row, clock, dead, aside, slot, sent>>
    <3>1. CASE Boot
      BY <3>1 DEF Boot, disk, state, events, bounds
    <3>2. CASE StartResync
      BY <3>2 DEF StartResync, Still, disk, state, events, bounds, Inv, RestOK
    <3> QED BY <1>2, <3>1, <3>2
  <2>2. job'.at = "scan" /\ job'.scope = Dirs
    BY <2>1, Resting
  <2> QED BY <2>1, <2>2, AllDue
<1> QED BY <1>1, <1>2

LEMMA ScanAgrees ==
    ASSUME TreeAssumption, Inv, VersionInv, AgreeInv, Scan
    PROVE  AgreeInv'
<1>1. /\ job.at = "scan" /\ job.scope = Dirs /\ up
      /\ UNCHANGED <<has, file, row, clock, dead, aside, slot, sent, up, resync>>
  BY DEF Scan, Doing, Still, disk, state, events, bounds, AgreeInv, JobReady
<1> DEFINE inv == [has  |-> [s \in Side |-> has[s] \cap job.scope],
                   file |-> [s \in Side |-> [p \in Files |->
                                IF p[1] \in job.scope THEN file[s][p] ELSE 0]]]
           plan == inv.has["A"] \cup inv.has["B"] \cup
                   {p \in Files : \E s \in Side : inv.file[s][p] # 0}
<1>2. job' = [job EXCEPT !.at = "next", !.inv = inv, !.plan = plan]
  BY DEF Scan
<1>3. /\ \A s \in Side, d \in Dirs : d \in has[s] => d \in plan
      /\ \A s \in Side, q \in Files : file[s][q] # 0 => q \in plan
  BY <1>1, InvFacts, Sides
<1> HIDE DEF inv, plan
<1>4. job'.at = "next" /\ job'.plan = plan
  BY <1>2 DEF Inv, JobOK, Job
<1>5. /\ \A q \in Files : Due(q)' \/ \A s \in Side : file[s][q] = 0
      /\ \A d \in Dirs : Due(d)' \/ \A s \in Side : d \notin has[s]
  BY <1>3, <1>4 DEF Due
<1>6. \A x \in Side, d \in Dirs : Coming(x, d)' => Coming(x, d)
  BY <1>1, <1>4 DEF Coming, Heralded, Copying
<1>7. \A x \in Side, q \in Files : Leaving(x, q)' => Leaving(x, q)
  BY <1>1 DEF Leaving
<1>8. \A x \in Side, q \in Files : Told(x, q)' \/ file[x][q] = file[Other(x)][q]
  BY <1>5, Sides DEF Told
<1>9. Placed' /\ Origins' /\ \A q \in Files : Accounted(q)'
  BY <1>1, <1>5, <1>6, <1>7, <1>8, Sides, OnlyTheJob
<1>10. \A x \in Side, q \in Files : Rewritten(x, q)'
  BY <1>1, RewrittenRemains DEF AgreeInv, Inv, FileOf
<1>11. \A x \in Side, d \in Dirs : DirKnown(x, d)'
  BY <1>1, <1>5 DEF DirKnown
<1>12. JobReady' /\ Silent'
  BY <1>1, <1>4 DEF JobReady, Silent, AgreeInv
<1> QED BY <1>9, <1>10, <1>11, <1>12 DEF AgreeInv

\* A path of the plan has been dealt with that needs nothing, or the plan is empty.
LEMMA PlanShrinks ==
    ASSUME TreeAssumption, Inv, VersionInv, AgreeInv, job.at = "next", up, up' = up,
           job'.at \in {"next", "idle"}, resync' = resync,
           \A q \in job.plan \ job'.plan : q \in Dirs /\ \A s \in Side : q \in has[s],
           UNCHANGED <<has, file, row, clock, dead, aside, slot, sent>>
    PROVE  AgreeInv'
<1>1. \A q \in Files : Due(q) => Due(q)'
  BY InvFacts DEF Due
<1>2. \A x \in Side, d \in Dirs : (Coming(x, d) => Coming(x, d)') /\ (Coming(x, d)' => Coming(x, d))
  BY DEF Coming, Heralded, Copying
<1>3. \A x \in Side, q \in Files : Leaving(x, q)' => Leaving(x, q)
  BY DEF Leaving
<1>4. \A x \in Side, q \in Files : Told(x, q) => Told(x, q)'
  BY <1>1, <1>2, InvFacts DEF Told, Pending, Sent, FileOf
<1>5. \A q : ~InWork(q)
  BY DEF InWork
<1>6. Placed' /\ Origins' /\ \A q \in Files : Accounted(q)'
  BY <1>1, <1>2, <1>3, <1>4, <1>5, OnlyTheJob
<1>7. \A x \in Side, q \in Files : Rewritten(x, q)'
  BY RewrittenRemains DEF AgreeInv, Inv, FileOf
<1>8. ASSUME NEW x \in Side, NEW d \in Dirs PROVE DirKnown(x, d)'
  <2>1. Due(d) => Due(d)' \/ d \in has'[Other(x)]
    BY Sides DEF Due
  <2> QED BY <1>2, <2>1, DirRemains DEF AgreeInv
<1>9. JobReady' /\ Silent'
  BY DEF JobReady, Silent, AgreeInv
<1> QED BY <1>6, <1>7, <1>8, <1>9 DEF AgreeInv

LEMMA ReconcileDirAgrees ==
    ASSUME TreeAssumption, Inv, VersionInv, AgreeInv, ReconcileDir \/ ReconcileDone
    PROVE  AgreeInv'
<1>1. CASE ReconcileDir
  <2>1. /\ Turn(Dirs) /\ job' = Rest({Ahead}) /\ up /\ resync' = resync /\ up' = up
        /\ \A s \in Side : SeenDir(s, Ahead)
        /\ UNCHANGED <<has, file, row, clock, dead, aside, slot, sent>>
    BY <1>1 DEF ReconcileDir, Turn, Doing, Still, disk, events, bounds
  <2>2. job.at = "next" /\ Ahead \in Dirs /\ \A s \in Side : Ahead \in has[s]
    BY <2>1, TurnFacts
  <2>3. job'.at = "next" /\ job'.plan = job.plan \ {Ahead}
    BY <2>1, <2>2 DEF Rest, Inv, JobOK, Job
  <2> QED BY <2>1, <2>2, <2>3, PlanShrinks
<1>2. CASE ReconcileDone
  <2>1. /\ job.at = "next" /\ job.plan = {} /\ up /\ job' = Idle /\ resync' = resync /\ up' = up
        /\ UNCHANGED <<has, file, row, clock, dead, aside, slot, sent>>
    BY <1>2 DEF ReconcileDone, Doing, Still, disk, state, events, bounds
  <2> QED BY <2>1, Resting, PlanShrinks
<1> QED BY <1>1, <1>2

--------------------------------------------------------------------------------
(* One file changes, by an event or by a reconciliation; no directory is in hand. *)

\* The event taken is about the path, and events are about nothing else.
LEMMA EventsGoOn ==
    ASSUME TreeAssumption, Inv, VersionInv, NEW p,
           sent' = sent \/ (\E k : Taking(k) /\ Ev.path = p)
    PROVE  /\ NoNewMail /\ (sent' = sent \/ (sent # << >> /\ sent' = Tail(sent)))
           /\ \A i \in DOMAIN sent : \/ \E j \in DOMAIN sent' : sent'[j] = sent[i]
                                     \/ sent' # sent /\ sent[i] = Ev
           /\ \A x \in Side, q \in Files : Sent(x, q) =>
                  \/ Sent(x, q)'
                  \/ sent' # sent /\ x = Ev.side /\ q = Ev.path
           /\ \A x \in Side, d \in Dirs :
                  Heralded(x, d) /\ (slot[x][d] = "content" => slot'[x][d] = "content") =>
                      \/ Heralded(x, d)'
                      \/ sent' # sent /\ x = Ev.side /\ d = Ev.path
<1>1. sent' = sent \/ (sent # << >> /\ sent' = Tail(sent))
  BY DEF Taking
<1>2. NoNewMail
  BY <1>1, Mail DEF Inv
<1>3. sent \in Seq(Letters)
  BY DEF Inv, EventsOK
<1>4. \A i \in DOMAIN sent : \/ \E j \in DOMAIN sent' : sent'[j] = sent[i]
                             \/ sent' # sent /\ sent[i] = Ev
  <2>1. CASE sent' = sent
    BY <2>1
  <2>2. CASE sent' # sent
    <3>1. \A i \in DOMAIN sent : i \in Nat /\ (i > 1 => /\ i - 1 \in DOMAIN sent'
                                                       /\ sent'[i - 1] = sent[i])
      BY <1>1, <1>3, <2>2
    <3>2. \A i \in DOMAIN sent : i = 1 \/ i > 1
      BY <1>3
    <3>3. sent[1] = Ev
      BY DEF Ev
    <3> QED BY <2>2, <3>1, <3>2, <3>3
  <2> QED BY <2>1, <2>2
<1>5. \A i \in DOMAIN sent : \A q \in Files : q # sent[i].from
  <2>1. \A i \in DOMAIN sent : sent[i].from \in Dirs \cup {NoDir}
    BY <1>3 DEF Letters, Event
  <2> QED BY <2>1 DEF TreeAssumption
<1>6. ASSUME NEW x \in Side, NEW q \in Files, Sent(x, q)
      PROVE  Sent(x, q)' \/ (sent' # sent /\ x = Ev.side /\ q = Ev.path)
  <2>1. PICK i \in DOMAIN sent : sent[i].side = x /\ q = sent[i].path
    BY <1>5, <1>6 DEF Sent
  <2> QED BY <1>4, <2>1 DEF Sent
<1>7. ASSUME NEW x \in Side, NEW d \in Dirs, Heralded(x, d),
             slot[x][d] = "content" => slot'[x][d] = "content"
      PROVE  Heralded(x, d)' \/ (sent' # sent /\ x = Ev.side /\ d = Ev.path)
  BY <1>4, <1>7 DEF Heralded
<1> QED BY <1>1, <1>2, <1>4, <1>6, <1>7

LEMMA OneFile ==
    ASSUME TreeAssumption, Inv, VersionInv, AgreeInv, NEW p \in Files, up, up' = up,
           job.at \in {"idle", "next"}, job'.at \in {"idle", "next"},
           \A q \in Dirs \cup Files : q # p => (Due(q) => Due(q)'),
           UNCHANGED <<clock, dead, aside>>,
           \A x \in Side, q \in Files : q # p => file'[x][q] = file[x][q] /\ row'[x][q] = row[x][q],
           \A x \in Side : file'[x][p] = 0 \/ \E y \in Side : file'[x][p] = file[y][p],
           \A x \in Side, d \in Dirs :
               (d \in has[x] => d \in has'[x]) /\ (d \in has'[x] /\ d \notin has[x] => Heralded(x, d)'),
           \A x \in Side, q \in Dirs \cup Files :
               \/ slot'[x][q] = slot[x][q]
               \/ q \in Dirs /\ q \notin has[x] /\ q \in has'[x] /\ slot'[x][q] = "content",
           \A x \in Side : row'[x][p] # 0 => p[1] \in has'[x],
           sent' = sent \/ (\E k : Taking(k) /\ Ev.path = p)
    PROVE  /\ JobReady' /\ Placed' /\ Origins' /\ Silent'
           /\ \A x \in Side, d \in Dirs : DirKnown(x, d)'
           /\ \A x \in Side, q \in Files :
                  q # p \/ (FileOf(x, p)' => FileOf(x, p)) \/ ~Leaving(x, p) => Rewritten(x, q)'
           /\ \A q \in Files : q # p => Accounted(q)'
           /\ \A x \in Side, q \in Files : Leaving(x, q)' => Leaving(x, q)
           /\ \A x \in Side, d \in Dirs : /\ Coming(x, d) => Coming(x, d)'
                                          /\ Coming(x, d)' => Coming(x, d) \/ d \notin has[x]
           /\ \A x \in Side : Pending(x, p) => \/ Pending(x, p)'
                                               \/ sent' # sent /\ x = Ev.side
<1>1. /\ NoNewMail /\ (sent' = sent \/ (sent # << >> /\ sent' = Tail(sent)))
      /\ \A x \in Side, q \in Files : Sent(x, q) =>
             \/ Sent(x, q)'
             \/ sent' # sent /\ x = Ev.side /\ q = Ev.path
      /\ \A x \in Side, d \in Dirs :
             Heralded(x, d) /\ (slot[x][d] = "content" => slot'[x][d] = "content") =>
                 \/ Heralded(x, d)'
                 \/ sent' # sent /\ x = Ev.side /\ d = Ev.path
  BY EventsGoOn
<1>2. \A q \in Files : q \notin Dirs /\ q[1] \in Dirs
  BY InvFacts
<1>3. sent' # sent => Ev.path = p
  OBVIOUS
<1>4. \A x \in Side, q \in Files : slot'[x][q] = slot[x][q]
  BY <1>2
<1>5. \A x \in Side, q \in Files : Leaving(x, q)' => Leaving(x, q)
  <2>1. \A x \in Side, q \in Files : slot'[x][q] = "delete" => Leaving(x, q)
    BY <1>4 DEF Leaving
  <2> QED BY <1>1, <2>1, NoMore
<1>6. \A x \in Side, d \in Dirs : /\ Coming(x, d) => Coming(x, d)'
                                  /\ Coming(x, d)' => Coming(x, d) \/ (d \notin has[x] /\ d \in has'[x])
  <2>1. ASSUME NEW x \in Side, NEW d \in Dirs
        PROVE  /\ Heralded(x, d) => Heralded(x, d)'
               /\ Heralded(x, d)' => Heralded(x, d) \/ (d \notin has[x] /\ d \in has'[x])
    <3>1. \/ slot'[x][d] = slot[x][d]
          \/ d \notin has[x] /\ d \in has'[x] /\ slot'[x][d] = "content"
      OBVIOUS
    <3>2. Heralded(x, d) => Heralded(x, d)'
      BY <1>1, <1>2, <1>3, <3>1
    <3>3. slot'[x][d] = slot[x][d] => (Heralded(x, d)' => Heralded(x, d))
      <4>1. slot'[x][d] = slot[x][d] => (slot'[x][d] = "content" => Heralded(x, d))
        BY DEF Heralded
      <4> QED BY <1>1, <4>1, NoMore
    <3> QED BY <3>1, <3>2, <3>3
  <2>2. \A x \in Side, d \in Dirs : ~Copying(x, d) /\ ~Copying(x, d)'
    BY DEF Copying
  <2> QED BY <2>1, <2>2 DEF Coming
<1>7. \A x \in Side, q \in Files : Pending(x, q) => \/ Pending(x, q)'
                                                    \/ sent' # sent /\ x = Ev.side /\ q = p
  BY <1>1, <1>3, <1>4 DEF Pending
<1>8. ASSUME NEW q \in Files, q # p PROVE Accounted(q)'
  <2>1. q[1] \in Dirs /\ Accounted(q)
    BY <1>2 DEF AgreeInv
  <2>2. \A x \in Side : file'[x][q] = file[x][q] /\ row'[x][q] = row[x][q]
    BY <1>8
  <2>3. \A x \in Side : Told(x, q) => Told(x, q)'
    BY <1>6, <1>7, <1>8, <2>1, <2>2 DEF Told, FileOf
  <2>4. \A x \in Side : Coming(x, q[1])' => Coming(x, q[1]) \/ file[x][q] = 0
    BY <1>6, <2>1, InvFacts
  <2>5. ~InWork(q)
    BY DEF InWork
  <2>6. \A x \in Side : Fresh(x, q) => Fresh(x, q)'
    BY <2>2 DEF Fresh
  <2>7. Due(q) \/ InWork(q) => Due(q)' \/ InWork(q)' \/ file["A"][q] = 0
    BY <1>8, <2>5
  <2> QED BY <1>5, <2>1, <2>2, <2>3, <2>4, <2>6, <2>7, AccountRemains
<1>9. ASSUME NEW x \in Side, NEW q \in Files,
             q # p \/ (FileOf(x, p)' => FileOf(x, p)) \/ ~Leaving(x, p)
      PROVE  Rewritten(x, q)'
  <2>1. EventsOK /\ Rewritten(x, q)
    BY DEF AgreeInv, Inv
  <2>2. CASE FileOf(x, q)' => FileOf(x, q)
    BY <1>1, <1>4, <2>1, <2>2, RewrittenRemains
  <2>3. CASE ~(FileOf(x, q)' => FileOf(x, q))
    <3>1. q = p /\ ~Leaving(x, q)'
      BY <1>5, <1>9, <2>3 DEF FileOf
    <3> QED BY <2>1, <3>1, RewrittenRemains
  <2> QED BY <2>2, <2>3
<1>10. ASSUME NEW x \in Side, NEW d \in Dirs PROVE DirKnown(x, d)'
  <2>1. Other(x) \in Side /\ d # p
    BY <1>2, Sides
  <2>2. CASE d \in has'[x] => d \in has[x]
    BY <1>6, <2>1, <2>2, DirRemains DEF AgreeInv
  <2>3. CASE d \in has'[x] /\ d \notin has[x]
    BY <2>3 DEF DirKnown, Coming
  <2> QED BY <2>2, <2>3
<1>11. JobReady' /\ Silent'
  BY DEF JobReady, Silent
<1>12. Placed'
  <2>1. \A x \in Side, d \in Dirs : Coming(x, d)' => d \in has'[x]
    BY <1>6 DEF AgreeInv, Placed
  <2>2. ASSUME NEW x \in Side, NEW q \in Files, row'[x][q] # 0 PROVE q[1] \in has'[x]
    <3>1. CASE q # p
      BY <1>2, <2>2, <3>1 DEF AgreeInv, Placed
    <3> QED BY <2>2, <3>1
  <2> QED BY <2>1, <2>2 DEF Placed
<1>13. Origins'
  BY OriginsRemain DEF AgreeInv
<1> QED BY <1>5, <1>6, <1>7, <1>8, <1>9, <1>10, <1>11, <1>12, <1>13

\* propagateContent, of a version that no user replaced.
LEMMA FilePropagated ==
    ASSUME TreeAssumption, Inv, VersionInv, AgreeInv, NEW s \in Side, NEW p \in Files, NEW forced,
           PropagateContent(s, p, forced), up, up' = up, UNCHANGED <<clock, dead>>,
           job.at \in {"idle", "next"}, job'.at \in {"idle", "next"},
           \A q \in Dirs \cup Files : q # p => (Due(q) => Due(q)'),
           sent' = sent \/ (\E k : Taking(k) /\ Ev.path = p),
           IF file[s][p] = 0 THEN Due(p)' ELSE Fresh(s, p)
    PROVE  AgreeInv'
<1> DEFINE t == Other(s)
           v == file[s][p]
<1>1. t \in Side /\ s # t /\ Other(t) = s /\ p[1] \in Dirs /\ Side = {s, t}
  BY Sides, FilesAre
<1>2. /\ \A x \in Side, q \in Files :
             /\ q # p => file'[x][q] = file[x][q] /\ row'[x][q] = row[x][q]
             /\ file'[x][p] = IF x = t /\ v # 0 THEN v ELSE file[x][p]
             /\ row'[x][p] = IF v # 0 THEN v ELSE row[x][p]
      /\ \A x \in Side, d \in Dirs : d \in has'[x] <=> d \in has[x] \/ (x = t /\ d = p[1])
      /\ \A x \in Side, q \in Dirs \cup Files :
             \/ slot'[x][q] = slot[x][q]
             \/ x = t /\ q = p[1] /\ p[1] \notin has[t] /\ slot'[x][q] = "content"
      /\ aside' = aside
  BY PropagateEffect
<1>3. p[1] \notin has[t] => slot'[t][p[1]] = "content"
  <2>1. IF p[1] \notin has[t] THEN Slot(t, {p[1]}, "content") ELSE TRUE
    BY DEF PropagateContent
  <2> QED BY <1>1, <2>1, SlotEffect DEF Inv, EventsOK
<1> HIDE DEF t, v
<1>4. /\ \A x \in Side : file'[x][p] = 0 \/ \E y \in Side : file'[x][p] = file[y][p]
      /\ \A x \in Side, d \in Dirs : /\ d \in has[x] => d \in has'[x]
                                     /\ d \in has'[x] /\ d \notin has[x] => Heralded(x, d)'
      /\ \A x \in Side, q \in Dirs \cup Files :
             \/ slot'[x][q] = slot[x][q]
             \/ q \in Dirs /\ q \notin has[x] /\ q \in has'[x] /\ slot'[x][q] = "content"
  <2>1. file[s][p] = v
    BY DEF v
  <2>2. \A x \in Side : file'[x][p] = 0 \/ \E y \in Side : file'[x][p] = file[y][p]
    BY <1>1, <1>2, <2>1
  <2>3. \A x \in Side, d \in Dirs : /\ d \in has[x] => d \in has'[x]
                                    /\ d \in has'[x] /\ d \notin has[x] => Heralded(x, d)'
    BY <1>1, <1>2, <1>3 DEF Heralded
  <2> QED BY <1>1, <1>2, <2>2, <2>3
<1>5. \A x \in Side : row'[x][p] # 0 => p[1] \in has'[x]
  <2>1. v # 0 => p[1] \in has[s]
    BY InvFacts DEF v
  <2>2. \A x \in Side : row[x][p] # 0 => p[1] \in has[x]
    BY DEF AgreeInv, Placed
  <2> QED BY <1>1, <1>2, <2>1, <2>2
<1>6. /\ JobReady' /\ Placed' /\ Origins' /\ Silent'
      /\ \A x \in Side, d \in Dirs : DirKnown(x, d)'
      /\ \A x \in Side, q \in Files :
             q # p \/ (FileOf(x, p)' => FileOf(x, p)) \/ ~Leaving(x, p) => Rewritten(x, q)'
      /\ \A q \in Files : q # p => Accounted(q)'
      /\ \A x \in Side, q \in Files : Leaving(x, q)' => Leaving(x, q)
      /\ \A x \in Side, d \in Dirs : /\ Coming(x, d) => Coming(x, d)'
                                     /\ Coming(x, d)' => Coming(x, d) \/ d \notin has[x]
  BY <1>2, <1>4, <1>5, OneFile
<1>7. \A x \in Side, q \in Files : Rewritten(x, q)'
  <2>1. (FileOf(s, p)' => FileOf(s, p)) /\ (v = 0 => (FileOf(t, p)' => FileOf(t, p)))
    BY <1>1, <1>2 DEF FileOf
  <2>2. v # 0 /\ ~FileOf(t, p) => ~Leaving(t, p)
    <3> SUFFICES ASSUME v # 0, ~FileOf(t, p), Leaving(t, p) PROVE FALSE
      OBVIOUS
    <3>1. Twin(s, p)
      BY <1>1 DEF VersionInv, PathInv, Departure
    <3>2. v \notin dead /\ aside = {} /\ file[t][p] = 0
      BY DEF v, Fresh, AgreeInv, Origins, FileOf
    <3> QED BY <3>1, <3>2 DEF Twin, Spare, v, t
  <2>3. \A x \in Side : (FileOf(x, p)' => FileOf(x, p)) \/ ~Leaving(x, p)
    BY <1>1, <2>1, <2>2
  <2> QED BY <1>6, <2>3
<1>8. Accounted(p)'
  <2>1. CASE v # 0
    <3>1. \A x \in Side : file'[x][p] = v /\ row'[x][p] = v
      BY <1>1, <1>2, <2>1 DEF v
    <3>2. v \notin dead'
      BY <2>1 DEF v, Fresh
    <3> QED BY <3>1, <3>2, Sides, AccountAgreed
  <2>2. CASE v = 0
    <3>1. \A x \in Side : file'[x][p] = file[x][p] /\ row'[x][p] = row[x][p]
      BY <1>2, <2>2
    <3>2. Due(p)' /\ \A x \in Side : Told(x, p)'
      BY <2>2 DEF v, Told
    <3>3. \A x \in Side : Coming(x, p[1])' => Coming(x, p[1]) \/ file[x][p] = 0
      BY <1>1, <1>6, InvFacts
    <3>4. \A x \in Side : Fresh(x, p) => Fresh(x, p)'
      BY <3>1 DEF Fresh
    <3> QED BY <1>6, <3>1, <3>2, <3>3, <3>4, AccountRemains DEF AgreeInv
  <2> QED BY <2>1, <2>2
<1> QED BY <1>6, <1>7, <1>8 DEF AgreeInv

LEMMA ProcessFileAgrees ==
    ASSUME TreeAssumption, Inv, VersionInv, AgreeInv, ProcessFile
    PROVE  AgreeInv'
<1>1. PICK s \in Side, p \in Files, t \in Side : s = Ev.side /\ p = Ev.path /\ t = Other(s)
  <2>1. Taking("content") /\ Ev.path \in Files
    BY DEF ProcessFile
  <2> QED BY <2>1, IdleFacts, Sides
<1> DEFINE known == row[s][p] # 0 /\ file[s][p] = row[s][p] /\ row["A"][p] = row["B"][p]
<1>2. /\ Taking("content") /\ job' = job /\ up /\ up' = up /\ UNCHANGED <<clock, dead>>
      /\ IF known THEN UNCHANGED <<has, file, aside, row, slot, resync>>
         ELSE PropagateContent(s, p, FALSE) /\ resync' = (resync \/ file[s][p] = 0)
  BY <1>1 DEF ProcessFile, Taking, Still, bounds, disk, state
<1>3. /\ s # t /\ Other(t) = s /\ p[1] \in Dirs /\ Side = {s, t}
      /\ job.at = "idle" /\ job.plan = {}
  BY <1>1, <1>2, IdleFacts, Sides, FilesAre
<1>4. /\ \E k : Taking(k) /\ Ev.path = p
      /\ \A q \in Dirs \cup Files : Due(q) => Due(q)'
  BY <1>1, <1>2 DEF Due
<1>7. row["A"][p] = row["B"][p] <=> row[s][p] = row[t][p]
  BY <1>3, Sides
<1> HIDE DEF known
<1>5. Accounted(p) /\ (Rivals(p) => ~known)
  <2>1. Rivals(p) => row[s][p] = 0
    BY Sides DEF Rivals, Unknown
  <2> QED BY <2>1 DEF AgreeInv, known
<1>8. CASE ~known
  <2>1. PropagateContent(s, p, FALSE) /\ resync' = (resync \/ file[s][p] = 0)
    BY <1>2, <1>8
  <2>2. file[s][p] = 0 => Due(p)'
    BY <2>1 DEF Due
  <2>3. ASSUME file[s][p] # 0 PROVE Fresh(s, p)
    <3>1. CASE Agreed(p)
      BY <1>3, <3>1, Sides DEF Agreed, Settled, Fresh
    <3>2. CASE Rivals(p) \/ Unrecorded(p)
      BY <1>3, <3>2, Sides DEF Rivals, Unrecorded, Fresh
    <3>3. CASE Leads(s, p) \/ HalfKnown(s, p)
      BY <3>3 DEF Leads, HalfKnown
    <3>4. CASE HalfKnown(t, p)
      BY <1>1, <1>3, <2>3, <3>4 DEF HalfKnown
    <3>5. CASE Leads(t, p)
      BY <1>1, <1>3, <1>7, <1>8, <2>3, <3>5 DEF Leads, Settled, known
    <3> QED BY <1>3, <1>5, <3>1, <3>2, <3>3, <3>4, <3>5 DEF Accounted
  <2> QED BY <1>1, <1>2, <1>3, <1>4, <2>1, <2>2, <2>3, FilePropagated
<1>9. CASE known
  <2>1. UNCHANGED <<has, file, aside, row, slot, resync>>
    BY <1>2, <1>9
  <2>2. \A x \in Side : row'[x][p] # 0 => p[1] \in has'[x]
    BY <2>1 DEF AgreeInv, Placed
  <2>3. /\ JobReady' /\ Placed' /\ Origins' /\ Silent'
        /\ \A x \in Side, d \in Dirs : DirKnown(x, d)'
        /\ \A x \in Side, q \in Files :
               q # p \/ (FileOf(x, p)' => FileOf(x, p)) \/ ~Leaving(x, p) => Rewritten(x, q)'
        /\ \A q \in Files : q # p => Accounted(q)'
        /\ \A x \in Side, q \in Files : Leaving(x, q)' => Leaving(x, q)
        /\ \A x \in Side, d \in Dirs : /\ Coming(x, d) => Coming(x, d)'
                                       /\ Coming(x, d)' => Coming(x, d) \/ d \notin has[x]
        /\ \A x \in Side : Pending(x, p) => Pending(x, p)' \/ (sent' # sent /\ x = s)
    <3>1. \A x \in Side, q \in Files : file'[x][q] = file[x][q] /\ row'[x][q] = row[x][q]
      BY <2>1
    <3> QED BY <1>1, <1>2, <1>3, <1>4, <2>1, <2>2, <3>1, OneFile
  <2>4. \A x \in Side, q \in Files : Rewritten(x, q)'
    BY <2>1, <2>3 DEF FileOf
  <2>5. file[s][p] # 0 /\ row[s][p] = file[s][p] /\ row[t][p] = file[s][p]
    BY <1>7, <1>9 DEF known
  <2>6. Accounted(p)'
    <3>1. CASE Agreed(p)
      BY <1>2, <2>1, <3>1 DEF Accounted, Agreed, Settled, Fresh
    <3>2. CASE Unrecorded(p)
      <4>1. /\ file'["A"][p] \notin dead'
            /\ \A x \in Side : file'[x][p] = file'["A"][p] /\ row'[x][p] = file'["A"][p]
        BY <1>2, <1>3, <2>1, <2>5, <3>2, Sides DEF Unrecorded, Fresh
      <4> QED BY <4>1, AccountAgreed
    <3>3. CASE Leads(s, p)
      BY <1>1, <1>3, <2>5, <3>3 DEF Leads, Settled
    <3>4. CASE Leads(t, p)
      <4>1. /\ Settled(s, p) /\ file[t][p] # file[s][p] /\ Fresh(t, p) /\ Told(t, p)
            /\ ~Leaving(s, p) /\ (FileOf(s, p) => ~Coming(s, p[1]))
        BY <1>3, <3>4 DEF Leads
      <4>2. Told(t, p)'
        <5>1. Pending(t, p) => Pending(t, p)'
          BY <1>3, <2>3
        <5>2. Coming(t, p[1]) => Coming(t, p[1])'
          BY <1>3, <2>3
        <5> QED BY <1>4, <2>1, <4>1, <5>1, <5>2 DEF Told, FileOf
      <4>3. ~Leaving(s, p)' /\ (FileOf(s, p)' => ~Coming(s, p[1])')
        BY <1>3, <2>1, <2>3, <4>1, InvFacts DEF FileOf
      <4>4. Settled(s, p)' /\ file'[t][p] # file'[s][p] /\ Fresh(t, p)'
        BY <1>2, <2>1, <4>1 DEF Settled, Fresh
      <4> QED BY <1>3, <4>2, <4>3, <4>4, LeadsNow
    <3>5. CASE HalfKnown(s, p) \/ HalfKnown(t, p)
      BY <1>1, <1>3, <2>5, <3>5 DEF HalfKnown
    <3> QED BY <1>3, <1>5, <1>9, <3>1, <3>2, <3>3, <3>4, <3>5 DEF Accounted
  <2> QED BY <2>3, <2>4, <2>6 DEF AgreeInv
<1> QED BY <1>8, <1>9

\* A deletion is believed: where the file is back, its news comes after.
LEMMA ProcessFileGoneAgrees ==
    ASSUME TreeAssumption, Inv, VersionInv, AgreeInv, ProcessFileGone
    PROVE  AgreeInv'
<1>1. PICK s \in Side, p \in Files, t \in Side : s = Ev.side /\ p = Ev.path /\ t = Other(s)
  <2>1. Taking("delete") /\ Ev.path \in Files
    BY DEF ProcessFileGone
  <2> QED BY <2>1, IdleFacts, Sides
<1>2. /\ Taking("delete") /\ job' = job /\ up /\ up' = up /\ resync' = resync
      /\ UNCHANGED <<clock, dead>>
      /\ IF row["A"][p] # 0 /\ row["B"][p] # 0 /\ ~FileOf(t, p)
         THEN UNCHANGED <<disk, state, slot>> ELSE RemoveFile(t, p)
  BY <1>1 DEF ProcessFileGone, Taking, Still, bounds
<1>3. /\ s # t /\ Other(t) = s /\ p[1] \in Dirs /\ Side = {s, t} /\ job.at = "idle"
      /\ job.plan = {} /\ Ev.kind = "delete" /\ 1 \in DOMAIN sent /\ sent[1] = Ev
  BY <1>1, <1>2, IdleFacts, Sides, FilesAre
<1>4. Leaving(s, p)
  BY <1>1, <1>3 DEF Leaving
<1>5. Accounted(p) /\ ~Rivals(p) /\ ~Leads(t, p)
  BY <1>3, <1>4 DEF AgreeInv, Rivals, Leads
<1>6. 0 \notin dead
  BY NoneDead
<1>7. RemoveFile(t, p)
  <2> SUFFICES ASSUME row["A"][p] # 0, row["B"][p] # 0, ~FileOf(t, p) PROVE FALSE
    BY <1>2
  <2>1. file[t][p] = 0 /\ row[s][p] # 0 /\ row[t][p] # 0
    BY <1>3, Sides DEF FileOf
  <2>2. ~Agreed(p) /\ ~Unrecorded(p)
    BY <1>3, <2>1, Sides DEF Agreed, Settled, Unrecorded, FileOf
  <2>3. ~Leads(s, p)
    BY <1>1, <1>3, <2>1 DEF Leads, Settled
  <2>4. ~HalfKnown(s, p) /\ ~HalfKnown(t, p)
    BY <1>1, <1>3, <2>1 DEF HalfKnown
  <2> QED BY <1>3, <1>5, <2>2, <2>3, <2>4 DEF Accounted
<1>8. /\ \A x \in Side, q \in Files :
             /\ file'[x][q] = IF x = t /\ q = p THEN 0 ELSE file[x][q]
             /\ row'[x][q] = IF q = p THEN 0 ELSE row[x][q]
      /\ UNCHANGED <<has, aside, slot>>
  <2>1. /\ file' = [file EXCEPT ![t][p] = 0] /\ SetRow(p, 0, 0)
        /\ UNCHANGED <<has, aside, slot>>
    BY <1>7 DEF RemoveFile
  <2>2. \A x \in Side, q \in Files : file'[x][q] = IF x = t /\ q = p THEN 0 ELSE file[x][q]
    BY <2>1 DEF Inv, DiskOK
  <2>3. \A x \in Side, q \in Files : row'[x][q] = IF q = p THEN 0 ELSE row[x][q]
    BY <2>1, Sides DEF SetRow, Inv, RowsOK
  <2> QED BY <2>1, <2>2, <2>3
<1>9. /\ \E k : Taking(k) /\ Ev.path = p
      /\ \A q \in Dirs \cup Files : Due(q) => Due(q)'
  BY <1>1, <1>2 DEF Due
<1>10. /\ \A x \in Side, q \in Files : q # p => file'[x][q] = file[x][q] /\ row'[x][q] = row[x][q]
       /\ \A x \in Side : row'[x][p] = 0
       /\ \A x \in Side : file'[x][p] = 0 \/ file'[x][p] = file[x][p]
       /\ file'[t][p] = 0 /\ file'[s][p] = file[s][p]
  BY <1>3, <1>8
<1>11. /\ JobReady' /\ Placed' /\ Origins' /\ Silent'
       /\ \A x \in Side, d \in Dirs : DirKnown(x, d)'
       /\ \A x \in Side, q \in Files :
              q # p \/ (FileOf(x, p)' => FileOf(x, p)) \/ ~Leaving(x, p) => Rewritten(x, q)'
       /\ \A q \in Files : q # p => Accounted(q)'
       /\ \A x \in Side, q \in Files : Leaving(x, q)' => Leaving(x, q)
  <2>1. \A x \in Side : file'[x][p] = 0 \/ \E y \in Side : file'[x][p] = file[y][p]
    BY <1>10
  <2> QED BY <1>2, <1>3, <1>8, <1>9, <1>10, <2>1, OneFile
<1>12. \A x \in Side, q \in Files : Rewritten(x, q)'
  <2>1. \A x \in Side : FileOf(x, p)' => FileOf(x, p)
    BY <1>10 DEF FileOf
  <2> QED BY <1>11, <2>1
<1>13. Accounted(p)'
  <2>1. CASE file[s][p] = 0
    <3>1. \A x \in Side : file'[x][p] = 0 /\ row'[x][p] = 0
      BY <1>3, <1>10, <2>1
    <3>2. /\ file'["A"][p] \notin dead'
          /\ \A x \in Side : file'[x][p] = file'["A"][p] /\ row'[x][p] = file'["A"][p]
      BY <1>2, <1>6, <3>1, Sides
    <3> QED BY <3>2, AccountAgreed
  <2>2. CASE file[s][p] # 0
    <3>1. Fresh(s, p)
      <4>1. CASE Agreed(p) \/ Unrecorded(p)
        BY <1>3, <4>1, Sides DEF Agreed, Settled, Unrecorded, Fresh
      <4>2. CASE Leads(s, p) \/ HalfKnown(s, p)
        BY <4>2 DEF Leads, HalfKnown
      <4>3. CASE HalfKnown(t, p)
        BY <1>3, <2>2, <4>3, <1>1 DEF HalfKnown
      <4> QED BY <1>3, <1>5, <4>1, <4>2, <4>3 DEF Accounted
    <3>2. Pending(s, p)'
      <4>1. Rewritten(s, p) /\ slot[s][p] # "delete" /\ FileOf(s, p)
        BY <2>2 DEF AgreeInv, Rewritten, FileOf
      <4>2. CASE slot[s][p] = "content"
        BY <1>8, <4>2, InvFacts DEF Pending
      <4>3. CASE slot[s][p] # "content"
        <5>1. PICK i \in DOMAIN sent : 1 < i /\ sent[i].side = s /\ sent[i].path = p
          BY <1>1, <1>3, <4>1, <4>3 DEF Rewritten
        <5>2. sent' = Tail(sent) /\ sent \in Seq(Letters) /\ sent # << >>
          BY <1>2 DEF Taking, Inv, EventsOK
        <5>3. \A n \in DOMAIN sent : n \in Nat /\ (1 < n => /\ n - 1 \in DOMAIN sent'
                                                          /\ sent'[n - 1] = sent[n])
          BY <5>2
        <5>4. PICK j \in DOMAIN sent' : sent'[j] = sent[i]
          BY <5>1, <5>3
        <5> QED BY <5>1, <5>4 DEF Pending, Sent
      <4> QED BY <4>2, <4>3
    <3>3. ~Leaving(t, p)
      <4>1. Leaving(t, p) => Spare(s, p)
        BY <1>1, <1>3, <1>4 DEF VersionInv, PathInv, Departure
      <4>2. ~Spare(s, p)
        BY <2>2, <3>1 DEF Spare, Fresh, AgreeInv, Origins
      <4> QED BY <4>1, <4>2
    <3>4. Settled(t, p)' /\ file'[s][p] # file'[t][p] /\ Fresh(s, p)' /\ Told(s, p)'
      <4>1. Settled(t, p)'
        BY <1>3, <1>10, Sides DEF Settled
      <4>2. Fresh(s, p)' /\ Told(s, p)'
        BY <1>2, <1>3, <1>10, <3>1, <3>2 DEF Fresh, Told
      <4> QED BY <1>10, <2>2, <4>1, <4>2
    <3>5. ~Leaving(t, p)' /\ ~FileOf(t, p)'
      BY <1>3, <1>10, <1>11, <3>3 DEF FileOf
    <3> QED BY <1>1, <1>2, <3>4, <3>5, LeadsNow
  <2> QED BY <2>1, <2>2
<1> QED BY <1>11, <1>12, <1>13 DEF AgreeInv

LEMMA ReconcileOneFileAgrees ==
    ASSUME TreeAssumption, Inv, VersionInv, AgreeInv, ReconcileOneFile
    PROVE  AgreeInv'
<1>1. /\ Turn(Files) /\ job' = Rest({Ahead}) /\ up /\ up' = up
      /\ UNCHANGED <<sent, resync, clock, dead>>
  BY DEF ReconcileOneFile, Turn, Doing, Still, bounds
<1>2. PICK p \in Files : p = Ahead
  BY <1>1, TurnFacts
<1>3. /\ job.at = "next" /\ \A x \in Side : SeenFile(x, p) = file[x][p]
      /\ job'.at = "next" /\ \A q \in Dirs \cup Files : q # p => (Due(q) => Due(q)')
  <2>1. job.at = "next" /\ \A x \in Side : SeenFile(x, p) = file[x][p]
    BY <1>1, <1>2, TurnFacts
  <2>2. job'.at = "next" /\ job'.plan = job.plan \ {p}
    BY <1>1, <1>2, <2>1 DEF Rest, Inv, JobOK, Job
  <2> QED BY <1>1, <2>1, <2>2 DEF Due
<1>4. PICK s \in Side, t \in Side :
        /\ t = Other(s) /\ file[s][p] # 0 /\ file[t][p] = 0
        /\ IF row[t][p] # 0 THEN RemoveFile(s, p) ELSE PropagateContent(s, p, FALSE)
  BY <1>2, <1>3, Sides, ZenonT(60) DEF ReconcileOneFile
<1>5. s # t /\ Other(t) = s /\ p[1] \in Dirs /\ Side = {s, t} /\ Accounted(p)
  BY <1>4, Sides, FilesAre DEF AgreeInv
<1>6. CASE row[t][p] = 0
  <2>1. PropagateContent(s, p, FALSE)
    BY <1>4, <1>6
  <2>2. Fresh(s, p)
    <3>1. ~Agreed(p) /\ ~Rivals(p) /\ ~Unrecorded(p)
      BY <1>4, <1>5, Sides DEF Agreed, Settled, Rivals, Unrecorded, FileOf
    <3>2. ~HalfKnown(t, p) /\ ~Leads(t, p)
      BY <1>4, <1>5, <1>6, Sides DEF HalfKnown, Leads, Settled, FileOf
    <3> QED BY <1>5, <3>1, <3>2 DEF Accounted, Leads, HalfKnown
  <2> QED BY <1>1, <1>3, <1>4, <2>1, <2>2, FilePropagated
<1>7. CASE row[t][p] # 0
  <2>1. /\ file' = [file EXCEPT ![s][p] = 0] /\ SetRow(p, 0, 0)
        /\ UNCHANGED <<has, aside, slot>>
    BY <1>4, <1>7 DEF RemoveFile
  <2>2. \A x \in Side, q \in Files : file'[x][q] = IF x = s /\ q = p THEN 0 ELSE file[x][q]
    BY <2>1 DEF Inv, DiskOK
  <2>3. \A x \in Side, q \in Files : row'[x][q] = IF q = p THEN 0 ELSE row[x][q]
    BY <2>1, Sides DEF SetRow, Inv, RowsOK
  <2>4. /\ \A x \in Side, q \in Files :
               q # p => file'[x][q] = file[x][q] /\ row'[x][q] = row[x][q]
        /\ \A x \in Side : file'[x][p] = 0 /\ row'[x][p] = 0
    BY <1>4, <1>5, <2>2, <2>3
  <2>5. /\ JobReady' /\ Placed' /\ Origins' /\ Silent'
        /\ \A x \in Side, d \in Dirs : DirKnown(x, d)'
        /\ \A x \in Side, q \in Files :
               q # p \/ (FileOf(x, p)' => FileOf(x, p)) \/ ~Leaving(x, p) => Rewritten(x, q)'
        /\ \A q \in Files : q # p => Accounted(q)'
    BY <1>1, <1>3, <2>1, <2>4, OneFile
  <2>6. \A x \in Side, q \in Files : Rewritten(x, q)'
    BY <2>4, <2>5 DEF FileOf
  <2>7. Accounted(p)'
    <3>1. /\ file'["A"][p] \notin dead'
          /\ \A x \in Side : file'[x][p] = file'["A"][p] /\ row'[x][p] = file'["A"][p]
      BY <1>1, <2>4, NoneDead, Sides
    <3> QED BY <3>1, AccountAgreed
  <2> QED BY <2>5, <2>6, <2>7 DEF AgreeInv
<1> QED BY <1>6, <1>7

\* Of two versions the one that is propagated is no user's past: only one side has
\* changed since, or both are new.
LEMMA ReconcileFileAgrees ==
    ASSUME TreeAssumption, Inv, VersionInv, AgreeInv, ReconcileFile
    PROVE  AgreeInv'
<1>1. /\ Turn(Files) /\ job' = Rest({Ahead}) /\ up /\ up' = up
      /\ UNCHANGED <<sent, resync, clock, dead>>
  BY DEF ReconcileFile, Turn, Doing, Still, bounds
<1>2. PICK p \in Files : p = Ahead
  BY <1>1, TurnFacts
<1>3. /\ job.at = "next" /\ \A x \in Side : SeenFile(x, p) = file[x][p]
      /\ job'.at = "next" /\ \A q \in Dirs \cup Files : q # p => (Due(q) => Due(q)')
  <2>1. job.at = "next" /\ \A x \in Side : SeenFile(x, p) = file[x][p]
    BY <1>1, <1>2, TurnFacts
  <2>2. job'.at = "next" /\ job'.plan = job.plan \ {p}
    BY <1>1, <1>2, <2>1 DEF Rest, Inv, JobOK, Job
  <2> QED BY <1>1, <2>1, <2>2 DEF Due
<1>4. Accounted(p) /\ \A x \in Side : file[x][p] # 0 /\ FileOf(x, p)
  BY <1>2, <1>3 DEF ReconcileFile, AgreeInv, FileOf
<1>5. "A" \in Side /\ "B" \in Side /\ Other("A") = "B" /\ Other("B") = "A"
      /\ \A x \in Side : Other(x) \in Side /\ Other(Other(x)) = x /\ Other(x) # x
  BY Sides DEF Other
<1>6. /\ file["A"][p] = file["B"][p] =>
             SetRow(p, file["A"][p], file["B"][p]) /\ UNCHANGED <<disk, rowDir, slot>>
      /\ file["A"][p] # file["B"][p] =>
             IF Origin(p) # {} THEN PropagateContent(CHOOSE s \in Origin(p) : TRUE, p, FALSE)
             ELSE PropagateContent(Newer(p), p, TRUE)
  <2>1. /\ FileOf("A", p) /\ FileOf("B", p)
        /\ SeenFile("A", p) = file["A"][p] /\ SeenFile("B", p) = file["B"][p]
    BY <1>3, <1>4, <1>5
  <2>2. LET here == FileOf("A", p) /\ FileOf("B", p)
        IN IF SeenFile("A", p) = SeenFile("B", p)
           THEN /\ IF here THEN SetRow(p, file["A"][p], file["B"][p]) ELSE UNCHANGED row
                /\ UNCHANGED <<disk, rowDir, slot>>
           ELSE IF Origin(p) # {} THEN PropagateContent(CHOOSE s \in Origin(p) : TRUE, p, FALSE)
           ELSE IF here THEN PropagateContent(Newer(p), p, TRUE)
           ELSE UNCHANGED <<disk, state, slot>>
    BY <1>2, Zenon DEF ReconcileFile
  <2> QED BY <2>1, <2>2
<1>7. \A x \in Side : ~HalfKnown(x, p)
  BY <1>4, <1>5 DEF HalfKnown
<1>8. CASE file["A"][p] = file["B"][p]
  <2>1. SetRow(p, file["A"][p], file["B"][p]) /\ UNCHANGED <<has, file, aside, slot>>
    BY <1>6, <1>8 DEF disk
  <2>2. \A x \in Side, q \in Files : row'[x][q] = IF q = p THEN file["A"][p] ELSE row[x][q]
    BY <1>8, <2>1, Sides DEF SetRow, Inv, RowsOK
  <2>3. /\ \A x \in Side, q \in Files :
               q # p => file'[x][q] = file[x][q] /\ row'[x][q] = row[x][q]
        /\ \A x \in Side : file'[x][p] = file["A"][p] /\ row'[x][p] = file["A"][p]
    BY <1>5, <1>8, <2>1, <2>2, Sides
  <2>4. /\ \A x \in Side : file'[x][p] = 0 \/ \E y \in Side : file'[x][p] = file[y][p]
        /\ \A x \in Side : row'[x][p] # 0 => p[1] \in has'[x]
    BY <1>4, <2>1, <2>3, <1>5, InvFacts
  <2>5. /\ JobReady' /\ Placed' /\ Origins' /\ Silent'
        /\ \A x \in Side, d \in Dirs : DirKnown(x, d)'
        /\ \A x \in Side, q \in Files :
               q # p \/ (FileOf(x, p)' => FileOf(x, p)) \/ ~Leaving(x, p) => Rewritten(x, q)'
        /\ \A q \in Files : q # p => Accounted(q)'
    BY <1>1, <1>3, <2>1, <2>3, <2>4, OneFile
  <2>6. \A x \in Side, q \in Files : Rewritten(x, q)'
    BY <1>4, <2>5
  <2>7. file["A"][p] \notin dead
    <3>1. ~Rivals(p) /\ \A x \in Side : ~Leads(x, p)
      BY <1>5, <1>8, Sides DEF Rivals, Leads
    <3> QED BY <1>4, <1>7, <3>1 DEF Accounted, Agreed, Unrecorded, Fresh
  <2>8. Accounted(p)'
    <3>1. /\ file'["A"][p] \notin dead'
          /\ \A x \in Side : file'[x][p] = file'["A"][p] /\ row'[x][p] = file'["A"][p]
      BY <1>1, <1>5, <2>3, <2>7
    <3> QED BY <3>1, AccountAgreed
  <2> QED BY <2>5, <2>6, <2>8 DEF AgreeInv
<1>9. CASE file["A"][p] # file["B"][p]
  <2>1. ~Agreed(p) /\ ~Unrecorded(p)
    BY <1>5, <1>9 DEF Agreed, Settled, Unrecorded
  <2>2. Rivals(p) \/ \E x \in Side : Leads(x, p)
    BY <1>4, <1>7, <2>1 DEF Accounted
  <2>3. ASSUME NEW x \in Side, Leads(x, p) PROVE Origin(p) # {} /\ \A s \in Origin(p) : s = x
    <3>1. /\ file[Other(x)][p] = row[Other(x)][p] /\ row["A"][p] = row["B"][p]
          /\ file[x][p] # file[Other(x)][p] /\ row[x][p] = row[Other(x)][p]
      BY <1>5, <2>3, Sides DEF Leads, Settled
    <3>2. Changed(x, p) /\ ~Changed(Other(x), p) /\ row["A"][p] # 0 /\ row["B"][p] # 0
      BY <1>3, <1>4, <1>5, <3>1, Sides DEF Changed
    <3> QED BY <1>5, <3>2, Sides DEF Origin
  <2>4. CASE Origin(p) # {}
    <3>1. PICK s \in Side : s \in Origin(p) /\ PropagateContent(s, p, FALSE)
      <4>1. (CHOOSE s \in Origin(p) : TRUE) \in Origin(p) /\ Origin(p) \subseteq Side
        BY <2>4 DEF Origin
      <4> QED BY <1>6, <1>9, <2>4, <4>1
    <3>2. Fresh(s, p)
      BY <2>2, <2>3, <3>1 DEF Rivals, Leads
    <3> QED BY <1>1, <1>3, <1>4, <3>1, <3>2, FilePropagated
  <2>5. CASE Origin(p) = {}
    <3>1. PICK s \in Side : PropagateContent(s, p, TRUE)
      BY <1>5, <1>6, <1>9, <2>5 DEF Newer
    <3>2. Fresh(s, p)
      BY <2>2, <2>3, <2>5, <3>1 DEF Rivals
    <3> QED BY <1>1, <1>3, <1>4, <3>1, <3>2, FilePropagated
  <2> QED BY <2>4, <2>5
<1> QED BY <1>8, <1>9

--------------------------------------------------------------------------------
(* A directory is copied, then recorded.                                          *)

\* An operation begins: by an event that is taken, ...
LEMMA ProcessDirAgrees ==
    ASSUME TreeAssumption, Inv, VersionInv, AgreeInv, ProcessDir
    PROVE  AgreeInv'
<1>1. PICK s \in Side, d \in Dirs : s = Ev.side /\ d = Ev.path
  <2>1. Taking("content") /\ Ev.path \in Dirs
    BY DEF ProcessDir
  <2> QED BY <2>1, IdleFacts
<1>2. /\ Taking("content") /\ job' = StartDir(s, d) /\ up /\ up' = up
      /\ UNCHANGED <<has, file, row, aside, slot, resync, clock, dead>>
  BY <1>1 DEF ProcessDir, Taking, Still, bounds, disk, state
<1>3. /\ job = Idle /\ job.at = "idle" /\ job.plan = {} /\ Ev.kind = "content"
      /\ 1 \in DOMAIN sent /\ sent[1] = Ev
  BY <1>2, IdleFacts
<1>4. job'.at = "mkdir" /\ job'.src = s /\ job'.dir = d /\ job'.plan = {}
  BY <1>2, <1>3 DEF StartDir, Idle
<1>5. /\ NoNewMail /\ (sent' = sent \/ (sent # << >> /\ sent' = Tail(sent)))
      /\ \A x \in Side, q \in Files : Sent(x, q) => Sent(x, q)' \/ q = d
      /\ \A x \in Side, e \in Dirs : Heralded(x, e) => Heralded(x, e)' \/ (x = s /\ e = d)
  BY <1>1, <1>2, EventsGoOn
<1>6. \A q \in Files : q \notin Dirs /\ q[1] \in Dirs
  BY InvFacts
<1>7. \A x \in Side, e \in Dirs : /\ Coming(x, e) => Coming(x, e)'
                                  /\ Coming(x, e)' => Coming(x, e)
  <2>1. \A x \in Side, e \in Dirs : Heralded(x, e)' => Heralded(x, e)
    <3>1. \A x \in Side, e \in Dirs : slot'[x][e] = "content" => Heralded(x, e)
      BY <1>2 DEF Heralded
    <3> QED BY <1>5, <3>1, NoMore
  <2>2. Heralded(s, d)
    BY <1>1, <1>3 DEF Heralded
  <2>3. \A x \in Side, e \in Dirs : ~Copying(x, e) /\ (Copying(x, e)' <=> x = s /\ e = d)
    BY <1>3, <1>4 DEF Copying
  <2> QED BY <1>5, <2>1, <2>2, <2>3 DEF Coming
<1>8. \A x \in Side, q \in Files : Leaving(x, q)' => Leaving(x, q)
  <2>1. \A x \in Side, q \in Files : slot'[x][q] = "delete" => Leaving(x, q)
    BY <1>2 DEF Leaving
  <2> QED BY <1>5, <2>1, NoMore
<1>9. \A q : Due(q) => Due(q)'
  BY <1>2, <1>3 DEF Due
<1>10. \A x \in Side, q \in Files : Told(x, q) => Told(x, q)'
  <2>1. \A x \in Side, q \in Files : Pending(x, q) => Pending(x, q)'
    BY <1>2, <1>5, <1>6 DEF Pending
  <2> QED BY <1>2, <1>6, <1>7, <1>9, <2>1 DEF Told, FileOf
<1>11. \A q : ~InWork(q)
  BY <1>3 DEF InWork
<1>12. Placed' /\ Origins' /\ \A q \in Files : Accounted(q)'
  BY <1>2, <1>7, <1>8, <1>9, <1>10, <1>11, OnlyTheJob
<1>13. \A x \in Side, q \in Files : Rewritten(x, q)'
  BY <1>2, <1>5, RewrittenRemains DEF AgreeInv, Inv, FileOf
<1>14. \A x \in Side, e \in Dirs : DirKnown(x, e)'
  BY <1>2, <1>7, <1>9, DirRemains DEF AgreeInv
<1>15. JobReady' /\ Silent'
  BY <1>2, <1>4 DEF JobReady, Silent
<1> QED BY <1>12, <1>13, <1>14, <1>15 DEF AgreeInv

\* ... or by a reconciliation: the other side has nothing below the name.
LEMMA OneDirAgrees ==
    ASSUME TreeAssumption, Inv, VersionInv, DirsStay, AgreeInv, ReconcileOneDir
    PROVE  AgreeInv'
<1>1. PICK s \in Side, d \in Dirs :
        /\ UNCHANGED <<has, file, kept, aside, row, rowDir, slot, sent, clock, dead>>
        /\ up /\ up' = up /\ job.at = "next" /\ d \in has[s] /\ d \notin has[Other(s)]
        /\ (job'.at = "mkdir" /\ job'.src = s) \/ d \in rowDir[Other(s)]
        /\ job'.dir = d /\ job'.plan = job.plan \ Handled(d)
  BY OneDirEffect
<1>2. PICK t \in Side : t = Other(s) /\ Other(t) = s /\ t # s /\ Side = {s, t}
  BY Sides
<1>3. job'.at = "mkdir" /\ job'.src = s
  BY <1>1, <1>2 DEF DirsStay
<1>4. resync' = resync
  BY DEF ReconcileOneDir
<1>5. \A q \in Files : q \notin Dirs /\ q[1] \in Dirs /\ (q \in In(d) <=> q[1] = d)
  BY InvFacts, FilesAre
<1>6. /\ \A q \in Files : q[1] # d => (Due(q) => Due(q)')
      /\ \A e \in Dirs : e # d => (Due(e) => Due(e)')
  <2>1. \A e \in Dirs : e # d => e \notin In(d)
    BY <1>5, FilesAre
  <2> QED BY <1>1, <1>4, <1>5, <2>1 DEF Due, Handled
<1>7. \A x \in Side, e \in Dirs : /\ Coming(x, e) => Coming(x, e)'
                                  /\ Coming(x, e)' => Coming(x, e) \/ (x = s /\ e = d)
  BY <1>1, <1>3 DEF Coming, Heralded, Copying
<1>8. Coming(s, d)'
  BY <1>1, <1>3 DEF Coming, Copying
<1>9. \A x \in Side, q \in Files : (Leaving(x, q)' => Leaving(x, q)) /\ (Pending(x, q) => Pending(x, q)')
  BY <1>1 DEF Leaving, Pending, Sent
<1>10. \A q : ~InWork(q)
  BY <1>1 DEF InWork
<1>11. ASSUME NEW q \in Files, q[1] # d PROVE Accounted(q)'
  <2>1. \A x \in Side : Told(x, q) => Told(x, q)'
    BY <1>1, <1>5, <1>6, <1>7, <1>9, <1>11 DEF Told, FileOf
  <2>2. \A x \in Side : Coming(x, q[1])' => Coming(x, q[1])
    BY <1>5, <1>7, <1>11
  <2>3. \A x \in Side : Fresh(x, q) => Fresh(x, q)'
    BY <1>1 DEF Fresh
  <2> QED BY <1>1, <1>6, <1>9, <1>10, <1>11, <2>1, <2>2, <2>3, AccountRemains DEF AgreeInv
<1>12. ASSUME NEW q \in Files, q[1] = d PROVE Accounted(q)'
  <2>1. file[t][q] = 0 /\ row[t][q] = 0
    BY <1>1, <1>2, <1>12, InvFacts DEF AgreeInv, Placed
  <2>2. Accounted(q) /\ \A x \in Side : Fresh(x, q) => Fresh(x, q)'
    BY <1>1 DEF AgreeInv, Fresh
  <2>3. CASE file[s][q] = 0
    <3>1. \A x \in Side : file[x][q] = 0 /\ file[x][q] = file[Other(x)][q]
      BY <1>2, <2>1, <2>3
    <3> QED BY <1>1, <1>2, <1>9, <2>2, <3>1, AccountRemains, Sides
  <2>4. CASE file[s][q] # 0
    <3>1. ~Agreed(q) /\ ~Rivals(q) /\ ~Unrecorded(q)
      BY <1>2, <2>1, <2>4, Sides DEF Agreed, Settled, Rivals, Unrecorded, FileOf
    <3>2. ~HalfKnown(t, q) /\ ~Leads(t, q)
      BY <1>2, <2>1, <2>4, Sides DEF HalfKnown, Leads, Settled, FileOf
    <3>3. Leads(s, q) \/ HalfKnown(s, q)
      BY <1>2, <2>2, <3>1, <3>2 DEF Accounted
    <3>4. Told(s, q)' /\ Fresh(s, q)'
      BY <1>1, <1>8, <1>12, <2>2, <2>4, <3>3 DEF Told, FileOf, Leads, HalfKnown
    <3>5. CASE Leads(s, q)
      <4>1. Settled(t, q)' /\ ~Leaving(t, q)' /\ ~FileOf(t, q)' /\ file'[s][q] # file'[t][q]
        BY <1>1, <1>2, <1>9, <2>1, <2>4, <3>5 DEF Leads, Settled, FileOf
      <4> QED BY <1>2, <3>4, <4>1, LeadsNow
    <3>6. CASE HalfKnown(s, q)
      <4>1. HalfKnown(s, q)'
        BY <1>1, <3>4, <3>6 DEF HalfKnown, FileOf
      <4> QED BY <4>1 DEF Accounted
    <3> QED BY <3>3, <3>5, <3>6
  <2> QED BY <2>3, <2>4
<1>13. \A x \in Side, q \in Files : Rewritten(x, q)'
  BY <1>1, RewrittenRemains DEF AgreeInv, Inv, FileOf
<1>14. ASSUME NEW x \in Side, NEW e \in Dirs PROVE DirKnown(x, e)'
  <2>1. CASE e = d
    BY <1>1, <1>2, <1>8, <2>1 DEF DirKnown
  <2>2. CASE e # d
    BY <1>1, <1>6, <1>7, <2>2, DirRemains DEF AgreeInv
  <2> QED BY <2>1, <2>2
<1>15. JobReady' /\ Silent' /\ Placed'
  <2>1. Placed'
    BY <1>1, <1>7 DEF AgreeInv, Placed
  <2> QED BY <1>1, <1>3, <2>1 DEF JobReady, Silent
<1>16. Origins'
  BY <1>1, OriginsRemain DEF AgreeInv
<1> QED BY <1>11, <1>12, <1>13, <1>14, <1>15, <1>16 DEF AgreeInv

LEMMA MkdirAgrees ==
    ASSUME TreeAssumption, Inv, VersionInv, AgreeInv, Mkdir
    PROVE  AgreeInv'
<1>1. PICK s \in Side, t \in Side, d \in Dirs :
        /\ s = job.src /\ t = Dst /\ d = D /\ job.dir = d /\ t = Other(s) /\ Other(t) = s
        /\ t # s /\ Side = {s, t} /\ job.at = "mkdir"
  <2>1. Doing("mkdir")
    BY DEF Mkdir
  <2> QED BY <2>1, Handling
<1>2. Coming(s, d) /\ d \in has[s]
  BY <1>1 DEF Coming, Copying, AgreeInv, Placed
<1> DEFINE full == VersionsIn(s, d) # {}
<1>3. /\ has' = [has EXCEPT ![t] = @ \cup {d}]
      /\ job' = [job EXCEPT !.at = IF full THEN "copy" ELSE "note", !.deep = full,
                            !.todo = FilesIn(s, d),
                            !.echo = IF d \in has[t] THEN "none" ELSE "content"]
      /\ UNCHANGED <<file, aside, row, slot, sent, resync, up, clock, dead>> /\ up
  BY <1>1, <1>2 DEF Mkdir, Doing, Still, bounds, state, events
<1>4. /\ job'.at = IF full THEN "copy" ELSE "note"
      /\ job'.src = s /\ job'.dir = d /\ job'.deep = full /\ job'.todo = FilesIn(s, d)
      /\ job'.echo = (IF d \in has[t] THEN "none" ELSE "content") /\ job'.plan = job.plan
  BY <1>1, <1>3 DEF Inv, JobOK, Job
<1>5. ~full => FilesIn(s, d) = {}
  BY DEF VersionsIn
<1> HIDE DEF full
<1>6. \A x \in Side, e \in Dirs : e \in has'[x] <=> e \in has[x] \/ (x = t /\ e = d)
  BY <1>3 DEF Inv, DiskOK
<1>7. \A q \in Files : q \notin Dirs /\ q[1] \in Dirs /\ (q \in In(d) <=> q[1] = d)
  BY InvFacts, FilesAre
<1>8. \A q : Due(q) => Due(q)'
  BY <1>1, <1>3, <1>4 DEF Due
<1>9. \A x \in Side, e \in Dirs : /\ Coming(x, e)' => Coming(x, e)
                                  /\ Coming(x, e) => Coming(x, e)' \/ (~full /\ x = s /\ e = d)
  BY <1>1, <1>3, <1>4 DEF Coming, Heralded, Copying
<1>10. ASSUME NEW q \in Files PROVE Accounted(q)'
  <2>1. ASSUME NEW x \in Side, Told(x, q) PROVE Told(x, q)'
    <3>1. FileOf(x, q) /\ Coming(x, q[1]) => Coming(x, q[1])'
      <4>1. ~full => (FileOf(s, q) => q[1] # d)
        BY <1>5, <1>7 DEF FilesIn
      <4> QED BY <1>7, <1>9, <4>1
    <3> QED BY <1>3, <1>8, <2>1, <3>1 DEF Told, Pending, Sent, FileOf
  <2>2. ~InWork(q)
    BY <1>1 DEF InWork
  <2>3. \A x \in Side : (Leaving(x, q)' => Leaving(x, q)) /\ (Fresh(x, q) => Fresh(x, q)')
    BY <1>3 DEF Leaving, Fresh
  <2>4. \A x \in Side : Coming(x, q[1])' => Coming(x, q[1])
    BY <1>7, <1>9
  <2> QED BY <1>3, <1>8, <2>1, <2>2, <2>3, <2>4, AccountRemains DEF AgreeInv
<1>11. \A x \in Side, q \in Files : Rewritten(x, q)'
  BY <1>3, RewrittenRemains DEF AgreeInv, Inv, FileOf
<1>12. ASSUME NEW x \in Side, NEW e \in Dirs PROVE DirKnown(x, e)'
  <2>1. CASE e = d
    BY <1>1, <1>2, <1>6, <2>1 DEF DirKnown
  <2>2. CASE e # d
    <3>1. Other(x) \in Side
      BY Sides
    <3> QED BY <1>6, <1>8, <1>9, <2>2, <3>1, DirRemains DEF AgreeInv
  <2> QED BY <2>1, <2>2
<1>13. JobReady'
  <2>1. job'.todo \subseteq FilesIn(s, d)'
    BY <1>3, <1>4 DEF FilesIn, FileOf
  <2>2. d \in has'["A"] \cap has'["B"]
    BY <1>1, <1>2, <1>6, Sides
  <2>3. job'.echo = "content" => \A q \in In(d) : file'[t][q] = 0
    <3>1. d \notin has[t] => \A q \in In(d) : file[t][q] = 0
      BY <1>7, InvFacts, FilesAre
    <3> QED BY <1>3, <1>4, <3>1
  <2>4. job'.at = "copy" => job'.deep
    BY <1>4
  <2> QED BY <1>1, <1>4, <2>1, <2>2, <2>3, <2>4 DEF JobReady
<1>14. Placed' /\ Silent'
  BY <1>3, <1>6, <1>9 DEF AgreeInv, Placed, Silent
<1>15. Origins'
  BY <1>3, OriginsRemain DEF AgreeInv
<1> QED BY <1>10, <1>11, <1>12, <1>13, <1>14, <1>15 DEF AgreeInv

\* Where a directory is on its way to, no file of it is ahead.
LEMMA CopyOneAgrees ==
    ASSUME TreeAssumption, Inv, VersionInv, AgreeInv, CopyOne
    PROVE  AgreeInv'
<1>1. PICK s \in Side, t \in Side, d \in Dirs :
        /\ s = job.src /\ t = Dst /\ d = D /\ job.dir = d /\ t = Other(s) /\ Other(t) = s
        /\ t # s /\ Side = {s, t} /\ job.at = "copy"
  <2>1. Doing("copy")
    BY DEF CopyOne
  <2> QED BY <2>1, Handling
<1>2. /\ job.deep /\ job.todo \subseteq FilesIn(s, d) /\ d \in has[t]
      /\ job.echo = "content" => \A q \in In(d) : file[t][q] \in {0, file[s][q]}
  BY <1>1, Sides DEF AgreeInv, JobReady
<1>3. PICK p \in job.todo : /\ file' = [file EXCEPT ![t][p] = file[s][p]]
                            /\ job' = [job EXCEPT !.todo = @ \ {p}] /\ resync' = resync
  BY <1>1, <1>2 DEF CopyOne, FilesIn
<1>4. /\ UNCHANGED <<has, aside, row, slot, sent, up, clock, dead>> /\ up
  BY DEF CopyOne, Doing, Still, bounds, state, events
<1>5. p \in Files /\ p[1] = d /\ p \in In(d) /\ file[s][p] # 0
  BY <1>2, FilesAre DEF FilesIn, FileOf
<1>6. /\ job'.at = "copy" /\ job'.src = s /\ job'.dir = d /\ job'.deep = job.deep
      /\ job'.todo = job.todo \ {p} /\ job'.echo = job.echo /\ job'.plan = job.plan
  BY <1>1, <1>3 DEF Inv, JobOK, Job
<1>7. \A x \in Side, q \in Files : file'[x][q] = IF q = p THEN file[s][p] ELSE file[x][q]
  <2>1. \A x \in Side, q \in Files : file'[x][q] = IF x = t /\ q = p THEN file[s][p] ELSE file[x][q]
    BY <1>3 DEF Inv, DiskOK
  <2> QED BY <1>1, <2>1
<1>8. \A q \in Files : q[1] \in Dirs /\ (q \in In(d) <=> q[1] = d)
  BY FilesAre
<1>9. Coming(s, d)
  BY <1>1 DEF Coming, Copying
<1>10. \A x \in Side, e \in Dirs : Coming(x, e)' <=> Coming(x, e)
  BY <1>1, <1>4, <1>6 DEF Coming, Heralded, Copying
<1>11. /\ \A q : (Due(q) => Due(q)') /\ (InWork(q) => InWork(q)')
       /\ \A x \in Side, q \in Files : Leaving(x, q)' => Leaving(x, q)
  BY <1>1, <1>3, <1>4, <1>6 DEF Due, InWork, Leaving
<1>12. ASSUME NEW q \in Files, q # p PROVE Accounted(q)'
  <2>1. \A x \in Side : file'[x][q] = file[x][q]
    BY <1>7, <1>12
  <2>2. \A x \in Side : Told(x, q) => Told(x, q)'
    BY <1>4, <1>8, <1>10, <1>11, <2>1 DEF Told, Pending, Sent, FileOf
  <2>3. \A x \in Side : (Coming(x, q[1])' => Coming(x, q[1])) /\ (Fresh(x, q) => Fresh(x, q)')
    BY <1>4, <1>8, <1>10, <2>1 DEF Fresh
  <2> QED BY <1>4, <1>11, <2>1, <2>2, <2>3, AccountRemains DEF AgreeInv
<1>13. Fresh(s, p)
  <2>1. Accounted(p)
    BY <1>5 DEF AgreeInv
  <2>2. ~Leads(t, p) /\ ~HalfKnown(t, p)
    BY <1>1, <1>5, <1>9 DEF Leads, HalfKnown, FileOf
  <2>3. Agreed(p) \/ Unrecorded(p) \/ Rivals(p) => Fresh(s, p)
    BY <1>1, Sides DEF Agreed, Settled, Unrecorded, Rivals, Fresh
  <2> QED BY <1>1, <2>1, <2>2, <2>3 DEF Accounted, Leads, HalfKnown
<1>14. Accounted(p)'
  <2>1. InWork(p)'
    BY <1>2, <1>5, <1>6 DEF InWork
  <2>2. \A x \in Side : file'[x][p] = file[s][p]
    BY <1>5, <1>7
  <2>3. Unrecorded(p)'
    BY <1>4, <1>5, <1>13, <2>1, <2>2, Sides DEF Unrecorded, FileOf, Fresh
  <2> QED BY <2>3 DEF Accounted
<1>15. ASSUME NEW x \in Side, NEW q \in Files PROVE Rewritten(x, q)'
  <2>1. CASE FileOf(x, q)' => FileOf(x, q)
    BY <1>4, <2>1, RewrittenRemains DEF AgreeInv, Inv
  <2>2. CASE ~(FileOf(x, q)' => FileOf(x, q))
    <3>1. q = p /\ x = t /\ file[t][p] = 0
      BY <1>1, <1>5, <1>7, <2>2 DEF FileOf
    <3>2. ~Leaving(t, p)
      <4>1. Leaving(t, p) => Twin(s, p)
        BY <1>1, <1>5 DEF VersionInv, PathInv, Departure
      <4>2. ~Twin(s, p)
        BY <1>1, <1>5, <1>13, <3>1 DEF Twin, Spare, Fresh, AgreeInv, Origins
      <4> QED BY <4>1, <4>2
    <3> QED BY <1>5, <1>11, <3>1, <3>2, RewrittenRemains DEF AgreeInv, Inv
  <2> QED BY <2>1, <2>2
<1>16. \A x \in Side, e \in Dirs : DirKnown(x, e)'
  BY <1>4, <1>10, <1>11, DirRemains DEF AgreeInv
<1>17. JobReady'
  <2>1. FilesIn(s, d)' = FilesIn(s, d)
    <3>1. In(d) \subseteq Files
      BY FilesAre
    <3> QED BY <1>5, <1>7, <3>1 DEF FilesIn, FileOf
  <2>2. d \in has'["A"] \cap has'["B"]
    BY <1>1, <1>4 DEF AgreeInv, JobReady
  <2>3. job'.echo = "content" => \A q \in In(d) : file'[t][q] \in {0, file'[s][q]}
    BY <1>2, <1>6, <1>7, FilesAre
  <2> QED BY <1>1, <1>2, <1>6, <2>1, <2>2, <2>3 DEF JobReady
<1>18. Placed' /\ Silent'
  BY <1>4, <1>10 DEF AgreeInv, Placed, Silent
<1>19. Origins'
  <2>1. \A x \in Side, q \in Files : \E y \in Side : file'[x][q] = file[y][q]
    BY <1>7
  <2> QED BY <1>4, <2>1, OriginsRemain DEF AgreeInv
<1> QED BY <1>12, <1>14, <1>15, <1>16, <1>17, <1>18, <1>19 DEF AgreeInv

LEMMA CopyDoneAgrees ==
    ASSUME TreeAssumption, Inv, VersionInv, AgreeInv, CopyDone
    PROVE  AgreeInv'
<1>1. PICK s \in Side, t \in Side, d \in Dirs :
        /\ s = job.src /\ t = Dst /\ d = D /\ job.dir = d /\ t = Other(s) /\ Other(t) = s
        /\ t # s /\ Side = {s, t} /\ job.at = "copy"
  <2>1. Doing("copy")
    BY DEF CopyDone
  <2> QED BY <2>1, Handling
<1>2. /\ job.todo = {} /\ job' = [job EXCEPT !.at = "note"] /\ up
      /\ UNCHANGED <<has, file, row, aside, slot, sent, resync, up, clock, dead>>
  BY DEF CopyDone, Doing, Proceed, Still, bounds, state, events
<1>3. /\ job'.at = "note" /\ job'.src = s /\ job'.dir = d /\ job'.deep = job.deep
      /\ job'.echo = job.echo /\ job'.plan = job.plan
  BY <1>1, <1>2 DEF Inv, JobOK, Job
<1>4. /\ d \in has["A"] \cap has["B"]
      /\ job.echo = "content" => \A q \in In(d) : file[t][q] \in {0, file[s][q]}
  BY <1>1 DEF AgreeInv, JobReady
<1>5. \A q \in In(d) : file[s][q] \in {0, file[t][q]}
  BY <1>1, <1>2 DEF VersionInv, Copied
<1>6. \A q : (Due(q) => Due(q)') /\ (InWork(q) => InWork(q)')
  BY <1>1, <1>2, <1>3 DEF Due, InWork
<1>7. \A x \in Side, e \in Dirs : /\ Coming(x, e)' => Coming(x, e)
                                  /\ Coming(x, e) => Coming(x, e)' \/ (x = s /\ e = d)
  BY <1>1, <1>2, <1>3 DEF Coming, Heralded, Copying
<1>8. \A x \in Side, q \in Files : Leaving(x, q)' => Leaving(x, q)
  BY <1>2 DEF Leaving
<1>9. ASSUME NEW x \in Side, NEW q \in Files, Told(x, q)
      PROVE  Told(x, q)' \/ file[x][q] = file[Other(x)][q]
  <2>1. q[1] \in Dirs /\ (q \in In(d) <=> q[1] = d)
    BY FilesAre
  <2>2. CASE x = s /\ q[1] = d /\ FileOf(s, q)
    BY <1>1, <1>5, <2>1, <2>2 DEF FileOf
  <2>3. CASE ~(x = s /\ q[1] = d /\ FileOf(s, q))
    BY <1>2, <1>6, <1>7, <1>9, <2>1, <2>3 DEF Told, Pending, Sent, FileOf
  <2> QED BY <2>2, <2>3
<1>10. Placed' /\ Origins' /\ \A q \in Files : Accounted(q)'
  BY <1>2, <1>6, <1>7, <1>8, <1>9, OnlyTheJob
<1>11. \A x \in Side, q \in Files : Rewritten(x, q)'
  BY <1>2, RewrittenRemains DEF AgreeInv, Inv, FileOf
<1>12. ASSUME NEW x \in Side, NEW e \in Dirs PROVE DirKnown(x, e)'
  <2>1. d \in has'[Other(x)]
    BY <1>2, <1>4, Sides
  <2> QED BY <1>2, <1>6, <1>7, <2>1, DirRemains DEF AgreeInv
<1>13. JobReady' /\ Silent'
  BY <1>1, <1>2, <1>3, <1>4 DEF JobReady, Silent
<1> QED BY <1>10, <1>11, <1>12, <1>13 DEF AgreeInv

\* An operation is over, and what it did to the directory may come back as an event:
\* no file of the copy is ahead of its original.
LEMMA EndAgrees ==
    ASSUME TreeAssumption, Inv, VersionInv, AgreeInv, NEW label \in {"note", "walkB"},
           Doing(label), Finish, Leak, up' = up, UNCHANGED <<has, file, clock, dead, aside>>
    PROVE  /\ JobReady' /\ Silent' /\ Origins'
           /\ \A q : Due(q) => Due(q)'
           /\ \A x \in Side, q \in Files : /\ Leaving(x, q)' => Leaving(x, q)
                                           /\ Told(x, q) => Told(x, q)'
                                           /\ Rewritten(x, q)'
           /\ \A x \in Side, d \in Dirs : DirKnown(x, d)' /\ (Coming(x, d)' => d \in has'[x])
           /\ \A x \in Side, q \in Files :
                  Coming(x, q[1])' => Coming(x, q[1]) \/ file[x][q] \in {0, file[Other(x)][q]}
<1>1. PICK s \in Side, t \in Side, d \in Dirs :
        /\ s = job.src /\ t = Dst /\ d = D /\ job.dir = d /\ t = Other(s) /\ Other(t) = s
        /\ t # s /\ Side = {s, t} /\ job.at = label /\ job.echo \in {"none", "content"}
  BY Handling
<1>2. job' = Ended /\ resync' = resync /\ up
  BY DEF Finish, Doing
<1>3. job'.at \in {"idle", "next"} /\ job'.plan = job.plan
  <2>1. Ended.at \in {"idle", "next"}
    BY EndedPlan DEF VersionInv
  <2>2. CASE job.scope = {}
    BY <1>2, <2>1, <2>2, Resting DEF Ended, VersionInv, Planned
  <2>3. CASE job.scope # {}
    <3>1. Ended.plan = job.plan
      BY <2>3 DEF Ended, Idle
    <3> QED BY <1>2, <2>1, <3>1
  <2> QED BY <2>2, <2>3
<1>4. /\ sent' = sent
      /\ \A x \in Side, q \in Dirs \cup Files :
             \/ slot'[x][q] = slot[x][q]
             \/ x = t /\ q = d /\ slot'[x][q] = "content"
  BY <1>1, LeakEffect
<1>5. job.echo # "content" => slot' = slot
  BY <1>1 DEF Leak, events
<1>6. \A q \in Files : q \notin Dirs /\ q[1] \in Dirs /\ (q \in In(d) <=> q[1] = d)
  BY InvFacts, FilesAre
<1>7. /\ d \in has["A"] \cap has["B"]
      /\ job.echo = "content" => \A q \in In(d) : file[t][q] \in {0, file[s][q]}
  BY <1>1 DEF AgreeInv, JobReady
<1>8. \A q : Due(q) => Due(q)'
  BY <1>1, <1>2, <1>3 DEF Due
<1>9. \A x \in Side, e \in Dirs :
          /\ Coming(x, e) => Coming(x, e)'
          /\ Coming(x, e)' => Coming(x, e) \/ (x = t /\ e = d /\ job.echo = "content")
  BY <1>1, <1>3, <1>4, <1>5 DEF Coming, Heralded, Copying
<1>10. \A x \in Side, q \in Files : slot'[x][q] = slot[x][q]
  BY <1>4, <1>6
<1>11. ASSUME NEW x \in Side, NEW q \in Files
       PROVE  /\ Leaving(x, q)' => Leaving(x, q)
              /\ Told(x, q) => Told(x, q)'
              /\ Rewritten(x, q)'
  <2>1. Leaving(x, q)' => Leaving(x, q)
    BY <1>4, <1>10 DEF Leaving
  <2>2. Told(x, q) => Told(x, q)'
    BY <1>4, <1>6, <1>8, <1>9, <1>10 DEF Told, Pending, Sent, FileOf
  <2>3. Rewritten(x, q)'
    BY <1>4, <1>10, RewrittenRemains DEF AgreeInv, Inv, FileOf
  <2> QED BY <2>1, <2>2, <2>3
<1>12. ASSUME NEW x \in Side, NEW e \in Dirs
       PROVE  DirKnown(x, e)' /\ (Coming(x, e)' => e \in has'[x])
  <2>1. DirKnown(x, e)'
    BY <1>8, <1>9, DirRemains DEF AgreeInv
  <2>2. Coming(x, e)' => e \in has'[x]
    BY <1>1, <1>7, <1>9, Sides DEF AgreeInv, Placed
  <2> QED BY <2>1, <2>2
<1>13. \A x \in Side, q \in Files :
           Coming(x, q[1])' => Coming(x, q[1]) \/ file[x][q] \in {0, file[Other(x)][q]}
  BY <1>1, <1>6, <1>7, <1>9
<1>14. JobReady' /\ Silent' /\ Origins'
  <2>1. Origins'
    BY OriginsRemain DEF AgreeInv
  <2> QED BY <1>2, <1>3, <2>1 DEF JobReady, Silent
<1> QED BY <1>8, <1>11, <1>12, <1>13, <1>14

LEMMA NoteAgrees ==
    ASSUME TreeAssumption, Inv, VersionInv, AgreeInv, Note
    PROVE  AgreeInv'
<1>1. PICK s \in Side, t \in Side, d \in Dirs :
        /\ s = job.src /\ t = Dst /\ d = D /\ job.dir = d /\ t = Other(s) /\ Other(t) = s
        /\ t # s /\ Side = {s, t} /\ job.at = "note"
  <2>1. Doing("note")
    BY DEF Note
  <2> QED BY <2>1, Handling
<1>2. /\ d \in has["A"] \cap has["B"]
      /\ job.echo = "content" => \A q \in In(d) : file[t][q] \in {0, file[s][q]}
  BY <1>1 DEF AgreeInv, JobReady
<1>3. /\ UNCHANGED <<has, file, row, aside, up, clock, dead>> /\ up /\ Doing("note")
      /\ IF job.deep THEN Proceed("walkA") /\ UNCHANGED events ELSE Finish /\ Leak
  BY <1>1, <1>2 DEF Note, Doing, Still, bounds, disk
<1>4. CASE job.deep
  <2>1. job' = [job EXCEPT !.at = "walkA"] /\ UNCHANGED <<slot, sent, resync>>
    BY <1>3, <1>4 DEF Proceed, events
  <2>2. /\ job'.at = "walkA" /\ job'.src = s /\ job'.dir = d /\ job'.deep = job.deep
        /\ job'.echo = job.echo /\ job'.plan = job.plan
    BY <1>1, <2>1 DEF Inv, JobOK, Job
  <2>3. \A q : (Due(q) => Due(q)') /\ (InWork(q) => InWork(q)')
    BY <1>1, <1>3, <2>1, <2>2 DEF Due, InWork
  <2>4. \A x \in Side, e \in Dirs : Coming(x, e)' <=> Coming(x, e)
    BY <1>1, <2>1, <2>2 DEF Coming, Heralded, Copying
  <2>5. \A x \in Side, q \in Files : (Leaving(x, q)' => Leaving(x, q)) /\ (Told(x, q) => Told(x, q)')
    BY <1>3, <2>1, <2>3, <2>4, FilesAre DEF Leaving, Told, Pending, Sent, FileOf
  <2>6. Placed' /\ Origins' /\ \A q \in Files : Accounted(q)'
    BY <1>3, <2>3, <2>4, <2>5, OnlyTheJob
  <2>7. \A x \in Side, q \in Files : Rewritten(x, q)'
    BY <1>3, <2>1, RewrittenRemains DEF AgreeInv, Inv, FileOf
  <2>8. \A x \in Side, e \in Dirs : DirKnown(x, e)'
    BY <1>3, <2>3, <2>4, DirRemains DEF AgreeInv
  <2>9. JobReady' /\ Silent'
    BY <1>1, <1>2, <1>3, <2>2 DEF JobReady, Silent
  <2> QED BY <2>6, <2>7, <2>8, <2>9 DEF AgreeInv
<1>5. CASE ~job.deep
  <2>1. /\ JobReady' /\ Silent' /\ Origins'
        /\ \A q : Due(q) => Due(q)'
        /\ \A x \in Side, q \in Files : /\ Leaving(x, q)' => Leaving(x, q)
                                        /\ Told(x, q) => Told(x, q)'
                                        /\ Rewritten(x, q)'
        /\ \A x \in Side, e \in Dirs : DirKnown(x, e)' /\ (Coming(x, e)' => e \in has'[x])
        /\ \A x \in Side, q \in Files :
               Coming(x, q[1])' => Coming(x, q[1]) \/ file[x][q] \in {0, file[Other(x)][q]}
    BY <1>3, <1>5, EndAgrees
  <2>2. \A q : ~InWork(q)
    BY <1>5 DEF InWork
  <2>3. \A x \in Side, q \in Files : Fresh(x, q) => Fresh(x, q)'
    BY <1>3 DEF Fresh
  <2>4. \A q \in Files : Accounted(q)'
    BY <1>3, <2>1, <2>2, <2>3, AccountRemains DEF AgreeInv
  <2>5. Placed'
    BY <1>3, <2>1 DEF AgreeInv, Placed
  <2> QED BY <2>1, <2>4, <2>5 DEF AgreeInv
<1> QED BY <1>4, <1>5

\* recordSubtree walks a side: what it finds there is on both sides, or only there.
LEMMA WalkAAgrees ==
    ASSUME TreeAssumption, Inv, VersionInv, AgreeInv, WalkA
    PROVE  AgreeInv'
<1>1. PICK s \in Side, t \in Side, d \in Dirs :
        /\ s = job.src /\ t = Dst /\ d = D /\ job.dir = d /\ t = Other(s) /\ Other(t) = s
        /\ t # s /\ Side = {s, t} /\ job.at = "walkA"
  <2>1. Doing("walkA")
    BY DEF WalkA
  <2> QED BY <2>1, Handling
<1>2. /\ d \in has["A"] \cap has["B"]
      /\ job.echo = "content" => \A q \in In(d) : file[t][q] \in {0, file[s][q]}
  BY <1>1 DEF AgreeInv, JobReady
<1>3. /\ UNCHANGED <<has, file, aside, slot, sent, resync, up, clock, dead>> /\ up
      /\ job' = [job EXCEPT !.at = "walkB"] /\ RecordTree("A")
  BY DEF WalkA, Doing, Proceed, Still, bounds, disk, events
<1>4. /\ job'.at = "walkB" /\ job'.src = s /\ job'.dir = d /\ job'.deep = job.deep
      /\ job'.echo = job.echo /\ job'.plan = job.plan
  BY <1>1, <1>3 DEF Inv, JobOK, Job
<1>5. \A q \in Files : q[1] \in Dirs /\ (q \in In(d) <=> q[1] = d)
  BY FilesAre
<1>6. "A" \in Side /\ "B" \in Side /\ Other("A") = "B" /\ Other("B") = "A"
      /\ \A x \in Side : x = "A" \/ x = "B"
  BY Sides DEF Other
<1>7. \A x \in Side, q \in Files :
          row'[x][q] = IF x = "A" /\ q[1] = d /\ file["A"][q] # 0 THEN file["A"][q] ELSE row[x][q]
  <2>1. row' = [row EXCEPT !["A"] = [q \in Files |-> IF q \in FilesIn("A", d)
                                                    THEN file["A"][q] ELSE @[q]]]
    BY <1>1, <1>3 DEF RecordTree
  <2>2. \A q \in Files : q \in FilesIn("A", d) <=> q[1] = d /\ file["A"][q] # 0
    BY <1>5 DEF FilesIn, FileOf
  <2> QED BY <2>1, <2>2 DEF Inv, RowsOK
<1>8. \A q : (Due(q) => Due(q)') /\ (InWork(q) => InWork(q)')
  BY <1>1, <1>3, <1>4 DEF Due, InWork
<1>9. \A x \in Side, e \in Dirs : Coming(x, e)' <=> Coming(x, e)
  BY <1>1, <1>3, <1>4 DEF Coming, Heralded, Copying
<1>10. \A x \in Side, q \in Files : (Leaving(x, q)' => Leaving(x, q)) /\ (Told(x, q) => Told(x, q)')
  BY <1>3, <1>5, <1>8, <1>9 DEF Leaving, Told, Pending, Sent, FileOf
<1>11. \A x \in Side, q \in Files : Fresh(x, q) => Fresh(x, q)'
  BY <1>3 DEF Fresh
<1>12. ASSUME NEW q \in Files PROVE Accounted(q)'
  <2>1. Accounted(q) /\ q[1] \in Dirs
    BY <1>5 DEF AgreeInv
  <2>2. CASE row'["A"][q] = row["A"][q]
    <3>1. \A x \in Side : row'[x][q] = row[x][q]
      BY <1>6, <1>7, <2>2
    <3> QED BY <1>3, <1>8, <1>9, <1>10, <1>11, <2>1, <3>1, AccountRemains
  <2>3. CASE row'["A"][q] # row["A"][q]
    <3>1. /\ q \in In(d) /\ file["A"][q] # 0 /\ row'["A"][q] = file["A"][q]
          /\ row["A"][q] # file["A"][q] /\ row'["B"][q] = row["B"][q]
      BY <1>5, <1>6, <1>7, <2>3
    <3>2. file["A"][q] \in {0, file["B"][q]} \/ file["B"][q] \in {0, file["A"][q]}
      BY <1>1, <1>6, <3>1 DEF VersionInv, Copied
    <3>3. ~Agreed(q) /\ ~Rivals(q) /\ ~Leads("B", q) /\ ~HalfKnown("A", q) /\ ~HalfKnown("B", q)
      BY <1>6, <3>1, <3>2 DEF Agreed, Settled, Rivals, FileOf, Leads, HalfKnown
    <3>4. CASE Unrecorded(q)
      <4>1. Unrecorded(q)'
        BY <1>3, <1>8, <1>11, <3>4, <1>6 DEF Unrecorded, FileOf
      <4> QED BY <4>1 DEF Accounted
    <3>5. CASE Leads("A", q)
      <4>1. /\ file["B"][q] = row["B"][q] /\ row["A"][q] = row["B"][q]
            /\ file["A"][q] # file["B"][q] /\ Fresh("A", q) /\ Told("A", q)
        BY <1>6, <3>5 DEF Leads, Settled
      <4>2. file["B"][q] = 0
        BY <3>1, <3>2, <4>1
      <4>3. HalfKnown("A", q)'
        BY <1>3, <1>6, <1>10, <1>11, <3>1, <4>1, <4>2 DEF HalfKnown, FileOf
      <4> QED BY <1>6, <4>3 DEF Accounted
    <3> QED BY <1>6, <2>1, <3>3, <3>4, <3>5 DEF Accounted
  <2> QED BY <2>2, <2>3
<1>13. \A x \in Side, q \in Files : Rewritten(x, q)'
  BY <1>3, RewrittenRemains DEF AgreeInv, Inv, FileOf
<1>14. \A x \in Side, e \in Dirs : DirKnown(x, e)'
  BY <1>3, <1>8, <1>9, DirRemains DEF AgreeInv
<1>15. JobReady'
  <2>1. \A q \in In(d) : FileOf("A", q)' => row'["A"][q] = file'["A"][q]
    BY <1>3, <1>5, <1>6, <1>7, FilesAre DEF FileOf
  <2> QED BY <1>1, <1>2, <1>3, <1>4, <2>1 DEF JobReady
<1>16. Placed' /\ Silent'
  <2>1. \A x \in Side, q \in Files : row'[x][q] # 0 => q[1] \in has[x]
    BY <1>7, InvFacts DEF AgreeInv, Placed
  <2> QED BY <1>3, <1>9, <2>1 DEF AgreeInv, Placed, Silent
<1>17. Origins'
  BY <1>3, OriginsRemain DEF AgreeInv
<1> QED BY <1>12, <1>13, <1>14, <1>15, <1>16, <1>17 DEF AgreeInv

LEMMA WalkBAgrees ==
    ASSUME TreeAssumption, Inv, VersionInv, AgreeInv, WalkB
    PROVE  AgreeInv'
<1>1. PICK s \in Side, t \in Side, d \in Dirs :
        /\ s = job.src /\ t = Dst /\ d = D /\ job.dir = d /\ t = Other(s) /\ Other(t) = s
        /\ t # s /\ Side = {s, t} /\ job.at = "walkB"
  <2>1. Doing("walkB")
    BY DEF WalkB
  <2> QED BY <2>1, Handling
<1>2. \A q \in In(d) : FileOf("A", q) => row["A"][q] = file["A"][q]
  BY <1>1 DEF AgreeInv, JobReady
<1>3. /\ UNCHANGED <<has, file, aside, up, clock, dead>> /\ up
      /\ Doing("walkB") /\ Finish /\ Leak /\ RecordTree("B")
  BY DEF WalkB, Doing, Still, bounds, disk
<1>4. /\ JobReady' /\ Silent' /\ Origins'
      /\ \A q : Due(q) => Due(q)'
      /\ \A x \in Side, q \in Files : /\ Leaving(x, q)' => Leaving(x, q)
                                      /\ Told(x, q) => Told(x, q)'
                                      /\ Rewritten(x, q)'
      /\ \A x \in Side, e \in Dirs : DirKnown(x, e)' /\ (Coming(x, e)' => e \in has'[x])
      /\ \A x \in Side, q \in Files :
             Coming(x, q[1])' => Coming(x, q[1]) \/ file[x][q] \in {0, file[Other(x)][q]}
  BY <1>3, EndAgrees
<1>5. \A q \in Files : q[1] \in Dirs /\ (q \in In(d) <=> q[1] = d)
  BY FilesAre
<1>6. "A" \in Side /\ "B" \in Side /\ Other("A") = "B" /\ Other("B") = "A"
      /\ \A x \in Side : x = "A" \/ x = "B"
  BY Sides DEF Other
<1>7. \A x \in Side, q \in Files :
          row'[x][q] = IF x = "B" /\ q[1] = d /\ file["B"][q] # 0 THEN file["B"][q] ELSE row[x][q]
  <2>1. row' = [row EXCEPT !["B"] = [q \in Files |-> IF q \in FilesIn("B", d)
                                                    THEN file["B"][q] ELSE @[q]]]
    BY <1>1, <1>3 DEF RecordTree
  <2>2. \A q \in Files : q \in FilesIn("B", d) <=> q[1] = d /\ file["B"][q] # 0
    BY <1>5 DEF FilesIn, FileOf
  <2> QED BY <2>1, <2>2 DEF Inv, RowsOK
<1>8. \A q \in Files : InWork(q) => q \in In(d)
  BY <1>1 DEF InWork
<1>9. \A x \in Side, q \in Files : Fresh(x, q) => Fresh(x, q)'
  BY <1>3 DEF Fresh
<1>10. ASSUME NEW q \in Files PROVE Accounted(q)'
  <2>1. Accounted(q)
    BY DEF AgreeInv
  <2>2. CASE Unrecorded(q) /\ q \in In(d)
    <3>1. /\ file["A"][q] # 0 /\ file["A"][q] = file["B"][q] /\ file["A"][q] \notin dead
          /\ row["A"][q] = file["A"][q]
      BY <1>2, <2>2 DEF Unrecorded, FileOf, Fresh
    <3>2. row'["A"][q] = file["A"][q] /\ row'["B"][q] = file["A"][q]
      BY <1>5, <1>6, <1>7, <2>2, <3>1
    <3>3. /\ file'["A"][q] \notin dead'
          /\ \A x \in Side : file'[x][q] = file'["A"][q] /\ row'[x][q] = file'["A"][q]
      BY <1>3, <1>6, <3>1, <3>2
    <3> QED BY <3>3, AccountAgreed
  <2>3. CASE ~(Unrecorded(q) /\ q \in In(d)) /\ row'["B"][q] = row["B"][q]
    <3>1. \A x \in Side : row'[x][q] = row[x][q]
      BY <1>6, <1>7, <2>3
    <3>2. Unrecorded(q) => Due(q)'
      BY <1>4, <1>8, <2>3 DEF Unrecorded
    <3> QED BY <1>3, <1>4, <1>9, <2>1, <3>1, <3>2, AccountMoves
  <2>4. CASE ~(Unrecorded(q) /\ q \in In(d)) /\ row'["B"][q] # row["B"][q]
    <3>1. /\ q \in In(d) /\ file["B"][q] # 0 /\ row'["B"][q] = file["B"][q]
          /\ row["B"][q] # file["B"][q] /\ row'["A"][q] = row["A"][q]
      BY <1>5, <1>6, <1>7, <2>4
    <3>2. file["A"][q] \in {0, file["B"][q]} \/ file["B"][q] \in {0, file["A"][q]}
      BY <1>1, <1>6, <3>1 DEF VersionInv, Copied
    <3>3. ~Agreed(q) /\ ~Rivals(q) /\ ~Leads("A", q) /\ ~HalfKnown("A", q) /\ ~HalfKnown("B", q)
      BY <1>6, <3>1, <3>2 DEF Agreed, Settled, Rivals, FileOf, Leads, HalfKnown
    <3>4. Leads("B", q)
      BY <1>6, <2>1, <2>4, <3>1, <3>3 DEF Accounted
    <3>5. /\ file["A"][q] = row["A"][q] /\ row["A"][q] = row["B"][q]
          /\ file["A"][q] # file["B"][q] /\ Fresh("B", q) /\ Told("B", q)
      BY <1>6, <3>4 DEF Leads, Settled
    <3>6. file["A"][q] = 0
      BY <3>1, <3>2, <3>5
    <3>7. HalfKnown("B", q)'
      BY <1>3, <1>4, <1>6, <1>9, <3>1, <3>5, <3>6 DEF HalfKnown, FileOf
    <3> QED BY <1>6, <3>7 DEF Accounted
  <2> QED BY <2>2, <2>3, <2>4
<1>11. Placed'
  <2>1. \A x \in Side, q \in Files : row'[x][q] # 0 => q[1] \in has[x]
    BY <1>7, InvFacts DEF AgreeInv, Placed
  <2> QED BY <1>3, <1>4, <2>1 DEF Placed
<1> QED BY <1>4, <1>10, <1>11 DEF AgreeInv

--------------------------------------------------------------------------------
LEMMA InitAgrees == TreeAssumption /\ Init => AgreeInv
<1> SUFFICES ASSUME TreeAssumption, Init PROVE AgreeInv
  OBVIOUS
<1>1. /\ \A s \in Side, p \in Files : file[s][p] = 0 /\ row[s][p] = 0
      /\ \A s \in Side : has[s] = {}
      /\ \A s \in Side, q \in Dirs \cup Files : slot[s][q] = "none"
      /\ sent = << >> /\ dead = {} /\ aside = {} /\ up
      /\ job.at = "idle" /\ job.echo = "none"
  BY DEF Init, NoFiles, Nothing, Idle
<1>2. JobReady /\ Origins /\ Silent
  BY <1>1 DEF JobReady, Origins, Silent, FileOf
<1>3. Placed
  BY <1>1, FilesAre DEF Placed, Coming, Heralded, Copying
<1>4. \A s \in Side, p \in Files : Rewritten(s, p)
  BY <1>1 DEF Rewritten, FileOf
<1>5. \A s \in Side, d \in Dirs : DirKnown(s, d)
  BY <1>1 DEF DirKnown
<1>6. \A p \in Files : Accounted(p)
  BY <1>1, Sides DEF Accounted, Agreed, Settled, Fresh
<1> QED BY <1>2, <1>3, <1>4, <1>5, <1>6 DEF AgreeInv

LEMMA StutterAgrees ==
    ASSUME TreeAssumption, Inv, VersionInv, AgreeInv, UNCHANGED vars
    PROVE  AgreeInv'
<1>1. UNCHANGED <<has, file, aside, row, slot, sent, job, resync, up, clock, dead>>
  BY DEF vars, disk, state, events, bounds
<1>2. JobReady' /\ Silent'
  BY <1>1 DEF AgreeInv, JobReady, Silent, FilesIn, FileOf, In
<1>3. \A x \in Side, p \in Files : Told(x, p) => Told(x, p)'
  BY <1>1 DEF Told, Due, Pending, Sent, FileOf, Coming, Heralded, Copying
<1>4. \A x \in Side, p \in Files : Leaving(x, p)' => Leaving(x, p)
  BY <1>1 DEF Leaving
<1>5. /\ \A x \in Side, d \in Dirs : Coming(x, d)' => Coming(x, d)
      /\ \A x \in Side, d \in Dirs : Coming(x, d) => Coming(x, d)'
  BY <1>1 DEF Coming, Heralded, Copying
<1>6. /\ \A p \in Dirs \cup Files : Due(p) => Due(p)'
      /\ \A p \in Files : InWork(p) => InWork(p)'
  <2>1. job' = job /\ up' = up /\ resync' = resync
    BY <1>1
  <2> QED BY <2>1 DEF Due, InWork, In
<1>7. Placed' /\ Origins' /\ \A p \in Files : Accounted(p)'
  <2>1. \A q \in Files : Due(q) \/ InWork(q) => Due(q)' \/ InWork(q)'
    BY <1>6
  <2> QED BY <1>1, <1>3, <1>4, <1>5, <2>1, OnlyTheJob
<1>8. \A s \in Side, p \in Files : Rewritten(s, p)'
  BY <1>1 DEF AgreeInv, Rewritten, FileOf
<1>9. \A s \in Side, d \in Dirs : DirKnown(s, d)'
  <2>1. \A s \in Side, d \in Dirs : DirKnown(s, d)
    BY DEF AgreeInv
  <2> QED BY <1>1, <1>5, <1>6, <2>1 DEF DirKnown
<1> QED BY <1>2, <1>7, <1>8, <1>9 DEF AgreeInv

LEMMA AgreeStep ==
    ASSUME TreeAssumption, Unhurried, Inv, VersionInv, DirsStay, AgreeInv, [Next]_vars
    PROVE  AgreeInv'
<1>1. CASE UNCHANGED vars
  BY <1>1, StutterAgrees
<1>2. CASE UserStep
  <2>1. PICK s \in Side : \/ \E d \in Dirs : MakeDir(s, d)
                          \/ \E p \in Files : Write(s, p) \/ Delete(s, p)
    BY <1>2, NoOtherUsers DEF UserStep
  <2> QED BY <2>1, MakeDirAgrees, WriteAgrees, DeleteAgrees DEF Unhurried
<1>3. CASE Daemon \/ Crash
  <2>1. CASE Process
    <3>1. ~ProcessDirGone /\ ~ProcessMove
      BY <2>1, ProcessDirs
    <3> QED BY <2>1, <3>1, ProcessFileAgrees, ProcessFileGoneAgrees, ProcessDirAgrees DEF Process
  <2>2. CASE Operate
    <3>1. ~(Inspect \/ MoveAside \/ RmTree \/ Unrecord \/ MoveDir \/ Renote)
      BY <2>2, OperateDirs
    <3> QED BY <2>2, <3>1, MkdirAgrees, CopyOneAgrees, CopyDoneAgrees, NoteAgrees, WalkAAgrees,
               WalkBAgrees DEF Operate
  <2>3. CASE Reconcile
    BY <2>3, RestartAgrees, ScanAgrees, ReconcileDirAgrees, OneDirAgrees,
       ReconcileOneFileAgrees, ReconcileFileAgrees DEF Reconcile
  <2>4. CASE Boot \/ Crash
    BY <2>4, RestartAgrees
  <2> QED BY <1>3, <2>1, <2>2, <2>3, <2>4 DEF Daemon
<1>4. CASE \E s \in Side, p \in Dirs \cup Files : TimerFires(s, p)
  BY <1>4, TimerAgrees
<1> QED BY <1>1, <1>2, <1>3, <1>4 DEF Next

\* At rest nothing is announced and nothing is due: all that is left is agreement.
LEMMA AtRest ==
    ASSUME TreeAssumption, Inv, AgreeInv, Quiet
    PROVE  /\ \A p \in Files : Agreed(p)
           /\ \A s \in Side : has[s] \subseteq has[Other(s)]
<1>1. /\ up /\ ~resync /\ sent = << >> /\ job.at = "idle" /\ job.plan = {} /\ job.echo = "none"
      /\ \A s \in Side, q \in Dirs \cup Files : slot[s][q] = "none"
  BY Resting DEF Quiet
<1>2. /\ \A q \in Dirs \cup Files : ~Due(q)
      /\ \A s \in Side, d \in Dirs : ~Coming(s, d)
  BY <1>1 DEF Due, Coming, Heralded, Copying
<1>3. ASSUME NEW p \in Files PROVE Agreed(p)
  <2>1. Accounted(p) /\ p[1] \in Dirs
    BY FilesAre DEF AgreeInv
  <2>2. \A s \in Side : ~Told(s, p)
    BY <1>1, <1>2, <2>1 DEF Told, Pending, Sent
  <2>3. ~Unrecorded(p)
    BY <1>1, <1>2 DEF Unrecorded, InWork
  <2> QED BY <2>1, <2>2, <2>3, Sides DEF Accounted, Rivals, Leads, HalfKnown
<1>4. \A s \in Side : has[s] \subseteq has[Other(s)]
  BY <1>2 DEF AgreeInv, DirKnown, Inv, DiskOK
<1> QED BY <1>3, <1>4

LEMMA RestAgrees == TreeAssumption /\ Inv /\ AgreeInv => Converged /\ StaysDead
<1> SUFFICES ASSUME TreeAssumption, Inv, AgreeInv, Quiet
             PROVE  /\ has["A"] = has["B"] /\ file["A"] = file["B"] /\ row = file
                    /\ \A s \in Side, p \in Files : file[s][p] \notin dead
  BY DEF Converged, StaysDead
<1>1. /\ \A p \in Files : Settled("A", p) /\ Settled("B", p) /\ Fresh("A", p)
      /\ \A s \in Side : has[s] \subseteq has[Other(s)]
  BY AtRest DEF Agreed
<1>2. \A p \in Files : /\ file["A"][p] = file["B"][p] /\ file["A"][p] \notin dead
                       /\ row["A"][p] = file["A"][p] /\ row["B"][p] = file["B"][p]
  BY <1>1 DEF Settled, Fresh
<1>3. /\ file \in [Side -> [Files -> Version]] /\ row \in [Side -> [Files -> Version]]
  BY DEF Inv, DiskOK, RowsOK
<1>4. file["A"] = file["B"]
  BY <1>2, <1>3, Sides
<1>5. row["A"] = file["A"] /\ row["B"] = file["B"]
  BY <1>2, <1>3, Sides
<1>6. row = file
  BY <1>3, <1>5, Sides
<1>7. has["A"] = has["B"]
  BY <1>1, Sides DEF Other
<1> QED BY <1>2, <1>4, <1>6, <1>7, Sides

LEMMA Agrees == ASSUME Unhurried PROVE Spec => [](Inv /\ AgreeInv)
<1> USE TreeAssumption
<1>1. Init => Inv /\ VersionInv /\ DirsStay /\ AgreeInv
  BY InitTypes, InitKeeps, InitAgrees
<1>2. Inv /\ VersionInv /\ DirsStay /\ AgreeInv /\ [Next]_vars
          => Inv' /\ VersionInv' /\ DirsStay' /\ AgreeInv'
  BY TypeStep, VersionStep, AgreeStep
<1> QED BY <1>1, <1>2, PTL DEF Spec

\* Once everything is handled, whatever the order of timers, events, copies, full
\* resyncs and crashes, both sides hold the same directories and files, and the state
\* db describes them: a path can only disagree while something on its way is about it.
THEOREM KeepsConverged == ASSUME Unhurried PROVE Spec => []Converged
<1> USE TreeAssumption
<1>1. Inv /\ AgreeInv => Converged
  BY RestAgrees
<1> QED BY <1>1, Agrees, PTL

\* Nor does a version that a user replaced or deleted come back: the only files that
\* ever hold one are those an event or a reconciliation is still going to overwrite.
THEOREM KeepsDead == ASSUME Unhurried PROVE Spec => []StaysDead
<1> USE TreeAssumption
<1>1. Inv /\ AgreeInv => StaysDead
  BY RestAgrees
<1> QED BY <1>1, Agrees, PTL
================================================================================
