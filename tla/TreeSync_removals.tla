--------------------------- MODULE TreeSync_removals ---------------------------
(* NothingLost when users also remove directories, for any number of directories, *)
(* names, versions and crashes.  Beside the invariant of TreeSync_versions, what  *)
(* is so while a deletion is on its way: the side that is to follow it has        *)
(* nothing to lose.                                                               *)
EXTENDS TreeSync_versions

--------------------------------------------------------------------------------
(* Users also remove directories, with all that is in them.  They do not hurry    *)
(* the engine (README, "Where the passing runs stop"), but windows may close in   *)
(* any order.                                                                     *)
Careful == /\ UserOps \subseteq {"write", "delete", "mkdir", "rmtree"}
           /\ Hurry \subseteq {"order"}

\* The deletion of d on s is on its way, at work, or what a reconciliation would conclude.
Gone(s, d) ==
    \/ Leaving(s, d)
    \/ job.at \in {"inspect", "aside"} /\ job.src = s /\ job.dir = d
    \/ d \in rowDir[s] \ has[s] /\ ~Erasing(d)

\* Then the other side has nothing to lose: what it has recorded is here too, or nobody
\* would miss it; what it has not recorded will be set aside; and what is here is newer.
Removable(s, p) ==
    /\ FileOf(Other(s), p) => row[Other(s)][p] \in {0, file[Other(s)][p]}
    /\ FileOf(Other(s), p) /\ row[Other(s)][p] = file[Other(s)][p] => Twin(Other(s), p)
    /\ CopySafe(s, p)
    /\ Leaving(Other(s), p) => Spare(s, p)
Expendable(s, d) == /\ \A p \in In(d) : Removable(s, p)
                    /\ kept[Other(s)][d] \subseteq dead \cup aside \cup kept[s][d]
Removals == \A s \in Side, d \in Dirs : Gone(s, d) => Expendable(s, d)

\* A deletion is pending only where nothing about the path is on its way, ...
Mailed(s, q) == \E i \in DOMAIN sent : sent[i].side = s /\ sent[i].path = q
Once == \A s \in Side, q \in Dirs \cup Files : slot[s][q] = "delete" => ~Mailed(s, q)

\* ... it is on its way before anything else about the path, and before news of the files
\* of the directory, ...
Before(e, f) == e.side = f.side => /\ e.path = f.path => f.kind = "content"
                                   /\ e.kind = "content" /\ e.path \in Files /\ e.path[1] = f.path
                                      => f.kind # "delete"
InTurn == \A i, j \in DOMAIN sent : i < j => Before(sent[i], sent[j])

\* ... the directory is gone and there is no news of its files, ...
Vacated == \A s \in Side, d \in Dirs :
               slot[s][d] = "delete" => d \notin has[s] /\ \A p \in In(d) : ~Heralded(s, p)

\* ... and the other side has no news of the directory.
OneSided == \A s \in Side, d \in Dirs :
                Leaving(s, d) => ~Heralded(Other(s), d) /\ ~Leaving(Other(s), d)

EventInv == Once /\ InTurn /\ Vacated /\ OneSided /\ Silent

\* Nothing is deleted that the engine works on, ...
Undisturbed == job.at \in Working => \A s \in Side : ~Leaving(s, job.dir)

\* ... or anywhere while it reconciles, ...
CaughtUp == job.scope # {} => /\ job.at # "idle"
                              /\ \A s \in Side, q \in Dirs \cup Files : ~Leaving(s, q)

\* ... a directory being recorded is on both sides, ...
Recording == job.at \in {"walkA", "walkB"} => job.dir \in has["A"] \cap has["B"]

\* ... what is to be set aside are the files that are not as recorded, ...
Inspected == job.at = "aside" =>
                 /\ job.todo \subseteq In(job.dir)
                 /\ \A p \in In(job.dir) :
                        LET t == Other(job.src)
                        IN p \in job.todo <=> FileOf(t, p) /\ row[t][p] # file[t][p]

\* ... and a dead process does nothing.
Down == ~up => job.at = "idle"

JobInv == Undisturbed /\ CaughtUp /\ Recording /\ Inspected /\ Down

RemovalInv == EventInv /\ JobInv /\ Removals

--------------------------------------------------------------------------------
(* Events.                                                                        *)
InOrder == \A i, j \in DOMAIN sent' : i < j =>
               \E k, l \in DOMAIN sent : k < l /\ sent'[i] = sent[k] /\ sent'[j] = sent[l]

LEMMA MailInOrder ==
    ASSUME EventsOK,
           sent' \in {sent, << >>} \/ (sent # << >> /\ sent' = Tail(sent))
    PROVE  InOrder
<1>1. CASE sent' = sent
  BY <1>1 DEF InOrder
<1>2. CASE sent' = << >>
  BY <1>2 DEF InOrder
<1>3. CASE sent # << >> /\ sent' = Tail(sent)
  <2>1. sent \in Seq(Letters)
    BY DEF EventsOK
  <2>2. \A i \in DOMAIN sent' : i \in Nat /\ i + 1 \in DOMAIN sent /\ sent'[i] = sent[i + 1]
    BY <1>3, <2>1
  <2>3. ASSUME NEW i \in DOMAIN sent', NEW j \in DOMAIN sent', i < j
        PROVE  i + 1 < j + 1
    BY <2>2, <2>3
  <2> QED BY <2>2, <2>3 DEF InOrder
<1> QED BY <1>1, <1>2, <1>3

\* Events go, and directories are heard of that are new and not gone on the other side.
Fewer(x, q) == \/ slot'[x][q] \in {slot[x][q], "none"}
               \/ q \in Dirs /\ slot'[x][q] = "content" /\ ~Leaving(Other(x), q)

LEMMA FewerEvents ==
    ASSUME TreeAssumption, Inv, EventInv, NoNewMail, InOrder,
           \A x \in Side, q \in Dirs \cup Files : Fewer(x, q),
           \A x \in Side, d \in Dirs : slot'[x][d] = "delete" /\ d \in has'[x] => d \in has[x],
           ~up' => sent' = << >> /\ \A s \in Side, q \in Dirs \cup Files : slot'[s][q] = "none"
    PROVE  EventInv' /\ \A x \in Side, q \in Dirs \cup Files : Leaving(x, q)' => Leaving(x, q)
<1>1. \A x \in Side, q \in Dirs \cup Files : slot'[x][q] = "delete" => slot[x][q] = "delete"
  BY DEF Fewer
<1>2. \A x \in Side, q \in Dirs \cup Files : Leaving(x, q)' => Leaving(x, q)
  BY <1>1 DEF NoNewMail, Leaving
<1>3. Once'
  BY <1>1 DEF EventInv, Once, Mailed, NoNewMail
<1>4. InTurn'
  BY DEF EventInv, InTurn, InOrder
<1>5. ASSUME NEW x \in Side, NEW q \in Dirs \cup Files, Heralded(x, q)'
      PROVE  Heralded(x, q) \/ (q \in Dirs /\ ~Leaving(Other(x), q))
  BY <1>5 DEF Fewer, Heralded, NoNewMail
<1>6. Vacated'
  <2>1. ASSUME NEW x \in Side, NEW d \in Dirs, slot'[x][d] = "delete", NEW p \in In(d)
        PROVE  d \notin has'[x] /\ ~Heralded(x, p)'
    <3>1. d \notin has[x] /\ ~Heralded(x, p)
      BY <1>1, <2>1 DEF EventInv, Vacated
    <3>2. p \in Files /\ p \notin Dirs
      BY <2>1, FilesAre, InvFacts
    <3> QED BY <1>5, <2>1, <3>1, <3>2
  <2>2. ASSUME NEW x \in Side, NEW d \in Dirs, slot'[x][d] = "delete" PROVE d \notin has'[x]
    BY <1>1, <2>2 DEF EventInv, Vacated
  <2> QED BY <2>1, <2>2 DEF Vacated
<1>7. OneSided'
  <2>1. ASSUME NEW x \in Side, NEW d \in Dirs, Leaving(x, d)'
        PROVE  ~Heralded(Other(x), d)' /\ ~Leaving(Other(x), d)'
    <3>1. /\ Leaving(x, d) /\ Other(x) \in Side /\ Other(Other(x)) = x
          /\ ~Heralded(Other(x), d) /\ ~Leaving(Other(x), d)
      BY <1>2, <2>1, Sides DEF EventInv, OneSided
    <3> QED BY <1>2, <1>5, <3>1
  <2> QED BY <2>1 DEF OneSided
<1>8. Silent'
  BY DEF Silent
<1> QED BY <1>2, <1>3, <1>4, <1>6, <1>7, <1>8 DEF EventInv

LEMMA TimerEvents ==
    ASSUME TreeAssumption, Inv, EventInv, NEW s \in Side, NEW p \in Dirs \cup Files,
           TimerFires(s, p)
    PROVE  EventInv' /\ \A x \in Side, q \in Dirs \cup Files : Leaving(x, q)' => Leaving(x, q)
<1> DEFINE e == [side |-> s, kind |-> slot[s][p], path |-> p, from |-> NoDir]
           n == Len(sent) + 1
<1>1. /\ up /\ slot[s][p] # "none" /\ sent' = Append(sent, e) /\ Slot(s, {p}, "none")
      /\ has' = has /\ up' = up
  BY DEF TimerFires, disk
<1>2. \A x \in Side, q \in Dirs \cup Files :
          slot'[x][q] = IF x = s /\ q = p THEN "none" ELSE slot[x][q]
  BY <1>1, SlotEffect DEF Inv, EventsOK
<1>3. slot[s][p] \in {"content", "delete"}
  BY <1>1 DEF Inv, EventsOK, Slots
<1>4. e.side = s /\ e.kind = slot[s][p] /\ e.path = p
  OBVIOUS
<1>5. /\ DOMAIN sent' = DOMAIN sent \cup {n} /\ sent'[n] = e
      /\ \A i \in DOMAIN sent : i < n /\ sent'[i] = sent[i]
      /\ \A i, j \in DOMAIN sent' : i < j => i \in DOMAIN sent
  <2>1. sent \in Seq(Letters)
    BY DEF Inv, EventsOK
  <2> HIDE DEF e
  <2>2. /\ DOMAIN sent' = 1..n /\ DOMAIN sent = 1..Len(sent) /\ Len(sent) \in Nat
        /\ sent'[n] = e /\ \A i \in DOMAIN sent : sent'[i] = sent[i]
    BY <1>1, <2>1
  <2> QED BY <2>2
<1> HIDE DEF e, n
<1>6. \A x \in Side, q \in Dirs \cup Files : Leaving(x, q)' => Leaving(x, q)
  BY <1>2, <1>4, <1>5 DEF Leaving
<1>7. \A x \in Side, q \in Dirs \cup Files : Heralded(x, q)' => Heralded(x, q)
  BY <1>2, <1>4, <1>5 DEF Heralded
<1>8. Once'
  <2>1. ASSUME NEW x \in Side, NEW q \in Dirs \cup Files, slot'[x][q] = "delete",
               NEW i \in DOMAIN sent', sent'[i].side = x, sent'[i].path = q
        PROVE  FALSE
    <3>1. ~(x = s /\ q = p) /\ slot[x][q] = "delete"
      BY <1>2, <2>1
    <3>2. i \in DOMAIN sent /\ sent'[i] = sent[i]
      BY <1>4, <1>5, <2>1, <3>1
    <3> QED BY <2>1, <3>1, <3>2 DEF EventInv, Once, Mailed
  <2> QED BY <2>1 DEF Once, Mailed
<1>9. InTurn'
  <2>1. ASSUME NEW i \in DOMAIN sent', NEW j \in DOMAIN sent', i < j
        PROVE  Before(sent'[i], sent'[j])
    <3>1. i \in DOMAIN sent /\ sent'[i] = sent[i]
      BY <1>5, <2>1
    <3>2. CASE j \in DOMAIN sent
      BY <1>5, <2>1, <3>1, <3>2 DEF EventInv, InTurn
    <3>3. CASE j = n
      <4>1. CASE slot[s][p] = "content"
        BY <1>4, <1>5, <3>3, <4>1 DEF Before
      <4>2. CASE slot[s][p] = "delete"
        <5>1. ~(sent[i].side = s /\ sent[i].path = p)
          BY <3>1, <4>2 DEF EventInv, Once, Mailed
        <5>2. ASSUME sent[i].side = s, sent[i].kind = "content", sent[i].path \in Files,
                     sent[i].path[1] = p
              PROVE  FALSE
          <6>1. p \in Dirs /\ sent[i].path \in In(p)
            BY <5>2, FilesAre
          <6>2. ~Heralded(s, sent[i].path)
            BY <4>2, <6>1 DEF EventInv, Vacated
          <6> QED BY <3>1, <5>2, <6>2 DEF Heralded
        <5> QED BY <1>4, <1>5, <3>1, <3>3, <5>1, <5>2 DEF Before
      <4> QED BY <1>3, <4>1, <4>2
    <3> QED BY <1>5, <3>2, <3>3
  <2> QED BY <2>1 DEF InTurn
<1>10. Vacated'
  <2>1. ASSUME NEW x \in Side, NEW d \in Dirs, slot'[x][d] = "delete"
        PROVE  d \notin has'[x] /\ \A q \in In(d) : ~Heralded(x, q)'
    <3>1. d \notin has[x] /\ \A q \in In(d) : ~Heralded(x, q)
      BY <1>2, <2>1 DEF EventInv, Vacated
    <3> QED BY <1>1, <1>7, <3>1, FilesAre
  <2> QED BY <2>1 DEF Vacated
<1>11. OneSided'
  BY <1>6, <1>7, Sides DEF EventInv, OneSided
<1>12. Silent'
  BY <1>1 DEF Silent
<1> QED BY <1>6, <1>8, <1>9, <1>10, <1>11, <1>12 DEF EventInv

--------------------------------------------------------------------------------
(* Users and what they are heard doing.                                           *)
LEMMA NoHurry ==
    ASSUME Careful
    PROVE  /\ Apart /\ \A h \in Hurry : h = "order"
           /\ "stale" \notin Hurry /\ "late" \notin Hurry /\ "kept" \notin Hurry
           /\ "half" \notin Hurry /\ "torn" \notin Hurry /\ "behind" \notin Hurry
BY DEF Careful, Apart

LEMMA UserTells ==
    ASSUME TreeAssumption, Careful, Inv, EventInv, NEW s \in Side, NEW d, NEW P, NEW k,
           Free(d), Tell(s, d, P, k)
    PROVE  \A x \in Side, q \in Dirs \cup Files :
               slot'[x][q] = IF up /\ x = s /\ q \in P THEN k ELSE slot[x][q]
<1>1. ~Guarded(s, d)
  BY NoHurry DEF Apart, Free, Busy, Guarded
<1>2. CASE up
  <2>1. Slot(s, P, k)
    BY <1>1, <1>2 DEF Tell, Heard
  <2> QED BY <1>2, <2>1, SlotEffect DEF Inv, EventsOK
<1>3. CASE ~up
  BY <1>3 DEF Tell, Heard
<1> QED BY <1>2, <1>3

LEMMA MakeDirEvents ==
    ASSUME TreeAssumption, Careful, Inv, EventInv, NEW s \in Side, NEW d \in Dirs, MakeDir(s, d)
    PROVE  EventInv' /\ \A x \in Side, q \in Dirs \cup Files : Leaving(x, q)' => Leaving(x, q)
<1>1. /\ May(s, d) /\ has' = [has EXCEPT ![s] = @ \cup {d}] /\ Tell(s, d, {d}, "content")
      /\ UNCHANGED <<sent, up>>
  BY DEF MakeDir
<1>2. \A x \in Side, q \in Dirs \cup Files :
          slot'[x][q] = IF up /\ x = s /\ q = d THEN "content" ELSE slot[x][q]
  BY <1>1, UserTells DEF May
<1>3. ~Leaving(Other(s), d)
  <2>1. ~Pending(Other(s), d)
    BY <1>1, NoHurry DEF May, Apart, Clean
  <2> QED BY <2>1 DEF Pending, Leaving, Sent
<1>4. NoNewMail /\ InOrder
  BY <1>1, Mail, MailInOrder DEF Inv
<1>5. \A x \in Side, q \in Dirs \cup Files : Fewer(x, q)
  BY <1>2, <1>3 DEF Fewer
<1>6. \A x \in Side, e \in Dirs : slot'[x][e] = "delete" /\ e \in has'[x] => e \in has[x]
  <2>1. \A x \in Side, e \in Dirs : e \in has'[x] => e \in has[x] \/ (x = s /\ e = d)
    BY <1>1 DEF Inv, DiskOK
  <2>2. slot'[s][d] # "delete"
    BY <1>2 DEF EventInv, Silent
  <2> QED BY <2>1, <2>2
<1>7. ~up' => sent' = << >> /\ \A x \in Side, q \in Dirs \cup Files : slot'[x][q] = "none"
  BY <1>1, <1>2 DEF EventInv, Silent
<1> QED BY <1>4, <1>5, <1>6, <1>7, FewerEvents

LEMMA FileEvents ==
    ASSUME TreeAssumption, Careful, Inv, EventInv, NEW s \in Side, NEW p \in Files,
           NEW k \in {"content", "delete"}, p[1] \in has[s], Free(p[1]), Tell(s, p[1], {p}, k),
           k = "delete" => ~Sent(s, p), UNCHANGED <<has, sent, up>>
    PROVE  /\ EventInv'
           /\ \A x \in Side, q \in Dirs \cup Files :
                  Leaving(x, q)' => Leaving(x, q) \/ (k = "delete" /\ x = s /\ q = p)
<1>1. \A x \in Side, q \in Dirs \cup Files :
          slot'[x][q] = IF up /\ x = s /\ q = p THEN k ELSE slot[x][q]
  BY UserTells
<1>2. p \notin Dirs /\ \A d \in Dirs : p \in In(d) => p[1] = d
  BY InvFacts, FilesAre
<1>3. \A x \in Side, q \in Dirs \cup Files :
          Leaving(x, q)' => Leaving(x, q) \/ (k = "delete" /\ x = s /\ q = p)
  BY <1>1 DEF Leaving
<1>4. \A x \in Side, q \in Dirs \cup Files :
          Heralded(x, q)' => Heralded(x, q) \/ (x = s /\ q = p)
  BY <1>1 DEF Heralded
<1>5. Once'
  BY <1>1 DEF EventInv, Once, Mailed, Sent
<1>6. InTurn'
  BY DEF EventInv, InTurn
<1>7. Vacated'
  <2>1. ASSUME NEW x \in Side, NEW d \in Dirs, slot'[x][d] = "delete"
        PROVE  d \notin has'[x] /\ \A q \in In(d) : ~Heralded(x, q)'
    <3>1. d \notin has[x] /\ \A q \in In(d) : ~Heralded(x, q)
      BY <1>1, <1>2, <2>1 DEF EventInv, Vacated
    <3>2. \A q \in In(d) : q \in Files /\ ~(x = s /\ q = p)
      BY <1>2, <3>1, FilesAre
    <3> QED BY <1>4, <3>1, <3>2
  <2> QED BY <2>1 DEF Vacated
<1>8. OneSided'
  BY <1>2, <1>3, <1>4, Sides DEF EventInv, OneSided
<1>9. Silent'
  BY <1>1 DEF EventInv, Silent
<1> QED BY <1>3, <1>5, <1>6, <1>7, <1>8, <1>9 DEF EventInv

LEMMA RemoveTreeEvents ==
    ASSUME TreeAssumption, Careful, Inv, EventInv, NEW s \in Side, NEW d \in Dirs,
           RemoveTree(s, d)
    PROVE  /\ EventInv'
           /\ \A x \in Side, q \in Dirs \cup Files :
                  Leaving(x, q)' => Leaving(x, q) \/ (x = s /\ q \in FilesIn(s, d) \cup {d})
<1> DEFINE P == FilesIn(s, d) \cup {d}
           o == Other(s)
<1>1. /\ MayRemove(s, d) /\ MayGo(s, d, In(d) \cup {d}) /\ has' = [has EXCEPT ![s] = @ \ {d}]
      /\ Tell(s, d, P, "delete") /\ UNCHANGED <<sent, up>>
  BY DEF RemoveTree
<1>2. /\ \A p \in In(d) \cup {d} : ~Sent(s, p)
      /\ \A p \in In(d) : ~Ghost(s, p)
      /\ ~Pending(o, d) /\ Free(d)
  BY <1>1, NoHurry DEF MayGo, MayRemove, Apart
<1>3. P \subseteq Dirs \cup Files /\ P \subseteq In(d) \cup {d} /\ o \in Side /\ o # s
  BY FilesAre, Sides DEF FilesIn
<1>4. \A q \in Dirs : q \in P <=> q = d
  <2>1. \A q \in FilesIn(s, d) : q \notin Dirs
    BY FilesAre, InvFacts DEF FilesIn
  <2> QED BY <2>1
<1> HIDE DEF P, o
<1>5. \A x \in Side, q \in Dirs \cup Files :
          slot'[x][q] = IF up /\ x = s /\ q \in P THEN "delete" ELSE slot[x][q]
  BY <1>1, <1>2, UserTells
<1>6. \A x \in Side, q \in Dirs \cup Files : Leaving(x, q)' => Leaving(x, q) \/ (x = s /\ q \in P)
  BY <1>1, <1>5 DEF Leaving
<1>7. \A x \in Side, q \in Dirs \cup Files :
          Heralded(x, q)' => /\ Heralded(x, q)
                             /\ ~(x = s /\ q \in P /\ slot[x][q] = "content" /\ ~Sent(s, q))
  BY <1>1, <1>5 DEF Heralded, Sent, EventInv, Silent
<1>8. Once'
  BY <1>1, <1>2, <1>3, <1>5 DEF EventInv, Once, Mailed, Sent
<1>9. InTurn'
  BY <1>1 DEF EventInv, InTurn
<1>10. \A x \in Side : has'[x] \subseteq has[x] /\ d \notin has'[s]
  BY <1>1 DEF Inv, DiskOK
<1>11. Vacated'
  <2>1. ASSUME NEW x \in Side, NEW e \in Dirs, slot'[x][e] = "delete"
        PROVE  e \notin has'[x] /\ \A q \in In(e) : ~Heralded(x, q)'
    <3>1. CASE slot[x][e] = "delete"
      <4>1. e \notin has[x] /\ \A q \in In(e) : ~Heralded(x, q)
        BY <2>1, <3>1 DEF EventInv, Vacated
      <4> QED BY <1>7, <1>10, <4>1, FilesAre
    <3>2. CASE slot[x][e] # "delete"
      <4>1. x = s /\ e = d /\ up
        BY <1>4, <1>5, <2>1, <3>2
      <4>2. ASSUME NEW q \in In(d) PROVE ~Heralded(s, q)'
        <5>1. q \in Files /\ ~Sent(s, q) /\ ~Ghost(s, q)
          BY <1>2, FilesAre
        <5>2. CASE q \in P
          <6>1. slot'[s][q] = "delete"
            BY <1>5, <4>1, <5>1, <5>2
          <6> QED BY <1>1, <5>1, <6>1 DEF Heralded, Sent
        <5>3. CASE q \notin P
          <6>1. ~FileOf(s, q)
            BY <5>3 DEF P, FilesIn
          <6>2. slot'[s][q] = slot[s][q] /\ slot[s][q] # "content"
            BY <1>5, <5>1, <5>3, <6>1 DEF Ghost
          <6> QED BY <1>1, <5>1, <6>2 DEF Heralded, Sent
        <5> QED BY <5>2, <5>3
      <4> QED BY <1>10, <4>1, <4>2
    <3> QED BY <3>1, <3>2
  <2> QED BY <2>1 DEF Vacated
<1>12. OneSided'
  <2>1. ~Heralded(o, d) /\ ~Leaving(o, d)
    BY <1>2 DEF Heralded, Leaving, Pending, Sent
  <2>2. ASSUME NEW x \in Side, NEW e \in Dirs, Leaving(x, e)'
        PROVE  ~Heralded(Other(x), e)' /\ ~Leaving(Other(x), e)'
    <3>1. CASE e = d
      <4>1. x = s
        BY <1>4, <1>6, <2>1, <2>2, <3>1, Sides DEF o
      <4> QED BY <1>3, <1>6, <1>7, <2>1, <3>1, <4>1 DEF o
    <3>2. CASE e # d
      <4>1. Leaving(x, e) /\ Other(x) \in Side
        BY <1>4, <1>6, <2>2, <3>2, Sides
      <4>2. ~Heralded(Other(x), e) /\ ~Leaving(Other(x), e)
        BY <4>1 DEF EventInv, OneSided
      <4> QED BY <1>4, <1>6, <1>7, <3>2, <4>1, <4>2
    <3> QED BY <3>1, <3>2
  <2> QED BY <2>2 DEF OneSided
<1>13. Silent'
  BY <1>1, <1>5 DEF EventInv, Silent
<1> QED BY <1>6, <1>8, <1>9, <1>11, <1>12, <1>13 DEF EventInv, P

--------------------------------------------------------------------------------
(* What stays from a step to the next.                                            *)
LEMMA CalmEvents ==
    ASSUME TreeAssumption, Inv, EventInv, slot' = slot, up' = up,
           sent' = sent \/ (up /\ sent # << >> /\ sent' = Tail(sent)),
           \A x \in Side, d \in Dirs : slot[x][d] = "delete" /\ d \in has'[x] => d \in has[x]
    PROVE  EventInv' /\ \A x \in Side, q \in Dirs \cup Files : Leaving(x, q)' => Leaving(x, q)
<1>1. NoNewMail /\ InOrder
  BY Mail, MailInOrder DEF Inv
<1>2. \A x \in Side, q \in Dirs \cup Files : Fewer(x, q)
  BY DEF Fewer
<1>3. ~up' => sent' = << >> /\ \A x \in Side, q \in Dirs \cup Files : slot'[x][q] = "none"
  BY DEF EventInv, Silent
<1> QED BY <1>1, <1>2, <1>3, FewerEvents

\* An operation goes on, or begins where nothing is deleted.
LEMMA JobRemains ==
    ASSUME JobInv, up', job'.at \notin {"walkA", "walkB", "aside"},
           \A x \in Side, q \in Dirs \cup Files : Leaving(x, q)' => Leaving(x, q),
           JobOK',
           job'.at \in Working => \/ job.at \in Working /\ job'.dir = job.dir
                                  \/ \A d \in Dirs : job'.dir = d =>
                                         \A x \in Side : ~Leaving(x, d)',
           job'.scope # {} => job.scope # {} /\ job'.at # "idle"
    PROVE  JobInv'
<1>1. Undisturbed'
  <2>1. ASSUME job'.at \in Working, NEW x \in Side, NEW d \in Dirs, job'.dir = d
        PROVE  ~Leaving(x, d)'
    BY <2>1 DEF JobInv, Undisturbed
  <2> QED BY <2>1 DEF Undisturbed, Leaving, JobOK
<1>2. CaughtUp'
  BY DEF JobInv, CaughtUp
<1> QED BY <1>1, <1>2 DEF JobInv, Recording, Inspected, Down

\* It is over.
LEMMA EndedScope ==
    /\ Ended.at \in {"idle", "next"}
    /\ Ended.scope # {} => job.scope # {} /\ Ended.at # "idle"
<1>1. CASE job.scope = {}
  BY <1>1 DEF Ended, Idle
<1>2. CASE job.scope # {}
  <2>1. Ended = [Idle EXCEPT !.at = "next", !.scope = job.scope, !.inv = job.inv,
                             !.plan = job.plan]
    BY <1>2 DEF Ended
  <2> QED BY <1>2, <2>1 DEF Idle
<1> QED BY <1>1, <1>2

LEMMA JobEnds ==
    ASSUME JobInv, up', job' = Ended,
           \A x \in Side, q \in Dirs \cup Files : Leaving(x, q)' => Leaving(x, q)
    PROVE  JobInv'
<1>1. /\ job'.at \in {"idle", "next"}
      /\ job'.scope # {} => job.scope # {} /\ job'.at # "idle"
  BY EndedScope
<1>2. CaughtUp'
  BY <1>1 DEF JobInv, CaughtUp
<1> QED BY <1>1, <1>2 DEF JobInv, Undisturbed, Recording, Inspected, Down, Working

LEMMA RemovableStays ==
    ASSUME NEW s \in Side, NEW p \in Files, Removable(s, p), dead \subseteq dead',
           aside \subseteq aside',
           \A x \in Side : file'[x][p] = file[x][p] /\ row'[x][p] = row[x][p],
           Leaving(Other(s), p)' => Leaving(Other(s), p)
    PROVE  Removable(s, p)'
<1>1. Other(s) \in Side /\ Other(Other(s)) = s
  BY Sides
<1>2. \A x \in Side : (Spare(x, p) => Spare(x, p)') /\ (Twin(x, p) => Twin(x, p)')
  BY Sides DEF Spare, Twin
<1>3. \A x \in Side : FileOf(x, p)' <=> FileOf(x, p)
  BY DEF FileOf
<1> QED BY <1>1, <1>2, <1>3 DEF Removable, CopySafe

LEMMA RemovalsStay ==
    ASSUME Removals, NEW d, dead \subseteq dead', aside \subseteq aside',
           \A x \in Side, e \in Dirs : e # d => (Gone(x, e)' => Gone(x, e)),
           \A x \in Side, e \in Dirs : e # d => kept'[x][e] = kept[x][e],
           \A x \in Side, q \in Files : q[1] # d =>
               /\ file'[x][q] = file[x][q] /\ row'[x][q] = row[x][q]
               /\ Leaving(x, q)' => Leaving(x, q),
           \A x \in Side : d \in Dirs /\ Gone(x, d)' => Expendable(x, d)'
    PROVE  Removals'
<1> SUFFICES ASSUME NEW x \in Side, NEW e \in Dirs, Gone(x, e)' PROVE Expendable(x, e)'
  BY DEF Removals
<1>1. CASE e = d
  BY <1>1
<1>2. CASE e # d
  <2>1. Expendable(x, e) /\ Other(x) \in Side
    BY <1>2, Sides DEF Removals
  <2>2. ASSUME NEW q \in In(e) PROVE Removable(x, q)'
    <3>1. q \in Files /\ q[1] # d /\ Removable(x, q)
      BY <1>2, <2>1, FilesAre DEF Expendable
    <3> QED BY <2>1, <3>1, RemovableStays
  <2>3. kept'[x][e] = kept[x][e] /\ kept'[Other(x)][e] = kept[Other(x)][e]
    BY <1>2, <2>1
  <2> QED BY <2>1, <2>2, <2>3 DEF Expendable, In
<1> QED BY <1>1, <1>2

LEMMA GoneBefore ==
    ASSUME \A x \in Side, q \in Dirs \cup Files : Leaving(x, q)' => Leaving(x, q),
           job'.at \in {"inspect", "aside"} =>
               \/ /\ job.at \in {"inspect", "aside"}
                  /\ job'.src = job.src /\ job'.dir = job.dir
               \/ Gone(job'.src, job'.dir),
           \A x \in Side : rowDir'[x] \ has'[x] \subseteq rowDir[x] \ has[x],
           \A e \in Dirs : Erasing(e) => Erasing(e)'
    PROVE  \A x \in Side, e \in Dirs : Gone(x, e)' => Gone(x, e)
<1> SUFFICES ASSUME NEW x \in Side, NEW e \in Dirs, Gone(x, e)' PROVE Gone(x, e)
  OBVIOUS
<1>1. CASE Leaving(x, e)'
  BY <1>1 DEF Gone
<1>2. CASE job'.at \in {"inspect", "aside"} /\ job'.src = x /\ job'.dir = e
  BY <1>2 DEF Gone
<1>3. CASE e \in rowDir'[x] \ has'[x] /\ ~Erasing(e)'
  BY <1>3 DEF Gone
<1> QED BY <1>1, <1>2, <1>3 DEF Gone

\* Steps that change no file, no row of one, and no copy beside one.
LEMMA RemovalsQuiet ==
    ASSUME TreeAssumption, Removals, UNCHANGED <<file, kept, aside, row, dead>>,
           \A x \in Side, q \in Dirs \cup Files : Leaving(x, q)' => Leaving(x, q),
           job'.at \in {"inspect", "aside"} =>
               \/ /\ job.at \in {"inspect", "aside"}
                  /\ job'.src = job.src /\ job'.dir = job.dir
               \/ Gone(job'.src, job'.dir),
           \A x \in Side : rowDir'[x] \ has'[x] \subseteq rowDir[x] \ has[x],
           \A e \in Dirs : Erasing(e) => Erasing(e)'
    PROVE  Removals'
<1>1. \A x \in Side, e \in Dirs : Gone(x, e)' => Gone(x, e)
  BY GoneBefore
<1>2. NoDir \notin Dirs
  BY DEF TreeAssumption
<1> QED BY <1>1, <1>2, RemovalsStay
--------------------------------------------------------------------------------
(* Users, away from what the engine works on.                                     *)
LEMMA UserJob ==
    ASSUME TreeAssumption, Careful, Inv, JobInv, NEW d \in Dirs, Free(d),
           UNCHANGED <<job, up, row>>,
           \A x \in Side, q \in Dirs \cup Files :
               Leaving(x, q)' => Leaving(x, q) \/ q = d \/ q \in In(d),
           \A x \in Side, q \in Files : q[1] # d => file'[x][q] = file[x][q],
           \A x \in Side, e \in Dirs : e # d /\ e \in has[x] => e \in has'[x]
    PROVE  JobInv'
<1>1. job.scope = {} /\ (job.at = "idle" \/ d # job.dir)
  BY NoHurry DEF Apart, Free, Busy, JobInv, CaughtUp
<1>2. job.at \in Working => job.dir \in Dirs /\ job.at # "idle"
  BY DEF Inv, JobOK, Working
<1>3. \A q \in In(d) : q \notin Dirs
  BY FilesAre, InvFacts
<1>4. Undisturbed'
  BY <1>1, <1>2, <1>3 DEF JobInv, Undisturbed
<1>5. CaughtUp'
  BY <1>1 DEF CaughtUp
<1>6. Recording'
  <2>1. job.at \in {"walkA", "walkB"} => job.dir \in Dirs /\ job.dir # d
    BY <1>1, <1>2 DEF Working, At
  <2> QED BY <2>1, Sides DEF JobInv, Recording
<1>7. Inspected'
  <2>1. SUFFICES ASSUME job.at = "aside"
                 PROVE  \A p \in In(job.dir) : file'[Other(job.src)][p] = file[Other(job.src)][p]
    BY DEF JobInv, Inspected, In, FileOf
  <2>2. job.dir \in Dirs /\ job.dir # d /\ Other(job.src) \in Side
    BY <1>1, <1>2, <2>1, Sides DEF Working, At, Inv, JobOK, Job
  <2> QED BY <2>2, FilesAre
<1>8. Down'
  BY DEF JobInv, Down
<1> QED BY <1>4, <1>5, <1>6, <1>7, <1>8 DEF JobInv

LEMMA MakeDirRemoval ==
    ASSUME TreeAssumption, Careful, Inv, RemovalInv, NEW s \in Side, NEW d \in Dirs,
           MakeDir(s, d)
    PROVE  RemovalInv'
<1>1. /\ Free(d) /\ has' = [has EXCEPT ![s] = @ \cup {d}]
      /\ UNCHANGED <<file, kept, aside, rowDir, row, job, up, dead>>
  BY DEF MakeDir, May, state
<1>2. EventInv' /\ \A x \in Side, q \in Dirs \cup Files : Leaving(x, q)' => Leaving(x, q)
  BY MakeDirEvents DEF RemovalInv
<1>3. \A x \in Side : has[x] \subseteq has'[x]
  BY <1>1 DEF Inv, DiskOK
<1>4. JobInv'
  BY <1>1, <1>2, <1>3, UserJob DEF RemovalInv
<1>5. Removals'
  BY <1>1, <1>2, <1>3, RemovalsQuiet DEF RemovalInv, Erasing
<1> QED BY <1>2, <1>4, <1>5 DEF RemovalInv

\* A directory that a user may touch is not being removed by the engine.
LEMMA GoneWhileFree ==
    ASSUME TreeAssumption, Careful, Inv, JobInv, NEW x \in Side, NEW d \in Dirs, Free(d),
           Gone(x, d)
    PROVE  Leaving(x, d) \/ d \in rowDir[x] \ has[x]
<1>1. job.at = "idle" \/ d # job.dir
  BY NoHurry DEF Apart, Free, Busy, JobInv, CaughtUp
<1> QED BY <1>1 DEF Gone

\* What stays of the directories while a user changes files of one.
LEMMA FileRemovals ==
    ASSUME TreeAssumption, Careful, Inv, VersionInv, RemovalInv,
           NEW s \in Side, NEW p \in Files, UNCHANGED <<has, kept, aside, rowDir, row, job>>,
           dead \subseteq dead',
           \A x \in Side, q \in Files : q # p \/ x # s => file'[x][q] = file[x][q],
           \A x \in Side, q \in Dirs \cup Files : Leaving(x, q)' => Leaving(x, q) \/ q = p,
           \A x \in Side : Gone(x, p[1]) => Removable(x, p)'
    PROVE  Removals'
<1>1. p[1] \in Dirs /\ p \notin Dirs
  BY InvFacts
<1>2. \A x \in Side, e \in Dirs : Gone(x, e)' => Gone(x, e)
  <2>1. \A x \in Side, e \in Dirs : Leaving(x, e)' => Leaving(x, e)
    BY <1>1
  <2> QED BY <2>1 DEF Gone, Erasing
<1>3. ASSUME NEW x \in Side, Gone(x, p[1])' PROVE Expendable(x, p[1])'
  <2>1. Gone(x, p[1]) /\ Expendable(x, p[1])
    BY <1>1, <1>2, <1>3 DEF RemovalInv, Removals
  <2>2. ASSUME NEW q \in In(p[1]) PROVE Removable(x, q)'
    <3>1. CASE q = p
      BY <2>1, <3>1
    <3>2. CASE q # p
      <4>1. q \in Files /\ Removable(x, q) /\ Other(x) \in Side
        BY <1>1, <2>1, FilesAre, Sides DEF Expendable
      <4> QED BY <3>2, <4>1, RemovableStays
    <3> QED BY <3>1, <3>2
  <2> QED BY <2>1, <2>2 DEF Expendable, In
<1> QED BY <1>1, <1>2, <1>3, RemovalsStay DEF RemovalInv

LEMMA DeleteRemoval ==
    ASSUME TreeAssumption, Careful, Inv, VersionInv, RemovalInv,
           NEW s \in Side, NEW p \in Files, Delete(s, p)
    PROVE  RemovalInv'
<1> DEFINE o == Other(s)
           d == p[1]
<1>1. /\ file[s][p] # 0 /\ May(s, d) /\ MayGo(s, d, {p}) /\ file' = [file EXCEPT ![s][p] = 0]
      /\ dead' = dead \cup {file[s][p]} /\ Tell(s, d, {p}, "delete")
      /\ UNCHANGED <<has, kept, aside, rowDir, row, sent, job, up>>
  BY DEF Delete, state, FileOf
<1>2. /\ o \in Side /\ o # s /\ \A x \in Side : x \in {s, o}
      /\ d \in Dirs /\ p \in In(d) /\ d \in has[s] /\ Other(o) = s
  BY <1>1, Sides, FilesAre, InvFacts
<1>3. Free(d) /\ ~Sent(s, p) /\ Clean(o, d)
  BY <1>1, NoHurry DEF MayGo, May, Apart
<1>4. /\ EventInv'
      /\ \A x \in Side, q \in Dirs \cup Files :
             Leaving(x, q)' => Leaving(x, q) \/ (x = s /\ q = p)
  BY <1>1, <1>2, <1>3, FileEvents DEF RemovalInv
<1>5. /\ \A x \in Side, q \in Files : q # p \/ x # s => file'[x][q] = file[x][q]
      /\ file'[s][p] = 0
  BY <1>1 DEF Inv, DiskOK
<1>6. JobInv'
  <2>1. \A q \in Files : q[1] # d => q # p
    OBVIOUS
  <2> QED BY <1>1, <1>2, <1>3, <1>4, <1>5, <2>1, UserJob DEF RemovalInv
<1> HIDE DEF o, d
<1>7. ASSUME NEW x \in Side, Gone(x, d) PROVE Removable(x, p)'
  <2>1. ~Leaving(o, d) /\ ~Leaving(o, p)
    BY <1>2, <1>3 DEF Clean, Pending, Sent, Leaving
  <2>2. x = s
    <3>1. d \in rowDir[o] => d \in has[o]
      BY <1>2, <1>3 DEF Clean, Recorded
    <3> QED BY <1>2, <1>3, <1>7, <2>1, <3>1, GoneWhileFree DEF RemovalInv
  <2>3. Removable(s, p)
    BY <1>2, <1>7, <2>2 DEF RemovalInv, Removals, Expendable
  <2>4. file'[o][p] = file[o][p] /\ row' = row /\ file'[s][p] = 0
    BY <1>1, <1>2, <1>5
  <2>5. Twin(o, p) => Twin(o, p)'
    BY <1>1, <1>2, <2>4 DEF Twin, Spare
  <2>6. ~Leaving(o, p)'
    BY <1>2, <1>4, <2>1, FilesAre
  <2> QED BY <2>2, <2>3, <2>4, <2>5, <2>6 DEF Removable, CopySafe, FileOf, o
<1>8. Removals'
  BY <1>1, <1>4, <1>5, <1>7, FileRemovals DEF d
<1> QED BY <1>4, <1>6, <1>8 DEF RemovalInv

LEMMA WriteRemoval ==
    ASSUME TreeAssumption, Careful, Inv, VersionInv, RemovalInv,
           NEW s \in Side, NEW p \in Files, Write(s, p)
    PROVE  RemovalInv'
<1> DEFINE o == Other(s)
           d == p[1]
           n == clock + 1
<1>1. /\ MayWrite(s, p) /\ d \in has[s] /\ file' = [file EXCEPT ![s][p] = n]
      /\ dead' = dead \cup ({file[s][p]} \ {0}) /\ Tell(s, d, {p}, "content")
      /\ UNCHANGED <<has, kept, aside, rowDir, row, sent, job, up>>
  BY DEF Write, state
<1>2. /\ o \in Side /\ o # s /\ \A x \in Side : x \in {s, o}
      /\ d \in Dirs /\ p \in In(d) /\ Other(o) = s
  BY Sides, FilesAre, InvFacts
<1>3. Free(d)
  BY <1>1 DEF MayWrite, May
<1>4. /\ EventInv'
      /\ \A x \in Side, q \in Dirs \cup Files : Leaving(x, q)' => Leaving(x, q)
  BY <1>1, <1>2, <1>3, FileEvents DEF RemovalInv
<1>5. /\ \A x \in Side, q \in Files : q # p \/ x # s => file'[x][q] = file[x][q]
      /\ file'[s][p] = n
  <2> HIDE DEF n
  <2> QED BY <1>1 DEF Inv, DiskOK
<1>6. JobInv'
  <2>1. \A q \in Files : q[1] # d => q # p
    OBVIOUS
  <2> HIDE DEF n
  <2> QED BY <1>1, <1>2, <1>3, <1>4, <1>5, <2>1, UserJob DEF RemovalInv
<1>7. n # 0 /\ \A x \in Side : row[x][p] # n
  <2>1. ASSUME NEW x \in Side PROVE row[x][p] # n
    <3>1. row[x][p] <= clock /\ row[x][p] \in Nat /\ clock \in Nat
      BY InvFacts DEF VersionInv, Numbered
    <3> QED BY <3>1
  <2>2. clock \in Nat
    BY InvFacts
  <2> QED BY <2>1, <2>2
<1> HIDE DEF o, d, n
<1>8. ASSUME NEW x \in Side, Gone(x, d) PROVE Removable(x, p)'
  <2>1. Removable(x, p) /\ (Leaving(x, d) \/ d \in rowDir[x] \ has[x])
    BY <1>2, <1>3, <1>8, GoneWhileFree DEF RemovalInv, Removals, Expendable
  <2>2. file'[o][p] = file[o][p] /\ row' = row /\ file'[s][p] = n
    BY <1>1, <1>2, <1>5
  <2>3. \A y \in Side : Leaving(y, p)' => Leaving(y, p)
    BY <1>4
  <2>4. CASE May(s, d)
    <3>1. /\ file[o][p] \in dead \cup aside \cup {0, file[s][p]}
          /\ ~Leaving(o, p)
      BY <2>4, NoHurry, WriteBeside DEF o, d
    <3>2. Clean(o, d)
      BY <2>4, NoHurry DEF May, Apart, o
    <3>3. x = s
      <4>1. ~Leaving(o, d) /\ (d \in rowDir[o] => d \in has[o])
        BY <1>2, <3>2 DEF Clean, Recorded, Pending, Sent, Leaving
      <4> QED BY <1>2, <2>1, <4>1
    <3>4. Spare(o, p)'
      BY <1>1, <2>2, <3>1 DEF Spare
    <3>5. Twin(o, p)'
      BY <3>4 DEF Twin
    <3>6. ~Leaving(o, p)'
      BY <1>2, <2>3, <3>1
    <3>7. FileOf(o, p)' => row'[o][p] \in {0, file'[o][p]}
      BY <2>1, <2>2, <3>3 DEF Removable, FileOf, o
    <3> QED BY <3>3, <3>5, <3>6, <3>7 DEF Removable, CopySafe, o
  <2>5. CASE ~May(s, d)
    <3>1. /\ file[s][p] = 0 /\ row["A"][p] = 0 /\ row["B"][p] = 0 /\ ~Leaving(o, p)
          /\ Leaving(s, p) => file[o][p] \in dead \cup aside \cup {0}
      BY <1>1, <2>5, WriteNew DEF o, d
    <3>2. \A y \in Side : row[y][p] = 0
      BY <3>1, Sides
    <3>3. file[o][p] = 0
      <4>1. file[o][p] = 0 \/ \A y \in Side : ~Pending(y, d)
        BY <1>1, <2>5 DEF MayWrite, o, d
      <4>2. (\A y \in Side : ~Pending(y, d)) => d \notin has[x]
        BY <2>1 DEF Pending, Sent, Leaving
      <4>3. d \notin has[x] => x = o /\ file[o][p] = 0
        BY <1>1, <1>2, InvFacts DEF d
      <4> QED BY <4>1, <4>2, <4>3
    <3>4. CASE x = s
      <4>1. ~FileOf(o, p)' /\ Twin(o, p)' /\ ~Leaving(o, p)'
        BY <1>2, <2>2, <2>3, <3>1, <3>3 DEF FileOf, Twin, Spare
      <4> QED BY <3>4, <4>1 DEF Removable, CopySafe, o
    <3>5. CASE x = o
      <4>1. ~FileOf(o, p)' /\ Spare(o, p)'
        BY <2>2, <3>3 DEF FileOf, Spare
      <4> QED BY <1>2, <1>7, <2>2, <3>2, <3>5, <4>1 DEF Removable, CopySafe
    <3> QED BY <1>2, <3>4, <3>5
  <2> QED BY <2>4, <2>5
<1>9. Removals'
  BY <1>1, <1>4, <1>5, <1>8, FileRemovals DEF d
<1> QED BY <1>4, <1>6, <1>9 DEF RemovalInv
--------------------------------------------------------------------------------
(* A user removes a directory: the other side has of each file what is removed or *)
(* nothing that anybody would miss, or alone has a file that nobody recorded.     *)
LEMMA RemoveTreeEffect ==
    ASSUME TreeAssumption, Careful, Inv, VersionInv, RemovalInv, NEW s \in Side,
           NEW d \in Dirs, RemoveTree(s, d)
    PROVE  LET o == Other(s)
           IN /\ job.plan = {} /\ (job.at = "idle" \/ d # job.dir) /\ ~Erasing(d) /\ Free(d)
              /\ ~Pending(o, d) /\ (\A p \in In(d) : Whole(s, p)) /\ kept[o][d] \subseteq kept[s][d]
              /\ \A x \in Side, q \in Files :
                     file'[x][q] = IF x = s /\ q \in In(d) THEN 0 ELSE file[x][q]
              /\ \A x \in Side, e \in Dirs :
                     /\ e \in has'[x] <=> e \in has[x] /\ ~(x = s /\ e = d)
                     /\ kept'[x][e] = IF x = s /\ e = d THEN {} ELSE kept[x][e]
              /\ dead' = dead \cup VersionsIn(s, d)
              /\ \A p \in In(d) : file[s][p] \in dead' \cup {0}
              /\ UNCHANGED <<aside, rowDir, row, sent, job, up, clock>>
<1>1. /\ MayRemove(s, d) /\ has' = [has EXCEPT ![s] = @ \ {d}]
      /\ file' = [file EXCEPT ![s] = [p \in Files |-> IF p \in In(d) THEN 0 ELSE @[p]]]
      /\ kept' = [kept EXCEPT ![s][d] = {}] /\ dead' = dead \cup VersionsIn(s, d)
      /\ UNCHANGED <<aside, rowDir, row, sent, job, up, clock>>
  BY DEF RemoveTree, state
<1>2. /\ Free(d) /\ ~Pending(Other(s), d) /\ (\A p \in In(d) : Whole(s, p))
      /\ kept[Other(s)][d] \subseteq kept[s][d]
  BY <1>1, NoHurry DEF MayRemove, Kept, Apart
<1>3. job.plan = {} /\ (job.at = "idle" \/ d # job.dir) /\ ~Erasing(d)
  BY <1>2, NoHurry, LeftAlone DEF VersionInv
<1>4. \A x \in Side, q \in Files :
          file'[x][q] = IF x = s /\ q \in In(d) THEN 0 ELSE file[x][q]
  BY <1>1 DEF Inv, DiskOK
<1>5. \A x \in Side, e \in Dirs :
          /\ e \in has'[x] <=> e \in has[x] /\ ~(x = s /\ e = d)
          /\ kept'[x][e] = IF x = s /\ e = d THEN {} ELSE kept[x][e]
  BY <1>1 DEF Inv, DiskOK
<1>6. \A p \in In(d) : file[s][p] \in dead' \cup {0}
  BY <1>1 DEF VersionsIn, FilesIn, FileOf
<1> QED BY <1>1, <1>2, <1>3, <1>4, <1>5, <1>6

LEMMA RemovedPath ==
    ASSUME TreeAssumption, Careful, Inv, VersionInv, RemovalInv, NEW s \in Side,
           NEW d \in Dirs, RemoveTree(s, d), NEW p \in In(d)
    PROVE  /\ \/ file[Other(s)][p] \in dead' \cup aside \cup {0}
              \/ row["A"][p] = 0 /\ row["B"][p] = 0 /\ ~Leaving(s, p)'
           /\ row[Other(s)][p] \in {0, file[Other(s)][p]}
<1> DEFINE o == Other(s)
<1>1. /\ ~Erasing(d) /\ Whole(s, p) /\ dead' = dead \cup VersionsIn(s, d)
      /\ file[s][p] \in dead' \cup {0} /\ sent' = sent
  BY RemoveTreeEffect
<1>2. p \in Files /\ p[1] = d /\ o \in Side /\ Other(o) = s
  BY FilesAre, Sides
<1>3. Blame(s, p) /\ Blame(o, p) /\ Departure(s, p)
  BY <1>1, <1>2 DEF VersionInv, PathInv
<1>4. Twin(o, p) => file[o][p] \in dead' \cup aside \cup {0}
  <2> HIDE DEF o
  <2> QED BY <1>1, <1>2 DEF Twin, Spare
<1>5. CASE Settled(o, p)
  <2>1. file[o][p] = row[o][p] /\ row[o][p] = row[s][p]
    BY <1>2, <1>5, Sides DEF Settled
  <2>2. file[o][p] # 0 => Twin(o, p)
    BY <1>2, <1>3, <2>1 DEF Blame, Twin
  <2> QED BY <1>4, <2>1, <2>2
<1>6. CASE Unknown(p) /\ 0 \in {file["A"][p], file["B"][p]}
  <2>1. (file[s][p] = 0 \/ file[o][p] = 0) /\ row[o][p] = 0
    BY <1>2, <1>6, Sides DEF Unknown
  <2>2. CASE file[o][p] = 0
    BY <2>1, <2>2
  <2>3. CASE file[s][p] = 0
    <3>1. Leaving(s, p)' => Leaving(s, p)
      <4>1. p \notin FilesIn(s, d) \cup {d} /\ p \in Dirs \cup Files
        BY <1>2, <2>3, InvFacts DEF FilesIn, FileOf
      <4> QED BY <4>1, RemoveTreeEvents DEF RemovalInv
    <3>2. Leaving(s, p) => file[o][p] \in dead' \cup aside \cup {0}
      BY <1>3, <1>4 DEF Departure
    <3> QED BY <1>6, <2>1, <3>1, <3>2 DEF Unknown
  <2> QED BY <2>1, <2>2, <2>3
<1>7. Settled(o, p) \/ (Unknown(p) /\ 0 \in {file["A"][p], file["B"][p]})
  BY <1>1, NoHurry DEF Whole
<1> QED BY <1>5, <1>6, <1>7

\* A path that has gone from t with its directory, of which s has nothing that is only
\* there if it is being deleted.
LEMMA VacatedPath ==
    ASSUME NEW s \in Side, NEW p \in Files, file'[Other(s)][p] = 0,
           Leaving(Other(s), p)' => Spare(s, p)'
    PROVE  /\ Departure(s, p)' /\ Departure(Other(s), p)'
           /\ Arrival(s, p)' /\ Arrival(Other(s), p)'
<1>1. Other(s) \in Side /\ Other(Other(s)) = s
  BY Sides
<1>2. Spare(Other(s), p)' /\ Twin(Other(s), p)' /\ ~FileOf(Other(s), p)'
  BY DEF Spare, Twin, FileOf
<1>3. Departure(s, p)' /\ Arrival(s, p)'
  BY <1>2 DEF Departure, Arrival, CopySafe
<1>4. Departure(Other(s), p)' /\ Arrival(Other(s), p)'
  BY <1>1, <1>2 DEF Departure, Arrival, CopySafe, Twin
<1> QED BY <1>3, <1>4

LEMMA RemoveTreeKeeps ==
    ASSUME TreeAssumption, Careful, Inv, VersionInv, RemovalInv, NEW s \in Side,
           NEW d \in Dirs, RemoveTree(s, d)
    PROVE  VersionInv'
<1> DEFINE o == Other(s)
<1>1. /\ job.plan = {} /\ (job.at = "idle" \/ d # job.dir) /\ ~Erasing(d)
      /\ \A x \in Side, q \in Files :
             file'[x][q] = IF x = s /\ q \in In(d) THEN 0 ELSE file[x][q]
      /\ \A x \in Side, e \in Dirs :
             kept'[x][e] = IF x = s /\ e = d THEN {} ELSE kept[x][e]
      /\ dead' = dead \cup VersionsIn(s, d)
      /\ \A p \in In(d) : file[s][p] \in dead' \cup {0}
      /\ UNCHANGED <<aside, rowDir, row, sent, job, up, clock>>
  BY RemoveTreeEffect
<1>2. /\ o \in Side /\ o # s /\ \A x \in Side : x \in {s, o}
      /\ Other(o) = s
  BY Sides
<1>3. Planned' /\ Steady' /\ NoNewMail
  BY <1>1, UserFrame DEF VersionInv
<1>4. \A x \in Side, q \in Dirs \cup Files :
          Leaving(x, q)' => Leaving(x, q) \/ (x = s /\ q \in FilesIn(s, d) \cup {d})
  BY RemoveTreeEvents DEF RemovalInv
<1>5. \A x \in Side, e \in Dirs : Coming(x, e)' => Coming(x, e)
  <2>1. Tell(s, d, FilesIn(s, d) \cup {d}, "delete")
    BY DEF RemoveTree
  <2>2. \A x \in Side, e \in Dirs : slot'[x][e] \in {slot[x][e], "delete"}
    BY <2>1, TellEffect DEF Inv, EventsOK
  <2>3. \A x \in Side, e \in Dirs : Heralded(x, e)' => Heralded(x, e)
    BY <1>3, <2>2, NoMore DEF Heralded
  <2> QED BY <1>1, <2>3 DEF Coming, Copying
<1>6. ASSUME NEW p \in Files PROVE PathInv(p)'
  <2>1. CASE p \in In(d)
    <3>1. /\ \/ file[o][p] \in dead' \cup aside \cup {0}
             \/ row["A"][p] = 0 /\ row["B"][p] = 0 /\ ~Leaving(s, p)'
      BY <2>1, RemovedPath
    <3>2. file'[s][p] = 0 /\ file'[o][p] = file[o][p] /\ row' = row /\ aside' = aside
      BY <1>1, <1>2, <2>1
    <3> HIDE DEF o
    <3>3. Leaving(s, p)' => Spare(o, p)'
      BY <3>1, <3>2 DEF Spare
    <3>4. Departure(s, p)' /\ Departure(o, p)' /\ Arrival(s, p)' /\ Arrival(o, p)'
      BY <1>2, <3>2, <3>3, VacatedPath
    <3>5. Blame(s, p)'
      <4>1. row'[s][p] # 0 => Spare(o, p)'
        BY <3>1, <3>2, Sides DEF Spare
      <4> QED BY <3>2, <4>1 DEF Blame, o
    <3>6. Blame(o, p)'
      <4>1. Spare(s, p)' /\ file'[Other(o)][p] = 0
        BY <1>2, <3>2 DEF Spare
      <4> QED BY <1>2, <4>1 DEF Blame
    <3> QED BY <1>2, <3>4, <3>5, <3>6 DEF PathInv
  <2>2. CASE p \notin In(d)
    <3>1. p # d /\ p \notin FilesIn(s, d) /\ p[1] \in Dirs
      BY <2>2, InvFacts DEF FilesIn
    <3>2. \A x \in Side : Leaving(x, p)' => Leaving(x, p)
      BY <1>4, <3>1
    <3>3. Erasing(p[1]) => Erasing(p[1])'
      BY <1>1 DEF Erasing
    <3> QED BY <1>1, <1>5, <2>2, <3>1, <3>2, <3>3, PathStays DEF VersionInv
  <2> QED BY <2>1, <2>2
<1>7. Numbered'
  <2>1. 0 <= clock
    BY InvFacts
  <2> QED BY <1>1, <2>1 DEF VersionInv, Numbered
<1>8. Copied'
  <2>1. SUFFICES ASSUME job.at \in {"copy", "note", "walkA", "walkB"}, NEW q \in In(job.dir)
                 PROVE  \A x \in Side : file'[x][q] = file[x][q]
    <3>1. job.src \in Side /\ Other(job.src) \in Side
      BY Sides DEF Inv, JobOK, Job
    <3> QED BY <1>1, <2>1, <3>1 DEF VersionInv, Copied, In
  <2>2. job.dir \in Dirs /\ job.dir # d
    BY <1>1, <2>1 DEF Inv, JobOK, Working, At
  <2>3. q \in Files /\ q \notin In(d)
    BY <2>1, <2>2, FilesAre
  <2> QED BY <1>1, <2>3
<1>9. NothingLost'
  <2>1. \A x \in Side, q \in Files :
            file[x][q] \in dead' \cup aside' \cup {0} \/ \E y \in Side : file'[y][q] = file[x][q]
    BY <1>1
  <2>2. \A x \in Side, e \in Dirs :
            kept[x][e] \subseteq dead' \cup aside' \cup kept'[x][e] \cup kept'[Other(x)][e]
    BY <1>1 DEF VersionsIn
  <2> QED BY <1>1, <2>1, <2>2, StillThere DEF VersionInv
<1> QED BY <1>3, <1>6, <1>7, <1>8, <1>9 DEF VersionInv

LEMMA RemoveTreeRemoval ==
    ASSUME TreeAssumption, Careful, Inv, VersionInv, RemovalInv, NEW s \in Side,
           NEW d \in Dirs, RemoveTree(s, d)
    PROVE  RemovalInv'
<1> DEFINE o == Other(s)
<1>1. /\ Free(d) /\ ~Erasing(d) /\ ~Pending(o, d) /\ kept[o][d] \subseteq kept[s][d]
      /\ \A x \in Side, q \in Files :
             file'[x][q] = IF x = s /\ q \in In(d) THEN 0 ELSE file[x][q]
      /\ \A x \in Side, e \in Dirs :
             /\ e \in has'[x] <=> e \in has[x] /\ ~(x = s /\ e = d)
             /\ kept'[x][e] = IF x = s /\ e = d THEN {} ELSE kept[x][e]
      /\ dead' = dead \cup VersionsIn(s, d)
      /\ \A p \in In(d) : file[s][p] \in dead' \cup {0}
      /\ UNCHANGED <<aside, rowDir, row, sent, job, up, clock>>
  BY RemoveTreeEffect
<1>2. /\ o \in Side /\ o # s /\ \A x \in Side : x \in {s, o} /\ Other(o) = s
  BY Sides
<1>3. /\ EventInv'
      /\ \A x \in Side, q \in Dirs \cup Files :
             Leaving(x, q)' => Leaving(x, q) \/ (x = s /\ q \in FilesIn(s, d) \cup {d})
  BY RemoveTreeEvents DEF RemovalInv
<1>4. JobInv'
  <2>1. \A x \in Side, q \in Dirs \cup Files :
            Leaving(x, q)' => Leaving(x, q) \/ q = d \/ q \in In(d)
    BY <1>3 DEF FilesIn
  <2>2. \A q \in Files : q[1] # d => q \notin In(d)
    BY FilesAre
  <2> QED BY <1>1, <2>1, <2>2, UserJob DEF RemovalInv
<1> HIDE DEF o
<1>5. \A p \in In(d) : p \in Files /\ p \notin Dirs
  BY FilesAre, InvFacts
<1>6. ASSUME NEW x \in Side, NEW e \in Dirs, e # d, Gone(x, e)' PROVE Gone(x, e)
  <2>1. Leaving(x, e)' => Leaving(x, e)
    BY <1>3, <1>5, <1>6 DEF FilesIn
  <2>2. e \in rowDir'[x] \ has'[x] => e \in rowDir[x] \ has[x]
    BY <1>1, <1>6
  <2> QED BY <1>1, <1>6, <2>1, <2>2 DEF Gone, Erasing
<1>7. Expendable(s, d)'
  <2>1. ASSUME NEW p \in In(d) PROVE Removable(s, p)'
    <3>1. /\ \/ file[o][p] \in dead' \cup aside \cup {0}
             \/ row["A"][p] = 0 /\ row["B"][p] = 0
          /\ row[o][p] \in {0, file[o][p]}
      BY RemovedPath DEF o
    <3>2. /\ file'[s][p] = 0 /\ file'[o][p] = file[o][p] /\ row' = row /\ aside' = aside
      BY <1>1, <1>2, <1>5
    <3>3. FileOf(o, p)' /\ row'[o][p] = file'[o][p] => Twin(o, p)'
      BY <1>2, <3>1, <3>2, Sides DEF FileOf, Twin, Spare
    <3>4. ~FileOf(s, p)' /\ Spare(s, p)'
      BY <3>2 DEF FileOf, Spare
    <3> QED BY <3>1, <3>2, <3>3, <3>4 DEF Removable, CopySafe, o
  <2>2. kept'[o][d] \subseteq dead'
    BY <1>1, <1>2 DEF VersionsIn
  <2> QED BY <2>1, <2>2 DEF Expendable, In, o
<1>8. ASSUME Gone(o, d)' PROVE Expendable(o, d)'
  <2>1. ~Leaving(o, d)'
    <3>1. ~Leaving(o, d)
      BY <1>1 DEF Pending, Sent, Leaving
    <3> QED BY <1>2, <1>3, <3>1
  <2>2. d \in rowDir[o] \ has[o]
    <3>1. job.at = "idle" \/ d # job.dir
      BY RemoveTreeEffect
    <3> QED BY <1>1, <1>2, <1>8, <2>1, <3>1 DEF Gone
  <2>3. ASSUME NEW p \in In(d) PROVE Removable(o, p)'
    <3>1. file[o][p] = 0
      BY <1>2, <1>5, <2>2, <2>3, FilesAre, InvFacts
    <3>2. file'[s][p] = 0 /\ file'[o][p] = 0
      BY <1>1, <1>2, <1>5, <3>1
    <3> QED BY <1>2, <3>2 DEF Removable, CopySafe, FileOf, Spare
  <2>4. kept'[Other(o)][d] = {}
    BY <1>1, <1>2
  <2> QED BY <2>3, <2>4 DEF Expendable, In
<1>9. Removals'
  <2>1. \A x \in Side : Gone(x, d)' => Expendable(x, d)'
    BY <1>2, <1>7, <1>8
  <2>2. \A x \in Side, q \in Files : q[1] # d => /\ file'[x][q] = file[x][q]
                                                 /\ Leaving(x, q)' => Leaving(x, q)
    <3>1. \A q \in Files : q[1] # d => q \notin In(d) /\ q \notin FilesIn(s, d) \cup {d}
      BY FilesAre, InvFacts DEF FilesIn
    <3> QED BY <1>1, <1>3, <3>1
  <2> QED BY <1>1, <1>6, <2>1, <2>2, RemovalsStay DEF RemovalInv
<1> QED BY <1>3, <1>4, <1>9 DEF RemovalInv
--------------------------------------------------------------------------------
(* Timers, and the process as a whole.                                            *)
LEMMA TimerRemoval ==
    ASSUME TreeAssumption, Careful, Inv, RemovalInv, NEW s \in Side,
           NEW p \in Dirs \cup Files, TimerFires(s, p)
    PROVE  RemovalInv'
<1>1. up' = up /\ UNCHANGED <<has, file, kept, aside, rowDir, row, job, dead>>
  BY DEF TimerFires, disk, state, bounds
<1>2. EventInv' /\ \A x \in Side, q \in Dirs \cup Files : Leaving(x, q)' => Leaving(x, q)
  BY TimerEvents DEF RemovalInv
<1>3. Undisturbed' /\ CaughtUp'
  <2>1. job.at \in Working => job.dir \in Dirs
    BY DEF Inv, JobOK
  <2> QED BY <1>1, <1>2, <2>1 DEF RemovalInv, JobInv, Undisturbed, CaughtUp
<1>4. Recording' /\ Inspected' /\ Down'
  BY <1>1 DEF RemovalInv, JobInv, Recording, Inspected, Down, In, FileOf
<1>5. Removals'
  BY <1>1, <1>2, RemovalsQuiet DEF RemovalInv, Erasing
<1> QED BY <1>2, <1>3, <1>4, <1>5 DEF RemovalInv, JobInv

LEMMA Tearless ==
    ASSUME Careful, RemovalInv, Crash \/ Boot
    PROVE  job.at # "unrecord"
BY NoHurry DEF Crash, Boot, RemovalInv, JobInv, Down

LEMMA CrashRemoval ==
    ASSUME TreeAssumption, Careful, Inv, RemovalInv, Crash \/ Boot
    PROVE  RemovalInv'
<1>1. UNCHANGED <<has, file, kept, aside, rowDir, row, dead>>
  BY DEF Crash, Boot, disk, state, bounds
<1>2. /\ job'.at \in {"idle", "scan"} /\ (~up' => job'.at = "idle")
      /\ job'.scope # {} => job'.at = "scan" /\ ~up /\ UNCHANGED <<slot, sent>>
      /\ sent' \in {sent, << >>}
      /\ \A x \in Side, q \in Dirs \cup Files : slot'[x][q] \in {slot[x][q], "none"}
      /\ ~up' => sent' = << >> /\ \A x \in Side, q \in Dirs \cup Files : slot'[x][q] = "none"
  <2>2. CASE Crash
    BY <2>2, Resting DEF Crash
  <2>3. CASE Boot
    BY <2>3, Resting DEF Boot, events
  <2> QED BY <2>2, <2>3
<1>3. NoNewMail /\ InOrder
  BY <1>2, Mail, MailInOrder DEF Inv
<1>4. EventInv' /\ \A x \in Side, q \in Dirs \cup Files : Leaving(x, q)' => Leaving(x, q)
  <2>1. \A x \in Side, q \in Dirs \cup Files : Fewer(x, q)
    BY <1>2 DEF Fewer
  <2> QED BY <1>1, <1>2, <1>3, <2>1, FewerEvents DEF RemovalInv
<1>5. CaughtUp'
  <2>1. ~up => \A x \in Side, q \in Dirs \cup Files : ~Leaving(x, q)
    BY DEF RemovalInv, EventInv, Silent, Leaving
  <2> QED BY <1>2, <1>4, <2>1 DEF CaughtUp
<1>6. JobInv'
  BY <1>2, <1>5 DEF JobInv, Undisturbed, Recording, Inspected, Down, Working
<1>7. Removals'
  BY <1>1, <1>2, <1>4, Tearless, RemovalsQuiet DEF RemovalInv, Erasing
<1> QED BY <1>4, <1>6, <1>7 DEF RemovalInv

--------------------------------------------------------------------------------
(* A file is propagated, or removed: nothing is deleted of what it is in.         *)
LEMMA PropagateRemovals ==
    ASSUME TreeAssumption, Inv, VersionInv, RemovalInv, NEW s \in Side, NEW p \in Files,
           NEW forced \in BOOLEAN, PropagateContent(s, p, forced),
           ~Leaving(s, p), ~Leaving(s, p[1]), dead' = dead, up, up' = up,
           sent' = sent \/ (sent # << >> /\ sent' = Tail(sent)),
           job.at # "unrecord", job'.at \notin {"inspect", "aside"}
    PROVE  /\ EventInv' /\ Removals'
           /\ \A x \in Side, q \in Dirs \cup Files : Leaving(x, q)' => Leaving(x, q)
<1> DEFINE t == Other(s)
           d == p[1]
           v == file[s][p]
<1>1. t \in Side /\ s # t /\ Other(t) = s /\ d \in Dirs /\ \A x \in Side : x \in {s, t}
  BY Sides, FilesAre
<1>2. /\ \A x \in Side, q \in Files :
             /\ q # p => file'[x][q] = file[x][q] /\ row'[x][q] = row[x][q]
             /\ file'[x][p] = IF x = t /\ v # 0 THEN v ELSE file[x][p]
             /\ row'[x][p] = IF v # 0 THEN v ELSE row[x][p]
      /\ \A x \in Side, e \in Dirs : e \in has'[x] <=> e \in has[x] \/ (x = t /\ e = d)
      /\ \A x \in Side, q \in Dirs \cup Files :
             \/ slot'[x][q] = slot[x][q]
             \/ x = t /\ q = d /\ d \notin has[t] /\ slot'[x][q] = "content"
      /\ UNCHANGED <<aside, rowDir>>
  BY PropagateEffect
<1>3. /\ \A x \in Side, e \in Dirs : /\ kept[x][e] \subseteq kept'[x][e]
                                     /\ ~(x = t /\ e = d) => kept'[x][e] = kept[x][e]
      /\ v = 0 => kept' = kept
      /\ d \notin has[t] => slot'[t][d] = "content"
  <2>1. /\ IF v = 0 THEN kept' = kept
           ELSE kept' = IF Differs(s, p, forced)
                        THEN [kept EXCEPT ![t][d] = @ \cup {file[t][p]}] ELSE kept
        /\ d \notin has[t] => Slot(t, {d}, "content")
    BY DEF PropagateContent
  <2> HIDE DEF t, d, v
  <2>2. \A x \in Side, e \in Dirs : /\ kept[x][e] \subseteq kept'[x][e]
                                    /\ ~(x = t /\ e = d) => kept'[x][e] = kept[x][e]
    BY <1>1, <2>1 DEF Inv, DiskOK
  <2>3. d \notin has[t] => slot'[t][d] = "content"
    BY <1>1, <2>1, SlotEffect DEF Inv, EventsOK
  <2> QED BY <2>1, <2>2, <2>3
<1> HIDE DEF t, d, v
<1>4. EventInv' /\ \A x \in Side, q \in Dirs \cup Files : Leaving(x, q)' => Leaving(x, q)
  <2>1. NoNewMail /\ InOrder
    BY Mail, MailInOrder DEF Inv
  <2>2. ASSUME NEW x \in Side, NEW q \in Dirs \cup Files PROVE Fewer(x, q)
    <3>1. ~Leaving(Other(t), d)
      BY <1>1 DEF d
    <3> QED BY <1>1, <1>2, <3>1 DEF Fewer
  <2>3. \A x \in Side, e \in Dirs : slot'[x][e] = "delete" /\ e \in has'[x] => e \in has[x]
    BY <1>2, <1>3
  <2> QED BY <2>1, <2>2, <2>3, FewerEvents DEF RemovalInv
<1>5. ASSUME NEW x \in Side, NEW e \in Dirs, Gone(x, e)' PROVE Gone(x, e)
  <2>1. \A y \in Side : rowDir'[y] \ has'[y] \subseteq rowDir[y] \ has[y]
    BY <1>2 DEF Inv, DiskOK, RowsOK
  <2> QED BY <1>4, <1>5, <2>1, GoneBefore DEF Erasing
<1>6. ASSUME NEW x \in Side, Gone(x, d)' PROVE Expendable(x, d)'
  <2>1. Expendable(x, d)
    BY <1>1, <1>5, <1>6 DEF RemovalInv, Removals
  <2>2. CASE v = 0
    <3>1. /\ \A y \in Side, q \in Files : file'[y][q] = file[y][q] /\ row'[y][q] = row[y][q]
          /\ kept' = kept /\ aside' = aside
      BY <1>2, <1>3, <2>2
    <3>2. ASSUME NEW q \in In(d) PROVE Removable(x, q)'
      <4>1. q \in Files /\ Removable(x, q) /\ Other(x) \in Side
        BY <1>1, <2>1, FilesAre, Sides DEF Expendable
      <4> QED BY <1>4, <3>1, <4>1, RemovableStays
    <3> QED BY <2>1, <3>1, <3>2 DEF Expendable, In
  <2>3. CASE v # 0
    <3>1. x = t
      <4>1. d \in has[s]
        BY <2>3, InvFacts DEF v, d
      <4>2. ~Leaving(s, d)' /\ d \notin rowDir'[s] \ has'[s]
        BY <1>1, <1>2, <1>4, <4>1 DEF d
      <4> QED BY <1>1, <1>6, <4>2 DEF Gone
    <3>2. ASSUME NEW q \in In(d) PROVE Removable(t, q)'
      <4>1. q \in Files
        BY <1>1, FilesAre
      <4>2. CASE q # p
        <5>1. Removable(t, q)
          BY <2>1, <3>1 DEF Expendable
        <5> QED BY <1>1, <1>2, <1>4, <4>1, <4>2, <5>1, RemovableStays
      <4>3. CASE q = p
        <5>1. file'[s][p] = v /\ file'[t][p] = v /\ row'[s][p] = v
          BY <1>1, <1>2, <2>3 DEF v
        <5>2. Twin(s, p)'
          BY <5>1 DEF Twin, t
        <5>3. ~Leaving(s, p)'
          BY <1>4
        <5> QED BY <1>1, <4>3, <5>1, <5>2, <5>3 DEF Removable, CopySafe
      <4> QED BY <4>2, <4>3
    <3>3. kept'[Other(t)][d] = kept[Other(t)][d] /\ kept[t][d] \subseteq kept'[t][d]
      BY <1>1, <1>3
    <3>4. kept[Other(t)][d] \subseteq dead \cup aside \cup kept[t][d]
      BY <2>1, <3>1 DEF Expendable
    <3> QED BY <1>2, <3>1, <3>2, <3>3, <3>4 DEF Expendable, In
  <2> QED BY <2>2, <2>3
<1>7. Removals'
  <2>1. \A q \in Files : q[1] # d => q # p
    BY DEF d
  <2> QED BY <1>2, <1>3, <1>4, <1>5, <1>6, <2>1, RemovalsStay DEF RemovalInv
<1> QED BY <1>4, <1>7

LEMMA RemoveRemovals ==
    ASSUME TreeAssumption, Inv, VersionInv, RemovalInv, NEW t \in Side, NEW p \in Files,
           RemoveFile(t, p), dead' = dead, up, up' = up,
           sent' = sent \/ (sent # << >> /\ sent' = Tail(sent)),
           job.at # "unrecord", job'.at \notin {"inspect", "aside"}
    PROVE  /\ EventInv' /\ Removals'
           /\ \A x \in Side, q \in Dirs \cup Files : Leaving(x, q)' => Leaving(x, q)
<1> DEFINE o == Other(t)
           d == p[1]
<1>1. o \in Side /\ o # t /\ Other(o) = t /\ (\A x \in Side : x \in {t, o}) /\ d \in Dirs
  BY Sides, FilesAre
<1>2. /\ file' = [file EXCEPT ![t][p] = 0] /\ SetRow(p, 0, 0)
      /\ UNCHANGED <<has, kept, aside, rowDir, slot>>
  BY DEF RemoveFile
<1>3. /\ \A x \in Side, q \in Files :
             file'[x][q] = IF x = t /\ q = p THEN 0 ELSE file[x][q]
      /\ \A x \in Side, q \in Files : row'[x][q] = IF q = p THEN 0 ELSE row[x][q]
  BY <1>2, Sides DEF Inv, DiskOK, RowsOK, SetRow
<1>4. EventInv' /\ \A x \in Side, q \in Dirs \cup Files : Leaving(x, q)' => Leaving(x, q)
  BY <1>2, CalmEvents DEF RemovalInv
<1> HIDE DEF o, d
<1>5. \A x \in Side, e \in Dirs : Gone(x, e)' => Gone(x, e)
  <2>1. \A y \in Side : rowDir'[y] \ has'[y] \subseteq rowDir[y] \ has[y]
    BY <1>2
  <2> QED BY <1>4, <2>1, GoneBefore DEF Erasing
<1>6. ASSUME NEW x \in Side, Gone(x, d)' PROVE Expendable(x, d)'
  <2>1. Expendable(x, d)
    BY <1>1, <1>5, <1>6 DEF RemovalInv, Removals
  <2>2. ASSUME NEW q \in In(d) PROVE Removable(x, q)'
    <3>1. q \in Files /\ Removable(x, q) /\ Other(x) \in Side
      BY <1>1, <2>1, FilesAre, Sides DEF Expendable
    <3>2. CASE q # p
      BY <1>2, <1>3, <1>4, <3>1, <3>2, RemovableStays
    <3>3. CASE q = p
      <4>1. file'[t][p] = 0 /\ file'[o][p] = file[o][p] /\ row'[o][p] = 0 /\ row'[t][p] = 0
        BY <1>1, <1>3
      <4>2. Spare(t, p)' /\ Twin(t, p)' /\ ~FileOf(t, p)'
        BY <4>1 DEF Spare, Twin, FileOf
      <4>3. CASE x = o
        <5>1. Leaving(t, p)' => Spare(o, p)'
          <6>1. Leaving(t, p) => Spare(o, p)
            BY <1>1, <3>1, <3>3, <4>3 DEF Removable
          <6>2. Spare(o, p) => Spare(o, p)'
            BY <1>2, <4>1 DEF Spare
          <6> QED BY <1>4, <6>1, <6>2
        <5> QED BY <1>1, <3>3, <4>2, <4>3, <5>1 DEF Removable, CopySafe
      <4>4. CASE x = t
        BY <1>1, <3>3, <4>1, <4>2, <4>4 DEF Removable, CopySafe, FileOf, o
      <4> QED BY <1>1, <4>3, <4>4
    <3> QED BY <3>2, <3>3
  <2> QED BY <1>2, <2>1, <2>2 DEF Expendable, In
<1>7. Removals'
  <2>1. \A q \in Files : q[1] # d => q # p
    BY DEF d
  <2>2. \A x \in Side, q \in Files : q[1] # d =>
            /\ file'[x][q] = file[x][q] /\ row'[x][q] = row[x][q]
            /\ Leaving(x, q)' => Leaving(x, q)
    BY <1>3, <1>4, <2>1
  <2>3. aside' = aside /\ kept' = kept
    BY <1>2
  <2> QED BY <1>5, <1>6, <2>2, <2>3, RemovalsStay DEF RemovalInv
<1> QED BY <1>4, <1>7
--------------------------------------------------------------------------------
(* The worker takes an event: nothing that would go against it is on its way.     *)
LEMMA Taken ==
    ASSUME TreeAssumption, Inv, VersionInv, EventInv, NEW k, Taking(k),
           NEW s, NEW p, s = Ev.side, p = Ev.path
    PROVE  /\ p \in Dirs \cup Files
           /\ k = "content" /\ p \in Files => ~Leaving(s, p) /\ ~Leaving(s, p[1])
           /\ k = "content" /\ p \in Dirs => \A x \in Side : ~Leaving(x, p)
           /\ k = "delete" => Leaving(s, p)
           /\ k = "delete" /\ p \in Dirs /\ slot' = slot => \A x \in Side : ~Leaving(x, p)'
<1>1. /\ s \in Side /\ Ev \in Letters /\ Ev.kind = k /\ 1 \in DOMAIN sent /\ sent[1] = Ev
  BY IdleFacts
<1>2. p \in Dirs \cup Files /\ Other(s) \in Side /\ \A x \in Side : x \in {s, Other(s)}
  BY <1>1, Sides DEF Letters, Event
<1>3. \A j \in DOMAIN sent : j # 1 => Before(sent[1], sent[j])
  <2>1. sent \in Seq(Letters)
    BY DEF Inv, EventsOK
  <2>2. \A j \in DOMAIN sent : j # 1 => 1 < j
    BY <2>1
  <2> QED BY <1>1, <2>2 DEF EventInv, InTurn
<1>4. slot[s][p] # "delete"
  BY <1>1, <1>2 DEF EventInv, Once, Mailed
<1>5. sent[1].side = s /\ sent[1].path = p /\ sent[1].kind = k
  BY <1>1
<1>6. ASSUME k = "content" PROVE ~Leaving(s, p) /\ (p \in Files => ~Leaving(s, p[1]))
  <2>1. \A j \in DOMAIN sent : sent[j].side = s /\ sent[j].path = p => sent[j].kind # "delete"
    BY <1>3, <1>5, <1>6 DEF Before
  <2>2. ASSUME p \in Files PROVE ~Leaving(s, p[1])
    <3>1. p[1] \in Dirs /\ p[1] # p /\ p \in In(p[1])
      BY <2>2, InvFacts, FilesAre
    <3>2. Heralded(s, p)
      BY <1>1, <1>5, <1>6 DEF Heralded
    <3>3. slot[s][p[1]] # "delete"
      BY <1>1, <3>1, <3>2 DEF EventInv, Vacated
    <3>4. \A j \in DOMAIN sent : sent[j].side = s /\ sent[j].path = p[1] => sent[j].kind # "delete"
      BY <1>3, <1>5, <1>6, <2>2, <3>1 DEF Before
    <3> QED BY <3>3, <3>4 DEF Leaving
  <2> QED BY <1>4, <2>1, <2>2 DEF Leaving
<1>7. ASSUME k = "content", p \in Dirs PROVE \A x \in Side : ~Leaving(x, p)
  <2>1. Heralded(s, p)
    BY <1>1, <1>5, <1>7 DEF Heralded
  <2>2. ASSUME Leaving(Other(s), p) PROVE FALSE
    <3>1. Other(Other(s)) = s
      BY <1>1, Sides
    <3> QED BY <1>2, <1>7, <2>1, <2>2, <3>1 DEF EventInv, OneSided
  <2> QED BY <1>2, <1>6, <1>7, <2>2
<1>8. ASSUME k = "delete" PROVE Leaving(s, p)
  BY <1>1, <1>5, <1>8 DEF Leaving
<1>9. ASSUME k = "delete", p \in Dirs, slot' = slot PROVE \A x \in Side : ~Leaving(x, p)'
  <2>1. sent # << >> /\ sent' = Tail(sent) /\ sent \in Seq(Letters)
    BY DEF Taking, Inv, EventsOK
  <2>2. \A i \in DOMAIN sent' : i + 1 \in DOMAIN sent /\ i + 1 # 1 /\ sent'[i] = sent[i + 1]
    BY <2>1
  <2>3. \A i \in DOMAIN sent' : sent'[i].side = s /\ sent'[i].path = p => sent'[i].kind # "delete"
    BY <1>3, <1>5, <2>2 DEF Before
  <2>4. ~Leaving(s, p)'
    BY <1>4, <1>9, <2>3 DEF Leaving
  <2>5. ~Leaving(Other(s), p)
    BY <1>1, <1>8, <1>9 DEF EventInv, OneSided
  <2>6. ~Leaving(Other(s), p)'
    BY <1>9, <2>2, <2>5 DEF Leaving
  <2> QED BY <1>2, <2>4, <2>6
<1> QED BY <1>2, <1>6, <1>7, <1>8, <1>9

LEMMA ProcessFileRemoval ==
    ASSUME TreeAssumption, Careful, Inv, Inv', VersionInv, RemovalInv, ProcessFile
    PROVE  RemovalInv'
<1> DEFINE s == Ev.side
           p == Ev.path
<1>1. /\ Taking("content") /\ p \in Files /\ job' = job /\ up /\ up' = up /\ dead' = dead
      /\ PropagateContent(s, p, FALSE) \/ UNCHANGED <<disk, state, slot>>
      /\ sent # << >> /\ sent' = Tail(sent)
  BY DEF ProcessFile, Still, bounds, Taking
<1>2. s \in Side /\ job.at = "idle" /\ job = Idle
  BY <1>1, IdleFacts
<1>3. ~Leaving(s, p) /\ ~Leaving(s, p[1])
  BY <1>1, Taken DEF RemovalInv
<1> HIDE DEF s, p
<1>4. /\ EventInv' /\ Removals'
      /\ \A x \in Side, q \in Dirs \cup Files : Leaving(x, q)' => Leaving(x, q)
  <2>1. CASE PropagateContent(s, p, FALSE)
    BY <1>1, <1>2, <1>3, <2>1, PropagateRemovals
  <2>2. CASE UNCHANGED <<disk, state, slot>>
    <3>1. UNCHANGED <<has, file, kept, aside, rowDir, row, slot>>
      BY <2>2 DEF disk, state
    <3>2. EventInv' /\ \A x \in Side, q \in Dirs \cup Files : Leaving(x, q)' => Leaving(x, q)
      BY <1>1, <3>1, CalmEvents DEF RemovalInv
    <3> QED BY <1>1, <1>2, <3>1, <3>2, RemovalsQuiet DEF RemovalInv, Erasing
  <2> QED BY <1>1, <2>1, <2>2
<1>5. JobInv'
  BY <1>1, <1>2, <1>4, JobRemains DEF RemovalInv, Working, Idle, Inv
<1> QED BY <1>4, <1>5 DEF RemovalInv

LEMMA ProcessFileGoneRemoval ==
    ASSUME TreeAssumption, Careful, Inv, Inv', VersionInv, RemovalInv, ProcessFileGone
    PROVE  RemovalInv'
<1> DEFINE t == Other(Ev.side)
           p == Ev.path
<1>1. /\ Taking("delete") /\ p \in Files /\ job' = job /\ up /\ up' = up /\ dead' = dead
      /\ RemoveFile(t, p) \/ UNCHANGED <<disk, state, slot>>
      /\ sent # << >> /\ sent' = Tail(sent)
  BY DEF ProcessFileGone, Still, bounds, Taking
<1>2. t \in Side /\ job.at = "idle" /\ job = Idle
  BY <1>1, IdleFacts, Sides
<1> HIDE DEF t, p
<1>4. /\ EventInv' /\ Removals'
      /\ \A x \in Side, q \in Dirs \cup Files : Leaving(x, q)' => Leaving(x, q)
  <2>1. CASE RemoveFile(t, p)
    BY <1>1, <1>2, <2>1, RemoveRemovals
  <2>2. CASE UNCHANGED <<disk, state, slot>>
    <3>1. UNCHANGED <<has, file, kept, aside, rowDir, row, slot>>
      BY <2>2 DEF disk, state
    <3>2. EventInv' /\ \A x \in Side, q \in Dirs \cup Files : Leaving(x, q)' => Leaving(x, q)
      BY <1>1, <3>1, CalmEvents DEF RemovalInv
    <3> QED BY <1>1, <1>2, <3>1, <3>2, RemovalsQuiet DEF RemovalInv, Erasing
  <2> QED BY <1>1, <2>1, <2>2
<1>5. JobInv'
  BY <1>1, <1>2, <1>4, JobRemains DEF RemovalInv, Working, Idle, Inv
<1> QED BY <1>4, <1>5 DEF RemovalInv

LEMMA ProcessDirRemoval ==
    ASSUME TreeAssumption, Careful, Inv, Inv', VersionInv, RemovalInv, ProcessDir \/ ProcessDirGone
    PROVE  RemovalInv'
<1> PICK s, d : s = Ev.side /\ d = Ev.path
  OBVIOUS
<1>1. /\ Taking("content") \/ Taking("delete")
      /\ d \in Dirs /\ up /\ up' = up
      /\ UNCHANGED <<has, file, kept, aside, rowDir, row, slot, dead>>
      /\ sent # << >> /\ sent' = Tail(sent)
  BY DEF ProcessDir, ProcessDirGone, Still, bounds, disk, state, Taking
<1>2. s \in Side /\ job.at = "idle" /\ job = Idle
  BY <1>1, IdleFacts
<1>3. EventInv' /\ \A x \in Side, q \in Dirs \cup Files : Leaving(x, q)' => Leaving(x, q)
  BY <1>1, CalmEvents DEF RemovalInv
<1>4. \A x \in Side : ~Leaving(x, d)'
  <2>1. CASE Taking("content")
    <3>1. \A x \in Side : ~Leaving(x, d)
      BY <1>1, <2>1, Taken DEF RemovalInv
    <3> QED BY <1>1, <1>3, <3>1
  <2>2. CASE Taking("delete")
    BY <1>1, <2>2, Taken DEF RemovalInv
  <2> QED BY <1>1, <2>1, <2>2
<1>5. /\ job' \in {job, StartDir(s, d), StartRemove(s, d)}
      /\ job' = StartRemove(s, d) => Leaving(s, d)
  <2>1. CASE ProcessDir
    <3>1. job' = StartDir(s, d)
      BY <2>1 DEF ProcessDir
    <3>2. StartDir(s, d).at = "mkdir" /\ StartRemove(s, d).at = "inspect"
      BY <1>2 DEF StartDir, StartRemove, Idle
    <3> QED BY <3>1, <3>2
  <2>2. CASE ProcessDirGone
    <3>1. Taking("delete") /\ job' \in {job, StartRemove(s, d)}
      BY <2>2 DEF ProcessDirGone
    <3>2. Leaving(s, d)
      BY <3>1, Taken DEF RemovalInv
    <3> QED BY <3>1, <3>2
  <2> QED BY <2>1, <2>2
<1>6. CASE job' = job
  <2>1. JobInv'
    BY <1>1, <1>2, <1>3, <1>6, JobRemains DEF RemovalInv, Working, Idle, Inv
  <2>2. Removals'
    BY <1>1, <1>2, <1>3, <1>6, RemovalsQuiet DEF RemovalInv, Erasing
  <2> QED BY <1>3, <2>1, <2>2 DEF RemovalInv
<1>7. CASE job' \in {StartDir(s, d), StartRemove(s, d)}
  <2>1. /\ job'.at \in {"mkdir", "inspect"} /\ job'.src = s /\ job'.dir = d /\ job'.scope = {}
        /\ job'.at = "inspect" => job' = StartRemove(s, d)
    <3>1. StartDir(s, d) = [Idle EXCEPT !.at = "mkdir", !.src = s, !.dir = d]
      BY <1>2 DEF StartDir
    <3>2. StartRemove(s, d) = [Idle EXCEPT !.at = "inspect", !.src = s, !.dir = d]
      BY <1>2 DEF StartRemove
    <3>3. CASE job' = StartDir(s, d)
      BY <3>1, <3>3 DEF Idle
    <3>4. CASE job' = StartRemove(s, d)
      BY <3>2, <3>4 DEF Idle
    <3> QED BY <1>7, <3>3, <3>4
  <2>3. JobInv'
    BY <1>1, <1>3, <1>4, <2>1, JobRemains DEF RemovalInv, Inv
  <2>4. Removals'
    <3>1. job'.at \in {"inspect", "aside"} => Gone(job'.src, job'.dir)
      BY <1>5, <2>1 DEF Gone
    <3> QED BY <1>1, <1>2, <1>3, <3>1, RemovalsQuiet DEF RemovalInv, Erasing
  <2> QED BY <1>3, <2>3, <2>4 DEF RemovalInv
<1> QED BY <1>5, <1>6, <1>7

LEMMA ProcessDirGoneKeeps ==
    ASSUME TreeAssumption, Inv, VersionInv, ProcessDirGone
    PROVE  VersionInv'
<1> DEFINE s == Ev.side
           d == Ev.path
<1>1. /\ Taking("delete") /\ d \in Dirs /\ job' \in {job, StartRemove(s, d)}
      /\ UNCHANGED <<has, file, row, rowDir, kept, aside, slot, clock, dead>>
  BY DEF ProcessDirGone, Still, bounds, disk, state
<1>2. NoNewMail /\ job = Idle /\ job.at = "idle" /\ job.echo = "none" /\ job.plan = {}
  BY <1>1, IdleFacts
<1> HIDE DEF s, d
<1>3. job'.at \in {"idle", "inspect"} /\ job'.echo = "none" /\ job'.plan = {}
  BY <1>1, <1>2 DEF StartRemove, Idle
<1>4. \A x \in Side, q \in Files : ~Copying(x, q[1])'
  BY <1>3 DEF Copying
<1>5. Steady' /\ Numbered' /\ NothingLost' /\ \A q \in Files : PathInv(q)'
  BY <1>1, <1>2, <1>3, <1>4, JobGoesOn DEF At
<1>6. Copied' /\ Planned'
  BY <1>3 DEF Copied, Planned
<1> QED BY <1>5, <1>6 DEF VersionInv
--------------------------------------------------------------------------------
(* A directory is copied and recorded: nobody deletes it meanwhile.               *)
LEMMA LeakNone ==
    ASSUME Careful, Leak
    PROVE  UNCHANGED <<slot, sent>>
BY NoHurry DEF Leak, events

LEMMA InHand ==
    ASSUME TreeAssumption, Inv, JobInv, NEW label \in Working, Doing(label), NEW d, d = job.dir
    PROVE  d \in Dirs /\ up /\ job.at = label /\ \A x \in Side : ~Leaving(x, d)
BY DEF Doing, Inv, JobOK, JobInv, Undisturbed

\* An operation ends, whatever it was.
LEMMA EndQuiet ==
    ASSUME TreeAssumption, Careful, Inv, RemovalInv, up, up' = up, job' = Ended,
           job.at # "unrecord", UNCHANGED <<has, file, kept, aside, row, slot, sent, dead>>,
           \A x \in Side : rowDir'[x] \ has[x] \subseteq rowDir[x] \ has[x]
    PROVE  RemovalInv'
<1>1. EventInv' /\ \A x \in Side, q \in Dirs \cup Files : Leaving(x, q)' => Leaving(x, q)
  BY CalmEvents DEF RemovalInv
<1>2. JobInv'
  BY <1>1, JobEnds DEF RemovalInv
<1>3. Removals'
  BY <1>1, EndedScope, RemovalsQuiet DEF RemovalInv, Erasing
<1> QED BY <1>1, <1>2, <1>3 DEF RemovalInv

LEMMA MkdirRemoval ==
    ASSUME TreeAssumption, Careful, Inv, Inv', VersionInv, RemovalInv, Mkdir
    PROVE  RemovalInv'
<1> PICK d, t : d = job.dir /\ t = Dst
  OBVIOUS
<1>1. /\ Doing("mkdir") /\ up' = up
      /\ UNCHANGED <<file, kept, aside, row, rowDir, slot, sent, dead>>
  BY DEF Mkdir, Still, state, events, bounds
<1>2. /\ d \in Dirs /\ up /\ job.at = "mkdir" /\ t \in Side
      /\ \A x \in Side : ~Leaving(x, d)
  BY <1>1, InHand, Handling DEF RemovalInv, Working, At
<1>3. CASE Fail /\ UNCHANGED has
  BY <1>1, <1>2, <1>3, EndQuiet DEF Fail
<1>4. CASE D \in has[job.src]
  <2> DEFINE full == VersionsIn(job.src, D) # {}
             todo == FilesIn(job.src, D)
             echo == IF D \in has[Dst] THEN "none" ELSE "content"
  <2>1. /\ has' = [has EXCEPT ![t] = @ \cup {d}]
        /\ job' = [job EXCEPT !.at = IF full THEN "copy" ELSE "note", !.deep = full,
                              !.todo = todo, !.echo = echo]
    BY <1>4 DEF Mkdir, D
  <2> HIDE DEF full, todo, echo
  <2>2. job'.at \in {"copy", "note"} /\ job'.dir = d /\ job'.scope = job.scope
    BY <2>1 DEF Inv, JobOK, Job
  <2>3. \A x \in Side, e \in Dirs : e \in has'[x] <=> e \in has[x] \/ (x = t /\ e = d)
    BY <1>2, <2>1 DEF Inv, DiskOK
  <2>4. EventInv' /\ \A x \in Side, q \in Dirs \cup Files : Leaving(x, q)' => Leaving(x, q)
    <3>1. \A x \in Side, e \in Dirs : slot[x][e] = "delete" /\ e \in has'[x] => e \in has[x]
      BY <1>2, <2>3 DEF Leaving
    <3> QED BY <1>1, <3>1, CalmEvents DEF RemovalInv
  <2>5. JobInv'
    BY <1>1, <1>2, <2>2, <2>4, JobRemains DEF RemovalInv, Inv, Working, At
  <2>6. Removals'
    <3>1. \A x \in Side : rowDir'[x] \ has'[x] \subseteq rowDir[x] \ has[x]
      BY <1>1, <2>3 DEF Inv, RowsOK
    <3> QED BY <1>1, <1>2, <2>2, <2>4, <3>1, RemovalsQuiet DEF RemovalInv, Erasing
  <2> QED BY <2>4, <2>5, <2>6 DEF RemovalInv
<1> QED BY <1>3, <1>4 DEF Mkdir

LEMMA CopyOneRemoval ==
    ASSUME TreeAssumption, Careful, Inv, Inv', VersionInv, RemovalInv, CopyOne
    PROVE  RemovalInv'
<1> PICK d, s, t : d = job.dir /\ s = job.src /\ t = Dst
  OBVIOUS
<1>1. /\ Doing("copy") /\ up' = up
      /\ UNCHANGED <<has, kept, aside, row, rowDir, slot, sent, dead>>
  BY DEF CopyOne, Still, state, events, bounds
<1>2. /\ d \in Dirs /\ up /\ job.at = "copy" /\ s \in Side /\ t \in Side
      /\ \A x \in Side : x \in {s, t} /\ ~Leaving(x, d)
  BY <1>1, InHand, Handling DEF RemovalInv, Working, At
<1>3. PICK p \in job.todo :
        \/ /\ FileOf(s, p) /\ d \in has[t] /\ file' = [file EXCEPT ![t][p] = file[s][p]]
           /\ job' = [job EXCEPT !.todo = @ \ {p}]
        \/ Fail /\ UNCHANGED file
  BY DEF CopyOne, D
<1>4. CASE Fail /\ UNCHANGED file
  BY <1>1, <1>2, <1>4, EndQuiet DEF Fail
<1>5. CASE /\ FileOf(s, p) /\ d \in has[t] /\ file' = [file EXCEPT ![t][p] = file[s][p]]
           /\ job' = [job EXCEPT !.todo = @ \ {p}]
  <2>1. p \in In(d) /\ p \in Files /\ p[1] = d
    <3>1. p \in In(d)
      BY <1>2 DEF Inv, JobOK
    <3> QED BY <1>2, <3>1, FilesAre
  <2>2. job'.at = "copy" /\ job'.dir = d /\ job'.scope = job.scope
    BY <1>2, <1>5 DEF Inv, JobOK, Job
  <2>3. EventInv' /\ \A x \in Side, q \in Dirs \cup Files : Leaving(x, q)' => Leaving(x, q)
    BY <1>1, CalmEvents DEF RemovalInv
  <2>4. JobInv'
    BY <1>1, <1>2, <2>2, <2>3, JobRemains DEF RemovalInv, Inv, Working, At
  <2>5. \A x \in Side, q \in Files : q[1] # d => file'[x][q] = file[x][q]
    BY <1>5, <2>1 DEF Inv, DiskOK
  <2>6. \A x \in Side : d \in has[x]
    BY <1>2, <1>5, <2>1, InvFacts DEF FileOf
  <2>7. \A x \in Side : ~Gone(x, d)'
    BY <1>1, <1>2, <2>2, <2>3, <2>6 DEF Gone
  <2>8. \A x \in Side, e \in Dirs : Gone(x, e)' => Gone(x, e)
    BY <1>1, <1>2, <2>2, <2>3, GoneBefore DEF Erasing
  <2>9. Removals'
    <3>1. \A x \in Side, q \in Files : q[1] # d =>
              /\ file'[x][q] = file[x][q] /\ row'[x][q] = row[x][q]
              /\ Leaving(x, q)' => Leaving(x, q)
      BY <1>1, <2>3, <2>5
    <3>2. /\ aside \subseteq aside' /\ dead \subseteq dead'
          /\ \A x \in Side, e \in Dirs : e # d => kept'[x][e] = kept[x][e]
      BY <1>1
    <3>3. \A x \in Side : d \in Dirs /\ Gone(x, d)' => Expendable(x, d)'
      BY <2>7
    <3> QED BY <2>8, <3>1, <3>2, <3>3, RemovalsStay DEF RemovalInv
  <2> QED BY <2>3, <2>4, <2>9 DEF RemovalInv
<1> QED BY <1>3, <1>4, <1>5

LEMMA CopyDoneRemoval ==
    ASSUME TreeAssumption, Careful, Inv, Inv', VersionInv, RemovalInv, CopyDone
    PROVE  RemovalInv'
<1> PICK d, s, t : d = job.dir /\ s = job.src /\ t = Dst
  OBVIOUS
<1>1. /\ Doing("copy") /\ up' = up /\ job' = [job EXCEPT !.at = "note"]
      /\ kept' = IF d \in has[t] THEN [kept EXCEPT ![t][d] = @ \cup kept[s][d]] ELSE kept
      /\ UNCHANGED <<has, file, aside, row, rowDir, slot, sent, dead>>
  BY DEF CopyDone, Proceed, Still, state, events, bounds, D
<1>2. /\ d \in Dirs /\ up /\ job.at = "copy" /\ s \in Side /\ t \in Side
      /\ Other(s) = t /\ Other(t) = s /\ s # t
      /\ \A x \in Side : x \in {s, t} /\ ~Leaving(x, d)
  BY <1>1, InHand, Handling DEF RemovalInv, Working, At
<1>3. job'.at = "note" /\ job'.dir = d /\ job'.scope = job.scope
  BY <1>1 DEF Inv, JobOK, Job
<1>4. EventInv' /\ \A x \in Side, q \in Dirs \cup Files : Leaving(x, q)' => Leaving(x, q)
  BY <1>1, CalmEvents DEF RemovalInv
<1>5. JobInv'
  BY <1>1, <1>2, <1>3, <1>4, JobRemains DEF RemovalInv, Inv, Working, At
<1>6. \A x \in Side, e \in Dirs : Gone(x, e)' => Gone(x, e)
  BY <1>1, <1>2, <1>3, <1>4, GoneBefore DEF Erasing
<1>7. /\ \A x \in Side, e \in Dirs : e # d => kept'[x][e] = kept[x][e]
      /\ kept'[s][d] = kept[s][d] /\ kept[t][d] \subseteq kept'[t][d]
      /\ kept'[t][d] \subseteq kept[t][d] \cup kept[s][d]
  BY <1>1, <1>2 DEF Inv, DiskOK
<1>8. ASSUME NEW x \in Side, Gone(x, d)' PROVE Expendable(x, d)'
  <2>1. Expendable(x, d)
    BY <1>2, <1>6, <1>8 DEF RemovalInv, Removals
  <2>2. ASSUME NEW q \in In(d) PROVE Removable(x, q)'
    <3>1. q \in Files /\ Removable(x, q) /\ Other(x) \in Side
      BY <1>2, <2>1, FilesAre, Sides DEF Expendable
    <3> QED BY <1>1, <1>4, <3>1, RemovableStays
  <2>3. kept'[Other(x)][d] \subseteq dead \cup aside \cup kept'[x][d]
    <3>1. kept[Other(x)][d] \subseteq dead \cup aside \cup kept[x][d]
      BY <2>1 DEF Expendable
    <3>2. CASE x = s
      BY <1>2, <1>7, <3>1, <3>2
    <3>3. CASE x = t
      BY <1>2, <1>7, <3>1, <3>3
    <3> QED BY <1>2, <3>2, <3>3
  <2> QED BY <1>1, <2>2, <2>3 DEF Expendable, In
<1>9. Removals'
  BY <1>1, <1>4, <1>6, <1>7, <1>8, RemovalsStay DEF RemovalInv
<1> QED BY <1>4, <1>5, <1>9 DEF RemovalInv

LEMMA NoteRemoval ==
    ASSUME TreeAssumption, Careful, Inv, Inv', VersionInv, RemovalInv, Note
    PROVE  RemovalInv'
<1> PICK d : d = job.dir
  OBVIOUS
<1>1. /\ Doing("note") /\ up' = up
      /\ UNCHANGED <<has, file, kept, aside, row, dead>>
      /\ \/ /\ d \in has["A"] \cap has["B"] /\ rowDir' = [x \in Side |-> rowDir[x] \cup {d}]
            /\ \/ job' = [job EXCEPT !.at = "walkA"] /\ UNCHANGED events
               \/ job' = Ended /\ Leak
         \/ job' = Ended /\ UNCHANGED <<rowDir, events>>
  BY DEF Note, Still, bounds, disk, D, Proceed, Finish, Fail
<1>2. /\ d \in Dirs /\ up /\ job.at = "note" /\ \A x \in Side : ~Leaving(x, d)
  BY <1>1, InHand DEF RemovalInv, Working, At
<1>3. UNCHANGED <<slot, sent>>
  BY <1>1, LeakNone DEF events
<1>4. \A x \in Side : rowDir'[x] \ has[x] \subseteq rowDir[x] \ has[x]
  BY <1>1, Sides
<1>5. CASE job' = Ended
  BY <1>1, <1>2, <1>3, <1>4, <1>5, EndQuiet
<1>6. CASE job' = [job EXCEPT !.at = "walkA"] /\ d \in has["A"] \cap has["B"]
  <2>1. job'.at = "walkA" /\ job'.dir = d /\ job'.scope = job.scope
    BY <1>6 DEF Inv, JobOK, Job
  <2>2. EventInv' /\ \A x \in Side, q \in Dirs \cup Files : Leaving(x, q)' => Leaving(x, q)
    BY <1>1, <1>3, CalmEvents DEF RemovalInv
  <2>3. JobInv'
    <3>1. Undisturbed'
      BY <1>2, <2>1, <2>2 DEF Undisturbed
    <3>2. CaughtUp'
      BY <2>1, <2>2 DEF RemovalInv, JobInv, CaughtUp
    <3> QED BY <1>1, <1>2, <1>6, <2>1, <3>1, <3>2 DEF JobInv, Recording, Inspected, Down
  <2>4. Removals'
    BY <1>1, <1>2, <1>4, <2>1, <2>2, RemovalsQuiet DEF RemovalInv, Erasing
  <2> QED BY <2>2, <2>3, <2>4 DEF RemovalInv
<1> QED BY <1>1, <1>5, <1>6

LEMMA WalkRemoval ==
    ASSUME TreeAssumption, Careful, Inv, Inv', VersionInv, RemovalInv, WalkA \/ WalkB
    PROVE  RemovalInv'
<1> PICK d : d = job.dir
  OBVIOUS
<1>1. /\ Doing("walkA") \/ Doing("walkB")
      /\ up' = up /\ UNCHANGED <<has, file, kept, aside, dead>>
      /\ RecordTree("A") \/ RecordTree("B")
      /\ \/ Doing("walkA") /\ job' = [job EXCEPT !.at = "walkB"] /\ UNCHANGED events
         \/ job' = Ended /\ Leak
  BY DEF WalkA, WalkB, Proceed, Finish, Still, bounds, disk
<1>2. /\ d \in Dirs /\ up /\ job.at \in {"walkA", "walkB"} /\ \A x \in Side : ~Leaving(x, d)
  BY <1>1, InHand DEF RemovalInv, Working, At
<1>3. UNCHANGED <<slot, sent>>
  BY <1>1, LeakNone DEF events
<1>4. \A x \in Side : d \in has[x]
  BY <1>2, Sides DEF RemovalInv, JobInv, Recording
<1>5. /\ \A x \in Side, q \in Files : q[1] # d => row'[x][q] = row[x][q]
      /\ \A x \in Side : rowDir'[x] \subseteq rowDir[x] \cup {d}
  <2>1. PICK s \in Side : RecordTree(s)
    BY <1>1, Sides
  <2>2. \A q \in Files : q[1] # d => q \notin FilesIn(s, d)
    BY <1>2, FilesAre DEF FilesIn
  <2>3. /\ row' = [row EXCEPT ![s] = [p \in Files |-> IF p \in FilesIn(s, d) THEN file[s][p]
                                                     ELSE @[p]]]
        /\ rowDir' = [rowDir EXCEPT ![s] = @ \cup ({d} \cap has[s])]
    BY <2>1 DEF RecordTree, D
  <2> QED BY <2>2, <2>3 DEF Inv, RowsOK
<1>6. EventInv' /\ \A x \in Side, q \in Dirs \cup Files : Leaving(x, q)' => Leaving(x, q)
  BY <1>1, <1>3, CalmEvents DEF RemovalInv
<1>7. job'.at \in {"walkB", "idle", "next"} /\ JobInv'
  <2>1. CASE job' = Ended
    BY <1>1, <1>2, <1>6, <2>1, EndedScope, JobEnds DEF RemovalInv
  <2>2. CASE job' = [job EXCEPT !.at = "walkB"]
    <3>1. job'.at = "walkB" /\ job'.dir = d /\ job'.scope = job.scope
      BY <2>2 DEF Inv, JobOK, Job
    <3>2. Undisturbed'
      BY <1>2, <3>1, <1>6 DEF Undisturbed
    <3>3. CaughtUp'
      BY <3>1, <1>6 DEF RemovalInv, JobInv, CaughtUp
    <3>4. Recording'
      BY <1>1, <1>4, <3>1, Sides DEF Recording
    <3> QED BY <1>1, <1>2, <3>1, <3>2, <3>3, <3>4 DEF JobInv, Inspected, Down
  <2> QED BY <1>1, <2>1, <2>2
<1>8. \A x \in Side, e \in Dirs : Gone(x, e)' => Gone(x, e)
  <2>1. \A x \in Side : rowDir'[x] \ has'[x] \subseteq rowDir[x] \ has[x]
    BY <1>1, <1>4, <1>5
  <2> QED BY <1>2, <1>6, <1>7, <2>1, GoneBefore DEF Erasing
<1>9. \A x \in Side : ~Gone(x, d)'
  BY <1>1, <1>2, <1>4, <1>6, <1>7 DEF Gone
<1>10. Removals'
  <2>1. \A x \in Side, q \in Files : q[1] # d =>
            /\ file'[x][q] = file[x][q] /\ row'[x][q] = row[x][q]
            /\ Leaving(x, q)' => Leaving(x, q)
    BY <1>1, <1>5, <1>6
  <2>2. /\ aside \subseteq aside' /\ dead \subseteq dead'
        /\ \A x \in Side, e \in Dirs : e # d => kept'[x][e] = kept[x][e]
    BY <1>1
  <2>3. \A x \in Side : d \in Dirs /\ Gone(x, d)' => Expendable(x, d)'
    BY <1>9
  <2>4. \A x \in Side, e \in Dirs : e # d => (Gone(x, e)' => Gone(x, e))
    BY <1>8
  <2>5. Removals
    BY DEF RemovalInv
  <2> QED BY <2>1, <2>2, <2>3, <2>4, <2>5, RemovalsStay
<1> QED BY <1>6, <1>7, <1>10 DEF RemovalInv

--------------------------------------------------------------------------------
(* A directory is removed: what nobody has recorded is set aside first.           *)
LEMMA InspectRemoval ==
    ASSUME TreeAssumption, Careful, Inv, Inv', VersionInv, RemovalInv, Inspect
    PROVE  RemovalInv'
<1> PICK d, s, t : d = job.dir /\ s = job.src /\ t = Dst
  OBVIOUS
<1>1. /\ Doing("inspect") /\ up' = up
      /\ UNCHANGED <<has, file, kept, aside, row, rowDir, slot, sent, dead>>
      /\ job' = [job EXCEPT !.at = "aside", !.todo = Unsynced(t, d)]
  BY DEF Inspect, Still, disk, state, events, bounds, D
<1>2. /\ d \in Dirs /\ up /\ job.at = "inspect" /\ s \in Side /\ t = Other(s)
      /\ \A x \in Side : ~Leaving(x, d)
  BY <1>1, InHand, Handling DEF RemovalInv, Working, At
<1>3. /\ job'.at = "aside" /\ job'.dir = d /\ job'.src = s /\ job'.scope = job.scope
      /\ job'.todo = Unsynced(t, d)
  BY <1>1 DEF Inv, JobOK, Job
<1>4. EventInv' /\ \A x \in Side, q \in Dirs \cup Files : Leaving(x, q)' => Leaving(x, q)
  BY <1>1, CalmEvents DEF RemovalInv
<1>5. JobInv'
  <2>1. Undisturbed'
    BY <1>2, <1>3, <1>4 DEF Undisturbed
  <2>2. CaughtUp'
    BY <1>3, <1>4 DEF RemovalInv, JobInv, CaughtUp
  <2>3. job'.todo \subseteq In(d)
    BY <1>3 DEF Unsynced, FilesIn
  <2>4. \A p \in In(d) : p \in job'.todo <=> FileOf(t, p)' /\ row'[t][p] # file'[t][p]
    BY <1>1, <1>3 DEF Unsynced, FilesIn, FileOf
  <2>5. Inspected'
    BY <1>2, <1>3, <2>3, <2>4 DEF Inspected
  <2> QED BY <1>1, <1>2, <1>3, <2>1, <2>2, <2>5 DEF JobInv, Recording, Down
<1>6. Removals'
  BY <1>1, <1>2, <1>3, <1>4, RemovalsQuiet DEF RemovalInv, Erasing
<1> QED BY <1>4, <1>5, <1>6 DEF RemovalInv

LEMMA InspectKeeps ==
    ASSUME TreeAssumption, Inv, VersionInv, Inspect
    PROVE  VersionInv'
<1>1. /\ Doing("inspect") /\ job' = [job EXCEPT !.at = "aside", !.todo = Unsynced(Dst, D)]
      /\ UNCHANGED <<has, file, row, rowDir, kept, aside, slot, sent, clock, dead>>
  BY DEF Inspect, Still, disk, state, events, bounds
<1>2. job.at = "inspect" /\ job.echo \in {"none", "content"}
  BY <1>1, Handling
<1>3. /\ job'.at = "aside" /\ job'.echo = job.echo /\ job'.dir = job.dir
      /\ job'.plan = job.plan /\ job'.inv = job.inv /\ job'.scope = job.scope
  BY <1>1 DEF Inv, JobOK, Job
<1>4. NoNewMail
  BY <1>1, Mail DEF Inv
<1>5. \A x \in Side, q \in Files : ~Copying(x, q[1])'
  BY <1>3 DEF Copying
<1>6. Steady' /\ Numbered' /\ NothingLost' /\ \A q \in Files : PathInv(q)'
  BY <1>1, <1>2, <1>3, <1>4, <1>5, JobGoesOn DEF At
<1>7. Planned'
  BY <1>1, <1>3, PlanGoesOn
<1>8. Copied'
  BY <1>3 DEF Copied
<1> QED BY <1>6, <1>7, <1>8 DEF VersionInv

\* What a removal is about.
LEMMA RemovingFacts ==
    ASSUME TreeAssumption, Inv, VersionInv, RemovalInv, Doing("aside"),
           NEW d, NEW s, NEW t, d = job.dir, s = job.src, t = Dst
    PROVE  /\ d \in Dirs /\ up /\ s \in Side /\ t \in Side /\ t = Other(s) /\ s = Other(t) /\ s # t
           /\ \A x \in Side : x \in {s, t} /\ ~Leaving(x, d)
           /\ ~Erasing(d) /\ job.at = "aside" /\ job.todo \subseteq In(d) /\ Expendable(s, d)
           /\ \A p \in In(d) : /\ p \in Files /\ p[1] = d
                               /\ p \in job.todo <=> FileOf(t, p) /\ row[t][p] # file[t][p]
                               /\ p \in job.todo => row[t][p] = 0
                               /\ FileOf(t, p) /\ p \notin job.todo => Twin(t, p)
                               /\ Leaving(t, p) => Spare(s, p)
<1>1. /\ d \in Dirs /\ up /\ s \in Side /\ t \in Side /\ t = Other(s) /\ s = Other(t) /\ s # t
      /\ \A x \in Side : x \in {s, t} /\ ~Leaving(x, d)
      /\ job.at = "aside"
  BY InHand, Handling DEF RemovalInv, Working, At
<1>2. Gone(s, d) /\ ~Erasing(d)
  BY <1>1 DEF Gone, Erasing
<1>3. Expendable(s, d)
  BY <1>1, <1>2 DEF RemovalInv, Removals
<1>4. /\ job.todo \subseteq In(d)
      /\ \A p \in In(d) : p \in job.todo <=> FileOf(t, p) /\ row[t][p] # file[t][p]
  BY <1>1 DEF RemovalInv, JobInv, Inspected
<1>5. \A p \in In(d) : p \in Files /\ p[1] = d /\ Removable(s, p)
  BY <1>1, <1>3, FilesAre DEF Expendable
<1>6. ASSUME NEW p \in In(d)
      PROVE  /\ p \in job.todo => row[t][p] = 0
             /\ FileOf(t, p) /\ p \notin job.todo => Twin(t, p)
             /\ Leaving(t, p) => Spare(s, p)
  BY <1>1, <1>4, <1>5 DEF Removable
<1> QED BY <1>1, <1>2, <1>3, <1>4, <1>5, <1>6

LEMMA AsideEffect ==
    ASSUME TreeAssumption, Inv, VersionInv, RemovalInv, MoveAside,
           NEW d, NEW s, NEW t, d = job.dir, s = job.src, t = Dst
    PROVE  \E p \in job.todo :
               /\ p \in In(d) /\ p \in Files
               /\ aside' = aside \cup {file[t][p]}
               /\ \A x \in Side, q \in Files :
                      file'[x][q] = IF x = t /\ q = p THEN 0 ELSE file[x][q]
               /\ job' = [job EXCEPT !.todo = @ \ {p}]
               /\ Doing("aside") /\ up' = up
               /\ UNCHANGED <<has, kept, row, rowDir, slot, sent, dead, clock>>
<1>1. /\ Doing("aside") /\ up' = up
      /\ UNCHANGED <<has, kept, row, rowDir, slot, sent, dead, clock>>
  BY DEF MoveAside, Still, state, events, bounds
<1>2. PICK p \in job.todo :
        \/ /\ aside' = aside \cup {file[t][p]} /\ file' = [file EXCEPT ![t][p] = 0]
           /\ job' = [job EXCEPT !.todo = @ \ {p}]
        \/ ~FileOf(t, p)
  BY DEF MoveAside
<1>3. p \in In(d) /\ p \in Files /\ FileOf(t, p)
  BY <1>1, <1>2, RemovingFacts
<1>4. \A x \in Side, q \in Files : file'[x][q] = IF x = t /\ q = p THEN 0 ELSE file[x][q]
  BY <1>2, <1>3 DEF Inv, DiskOK
<1> QED BY <1>1, <1>2, <1>3, <1>4

LEMMA MoveAsideRemoval ==
    ASSUME TreeAssumption, Careful, Inv, Inv', VersionInv, RemovalInv, MoveAside
    PROVE  RemovalInv'
<1> PICK d, s, t : d = job.dir /\ s = job.src /\ t = Dst
  OBVIOUS
<1>1. PICK p \in job.todo :
        /\ p \in In(d) /\ p \in Files /\ aside' = aside \cup {file[t][p]}
        /\ \A x \in Side, q \in Files :
               file'[x][q] = IF x = t /\ q = p THEN 0 ELSE file[x][q]
        /\ job' = [job EXCEPT !.todo = @ \ {p}] /\ Doing("aside") /\ up' = up
        /\ UNCHANGED <<has, kept, row, rowDir, slot, sent, dead>>
  BY AsideEffect
<1>2. /\ d \in Dirs /\ up /\ s \in Side /\ t \in Side /\ t = Other(s) /\ s = Other(t) /\ s # t
      /\ \A x \in Side : x \in {s, t} /\ ~Leaving(x, d)
      /\ job.at = "aside" /\ job.todo \subseteq In(d)
      /\ \A q \in In(d) : /\ q \in Files /\ q[1] = d
                          /\ q \in job.todo <=> FileOf(t, q) /\ row[t][q] # file[t][q]
                          /\ Leaving(t, q) => Spare(s, q)
  BY <1>1, RemovingFacts
<1>3. /\ job'.at = "aside" /\ job'.dir = d /\ job'.src = s /\ job'.scope = job.scope
      /\ job'.todo = job.todo \ {p}
  BY <1>1, <1>2 DEF Inv, JobOK, Job
<1>4. EventInv' /\ \A x \in Side, q \in Dirs \cup Files : Leaving(x, q)' => Leaving(x, q)
  BY <1>1, CalmEvents DEF RemovalInv
<1>5. JobInv'
  <2>1. Undisturbed'
    BY <1>2, <1>3, <1>4 DEF Undisturbed
  <2>2. CaughtUp'
    BY <1>3, <1>4 DEF RemovalInv, JobInv, CaughtUp
  <2>3. ASSUME NEW q \in In(d)
        PROVE  q \in job'.todo <=> FileOf(t, q)' /\ row'[t][q] # file'[t][q]
    BY <1>1, <1>2, <1>3 DEF FileOf
  <2>4. Inspected'
    BY <1>2, <1>3, <2>3 DEF Inspected
  <2> QED BY <1>1, <1>2, <1>3, <2>1, <2>2, <2>4 DEF JobInv, Recording, Down
<1>6. \A x \in Side, e \in Dirs : Gone(x, e)' => Gone(x, e)
  BY <1>1, <1>2, <1>3, <1>4, GoneBefore DEF Erasing
<1>7. ASSUME NEW x \in Side, Gone(x, d)' PROVE Expendable(x, d)'
  <2>1. Expendable(x, d)
    BY <1>2, <1>6, <1>7 DEF RemovalInv, Removals
  <2>2. ASSUME NEW q \in In(d) PROVE Removable(x, q)'
    <3>1. q \in Files /\ Removable(x, q)
      BY <1>2, <2>1 DEF Expendable
    <3>2. CASE q # p
      <4>1. \A y \in Side : file'[y][q] = file[y][q] /\ row'[y][q] = row[y][q]
        BY <1>1, <3>1, <3>2
      <4>2. aside \subseteq aside' /\ dead \subseteq dead'
        BY <1>1
      <4>3. Leaving(Other(x), q)' => Leaving(Other(x), q)
        BY <1>4, <3>1, Sides
      <4> QED BY <3>1, <4>1, <4>2, <4>3, RemovableStays
    <3>3. CASE q = p
      <4>1. /\ file'[t][p] = 0 /\ file'[s][p] = file[s][p] /\ row' = row
            /\ Spare(s, p) => Spare(s, p)'
        BY <1>1, <1>2 DEF Spare
      <4>2. Spare(t, p)' /\ Twin(t, p)' /\ ~FileOf(t, p)'
        BY <4>1 DEF Spare, Twin, FileOf
      <4>3. CASE x = s
        <5>1. Leaving(t, p)' => Spare(s, p)'
          BY <1>1, <1>2, <1>4, <4>1
        <5> QED BY <1>2, <3>3, <4>2, <4>3, <5>1 DEF Removable, CopySafe
      <4>4. CASE x = t
        <5>1. Twin(s, p) => Twin(s, p)'
          BY <1>1, <1>2, <4>1 DEF Twin, Spare
        <5>2. FileOf(s, p)' => FileOf(s, p)
          BY <4>1 DEF FileOf
        <5> QED BY <1>2, <3>1, <3>3, <4>1, <4>2, <4>4, <5>1, <5>2 DEF Removable, CopySafe
      <4> QED BY <1>2, <4>3, <4>4
    <3> QED BY <3>2, <3>3
  <2> QED BY <1>1, <2>1, <2>2 DEF Expendable, In
<1>8. Removals'
  <2>1. \A q \in Files : q[1] # d => q # p
    BY <1>1, <1>2
  <2>2. \A x \in Side, q \in Files : q[1] # d =>
            /\ file'[x][q] = file[x][q] /\ row'[x][q] = row[x][q]
            /\ Leaving(x, q)' => Leaving(x, q)
    BY <1>1, <1>4, <2>1
  <2>3. /\ aside \subseteq aside' /\ dead \subseteq dead'
        /\ \A x \in Side, e \in Dirs : e # d => kept'[x][e] = kept[x][e]
    BY <1>1
  <2>4. \A x \in Side : d \in Dirs /\ Gone(x, d)' => Expendable(x, d)'
    BY <1>7
  <2> QED BY <1>6, <2>2, <2>3, <2>4, RemovalsStay DEF RemovalInv
<1> QED BY <1>4, <1>5, <1>8 DEF RemovalInv

LEMMA MoveAsideKeeps ==
    ASSUME TreeAssumption, Inv, VersionInv, RemovalInv, MoveAside
    PROVE  VersionInv'
<1> PICK d, s, t : d = job.dir /\ s = job.src /\ t = Dst
  OBVIOUS
<1>1. PICK p \in job.todo :
        /\ p \in In(d) /\ p \in Files /\ aside' = aside \cup {file[t][p]}
        /\ \A x \in Side, q \in Files :
               file'[x][q] = IF x = t /\ q = p THEN 0 ELSE file[x][q]
        /\ job' = [job EXCEPT !.todo = @ \ {p}] /\ Doing("aside")
        /\ UNCHANGED <<has, kept, row, rowDir, slot, sent, dead, clock>>
  BY AsideEffect
<1>2. /\ d \in Dirs /\ s \in Side /\ t \in Side /\ t = Other(s) /\ s = Other(t) /\ s # t
      /\ \A x \in Side : x \in {s, t}
      /\ ~Erasing(d) /\ job.at = "aside" /\ p[1] = d /\ row[t][p] = 0
      /\ Leaving(t, p) => Spare(s, p)
  BY <1>1, RemovingFacts
<1>3. /\ job'.at = "aside" /\ job'.echo = job.echo /\ job'.dir = job.dir
      /\ job'.plan = job.plan /\ job'.inv = job.inv /\ job'.scope = job.scope
      /\ job.echo \in {"none", "content"}
  BY <1>1, <1>2, Handling DEF Inv, JobOK, Job
<1>4. NoNewMail
  BY <1>1, Mail DEF Inv
<1>5. /\ \A x \in Side, q \in Files : Leaving(x, q)' => Leaving(x, q)
      /\ \A x \in Side, e \in Dirs : Heralded(x, e)' => Heralded(x, e)
  BY <1>1, <1>4, EventsFewer
<1>6. \A x \in Side, q \in Files : Coming(x, q[1])' => Coming(x, q[1])
  BY <1>3, <1>5, InvFacts DEF Coming, Copying
<1>7. ASSUME NEW q \in Files PROVE PathInv(q)'
  <2>1. CASE q # p
    <3>1. /\ \A x \in Side : file'[x][q] = file[x][q] /\ row'[x][q] = row[x][q]
          /\ dead \subseteq dead' /\ aside \subseteq aside'
      BY <1>1, <2>1
    <3>2. ~Erasing(q[1])
      BY <1>2 DEF Erasing
    <3> QED BY <1>5, <1>6, <3>1, <3>2, PathStays DEF VersionInv
  <2>2. CASE q = p
    <3>1. /\ file'[t][p] = 0 /\ file'[s][p] = file[s][p] /\ row' = row
          /\ Spare(s, p) => Spare(s, p)'
      BY <1>1, <1>2 DEF Spare
    <3>2. Leaving(t, p)' => Spare(s, p)'
      BY <1>1, <1>2, <1>5, <3>1
    <3>3. Departure(s, p)' /\ Departure(t, p)' /\ Arrival(s, p)' /\ Arrival(t, p)'
      BY <1>1, <1>2, <3>1, <3>2, VacatedPath
    <3>4. Blame(s, p)'
      BY <1>2, <3>1 DEF Blame, Spare
    <3>5. Blame(t, p)'
      BY <1>2, <3>1 DEF Blame
    <3> QED BY <1>2, <2>2, <3>3, <3>4, <3>5 DEF PathInv
  <2> QED BY <2>1, <2>2
<1>8. Numbered'
  <2>1. 0 <= clock
    BY InvFacts
  <2> QED BY <1>1, <2>1 DEF VersionInv, Numbered
<1>9. NothingLost'
  <2>1. \A x \in Side, q \in Files :
            file[x][q] \in dead' \cup aside' \cup {0} \/ \E y \in Side : file'[y][q] = file[x][q]
    BY <1>1
  <2> QED BY <1>1, <2>1, StillThere DEF VersionInv
<1>10. Planned'
  <2>1. D = d
    BY DEF D
  <2>2. \A q \in Files \ In(D) : \A x \in Side : file'[x][q] = file[x][q]
    BY <1>1, <2>1
  <2> QED BY <1>1, <1>3, <2>2, PlanGoesOn
<1>11. Steady' /\ Copied'
  BY <1>3, <1>4, SteadyRemains DEF VersionInv, Copied, At
<1> QED BY <1>7, <1>8, <1>9, <1>10, <1>11 DEF VersionInv

LEMMA RmTreeEffect ==
    ASSUME TreeAssumption, Inv, VersionInv, RemovalInv, RmTree,
           NEW d, NEW s, NEW t, d = job.dir, s = job.src, t = Dst
    PROVE  /\ Doing("aside") /\ job.todo = {} /\ up' = up
           /\ UNCHANGED <<aside, row, rowDir, slot, sent, clock, dead>>
           /\ \A x \in Side, q \in Files :
                  file'[x][q] = IF x = t /\ q \in In(d) THEN 0 ELSE file[x][q]
           /\ \A x \in Side, e \in Dirs :
                  /\ e \in has'[x] <=> e \in has[x] /\ ~(x = t /\ e = d)
                  /\ kept'[x][e] = IF x = t /\ e = d THEN {} ELSE kept[x][e]
           /\ job'.at = "unrecord" /\ job'.dir = d /\ job'.src = s /\ job'.scope = job.scope
           /\ job'.plan = job.plan /\ job'.inv = job.inv /\ (NoNewMail)
<1> DEFINE echo == IF d \in has[t] THEN "delete" ELSE "none"
<1>1. /\ Doing("aside") /\ job.todo = {} /\ up' = up
      /\ UNCHANGED <<aside, row, rowDir, slot, sent, clock, dead>>
      /\ has' = [has EXCEPT ![t] = @ \ {d}]
      /\ file' = [file EXCEPT ![t] = [q \in Files |-> IF q \in In(d) THEN 0 ELSE @[q]]]
      /\ kept' = [kept EXCEPT ![t][d] = {}]
      /\ job' = [job EXCEPT !.at = "unrecord", !.echo = echo]
  BY DEF RmTree, Still, state, events, bounds, D
<1>2. d \in Dirs /\ t \in Side
  BY <1>1, RemovingFacts
<1> HIDE DEF echo
<1>3. NoNewMail
  BY <1>1, Mail DEF Inv
<1>4. /\ \A x \in Side, q \in Files :
             file'[x][q] = IF x = t /\ q \in In(d) THEN 0 ELSE file[x][q]
      /\ \A x \in Side, e \in Dirs :
             /\ e \in has'[x] <=> e \in has[x] /\ ~(x = t /\ e = d)
             /\ kept'[x][e] = IF x = t /\ e = d THEN {} ELSE kept[x][e]
  BY <1>1, <1>2 DEF Inv, DiskOK
<1>5. /\ job'.at = "unrecord" /\ job'.dir = d /\ job'.src = s /\ job'.scope = job.scope
      /\ job'.plan = job.plan /\ job'.inv = job.inv
  BY <1>1 DEF Inv, JobOK, Job
<1> QED BY <1>1, <1>3, <1>4, <1>5

LEMMA RmTreeKeeps ==
    ASSUME TreeAssumption, Inv, VersionInv, RemovalInv, RmTree
    PROVE  VersionInv'
<1> PICK d, s, t : d = job.dir /\ s = job.src /\ t = Dst
  OBVIOUS
<1>1. /\ Doing("aside") /\ job.todo = {} /\ NoNewMail
      /\ UNCHANGED <<aside, row, rowDir, slot, sent, clock, dead>>
      /\ \A x \in Side, q \in Files :
             file'[x][q] = IF x = t /\ q \in In(d) THEN 0 ELSE file[x][q]
      /\ \A x \in Side, e \in Dirs :
             /\ e \in has'[x] <=> e \in has[x] /\ ~(x = t /\ e = d)
             /\ kept'[x][e] = IF x = t /\ e = d THEN {} ELSE kept[x][e]
      /\ job'.at = "unrecord" /\ job'.dir = d /\ job'.scope = job.scope
      /\ job'.plan = job.plan /\ job'.inv = job.inv
  BY RmTreeEffect
<1>2. /\ d \in Dirs /\ s \in Side /\ t \in Side /\ t = Other(s) /\ s = Other(t) /\ s # t
      /\ \A x \in Side : x \in {s, t}
      /\ job.at = "aside" /\ Expendable(s, d)
      /\ \A p \in In(d) : /\ p \in Files /\ p[1] = d
                          /\ FileOf(t, p) => Twin(t, p)
                          /\ Leaving(t, p) => Spare(s, p)
  BY <1>1, RemovingFacts
<1>3. /\ \A x \in Side, q \in Files : Leaving(x, q)' => Leaving(x, q)
      /\ \A x \in Side, e \in Dirs : Heralded(x, e)' => Heralded(x, e)
  BY <1>1, EventsFewer
<1>4. \A x \in Side, q \in Files : Coming(x, q[1])' => Coming(x, q[1])
  BY <1>1, <1>3, InvFacts DEF Coming, Copying
<1>5. ASSUME NEW q \in Files PROVE PathInv(q)'
  <2>1. CASE q \notin In(d)
    <3>1. /\ \A x \in Side : file'[x][q] = file[x][q] /\ row'[x][q] = row[x][q]
          /\ dead \subseteq dead' /\ aside \subseteq aside'
      BY <1>1, <2>1
    <3>2. ~Erasing(q[1])
      BY <1>2 DEF Erasing
    <3> QED BY <1>3, <1>4, <3>1, <3>2, PathStays DEF VersionInv
  <2>2. CASE q \in In(d)
    <3>1. file'[t][q] = 0 /\ file'[s][q] = file[s][q] /\ (Spare(s, q) => Spare(s, q)')
      BY <1>1, <1>2, <2>2 DEF Spare
    <3>2. Leaving(t, q)' => Spare(s, q)'
      BY <1>2, <1>3, <2>2, <3>1
    <3>3. Departure(s, q)' /\ Departure(t, q)' /\ Arrival(s, q)' /\ Arrival(t, q)'
      BY <1>2, <3>1, <3>2, VacatedPath
    <3>4. Erasing(q[1])'
      BY <1>1, <1>2, <2>2 DEF Erasing
    <3> QED BY <1>2, <3>3, <3>4 DEF PathInv
  <2> QED BY <2>1, <2>2
<1>6. Numbered'
  <2>1. 0 <= clock
    BY InvFacts
  <2> QED BY <1>1, <2>1 DEF VersionInv, Numbered
<1>7. NothingLost'
  <2>1. ASSUME NEW x \in Side, NEW q \in Files
        PROVE  \/ file[x][q] \in dead' \cup aside' \cup {0}
               \/ \E y \in Side : file'[y][q] = file[x][q]
    <3>1. CASE x = t /\ q \in In(d)
      <4>1. file'[s][q] = file[s][q]
        BY <1>1, <1>2
      <4>2. file[t][q] \in dead \cup aside \cup {0} \/ file[t][q] = file[s][q]
        BY <1>2, <3>1 DEF FileOf, Twin, Spare
      <4> QED BY <1>1, <1>2, <3>1, <4>1, <4>2
    <3>2. CASE ~(x = t /\ q \in In(d))
      BY <1>1, <3>2
    <3> QED BY <3>1, <3>2
  <2>2. \A x \in Side, e \in Dirs :
            kept[x][e] \subseteq dead' \cup aside' \cup kept'[x][e] \cup kept'[Other(x)][e]
    <3>1. kept[t][d] \subseteq dead \cup aside \cup kept[s][d]
      BY <1>2 DEF Expendable
    <3>2. kept'[s][d] = kept[s][d]
      BY <1>1, <1>2
    <3> QED BY <1>1, <1>2, <3>1, <3>2
  <2> QED BY <1>1, <2>1, <2>2, StillThere DEF VersionInv
<1>8. Planned'
  <2>1. D = d
    BY DEF D
  <2>2. \A q \in Files \ In(D) : \A x \in Side : file'[x][q] = file[x][q]
    BY <1>1, <2>1
  <2>3. \A e \in Dirs \ {D} : \A x \in Side : e \in has[x] <=> e \in has'[x]
    BY <1>1, <2>1
  <2>4. /\ job'.plan = job.plan /\ job'.inv = job.inv /\ job'.scope = job.scope
        /\ job'.dir = job.dir /\ job'.at \notin {"idle", "scan"}
    BY <1>1
  <2> QED BY <1>1, <2>2, <2>3, <2>4, PlanGoesOn
<1>9. Steady' /\ Copied'
  BY <1>1 DEF VersionInv, Steady, NoNewMail, Copied
<1> QED BY <1>5, <1>6, <1>7, <1>8, <1>9 DEF VersionInv

LEMMA RmTreeRemoval ==
    ASSUME TreeAssumption, Careful, Inv, Inv', VersionInv, RemovalInv, RmTree
    PROVE  RemovalInv'
<1> PICK d, s, t : d = job.dir /\ s = job.src /\ t = Dst
  OBVIOUS
<1>1. /\ Doing("aside") /\ up' = up /\ UNCHANGED <<aside, row, rowDir, slot, sent, dead>>
      /\ \A x \in Side, q \in Files :
             file'[x][q] = IF x = t /\ q \in In(d) THEN 0 ELSE file[x][q]
      /\ \A x \in Side, e \in Dirs :
             /\ e \in has'[x] <=> e \in has[x] /\ ~(x = t /\ e = d)
             /\ kept'[x][e] = IF x = t /\ e = d THEN {} ELSE kept[x][e]
      /\ job'.at = "unrecord" /\ job'.dir = d /\ job'.src = s /\ job'.scope = job.scope
  BY RmTreeEffect
<1>2. /\ d \in Dirs /\ up /\ job.at = "aside" /\ \A x \in Side : ~Leaving(x, d)
  BY <1>1, RemovingFacts
<1>3. EventInv' /\ \A x \in Side, q \in Dirs \cup Files : Leaving(x, q)' => Leaving(x, q)
  BY <1>1, <1>2, CalmEvents DEF RemovalInv
<1>4. JobInv'
  BY <1>1, <1>2, <1>3, JobRemains DEF RemovalInv, Inv, Working, At
<1>5. \A x \in Side, e \in Dirs : e # d => (Gone(x, e)' => Gone(x, e))
  BY <1>1, <1>2, <1>3 DEF Gone, Erasing
<1>6. \A x \in Side : d \in Dirs /\ Gone(x, d)' => Expendable(x, d)'
  BY <1>1, <1>2, <1>3 DEF Gone, Erasing
<1>7. Removals'
  <2>1. \A q \in Files : q[1] # d => q \notin In(d)
    BY <1>2, FilesAre
  <2>2. \A x \in Side, q \in Files : q[1] # d =>
            /\ file'[x][q] = file[x][q] /\ row'[x][q] = row[x][q]
            /\ Leaving(x, q)' => Leaving(x, q)
    BY <1>1, <1>3, <2>1
  <2>3. aside \subseteq aside' /\ dead \subseteq dead'
    BY <1>1
  <2>4. \A x \in Side, e \in Dirs : e # d => kept'[x][e] = kept[x][e]
    BY <1>1
  <2> QED BY <1>5, <1>6, <2>2, <2>3, <2>4, RemovalsStay, SMTT(30) DEF RemovalInv
<1> QED BY <1>3, <1>4, <1>7 DEF RemovalInv

LEMMA UnrecordEffect ==
    ASSUME TreeAssumption, Careful, Inv, VersionInv, Unrecord, NEW d, d = job.dir
    PROVE  /\ Doing("unrecord") /\ job.at = "unrecord" /\ up /\ up' = up /\ d \in Dirs
           /\ UNCHANGED <<has, file, kept, aside, slot, sent, clock, dead>> /\ NoNewMail
           /\ job' = Ended /\ job'.at \in {"idle", "next"} /\ job'.echo = "none"
           /\ \A x \in Side, e \in Dirs : e \in rowDir'[x] <=> e \in rowDir[x] /\ e # d
           /\ \A x \in Side, q \in Files : row'[x][q] = IF q \in In(d) THEN 0 ELSE row[x][q]
<1>1. /\ Doing("unrecord") /\ up' = up /\ DeleteRows(d) /\ job' = Ended /\ Leak
      /\ UNCHANGED <<has, file, kept, aside, clock, dead>>
  BY DEF Unrecord, Finish, Still, disk, bounds, D
<1>2. UNCHANGED <<slot, sent>>
  BY <1>1, LeakNone
<1>3. NoNewMail
  BY <1>2, Mail DEF Inv
<1>4. job.at = "unrecord" /\ up /\ d \in Dirs
  BY <1>1, Handling DEF Doing
<1>5. job'.at \in {"idle", "next"} /\ job'.echo = "none"
  BY <1>1, EndedPlan DEF VersionInv
<1>6. /\ \A x \in Side, e \in Dirs : e \in rowDir'[x] <=> e \in rowDir[x] /\ e # d
      /\ \A x \in Side, q \in Files : row'[x][q] = IF q \in In(d) THEN 0 ELSE row[x][q]
  BY <1>1 DEF DeleteRows, Inv, RowsOK
<1> QED BY <1>1, <1>2, <1>3, <1>4, <1>5, <1>6

LEMMA UnrecordKeeps ==
    ASSUME TreeAssumption, Careful, Inv, VersionInv, Unrecord
    PROVE  VersionInv'
<1> PICK d : d = job.dir
  OBVIOUS
<1>1. /\ Doing("unrecord") /\ job.at = "unrecord" /\ d \in Dirs
      /\ UNCHANGED <<has, file, kept, aside, slot, sent, clock, dead>> /\ NoNewMail
      /\ job' = Ended /\ job'.at \in {"idle", "next"} /\ job'.echo = "none"
      /\ \A x \in Side, q \in Files : row'[x][q] = IF q \in In(d) THEN 0 ELSE row[x][q]
  BY UnrecordEffect
<1>2. /\ \A x \in Side, q \in Files : Leaving(x, q)' => Leaving(x, q)
      /\ \A x \in Side, e \in Dirs : Heralded(x, e)' => Heralded(x, e)
  BY <1>1, EventsFewer
<1>3. \A x \in Side, q \in Files : Coming(x, q[1])' => Coming(x, q[1])
  BY <1>1, <1>2, InvFacts DEF Coming, Copying
<1>4. ASSUME NEW q \in Files PROVE PathInv(q)'
  <2>1. CASE q \notin In(d)
    <3>1. /\ \A x \in Side : file'[x][q] = file[x][q] /\ row'[x][q] = row[x][q]
          /\ dead \subseteq dead' /\ aside \subseteq aside'
      BY <1>1, <2>1
    <3>2. q[1] # d
      BY <1>1, <2>1, FilesAre
    <3>3. ~Erasing(q[1])
      BY <3>2 DEF Erasing
    <3> QED BY <1>2, <1>3, <3>1, <3>3, PathStays DEF VersionInv
  <2>2. CASE q \in In(d)
    <3>1. ASSUME NEW x \in Side PROVE Blame(x, q)' /\ Departure(x, q)' /\ Arrival(x, q)'
      <4>1. Departure(x, q) /\ Arrival(x, q) /\ Other(x) \in Side
        BY <3>1, Sides DEF VersionInv, PathInv
      <4>2. /\ Twin(Other(x), q) => Twin(Other(x), q)'
            /\ Spare(x, q) => Spare(x, q)'
            /\ FileOf(x, q)' => FileOf(x, q)
        BY <1>1 DEF Twin, Spare, FileOf
      <4>3. Departure(x, q)'
        BY <1>2, <4>1, <4>2 DEF Departure
      <4>4. Arrival(x, q)'
        BY <1>3, <4>1, <4>2 DEF Arrival, CopySafe
      <4>5. Blame(x, q)'
        BY <1>1, <2>2 DEF Blame
      <4> QED BY <4>3, <4>4, <4>5
    <3> QED BY <3>1 DEF PathInv
  <2> QED BY <2>1, <2>2
<1>5. Numbered'
  <2>1. 0 <= clock
    BY InvFacts
  <2> QED BY <1>1, <2>1 DEF VersionInv, Numbered
<1>6. NothingLost'
  <2>1. \A x \in Side, q \in Files : \E y \in Side : file'[y][q] = file[x][q]
    BY <1>1
  <2> QED BY <1>1, <2>1, StillThere DEF VersionInv
<1>7. Planned'
  BY <1>1, PlanGoesOn
<1>8. Steady' /\ Copied'
  BY <1>1, SteadyRemains DEF VersionInv, Copied, At
<1> QED BY <1>4, <1>5, <1>6, <1>7, <1>8 DEF VersionInv

LEMMA UnrecordRemoval ==
    ASSUME TreeAssumption, Careful, Inv, Inv', VersionInv, RemovalInv, Unrecord
    PROVE  RemovalInv'
<1> PICK d : d = job.dir
  OBVIOUS
<1>1. /\ Doing("unrecord") /\ job.at = "unrecord" /\ up /\ up' = up /\ d \in Dirs
      /\ UNCHANGED <<has, file, kept, aside, slot, sent, dead>>
      /\ job' = Ended /\ job'.at \in {"idle", "next"}
      /\ \A x \in Side, e \in Dirs : e \in rowDir'[x] <=> e \in rowDir[x] /\ e # d
      /\ \A x \in Side, q \in Files : row'[x][q] = IF q \in In(d) THEN 0 ELSE row[x][q]
  BY UnrecordEffect
<1>2. \A x \in Side : ~Leaving(x, d)
  BY <1>1, InHand DEF RemovalInv, Working, At
<1>3. EventInv' /\ \A x \in Side, q \in Dirs \cup Files : Leaving(x, q)' => Leaving(x, q)
  BY <1>1, CalmEvents DEF RemovalInv
<1>4. JobInv'
  BY <1>1, <1>3, JobEnds DEF RemovalInv
<1>5. \A x \in Side, e \in Dirs : e # d => (Gone(x, e)' => Gone(x, e))
  BY <1>1, <1>3 DEF Gone, Erasing
<1>6. \A x \in Side : d \in Dirs /\ Gone(x, d)' => Expendable(x, d)'
  BY <1>1, <1>2, <1>3 DEF Gone
<1>7. Removals'
  <2>1. \A q \in Files : q[1] # d => q \notin In(d)
    BY <1>1, FilesAre
  <2>2. \A x \in Side, q \in Files : q[1] # d =>
            /\ file'[x][q] = file[x][q] /\ row'[x][q] = row[x][q]
            /\ Leaving(x, q)' => Leaving(x, q)
    BY <1>1, <1>3, <2>1
  <2>3. /\ aside \subseteq aside' /\ dead \subseteq dead'
        /\ \A x \in Side, e \in Dirs : e # d => kept'[x][e] = kept[x][e]
    BY <1>1
  <2>4. Removals
    BY DEF RemovalInv
  <2> QED BY <1>5, <1>6, <2>2, <2>3, <2>4, RemovalsStay
<1> QED BY <1>3, <1>4, <1>7 DEF RemovalInv

--------------------------------------------------------------------------------
(* A reconciliation starts when no deletion is pending, and none comes meanwhile. *)
LEMMA ScanRemoval ==
    ASSUME TreeAssumption, Careful, Inv, Inv', VersionInv, RemovalInv,
           StartResync \/ Scan \/ ReconcileDone
    PROVE  RemovalInv'
<1>1. up /\ up' = up /\ UNCHANGED <<has, file, kept, aside, row, rowDir, slot, sent, dead>>
  BY DEF StartResync, Scan, ReconcileDone, Doing, Still, disk, state, events, bounds
<1>2. EventInv' /\ \A x \in Side, q \in Dirs \cup Files : Leaving(x, q)' => Leaving(x, q)
  BY <1>1, CalmEvents DEF RemovalInv
<1>3. job'.at \in {"idle", "scan", "next"} /\ job.at \in {"idle", "scan", "next"} /\ JobInv'
  <2>1. CASE StartResync
    <3>1. job.at = "idle" /\ job'.at = "scan"
      BY <2>1, Resting DEF StartResync
    <3>2. ~Departing
      BY <2>1, NoHurry DEF StartResync
    <3>3. \A x \in Side, q \in Dirs \cup Files : ~Leaving(x, q)
      BY <3>2 DEF Departing, Leaving
    <3> QED BY <1>1, <1>2, <3>1, <3>3
            DEF JobInv, Undisturbed, CaughtUp, Recording, Inspected, Down, Working
  <2>2. CASE Scan
    <3>1. job.at = "scan" /\ job'.at = "next" /\ job'.scope = job.scope
      BY <2>2 DEF Scan, Doing, Inv, JobOK, Job
    <3> QED BY <1>1, <1>2, <3>1, JobRemains DEF RemovalInv, Inv, Working
  <2>3. CASE ReconcileDone
    <3>1. job.at = "next" /\ job'.at = "idle" /\ job'.scope = {}
      BY <2>3, Resting DEF ReconcileDone, Doing
    <3> QED BY <1>1, <1>2, <3>1, JobRemains DEF RemovalInv, Inv, Working
  <2> QED BY <2>1, <2>2, <2>3
<1>4. Removals'
  BY <1>1, <1>2, <1>3, RemovalsQuiet DEF RemovalInv, Erasing
<1> QED BY <1>2, <1>3, <1>4 DEF RemovalInv

\* The plan goes on.
LEMMA RestRemoval ==
    ASSUME TreeAssumption, Inv, Inv', VersionInv, RemovalInv, NEW P, Turn(P),
           job' = Rest({Ahead}), up' = up,
           \A x \in Side, q \in Dirs \cup Files : Leaving(x, q)' => Leaving(x, q)
    PROVE  job.at = "next" /\ job'.at = "next" /\ JobInv'
<1>1. up /\ job.at = "next" /\ job.scope # {}
  BY TurnFacts DEF Turn, Doing
<1>2. job'.at = "next" /\ job'.scope = job.scope
  BY <1>1 DEF Rest, Inv, JobOK, Job
<1>3. JobInv'
  BY <1>1, <1>2, JobRemains DEF RemovalInv, Inv, Working
<1> QED BY <1>1, <1>2, <1>3

LEMMA NoneLeaving ==
    ASSUME TreeAssumption, Inv, VersionInv, RemovalInv, NEW P, Turn(P)
    PROVE  \A x \in Side, q \in Dirs \cup Files : ~Leaving(x, q)
<1>1. job.scope # {}
  BY TurnFacts
<1> QED BY <1>1 DEF RemovalInv, JobInv, CaughtUp

LEMMA ReconcileDirRemoval ==
    ASSUME TreeAssumption, Careful, Inv, Inv', VersionInv, RemovalInv, ReconcileDir
    PROVE  RemovalInv'
<1>1. /\ Turn(Dirs) /\ job' = Rest({Ahead}) /\ up /\ up' = up
      /\ UNCHANGED <<has, file, kept, aside, row, slot, sent, dead>>
      /\ rowDir' \in {rowDir} \cup {[s \in Side |-> rowDir[s] \cup {d}] :
                                       d \in {Ahead} \cap has["A"] \cap has["B"]}
  BY DEF ReconcileDir, Turn, Doing, Still, disk, events, bounds
<1>2. EventInv' /\ \A x \in Side, q \in Dirs \cup Files : Leaving(x, q)' => Leaving(x, q)
  BY <1>1, CalmEvents DEF RemovalInv
<1>3. job.at = "next" /\ job'.at = "next" /\ JobInv'
  BY <1>1, <1>2, RestRemoval
<1>4. \A x \in Side : rowDir'[x] \ has'[x] \subseteq rowDir[x] \ has[x]
  BY <1>1, Sides
<1>5. Removals'
  BY <1>1, <1>2, <1>3, <1>4, RemovalsQuiet DEF RemovalInv, Erasing
<1> QED BY <1>2, <1>3, <1>5 DEF RemovalInv

LEMMA OneDirRemoval ==
    ASSUME TreeAssumption, Careful, Inv, Inv', VersionInv, RemovalInv, ReconcileOneDir
    PROVE  RemovalInv'
<1>1. PICK s \in Side, d \in Dirs :
        /\ Turn(Dirs) /\ up /\ up' = up
        /\ UNCHANGED <<has, file, kept, aside, row, rowDir, slot, sent, dead>>
        /\ job.at = "next" /\ d \notin has[Other(s)]
        /\ \/ job'.at = "mkdir"
           \/ job'.at = "inspect" /\ job'.src = Other(s) /\ d \in rowDir[Other(s)]
        /\ job'.dir = d /\ job'.scope = job.scope
  BY OneDirEffect
<1>2. EventInv' /\ \A x \in Side, q \in Dirs \cup Files : Leaving(x, q)' => Leaving(x, q)
  BY <1>1, CalmEvents DEF RemovalInv
<1>3. \A x \in Side : ~Leaving(x, d)'
  BY <1>1, <1>2, NoneLeaving
<1>4. job.scope # {} /\ Other(s) \in Side
  BY <1>1, TurnFacts, Sides
<1>5. JobInv'
  BY <1>1, <1>2, <1>3, <1>4, JobRemains DEF RemovalInv, Inv
<1>6. Removals'
  <2>1. job'.at \in {"inspect", "aside"} => Gone(job'.src, job'.dir)
    BY <1>1, <1>4 DEF Gone, Erasing
  <2> QED BY <1>1, <1>2, <2>1, RemovalsQuiet DEF RemovalInv, Erasing
<1> QED BY <1>2, <1>5, <1>6 DEF RemovalInv

LEMMA ReconcileOneFileRemoval ==
    ASSUME TreeAssumption, Careful, Inv, Inv', VersionInv, RemovalInv, ReconcileOneFile
    PROVE  RemovalInv'
<1>1. Turn(Files) /\ job' = Rest({Ahead}) /\ up /\ up' = up /\ UNCHANGED <<sent, dead>>
  BY DEF ReconcileOneFile, Turn, Doing, Still, bounds
<1>2. PICK p \in Files : p = Ahead
  BY <1>1, TurnFacts
<1>3. PICK s \in Side : RemoveFile(s, p) \/ PropagateContent(s, p, FALSE)
  BY <1>2 DEF ReconcileOneFile
<1>4. job.at = "next" /\ job'.at = "next" /\ p[1] \in Dirs
  BY <1>1, TurnFacts, InvFacts DEF Rest, Inv, JobOK, Job
<1>5. \A x \in Side, q \in Dirs \cup Files : ~Leaving(x, q)
  BY <1>1, NoneLeaving
<1>6. /\ EventInv' /\ Removals'
      /\ \A x \in Side, q \in Dirs \cup Files : Leaving(x, q)' => Leaving(x, q)
  <2>1. CASE RemoveFile(s, p)
    BY <1>1, <1>4, <2>1, RemoveRemovals
  <2>2. CASE PropagateContent(s, p, FALSE)
    BY <1>1, <1>4, <1>5, <2>2, PropagateRemovals
  <2> QED BY <1>3, <2>1, <2>2
<1>7. JobInv'
  BY <1>1, <1>6, RestRemoval
<1> QED BY <1>6, <1>7 DEF RemovalInv

LEMMA ReconcileFileRemoval ==
    ASSUME TreeAssumption, Careful, Inv, Inv', VersionInv, RemovalInv, ReconcileFile
    PROVE  RemovalInv'
<1>1. Turn(Files) /\ job' = Rest({Ahead}) /\ up /\ up' = up /\ UNCHANGED <<sent, dead>>
  BY DEF ReconcileFile, Turn, Doing, Still, bounds
<1>2. PICK p \in Files : p = Ahead
  BY <1>1, TurnFacts
<1>3. \/ \E s \in Side, forced \in BOOLEAN : PropagateContent(s, p, forced)
      \/ /\ UNCHANGED <<disk, rowDir, slot>>
         /\ \/ UNCHANGED row
            \/ FileOf("A", p) /\ FileOf("B", p) /\ SetRow(p, file["A"][p], file["B"][p])
  <2>1. Newer(p) \in Side
    BY Sides DEF Newer
  <2>2. Origin(p) # {} => (CHOOSE s \in Origin(p) : TRUE) \in Side
    BY DEF Origin
  <2> QED BY <1>2, <2>1, <2>2 DEF ReconcileFile, state
<1>4. job.at = "next" /\ job'.at = "next" /\ p[1] \in Dirs
  BY <1>1, TurnFacts, InvFacts DEF Rest, Inv, JobOK, Job
<1>5. \A x \in Side, q \in Dirs \cup Files : ~Leaving(x, q)
  BY <1>1, NoneLeaving
<1>6. /\ EventInv' /\ Removals'
      /\ \A x \in Side, q \in Dirs \cup Files : Leaving(x, q)' => Leaving(x, q)
  <2>1. CASE \E s \in Side, forced \in BOOLEAN : PropagateContent(s, p, forced)
    BY <1>1, <1>4, <1>5, <2>1, PropagateRemovals
  <2>2. CASE UNCHANGED <<disk, rowDir, slot>>
    <3>1. UNCHANGED <<has, file, kept, aside, rowDir, slot, sent, dead>>
      BY <1>1, <2>2 DEF disk
    <3>2. EventInv' /\ \A x \in Side, q \in Dirs \cup Files : Leaving(x, q)' => Leaving(x, q)
      BY <1>1, <3>1, CalmEvents DEF RemovalInv
    <3>3. CASE UNCHANGED row
      BY <1>4, <3>1, <3>2, <3>3, RemovalsQuiet DEF RemovalInv, Erasing
    <3>4. CASE FileOf("A", p) /\ FileOf("B", p) /\ SetRow(p, file["A"][p], file["B"][p])
      <4>1. \A x \in Side : p[1] \in has[x]
        BY <3>4, Sides, InvFacts DEF FileOf
      <4>2. \A x \in Side : ~Gone(x, p[1])'
        BY <1>4, <1>5, <3>1, <3>2, <4>1 DEF Gone
      <4>3. \A x \in Side, e \in Dirs : e # p[1] => (Gone(x, e)' => Gone(x, e))
        BY <1>4, <3>1, <3>2, GoneBefore DEF Erasing
      <4>4. \A x \in Side, q \in Files : q[1] # p[1] =>
                /\ file'[x][q] = file[x][q] /\ row'[x][q] = row[x][q]
                /\ Leaving(x, q)' => Leaving(x, q)
        <5>1. \A x \in Side, q \in Files : q # p => row'[x][q] = row[x][q]
          BY <3>4 DEF SetRow, Inv, RowsOK
        <5> QED BY <3>1, <3>2, <5>1
      <4>5. /\ aside \subseteq aside' /\ dead \subseteq dead'
            /\ \A x \in Side, e \in Dirs : e # p[1] => kept'[x][e] = kept[x][e]
        BY <3>1
      <4>6. Removals /\ \A x \in Side : p[1] \in Dirs /\ Gone(x, p[1])' => Expendable(x, p[1])'
        BY <4>2 DEF RemovalInv
      <4>7. Removals'
        BY <4>3, <4>4, <4>5, <4>6, RemovalsStay
      <4> QED BY <3>2, <4>7
    <3> QED BY <1>3, <2>1, <2>2, <3>2, <3>3, <3>4
  <2> QED BY <1>3, <2>1, <2>2
<1>7. JobInv'
  BY <1>1, <1>6, RestRemoval
<1> QED BY <1>6, <1>7 DEF RemovalInv

--------------------------------------------------------------------------------
(* Every step.                                                                    *)
LEMMA InitRemoval == TreeAssumption /\ Init => RemovalInv
<1> SUFFICES ASSUME TreeAssumption, Init PROVE RemovalInv
  OBVIOUS
<1>1. /\ \A s \in Side : has[s] = {} /\ rowDir[s] = {}
      /\ \A s \in Side, q \in Dirs \cup Files : slot[s][q] = "none"
      /\ sent = << >> /\ up /\ job.at = "idle" /\ job.scope = {}
  BY DEF Init, Nothing, Idle
<1>2. \A s \in Side, q \in Dirs \cup Files : ~Leaving(s, q)
  BY <1>1 DEF Leaving
<1>3. EventInv
  BY <1>1, <1>2 DEF EventInv, Once, InTurn, Vacated, OneSided, Silent
<1>4. JobInv
  BY <1>1 DEF JobInv, Undisturbed, CaughtUp, Recording, Inspected, Down, Working
<1>5. Removals
  BY <1>1, <1>2 DEF Removals, Gone
<1> QED BY <1>3, <1>4, <1>5 DEF RemovalInv

LEMMA StutterRemoval ==
    ASSUME TreeAssumption, Inv, RemovalInv, UNCHANGED vars
    PROVE  RemovalInv'
<1>1. UNCHANGED <<has, file, kept, aside, row, rowDir, slot, sent, job, up, dead>>
  BY DEF vars, disk, state, events, bounds
<1>2. EventInv' /\ \A x \in Side, q \in Dirs \cup Files : Leaving(x, q)' => Leaving(x, q)
  BY <1>1, CalmEvents DEF RemovalInv
<1>3. JobInv'
  <2>1. job.at \in Working => job.dir \in Dirs
    BY DEF Inv, JobOK
  <2> QED BY <1>1, <1>2, <2>1 DEF RemovalInv, JobInv, Undisturbed, CaughtUp, Recording,
                                  Inspected, Down, In, FileOf
<1>4. Removals'
  BY <1>1, <1>2, RemovalsQuiet DEF RemovalInv, Erasing
<1> QED BY <1>2, <1>3, <1>4 DEF RemovalInv

LEMMA NobodyRenames ==
    ASSUME Careful, Inv, VersionInv
    PROVE  /\ \A s \in Side, d, e \in Dirs : ~RenameDir(s, d, e)
           /\ ~ProcessMove /\ ~MoveDir /\ ~Renote
<1>1. ~Acts("rename")
  BY DEF Careful, Acts
<1>2. ASSUME NEW s \in Side, NEW d \in Dirs, NEW e \in Dirs, RenameDir(s, d, e) PROVE FALSE
  BY <1>1, <1>2 DEF RenameDir
<1>3. ~MoveDir /\ ~Renote
  BY DEF VersionInv, Steady, MoveDir, Renote, Doing
<1>4. ASSUME ProcessMove PROVE FALSE
  <2>1. sent # << >> /\ Head(sent).kind = "move" /\ sent \in Seq(Letters)
    BY <1>4 DEF ProcessMove, Taking, Ev, Inv, EventsOK
  <2>2. 1 \in DOMAIN sent /\ sent[1].kind = "move"
    BY <2>1
  <2> QED BY <2>2 DEF VersionInv, Steady
<1> QED BY <1>2, <1>3, <1>4

LEMMA RemovalStep ==
    ASSUME TreeAssumption, Careful, Inv, Inv', VersionInv, RemovalInv, [Next]_vars
    PROVE  VersionInv' /\ RemovalInv'
<1>1. CASE UNCHANGED vars
  BY <1>1, StutterKeeps, StutterRemoval
<1>2. CASE UserStep
  <2>1. PICK s \in Side : \/ \E d \in Dirs : MakeDir(s, d) \/ RemoveTree(s, d)
                          \/ \E p \in Files : Write(s, p) \/ Delete(s, p)
    BY <1>2, NobodyRenames DEF UserStep
  <2>2. CASE \E d \in Dirs : MakeDir(s, d)
    BY <2>2, NoHurry, MakeDirKeeps, MakeDirRemoval
  <2>3. CASE \E d \in Dirs : RemoveTree(s, d)
    BY <2>3, RemoveTreeKeeps, RemoveTreeRemoval
  <2>4. CASE \E p \in Files : Write(s, p)
    BY <2>4, NoHurry, WriteKeeps, WriteRemoval
  <2>5. CASE \E p \in Files : Delete(s, p)
    BY <2>5, NoHurry, DeleteKeeps, DeleteRemoval
  <2> QED BY <2>1, <2>2, <2>3, <2>4, <2>5
<1>3. CASE Process
  <2>1. CASE ProcessFile
    BY <2>1, ProcessFileKeeps, ProcessFileRemoval
  <2>2. CASE ProcessFileGone
    BY <2>2, ProcessFileGoneKeeps, ProcessFileGoneRemoval
  <2>3. CASE ProcessDir
    BY <2>3, ProcessDirKeeps, ProcessDirRemoval
  <2>4. CASE ProcessDirGone
    BY <2>4, ProcessDirGoneKeeps, ProcessDirRemoval
  <2> QED BY <1>3, <2>1, <2>2, <2>3, <2>4, NobodyRenames DEF Process
<1>4. CASE Operate
  <2>1. CASE Mkdir \/ CopyOne \/ CopyDone
    BY <2>1, MkdirKeeps, MkdirRemoval, CopyOneKeeps, CopyOneRemoval, CopyDoneKeeps,
       CopyDoneRemoval
  <2>2. CASE Note \/ WalkA \/ WalkB
    BY <2>2, NoteKeeps, NoteRemoval, WalkKeeps, WalkRemoval
  <2>3. CASE Inspect \/ MoveAside
    BY <2>3, InspectKeeps, InspectRemoval, MoveAsideKeeps, MoveAsideRemoval
  <2>4. CASE RmTree \/ Unrecord
    BY <2>4, RmTreeKeeps, RmTreeRemoval, UnrecordKeeps, UnrecordRemoval
  <2> QED BY <1>4, <2>1, <2>2, <2>3, <2>4, NobodyRenames DEF Operate
<1>5. CASE Reconcile
  <2>1. CASE StartResync \/ Scan \/ ReconcileDone
    BY <2>1, ScanKeeps, ScanRemoval
  <2>2. CASE ReconcileDir \/ ReconcileOneDir
    BY <2>2, ReconcileDirKeeps, ReconcileDirRemoval, OneDirKeeps, OneDirRemoval
  <2>3. CASE ReconcileOneFile \/ ReconcileFile
    BY <2>3, ReconcileOneFileKeeps, ReconcileOneFileRemoval, ReconcileFileKeeps,
       ReconcileFileRemoval
  <2> QED BY <1>5, <2>1, <2>2, <2>3 DEF Reconcile
<1>6. CASE Crash \/ Boot
  BY <1>6, Tearless, CrashKeeps, CrashRemoval
<1>7. CASE \E s \in Side, p \in Dirs \cup Files : TimerFires(s, p)
  BY <1>7, TimerKeeps, TimerRemoval
<1> QED BY <1>1, <1>2, <1>3, <1>4, <1>5, <1>6, <1>7 DEF Next, Daemon

\* When users also remove directories, and keep their distance, no version of a file is
\* lost either: removeDir takes with it only what both sides have recorded, and sets the
\* rest aside; a reconciliation removes by its rows what a user removed while the
\* watchers slept; and whatever copies meet what a removal left behind.
THEOREM KeepsVersionsRemoved == ASSUME Careful PROVE Spec => []NothingLost
<1> USE TreeAssumption
<1>1. Init => Inv /\ VersionInv /\ RemovalInv
  BY InitTypes, InitKeeps, InitRemoval
<1>2. Inv /\ VersionInv /\ RemovalInv /\ [Next]_vars => Inv' /\ VersionInv' /\ RemovalInv'
  BY TypeStep, RemovalStep
<1>3. VersionInv => NothingLost
  BY DEF VersionInv
<1> QED BY <1>1, <1>2, <1>3, PTL DEF Spec
================================================================================
