---------------------------- MODULE TreeSync_proofs ----------------------------
(* Proofs about TreeSync, for any number of directories, names, versions and      *)
(* crashes, whatever users do and however close they come to the engine.          *)
EXTENDS TreeSync, TLAPS

--------------------------------------------------------------------------------
(* The types, part by part.  A file is in a directory that exists.                *)
Housed == \A s \in Side, p \in Files : FileOf(s, p) => p[1] \in has[s]

DiskOK ==
    /\ has \in [Side -> SUBSET Dirs] /\ file \in [Side -> [Files -> Version]]
    /\ kept \in [Side -> [Dirs -> SUBSET Version]] /\ aside \subseteq Version
    /\ Housed
RowsOK == rowDir \in [Side -> SUBSET Dirs] /\ row \in [Side -> [Files -> Version]]

(* Only directories are renamed, and an operation on a directory has one.         *)
Letters  == {e \in Event : e.kind = "move" => e.path \in Dirs /\ e.from \in Dirs}
Slots    == [Side -> [Dirs \cup Files -> {"none", "content", "delete"}]]
EventsOK == slot \in Slots /\ sent \in Seq(Letters)

Working == At \ {"idle", "scan", "next"}
JobOK ==
    /\ job \in Job
    /\ job.at \in Working => job.dir \in Dirs
    /\ job.at \in {"move", "renote"} \/ job.echo = "move" => job.from \in Dirs /\ job.dir \in Dirs
    /\ job.at = "copy" => job.todo \subseteq In(job.dir)

RestOK ==
    /\ resync \in BOOLEAN /\ up \in BOOLEAN
    /\ clock \in Version /\ dead \subseteq Version /\ ops \in 0..MaxOps /\ crashes \in 0..MaxCrashes

Inv == DiskOK /\ RowsOK /\ EventsOK /\ JobOK /\ RestOK

--------------------------------------------------------------------------------
(* Facts about paths, sides and the operators the steps are built from.           *)
LEMMA FilesAre ==
    /\ \A p \in Files : p[1] \in Dirs /\ p[2] \in Names /\ p = <<p[1], p[2]>>
    /\ \A d \in Dirs, n \in Names : <<d, n>> \in Files /\ <<d, n>>[1] = d /\ <<d, n>>[2] = n
    /\ \A d \in Dirs : In(d) \subseteq Files
    /\ \A d \in Dirs : \A p \in Files : p \in In(d) <=> p[1] = d
BY DEF Files, In

LEMMA Sides == /\ \A s \in Side : Other(s) \in Side /\ Other(s) # s /\ Other(Other(s)) = s
               /\ Side = {"A", "B"}
BY DEF Side, Other

LEMMA ZeroVersion == TreeAssumption => 0 \in Version
BY DEF TreeAssumption, Version

LEMMA SlotTypes ==
    ASSUME slot \in Slots, NEW s \in Side, NEW P, NEW k \in {"none", "content", "delete"},
           Slot(s, P, k)
    PROVE  slot' \in Slots
BY DEF Slots, Slot

LEMMA TellTypes ==
    ASSUME slot \in Slots, NEW s \in Side, NEW d, NEW P, NEW k \in {"none", "content", "delete"},
           Tell(s, d, P, k)
    PROVE  slot' \in Slots
<1>1. Slot(s, P, k) \/ slot' = slot
  BY DEF Tell
<1> QED BY <1>1, SlotTypes

LEMMA SetRowTypes ==
    ASSUME row \in [Side -> [Files -> Version]], NEW p \in Files, NEW a \in Version,
           NEW b \in Version, SetRow(p, a, b)
    PROVE  row' \in [Side -> [Files -> Version]]
BY Sides DEF SetRow

LEMMA DeleteRowsTypes ==
    ASSUME TreeAssumption, RowsOK, NEW d, DeleteRows(d)
    PROVE  RowsOK'
BY ZeroVersion DEF RowsOK, DeleteRows

LEMMA RecordTreeTypes ==
    ASSUME RowsOK, DiskOK, NEW s \in Side, RecordTree(s)
    PROVE  RowsOK'
<1>1. has[s] \subseteq Dirs /\ file[s] \in [Files -> Version] /\ row[s] \in [Files -> Version]
  BY DEF DiskOK, RowsOK
<1>2. rowDir[s] \cup ({D} \cap has[s]) \subseteq Dirs
  BY <1>1 DEF RowsOK
<1>3. [p \in Files |-> IF p \in FilesIn(s, D) THEN file[s][p] ELSE row[s][p]] \in [Files -> Version]
  BY <1>1
<1> QED BY <1>2, <1>3 DEF RecordTree, RowsOK

\* A file is written where its directory is, or where that is made.
LEMMA FileWritten ==
    ASSUME DiskOK, NEW s \in Side, NEW p \in Files, NEW v \in Version,
           file' = [file EXCEPT ![s][p] = v], v = 0 \/ p[1] \in has'[s],
           \A x \in Side : has[x] \subseteq has'[x], has' \in [Side -> SUBSET Dirs],
           kept' \in [Side -> [Dirs -> SUBSET Version]], aside' \subseteq Version
    PROVE  DiskOK'
<1>1. file' \in [Side -> [Files -> Version]]
  BY DEF DiskOK
<1>2. ASSUME NEW x \in Side, NEW q \in Files, file'[x][q] # 0 PROVE q[1] \in has'[x]
  <2>1. CASE x = s /\ q = p
    BY <1>2, <2>1 DEF DiskOK
  <2>2. CASE ~(x = s /\ q = p)
    <3>1. file'[x][q] = file[x][q]
      BY <2>2 DEF DiskOK
    <3> QED BY <1>2, <3>1 DEF DiskOK, Housed, FileOf
  <2> QED BY <2>1, <2>2
<1> QED BY <1>1, <1>2 DEF DiskOK, Housed, FileOf

\* A directory goes, with its files.
LEMMA TreeRemoved ==
    ASSUME TreeAssumption, DiskOK, NEW s \in Side, NEW d \in Dirs,
           has' = [has EXCEPT ![s] = @ \ {d}],
           file' = [file EXCEPT ![s] = [p \in Files |-> IF p \in In(d) THEN 0 ELSE @[p]]],
           kept' = [kept EXCEPT ![s][d] = {}], aside' = aside
    PROVE  DiskOK'
<1>1. has' \in [Side -> SUBSET Dirs] /\ kept' \in [Side -> [Dirs -> SUBSET Version]]
  BY DEF DiskOK
<1>2. file' \in [Side -> [Files -> Version]]
  BY ZeroVersion DEF DiskOK
<1>3. ASSUME NEW x \in Side, NEW q \in Files, file'[x][q] # 0 PROVE q[1] \in has'[x]
  <2>1. CASE x # s
    BY <1>3, <2>1 DEF DiskOK, Housed, FileOf
  <2>2. CASE x = s
    <3>1. q \notin In(d) /\ file[s][q] # 0
      BY <1>3, <2>2 DEF DiskOK
    <3>2. q[1] # d /\ q[1] \in has[s]
      BY <3>1, FilesAre DEF DiskOK, Housed, FileOf
    <3> QED BY <2>2, <3>2 DEF DiskOK
  <2> QED BY <2>1, <2>2
<1> QED BY <1>1, <1>2, <1>3 DEF DiskOK, Housed, FileOf

\* A directory takes another name, with its files; one with the new name goes.
LEMMA TreeMoved ==
    ASSUME TreeAssumption, DiskOK, NEW s \in Side, NEW d \in Dirs, NEW e \in Dirs,
           d \in has[s],
           has' = [has EXCEPT ![s] = (@ \ {d}) \cup {e}],
           file' = [file EXCEPT ![s] = MovedTo(@, d, e)],
           kept' = [kept EXCEPT ![s] = [@ EXCEPT ![d] = {}, ![e] = kept[s][d]]],
           aside' = aside
    PROVE  DiskOK'
<1>1. has' \in [Side -> SUBSET Dirs] /\ kept' \in [Side -> [Dirs -> SUBSET Version]]
  BY DEF DiskOK
<1>2. \A q \in Files : <<d, q[2]>> \in Files
  BY FilesAre
<1>3. MovedTo(file[s], d, e) \in [Files -> Version]
  BY <1>2, ZeroVersion DEF MovedTo, DiskOK
<1>4. file' \in [Side -> [Files -> Version]] /\ file'[s] = MovedTo(file[s], d, e)
      /\ \A x \in Side : x # s => file'[x] = file[x] /\ has'[x] = has[x]
  BY <1>3 DEF DiskOK
<1>5. ASSUME NEW x \in Side, NEW q \in Files, file'[x][q] # 0 PROVE q[1] \in has'[x]
  <2>1. CASE x # s
    BY <1>4, <1>5, <2>1 DEF DiskOK, Housed, FileOf
  <2>2. CASE x = s
    <3>1. q[1] = e \/ (q[1] # d /\ file[s][q] # 0)
      BY <1>4, <1>5, <2>2 DEF MovedTo
    <3>2. q[1] = e \/ (q[1] # d /\ q[1] \in has[s])
      BY <3>1 DEF DiskOK, Housed, FileOf
    <3> QED BY <2>2, <3>2 DEF DiskOK
  <2> QED BY <2>1, <2>2
<1> QED BY <1>1, <1>4, <1>5 DEF DiskOK, Housed, FileOf

LEMMA VersionTypes ==
    ASSUME DiskOK, NEW s \in Side, NEW d \in Dirs
    PROVE  /\ VersionsIn(s, d) \subseteq Version
           /\ FilesIn(s, d) \subseteq Files /\ FilesIn(s, d) \subseteq In(d)
BY FilesAre DEF DiskOK, VersionsIn, FilesIn

LEMMA SentTypes ==
    ASSUME sent \in Seq(Letters), NEW e \in Letters
    PROVE  Append(sent, e) \in Seq(Letters)
OBVIOUS

LEMMA SeqOfLetters ==
    ASSUME NEW q \in Seq(Letters)
    PROVE  q \in Seq(Event)
<1>1. Letters \subseteq Event
  BY DEF Letters
<1> QED BY <1>1

LEMMA PropagateTypes ==
    ASSUME TreeAssumption, DiskOK, RowsOK, EventsOK, NEW s \in Side, NEW p \in Files,
           NEW forced, PropagateContent(s, p, forced)
    PROVE  DiskOK' /\ RowsOK' /\ slot' \in Slots
<1> DEFINE t == Other(s)
           d == p[1]
           v == file[s][p]
<1>1. t \in Side /\ d \in Dirs /\ v \in Version /\ file[t][p] \in Version
  BY Sides, FilesAre DEF DiskOK
<1>2. slot' \in Slots
  <2>1. Slot(t, {d}, "content") \/ slot' = slot
    BY DEF PropagateContent
  <2> HIDE DEF t, d
  <2> QED BY <1>1, <2>1, SlotTypes DEF EventsOK
<1>3. has' = [has EXCEPT ![t] = @ \cup {d}] /\ aside' = aside /\ rowDir' = rowDir
      /\ \/ v = 0 /\ file' = file /\ kept' = kept /\ row' = row
         \/ /\ v # 0 /\ file' = [file EXCEPT ![t][p] = v] /\ SetRow(p, v, v)
            /\ kept' = kept \/ kept' = [kept EXCEPT ![t][d] = @ \cup {file[t][p]}]
  BY DEF PropagateContent
<1> HIDE DEF t, d, v
<1>4. has' \in [Side -> SUBSET Dirs] /\ d \in has'[t] /\ \A x \in Side : has[x] \subseteq has'[x]
  BY <1>1, <1>3 DEF DiskOK
<1>5. kept' \in [Side -> [Dirs -> SUBSET Version]]
  <2>1. kept[t][d] \cup {file[t][p]} \in SUBSET Version
    BY <1>1 DEF DiskOK
  <2>2. \/ kept' = kept
        \/ kept' = [kept EXCEPT ![t] = [kept[t] EXCEPT ![d] = kept[t][d] \cup {file[t][p]}]]
    BY <1>3
  <2>3. [kept[t] EXCEPT ![d] = kept[t][d] \cup {file[t][p]}] \in [Dirs -> SUBSET Version]
    BY <1>1, <2>1 DEF DiskOK
  <2> QED BY <1>1, <2>2, <2>3 DEF DiskOK
<1>6. RowsOK'
  BY <1>1, <1>3, SetRowTypes DEF RowsOK
<1>7. DiskOK'
  <2>1. CASE v = 0
    BY <1>3, <1>4, <1>5, <2>1 DEF DiskOK, Housed, FileOf
  <2>2. CASE v # 0
    BY <1>1, <1>3, <1>4, <1>5, <2>2, FileWritten DEF d, DiskOK
  <2> QED BY <2>1, <2>2
<1> QED BY <1>2, <1>6, <1>7

LEMMA RemoveFileTypes ==
    ASSUME TreeAssumption, DiskOK, RowsOK, NEW t \in Side, NEW p \in Files, RemoveFile(t, p)
    PROVE  DiskOK' /\ RowsOK' /\ slot' = slot
<1>1. /\ file' = [file EXCEPT ![t][p] = 0] /\ SetRow(p, 0, 0) /\ has' = has /\ kept' = kept
      /\ aside' = aside /\ rowDir' = rowDir /\ slot' = slot
  BY DEF RemoveFile
<1>2. RowsOK'
  BY <1>1, ZeroVersion, SetRowTypes DEF RowsOK
<1>3. DiskOK'
  BY <1>1, ZeroVersion, FileWritten DEF DiskOK
<1> QED BY <1>1, <1>2, <1>3

LEMMA IdleTypes ==
    ASSUME TreeAssumption
    PROVE  /\ Idle \in Job /\ Idle.at = "idle" /\ Idle.echo = "none" /\ Idle.scope = {}
           /\ EmptyShot \in Shot
<1>1. EmptyShot \in Shot
  BY ZeroVersion DEF EmptyShot, Shot, Nothing, NoFiles
<1> QED BY <1>1 DEF Idle, Job, At, Side

\* An operation is over: there is no directory in hand.
LEMMA EndedTypes ==
    ASSUME TreeAssumption, JobOK
    PROVE  /\ Ended \in Job /\ Ended.at \in {"idle", "next"} /\ Ended.echo = "none"
<1>1. Idle \in Job /\ Idle.at = "idle" /\ Idle.echo = "none"
  BY IdleTypes
<1>2. CASE job.scope = {}
  BY <1>1, <1>2 DEF Ended
<1>3. CASE job.scope # {}
  <2>1. Ended = [Idle EXCEPT !.at = "next", !.scope = job.scope, !.inv = job.inv, !.plan = job.plan]
    BY <1>3 DEF Ended
  <2>2. job.scope \in SUBSET Dirs /\ job.inv \in Shot /\ job.plan \in SUBSET (Dirs \cup Files)
    BY DEF JobOK, Job
  <2> QED BY <1>1, <2>1, <2>2 DEF Job, At
<1> QED BY <1>2, <1>3

LEMMA FinishTypes ==
    ASSUME TreeAssumption, JobOK, resync \in BOOLEAN, Finish \/ Fail
    PROVE  JobOK' /\ resync' \in BOOLEAN
<1>1. job' = Ended /\ resync' \in BOOLEAN
  BY DEF Finish, Fail
<1> QED BY <1>1, EndedTypes DEF JobOK, Working

LEMMA ProceedTypes ==
    ASSUME JobOK, resync \in BOOLEAN, NEW label \in {"note", "walkA", "walkB"}, Proceed(label),
           job.at \in Working
    PROVE  JobOK' /\ resync' \in BOOLEAN
<1>1. job' = [job EXCEPT !.at = label] /\ resync' = resync
  BY DEF Proceed
<1>2. label \in At
  BY DEF At
<1> QED BY <1>1, <1>2 DEF JobOK, Job

--------------------------------------------------------------------------------
(* The steps.  What a step leaves alone keeps its types.                          *)
LEMMA Unmoved ==
    /\ DiskOK /\ UNCHANGED disk => DiskOK'
    /\ RowsOK /\ UNCHANGED state => RowsOK'
    /\ EventsOK /\ UNCHANGED events => EventsOK'
    /\ JobOK /\ UNCHANGED job => JobOK'
    /\ RestOK /\ UNCHANGED <<resync, up, bounds>> => RestOK'
BY DEF disk, state, events, bounds, DiskOK, RowsOK, EventsOK, JobOK, RestOK, Housed, FileOf

LEMMA MayAct ==
    ASSUME TreeAssumption, RestOK, NEW k, Acts(k)
    PROVE  ops' \in 0..MaxOps
BY DEF Acts, RestOK, TreeAssumption

LEMMA MakeDirTypes ==
    ASSUME TreeAssumption, Inv, NEW s \in Side, NEW d \in Dirs, MakeDir(s, d)
    PROVE  Inv'
<1>1. /\ has' = [has EXCEPT ![s] = @ \cup {d}] /\ file' = file /\ kept' = kept /\ aside' = aside
      /\ UNCHANGED <<state, sent, job, resync, up, clock, dead, crashes>>
      /\ Acts("mkdir") /\ Tell(s, d, {d}, "content")
  BY DEF MakeDir
<1>2. DiskOK'
  BY <1>1 DEF Inv, DiskOK, Housed, FileOf
<1>3. EventsOK'
  BY <1>1, TellTypes DEF Inv, EventsOK
<1>4. RestOK'
  BY <1>1, MayAct DEF Inv, RestOK
<1> QED BY <1>1, <1>2, <1>3, <1>4, Unmoved DEF Inv

LEMMA WriteTypes ==
    ASSUME TreeAssumption, Inv, NEW s \in Side, NEW p \in Files, Write(s, p)
    PROVE  Inv'
<1>1. /\ p[1] \in has[s] /\ clock < MaxVersion /\ clock' = clock + 1
      /\ file' = [file EXCEPT ![s][p] = clock + 1] /\ dead' = dead \cup ({file[s][p]} \ {0})
      /\ UNCHANGED <<has, kept, aside, state, sent, job, resync, up, crashes>>
      /\ Acts("write") /\ Tell(s, p[1], {p}, "content")
  BY DEF Write
<1>2. clock + 1 \in Version /\ file[s][p] \in Version
  BY <1>1 DEF Inv, RestOK, DiskOK, Version, TreeAssumption
<1>3. DiskOK'
  BY <1>1, <1>2, FileWritten DEF Inv, DiskOK
<1>4. EventsOK'
  BY <1>1, TellTypes DEF Inv, EventsOK
<1>5. RestOK'
  BY <1>1, <1>2, MayAct DEF Inv, RestOK
<1> QED BY <1>1, <1>3, <1>4, <1>5, Unmoved DEF Inv

LEMMA DeleteTypes ==
    ASSUME TreeAssumption, Inv, NEW s \in Side, NEW p \in Files, Delete(s, p)
    PROVE  Inv'
<1>1. /\ file' = [file EXCEPT ![s][p] = 0] /\ dead' = dead \cup {file[s][p]}
      /\ UNCHANGED <<has, kept, aside, state, sent, job, resync, up, clock, crashes>>
      /\ Acts("delete") /\ Tell(s, p[1], {p}, "delete")
  BY DEF Delete
<1>2. file[s][p] \in Version
  BY DEF Inv, DiskOK
<1>3. DiskOK'
  BY <1>1, ZeroVersion, FileWritten DEF Inv, DiskOK
<1>4. EventsOK'
  BY <1>1, TellTypes DEF Inv, EventsOK
<1>5. RestOK'
  BY <1>1, <1>2, MayAct DEF Inv, RestOK
<1> QED BY <1>1, <1>3, <1>4, <1>5, Unmoved DEF Inv

LEMMA RemoveTreeTypes ==
    ASSUME TreeAssumption, Inv, NEW s \in Side, NEW d \in Dirs, RemoveTree(s, d)
    PROVE  Inv'
<1>1. /\ has' = [has EXCEPT ![s] = @ \ {d}]
      /\ file' = [file EXCEPT ![s] = [p \in Files |-> IF p \in In(d) THEN 0 ELSE @[p]]]
      /\ kept' = [kept EXCEPT ![s][d] = {}] /\ aside' = aside
      /\ dead' = dead \cup VersionsIn(s, d)
      /\ UNCHANGED <<state, sent, job, resync, up, clock, crashes>>
      /\ Acts("rmtree") /\ Tell(s, d, FilesIn(s, d) \cup {d}, "delete")
  BY DEF RemoveTree
<1>2. DiskOK'
  BY <1>1, TreeRemoved DEF Inv
<1>3. EventsOK'
  BY <1>1, TellTypes DEF Inv, EventsOK
<1>4. RestOK'
  BY <1>1, MayAct, VersionTypes DEF Inv, RestOK
<1> QED BY <1>1, <1>2, <1>3, <1>4, Unmoved DEF Inv

\* What is sent of a renamed directory.
LEMMA MoveLetter ==
    ASSUME NEW s \in Side, NEW d \in Dirs, NEW e \in Dirs
    PROVE  [side |-> s, kind |-> "move", path |-> e, from |-> d] \in Letters
BY DEF Letters, Event, Kind

LEMMA RenameDirTypes ==
    ASSUME TreeAssumption, Inv, NEW s \in Side, NEW d \in Dirs, NEW e \in Dirs, RenameDir(s, d, e)
    PROVE  Inv'
<1>1. /\ d \in has[s] /\ has' = [has EXCEPT ![s] = (@ \ {d}) \cup {e}]
      /\ file' = [file EXCEPT ![s] = MovedTo(@, d, e)]
      /\ kept' = [kept EXCEPT ![s] = [@ EXCEPT ![d] = {}, ![e] = kept[s][d]]] /\ aside' = aside
      /\ UNCHANGED <<state, job, resync, up, clock, dead, crashes>> /\ Acts("rename")
      /\ \/ /\ Slot(s, {d, e}, "none")
            /\ sent' = Append(sent, [side |-> s, kind |-> "move", path |-> e, from |-> d])
         \/ UNCHANGED events
  BY DEF RenameDir
<1>2. DiskOK'
  BY <1>1, TreeMoved DEF Inv
<1>3. EventsOK'
  <2>1. CASE UNCHANGED events
    BY <2>1, Unmoved DEF Inv
  <2>2. CASE Slot(s, {d, e}, "none")
             /\ sent' = Append(sent, [side |-> s, kind |-> "move", path |-> e, from |-> d])
    BY <2>2, SlotTypes, MoveLetter, SentTypes DEF Inv, EventsOK
  <2> QED BY <1>1, <2>1, <2>2
<1>4. RestOK'
  BY <1>1, MayAct DEF Inv, RestOK
<1> QED BY <1>1, <1>2, <1>3, <1>4, Unmoved DEF Inv

LEMMA TimerTypes ==
    ASSUME TreeAssumption, Inv, NEW s \in Side, NEW p \in Dirs \cup Files, TimerFires(s, p)
    PROVE  Inv'
<1> DEFINE e == [side |-> s, kind |-> slot[s][p], path |-> p, from |-> NoDir]
<1>1. /\ slot[s][p] # "none" /\ sent' = Append(sent, e) /\ Slot(s, {p}, "none")
      /\ UNCHANGED <<disk, state, job, resync, up, bounds>>
  BY DEF TimerFires
<1>2. e \in Letters
  <2>1. slot[s][p] \in {"content", "delete"}
    BY <1>1 DEF Inv, EventsOK, Slots
  <2> QED BY <2>1 DEF Letters, Event, Kind
<1> HIDE DEF e
<1>3. EventsOK'
  BY <1>1, <1>2, SlotTypes, SentTypes DEF Inv, EventsOK
<1> QED BY <1>1, <1>3, Unmoved DEF Inv

--------------------------------------------------------------------------------
LEMMA EvTypes ==
    ASSUME EventsOK, NEW k, Taking(k)
    PROVE  /\ Ev \in Letters /\ Ev.kind = k /\ Ev.side \in Side /\ Other(Ev.side) \in Side
           /\ k = "move" => Ev.path \in Dirs /\ Ev.from \in Dirs
           /\ Tail(sent) \in Seq(Letters) /\ sent' = Tail(sent)
<1>1. sent \in Seq(Letters) /\ sent # << >> /\ Ev.kind = k /\ sent' = Tail(sent)
  BY DEF Taking, EventsOK
<1>2. Ev \in Letters /\ Tail(sent) \in Seq(Letters)
  BY <1>1 DEF Ev
<1> QED BY <1>1, <1>2, Sides DEF Letters, Event

LEMMA ProcessTypes ==
    ASSUME TreeAssumption, Inv, Process
    PROVE  Inv'
<1>1. CASE ProcessFile
  <2> DEFINE s == Ev.side
             p == Ev.path
  <2>1. Taking("content") /\ p \in Files /\ job' = job /\ UNCHANGED <<up, bounds>>
        /\ \/ UNCHANGED <<disk, state, slot, resync>>
           \/ PropagateContent(s, p, FALSE) /\ resync' \in BOOLEAN
    BY <1>1 DEF ProcessFile, Still, Inv, RestOK
  <2>2. s \in Side /\ sent' \in Seq(Letters)
    BY <2>1, EvTypes DEF Inv
  <2> HIDE DEF s, p
  <2>3. DiskOK' /\ RowsOK' /\ slot' \in Slots /\ resync' \in BOOLEAN
    <3>1. CASE UNCHANGED <<disk, state, slot, resync>>
      BY <3>1, Unmoved DEF Inv, EventsOK, RestOK
    <3>2. CASE PropagateContent(s, p, FALSE) /\ resync' \in BOOLEAN
      BY <2>1, <2>2, <3>2, PropagateTypes DEF Inv
    <3> QED BY <2>1, <3>1, <3>2
  <2> QED BY <2>1, <2>2, <2>3, Unmoved DEF Inv, EventsOK, RestOK, bounds
<1>2. CASE ProcessFileGone
  <2> DEFINE t == Other(Ev.side)
             p == Ev.path
  <2>1. Taking("delete") /\ p \in Files /\ UNCHANGED <<job, resync, up, bounds>>
        /\ (UNCHANGED <<disk, state, slot>> \/ RemoveFile(t, p))
    BY <1>2 DEF ProcessFileGone, Still
  <2>2. t \in Side /\ sent' \in Seq(Letters)
    BY <2>1, EvTypes DEF Inv
  <2> HIDE DEF t, p
  <2>3. DiskOK' /\ RowsOK' /\ slot' \in Slots
    <3>1. CASE UNCHANGED <<disk, state, slot>>
      BY <3>1, Unmoved DEF Inv, EventsOK
    <3>2. CASE RemoveFile(t, p)
      BY <2>1, <2>2, <3>2, RemoveFileTypes DEF Inv, EventsOK
    <3> QED BY <2>1, <3>1, <3>2
  <2> QED BY <2>1, <2>2, <2>3, Unmoved DEF Inv, EventsOK
<1>3. CASE ProcessDir
  <2>1. Taking("content") /\ Ev.path \in Dirs /\ job' = StartDir(Ev.side, Ev.path) /\ job = Idle
        /\ UNCHANGED <<disk, state, slot, resync, up, bounds>>
    BY <1>3 DEF ProcessDir, Still, Taking
  <2>2. Ev.side \in Side /\ sent' \in Seq(Letters)
    BY <2>1, EvTypes DEF Inv
  <2>3. JobOK'
    BY <2>1, <2>2, IdleTypes DEF StartDir, JobOK, Job, At
  <2> QED BY <2>1, <2>2, <2>3, Unmoved DEF Inv, EventsOK
<1>4. CASE ProcessDirGone
  <2>1. Taking("delete") /\ Ev.path \in Dirs /\ job = Idle
        /\ (job' = job \/ job' = StartRemove(Ev.side, Ev.path))
        /\ UNCHANGED <<disk, state, slot, resync, up, bounds>>
    BY <1>4 DEF ProcessDirGone, Still, Taking
  <2>2. Ev.side \in Side /\ sent' \in Seq(Letters)
    BY <2>1, EvTypes DEF Inv
  <2>3. JobOK'
    BY <2>1, <2>2, IdleTypes, ZenonT(60) DEF StartRemove, JobOK, Job, At, Working
  <2> QED BY <2>1, <2>2, <2>3, Unmoved DEF Inv, EventsOK
<1>5. CASE ProcessMove
  <2>1. Taking("move") /\ job = Idle
        /\ job' = [job EXCEPT !.at = "move", !.src = Ev.side, !.dir = Ev.path, !.from = Ev.from]
        /\ UNCHANGED <<disk, state, slot, resync, up, bounds>>
    BY <1>5 DEF ProcessMove, Still, Taking
  <2>2. Ev.side \in Side /\ Ev.path \in Dirs /\ Ev.from \in Dirs /\ sent' \in Seq(Letters)
    BY <2>1, EvTypes DEF Inv
  <2>3. JobOK'
    BY <2>1, <2>2, IdleTypes DEF JobOK, Job, At
  <2> QED BY <2>1, <2>2, <2>3, Unmoved DEF Inv, EventsOK
<1> QED BY <1>1, <1>2, <1>3, <1>4, <1>5 DEF Process

--------------------------------------------------------------------------------
(* The operations on directories.                                                 *)
LEMMA InHands ==
    ASSUME JobOK, NEW label \in Working, Doing(label)
    PROVE  /\ D \in Dirs /\ job.src \in Side /\ Dst \in Side /\ job.todo \subseteq Files
           /\ label \in {"move", "renote"} => job.from \in Dirs
BY Sides DEF JobOK, Doing, D, Dst, Job

LEMMA LeakTypes ==
    ASSUME EventsOK, JobOK, D \in Dirs, Dst \in Side, Leak
    PROVE  EventsOK'
<1>1. CASE UNCHANGED events
  BY <1>1, Unmoved
<1>2. CASE /\ job.echo \in {"content", "delete"}
           /\ Slot(Dst, {D}, job.echo) /\ UNCHANGED sent
  BY <1>2, SlotTypes DEF EventsOK
<1>3. CASE /\ job.echo = "move" /\ Slot(Dst, {D, job.from}, "none")
           /\ sent' = Append(sent, [side |-> Dst, kind |-> "move", path |-> D, from |-> job.from])
  <2>1. job.from \in Dirs
    BY <1>3 DEF JobOK
  <2> QED BY <1>3, <2>1, SlotTypes, MoveLetter, SentTypes DEF EventsOK
<1> QED BY <1>1, <1>2, <1>3 DEF Leak

LEMMA CopyTypes ==
    ASSUME TreeAssumption, Inv, Mkdir \/ CopyOne \/ CopyDone
    PROVE  Inv'
<1>1. CASE Mkdir
  <2>1. D \in Dirs /\ job.src \in Side /\ Dst \in Side /\ job.at = "mkdir"
    BY <1>1, InHands DEF Mkdir, Working, At, Inv, Doing
  <2>2. UNCHANGED <<file, kept, aside, state, events, up, bounds>>
    BY <1>1 DEF Mkdir, Still
  <2>3. CASE Fail /\ UNCHANGED has
    <3>1. JobOK' /\ resync' \in BOOLEAN
      BY <2>3, FinishTypes DEF Inv, RestOK
    <3> QED BY <2>2, <2>3, <3>1, Unmoved DEF Inv, disk, bounds, RestOK
  <2>4. CASE D \in has[job.src]
    <3>1. has' = [has EXCEPT ![Dst] = @ \cup {D}] /\ resync' = resync
          /\ \E label \in {"copy", "note"}, deep \in BOOLEAN, echo \in {"none", "content"} :
               job' = [job EXCEPT !.at = label, !.deep = deep, !.todo = FilesIn(job.src, D),
                                  !.echo = echo]
      BY <1>1, <2>4 DEF Mkdir
    <3>2. DiskOK'
      BY <2>1, <2>2, <3>1 DEF Inv, DiskOK, Housed, FileOf
    <3>3. FilesIn(job.src, D) \subseteq Files /\ FilesIn(job.src, D) \subseteq In(D)
      BY <2>1, VersionTypes DEF Inv
    <3>4. JobOK'
      <4>1. PICK label \in {"copy", "note"}, deep \in BOOLEAN, echo \in {"none", "content"} :
               job' = [job EXCEPT !.at = label, !.deep = deep, !.todo = FilesIn(job.src, D),
                                  !.echo = echo]
        BY <3>1
      <4> QED BY <2>1, <3>3, <4>1 DEF Inv, JobOK, Job, At, D
    <3> QED BY <2>2, <3>1, <3>2, <3>4, Unmoved DEF Inv
  <2> QED BY <1>1, <2>3, <2>4 DEF Mkdir
<1>2. CASE CopyOne
  <2>1. /\ D \in Dirs /\ job.src \in Side /\ Dst \in Side
        /\ job.at = "copy" /\ job.todo \subseteq Files
    BY <1>2, InHands DEF CopyOne, Working, At, Inv, Doing
  <2>2. UNCHANGED <<has, kept, aside, state, events, up, bounds>>
    BY <1>2 DEF CopyOne, Still
  <2>3. PICK p \in job.todo :
          \/ /\ D \in has[Dst] /\ FileOf(job.src, p)
             /\ file' = [file EXCEPT ![Dst][p] = file[job.src][p]]
             /\ job' = [job EXCEPT !.todo = @ \ {p}] /\ resync' = resync
          \/ Fail /\ UNCHANGED file
    BY <1>2 DEF CopyOne
  <2>4. CASE Fail /\ UNCHANGED file
    <3>1. JobOK' /\ resync' \in BOOLEAN
      BY <2>4, FinishTypes DEF Inv, RestOK
    <3> QED BY <2>2, <2>4, <3>1, Unmoved DEF Inv, disk, bounds, RestOK
  <2>5. CASE /\ D \in has[Dst] /\ FileOf(job.src, p)
             /\ file' = [file EXCEPT ![Dst][p] = file[job.src][p]]
             /\ job' = [job EXCEPT !.todo = @ \ {p}] /\ resync' = resync
    <3>1. p \in Files /\ file[job.src][p] \in Version
      BY <2>1 DEF Inv, DiskOK
    <3>2. p[1] \in has[Dst]
      <4>1. p \in In(D)
        BY <2>1 DEF Inv, JobOK, D
      <4> QED BY <2>1, <2>5, <3>1, <4>1, FilesAre
    <3>3. DiskOK'
      BY <2>1, <2>2, <2>5, <3>1, <3>2, FileWritten DEF Inv, DiskOK
    <3>4. JobOK'
      BY <2>5 DEF Inv, JobOK, Job
    <3> QED BY <2>2, <2>5, <3>3, <3>4, Unmoved DEF Inv
  <2> QED BY <2>3, <2>4, <2>5
<1>3. CASE CopyDone
  <2>1. D \in Dirs /\ job.src \in Side /\ Dst \in Side /\ job.at = "copy"
    BY <1>3, InHands DEF CopyDone, Working, At, Inv, Doing
  <2>2. UNCHANGED <<has, file, aside, state, events, up, bounds>> /\ Proceed("note")
        /\ (kept' = kept \/ kept' = [kept EXCEPT ![Dst][D] = @ \cup kept[job.src][D]])
    BY <1>3 DEF CopyDone, Still
  <2>3. kept' \in [Side -> [Dirs -> SUBSET Version]]
    <3>1. kept[Dst][D] \cup kept[job.src][D] \in SUBSET Version
      BY <2>1 DEF Inv, DiskOK
    <3>2. [kept[Dst] EXCEPT ![D] = kept[Dst][D] \cup kept[job.src][D]] \in [Dirs -> SUBSET Version]
      BY <2>1, <3>1 DEF Inv, DiskOK
    <3>3. kept' = kept \/ kept' = [kept EXCEPT ![Dst] =
                                     [kept[Dst] EXCEPT ![D] = kept[Dst][D] \cup kept[job.src][D]]]
      BY <2>2
    <3> QED BY <2>1, <3>2, <3>3 DEF Inv, DiskOK
  <2>4. DiskOK'
    BY <2>2, <2>3 DEF Inv, DiskOK, Housed, FileOf
  <2>5. JobOK' /\ resync' \in BOOLEAN
    BY <2>1, <2>2, ProceedTypes DEF Inv, RestOK, Working, At
  <2> QED BY <2>2, <2>4, <2>5, Unmoved DEF Inv, bounds, RestOK
<1> QED BY <1>1, <1>2, <1>3

LEMMA RecordTypes ==
    ASSUME TreeAssumption, Inv, Note \/ WalkA \/ WalkB \/ Unrecord \/ Renote
    PROVE  Inv'
<1>1. CASE Note
  <2>1. D \in Dirs /\ Dst \in Side /\ job.at = "note" /\ job.at \in Working
    BY <1>1, InHands DEF Note, Working, At, Inv, Doing
  <2>2. UNCHANGED <<disk, row, up, bounds>>
        /\ \/ /\ rowDir' = [s \in Side |-> rowDir[s] \cup {D}]
              /\ (Proceed("walkA") /\ UNCHANGED events) \/ (Finish /\ Leak)
           \/ Fail /\ UNCHANGED <<rowDir, events>>
    BY <1>1 DEF Note, Still
  <2>3. RowsOK'
    BY <2>1, <2>2 DEF Inv, RowsOK
  <2>4. JobOK' /\ resync' \in BOOLEAN
    BY <2>1, <2>2, FinishTypes, ProceedTypes DEF Inv, RestOK
  <2>5. EventsOK'
    BY <2>1, <2>2, LeakTypes, Unmoved DEF Inv
  <2> QED BY <2>2, <2>3, <2>4, <2>5, Unmoved DEF Inv, bounds, RestOK
<1>2. CASE WalkA
  <2>1. UNCHANGED <<disk, events, up, bounds>> /\ RecordTree("A") /\ Proceed("walkB")
        /\ job.at = "walkA"
    BY <1>2 DEF WalkA, Still, Doing
  <2>2. RowsOK'
    BY <2>1, RecordTreeTypes, Sides DEF Inv
  <2>3. JobOK' /\ resync' \in BOOLEAN
    BY <2>1, ProceedTypes DEF Inv, RestOK, Working, At
  <2> QED BY <2>1, <2>2, <2>3, Unmoved DEF Inv, bounds, RestOK
<1>3. CASE WalkB
  <2>1. UNCHANGED <<disk, up, bounds>> /\ RecordTree("B") /\ Finish /\ Leak
    BY <1>3 DEF WalkB, Still
  <2>2. D \in Dirs /\ Dst \in Side
    BY <1>3, InHands DEF WalkB, Working, At, Inv, Doing
  <2>3. RowsOK'
    BY <2>1, RecordTreeTypes, Sides DEF Inv
  <2>4. JobOK' /\ resync' \in BOOLEAN
    BY <2>1, FinishTypes DEF Inv, RestOK
  <2>5. EventsOK'
    BY <2>1, <2>2, LeakTypes DEF Inv
  <2> QED BY <2>1, <2>3, <2>4, <2>5, Unmoved DEF Inv, bounds, RestOK
<1>4. CASE Unrecord
  <2>1. UNCHANGED <<disk, up, bounds>> /\ DeleteRows(D) /\ Finish /\ Leak
    BY <1>4 DEF Unrecord, Still
  <2>2. D \in Dirs /\ Dst \in Side
    BY <1>4, InHands DEF Unrecord, Working, At, Inv, Doing
  <2>3. RowsOK'
    BY <2>1, DeleteRowsTypes DEF Inv
  <2>4. JobOK' /\ resync' \in BOOLEAN
    BY <2>1, FinishTypes DEF Inv, RestOK
  <2>5. EventsOK'
    BY <2>1, <2>2, LeakTypes DEF Inv
  <2> QED BY <2>1, <2>3, <2>4, <2>5, Unmoved DEF Inv, bounds, RestOK
<1>5. CASE Renote
  <2>1. UNCHANGED <<disk, events, up, bounds>> /\ job.at = "renote" /\ D \in Dirs
    BY <1>5, InHands DEF Renote, Still, Doing, Inv, Working, At
  <2>2. CASE D \in has["A"] \cap has["B"]
    <3>1. rowDir' = [s \in Side |-> (rowDir[s] \ {job.from}) \cup {D}]
          /\ row' = [s \in Side |-> [p \in Files |->
                        IF p[1] \in {job.from, D} THEN 0 ELSE row[s][p]]]
          /\ Proceed("walkA")
      BY <1>5, <2>2 DEF Renote
    <3>2. RowsOK'
      BY <2>1, <3>1, ZeroVersion DEF Inv, RowsOK
    <3>3. JobOK' /\ resync' \in BOOLEAN
      BY <2>1, <3>1, ProceedTypes DEF Inv, RestOK, Working, At
    <3> QED BY <2>1, <3>2, <3>3, Unmoved DEF Inv, bounds, RestOK
  <2>3. CASE D \notin has["A"] \cap has["B"]
    <3>1. DeleteRows(job.from) /\ Fail
      BY <1>5, <2>3 DEF Renote
    <3>2. RowsOK'
      BY <3>1, DeleteRowsTypes DEF Inv
    <3>3. JobOK' /\ resync' \in BOOLEAN
      BY <3>1, FinishTypes DEF Inv, RestOK
    <3> QED BY <2>1, <3>2, <3>3, Unmoved DEF Inv, bounds, RestOK
  <2> QED BY <2>2, <2>3
<1> QED BY <1>1, <1>2, <1>3, <1>4, <1>5

LEMMA RemoveTypes ==
    ASSUME TreeAssumption, Inv, Inspect \/ MoveAside \/ RmTree
    PROVE  Inv'
<1>1. CASE Inspect
  <2>1. UNCHANGED <<disk, state, events, resync, up, bounds>>
        /\ job' = [job EXCEPT !.at = "aside", !.todo = Unsynced(Dst, D)]
    BY <1>1 DEF Inspect, Still
  <2>2. D \in Dirs /\ Dst \in Side /\ job.at = "inspect"
    BY <1>1, InHands DEF Inspect, Working, At, Inv, Doing
  <2>3. Unsynced(Dst, D) \subseteq Files
    BY <2>2, VersionTypes DEF Unsynced, Inv
  <2>4. JobOK'
    BY <2>1, <2>2, <2>3 DEF Inv, JobOK, Job, At, D
  <2> QED BY <2>1, <2>4, Unmoved DEF Inv
<1>2. CASE MoveAside
  <2>1. UNCHANGED <<has, kept, state, events, up, bounds>>
    BY <1>2 DEF MoveAside, Still
  <2>2. D \in Dirs /\ Dst \in Side /\ job.todo \subseteq Files /\ job.at = "aside"
    BY <1>2, InHands DEF MoveAside, Working, At, Inv, Doing
  <2>3. PICK p \in job.todo :
          \/ /\ aside' = aside \cup {file[Dst][p]} /\ file' = [file EXCEPT ![Dst][p] = 0]
             /\ job' = [job EXCEPT !.todo = @ \ {p}] /\ resync' = resync
          \/ Fail /\ UNCHANGED <<file, aside>>
    BY <1>2 DEF MoveAside
  <2>4. CASE Fail /\ UNCHANGED <<file, aside>>
    <3>1. JobOK' /\ resync' \in BOOLEAN
      BY <2>4, FinishTypes DEF Inv, RestOK
    <3> QED BY <2>1, <2>4, <3>1, Unmoved DEF Inv, disk, bounds, RestOK
  <2>5. CASE /\ aside' = aside \cup {file[Dst][p]} /\ file' = [file EXCEPT ![Dst][p] = 0]
             /\ job' = [job EXCEPT !.todo = @ \ {p}] /\ resync' = resync
    <3>1. p \in Files /\ file[Dst][p] \in Version
      BY <2>2 DEF Inv, DiskOK
    <3>2. aside' \subseteq Version
      BY <2>5, <3>1 DEF Inv, DiskOK
    <3>3. DiskOK'
      BY <2>1, <2>2, <2>5, <3>1, <3>2, ZeroVersion, FileWritten DEF Inv, DiskOK
    <3>4. JobOK'
      BY <2>2, <2>5 DEF Inv, JobOK, Job
    <3> QED BY <2>1, <2>5, <3>3, <3>4, Unmoved DEF Inv
  <2> QED BY <2>3, <2>4, <2>5
<1>3. CASE RmTree
  <2>1. D \in Dirs /\ Dst \in Side /\ job.at = "aside"
    BY <1>3, InHands DEF RmTree, Working, At, Inv, Doing
  <2>2. /\ has' = [has EXCEPT ![Dst] = @ \ {D}]
        /\ file' = [file EXCEPT ![Dst] = [p \in Files |-> IF p \in In(D) THEN 0 ELSE @[p]]]
        /\ kept' = [kept EXCEPT ![Dst][D] = {}] /\ aside' = aside
        /\ UNCHANGED <<state, events, resync, up, bounds>>
        /\ \E echo \in {"delete", "none"} : job' = [job EXCEPT !.at = "unrecord", !.echo = echo]
    BY <1>3 DEF RmTree, Still
  <2>3. DiskOK'
    BY <2>1, <2>2, TreeRemoved DEF Inv
  <2>4. JobOK'
    <3>1. PICK echo \in {"delete", "none"} : job' = [job EXCEPT !.at = "unrecord", !.echo = echo]
      BY <2>2
    <3> QED BY <2>1, <3>1 DEF Inv, JobOK, Job, At, D
  <2> QED BY <2>2, <2>3, <2>4, Unmoved DEF Inv
<1> QED BY <1>1, <1>2, <1>3

LEMMA MoveDirTypes ==
    ASSUME TreeAssumption, Inv, MoveDir
    PROVE  Inv'
<1>1. UNCHANGED <<aside, events, up, bounds>>
  BY DEF MoveDir, Still
<1>2. D \in Dirs /\ Dst \in Side /\ job.from \in Dirs /\ job.at = "move"
  BY InHands DEF MoveDir, Working, At, Inv, Doing
<1>3. CASE job.from \notin has[Dst]
  <2>1. /\ DeleteRows(job.from) /\ UNCHANGED <<has, file, kept, resync>>
        /\ job' = [Idle EXCEPT !.at = "scan", !.scope = {D}]
    BY <1>3 DEF MoveDir
  <2>2. RowsOK'
    BY <2>1, DeleteRowsTypes DEF Inv
  <2>3. JobOK'
    BY <1>2, <2>1, IdleTypes DEF JobOK, Job, At, Working
  <2> QED BY <1>1, <2>1, <2>2, <2>3, Unmoved DEF Inv, disk
<1>4. CASE job.from \in has[Dst] /\ Fail /\ UNCHANGED <<has, file, kept, state>>
  <2>1. JobOK' /\ resync' \in BOOLEAN
    BY <1>4, FinishTypes DEF Inv, RestOK
  <2> QED BY <1>1, <1>4, <2>1, Unmoved DEF Inv, disk, bounds, RestOK
<1>5. CASE /\ job.from \in has[Dst] /\ has' = [has EXCEPT ![Dst] = (@ \ {job.from}) \cup {D}]
           /\ file' = [file EXCEPT ![Dst] = MovedTo(@, job.from, D)]
           /\ kept' = [kept EXCEPT ![Dst] = [@ EXCEPT ![job.from] = {}, ![D] = kept[Dst][job.from]]]
           /\ job' = [job EXCEPT !.at = "renote", !.echo = "move"]
           /\ UNCHANGED <<resync, state>>
  <2>1. DiskOK'
    BY <1>1, <1>2, <1>5, TreeMoved DEF Inv
  <2>2. JobOK'
    BY <1>2, <1>5 DEF Inv, JobOK, Job, At, D
  <2> QED BY <1>1, <1>5, <2>1, <2>2, Unmoved DEF Inv
<1> QED BY <1>3, <1>4, <1>5 DEF MoveDir

LEMMA OperateTypes == TreeAssumption /\ Inv /\ Operate => Inv'
BY CopyTypes, RecordTypes, RemoveTypes, MoveDirTypes DEF Operate

--------------------------------------------------------------------------------
(* The reconciliation, and the restart.                                           *)
LEMMA ScanTypes ==
    ASSUME TreeAssumption, Inv, StartResync \/ Boot \/ Scan \/ ReconcileDone
    PROVE  Inv'
<1>1. CASE StartResync \/ Boot
  <2>1. /\ job' = [Idle EXCEPT !.at = "scan", !.scope = Dirs]
        /\ UNCHANGED <<disk, state, events, bounds>>
        /\ resync' \in BOOLEAN /\ up' \in BOOLEAN
    BY <1>1 DEF StartResync, Boot, Still, Inv, RestOK
  <2>2. JobOK'
    BY <2>1, IdleTypes DEF JobOK, Job, At, Working
  <2> QED BY <2>1, <2>2, Unmoved DEF Inv, RestOK, bounds
<1>2. CASE ReconcileDone
  <2>1. job' = Idle /\ UNCHANGED <<disk, state, events, resync, up, bounds>>
    BY <1>2 DEF ReconcileDone, Still
  <2>2. JobOK'
    BY <2>1, IdleTypes DEF JobOK, Working
  <2> QED BY <2>1, <2>2, Unmoved DEF Inv
<1>3. CASE Scan
  <2> DEFINE inv == [has  |-> [s \in Side |-> has[s] \cap job.scope],
                     file |-> [s \in Side |-> [p \in Files |-> IF p[1] \in job.scope
                                                               THEN file[s][p] ELSE 0]]]
             plan == inv.has["A"] \cup inv.has["B"] \cup
                     {p \in Files : \E s \in Side : inv.file[s][p] # 0}
  <2>1. job' = [job EXCEPT !.at = "next", !.inv = inv, !.plan = plan] /\ job.at = "scan"
        /\ UNCHANGED <<disk, state, events, resync, up, bounds>>
    BY <1>3 DEF Scan, Still, Doing
  <2>2. inv \in Shot
    BY ZeroVersion DEF Shot, Inv, DiskOK
  <2>3. inv.has["A"] \subseteq Dirs /\ inv.has["B"] \subseteq Dirs
    BY <2>2, Sides DEF Shot
  <2>4. plan \in SUBSET (Dirs \cup Files)
    BY <2>3
  <2> HIDE DEF inv, plan
  <2>5. JobOK'
    BY <2>1, <2>2, <2>4 DEF Inv, JobOK, Job, At, Working
  <2> QED BY <2>1, <2>5, Unmoved DEF Inv
<1> QED BY <1>1, <1>2, <1>3

LEMMA RestTypes ==
    ASSUME JobOK, NEW P, job.at = "next"
    PROVE  /\ Rest(P) \in Job /\ Rest(P).at = "next" /\ Rest(P).echo = job.echo
           /\ Rest(P).from = job.from /\ Rest(P).dir = job.dir
BY DEF JobOK, Job, Rest

LEMMA ReconcileTypes ==
    ASSUME TreeAssumption, Inv,
           ReconcileDir \/ ReconcileOneDir \/ ReconcileOneFile \/ ReconcileFile
    PROVE  Inv'
<1>1. UNCHANGED <<sent, resync, up, bounds>> /\ job.at = "next"
  BY DEF ReconcileDir, ReconcileOneDir, ReconcileOneFile, ReconcileFile, Still, events, Turn, Doing
<1>2. job' = Rest({Ahead}) => JobOK'
  BY <1>1, RestTypes DEF Inv, JobOK, Working
<1>3. CASE ReconcileDir
  <2>1. job' = Rest({Ahead}) /\ UNCHANGED <<disk, row, events>>
        /\ rowDir' \in {rowDir} \cup {[s \in Side |-> rowDir[s] \cup {d}] :
                                          d \in {Ahead} \cap has["A"] \cap has["B"]}
    BY <1>3 DEF ReconcileDir
  <2>2. has["A"] \subseteq Dirs
    BY Sides DEF Inv, DiskOK
  <2>3. RowsOK'
    BY <2>1, <2>2 DEF Inv, RowsOK
  <2> QED BY <1>1, <1>2, <2>1, <2>3, Unmoved DEF Inv
<1>4. CASE ReconcileOneDir
  <2>1. /\ Ahead \in Dirs /\ UNCHANGED <<disk, state, events>>
        /\ \E s \in Side :
             LET start == IF Ahead \in rowDir[Other(s)] THEN StartRemove(Other(s), Ahead)
                          ELSE StartDir(s, Ahead)
             IN job' = [start EXCEPT !.plan = @ \ Handled(Ahead)]
    BY <1>4 DEF ReconcileOneDir, Turn
  <2>2. PICK s \in Side, label \in {"inspect", "mkdir"} :
          job' = [job EXCEPT !.at = label, !.src = s, !.dir = Ahead,
                             !.plan = job.plan \ Handled(Ahead)]
    BY <2>1, Sides DEF StartRemove, StartDir, Inv, JobOK, Job
  <2>3. JobOK'
    BY <1>1, <2>1, <2>2 DEF Inv, JobOK, Job, At
  <2> QED BY <1>1, <2>1, <2>3, Unmoved DEF Inv
<1>5. CASE ReconcileOneFile
  <2>1. job' = Rest({Ahead}) /\ Ahead \in Files
        /\ \E s \in Side : RemoveFile(s, Ahead) \/ PropagateContent(s, Ahead, FALSE)
    BY <1>5 DEF ReconcileOneFile, Turn
  <2>2. DiskOK' /\ RowsOK' /\ slot' \in Slots
    BY <2>1, RemoveFileTypes, PropagateTypes DEF Inv, EventsOK
  <2> QED BY <1>1, <1>2, <2>1, <2>2, Unmoved DEF Inv, EventsOK
<1>6. CASE ReconcileFile
  <2>1. job' = Rest({Ahead}) /\ Ahead \in Files
        /\ \/ /\ SetRow(Ahead, file["A"][Ahead], file["B"][Ahead]) \/ UNCHANGED row
              /\ UNCHANGED <<disk, rowDir, slot>>
           \/ \E s \in Side, forced \in BOOLEAN : PropagateContent(s, Ahead, forced)
           \/ UNCHANGED <<disk, state, slot>>
    <3>1. Newer(Ahead) \in Side
      BY Sides DEF Newer
    <3>2. Origin(Ahead) # {} => (CHOOSE s \in Origin(Ahead) : TRUE) \in Side
      BY DEF Origin
    <3> QED BY <1>6, <3>1, <3>2 DEF ReconcileFile, Turn
  <2>2. file["A"][Ahead] \in Version /\ file["B"][Ahead] \in Version
    BY <2>1, Sides DEF Inv, DiskOK
  <2>3. DiskOK' /\ RowsOK' /\ slot' \in Slots
    <3>1. CASE /\ SetRow(Ahead, file["A"][Ahead], file["B"][Ahead]) \/ UNCHANGED row
               /\ UNCHANGED <<disk, rowDir, slot>>
      BY <2>1, <2>2, <3>1, SetRowTypes, Unmoved DEF Inv, RowsOK, EventsOK
    <3>2. CASE \E s \in Side, forced \in BOOLEAN : PropagateContent(s, Ahead, forced)
      BY <2>1, <3>2, PropagateTypes DEF Inv
    <3>3. CASE UNCHANGED <<disk, state, slot>>
      BY <3>3, Unmoved DEF Inv, EventsOK
    <3> QED BY <2>1, <3>1, <3>2, <3>3
  <2> QED BY <1>1, <1>2, <2>1, <2>3, Unmoved DEF Inv, EventsOK
<1> QED BY <1>3, <1>4, <1>5, <1>6

LEMMA CrashTypes ==
    ASSUME TreeAssumption, Inv, Crash
    PROVE  Inv'
<1>1. /\ crashes < MaxCrashes /\ crashes' = crashes + 1 /\ up' = FALSE /\ job' = Idle
      /\ sent' = << >> /\ resync' = FALSE
      /\ slot' = [s \in Side |-> [p \in Dirs \cup Files |-> "none"]]
      /\ UNCHANGED <<disk, state, clock, dead, ops>>
  BY DEF Crash
<1>2. EventsOK'
  BY <1>1 DEF EventsOK, Slots
<1>3. JobOK'
  BY <1>1, IdleTypes DEF JobOK, Working
<1>4. RestOK'
  <2>1. MaxCrashes \in Nat /\ crashes \in 0..MaxCrashes
    BY DEF Inv, RestOK, TreeAssumption
  <2>2. crashes + 1 \in 0..MaxCrashes
    BY <1>1, <2>1
  <2>3. ops \in 0..MaxOps /\ clock \in Version /\ dead \subseteq Version
    BY DEF Inv, RestOK
  <2> QED BY <1>1, <2>2, <2>3 DEF RestOK, Version
<1> QED BY <1>1, <1>2, <1>3, <1>4, Unmoved DEF Inv

LEMMA InitTypes == TreeAssumption /\ Init => Inv
<1> SUFFICES ASSUME TreeAssumption, Init PROVE Inv
  OBVIOUS
<1>1. DiskOK
  BY ZeroVersion DEF Init, Nothing, NoFiles, DiskOK, Housed, FileOf
<1>2. RowsOK
  BY ZeroVersion DEF Init, Nothing, NoFiles, RowsOK
<1>3. EventsOK
  BY DEF Init, EventsOK, Slots
<1>4. JobOK
  BY IdleTypes DEF Init, JobOK, Working
<1>5. RestOK
  <2>1. 0 \in 0..MaxOps /\ 0 \in 0..MaxCrashes
    BY DEF TreeAssumption
  <2>2. /\ resync \in BOOLEAN /\ up \in BOOLEAN /\ clock = 0
        /\ dead = {} /\ ops = 0 /\ crashes = 0
    BY DEF Init
  <2> QED BY <2>1, <2>2, ZeroVersion DEF RestOK
<1> QED BY <1>1, <1>2, <1>3, <1>4, <1>5 DEF Inv

LEMMA TypeStep == TreeAssumption /\ Inv /\ [Next]_vars => Inv'
<1> SUFFICES ASSUME TreeAssumption, Inv, [Next]_vars PROVE Inv'
  OBVIOUS
<1>1. CASE UNCHANGED vars
  BY <1>1, Unmoved DEF vars, Inv
<1>2. CASE UserStep
  BY <1>2, MakeDirTypes, WriteTypes, DeleteTypes, RemoveTreeTypes, RenameDirTypes DEF UserStep
<1>3. CASE Daemon
  BY <1>3, ProcessTypes, OperateTypes, ScanTypes, ReconcileTypes DEF Daemon, Reconcile
<1> QED BY <1>1, <1>2, <1>3, CrashTypes, TimerTypes DEF Next

\* The trees, the rows and the operations keep their types, and a file is always in
\* a directory that exists: whatever users do, in whatever haste (Hurry), and
\* wherever a copy, a removal, a rename or a reconciliation fails or dies half-way.
THEOREM TypeCorrect == Spec => []TypeOK
<1> USE TreeAssumption
<1>1. Init => Inv
  BY InitTypes
<1>2. Inv /\ [Next]_vars => Inv'
  BY TypeStep
<1>3. Inv => TypeOK
  BY SeqOfLetters DEF Inv, DiskOK, RowsOK, EventsOK, JobOK, RestOK, Housed, Slots, TypeOK
<1> QED BY <1>1, <1>2, <1>3, PTL DEF Spec
================================================================================
