----------------------------- MODULE SyncPair_proofs -----------------------------
(* Proofs about SyncPair, for any number of versions and of faults, any number of *)
(* attempts and any echoes an rsync may cause.                                    *)
EXTENDS SyncPair, SequenceTheorems, TLAPS

Labels == {"idle", "decide", "detect", "conflict", "preserve", "copy", "settle", "forget",
           "resolve", "record", "remove", "unrecord", "unrecord2", "attrs", "scan", "scan2",
           "apply"}

Base ==
    /\ disk \in [Side -> File] /\ entry \in [Side -> File] /\ inv \in [Side -> File]
    /\ saved \subseteq Stamps /\ shared \subseteq Stamps
    /\ policy \in Policies /\ open \in BOOLEAN /\ up \in BOOLEAN /\ resync \in BOOLEAN
    /\ clock \in 0..MaxClock /\ faults \in 0..MaxFaults
    /\ cnt \in [Side -> Nat]
    /\ pc \in Labels /\ run \in {"worker", "resync"} /\ to \in Side

(* What is on its way from the kernel to a handler: notices of N, kinds of K.    *)
Feeds(N, K) ==
    /\ kern \in [Side -> Seq(N)]
    /\ slot \in [Side -> K \cup {None}]
    /\ out \in Seq([side : Side, kind : K])
    /\ wq \in Seq([side : Side, kind : K])
    /\ failed \in Seq([side : Side, kind : K])
    /\ retry \in [Side -> [kind : K, attempts : Nat] \cup {NoRetry}]
    /\ ev \in [side : Side, kind : K \cup {None}]
    /\ run = "worker" /\ pc # "idle" => ev.kind \in K

(* Only the worker decides about an event, and who is idle has none.             *)
Runs ==
    /\ pc = "decide" => run = "worker"
    /\ pc = "idle" => run = "worker" /\ ev = NoTask

TypeInv == Base /\ Feeds(Notice, Kind) /\ Runs

--------------------------------------------------------------------------------
LEMMA Numbers ==
    ASSUME PairAssumption
    PROVE  /\ Stamps \subseteq Nat /\ 0 \in Stamps /\ 1 \in Stamps
           /\ Absent \in File /\ NoInventory \in [Side -> File] /\ NoTask.side \in Side
           /\ \A n \in 0..MaxClock : n \in Stamps /\ (n < MaxClock => n + 1 \in Stamps)
           /\ \A n \in 0..MaxFaults : n < MaxFaults => MaxClock + (n + 1) \in Stamps
BY DEF PairAssumption, Stamps, File, Absent, NoInventory, NoTask, Side

LEMMA OtherSide == \A s \in Side : Other(s) \in Side /\ Other(s) # s
BY DEF Other, Side

LEMMA Parts ==
    ASSUME NEW S, NEW q \in Seq(S), q # << >>
    PROVE  Head(q) \in S /\ Tail(q) \in Seq(S)
BY HeadTailProperties

LEMMA FinishBase ==
    ASSUME PairAssumption, Finish
    PROVE  /\ pc' \in Labels /\ run' \in {"worker", "resync"} /\ to' \in Side
           /\ inv' \in [Side -> File] /\ Runs'
BY Numbers DEF Finish, Labels, Side, Runs

LEMMA GotoBase ==
    ASSUME Base, NEW label \in Labels \ {"idle", "decide"}, Goto(label)
    PROVE  /\ pc' \in Labels /\ run' \in {"worker", "resync"} /\ to' \in Side
           /\ inv' \in [Side -> File] /\ Runs'
BY DEF Base, Goto, Runs

\* How an engine's step may end, and what it leaves of the engine's own state.
Ends ==
    \/ Finish
    \/ \E label \in Labels \ {"idle", "decide"} : Goto(label)
    \/ pc' \in Labels \ {"idle", "decide"} /\ to' \in Side /\ UNCHANGED <<run, ev, inv>>
    \/ Apply /\ \E label \in Labels \ {"idle", "decide"}, s \in Side, kind \in Kind :
                   Begin(label, s, kind)

LEMMA EndsBase ==
    ASSUME PairAssumption, Base, Ends
    PROVE  /\ pc' \in Labels /\ run' \in {"worker", "resync"} /\ to' \in Side
           /\ inv' \in [Side -> File] /\ Runs'
<1>1. CASE Finish
  BY <1>1, FinishBase
<1>2. ASSUME NEW label \in Labels \ {"idle", "decide"}, Goto(label)
      PROVE  /\ pc' \in Labels /\ run' \in {"worker", "resync"} /\ to' \in Side
             /\ inv' \in [Side -> File] /\ Runs'
  BY <1>2, GotoBase
<1>3. CASE pc' \in Labels \ {"idle", "decide"} /\ to' \in Side /\ UNCHANGED <<run, ev, inv>>
  BY <1>3 DEF Base, Runs
<1>4. ASSUME NEW label \in Labels \ {"idle", "decide"}, NEW s \in Side, NEW kind \in Kind,
             Begin(label, s, kind)
      PROVE  /\ pc' \in Labels /\ run' \in {"worker", "resync"} /\ to' \in Side
             /\ inv' \in [Side -> File] /\ Runs'
  BY <1>4, OtherSide DEF Begin, Base, Runs
<1> QED BY <1>1, <1>2, <1>3, <1>4 DEF Ends

\* Every handler's step ends in one of these ways; a failure is reported.
HandlerSteps ==
    \/ Decide \/ Detect \/ Conflict \/ Preserve \/ Copy \/ CopyNothing \/ CopyTorn \/ Forget
    \/ Resolve \/ Record \/ Remove \/ Unrecord \/ Attrs \/ Apply

LEMMA ApplyEnds ==
    ASSUME PairAssumption, Base, Apply
    PROVE  /\ \/ Finish /\ inv["A"] = Absent /\ inv["B"] = Absent
              \/ Goto("record") /\ inv["A"].c = inv["B"].c /\ ~AttrsDiverged(inv["A"], inv["B"])
              \/ \E s \in Side : /\ inv[s] # Absent /\ inv[Other(s)] = Absent
                                 /\ \/ DeletedThere(s) /\ Begin("remove", Other(s), "DELETE")
                                    \/ Begin("detect", s, "CREATE")
              \/ /\ inv["A"].c = inv["B"].c /\ AttrsDiverged(inv["A"], inv["B"])
                 /\ \E s \in Side : Begin("attrs", s, "ATTRIB")
              \/ /\ inv["A"] # Absent /\ inv["B"] # Absent /\ inv["A"].c # inv["B"].c
                 /\ \E s \in Side : \E label \in {"detect", "conflict"} : Begin(label, s, "MODIFY")
           /\ UNCHANGED failed
<1> USE DEF Side
<1>1. UNCHANGED failed
  BY DEF Apply, loopVars
<1>2. \/ Finish /\ inv["A"] = Absent /\ inv["B"] = Absent
      \/ inv["A"] # Absent /\ inv["B"] = Absent /\ OneSided("A")
      \/ inv["A"] = Absent /\ inv["B"] # Absent /\ OneSided("B")
      \/ inv["A"] # Absent /\ inv["B"] # Absent /\ BothSides
  BY DEF Apply
<1>3. ASSUME NEW s \in Side, OneSided(s)
      PROVE  \/ DeletedThere(s) /\ Begin("remove", Other(s), "DELETE")
             \/ Begin("detect", s, "CREATE")
  BY <1>3 DEF OneSided
<1>4. ASSUME BothSides
      PROVE  \/ Goto("record") /\ inv["A"].c = inv["B"].c /\ ~AttrsDiverged(inv["A"], inv["B"])
             \/ /\ inv["A"].c = inv["B"].c /\ AttrsDiverged(inv["A"], inv["B"])
                /\ \E s \in Side : Begin("attrs", s, "ATTRIB")
             \/ /\ inv["A"].c # inv["B"].c
                /\ \E s \in Side : \E label \in {"detect", "conflict"} : Begin(label, s, "MODIFY")
  <2>1. AttrsOrigin \subseteq Side /\ Newer \in Side
    BY DEF AttrsOrigin, OnlyOne, Newer
  <2>2. Winner \subseteq Side
    BY DEF Winner
  <2>3. ContentOrigin \subseteq Side
    BY DEF ContentOrigin, OnlyOne
  <2> DEFINE origin == IF Winner # {} THEN Winner ELSE ContentOrigin
  <2>4. origin \subseteq Side
    BY <2>2, <2>3
  <2>5. CASE inv["A"].c = inv["B"].c
    BY <1>4, <2>1, <2>5 DEF BothSides
  <2>6. CASE inv["A"].c # inv["B"].c
    <3>1. \/ \E s \in origin : Begin("detect", s, "MODIFY")
          \/ Begin("conflict", Newer, "MODIFY")
      BY <1>4, <2>6 DEF BothSides
    <3> HIDE DEF origin
    <3> QED BY <2>6, <3>1, <2>1, <2>4
  <2> QED BY <2>5, <2>6
<1>5. Other("A") = "B" /\ Other("B") = "A"
  BY DEF Other
<1> QED BY <1>1, <1>2, <1>3, <1>4, <1>5

LEMMA HandlerEnds ==
    ASSUME PairAssumption, TypeInv, HandlerSteps
    PROVE  Ends
<1> USE DEF TypeInv
<1>1. CASE Decide
  <2>1. pc = "decide" /\ ev.kind \in Kind
    BY <1>1 DEF Decide, Runs, Feeds
  <2>2. Finish \/ Goto("detect") \/ Goto("remove") \/ Goto("attrs")
    BY <1>1, <2>1 DEF Decide, Kind
  <2> QED BY <2>2 DEF Ends, Labels
<1>2. CASE Detect
  <2>1. FailTask \/ Goto("conflict") \/ Goto("copy")
    BY <1>2 DEF Detect
  <2> QED BY <2>1 DEF Ends, Labels, FailTask
<1>3. CASE Conflict
  <2>1. policy \in {"manual", "preserve", "newer-wins"}
    BY DEF Base, PairAssumption
  <2>2. FailTask \/ Finish \/ Goto("preserve")
        \/ (pc' = "settle" /\ to' = OlderSide /\ UNCHANGED <<run, ev, inv>>)
    BY <1>3, <2>1 DEF Conflict
  <2>3. OlderSide \in Side
    BY OtherSide DEF OlderSide, From, Base
  <2> QED BY <2>2, <2>3 DEF Ends, Labels, FailTask
<1>4. CASE Preserve \/ Copy \/ CopyNothing \/ CopyTorn \/ Forget \/ Resolve \/ Record
  BY <1>4 DEF Preserve, Copy, CopyNothing, CopyTorn, Forget, Resolve, Record, FailTask, Ends, Labels
<1>5. CASE Remove \/ Unrecord \/ Attrs
  BY <1>5 DEF Remove, Unrecord, Attrs, FailTask, Ends, Labels
<1>6. CASE Apply
  BY <1>6, ApplyEnds, OtherSide DEF Ends, Labels, Kind
<1> QED BY <1>1, <1>2, <1>3, <1>4, <1>5, <1>6 DEF HandlerSteps

--------------------------------------------------------------------------------
(* Base: the disk, the database and the counters.                                *)
LEMMA FileWrite ==
    ASSUME PairAssumption, Base, NEW s \in Side, NEW file \in File
    PROVE  [disk EXCEPT ![s] = file] \in [Side -> File]
BY DEF Base

LEMMA HandlerBase ==
    ASSUME PairAssumption, TypeInv, HandlerSteps
    PROVE  Base' /\ Runs'
<1> USE DEF TypeInv
<1>1. /\ pc' \in Labels /\ run' \in {"worker", "resync"} /\ to' \in Side
      /\ inv' \in [Side -> File] /\ Runs'
  BY HandlerEnds, EndsBase
<1>2. From \in Side /\ disk[From] \in File /\ disk[to] \in File /\ to \in Side
  BY OtherSide DEF Base, From
<1>3. Absent \in File /\ NoInventory \in [Side -> File]
  BY Numbers
<1>4. CASE Decide \/ Detect \/ Forget \/ CopyNothing \/ Apply
  <2>1. UNCHANGED <<fsVars, dbVars, envVars, resync>>
    BY <1>4 DEF Decide, Detect, Forget, CopyNothing, Apply, loopVars
  <2>2. cnt' = cnt \/ cnt' = [cnt EXCEPT ![to] = 0]
    BY <1>4 DEF Decide, Detect, Forget, CopyNothing, Apply, feedVars
  <2>3. cnt' \in [Side -> Nat]
    BY <1>2, <2>2 DEF Base
  <2> QED BY <1>1, <2>1, <2>3 DEF Base, fsVars, dbVars, envVars
<1>5. CASE Conflict \/ Resolve
  <2>1. UNCHANGED <<fsVars, entry, envVars, resync, cnt>> /\ open' \in BOOLEAN
    BY <1>5 DEF Conflict, Resolve, loopVars, feedVars, Base
  <2> QED BY <1>1, <2>1 DEF Base, fsVars, envVars
<1>6. CASE Preserve
  <2>1. disk[to].c \in Stamps
    BY <1>2 DEF File
  <2>2. UNCHANGED <<disk, shared, dbVars, envVars, resync, cnt>> /\ saved' \subseteq Stamps
    BY <1>6, <2>1 DEF Preserve, Preserved, feedVars, Base
  <2> QED BY <1>1, <2>2 DEF Base, dbVars, envVars
<1>7. CASE Copy
  <2>1. disk' \in [Side -> File]
    BY <1>2, <1>7, FileWrite DEF Copy, Write
  <2>2. shared' \subseteq Stamps
    <3>1. disk[From].c \in Stamps
      BY <1>2 DEF File
    <3>2. shared' \subseteq shared \cup {disk[From].c}
      BY <1>7 DEF Copy, Write
    <3> QED BY <3>1, <3>2 DEF Base
  <2>3. cnt' \in [Side -> Nat]
    BY <1>7 DEF Copy, Write, Expected, Base
  <2>4. UNCHANGED <<saved, dbVars, envVars, resync>>
    BY <1>7 DEF Copy, loopVars
  <2> QED BY <1>1, <2>1, <2>2, <2>3, <2>4 DEF Base, dbVars, envVars
<1>8. CASE CopyTorn
  <2>1. faults' \in 0..MaxFaults /\ MaxClock + faults' \in Stamps
    BY <1>8, Numbers DEF CopyTorn, Base, PairAssumption
  <2>2. disk' \in [Side -> File]
    <3>1. [c |-> MaxClock + faults', t |-> MaxClock + faults', m |-> disk[to].m] \in File
      BY <1>2, <2>1 DEF File
    <3>2. disk' = [disk EXCEPT ![to] =
                     [c |-> MaxClock + faults', t |-> MaxClock + faults', m |-> disk[to].m]]
      BY <1>2, <1>8 DEF CopyTorn, Base
    <3> QED BY <1>2, <3>1, <3>2, FileWrite
  <2>3. cnt' \in [Side -> Nat]
    BY <1>8 DEF CopyTorn, Expected, Base
  <2>4. UNCHANGED <<saved, shared, dbVars, policy, up, clock, resync>>
    BY <1>8 DEF CopyTorn, loopVars
  <2> QED BY <1>1, <2>1, <2>2, <2>3, <2>4 DEF Base, dbVars
<1>9. CASE Record
  <2>1. UNCHANGED <<fsVars, open, envVars, resync, cnt>> /\ (entry' = entry \/ entry' = disk)
    BY <1>9 DEF Record, Recorded, feedVars
  <2> QED BY <1>1, <2>1 DEF Base, fsVars, envVars
<1>10. CASE Remove
  <2>1. disk' \in [Side -> File]
    BY <1>2, <1>3, <1>10, FileWrite DEF Remove
  <2>2. cnt' \in [Side -> Nat]
    BY <1>10 DEF Remove, Expected, Base
  <2>3. UNCHANGED <<saved, shared, dbVars, envVars, resync>>
    BY <1>10 DEF Remove, loopVars
  <2> QED BY <1>1, <2>1, <2>2, <2>3 DEF Base, dbVars, envVars
<1>11. CASE Unrecord
  <2>1. entry' = NoInventory \/ \E s \in Side : entry' = [entry EXCEPT ![s] = Absent]
    BY <1>2, <1>11 DEF Unrecord
  <2>2. entry' \in [Side -> File]
    BY <1>3, <2>1 DEF Base
  <2>3. UNCHANGED <<fsVars, open, envVars, resync, cnt>>
    BY <1>11 DEF Unrecord, loopVars, feedVars
  <2> QED BY <1>1, <2>2, <2>3 DEF Base, fsVars, envVars
<1>12. CASE Attrs
  <2>1. cnt' \in [Side -> Nat]
    <3>1. cnt' = [cnt EXCEPT ![to] = 0] \/ cnt' = [cnt EXCEPT ![to] = @ + 1]
      BY <1>12 DEF Attrs, Expected
    <3> QED BY <1>2, <3>1 DEF Base
  <2>2. disk' \in [Side -> File]
    <3>1. disk' = disk \/ disk' = [disk EXCEPT ![to] = [disk[From] EXCEPT !.c = disk[to].c]]
      BY <1>12 DEF Attrs
    <3>2. [disk[From] EXCEPT !.c = disk[to].c] \in File
      BY <1>2 DEF File
    <3>3. disk \in [Side -> File]
      BY DEF Base
    <3> QED BY <1>2, <3>1, <3>2, <3>3, FileWrite
  <2>3. UNCHANGED <<saved, shared, dbVars, envVars, resync>>
    BY <1>12 DEF Attrs
  <2> QED BY <1>1, <2>1, <2>2, <2>3 DEF Base, dbVars, envVars
<1> QED BY <1>4, <1>5, <1>6, <1>7, <1>8, <1>9, <1>10, <1>11, <1>12, <1>1 DEF HandlerSteps

OtherSteps ==
    \/ UserStep \/ LoopStep \/ FeedStep \/ Boot \/ Crash \/ WorkerTake \/ Rest
    \/ \E s \in Side : Scan(s) \/ Overflow(s) \/ Expire(s)

LEMMA UserBase ==
    ASSUME PairAssumption, Base, Runs, UserStep
    PROVE  Base' /\ Runs'
<1>1. PICK s \in Side : UserWrite(s) \/ UserDelete(s) \/ UserAttrib(s)
  BY DEF UserStep
<1>2. clock' = clock + 1 /\ clock < MaxClock /\ clock' \in 0..MaxClock /\ clock + 1 \in Stamps
  BY <1>1, Numbers DEF UserWrite, UserDelete, UserAttrib, UserMay, Base, PairAssumption
<1>3. disk' \in [Side -> File]
  <2>1. CASE UserWrite(s)
    <3>1. [c |-> clock + 1, t |-> clock + 1, m |-> disk[s].m] \in File
      BY <1>2 DEF File, Base
    <3>2. disk' = [disk EXCEPT ![s] = [c |-> clock + 1, t |-> clock + 1, m |-> disk[s].m]]
      BY <2>1 DEF UserWrite, Base
    <3> QED BY <3>1, <3>2, FileWrite
  <2>2. CASE UserDelete(s)
    BY <2>2, Numbers, FileWrite DEF UserDelete
  <2>3. CASE UserAttrib(s)
    <3>1. [disk[s] EXCEPT !.t = clock + 1] \in File /\ [disk[s] EXCEPT !.m = clock + 1] \in File
      BY <1>2 DEF File, Base
    <3>2. \/ disk' = [disk EXCEPT ![s] = [disk[s] EXCEPT !.t = clock + 1]]
          \/ disk' = [disk EXCEPT ![s] = [disk[s] EXCEPT !.m = clock + 1]]
      BY <2>3 DEF UserAttrib, Base
    <3> QED BY <3>1, <3>2, FileWrite
  <2> QED BY <1>1, <2>1, <2>2, <2>3
<1>4. UNCHANGED <<saved, shared, dbVars, policy, up, faults, cnt, loopVars, engVars>>
  BY <1>1 DEF UserWrite, UserDelete, UserAttrib
<1> QED BY <1>2, <1>3, <1>4 DEF Base, Runs, dbVars, loopVars, engVars

LEMMA OtherBase ==
    ASSUME PairAssumption, TypeInv, OtherSteps
    PROVE  Base' /\ Runs'
<1> USE DEF TypeInv
<1>1. CASE UserStep
  BY <1>1, UserBase
<1>2. ASSUME NEW s \in Side, Pump(s) \/ Release(s) \/ Expire(s) PROVE Base' /\ Runs'
  <2>1. UNCHANGED <<fsVars, dbVars, envVars, resync, engVars>>
    BY <1>2 DEF Pump, Release, Expire, loopVars
  <2>2. cnt' \in [Side -> Nat]
    BY <1>2 DEF Pump, Claims, Release, Expire, Base
  <2> QED BY <2>1, <2>2 DEF Base, Runs, fsVars, dbVars, envVars, engVars
<1>3. ASSUME TakeEvent \/ HandleFailure \/ \E s \in Side : RetryDue(s) PROVE Base' /\ Runs'
  <2>1. UNCHANGED <<fsVars, dbVars, envVars, cnt, engVars>> /\ resync' \in BOOLEAN
    BY <1>3 DEF TakeEvent, HandleFailure, RetryDue, feedVars, Base
  <2> QED BY <2>1 DEF Base, Runs, fsVars, dbVars, envVars, engVars
<1>4. CASE StartResync
  BY <1>4 DEF StartResync, Base, Runs, Labels, fsVars, dbVars, envVars, feedVars
<1>5. CASE WorkerTake
  <2>1. Head(wq) \in [side : Side, kind : Kind]
    <3>1. wq \in Seq([side : Side, kind : Kind]) /\ wq # << >>
      BY <1>5 DEF WorkerTake, Feeds
    <3> QED BY <3>1, Parts
  <2>2. to' \in Side
    BY <1>5, <2>1, OtherSide DEF WorkerTake
  <2> QED BY <1>5, <2>2 DEF WorkerTake, LoopFree, Base, Runs, Labels, fsVars, dbVars,
            envVars, feedVars
<1>6. ASSUME NEW s \in Side, Scan(s) PROVE Base' /\ Runs'
  <2>1. inv' \in [Side -> File]
    BY <1>6 DEF Scan, Base
  <2>2. to' \in Side /\ pc' \in {"scan2", "apply"}
    BY <1>6, OtherSide DEF Scan, Base
  <2> QED BY <1>6, <2>1, <2>2 DEF Scan, Base, Runs, Labels, fsVars, dbVars, envVars,
            feedVars, loopVars
<1>7. CASE Boot
  BY <1>7 DEF Boot, Base, Runs, Labels, fsVars, dbVars, feedVars, loopVars
<1>8. CASE Crash
  <2>1. faults' \in 0..MaxFaults
    BY <1>8 DEF Crash, Base, PairAssumption
  <2>2. cnt' \in [Side -> Nat]
    BY <1>8 DEF Crash
  <2> QED BY <1>8, <2>1, <2>2, FinishBase DEF Crash, Base, fsVars, dbVars
<1>9. ASSUME NEW s \in Side, Overflow(s) PROVE Base' /\ Runs'
  <2>1. faults' \in 0..MaxFaults
    BY <1>9 DEF Overflow, Base, PairAssumption
  <2> QED BY <1>9, <2>1 DEF Overflow, Base, Runs, fsVars, dbVars, engVars
<1>10. CASE UNCHANGED vars
  BY <1>10 DEF vars, Base, Runs, fsVars, dbVars, envVars, feedVars, loopVars, engVars
<1> QED BY <1>1, <1>2, <1>3, <1>4, <1>5, <1>6, <1>7, <1>8, <1>9, <1>10
        DEF OtherSteps, LoopStep, FeedStep, Rest

--------------------------------------------------------------------------------
(* Feeds: what reaches a handler is what the kernel reported, merged.            *)
LEMMA Merged ==
    ASSUME NEW K, {"CREATE", "MODIFY"} \subseteq K, NEW prev, NEW next \in K
    PROVE  Merge(prev, next) \in K
BY DEF Merge

\* Every step, given what the kernel and the engine then hold, keeps the rest.
LEMMA FeedsStep ==
    ASSUME NEW N, NEW K, {"CREATE", "MODIFY"} \subseteq K, \A n \in N : n.kind \in K,
           Runs, Base, Feeds(N, K), Next,
           kern' \in [Side -> Seq(N)],
           ev' \in [side : Side, kind : K \cup {None}],
           run' = "worker" /\ pc' # "idle" => ev'.kind \in K
    PROVE  Feeds(N, K)'
<1> DEFINE T == [side : Side, kind : K]
           R == [kind : K, attempts : Nat] \cup {NoRetry}
           Kept == /\ slot' \in [Side -> K \cup {None}]
                   /\ out' \in Seq(T) /\ wq' \in Seq(T) /\ failed' \in Seq(T)
                   /\ retry' \in [Side -> R]
<1>1. /\ slot \in [Side -> K \cup {None}]
      /\ out \in Seq(T) /\ wq \in Seq(T) /\ failed \in Seq(T) /\ retry \in [Side -> R]
      /\ run = "worker" /\ pc # "idle" => ev \in T
  BY DEF Feeds
<1>2. SUFFICES Kept
  BY DEF Feeds
<1>3. NoRetry \in R
  OBVIOUS
<1>4. \A t \in T : t.side \in Side /\ t.kind \in K
  OBVIOUS
<1>5. \A s \in Side, k \in K : [side |-> s, kind |-> k] \in T
  OBVIOUS
<1>6. \A k \in K, n \in Nat : [kind |-> k, attempts |-> n] \in R
  OBVIOUS
<1>7. \A r \in R : r # NoRetry => r.kind \in K
  OBVIOUS
<1>8. \A r \in R : r.attempts + 1 \in Nat
  BY DEF NoRetry
<1> HIDE DEF T, R
<1>9. CASE UNCHANGED <<slot, out, wq, failed, retry>>
  BY <1>1, <1>9
<1>10. CASE UserStep \/ Boot \/ Rest \/ Copy \/ CopyTorn \/ Resolve \/ Remove \/ Unrecord
            \/ Decide \/ Apply \/ StartResync
  BY <1>9, <1>10 DEF UserStep, UserWrite, UserDelete, UserAttrib, Boot, Rest, vars, Copy, CopyTorn,
     Resolve, Remove, Unrecord, Decide, Apply, StartResync, feedVars, loopVars
<1>11. ASSUME NEW s \in Side, Scan(s) \/ Overflow(s) \/ Expire(s) PROVE Kept
  BY <1>9, <1>11 DEF Scan, Overflow, Expire, feedVars, loopVars
<1>12. CASE Crash
  BY <1>12, <1>3 DEF Crash
<1>13. CASE Detect \/ Conflict \/ Preserve \/ CopyNothing \/ Forget \/ Record \/ Attrs
  <2>1. UNCHANGED <<slot, out, wq, retry>>
    BY <1>13 DEF Detect, Conflict, Preserve, CopyNothing, Forget, Record, Attrs, feedVars
  <2>2. pc # "idle" /\ (failed' = failed \/ FailTask)
    BY <1>13 DEF Detect, Conflict, Preserve, CopyNothing, Forget, Record, Attrs
  <2>3. failed' = failed \/ (run = "worker" /\ failed' = Append(failed, ev))
    BY <2>2 DEF FailTask
  <2>4. CASE failed' = failed
    BY <1>1, <2>1, <2>4
  <2>5. CASE run = "worker" /\ failed' = Append(failed, ev)
    <3>1. failed \in Seq(T) /\ ev \in T
      BY <1>1, <2>2, <2>5
    <3>2. Append(failed, ev) \in Seq(T)
      BY <3>1, AppendProperties
    <3> QED BY <1>1, <2>1, <2>5, <3>2
  <2> QED BY <2>3, <2>4, <2>5
<1>14. CASE WorkerTake
  BY <1>1, <1>14, Parts DEF WorkerTake, feedVars
<1>15. CASE TakeEvent
  <2>1. out' \in Seq(T) /\ Head(out) \in T
    BY <1>1, <1>15, Parts DEF TakeEvent
  <2>2. wq' \in Seq(T)
    BY <1>1, <1>15, <2>1, AppendProperties DEF TakeEvent
  <2>3. retry' \in [Side -> R]
    BY <1>1, <1>3, <1>15 DEF TakeEvent
  <2> QED BY <1>1, <1>15, <2>1, <2>2, <2>3 DEF TakeEvent
<1>16. CASE HandleFailure
  <2>1. failed' \in Seq(T) /\ Head(failed) \in T
    BY <1>1, <1>16, Parts DEF HandleFailure
  <2>2. retry' \in [Side -> R]
    <3> DEFINE f == Head(failed)
               n == retry[f.side].attempts + 1
    <3>1. f.side \in Side /\ f.kind \in K
      BY <1>4, <2>1
    <3>2. n \in Nat
      BY <1>1, <1>8, <3>1
    <3>3. [kind |-> f.kind, attempts |-> n] \in R
      BY <1>6, <3>1, <3>2
    <3>4. \/ retry' = [retry EXCEPT ![f.side] = NoRetry]
          \/ retry' = [retry EXCEPT ![f.side] = [kind |-> f.kind, attempts |-> n]]
      BY <1>16 DEF HandleFailure
    <3> HIDE DEF f, n
    <3> QED BY <1>1, <1>3, <3>3, <3>4
  <2> QED BY <1>1, <1>16, <2>1, <2>2 DEF HandleFailure, feedVars
<1>17. ASSUME NEW s \in Side, RetryDue(s) PROVE Kept
  <2>1. [side |-> s, kind |-> retry[s].kind] \in T
    BY <1>1, <1>5, <1>7, <1>17 DEF RetryDue
  <2>2. wq' \in Seq(T)
    BY <1>1, <1>17, <2>1, AppendProperties DEF RetryDue
  <2>3. retry' \in [Side -> R]
    BY <1>1, <1>3, <1>17 DEF RetryDue
  <2> QED BY <1>1, <1>17, <2>2, <2>3 DEF RetryDue, feedVars
<1>18. ASSUME NEW s \in Side, Pump(s) PROVE Kept
  <2>1. Head(kern[s]) \in N
    BY <1>18, Parts DEF Pump, Feeds
  <2>2. Merge(slot[s], Head(kern[s]).kind) \in K
    BY <2>1, Merged
  <2>3. slot' \in [Side -> K \cup {None}]
    BY <1>1, <1>18, <2>2 DEF Pump
  <2> QED BY <1>1, <1>18, <2>3 DEF Pump, loopVars
<1>19. ASSUME NEW s \in Side, Release(s) PROVE Kept
  <2>1. slot[s] \in K
    BY <1>1, <1>19 DEF Release
  <2>2. out' \in Seq(T)
    BY <1>1, <1>5, <1>19, <2>1, AppendProperties DEF Release
  <2>3. slot' \in [Side -> K \cup {None}]
    BY <1>1, <1>19 DEF Release
  <2> QED BY <1>1, <1>19, <2>2, <2>3 DEF Release, loopVars
<1> QED BY <1>10, <1>11, <1>12, <1>13, <1>14, <1>15, <1>16, <1>17, <1>18, <1>19
        DEF Next, WorkerStep, LoopStep, FeedStep, Fault

\* The event in hand comes from the worker's channel, or from the plan of a resync.
LEMMA EvStep ==
    ASSUME PairAssumption, TypeInv, NEW N, NEW K, Feeds(N, K), Next,
           Apply => Finish \/ UNCHANGED ev \/ ev'.kind \in K
    PROVE  /\ ev' \in [side : Side, kind : K \cup {None}]
           /\ run' = "worker" /\ pc' # "idle" => ev'.kind \in K
<1> DEFINE Goal == /\ ev' \in [side : Side, kind : K \cup {None}]
                   /\ run' = "worker" /\ pc' # "idle" => ev'.kind \in K
<1> SUFFICES Goal
  OBVIOUS
<1>1. ev \in [side : Side, kind : K \cup {None}]
      /\ (run = "worker" /\ pc # "idle" => ev.kind \in K)
  BY DEF Feeds
<1>2. ASSUME Finish PROVE Goal
  BY <1>2 DEF Finish, NoTask, Side
<1>3. ASSUME UNCHANGED <<run, ev>>, pc # "idle" \/ run' # "worker" PROVE Goal
  BY <1>1, <1>3
<1>4. CASE HandlerSteps
  <2>1. pc # "idle"
    BY <1>4 DEF HandlerSteps, Decide, Detect, Conflict, Preserve, Copy, CopyNothing, CopyTorn,
       Forget, Resolve, Record, Remove, Unrecord, Attrs, Apply
  <2>2. ASSUME Apply, NEW label, NEW s \in Side, NEW kind \in Kind, Begin(label, s, kind)
        PROVE  Goal
    <3>1. run' = run /\ ev' = [side |-> s, kind |-> kind]
      BY <2>2 DEF Begin
    <3>2. CASE Finish
      BY <3>2, <1>2
    <3>3. CASE UNCHANGED ev
      BY <1>1, <2>1, <3>1, <3>3
    <3>4. CASE ev'.kind \in K
      BY <3>1, <3>4
    <3> QED BY <2>2, <3>2, <3>3, <3>4
  <2>3. ASSUME NEW label, Goto(label) PROVE Goal
    BY <1>3, <2>1, <2>3 DEF Goto
  <2>4. ASSUME UNCHANGED <<run, ev, inv>> PROVE Goal
    BY <1>3, <2>1, <2>4
  <2> HIDE DEF Goal
  <2> QED BY <1>2, <1>4, <2>2, <2>3, <2>4, HandlerEnds DEF Ends
<1>5. CASE WorkerTake
  <2>1. Head(wq) \in [side : Side, kind : K]
    <3>1. wq \in Seq([side : Side, kind : K]) /\ wq # << >>
      BY <1>5 DEF WorkerTake, Feeds
    <3> QED BY <3>1, Parts
  <2> QED BY <1>5, <2>1 DEF WorkerTake
<1>6. CASE StartResync \/ Boot
  BY <1>1, <1>6 DEF StartResync, Boot
<1>7. ASSUME NEW s \in Side, Scan(s) PROVE Goal
  BY <1>3, <1>7 DEF Scan
<1>8. CASE Crash
  BY <1>2, <1>8 DEF Crash
<1>9. CASE UNCHANGED engVars
  BY <1>1, <1>9 DEF engVars
<1>10. CASE UserStep \/ FeedStep \/ TakeEvent \/ HandleFailure \/ Rest
  BY <1>9, <1>10 DEF UserStep, UserWrite, UserDelete, UserAttrib, FeedStep, Pump, Release,
     TakeEvent, HandleFailure, Rest, vars
<1>11. ASSUME NEW s \in Side, RetryDue(s) \/ Overflow(s) \/ Expire(s) PROVE Goal
  BY <1>9, <1>11 DEF RetryDue, Overflow, Expire
<1> HIDE DEF Goal
<1> QED BY <1>4, <1>5, <1>6, <1>7, <1>8, <1>10, <1>11
        DEF Next, WorkerStep, LoopStep, Fault, HandlerSteps

--------------------------------------------------------------------------------
(* The kernel's queues.                                                          *)
LEMMA Noticed ==
    ASSUME NEW N, NEW K, NEW own, \A k \in K : [kind |-> k, own |-> own] \in N,
           NEW kinds \in Seq(K)
    PROVE  Notices(kinds, own) \in Seq(N)
<1>1. Len(kinds) \in Nat /\ DOMAIN kinds = 1..Len(kinds) /\ \A i \in DOMAIN kinds : kinds[i] \in K
  OBVIOUS
<1>2. Notices(kinds, own) \in [1..Len(kinds) -> N]
  BY <1>1 DEF Notices
<1> QED BY <1>1, <1>2, SeqDef

LEMMA KernGrows ==
    ASSUME NEW N, kern \in [Side -> Seq(N)], NEW s \in Side, NEW q \in Seq(N)
    PROVE  [kern EXCEPT ![s] = @ \o q] \in [Side -> Seq(N)]
<1>1. kern[s] \o q \in Seq(N)
  BY ConcatProperties
<1> QED BY <1>1

Reports == UserStep \/ Copy \/ CopyTorn \/ Remove \/ Attrs

LEMMA KernKept ==
    ASSUME NEW N, kern \in [Side -> Seq(N)], Next, ~Reports
    PROVE  kern' \in [Side -> Seq(N)]
<1>1. << >> \in Seq(N)
  BY EmptySeq
<1>2. CASE UNCHANGED kern
  BY <1>2
<1>3. CASE WorkerStep \/ LoopStep \/ Boot \/ Rest
  BY <1>2, <1>3 DEF WorkerStep, WorkerTake, Decide, Detect, Conflict, Preserve, CopyNothing,
     Forget, Resolve, Record, Unrecord, Apply, Scan, LoopStep, TakeEvent, HandleFailure,
     StartResync, RetryDue, Boot, Rest, vars, feedVars, Reports
<1>4. ASSUME NEW s \in Side, Pump(s) PROVE kern' \in [Side -> Seq(N)]
  <2>1. Tail(kern[s]) \in Seq(N)
    BY <1>4, Parts DEF Pump
  <2> QED BY <1>4, <2>1 DEF Pump
<1>5. ASSUME NEW s \in Side, Release(s) \/ Expire(s) PROVE kern' \in [Side -> Seq(N)]
  BY <1>2, <1>5 DEF Release, Expire
<1>6. ASSUME NEW s \in Side, Overflow(s) PROVE kern' \in [Side -> Seq(N)]
  BY <1>1, <1>6 DEF Overflow
<1>7. CASE Crash
  BY <1>1, <1>7 DEF Crash
<1> QED BY <1>3, <1>4, <1>5, <1>6, <1>7 DEF Next, FeedStep, Fault, Reports

LEMMA Reported ==
    ASSUME NEW N, kern \in [Side -> Seq(N)], NEW s \in Side,
           NEW K, NEW own, \A k \in K : [kind |-> k, own |-> own] \in N,
           NEW kinds \in Seq(K)
    PROVE  [kern EXCEPT ![s] = @ \o Notices(kinds, own)] \in [Side -> Seq(N)]
<1>1. Notices(kinds, own) \in Seq(N)
  BY Noticed
<1> QED BY <1>1, KernGrows

\* What the kernel keeps of the events it is given are the last of them.
LEMMA QueuedKinds ==
    ASSUME NEW K, NEW kinds \in Seq(K), NEW s
    PROVE  Queued(s, kinds) \subseteq Seq(K)
<1>1. kinds # << >> => Tail(kinds) \in Seq(K)
  BY HeadTailProperties
<1> QED BY <1>1 DEF Queued

LEMMA Queues ==
    ASSUME NEW K, NEW kinds \in Seq(K), NEW s
    PROVE  /\ Notify(s, kinds) => \/ UNCHANGED kern
                                  \/ \E new \in Seq(K) :
                                        kern' = [kern EXCEPT ![s] = @ \o Notices(new, FALSE)]
           /\ Echo(s, kinds) => \E new \in Seq(K) :
                                  kern' = [kern EXCEPT ![s] = @ \o Notices(new, TRUE)]
<1>1. Queued(s, kinds) \subseteq Seq(K)
  BY QueuedKinds
<1> QED BY <1>1 DEF Notify, Echo

LEMMA AttrsKinds ==
    ASSUME NEW K, "ATTRIB" \in K
    PROVE  AttrsEchoes \subseteq Seq(K)
<1>1. /\ <<"ATTRIB">> \in Seq(K) /\ <<"ATTRIB", "ATTRIB">> \in Seq(K)
      /\ <<"ATTRIB", "ATTRIB", "ATTRIB">> \in Seq(K)
  OBVIOUS
<1> QED BY <1>1 DEF AttrsEchoes

LEMMA KernTyped ==
    ASSUME PairAssumption, TypeInv, Next
    PROVE  kern' \in [Side -> Seq(Notice)]
<1>1. kern \in [Side -> Seq(Notice)] /\ to \in Side
  BY DEF TypeInv, Feeds, Base
<1>2. \A k \in Kind, own \in BOOLEAN : [kind |-> k, own |-> own] \in Notice
  BY DEF Notice
<1>3. /\ << >> \in Seq(Kind) /\ <<"DELETE">> \in Seq(Kind) /\ <<"ATTRIB">> \in Seq(Kind)
      /\ <<"MODIFY">> \in Seq(Kind) /\ <<"CREATE", "MODIFY">> \in Seq(Kind)
  BY DEF Kind
<1>4. ASSUME NEW s \in Side, NEW kinds \in Seq(Kind), NEW own \in BOOLEAN,
             kern' = [kern EXCEPT ![s] = @ \o Notices(kinds, own)]
      PROVE  kern' \in [Side -> Seq(Notice)]
  BY <1>1, <1>2, <1>4, Reported
<1>5. CASE UserStep
  <2>1. PICK s \in Side : UserWrite(s) \/ UserDelete(s) \/ UserAttrib(s)
    BY <1>5 DEF UserStep
  <2>2. PICK kinds \in Seq(Kind) : Notify(s, kinds)
    BY <2>1, <1>3 DEF UserWrite, UserDelete, UserAttrib
  <2>3. \/ UNCHANGED kern
        \/ \E new \in Seq(Kind) : kern' = [kern EXCEPT ![s] = @ \o Notices(new, FALSE)]
    BY <2>2, Queues
  <2> QED BY <2>3, <1>1, <1>4
<1>6. CASE Copy \/ CopyTorn \/ Remove \/ Attrs
  <2>1. UNCHANGED kern \/ \E kinds \in Seq(Kind) : Echo(to, kinds)
    <3>1. AttrsEchoes \subseteq Seq(Kind)
      BY AttrsKinds DEF Kind
    <3> QED BY <1>3, <1>6, <3>1 DEF Copy, Write, CopyTorn, Remove, Attrs, PairAssumption
  <2>2. \/ UNCHANGED kern
        \/ \E new \in Seq(Kind) : kern' = [kern EXCEPT ![to] = @ \o Notices(new, TRUE)]
    BY <2>1, Queues
  <2> QED BY <2>2, <1>1, <1>4
<1>7. CASE ~Reports
  BY <1>1, <1>7, KernKept
<1> QED BY <1>5, <1>6, <1>7 DEF Reports

--------------------------------------------------------------------------------
(* Types: of everything on its way through the pair.                             *)
LEMMA TypeInit ==
    ASSUME PairAssumption, Init
    PROVE  TypeInv
<1>1. disk \in [Side -> File]
  BY Numbers DEF Init, File
<1>2. clock \in 0..MaxClock /\ clock \in Stamps
  BY <1>1, Numbers DEF Init, NoInventory, Absent, Side, PairAssumption
<1>3. Base
  <2>1. entry \in [Side -> File] /\ inv \in [Side -> File] /\ shared \subseteq Stamps
    BY <1>1, <1>2, Numbers DEF Init
  <2>2. cnt \in [Side -> Nat] /\ faults \in 0..MaxFaults /\ to \in Side
    BY DEF Init, PairAssumption, Side
  <2>3. saved \subseteq Stamps /\ open \in BOOLEAN /\ up \in BOOLEAN /\ resync \in BOOLEAN
    BY DEF Init
  <2>4. pc \in Labels /\ run \in {"worker", "resync"} /\ policy \in Policies
    BY DEF Init, Labels
  <2> QED BY <1>1, <1>2, <2>1, <2>2, <2>3, <2>4 DEF Base
<1>4. Feeds(Notice, Kind)
  BY EmptySeq DEF Init, Feeds, NoTask, Side
<1> QED BY <1>3, <1>4 DEF TypeInv, Runs, Init

LEMMA TypeStep ==
    ASSUME PairAssumption, TypeInv, [Next]_vars
    PROVE  TypeInv'
<1>1. CASE Next
  <2>1. HandlerSteps \/ OtherSteps
    BY <1>1 DEF Next, WorkerStep, Fault, HandlerSteps, OtherSteps
  <2>2. Base' /\ Runs'
    BY <2>1, HandlerBase, OtherBase
  <2>3. Feeds(Notice, Kind) /\ Base /\ Runs
    BY DEF TypeInv
  <2>4. Apply => Finish \/ UNCHANGED ev \/ ev'.kind \in Kind
    BY <2>3, ApplyEnds DEF Goto, Begin, Kind
  <2>5. /\ ev' \in [side : Side, kind : Kind \cup {None}]
        /\ run' = "worker" /\ pc' # "idle" => ev'.kind \in Kind
    BY <1>1, <2>3, <2>4, EvStep
  <2>6. {"CREATE", "MODIFY"} \subseteq Kind /\ \A n \in Notice : n.kind \in Kind
    BY DEF Kind, Notice
  <2>7. Feeds(Notice, Kind)'
    BY <1>1, <2>3, <2>5, <2>6, KernTyped, FeedsStep
  <2> QED BY <2>2, <2>7 DEF TypeInv
<1>2. CASE UNCHANGED vars
  BY <1>2 DEF vars, TypeInv, Base, Feeds, Runs, fsVars, dbVars, envVars, feedVars, loopVars, engVars
<1> QED BY <1>1, <1>2

LEMMA TypeHolds == Spec => []TypeInv
<1> USE PairAssumption
<1>1. Init => TypeInv
  BY TypeInit
<1>2. TypeInv /\ [Next]_vars => TypeInv'
  BY TypeStep
<1> QED BY <1>1, <1>2, PTL DEF Spec

(* SyncPair's types: whatever users, the kernel and the faults do, for any number *)
(* of versions, attempts and faults, no handler is left with an event of no kind, *)
(* a side that is none or a stamp beyond the bound (debounce.go, engine.go,       *)
(* retry.go, resync.go).                                                          *)
THEOREM TypeCorrect == Spec => []TypeOK
<1>1. TypeInv => TypeOK
  BY DEF TypeInv, TypeOK, Base, Feeds, Labels, Task, NoRetry
<1> QED BY <1>1, TypeHolds, PTL

--------------------------------------------------------------------------------
(* Calm: users only write, and in bursts, a version before the daemon sees it or  *)
(* after it is done with the last; the process may crash, a queue may overflow,   *)
(* an rsync may cause any events but a DELETE.                                    *)
CalmKinds  == Kind \ {"DELETE"}
WriteKinds == {"CREATE", "MODIFY"}

Calm ==
    /\ UserOps \subseteq {"write"} /\ Pace = "apart" /\ SyncPolicy = "union"
    /\ FaultKinds \subseteq {"crash", "overflow"}
    /\ EchoNew \subseteq Seq(CalmKinds) /\ EchoUpdate \subseteq Seq(CalmKinds)

\* An ATTRIB is always an echo.
WriteNotices == [kind : WriteKinds, own : BOOLEAN]
CalmNotices  == WriteNotices \cup [kind : CalmKinds, own : {TRUE}]

Same == disk["A"] = disk["B"]

\* While the sides differ, only writes are on their way to a handler.
Writes == Same \/ Feeds(WriteNotices, WriteKinds)

Down ==
    ~up => /\ pc = "idle" /\ out = << >> /\ wq = << >> /\ failed = << >>
           /\ \A s \in Side : kern[s] = << >> /\ slot[s] = None /\ retry[s] = NoRetry

\* Versions are stamped when they are written, and recorded as they were.
Stamped ==
    \A s \in Side : /\ disk[s].t = disk[s].c /\ entry[s].t = entry[s].c
                    /\ disk[s].m = 0 /\ entry[s].m = 0
                    /\ disk[s].c <= clock

Both == Same => disk["A"].c \in shared \cup {0}

\* A row is of a version both sides had; no file is missing that has a row.
Rows == \A s \in Side : entry[s].c # 0 => entry[s].c \in shared /\ disk[s].c # 0

\* What the worker has found out about the file in hand.
Found ==
    /\ pc \notin {"remove", "unrecord", "unrecord2", "forget"}
    /\ pc = "scan2" => inv[Other(to)] = disk[Other(to)]
    /\ pc = "apply" => inv = disk
    /\ pc = "copy" => disk[to].c \in shared \cup {0}
    /\ pc = "settle" /\ policy # "newer-wins" => disk[to].c \in saved
    /\ pc \in {"resolve", "record", "attrs"} => Same

CalmInv ==
    /\ TypeInv /\ Feeds(CalmNotices, CalmKinds)
    /\ Writes /\ Down /\ Stamped /\ Both /\ Rows /\ Found

LEMMA SameSides == \A s \in Side : Same <=> disk[s] = disk[Other(s)]
BY DEF Same, Side, Other

LEMMA WholeFile == \A f, g \in File : f.c = g.c /\ f.t = g.t /\ f.m = g.m => f = g
BY DEF File

LEMMA Missing ==
    ASSUME PairAssumption, Base, Stamped, NEW s \in Side
    PROVE  /\ disk[s] = Absent <=> disk[s].c = 0
           /\ entry[s] = Absent <=> entry[s].c = 0
<1>1. disk[s] \in File /\ entry[s] \in File /\ Absent \in File
  BY Numbers DEF Base
<1> QED BY <1>1, WholeFile DEF Stamped, Absent

\* The steps calm users and faults leave out.
LEMMA CalmSteps ==
    ASSUME PairAssumption, Calm, CalmInv
    PROVE  /\ ~CopyTorn /\ ~Remove /\ ~Unrecord /\ ~Forget
           /\ \A s \in Side : ~UserDelete(s) /\ ~UserAttrib(s)
<1>1. ~CopyTorn
  BY DEF CopyTorn, Calm
<1>2. ~Remove /\ ~Unrecord /\ ~Forget
  BY DEF CalmInv, Found, Remove, Unrecord, Forget
<1>3. \A s \in Side : ~UserDelete(s) /\ ~UserAttrib(s)
  BY DEF Calm, UserDelete, UserAttrib, UserMay
<1> QED BY <1>1, <1>2, <1>3

\* A user finds the engine idle, and nothing but writes on their way.
LEMMA UserAtRest ==
    ASSUME PairAssumption, Calm, CalmInv, UserStep
    PROVE  /\ pc = "idle" /\ UNCHANGED engVars
           /\ Feeds(WriteNotices, WriteKinds)
           /\ \E s \in Side : UserWrite(s)
<1>1. PICK s \in Side : UserWrite(s)
  BY CalmSteps DEF UserStep
<1>2. ~up \/ Settled
  BY <1>1 DEF UserWrite, UserMay, Calm
<1>3. /\ pc = "idle" /\ out = << >> /\ wq = << >> /\ failed = << >>
      /\ \A r \in Side : slot[r] = None /\ retry[r] = NoRetry
  BY <1>2 DEF Settled, Resting, CalmInv, Down
<1>4. ev = NoTask
  BY <1>3 DEF CalmInv, TypeInv, Runs
<1>5. \A r \in Side : kern[r] \in Seq(WriteNotices)
  <2> SUFFICES ASSUME NEW r \in Side PROVE kern[r] \in Seq(WriteNotices)
    OBVIOUS
  <2>1. kern[r] \in Seq(CalmNotices)
    BY DEF CalmInv, Feeds
  <2>2. \A i \in DOMAIN kern[r] : ~kern[r][i].own
    BY <1>2 DEF Settled, CalmInv, Down
  <2>3. \A i \in 1..Len(kern[r]) : kern[r][i] \in WriteNotices
    <3>1. \A n \in CalmNotices : ~n.own => n \in WriteNotices
      BY DEF CalmNotices
    <3>2. DOMAIN kern[r] = 1..Len(kern[r]) /\ \A i \in DOMAIN kern[r] : kern[r][i] \in CalmNotices
      BY <2>1
    <3> QED BY <2>2, <3>1, <3>2
  <2>4. Len(kern[r]) \in Nat /\ kern[r] = [i \in 1..Len(kern[r]) |-> kern[r][i]]
    BY <2>1
  <2>5. kern[r] \in [1..Len(kern[r]) -> WriteNotices]
    BY <2>3, <2>4
  <2> QED BY <2>4, <2>5, SeqDef
<1>6. Feeds(WriteNotices, WriteKinds)
  <2>1. /\ kern \in [Side -> Seq(Notice)] /\ slot \in [Side -> Kind \cup {None}]
        /\ retry \in [Side -> [kind : Kind, attempts : Nat] \cup {NoRetry}]
    BY DEF CalmInv, TypeInv, Feeds
  <2>2. kern \in [Side -> Seq(WriteNotices)]
    BY <2>1, <1>5
  <2>3. /\ slot \in [Side -> WriteKinds \cup {None}]
        /\ retry \in [Side -> [kind : WriteKinds, attempts : Nat] \cup {NoRetry}]
    BY <2>1, <1>3
  <2>4. ev \in [side : Side, kind : WriteKinds \cup {None}]
    BY <1>4 DEF NoTask, Side
  <2> QED BY <1>3, <2>2, <2>3, <2>4, EmptySeq DEF Feeds
<1> QED BY <1>1, <1>3, <1>6 DEF UserWrite

\* What a resync decides when it compares what is on disk: no deletion.
LEMMA CalmApply ==
    ASSUME PairAssumption, Calm, CalmInv, Apply
    PROVE  \/ Finish /\ \A s \in Side : disk[s] = Absent
           \/ Goto("record") /\ Same
           \/ \E s \in Side, label \in {"detect", "conflict"}, kind \in WriteKinds :
                 /\ Begin(label, s, kind) /\ disk[s] # Absent
                 /\ label = "conflict" => ~Same /\ disk[Other(s)] # Absent
<1>1. inv = disk /\ Base /\ Stamped /\ Rows
  BY DEF CalmInv, TypeInv, Found, Apply
<1>2. \A s \in Side : inv[s] \in File
  BY <1>1 DEF Base
<1>3. ASSUME inv["A"].c = inv["B"].c
      PROVE  ~AttrsDiverged(inv["A"], inv["B"]) /\ Same
  BY <1>1, <1>2, <1>3, WholeFile DEF Stamped, Same, Side, AttrsDiverged
<1>4. ASSUME NEW s \in Side, inv[Other(s)] = Absent
      PROVE  ~DeletedThere(s)
  <2>1. Winner = {}
    BY DEF Winner, Calm
  <2>2. disk[Other(s)].c = 0
    BY <1>1, <1>4 DEF Absent
  <2>3. entry[Other(s)].c = 0
    BY <1>1, <2>2, OtherSide DEF Rows
  <2> QED BY <1>1, <2>1, <2>3, OtherSide, Missing DEF DeletedThere
<1>5. ASSUME inv["A"].c # inv["B"].c PROVE ~Same
  BY <1>1, <1>5 DEF Same
<1>6. ASSUME inv["A"] # Absent, inv["B"] # Absent
      PROVE  \A s \in Side : disk[s] # Absent /\ disk[Other(s)] # Absent
  BY <1>1, <1>6 DEF Side, Other
<1>7. ASSUME inv["A"] = Absent, inv["B"] = Absent
      PROVE  \A s \in Side : disk[s] = Absent
  BY <1>1, <1>7 DEF Side
<1> QED BY <1>1, <1>3, <1>4, <1>5, <1>6, <1>7, ApplyEnds DEF CalmInv, TypeInv, WriteKinds

--------------------------------------------------------------------------------
(* What a calm step does to the disk and to the records.                         *)
LEMMA CalmDisk ==
    ASSUME PairAssumption, Calm, CalmInv, Next
    PROVE  \/ UNCHANGED <<disk, shared>>
           \/ UserStep
           \/ Copy
<1>1. CASE Attrs
  <2>1. pc = "attrs" /\ UNCHANGED shared
    BY <1>1 DEF Attrs
  <2>2. disk[From] = disk[to] /\ to \in Side /\ disk \in [Side -> File]
    BY <2>1, SameSides DEF CalmInv, Found, From, TypeInv, Base
  <2>3. disk' = disk \/ disk' = [disk EXCEPT ![to] = [disk[From] EXCEPT !.c = disk[to].c]]
    BY <1>1 DEF Attrs
  <2>4. [disk EXCEPT ![to] = [disk[From] EXCEPT !.c = disk[to].c]] = disk
    <3>1. [disk[From] EXCEPT !.c = disk[to].c] = disk[to]
      BY <2>2 DEF File
    <3> QED BY <2>2, <3>1
  <2> QED BY <2>1, <2>3, <2>4
<1>2. CASE WorkerStep /\ ~Attrs /\ ~Copy
  BY <1>2, CalmSteps DEF WorkerStep, WorkerTake, Decide, Detect, Conflict, Preserve, CopyNothing,
     Forget, Resolve, Record, Unrecord, Apply, Scan, fsVars
<1>3. CASE LoopStep \/ FeedStep \/ Boot \/ Fault \/ Rest
  BY <1>3, CalmSteps DEF LoopStep, TakeEvent, HandleFailure, StartResync, RetryDue, FeedStep, Pump,
     Release, Boot, Fault, Crash, Overflow, Expire, Rest, vars, fsVars
<1> QED BY <1>1, <1>2, <1>3 DEF Next

LEMMA CalmRows ==
    ASSUME PairAssumption, Calm, CalmInv, Next
    PROVE  UNCHANGED entry \/ (Record /\ entry' = disk)
<1>1. CASE WorkerStep
  BY <1>1, CalmSteps DEF WorkerStep, WorkerTake, Decide, Detect, Conflict, Preserve, CopyNothing,
     Copy, Resolve, Record, Recorded, Attrs, Apply, Scan, dbVars
<1>2. CASE UserStep
  BY <1>2 DEF UserStep, UserWrite, UserDelete, UserAttrib, dbVars
<1>3. CASE LoopStep \/ FeedStep \/ Boot \/ Fault \/ Rest
  BY <1>3, CalmSteps DEF LoopStep, TakeEvent, HandleFailure, StartResync, RetryDue, FeedStep, Pump,
     Release, Boot, Fault, Crash, Overflow, Expire, Rest, vars, dbVars
<1> QED BY <1>1, <1>2, <1>3 DEF Next

\* Histories only grow, the clock does not go back, the policy stays.
LEMMA CalmGrows ==
    ASSUME PairAssumption, Calm, CalmInv, Next
    PROVE  /\ shared \subseteq shared' /\ saved \subseteq saved'
           /\ clock \in Nat /\ clock' \in Nat /\ clock <= clock' /\ policy' = policy
<1>1. shared \subseteq shared' /\ saved \subseteq saved' /\ policy' = policy
  <2>1. CASE WorkerStep
    BY <2>1, CalmSteps DEF WorkerStep, WorkerTake, Decide, Detect, Conflict, Preserve, CopyNothing,
       Copy, Write, Resolve, Record, Attrs, Apply, Scan, fsVars, envVars
  <2>2. CASE UserStep
    BY <2>2 DEF UserStep, UserWrite, UserDelete, UserAttrib
  <2>3. CASE LoopStep \/ FeedStep \/ Boot \/ Fault \/ Rest
    BY <2>3, CalmSteps DEF LoopStep, TakeEvent, HandleFailure, StartResync, RetryDue, FeedStep,
       Pump, Release, Boot, Fault, Crash, Overflow, Expire, Rest, vars, fsVars, envVars
  <2> QED BY <2>1, <2>2, <2>3 DEF Next
<1>2. clock \in Nat
  BY DEF CalmInv, TypeInv, Base, PairAssumption
<1>3. clock' = clock \/ clock' = clock + 1
  <2>1. CASE WorkerStep
    BY <2>1, CalmSteps DEF WorkerStep, WorkerTake, Decide, Detect, Conflict, Preserve, CopyNothing,
       Copy, Resolve, Record, Attrs, Apply, Scan, envVars
  <2>2. CASE UserStep
    BY <2>2 DEF UserStep, UserWrite, UserDelete, UserAttrib
  <2>3. CASE LoopStep \/ FeedStep \/ Boot \/ Fault \/ Rest
    BY <2>3, CalmSteps DEF LoopStep, TakeEvent, HandleFailure, StartResync, RetryDue, FeedStep,
       Pump, Release, Boot, Fault, Crash, Overflow, Expire, Rest, vars, envVars
  <2> QED BY <2>1, <2>2, <2>3 DEF Next
<1> QED BY <1>1, <1>2, <1>3

--------------------------------------------------------------------------------
(* The invariant, one part after the other.                                      *)
LEMMA UserKinds == <<"MODIFY">> \in Seq(WriteKinds) /\ <<"CREATE", "MODIFY">> \in Seq(WriteKinds)
BY DEF WriteKinds

LEMMA CalmKern ==
    ASSUME PairAssumption, Calm, CalmInv, Next
    PROVE  kern' \in [Side -> Seq(CalmNotices)]
<1>1. kern \in [Side -> Seq(CalmNotices)] /\ to \in Side
  BY DEF CalmInv, Feeds, TypeInv, Base
<1>2. \A k \in CalmKinds : [kind |-> k, own |-> TRUE] \in CalmNotices
  BY DEF CalmNotices
<1>3. \A k \in WriteKinds : [kind |-> k, own |-> FALSE] \in CalmNotices
  BY DEF CalmNotices, WriteNotices
<1>4. CASE UserStep
  <2>1. PICK s \in Side : UserWrite(s)
    BY <1>4, UserAtRest
  <2>2. PICK kinds \in Seq(WriteKinds) : Notify(s, kinds)
    BY <2>1, UserKinds DEF UserWrite
  <2>3. \/ UNCHANGED kern
        \/ \E new \in Seq(WriteKinds) : kern' = [kern EXCEPT ![s] = @ \o Notices(new, FALSE)]
    BY <2>2, Queues
  <2>4. ASSUME NEW new \in Seq(WriteKinds)
        PROVE  [kern EXCEPT ![s] = @ \o Notices(new, FALSE)] \in [Side -> Seq(CalmNotices)]
    BY <1>1, <1>3, Reported
  <2> QED BY <1>1, <2>3, <2>4
<1>5. CASE Copy \/ Attrs
  <2>1. AttrsEchoes \subseteq Seq(CalmKinds)
    BY AttrsKinds DEF CalmKinds, Kind
  <2>2. ASSUME Copy PROVE \E kinds \in Seq(CalmKinds) : Echo(to, kinds)
    <3>1. PICK kinds \in EchoNew \cup EchoUpdate : Echo(to, kinds)
      BY <2>2 DEF Copy, Write
    <3> QED BY <3>1 DEF Calm
  <2>3. ASSUME Attrs PROVE UNCHANGED kern \/ \E kinds \in AttrsEchoes : Echo(to, kinds)
    BY <2>3 DEF Attrs
  <2>4. UNCHANGED kern \/ \E kinds \in Seq(CalmKinds) : Echo(to, kinds)
    BY <1>5, <2>1, <2>2, <2>3
  <2>5. ASSUME NEW kinds \in Seq(CalmKinds), Echo(to, kinds)
        PROVE  kern' \in [Side -> Seq(CalmNotices)]
    <3>1. PICK new \in Seq(CalmKinds) : kern' = [kern EXCEPT ![to] = @ \o Notices(new, TRUE)]
      BY <2>5, Queues
    <3>2. [kern EXCEPT ![to] = @ \o Notices(new, TRUE)] \in [Side -> Seq(CalmNotices)]
      BY <1>1, <1>2, Reported
    <3> QED BY <3>1, <3>2
  <2> QED BY <1>1, <2>4, <2>5
<1>6. CASE ~Reports
  BY <1>1, <1>6, KernKept
<1> QED BY <1>4, <1>5, <1>6, CalmSteps DEF Reports

LEMMA CalmFeeds ==
    ASSUME PairAssumption, Calm, CalmInv, Next
    PROVE  Feeds(CalmNotices, CalmKinds)'
<1>1. {"CREATE", "MODIFY"} \subseteq CalmKinds /\ \A n \in CalmNotices : n.kind \in CalmKinds
  BY DEF CalmKinds, CalmNotices, WriteNotices, WriteKinds, Kind
<1>2. TypeInv /\ Runs /\ Base /\ Feeds(CalmNotices, CalmKinds)
  BY DEF CalmInv, TypeInv
<1>3. Apply => Finish \/ UNCHANGED ev \/ ev'.kind \in CalmKinds
  BY CalmApply DEF Goto, Begin, CalmKinds, WriteKinds, Kind
<1>4. /\ ev' \in [side : Side, kind : CalmKinds \cup {None}]
      /\ run' = "worker" /\ pc' # "idle" => ev'.kind \in CalmKinds
  BY <1>2, <1>3, EvStep
<1> QED BY <1>1, <1>2, <1>4, CalmKern, FeedsStep

\* A copy ends with the same file on both sides.
LEMMA CopySame ==
    ASSUME PairAssumption, CalmInv, Copy
    PROVE  /\ Same' /\ disk'[to] = disk[From] /\ disk'[From] = disk[From]
           /\ disk[From].c \in shared' /\ From \in Side /\ to \in Side /\ to # From
           /\ \A s \in Side : disk'[s] = disk[From]
<1>1. From \in Side /\ to \in Side /\ to # From /\ disk \in [Side -> File]
  BY OtherSide DEF CalmInv, TypeInv, Base, From
<1>2. disk' = [disk EXCEPT ![to] = disk[From]] /\ disk[From].c \in shared'
  BY DEF Copy, Write
<1>3. \A s \in Side : s = to \/ s = From
  BY <1>1 DEF Side
<1> QED BY <1>1, <1>2, <1>3 DEF Same, Side

LEMMA CalmWrites ==
    ASSUME PairAssumption, Calm, CalmInv, Next
    PROVE  Writes'
<1> SUFFICES ASSUME ~Same' PROVE Feeds(WriteNotices, WriteKinds)'
  BY DEF Writes
<1>1. ~Copy
  BY CopySame
<1>2. Feeds(WriteNotices, WriteKinds) /\ ~Attrs
  <2>1. CASE UserStep
    BY <2>1, UserAtRest DEF Attrs
  <2>2. CASE UNCHANGED disk
    <3>1. ~Same
      BY <2>2 DEF Same
    <3> QED BY <3>1 DEF CalmInv, Writes, Found, Attrs
  <2> QED BY <1>1, <2>1, <2>2, CalmDisk
<1>3. kern' \in [Side -> Seq(WriteNotices)]
  <2>1. kern \in [Side -> Seq(WriteNotices)]
    BY <1>2 DEF Feeds
  <2>2. CASE UserStep
    <3>1. PICK s \in Side : UserWrite(s)
      BY <2>2, UserAtRest
    <3>2. PICK kinds \in Seq(WriteKinds) : Notify(s, kinds)
      BY <3>1, UserKinds DEF UserWrite
    <3>3. \A k \in WriteKinds : [kind |-> k, own |-> FALSE] \in WriteNotices
      BY DEF WriteNotices
    <3>4. \/ UNCHANGED kern
          \/ \E new \in Seq(WriteKinds) : kern' = [kern EXCEPT ![s] = @ \o Notices(new, FALSE)]
      BY <3>2, Queues
    <3>5. ASSUME NEW new \in Seq(WriteKinds)
          PROVE  [kern EXCEPT ![s] = @ \o Notices(new, FALSE)] \in [Side -> Seq(WriteNotices)]
      BY <2>1, <3>3, Reported
    <3> QED BY <2>1, <3>4, <3>5
  <2>3. CASE ~Reports
    BY <2>1, <2>3, KernKept
  <2> QED BY <1>1, <1>2, <2>2, <2>3, CalmSteps DEF Reports
<1>4. {"CREATE", "MODIFY"} \subseteq WriteKinds /\ \A n \in WriteNotices : n.kind \in WriteKinds
  BY DEF WriteNotices, WriteKinds
<1>5. TypeInv /\ Runs /\ Base
  BY DEF CalmInv, TypeInv
<1>6. Apply => Finish \/ UNCHANGED ev \/ ev'.kind \in WriteKinds
  BY CalmApply DEF Goto, Begin
<1>7. /\ ev' \in [side : Side, kind : WriteKinds \cup {None}]
      /\ run' = "worker" /\ pc' # "idle" => ev'.kind \in WriteKinds
  BY <1>2, <1>5, <1>6, EvStep
<1> QED BY <1>2, <1>3, <1>4, <1>5, <1>7, FeedsStep

LEMMA CalmDown ==
    ASSUME PairAssumption, Calm, CalmInv, Next
    PROVE  Down'
<1> SUFFICES ASSUME ~up' PROVE Down'
  BY DEF Down
<1>1. CASE Crash
  BY <1>1 DEF Crash, Finish, Down
<1>2. CASE UserStep
  <2>1. PICK s \in Side : UserWrite(s)
    BY <1>2, UserAtRest
  <2>2. ~up /\ Down
    BY <2>1 DEF UserWrite, CalmInv
  <2>3. kern' = kern
    BY <2>1, <2>2 DEF UserWrite, Notify
  <2> QED BY <2>1, <2>2, <2>3 DEF UserWrite, Down, loopVars, engVars
<1>3. ASSUME NEW s \in Side, Expire(s) PROVE Down'
  BY <1>3 DEF Expire, CalmInv, Down, envVars, loopVars, engVars
<1>4. ASSUME WorkerStep \/ LoopStep PROVE FALSE
  <2>1. UNCHANGED up
    BY <1>4, CalmSteps DEF WorkerStep, WorkerTake, Decide, Detect, Conflict, Preserve, CopyNothing,
       Copy, Resolve, Record, Attrs, Apply, Scan, LoopStep, TakeEvent, HandleFailure, StartResync,
       RetryDue, envVars
  <2>2. up
    BY <1>4, CalmSteps DEF WorkerStep, WorkerTake, Decide, Detect, Conflict, Preserve, CopyNothing,
       Copy, Resolve, Record, Attrs, Apply, Scan, LoopStep, LoopFree, TakeEvent, HandleFailure,
       StartResync, RetryDue
  <2> QED BY <2>1, <2>2
<1>5. ASSUME FeedStep \/ Boot \/ Rest PROVE FALSE
  <2>1. UNCHANGED up \/ up'
    BY <1>5 DEF FeedStep, Pump, Release, Boot, Rest, vars, envVars
  <2>2. up \/ up'
    BY <1>5 DEF FeedStep, Pump, Release, Boot, Rest, Quiet
  <2> QED BY <2>1, <2>2
<1>6. ASSUME NEW s \in Side, Overflow(s) PROVE FALSE
  BY <1>6 DEF Overflow
<1> QED BY <1>1, <1>2, <1>3, <1>4, <1>5, <1>6, CalmSteps DEF Next, Fault

LEMMA CalmStamped ==
    ASSUME PairAssumption, Calm, CalmInv, Next
    PROVE  Stamped'
<1>1. Stamped /\ clock \in Nat /\ clock' \in Nat /\ clock <= clock'
      /\ \A s \in Side : disk[s].c \in Nat
  BY Numbers, CalmGrows DEF CalmInv, TypeInv, Base, File
<1>2. \A s \in Side : disk'[s].t = disk'[s].c /\ disk'[s].c <= clock' /\ disk'[s].m = 0
  <2>1. CASE UNCHANGED disk
    BY <1>1, <2>1 DEF Stamped
  <2>2. CASE UserStep
    <3>1. PICK s \in Side : UserWrite(s)
      BY <2>2, UserAtRest
    <3>2. disk \in [Side -> File]
      BY DEF CalmInv, TypeInv, Base
    <3>3. disk' = [disk EXCEPT ![s] = [c |-> clock + 1, t |-> clock + 1, m |-> disk[s].m]]
          /\ clock' = clock + 1
      BY <3>1, <3>2 DEF UserWrite
    <3>4. \A r \in Side :
             disk'[r] = IF r = s THEN [c |-> clock + 1, t |-> clock + 1, m |-> disk[s].m] ELSE disk[r]
      BY <3>2, <3>3
    <3> QED BY <1>1, <3>3, <3>4 DEF Stamped
  <2>3. CASE Copy
    BY <1>1, <2>3, CopySame DEF Stamped
  <2> QED BY <2>1, <2>2, <2>3, CalmDisk
<1>3. \A s \in Side : entry'[s].t = entry'[s].c /\ entry'[s].m = 0
  BY <1>1, CalmRows DEF Stamped
<1> QED BY <1>2, <1>3 DEF Stamped

\* A user's version is new: it is on no other side.
LEMMA NewVersion ==
    ASSUME PairAssumption, Calm, CalmInv, UserStep
    PROVE  /\ ~Same'
           /\ \A s \in Side : disk[s].c # 0 => disk'[s].c # 0
<1>1. PICK s \in Side : UserWrite(s)
  BY UserAtRest
<1>2. /\ clock \in Nat /\ disk \in [Side -> File] /\ Other(s) \in Side /\ Other(s) # s
      /\ \A r \in Side : disk[r].c \in Nat /\ disk[r].c <= clock
  BY Numbers, OtherSide DEF CalmInv, TypeInv, Base, File, Stamped, PairAssumption
<1>3. \A r \in Side :
         disk'[r] = IF r = s THEN [c |-> clock + 1, t |-> clock + 1, m |-> disk[s].m] ELSE disk[r]
  BY <1>1, <1>2 DEF UserWrite
<1>4. disk'[s].c = clock + 1 /\ disk'[Other(s)].c <= clock
  BY <1>2, <1>3
<1>5. disk'[s] # disk'[Other(s)]
  BY <1>2, <1>4
<1> QED BY <1>2, <1>3, <1>5 DEF Same, Side, Other

LEMMA CalmBoth ==
    ASSUME PairAssumption, Calm, CalmInv, Next
    PROVE  Both'
<1>1. CASE UNCHANGED disk
  BY <1>1, CalmGrows DEF CalmInv, Both, Same
<1>2. CASE UserStep
  BY <1>2, NewVersion DEF Both
<1>3. CASE Copy
  BY <1>3, CopySame DEF Both, Side
<1> QED BY <1>1, <1>2, <1>3, CalmDisk

\* No calm step takes a file away.
LEMMA StaysPresent ==
    ASSUME PairAssumption, Calm, CalmInv, Next
    PROVE  \A s \in Side : disk[s].c # 0 => disk'[s].c # 0
<1>1. CASE UNCHANGED disk
  BY <1>1
<1>2. CASE UserStep
  BY <1>2, NewVersion
<1>3. CASE Copy
  BY <1>3, CopySame, Missing DEF Copy, CalmInv, TypeInv
<1> QED BY <1>1, <1>2, <1>3, CalmDisk

LEMMA CalmRecorded ==
    ASSUME PairAssumption, Calm, CalmInv, Next
    PROVE  Rows'
<1>1. Base /\ Stamped /\ Both /\ Rows /\ shared \subseteq shared'
  BY CalmGrows DEF CalmInv, TypeInv
<1>2. \A s \in Side : disk[s].c # 0 => disk'[s].c # 0
  BY StaysPresent
<1>3. CASE UNCHANGED entry
  BY <1>1, <1>2, <1>3 DEF Rows
<1>4. CASE Record /\ entry' = disk
  <2>1. Same
    BY <1>4 DEF Record, CalmInv, Found
  <2>2. \A s \in Side : disk[s].c \in shared \cup {0}
    BY <1>1, <2>1 DEF Both, Same, Side
  <2> QED BY <1>1, <1>2, <1>4, <2>2 DEF Rows
<1> QED BY <1>3, <1>4, CalmRows

LEMMA CalmFound ==
    ASSUME PairAssumption, Calm, CalmInv, Next
    PROVE  Found'
<1>1. ASSUME pc' \in {"idle", "decide", "detect", "conflict", "preserve", "scan"}
      PROVE  Found'
  BY <1>1 DEF Found
<1>2. /\ TypeInv /\ Base /\ Runs /\ Stamped /\ Both /\ Rows /\ Found
      /\ shared \subseteq shared' /\ saved \subseteq saved' /\ policy' = policy
      /\ to \in Side /\ From \in Side /\ Other(to) \in Side
  BY CalmGrows, OtherSide DEF CalmInv, TypeInv, Base, From
<1>3. ASSUME Finish PROVE Found'
  BY <1>1, <1>3 DEF Finish
<1>4. CASE UserStep
  BY <1>1, <1>4, UserAtRest DEF engVars
<1>5. ASSUME UNCHANGED <<engVars, disk>> PROVE Found'
  BY <1>2, <1>5 DEF Found, engVars, Same
<1>6. CASE LoopStep \/ FeedStep \/ Boot \/ Fault \/ Rest
  <2>1. CASE StartResync \/ Boot
    BY <1>1, <2>1 DEF StartResync, Boot
  <2>2. CASE Crash
    BY <1>3, <2>2 DEF Crash
  <2>3. CASE TakeEvent \/ HandleFailure \/ FeedStep \/ Rest
    BY <1>5, <2>3 DEF TakeEvent, HandleFailure, FeedStep, Pump, Release, Rest, vars, fsVars
  <2>4. ASSUME NEW s \in Side, RetryDue(s) \/ Overflow(s) \/ Expire(s) PROVE Found'
    BY <1>5, <2>4 DEF RetryDue, Overflow, Expire, fsVars
  <2> QED BY <1>6, <2>1, <2>2, <2>3, <2>4, CalmSteps DEF LoopStep, Fault
<1>7. CASE WorkerTake \/ CopyNothing \/ Record
  BY <1>1, <1>3, <1>7 DEF WorkerTake, CopyNothing, Record, FailTask
<1>8. ASSUME NEW s \in Side, Scan(s) PROVE Found'
  <2>1. inv' = [inv EXCEPT ![s] = disk[s]] /\ inv \in [Side -> File] /\ disk \in [Side -> File]
        /\ disk' = disk
    BY <1>2, <1>8 DEF Scan, Base, fsVars
  <2>2. CASE pc = "scan" /\ pc' = "scan2" /\ to' = Other(s)
    <3>1. Other(to') = s
      BY <2>2 DEF Other, Side
    <3> QED BY <2>1, <2>2, <3>1 DEF Found
  <2>3. CASE pc = "scan2" /\ to = s /\ pc' = "apply"
    <3>1. inv[Other(s)] = disk[Other(s)]
      BY <1>2, <2>3 DEF Found
    <3>2. \A r \in Side : inv'[r] = disk[r]
      BY <2>1, <3>1 DEF Other, Side
    <3>3. inv' = disk'
      BY <2>1, <3>2
    <3> QED BY <2>3, <3>3 DEF Found
  <2> QED BY <1>8, <2>2, <2>3 DEF Scan
<1>9. CASE Decide
  <2>1. pc = "decide" /\ run = "worker" /\ ev.kind \in CalmKinds /\ disk' = disk
    BY <1>2, <1>9 DEF Decide, Runs, CalmInv, Feeds, fsVars
  <2>2. ev.kind = "ATTRIB" => Same
    BY <2>1 DEF CalmInv, Writes, Feeds, WriteKinds
  <2>3. Finish \/ Goto("detect") \/ (ev.kind = "ATTRIB" /\ Goto("attrs"))
    BY <1>9, <2>1 DEF Decide, CalmKinds, Kind
  <2>4. CASE Finish \/ Goto("detect")
    BY <1>1, <1>3, <2>4 DEF Goto
  <2>5. CASE ev.kind = "ATTRIB" /\ Goto("attrs")
    BY <2>1, <2>2, <2>5 DEF Goto, Found, Same
  <2> QED BY <2>3, <2>4, <2>5
<1>10. CASE Detect
  <2>1. disk' = disk /\ (Finish \/ Goto("conflict") \/ Goto("copy"))
    BY <1>10 DEF Detect, FailTask, fsVars
  <2>2. CASE Finish \/ Goto("conflict")
    BY <1>1, <1>3, <2>2 DEF Goto
  <2>3. CASE Goto("copy")
    <3>1. ~Suspect \/ (Suspect /\ disk[From] # Absent /\ disk[From].c = disk[to].c)
      BY <1>10, <2>3 DEF Detect, FailTask, Finish, Goto
    <3>2. ASSUME ~Suspect PROVE disk[to].c \in shared \cup {0}
      <4>1. disk[to] = Absent \/ disk[to].t = entry[to].t
        BY <3>2 DEF Suspect
      <4>2. disk[to].c = 0 \/ disk[to].c = entry[to].c
        BY <1>2, <4>1, Missing DEF Stamped
      <4> QED BY <1>2, <4>2 DEF Rows
    <3>3. ASSUME disk[From].c = disk[to].c PROVE disk[to].c \in shared \cup {0}
      <4>1. disk[From] = disk[to]
        BY <1>2, <3>3, WholeFile DEF Stamped, Base
      <4>2. Same
        BY <1>2, <4>1, SameSides DEF From
      <4> QED BY <1>2, <4>2 DEF Both, Same, Side
    <3>4. disk[to].c \in shared \cup {0}
      BY <3>1, <3>2, <3>3
    <3>5. pc' = "copy" /\ to' = to
      BY <2>3 DEF Goto
    <3> QED BY <1>2, <2>1, <3>4, <3>5 DEF Found
  <2> QED BY <2>1, <2>2, <2>3
<1>11. CASE Conflict
  <2>1. Finish \/ Goto("preserve") \/ (policy = "newer-wins" /\ pc' = "settle")
    <3>1. policy \in {"manual", "preserve", "newer-wins"}
      BY <1>2 DEF Base, PairAssumption
    <3> QED BY <1>11, <3>1 DEF Conflict, FailTask
  <2>2. CASE policy = "newer-wins" /\ pc' = "settle"
    BY <1>2, <2>2 DEF Found
  <2> QED BY <1>1, <1>3, <2>1, <2>2 DEF Goto
<1>12. CASE Preserve
  <2>1. CASE FailTask
    BY <1>3, <2>1 DEF FailTask
  <2>2. CASE ~FailTask
    <3>1. /\ pc' = "settle" /\ to' = to /\ disk' = disk /\ disk[to].c \in saved'
      BY <1>12, <2>2 DEF Preserve, Preserved, Goto
    <3> QED BY <3>1 DEF Found
  <2> QED BY <2>1, <2>2
<1>13. CASE Copy
  <2>1. pc' \in {"record", "resolve"}
    BY <1>13 DEF Copy, Goto
  <2> QED BY <1>13, <2>1, CopySame DEF CalmInv, Found
<1>14. CASE Resolve
  BY <1>2, <1>14 DEF Resolve, Goto, Found, Same, fsVars
<1>15. CASE Attrs
  <2>1. CASE FailTask
    BY <1>3, <2>1 DEF FailTask
  <2>2. CASE ~FailTask
    <3>1. Same /\ pc' = "record" /\ pc = "attrs"
      BY <1>2, <1>15, <2>2 DEF Attrs, Goto, Found
    <3>2. disk' = disk
      BY <3>1, CalmDisk, UserAtRest DEF Copy
    <3> QED BY <3>1, <3>2 DEF Found, Same
  <2> QED BY <2>1, <2>2
<1>16. CASE Apply
  <2>1. CASE Finish
    BY <1>3, <2>1
  <2>2. CASE Goto("record") /\ Same
    BY <1>16, <2>2 DEF Apply, fsVars, Goto, Found, Same
  <2>3. ASSUME NEW s \in Side, NEW label \in {"detect", "conflict"}, NEW kind \in WriteKinds,
               Begin(label, s, kind)
        PROVE  Found'
    BY <1>1, <2>3 DEF Begin
  <2> QED BY <1>16, <2>1, <2>2, <2>3, CalmApply
<1> QED BY <1>4, <1>6, <1>7, <1>8, <1>9, <1>10, <1>11, <1>12, <1>13, <1>14, <1>15, <1>16, CalmSteps
        DEF Next, WorkerStep

LEMMA CalmInit ==
    ASSUME PairAssumption, Init
    PROVE  CalmInv
<1>1. TypeInv /\ Down /\ Found
  BY TypeInit DEF Init, Down, Found
<1>2. disk = NoInventory \/ disk = [s \in Side |-> [c |-> 1, t |-> 1, m |-> 0]]
  BY DEF Init
<1>3. Same
  BY <1>2 DEF Same, NoInventory, Side
<1>4. Stamped /\ Both /\ Rows
  <2>1. CASE disk = NoInventory
    BY <2>1 DEF Init, NoInventory, Absent, Stamped, Both, Rows, Side
  <2>2. CASE disk = [s \in Side |-> [c |-> 1, t |-> 1, m |-> 0]]
    BY <2>2 DEF Init, Stamped, Both, Rows, Side
  <2> QED BY <1>2, <2>1, <2>2
<1>5. Feeds(CalmNotices, CalmKinds)
  BY EmptySeq DEF Init, Feeds, NoTask, Side
<1> QED BY <1>1, <1>3, <1>4, <1>5 DEF CalmInv, Writes

LEMMA CalmStep ==
    ASSUME PairAssumption, Calm, CalmInv, [Next]_vars
    PROVE  CalmInv'
<1>1. CASE Next
  <2>1. TypeInv'
    BY TypeStep DEF CalmInv
  <2> QED BY <1>1, <2>1, CalmFeeds, CalmWrites, CalmDown, CalmStamped, CalmBoth, CalmRecorded,
             CalmFound DEF CalmInv
<1>2. CASE UNCHANGED vars
  <2> USE <1>2 DEF vars, fsVars, dbVars, envVars, feedVars, loopVars, engVars
  <2>1. TypeInv'
    BY TypeStep DEF CalmInv
  <2>2. Feeds(CalmNotices, CalmKinds)' /\ Writes'
    BY DEF CalmInv, Feeds, Writes, Same
  <2>3. Down' /\ Stamped'
    BY DEF CalmInv, Down, Stamped
  <2>4. Both' /\ Rows' /\ Found'
    BY DEF CalmInv, Both, Same, Rows, Found
  <2> QED BY <2>1, <2>2, <2>3, <2>4 DEF CalmInv
<1> QED BY <1>1, <1>2

\* The only step of the daemon that destroys a version is a copy.
LEMMA CalmLoss ==
    ASSUME PairAssumption, Calm, CalmInv, Next, policy # "newer-wins", ~UserStep,
           NEW s \in Side, disk[s].c \in UserVersions, disk'[s].c # disk[s].c
    PROVE  disk[s].c \in saved' \cup shared'
<1>1. Copy
  BY CalmDisk
<1>2. s = to
  BY <1>1, CopySame DEF Side
<1>3. disk[s].c # 0
  BY DEF UserVersions
<1>4. disk[s].c \in shared \/ disk[s].c \in saved
  BY <1>1, <1>2, <1>3 DEF Copy, CalmInv, Found
<1> QED BY <1>4, CalmGrows

(* No version is lost without a copy of it: as long as users only write, a burst  *)
(* at a time, the daemon overwrites a version on a side only after both sides had *)
(* it or after it was preserved - for any number of versions, any retries, any    *)
(* crashes and queue overflows, at any point (conflict.go, engine.go, resync.go). *)
THEOREM LosesNothing ==
    ASSUME Calm
    PROVE  Spec => NoSilentLoss
<1> USE PairAssumption, Calm
<1>1. Init => CalmInv
  BY CalmInit
<1>2. CalmInv /\ [Next]_vars => CalmInv'
  BY CalmStep
<1>3. CalmInv /\ [Next]_vars
        => [policy # "newer-wins" /\ ~UserStep => \A s \in Side :
              disk[s].c \in UserVersions /\ disk'[s].c # disk[s].c
                  => disk[s].c \in saved' \cup shared']_vars
  BY CalmLoss
<1> QED BY <1>1, <1>2, <1>3, PTL DEF Spec, NoSilentLoss

--------------------------------------------------------------------------------
(* Convergence: when nothing is left to do, the sides are equal and the records   *)
(* true.  What makes it so is that whoever leaves the sides different leaves      *)
(* something behind for each side that has left its record.                       *)

RowsEqual == entry["A"] = entry["B"]

\* No write of a user meets an expectation that would claim it.
Unclaimed == ~Same \/ ~up => \A s \in Side : cnt[s] = 0

Scanning == pc \in {"scan", "scan2", "apply"} => run = "resync"

\* A resync, which reports no failure, has files to work on; a conflict has two.
Present ==
    /\ run = "resync" /\ pc \in {"detect", "copy"} => disk[From].c # 0
    /\ pc \in {"conflict", "preserve", "settle"}
           => disk[From].c # 0 /\ disk[to].c # 0 /\ ~Same

\* The event to decide about is of the side it is copied from.
Inhand == pc = "decide" => From = ev.side

Asked ==
    /\ pc = "preserve" => policy = "preserve"
    /\ pc \in {"settle", "resolve"} => policy # "manual"

\* Equal files of which no row tells are about to be recorded.
Settling == Same /\ entry # disk => ~up \/ run = "resync" \/ pc \in {"record", "resolve"}

\* Somebody still has an event of this side.
Carried(s) ==
    \/ kern[s] # << >> \/ slot[s] # None \/ retry[s] # NoRetry
    \/ \E i \in DOMAIN out : out[i].side = s
    \/ \E i \in DOMAIN wq : wq[i].side = s
    \/ \E i \in DOMAIN failed : failed[i].side = s
    \/ pc # "idle" /\ ev.side = s

Reconciled == ~up \/ resync \/ run = "resync" \/ (policy = "manual" /\ open)

Pending == ~Same /\ ~Reconciled => \A s \in Side : disk[s] # entry[s] => Carried(s)

SyncInv ==
    /\ CalmInv
    /\ RowsEqual /\ Unclaimed /\ Scanning /\ Inhand /\ Present /\ Asked /\ Settling /\ Pending

\* The service starts in Boot and stops in a crash, nowhere else.
LEMMA CalmUp ==
    ASSUME PairAssumption, Calm, CalmInv, Next
    PROVE  /\ ~up => UserStep \/ Boot \/ \E s \in Side : Expire(s)
           /\ ~up' => ~up \/ Crash
<1>1. ASSUME WorkerStep \/ LoopStep PROVE up /\ up' = up
  <2>1. up' = up
    BY <1>1, CalmSteps DEF WorkerStep, WorkerTake, Decide, Detect, Conflict, Preserve, CopyNothing,
       Copy, Resolve, Record, Attrs, Apply, Scan, LoopStep, TakeEvent, HandleFailure, StartResync,
       RetryDue, envVars
  <2>2. up
    BY <1>1, CalmSteps DEF WorkerStep, WorkerTake, Decide, Detect, Conflict, Preserve, CopyNothing,
       Copy, Resolve, Record, Attrs, Apply, Scan, LoopStep, LoopFree, TakeEvent, HandleFailure,
       StartResync, RetryDue
  <2> QED BY <2>1, <2>2
<1>2. ASSUME FeedStep \/ Rest PROVE up /\ up' = up
  <2>1. up' = up
    BY <1>2 DEF FeedStep, Pump, Release, Rest, vars, envVars
  <2>2. up
    BY <1>2 DEF FeedStep, Pump, Release, Rest, Quiet
  <2> QED BY <2>1, <2>2
<1>3. ASSUME NEW s \in Side, Overflow(s) PROVE up /\ up' = up
  BY <1>3 DEF Overflow
<1>4. ASSUME NEW s \in Side, Expire(s) PROVE up' = up
  BY <1>4 DEF Expire, envVars
<1>5. ASSUME UserStep PROVE up' = up
  BY <1>5 DEF UserStep, UserWrite, UserDelete, UserAttrib
<1>6. ASSUME Boot PROVE up'
  BY <1>6 DEF Boot
<1>7. ASSUME Crash PROVE up
  BY <1>7 DEF Crash
<1> QED BY <1>1, <1>2, <1>3, <1>4, <1>5, <1>6, <1>7, CalmSteps DEF Next, Fault

LEMMA RowsEqualStep ==
    ASSUME PairAssumption, Calm, SyncInv, Next
    PROVE  RowsEqual'
<1>1. CASE UNCHANGED entry
  BY <1>1 DEF SyncInv, RowsEqual
<1>2. CASE Record /\ entry' = disk
  BY <1>2 DEF SyncInv, CalmInv, Found, Record, Same, RowsEqual
<1> QED BY <1>1, <1>2, CalmRows DEF SyncInv

LEMMA UnclaimedStep ==
    ASSUME PairAssumption, Calm, SyncInv, Next
    PROVE  Unclaimed'
<1>1. CASE Copy \/ Attrs
  <2>1. up /\ up' = up
    BY <1>1 DEF Copy, Attrs, envVars
  <2>2. Same'
    <3>1. CASE Copy
      BY <3>1, CopySame DEF SyncInv
    <3>2. CASE Attrs
      BY <3>2, CalmDisk, UserAtRest DEF Attrs, Copy, SyncInv, CalmInv, Found, Same
    <3> QED BY <1>1, <3>1, <3>2
  <2> QED BY <2>1, <2>2 DEF Unclaimed
<1>2. CASE Crash
  BY <1>2 DEF Crash, Unclaimed
<1>3. CASE ~Copy /\ ~Attrs /\ ~Crash
  <2> SUFFICES ASSUME ~Same' \/ ~up', NEW s \in Side PROVE cnt'[s] = 0
    BY DEF Unclaimed
  <2>1. \A r \in Side : cnt[r] = 0
    <3>1. CASE UserStep
      <4>1. ~up \/ Settled
        BY <3>1, UserAtRest DEF UserWrite, UserMay, Calm, SyncInv
      <4> QED BY <4>1 DEF Settled, SyncInv, Unclaimed
    <3>2. CASE UNCHANGED disk
      BY <1>3, <3>2, CalmUp DEF SyncInv, Unclaimed, Same
    <3> QED BY <1>3, <3>1, <3>2, CalmDisk DEF SyncInv
  <2>2. cnt \in [Side -> Nat] /\ to \in Side
    BY DEF SyncInv, CalmInv, TypeInv, Base
  <2>3. CASE WorkerStep \/ LoopStep \/ UserStep \/ Boot \/ Rest
    <3>1. cnt' = cnt \/ cnt' = [cnt EXCEPT ![to] = 0]
      BY <1>3, <2>3, CalmSteps DEF SyncInv, WorkerStep, WorkerTake, Decide, Detect, Conflict,
         Preserve, CopyNothing, Resolve, Record, Apply, Scan, LoopStep, TakeEvent, HandleFailure,
         StartResync, RetryDue, UserStep, UserWrite, UserDelete, UserAttrib, Boot, Rest,
         vars, feedVars
    <3> QED BY <2>1, <2>2, <3>1
  <2>4. ASSUME NEW r \in Side, Pump(r) \/ Release(r) PROVE cnt'[s] = 0
    BY <2>1, <2>2, <2>4 DEF Pump, Claims, Release
  <2>5. ASSUME NEW r \in Side, Overflow(r) \/ Expire(r) PROVE cnt'[s] = 0
    BY <2>1, <2>2, <2>5 DEF Overflow, Expire
  <2> QED BY <1>3, <2>3, <2>4, <2>5, CalmSteps DEF Next, FeedStep, Fault, SyncInv
<1> QED BY <1>1, <1>2, <1>3

\* Only a loop that starts a resync scans.
LEMMA ScanningStep ==
    ASSUME PairAssumption, Calm, SyncInv, Next
    PROVE  Scanning'
<1>1. Scanning /\ CalmInv
  BY DEF SyncInv
<1>2. CASE UNCHANGED engVars
  BY <1>1, <1>2 DEF Scanning, engVars
<1>3. CASE StartResync \/ Boot
  BY <1>3 DEF StartResync, Boot, Scanning
<1>4. CASE Crash
  BY <1>4 DEF Crash, Finish, Scanning
<1>5. ASSUME NEW s \in Side, Scan(s) PROVE Scanning'
  BY <1>1, <1>5 DEF Scan, Scanning
<1>6. CASE UserStep \/ FeedStep \/ TakeEvent \/ HandleFailure \/ Rest
  BY <1>2, <1>6 DEF UserStep, UserWrite, UserDelete, UserAttrib, FeedStep, Pump, Release,
     TakeEvent, HandleFailure, Rest, vars
<1>7. ASSUME NEW s \in Side, RetryDue(s) \/ Overflow(s) \/ Expire(s) PROVE Scanning'
  BY <1>2, <1>7 DEF RetryDue, Overflow, Expire
<1>8. ASSUME pc' \notin {"scan", "scan2", "apply"} PROVE Scanning'
  BY <1>8 DEF Scanning
<1>9. CASE Apply
  <2>1. pc' \notin {"scan", "scan2", "apply"}
    BY <1>1, <1>9, CalmApply DEF Finish, Goto, Begin
  <2> QED BY <1>8, <2>1
<1>10. CASE Decide
  <2>1. ev.kind \in CalmKinds
    BY <1>1, <1>10 DEF Decide, CalmInv, TypeInv, Runs, Feeds
  <2>2. pc' \notin {"scan", "scan2", "apply"}
    BY <1>10, <2>1 DEF Decide, Finish, Goto, CalmKinds, Kind
  <2> QED BY <1>8, <2>2
<1>11. CASE Conflict
  <2>1. policy \in {"manual", "preserve", "newer-wins"}
    BY <1>1 DEF CalmInv, TypeInv, Base, PairAssumption
  <2>2. pc' \notin {"scan", "scan2", "apply"}
    BY <1>11, <2>1 DEF Conflict, FailTask, Finish, Goto
  <2> QED BY <1>8, <2>2
<1>12. CASE WorkerTake \/ Detect \/ Preserve \/ Copy \/ CopyNothing \/ Resolve \/ Record \/ Attrs
  <2>1. pc' \notin {"scan", "scan2", "apply"}
    BY <1>12 DEF WorkerTake, Detect, Preserve, Copy, CopyNothing, Resolve, Record, Attrs,
       FailTask, Finish, Goto
  <2> QED BY <1>8, <2>1
<1> QED BY <1>1, <1>3, <1>4, <1>5, <1>6, <1>7, <1>9, <1>10, <1>11, <1>12, CalmSteps
        DEF Next, WorkerStep, LoopStep, Fault

LEMMA EngineMoves ==
    ASSUME Next
    PROVE  \/ UNCHANGED engVars
           \/ HandlerSteps \/ WorkerTake \/ StartResync \/ Boot \/ Crash
           \/ \E s \in Side : Scan(s)
<1>1. CASE UserStep \/ FeedStep \/ TakeEvent \/ HandleFailure \/ Rest
  BY <1>1 DEF UserStep, UserWrite, UserDelete, UserAttrib, FeedStep, Pump, Release,
     TakeEvent, HandleFailure, Rest, vars
<1>2. ASSUME NEW s \in Side, RetryDue(s) \/ Overflow(s) \/ Expire(s) PROVE UNCHANGED engVars
  BY <1>2 DEF RetryDue, Overflow, Expire
<1> QED BY <1>1, <1>2 DEF Next, WorkerStep, LoopStep, Fault, HandlerSteps

LEMMA PresentStep ==
    ASSUME PairAssumption, Calm, SyncInv, Next
    PROVE  Present' /\ Asked'
<1> DEFINE Goal == Present' /\ Asked'
<1> SUFFICES Goal
  OBVIOUS
<1>1. /\ CalmInv /\ Present /\ Asked /\ Base /\ Stamped
      /\ to \in Side /\ From \in Side /\ Other(to) = From
      /\ policy' = policy /\ policy \in {"manual", "preserve", "newer-wins"}
  BY CalmGrows, OtherSide DEF SyncInv, CalmInv, TypeInv, Base, From, PairAssumption
<1>2. \A s \in Side : disk[s] = Absent <=> disk[s].c = 0
  BY <1>1, Missing
<1>3. ASSUME pc' \in {"idle", "decide", "scan", "scan2", "apply", "record", "attrs"} PROVE Goal
  BY <1>3 DEF Present, Asked
<1>4. CASE UNCHANGED engVars
  <2>1. CASE UserStep
    BY <1>3, <1>4, <2>1, UserAtRest, <1>1 DEF engVars
  <2>2. CASE UNCHANGED disk
    BY <1>1, <1>4, <2>2 DEF engVars, Present, Asked, From, Same
  <2>3. CASE Copy
    BY <1>4, <2>3 DEF Copy, Goto, engVars
  <2> QED BY <1>1, <2>1, <2>2, <2>3, CalmDisk
<1>5. CASE WorkerTake \/ StartResync \/ Boot \/ Crash \/ CopyNothing \/ Resolve \/ Record \/ Attrs
  <2>1. pc' \in {"idle", "decide", "scan", "record"}
    BY <1>5 DEF WorkerTake, StartResync, Boot, Crash, CopyNothing, Resolve, Record, Attrs,
       FailTask, Finish, Goto
  <2> QED BY <1>3, <2>1
<1>6. ASSUME NEW s \in Side, Scan(s) PROVE Goal
  BY <1>3, <1>6 DEF Scan
<1>7. CASE Decide
  <2>1. run = "worker" /\ ev.kind \in CalmKinds
    BY <1>1, <1>7 DEF Decide, CalmInv, TypeInv, Runs, Feeds
  <2>2. pc' \in {"idle", "attrs"} \/ (pc' = "detect" /\ run' = "worker")
    BY <1>7, <2>1 DEF Decide, Finish, Goto, CalmKinds, Kind
  <2> QED BY <1>3, <2>2 DEF Present, Asked
<1>8. CASE Detect
  <2>1. disk' = disk /\ (Finish \/ Goto("conflict") \/ Goto("copy"))
    BY <1>8 DEF Detect, FailTask, fsVars
  <2>2. CASE Finish
    BY <1>3, <2>2 DEF Finish
  <2>3. CASE Goto("conflict")
    <3>1. disk[From] # Absent /\ disk[to] # Absent /\ disk[From].c # disk[to].c
      BY <1>8, <2>3 DEF Detect, FailTask, Finish, Goto, Suspect
    <3>2. ~Same
      BY <1>1, <3>1, SameSides
    <3> QED BY <1>1, <1>2, <2>1, <2>3, <3>1, <3>2 DEF Goto, Present, Asked, From, Same
  <2>4. CASE Goto("copy")
    <3>1. pc = "detect"
      BY <1>8 DEF Detect
    <3> QED BY <1>1, <2>1, <2>4, <3>1 DEF Goto, Present, Asked, From
  <2> QED BY <2>1, <2>2, <2>3, <2>4
<1>9. CASE Conflict
  <2>1. pc = "conflict" /\ disk' = disk
    BY <1>9 DEF Conflict, fsVars
  <2>2. disk[From].c # 0 /\ disk[to].c # 0 /\ ~Same
    BY <1>1, <2>1 DEF Present
  <2>3. \/ Finish
        \/ policy = "preserve" /\ Goto("preserve")
        \/ policy = "newer-wins" /\ pc' = "settle" /\ to' = OlderSide
    BY <1>1, <1>9 DEF Conflict, FailTask
  <2>4. CASE Finish
    BY <1>3, <2>4 DEF Finish
  <2>5. CASE policy = "preserve" /\ Goto("preserve")
    BY <1>1, <2>1, <2>2, <2>5 DEF Goto, Present, Asked, From, Same
  <2>6. CASE policy = "newer-wins" /\ pc' = "settle" /\ to' = OlderSide
    <3>1. to' \in {to, From} /\ Other(From) = to
      BY <1>1, <2>6 DEF OlderSide, From, Other, Side, Base
    <3>2. disk'[to'].c # 0 /\ disk'[Other(to')].c # 0
      BY <1>1, <2>1, <2>2, <3>1
    <3> QED BY <1>1, <2>1, <2>2, <2>6, <3>2 DEF Present, Asked, From, Same
  <2> QED BY <2>3, <2>4, <2>5, <2>6
<1>10. CASE Preserve
  <2>1. pc = "preserve" /\ disk' = disk /\ (Finish \/ Goto("settle"))
    BY <1>10 DEF Preserve, FailTask
  <2>2. CASE Finish
    BY <1>3, <2>2 DEF Finish
  <2>3. CASE Goto("settle")
    BY <1>1, <2>1, <2>3 DEF Goto, Present, Asked, From, Same
  <2> QED BY <2>1, <2>2, <2>3
<1>11. CASE Copy
  <2>1. pc' = "record" \/ (pc = "settle" /\ pc' = "resolve")
    BY <1>11 DEF Copy, Goto
  <2> QED BY <1>1, <2>1 DEF Present, Asked
<1>12. CASE Apply
  <2>1. disk' = disk
    BY <1>12 DEF Apply, fsVars
  <2>2. CASE Finish \/ Goto("record")
    BY <1>3, <2>2 DEF Finish, Goto
  <2>3. ASSUME NEW s \in Side, NEW label \in {"detect", "conflict"}, NEW kind \in WriteKinds,
               Begin(label, s, kind), disk[s] # Absent,
               label = "conflict" => ~Same /\ disk[Other(s)] # Absent
        PROVE  Goal
    <3>1. pc' = label /\ to' = Other(s) /\ Other(to') = s /\ Other(s) \in Side
      BY <2>3 DEF Begin, Other, Side
    <3>2. disk'[s].c # 0 /\ (label = "conflict" => ~Same' /\ disk'[Other(s)].c # 0)
      BY <1>2, <2>1, <2>3, <3>1 DEF Same
    <3> QED BY <3>1, <3>2 DEF Present, Asked, From
  <2> QED BY <1>1, <1>12, <2>2, <2>3, CalmApply
<1> HIDE DEF Goal
<1> QED BY <1>1, <1>4, <1>5, <1>6, <1>7, <1>8, <1>9, <1>10, <1>11, <1>12, EngineMoves, CalmSteps
        DEF HandlerSteps

\* A file nobody has is in no row.
LEMMA NoFileNoRow ==
    ASSUME PairAssumption, CalmInv, Same, NEW r \in Side, disk[r] = Absent
    PROVE  entry = disk
<1>1. Base /\ Stamped /\ Rows
  BY DEF CalmInv, TypeInv
<1>2. \A s \in Side : disk[s] = Absent
  BY DEF Same, Side
<1>3. \A s \in Side : entry[s] = Absent
  BY <1>1, <1>2, Missing DEF Rows
<1> QED BY <1>1, <1>2, <1>3 DEF Base

\* What a resync leaves: equal files that are recorded, or a conflict for a human.
LEMMA ResyncEnds ==
    ASSUME PairAssumption, Calm, SyncInv, Next, run = "resync", run' # "resync"
    PROVE  \/ Crash
           \/ Same /\ disk' = disk /\ entry' = disk
           \/ ~Same /\ policy = "manual" /\ open'
<1> DEFINE Done == Same /\ disk' = disk /\ entry' = disk
           Goal == Crash \/ Done \/ (~Same /\ policy = "manual" /\ open')
<1> SUFFICES Goal
  OBVIOUS
<1>1. /\ CalmInv /\ Found /\ Present /\ Asked /\ Base /\ Stamped /\ Runs
      /\ to \in Side /\ From \in Side
      /\ policy \in {"manual", "preserve", "newer-wins"}
  BY OtherSide DEF SyncInv, CalmInv, TypeInv, Base, From, PairAssumption
<1>2. \A s \in Side : disk[s] = Absent <=> disk[s].c = 0
  BY <1>1, Missing
<1>3. CASE UNCHANGED run
  BY <1>3
<1>4. CASE WorkerTake \/ StartResync \/ Boot
  BY <1>4 DEF WorkerTake, StartResync, Boot, LoopFree
<1>5. ASSUME NEW s \in Side, Scan(s) PROVE Goal
  BY <1>5 DEF Scan
<1>6. CASE Decide
  BY <1>1, <1>6 DEF Decide, Runs
<1>7. CASE Detect
  BY <1>1, <1>2, <1>7 DEF Detect, FailTask, Goto, Present
<1>8. CASE Conflict
  <2>1. disk["A"] # Absent /\ disk["B"] # Absent /\ ~Same
    <3>1. disk[From] # Absent /\ disk[to] # Absent /\ ~Same
      BY <1>1, <1>2, <1>8 DEF Conflict, Present
    <3> QED BY <1>1, <3>1 DEF From, Other, Side
  <2>2. policy = "manual" /\ open'
    BY <1>1, <1>8, <2>1 DEF Conflict, Goto
  <2> QED BY <2>1, <2>2
<1>9. CASE Preserve \/ CopyNothing
  BY <1>1, <1>2, <1>9 DEF Preserve, CopyNothing, Goto, Present
<1>10. CASE Copy \/ Resolve
  BY <1>10 DEF Copy, Resolve, Goto
<1>11. CASE Record \/ Attrs
  <2>1. Same
    BY <1>1, <1>11 DEF Record, Attrs, Found
  <2>2. disk' = disk
    BY <1>1, <1>11, CalmDisk, UserAtRest DEF Record, Attrs, Copy, fsVars
  <2>3. CASE Record
    <3>1. entry' = disk \/ (entry' = entry /\ \E r \in Side : disk[r] = Absent)
      BY <2>3 DEF Record, Recorded, Side
    <3> QED BY <1>1, <2>1, <2>2, <3>1, NoFileNoRow
  <2>4. CASE Attrs
    <3>1. entry' = entry /\ disk[From] = Absent
      BY <2>4 DEF Attrs, Goto, dbVars
    <3> QED BY <1>1, <2>1, <2>2, <3>1, NoFileNoRow
  <2> QED BY <1>11, <2>3, <2>4
<1>12. CASE Apply
  <2>1. Finish /\ \A s \in Side : disk[s] = Absent
    BY <1>1, <1>12, CalmApply DEF Goto, Begin
  <2>2. Same /\ entry = disk
    <3>1. Same
      BY <2>1 DEF Same, Side
    <3> QED BY <1>1, <2>1, <3>1, NoFileNoRow
  <2> QED BY <1>12, <2>2 DEF Apply, fsVars, dbVars
<1> HIDE DEF Goal
<1>13. Crash => Goal
  BY DEF Goal
<1> QED BY <1>1, <1>3, <1>4, <1>5, <1>6, <1>7, <1>8, <1>9, <1>10, <1>11, <1>12, <1>13, EngineMoves,
           CalmSteps DEF HandlerSteps, engVars

LEMMA SettlingStep ==
    ASSUME PairAssumption, Calm, SyncInv, Next
    PROVE  Settling'
<1> SUFFICES ASSUME Same', entry' # disk', up'
             PROVE  run' = "resync" \/ pc' \in {"record", "resolve"}
  BY DEF Settling
<1>1. CalmInv /\ Settling /\ ~UserStep
  BY NewVersion DEF SyncInv
<1>2. CASE Copy
  BY <1>2 DEF Copy, Goto
<1>3. CASE ~Copy
  <2>1. disk' = disk /\ Same
    BY <1>1, <1>3, CalmDisk DEF Same
  <2>2. entry' = entry /\ entry # disk
    BY <1>1, <2>1, CalmRows
  <2>3. CASE ~up
    BY <1>1, <2>3, CalmUp DEF Boot, Expire, envVars
  <2>4. CASE up /\ run = "resync"
    BY <2>1, <2>2, <2>4, ResyncEnds DEF Crash
  <2>5. CASE up /\ run # "resync" /\ pc \in {"record", "resolve"}
    <3>1. CASE UNCHANGED engVars
      BY <2>5, <3>1 DEF engVars
    <3>2. CASE WorkerTake \/ StartResync \/ Boot \/ Crash \/ \E s \in Side : Scan(s)
      BY <2>5, <3>2 DEF WorkerTake, StartResync, Boot, Crash, Scan
    <3>3. CASE Resolve
      BY <3>3 DEF Resolve, Goto
    <3>4. CASE Record
      <4>1. \E r \in Side : disk[r] = Absent
        BY <2>1, <2>2, <3>4 DEF Record, Recorded, Side
      <4> QED BY <1>1, <2>1, <2>2, <4>1, NoFileNoRow
    <3>5. CASE HandlerSteps /\ ~Resolve /\ ~Record
      BY <1>1, <1>3, <2>5, <3>5, CalmSteps DEF HandlerSteps, Decide, Detect, Conflict, Preserve,
         CopyNothing, Attrs, Apply
    <3> QED BY <3>1, <3>2, <3>3, <3>4, <3>5, EngineMoves
  <2> QED BY <1>1, <2>1, <2>2, <2>3, <2>4, <2>5 DEF Settling
<1> QED BY <1>2, <1>3

\* Events that move along are still carried.
LEMMA Appended ==
    ASSUME NEW q \in Seq(Task), NEW x \in Task
    PROVE  /\ \A i \in DOMAIN q : i \in DOMAIN Append(q, x) /\ Append(q, x)[i] = q[i]
           /\ \E i \in DOMAIN Append(q, x) : Append(q, x)[i] = x
<1> DEFINE z == Append(q, x)
<1>1. Len(q) \in Nat /\ DOMAIN q = 1..Len(q)
  OBVIOUS
<1>2. /\ Len(z) = Len(q) + 1 /\ DOMAIN z = 1..(Len(q) + 1)
      /\ \A i \in 1..Len(q) : z[i] = q[i]
      /\ z[Len(q) + 1] = x
  BY <1>1, AppendProperties
<1> QED BY <1>1, <1>2

LEMMA Dropped ==
    ASSUME NEW S, NEW q \in Seq(S), q # << >>, NEW i \in DOMAIN q
    PROVE  q[i] = Head(q) \/ \E j \in DOMAIN Tail(q) : Tail(q)[j] = q[i]
<1>1. Len(q) \in Nat /\ DOMAIN q = 1..Len(q) /\ Head(q) = q[1]
  OBVIOUS
<1>2. Len(Tail(q)) = Len(q) - 1 /\ \A j \in 1..Len(Tail(q)) : Tail(q)[j] = q[j + 1]
  BY HeadTailProperties
<1>3. DOMAIN Tail(q) = 1..Len(Tail(q))
  OBVIOUS
<1>4. CASE i = 1
  BY <1>1, <1>4
<1>5. CASE i # 1
  <2>1. i - 1 \in 1..Len(Tail(q)) /\ i = (i - 1) + 1
    BY <1>1, <1>2, <1>5
  <2>2. Tail(q)[i - 1] = q[i]
    BY <1>2, <2>1
  <2> QED BY <1>3, <2>1, <2>2
<1> QED BY <1>4, <1>5

\* Something joined to a queue leaves it not empty.
LEMMA Joined ==
    ASSUME NEW q \in Seq(CalmNotices), NEW k \in Seq(CalmNotices), NEW z, z = q \o k,
           NEW D, DOMAIN k = D, 1 \in D
    PROVE  z # << >>
<1>1. Len(q) \in Nat /\ Len(k) \in Nat /\ Len(k) # 0
  OBVIOUS
<1>2. Len(z) = Len(q) + Len(k)
  BY ConcatProperties
<1>3. Len(z) # 0
  BY <1>1, <1>2
<1> QED BY <1>3

\* Whoever writes leaves a notice: one of his own, or the unread one it is dropped for.
LEMMA Noted ==
    ASSUME PairAssumption, Calm, CalmInv, NEW r \in Side, UserWrite(r), up
    PROVE  /\ kern'[r] # << >>
           /\ \A s \in Side : s # r => kern'[s] = kern[s]
<1>1. PICK kinds \in {<<"CREATE", "MODIFY">>, <<"MODIFY">>} : Notify(r, kinds)
  BY DEF UserWrite
<1>2. PICK new \in Queued(r, kinds) : kern' = [kern EXCEPT ![r] = @ \o Notices(new, FALSE)]
  BY <1>1 DEF Notify
<1>3. kern \in [Side -> Seq(CalmNotices)] /\ kern[r] \in Seq(CalmNotices)
  BY DEF CalmInv, Feeds
<1>4. kern'[r] = kern[r] \o Notices(new, FALSE)
  BY <1>2, <1>3
<1>5. kinds \in Seq(WriteKinds) /\ Len(kinds) \in {1, 2}
  BY UserKinds
<1>6. new \in Seq(WriteKinds)
  BY <1>5, QueuedKinds
<1>7. Notices(new, FALSE) \in Seq(CalmNotices)
  <2>1. \A k \in WriteKinds : [kind |-> k, own |-> FALSE] \in CalmNotices
    BY DEF CalmNotices, WriteNotices
  <2> QED BY <1>6, <2>1, Noticed
<1>8. CASE new = kinds
  <2>1. DOMAIN Notices(new, FALSE) = DOMAIN kinds
    BY <1>8 DEF Notices
  <2>2. 1 \in DOMAIN kinds
    BY <1>5
  <2>3. kern'[r] # << >>
    BY <1>3, <1>4, <1>7, <2>1, <2>2, Joined
  <2> QED BY <1>2, <1>3, <2>3
<1>9. CASE kern[r] # << >>
  <2> DEFINE k == Notices(new, FALSE)
  <2>1. k \in Seq(CalmNotices)
    BY <1>7
  <2> HIDE DEF k
  <2>2. Len(kern[r]) \in Nat /\ Len(kern[r]) # 0 /\ Len(k) \in Nat
    BY <1>3, <1>9, <2>1
  <2>3. Len(kern[r] \o k) = Len(kern[r]) + Len(k)
    BY <1>3, <2>1, ConcatProperties
  <2>4. Len(kern[r] \o k) # 0
    BY <2>2, <2>3
  <2>5. kern[r] \o k # << >>
    BY <2>4
  <2>6. kern'[r] # << >>
    BY <1>4, <2>5 DEF k
  <2> QED BY <1>2, <1>3, <2>6
<1> QED BY <1>2, <1>8, <1>9 DEF Queued

\* What is carried stays carried until the worker has dealt with it.
LEMMA CarriedStays ==
    ASSUME PairAssumption, Calm, SyncInv, Next, ~UserStep, ~Copy,
           ~Same, ~Reconciled, ~Reconciled', disk' = disk,
           NEW s \in Side, disk[s] # entry[s], Carried(s)
    PROVE  Carried(s)'
<1> DEFINE Goal == Carried(s)'
<1> SUFFICES Goal
  OBVIOUS
<1>1. /\ CalmInv /\ TypeInv /\ Base /\ Stamped /\ Runs /\ Scanning
      /\ up /\ up' /\ ~resync /\ ~resync' /\ run = "worker" /\ run' # "resync"
      /\ policy \in {"manual", "preserve", "newer-wins"} /\ policy' = policy
      /\ to \in Side
  BY CalmGrows DEF SyncInv, CalmInv, TypeInv, Base, Reconciled, PairAssumption
<1>2. /\ slot \in [Side -> Kind \cup {None}] /\ kern \in [Side -> Seq(Notice)]
      /\ out \in Seq(Task) /\ wq \in Seq(Task) /\ failed \in Seq(Task)
      /\ retry \in [Side -> [kind : Kind, attempts : Nat] \cup {NoRetry}]
      /\ ev \in [side : Side, kind : Kind \cup {None}]
      /\ (pc # "idle" => ev \in Task)
  BY <1>1 DEF TypeInv, Feeds, Task
<1>3. \A t \in Task : t.side \in Side /\ t.kind \in Kind
  BY DEF Task
<1>4. None \notin Kind
  BY DEF None, Kind
<1>5. CASE UNCHANGED <<kern, slot, retry, out, wq, failed, pc, ev>>
  BY <1>5 DEF Carried
<1>6. CASE Rest
  BY <1>5, <1>6 DEF Rest, vars, feedVars, loopVars, engVars
<1>7. ASSUME NEW r \in Side, Expire(r) PROVE Goal
  BY <1>5, <1>7 DEF Expire, loopVars, engVars
<1>8. ~Boot /\ ~StartResync /\ ~Crash /\ \A r \in Side : ~Overflow(r) /\ ~Scan(r)
  BY <1>1 DEF Boot, StartResync, Crash, Overflow, Scan, Scanning
<1>9. ASSUME NEW r \in Side, Pump(r) PROVE Goal
  <2>1. cnt[r] = 0
    BY DEF SyncInv, Unclaimed
  <2>2. Head(kern[r]).kind \in Kind
    <3>1. Head(kern[r]) \in Notice
      BY <1>2, <1>9, Parts DEF Pump
    <3> QED BY <3>1 DEF Notice
  <2>3. {"CREATE", "MODIFY"} \subseteq Kind
    BY DEF Kind
  <2>4. Merge(slot[r], Head(kern[r]).kind) \in Kind
    BY <2>2, <2>3, Merged
  <2>5. /\ slot' = [slot EXCEPT ![r] = Merge(@, Head(kern[r]).kind)]
        /\ kern' = [kern EXCEPT ![r] = Tail(@)]
    BY <1>9, <2>1 DEF Pump, Claims
  <2>6. UNCHANGED <<retry, out, wq, failed, pc, ev>>
    BY <1>9 DEF Pump, loopVars, engVars
  <2>7. CASE s = r
    <3>1. slot'[s] # None
      BY <1>2, <1>4, <2>4, <2>5, <2>7
    <3> QED BY <3>1 DEF Carried
  <2>8. CASE s # r
    <3>1. slot'[s] = slot[s] /\ kern'[s] = kern[s]
      BY <1>2, <2>5, <2>8
    <3> QED BY <2>6, <3>1 DEF Carried
  <2> QED BY <2>7, <2>8
<1>10. ASSUME NEW r \in Side, Release(r) PROVE Goal
  <2>1. PICK x \in Task : x = [side |-> r, kind |-> slot[r]]
    BY <1>2, <1>10 DEF Release, Task
  <2>2. out' = Append(out, x) /\ slot' = [slot EXCEPT ![r] = None]
        /\ UNCHANGED <<kern, retry, wq, failed, pc, ev>>
    BY <1>10, <2>1 DEF Release, loopVars, engVars
  <2>3. /\ \A i \in DOMAIN out : i \in DOMAIN out' /\ out'[i] = out[i]
        /\ \E i \in DOMAIN out' : out'[i] = x
    <3>0. out \in Seq(Task) /\ x \in Task
      BY <1>2, <2>1
    <3>1. /\ \A i \in DOMAIN out : i \in DOMAIN Append(out, x) /\ Append(out, x)[i] = out[i]
          /\ \E i \in DOMAIN Append(out, x) : Append(out, x)[i] = x
      BY <3>0, Appended
    <3> QED BY <2>2, <3>1
  <2>4. CASE s = r
    <3>1. \E i \in DOMAIN out' : out'[i].side = s
      BY <2>1, <2>3, <2>4
    <3> QED BY <3>1 DEF Carried
  <2>5. CASE s # r
    <3>1. slot'[s] = slot[s]
      BY <1>2, <2>2, <2>5
    <3> QED BY <2>2, <2>3, <3>1 DEF Carried
  <2> QED BY <2>4, <2>5
<1>11. CASE TakeEvent
  <2>1. PICK x \in Task : x = Head(out) /\ out # << >>
    BY <1>2, <1>11, Parts DEF TakeEvent
  <2>2. /\ retry' = [retry EXCEPT ![x.side] = NoRetry] /\ wq' = Append(wq, x) /\ out' = Tail(out)
        /\ UNCHANGED <<kern, slot, failed, pc, ev>>
    BY <1>11, <2>1 DEF TakeEvent, engVars
  <2>3. \A i \in DOMAIN out : out[i] = x \/ \E j \in DOMAIN out' : out'[j] = out[i]
    BY <1>2, <2>1, <2>2, Dropped
  <2>4. /\ \A i \in DOMAIN wq : i \in DOMAIN wq' /\ wq'[i] = wq[i]
        /\ \E i \in DOMAIN wq' : wq'[i] = x
    <3>0. wq \in Seq(Task) /\ x \in Task
      BY <1>2, <2>1
    <3>1. /\ \A i \in DOMAIN wq : i \in DOMAIN Append(wq, x) /\ Append(wq, x)[i] = wq[i]
          /\ \E i \in DOMAIN Append(wq, x) : Append(wq, x)[i] = x
      BY <3>0, Appended
    <3> QED BY <2>2, <3>1
  <2>5. CASE s = x.side
    <3>1. \E i \in DOMAIN wq' : wq'[i].side = s
      BY <2>4, <2>5
    <3> QED BY <3>1 DEF Carried
  <2>6. CASE s # x.side
    <3>1. retry'[s] = retry[s]
      BY <1>2, <2>2, <2>6
    <3> QED BY <2>2, <2>3, <2>4, <2>6, <3>1 DEF Carried
  <2> QED BY <2>5, <2>6
<1>12. CASE HandleFailure
  <2> DEFINE x == Head(failed)
             n == retry[x.side].attempts + 1
  <2>1. x \in Task /\ failed # << >>
    BY <1>2, <1>12, Parts DEF HandleFailure
  <2>2. /\ retry' = [retry EXCEPT ![x.side] = [kind |-> x.kind, attempts |-> n]]
        /\ failed' = Tail(failed) /\ UNCHANGED <<kern, slot, out, wq, pc, ev>>
    BY <1>1, <1>12 DEF HandleFailure, feedVars, engVars
  <2>3. \A i \in DOMAIN failed : failed[i] = x \/ \E j \in DOMAIN failed' : failed'[j] = failed[i]
    BY <1>2, <2>1, <2>2, Dropped
  <2>4. x.side \in Side /\ x.kind \in Kind
    BY <1>3, <2>1
  <2> HIDE DEF x, n
  <2>5. CASE s = x.side
    <3>1. retry'[s].kind \in Kind
      BY <1>2, <2>2, <2>4, <2>5
    <3>2. retry'[s] # NoRetry
      BY <1>4, <3>1 DEF NoRetry
    <3> QED BY <3>2 DEF Carried
  <2>6. CASE s # x.side
    <3>1. retry'[s] = retry[s]
      BY <1>2, <2>2, <2>6
    <3> QED BY <2>2, <2>3, <2>6, <3>1 DEF Carried
  <2> QED BY <2>5, <2>6
<1>13. ASSUME NEW r \in Side, RetryDue(r) PROVE Goal
  <2>1. PICK x \in Task : x = [side |-> r, kind |-> retry[r].kind]
    BY <1>2, <1>13 DEF RetryDue, Task
  <2>2. /\ retry' = [retry EXCEPT ![r] = NoRetry] /\ wq' = Append(wq, x)
        /\ UNCHANGED <<kern, slot, out, failed, pc, ev>>
    BY <1>13, <2>1 DEF RetryDue, feedVars, engVars
  <2>3. /\ \A i \in DOMAIN wq : i \in DOMAIN wq' /\ wq'[i] = wq[i]
        /\ \E i \in DOMAIN wq' : wq'[i] = x
    <3>0. wq \in Seq(Task) /\ x \in Task
      BY <1>2, <2>1
    <3>1. /\ \A i \in DOMAIN wq : i \in DOMAIN Append(wq, x) /\ Append(wq, x)[i] = wq[i]
          /\ \E i \in DOMAIN Append(wq, x) : Append(wq, x)[i] = x
      BY <3>0, Appended
    <3> QED BY <2>2, <3>1
  <2>4. CASE s = r
    <3>1. \E i \in DOMAIN wq' : wq'[i].side = s
      BY <2>1, <2>3, <2>4
    <3> QED BY <3>1 DEF Carried
  <2>5. CASE s # r
    <3>1. retry'[s] = retry[s]
      BY <1>2, <2>2, <2>5
    <3> QED BY <2>2, <2>3, <3>1 DEF Carried
  <2> QED BY <2>4, <2>5
<1>14. CASE WorkerTake
  <2> DEFINE x == Head(wq)
  <2>1. wq # << >>
    BY <1>14 DEF WorkerTake
  <2>2. /\ pc = "idle" /\ pc' = "decide" /\ ev' = x /\ wq' = Tail(wq)
        /\ UNCHANGED <<kern, slot, retry, out, failed>>
    BY <1>14 DEF WorkerTake, feedVars
  <2>3. \A i \in DOMAIN wq : wq[i] = x \/ \E j \in DOMAIN wq' : wq'[j] = wq[i]
    BY <1>2, <2>1, <2>2, Dropped
  <2> HIDE DEF x
  <2>4. CASE s = x.side
    BY <2>2, <2>4 DEF Carried
  <2>5. CASE s # x.side
    BY <2>2, <2>3, <2>5 DEF Carried
  <2> QED BY <2>4, <2>5
<1>15. ASSUME UNCHANGED <<kern, slot, retry, out, wq>>, failed' = Append(failed, ev), pc # "idle"
       PROVE  Goal
  <2>1. /\ \A i \in DOMAIN failed : i \in DOMAIN failed' /\ failed'[i] = failed[i]
        /\ \E i \in DOMAIN failed' : failed'[i] = ev
    <3>1. ev \in Task
      BY <1>2, <1>15
    <3>2. /\ \A i \in DOMAIN failed :
                i \in DOMAIN Append(failed, ev) /\ Append(failed, ev)[i] = failed[i]
          /\ \E i \in DOMAIN Append(failed, ev) : Append(failed, ev)[i] = ev
      BY <1>2, <3>1, Appended, ZenonT(60)
    <3> QED BY <1>15, <3>2
  <2> QED BY <1>15, <2>1 DEF Carried
<1>16. ASSUME UNCHANGED <<kern, slot, retry, out, wq, failed>>, ev' = ev, pc' # "idle"
       PROVE  Goal
  BY <1>16 DEF Carried
<1>17. CASE Decide
  <2>1. UNCHANGED <<kern, slot, retry, out, wq, failed>> /\ pc = "decide" /\ ev.kind \in CalmKinds
    BY <1>1, <1>17 DEF Decide, feedVars, loopVars, CalmInv, Feeds
  <2>2. CASE ~AlreadySynced
    <3>1. ev' = ev /\ pc' # "idle"
      BY <1>17, <2>1, <2>2 DEF Decide, Goto, CalmKinds, Kind
    <3> QED BY <1>16, <2>1, <3>1
  <2>3. CASE AlreadySynced
    <3>1. From \in Side /\ to \in Side /\ ev.kind # "DELETE"
      BY <1>1, <2>1, OtherSide DEF From, CalmKinds
    <3>2. disk[From].t = entry[From].t
      BY <2>3, <3>1 DEF AlreadySynced
    <3>3. disk[From] = entry[From]
      BY <1>1, <3>1, <3>2, WholeFile DEF Stamped, Base
    <3>4. s # From
      BY <3>3
    <3>5. From = ev.side
      BY <1>1, <2>1 DEF SyncInv, Inhand
    <3>6. pc' = "idle" /\ UNCHANGED <<kern, slot, retry, out, wq, failed>>
      BY <1>17, <2>1, <2>3 DEF Decide, Finish
    <3> QED BY <2>1, <3>4, <3>5, <3>6 DEF Carried
  <2> QED BY <2>2, <2>3
<1>18. CASE Detect
  <2>1. UNCHANGED <<kern, slot, retry, out, wq>> /\ pc = "detect"
    BY <1>18 DEF Detect, feedVars
  <2>2. CASE FailTask
    BY <1>1, <1>15, <2>1, <2>2 DEF FailTask
  <2>3. CASE ~FailTask
    <3>1. UNCHANGED failed /\ ev' = ev /\ pc' # "idle"
      BY <1>18, <2>3 DEF Detect, Goto
    <3> QED BY <1>16, <2>1, <3>1
  <2> QED BY <2>2, <2>3
<1>19. CASE Conflict
  <2>1. UNCHANGED <<kern, slot, retry, out, wq>> /\ pc = "conflict"
    BY <1>19 DEF Conflict, feedVars
  <2>2. CASE FailTask
    BY <1>1, <1>15, <2>1, <2>2 DEF FailTask
  <2>3. CASE ~FailTask
    <3>1. open' /\ UNCHANGED failed
      BY <1>19, <2>3 DEF Conflict
    <3>2. policy # "manual"
      BY <1>1, <3>1 DEF Reconciled
    <3>3. ev' = ev /\ pc' # "idle"
      BY <1>1, <1>19, <2>3, <3>2 DEF Conflict, Goto
    <3> QED BY <1>16, <2>1, <3>1, <3>3
  <2> QED BY <2>2, <2>3
<1>20. CASE Preserve \/ CopyNothing
  <2>1. UNCHANGED <<kern, slot, retry, out, wq>> /\ pc # "idle"
    BY <1>20 DEF Preserve, CopyNothing, feedVars
  <2>2. CASE FailTask
    BY <1>1, <1>15, <2>1, <2>2 DEF FailTask
  <2>3. CASE ~FailTask
    <3>1. UNCHANGED failed /\ ev' = ev /\ pc' # "idle"
      BY <1>20, <2>3 DEF Preserve, CopyNothing, Goto
    <3> QED BY <1>16, <2>1, <3>1
  <2> QED BY <2>2, <2>3
<1>21. ~Apply /\ ~Record /\ ~Attrs /\ ~Resolve
  BY <1>1 DEF Apply, Record, Attrs, Resolve, Scanning, CalmInv, Found
<1> HIDE DEF Goal
<1> QED BY <1>1, <1>6, <1>7, <1>8, <1>9, <1>10, <1>11, <1>12, <1>13, <1>14, <1>17, <1>18, <1>19,
           <1>20, <1>21, CalmSteps DEF Next, WorkerStep, LoopStep, FeedStep, Fault

LEMMA PendingStep ==
    ASSUME PairAssumption, Calm, SyncInv, Next
    PROVE  Pending'
<1> SUFFICES ASSUME ~Same', ~Reconciled', NEW s \in Side, disk'[s] # entry'[s]
             PROVE  Carried(s)'
  BY DEF Pending
<1>1. CalmInv /\ Settling /\ Pending /\ ~Copy /\ up' /\ run' # "resync" /\ ~resync'
  BY CopySame DEF SyncInv, Reconciled
<1>2. CASE UserStep
  <2>1. PICK r \in Side : UserWrite(r)
    BY <1>1, <1>2, UserAtRest
  <2>2. UNCHANGED <<entry, open, policy, up, slot, out, loopVars, engVars>>
    BY <2>1 DEF UserWrite, dbVars
  <2>3. up /\ Settled /\ pc = "idle" /\ run # "resync" /\ ~resync
    BY <1>1, <2>1, <2>2 DEF UserWrite, UserMay, Calm, Settled, Resting, engVars, loopVars
  <2>4. kern'[r] # << >> /\ \A x \in Side : x # r => kern'[x] = kern[x]
    BY <1>1, <2>1, <2>3, Noted
  <2>5. CASE s = r
    BY <2>4, <2>5 DEF Carried
  <2>6. CASE s # r
    <3>1. disk'[s] = disk[s] /\ entry' = entry /\ disk[s] # entry[s]
      BY <1>1, <2>1, <2>2, <2>6 DEF UserWrite, CalmInv, TypeInv, Base
    <3>2. ~Same
      BY <1>1, <2>3, <3>1 DEF Settling
    <3>3. ~Reconciled
      BY <2>2, <2>3 DEF Reconciled
    <3>4. Carried(s)
      BY <1>1, <3>1, <3>2, <3>3 DEF Pending
    <3>5. kern'[s] = kern[s] /\ UNCHANGED <<slot, retry, out, wq, failed, pc, ev>>
      BY <2>2, <2>4, <2>6 DEF loopVars, engVars
    <3> QED BY <3>4, <3>5 DEF Carried
  <2> QED BY <2>5, <2>6
<1>3. CASE ~UserStep
  <2>1. disk' = disk /\ ~Same
    BY <1>1, <1>3, CalmDisk DEF Same
  <2>2. entry' = entry
    BY <1>1, <2>1, CalmRows DEF Record, CalmInv, Found
  <2>3. up
    BY <1>1, <1>3, CalmUp DEF Boot, Expire, envVars
  <2>4. run # "resync"
    BY <1>1, <2>1, CalmGrows, ResyncEnds DEF Crash, Reconciled
  <2>5. ~resync
    <3>1. CASE StartResync \/ Crash
      BY <1>1, <3>1 DEF StartResync, Crash
    <3>2. CASE ~StartResync /\ ~Crash
      <4>1. resync => resync'
        <5>1. CASE WorkerStep \/ LoopStep \/ FeedStep \/ Boot \/ Rest
          BY <1>1, <3>2, <5>1, CalmSteps DEF WorkerStep, WorkerTake, Decide, Detect, Conflict,
             Preserve, CopyNothing, Resolve, Record, Attrs, Apply, Scan, LoopStep, TakeEvent,
             HandleFailure, RetryDue, FeedStep, Pump, Release, Boot, Rest, vars, loopVars
        <5>2. ASSUME NEW x \in Side, Overflow(x) \/ Expire(x) PROVE resync => resync'
          BY <5>2 DEF Overflow, Expire, loopVars
        <5> QED BY <1>1, <1>3, <3>2, <5>1, <5>2, CalmSteps DEF Next, Fault
      <4> QED BY <1>1, <4>1
    <3> QED BY <3>1, <3>2
  <2>6. ~(policy = "manual" /\ open)
    <3>1. policy' = policy
      BY <1>1, CalmGrows
    <3>2. open => open'
      <4>1. ~Resolve
        BY <1>1, <2>1 DEF Resolve, CalmInv, Found
      <4>2. CASE WorkerStep
        BY <4>1, <4>2, <1>1, CalmSteps DEF WorkerStep, WorkerTake, Decide, Detect, Conflict,
           Preserve, CopyNothing, Record, Attrs, Apply, Scan, dbVars
      <4>3. CASE LoopStep \/ FeedStep \/ Boot \/ Fault \/ Rest
        BY <1>1, <4>3, CalmSteps DEF LoopStep, TakeEvent, HandleFailure, StartResync, RetryDue,
           FeedStep, Pump, Release, Boot, Fault, Crash, Overflow, Expire, Rest, vars, dbVars
      <4> QED BY <1>3, <4>2, <4>3 DEF Next
    <3> QED BY <3>1, <3>2 DEF Reconciled
  <2>7. ~Reconciled
    BY <2>3, <2>4, <2>5, <2>6 DEF Reconciled
  <2>8. disk[s] # entry[s] /\ Carried(s)
    BY <1>1, <2>1, <2>2, <2>7 DEF Pending
  <2> QED BY <1>1, <1>3, <2>1, <2>7, <2>8, CarriedStays
<1> QED BY <1>2, <1>3

LEMMA InhandStep ==
    ASSUME PairAssumption, Calm, SyncInv, Next
    PROVE  Inhand'
<1>1. Inhand /\ CalmInv /\ \A s \in Side : Other(Other(s)) = s
  BY DEF SyncInv, Other, Side
<1>2. CASE UNCHANGED engVars
  BY <1>1, <1>2 DEF Inhand, engVars, From
<1>3. ASSUME pc' # "decide" PROVE Inhand'
  BY <1>3 DEF Inhand
<1>4. CASE WorkerTake
  <2>1. wq # << >> /\ wq \in Seq(Task) /\ ev' = Head(wq) /\ to' = Other(ev'.side)
    BY <1>1, <1>4 DEF WorkerTake, CalmInv, TypeInv, Feeds, Task
  <2>2. ev'.side \in Side
    <3>1. Head(wq) \in Task
      BY <2>1, Parts
    <3> QED BY <2>1, <3>1 DEF Task
  <2> QED BY <1>1, <2>1, <2>2 DEF Inhand, From
<1>5. CASE StartResync \/ Boot \/ Crash
  BY <1>3, <1>5 DEF StartResync, Boot, Crash, Finish
<1>6. ASSUME NEW s \in Side, Scan(s) PROVE Inhand'
  BY <1>3, <1>6 DEF Scan
<1>7. CASE Decide
  <2>1. ev.kind \in CalmKinds
    BY <1>1, <1>7 DEF Decide, CalmInv, TypeInv, Runs, Feeds
  <2>2. pc' # "decide"
    BY <1>7, <2>1 DEF Decide, Finish, Goto, CalmKinds, Kind
  <2> QED BY <1>3, <2>2
<1>8. CASE Conflict
  <2>1. policy \in {"manual", "preserve", "newer-wins"}
    BY <1>1 DEF CalmInv, TypeInv, Base, PairAssumption
  <2>2. pc' # "decide"
    BY <1>8, <2>1 DEF Conflict, FailTask, Finish, Goto
  <2> QED BY <1>3, <2>2
<1>9. CASE Apply
  <2>1. pc' # "decide"
    BY <1>1, <1>9, CalmApply DEF Finish, Goto, Begin
  <2> QED BY <1>3, <2>1
<1>10. CASE Detect \/ Preserve \/ Copy \/ CopyNothing \/ Resolve \/ Record \/ Attrs
  <2>1. pc' # "decide"
    BY <1>10 DEF Detect, Preserve, Copy, CopyNothing, Resolve, Record, Attrs, FailTask, Finish, Goto
  <2> QED BY <1>3, <2>1
<1> QED BY <1>1, <1>2, <1>4, <1>5, <1>6, <1>7, <1>8, <1>9, <1>10, EngineMoves, CalmSteps
        DEF HandlerSteps

LEMMA SyncInit ==
    ASSUME PairAssumption, Init
    PROVE  SyncInv
<1>1. CalmInv /\ disk \in [Side -> File]
  BY CalmInit DEF CalmInv, TypeInv, Base
<1>2. disk = NoInventory \/ disk = [s \in Side |-> [c |-> 1, t |-> 1, m |-> 0]]
  BY DEF Init
<1>3. Same /\ entry = disk /\ RowsEqual
  BY <1>2 DEF Init, Same, RowsEqual, NoInventory, Side
<1>4. Unclaimed /\ Scanning /\ Inhand /\ Present /\ Asked
  BY DEF Init, Unclaimed, Scanning, Inhand, Present, Asked
<1>5. Settling /\ Pending
  BY <1>3 DEF Settling, Pending
<1> QED BY <1>1, <1>3, <1>4, <1>5 DEF SyncInv

LEMMA SyncStep ==
    ASSUME PairAssumption, Calm, SyncInv, [Next]_vars
    PROVE  SyncInv'
<1>1. CalmInv'
  BY CalmStep DEF SyncInv
<1>2. CASE Next
  BY <1>1, <1>2, RowsEqualStep, UnclaimedStep, ScanningStep, InhandStep, PresentStep,
     SettlingStep, PendingStep DEF SyncInv
<1>3. CASE UNCHANGED vars
  <2> USE <1>3 DEF vars, fsVars, dbVars, envVars, feedVars, loopVars, engVars
  <2>1. RowsEqual' /\ Scanning' /\ Inhand' /\ Asked'
    BY DEF SyncInv, RowsEqual, Scanning, Inhand, Asked, From
  <2>2. Unclaimed' /\ Present' /\ Settling'
    BY DEF SyncInv, Unclaimed, Present, Settling, Same, From
  <2>3. Pending'
    <3>1. \A s \in Side : Carried(s) => Carried(s)'
      BY DEF Carried
    <3>2. (Same' <=> Same) /\ (Reconciled' <=> Reconciled)
      BY DEF Same, Reconciled
    <3> QED BY <3>1, <3>2 DEF SyncInv, Pending
  <2> QED BY <1>1, <2>1, <2>2, <2>3 DEF SyncInv
<1> QED BY <1>2, <1>3

\* At rest nothing is carried, so a side that has left its record is reconciled.
LEMMA AtRest ==
    ASSUME PairAssumption, SyncInv, Quiet
    PROVE  \/ Same /\ entry = disk
           \/ ~Same /\ policy = "manual" /\ open
<1>1. /\ up /\ pc = "idle" /\ ~resync /\ out = << >> /\ wq = << >> /\ failed = << >>
      /\ \A s \in Side : kern[s] = << >> /\ slot[s] = None /\ retry[s] = NoRetry
  BY DEF Quiet, Resting
<1>2. run # "resync"
  BY <1>1 DEF SyncInv, CalmInv, TypeInv, Runs
<1>3. CASE Same
  BY <1>1, <1>2, <1>3 DEF SyncInv, Settling
<1>4. CASE ~Same /\ ~(policy = "manual" /\ open)
  <2>1. ~Reconciled
    BY <1>1, <1>2, <1>4 DEF Reconciled
  <2>2. \A s \in Side : ~Carried(s)
    BY <1>1 DEF Carried
  <2>3. disk["A"] = entry["A"] /\ disk["B"] = entry["B"]
    BY <1>4, <2>1, <2>2 DEF SyncInv, Pending, Side
  <2> QED BY <1>4, <2>3 DEF SyncInv, RowsEqual, Same
<1> QED BY <1>3, <1>4

LEMMA SyncHolds ==
    ASSUME Calm
    PROVE  Spec => []SyncInv
<1> USE PairAssumption, Calm
<1>1. Init => SyncInv
  BY SyncInit
<1>2. SyncInv /\ [Next]_vars => SyncInv'
  BY SyncStep
<1> QED BY <1>1, <1>2, PTL DEF Spec

(* Whatever is written on whichever side, whatever crashes and overflows it       *)
(* meets, and however often a failed event is retried or given up, at rest both   *)
(* sides hold the same version, or the conflict waits for a human under "manual"  *)
(* (README of the program: "uma alteracao em A chega a B").                       *)
THEOREM Converges ==
    ASSUME Calm
    PROVE  Spec => []Converged
<1> USE PairAssumption, Calm
<1>1. SyncInv => Converged
  BY AtRest DEF Converged, Same
<1> QED BY <1>1, SyncHolds, PTL

(* And the rows of the state db are then the stats of the two files: the next     *)
(* boot decides by a true record (recordPair of engine.go, resync.go).            *)
THEOREM BaselineHolds ==
    ASSUME Calm
    PROVE  Spec => []BaselineTrue
<1> USE PairAssumption, Calm
<1>1. SyncInv => BaselineTrue
  BY AtRest DEF BaselineTrue
<1> QED BY <1>1, SyncHolds, PTL

--------------------------------------------------------------------------------
(* "newer-wins": the version written last survives because no copy goes from an   *)
(* older version to a newer one.                                                  *)
Grown   == \A s \in Side : entry[s].c <= disk[s].c
Forward == pc = "copy" \/ (pc = "settle" /\ policy = "newer-wins") => disk[to].c <= disk[From].c
Newest  == policy = "newer-wins" => \E s \in Side : disk[s].c = clock

WinsInv == SyncInv /\ Grown /\ Forward /\ Newest

LEMMA Versions ==
    ASSUME PairAssumption, CalmInv
    PROVE  /\ \A s \in Side : disk[s].c \in Nat /\ entry[s].c \in Nat /\ disk[s].c <= clock
           /\ clock \in Nat /\ to \in Side /\ From \in Side /\ to # From
  BY Numbers, OtherSide DEF CalmInv, TypeInv, Base, File, Stamped, From, PairAssumption

LEMMA GrownStep ==
    ASSUME PairAssumption, Calm, WinsInv, Next
    PROVE  Grown'
<1>1. CalmInv /\ Grown /\ RowsEqual
  BY DEF WinsInv, SyncInv
<1>2. CASE UserStep
  <2>1. PICK s \in Side : UserWrite(s)
    BY <1>1, <1>2, UserAtRest
  <2>2. entry' = entry
    BY <2>1 DEF UserWrite, dbVars
  <2>3. /\ disk'[s].c = clock + 1
        /\ \A r \in Side : r # s => disk'[r] = disk[r]
    BY <1>1, <2>1 DEF UserWrite, CalmInv, TypeInv, Base
  <2> QED BY <1>1, <2>2, <2>3, Versions DEF Grown
<1>3. CASE Copy
  <2>1. entry' = entry
    BY <1>3 DEF Copy, dbVars
  <2>2. \A s \in Side : entry[s] = entry[From]
    BY <1>1, Versions DEF RowsEqual, Side
  <2> QED BY <1>1, <1>3, <2>1, <2>2, CopySame DEF Grown
<1>4. CASE disk' = disk /\ UNCHANGED entry
  BY <1>1, <1>4 DEF Grown
<1>5. CASE disk' = disk /\ entry' = disk
  BY <1>1, <1>5, Versions DEF Grown
<1> QED BY <1>1, <1>2, <1>3, <1>4, <1>5, CalmDisk, CalmRows DEF Record, fsVars

LEMMA ForwardStep ==
    ASSUME PairAssumption, Calm, WinsInv, Next
    PROVE  Forward'
<1>1. /\ CalmInv /\ Grown /\ RowsEqual /\ Forward /\ Base /\ Stamped /\ Scanning
      /\ policy' = policy /\ policy \in {"manual", "preserve", "newer-wins"}
  BY CalmGrows DEF WinsInv, SyncInv, CalmInv, TypeInv, Base, PairAssumption
<1>2. ASSUME pc' \notin {"copy", "settle"} PROVE Forward'
  BY <1>2 DEF Forward
<1>3. CASE UNCHANGED <<engVars, disk>>
  BY <1>1, <1>3 DEF Forward, engVars, From
<1>4. CASE UserStep
  <2>1. pc' = "idle"
    BY <1>1, <1>4, UserAtRest DEF engVars
  <2> QED BY <1>2, <2>1
<1>5. CASE UNCHANGED engVars /\ ~UserStep
  <2>1. CASE Copy
    BY <1>5, <2>1 DEF Copy, Goto, engVars
  <2>2. CASE disk' = disk
    BY <1>3, <1>5, <2>2
  <2> QED BY <1>1, <1>5, <2>1, <2>2, CalmDisk
<1>6. CASE WorkerTake \/ StartResync \/ Boot \/ Crash \/ Copy \/ CopyNothing \/ Resolve \/ Record
           \/ Attrs
  <2>1. pc' \notin {"copy", "settle"}
    BY <1>6 DEF WorkerTake, StartResync, Boot, Crash, Copy, CopyNothing, Resolve, Record, Attrs,
       FailTask, Finish, Goto
  <2> QED BY <1>2, <2>1
<1>7. ASSUME NEW s \in Side, Scan(s) PROVE Forward'
  BY <1>2, <1>7 DEF Scan
<1>8. CASE Decide
  <2>1. ev.kind \in CalmKinds
    BY <1>1, <1>8 DEF Decide, CalmInv, TypeInv, Runs, Feeds
  <2>2. pc' \notin {"copy", "settle"}
    BY <1>8, <2>1 DEF Decide, Finish, Goto, CalmKinds, Kind
  <2> QED BY <1>2, <2>2
<1>9. CASE Detect
  <2>1. disk' = disk /\ (Finish \/ Goto("conflict") \/ Goto("copy"))
    BY <1>9 DEF Detect, FailTask, fsVars
  <2>2. CASE Finish \/ Goto("conflict")
    BY <1>2, <2>2 DEF Finish, Goto
  <2>3. CASE Goto("copy")
    <3>1. ~Suspect \/ disk[From].c = disk[to].c
      BY <1>9, <2>3 DEF Detect, FailTask, Finish, Goto
    <3>2. ASSUME ~Suspect PROVE disk[to].c <= disk[From].c
      <4>1. disk[to].c = 0 \/ disk[to].c = entry[to].c
        BY <1>1, <3>2, Versions, Missing DEF Suspect, Stamped
      <4>2. entry[to] = entry[From]
        BY <1>1, Versions DEF RowsEqual, Side
      <4> QED BY <1>1, <4>1, <4>2, Versions DEF Grown
    <3>3. disk[to].c <= disk[From].c
      BY <1>1, <3>1, <3>2, Versions
    <3> QED BY <2>1, <2>3, <3>3 DEF Goto, Forward, From
  <2> QED BY <2>1, <2>2, <2>3
<1>10. CASE Conflict
  <2>1. \/ pc' \notin {"copy", "settle"}
        \/ policy = "newer-wins" /\ pc' = "settle" /\ to' = OlderSide /\ disk' = disk
    BY <1>1, <1>10 DEF Conflict, FailTask, Finish, Goto, fsVars
  <2>2. CASE to' = OlderSide /\ disk' = disk
    <3>1. to' = IF disk[to].c > disk[From].c THEN From ELSE to
      BY <1>1, <2>2, Versions DEF OlderSide, Stamped
    <3>2. Other(From) = to
      BY <1>1, Versions DEF From, Other, Side
    <3>3. disk[to'].c <= disk[Other(to')].c
      BY <1>1, <3>1, <3>2, Versions DEF From
    <3> QED BY <2>2, <3>3 DEF Forward, From
  <2> QED BY <1>2, <2>1, <2>2
<1>11. CASE Preserve
  <2>1. pc' \notin {"copy", "settle"} \/ policy = "preserve"
    BY <1>11 DEF Preserve, WinsInv, SyncInv, Asked
  <2>2. pc' # "copy"
    BY <1>11 DEF Preserve, FailTask, Finish, Goto
  <2> QED BY <1>1, <2>1, <2>2 DEF Forward
<1>12. CASE Apply
  <2>1. pc' \notin {"copy", "settle"}
    BY <1>1, <1>12, CalmApply DEF Finish, Goto, Begin
  <2> QED BY <1>2, <2>1
<1> QED BY <1>1, <1>4, <1>5, <1>6, <1>7, <1>8, <1>9, <1>10, <1>11, <1>12, EngineMoves, CalmSteps
        DEF HandlerSteps

LEMMA NewestStep ==
    ASSUME PairAssumption, Calm, WinsInv, Next
    PROVE  Newest'
<1> SUFFICES ASSUME policy = "newer-wins" PROVE \E s \in Side : disk'[s].c = clock'
  BY CalmGrows DEF Newest, WinsInv, SyncInv
<1>1. CalmInv /\ \E s \in Side : disk[s].c = clock
  BY DEF WinsInv, SyncInv, Newest
<1>2. CASE UserStep
  <2>1. PICK s \in Side : UserWrite(s)
    BY <1>1, <1>2, UserAtRest
  <2>2. disk'[s].c = clock + 1 /\ clock' = clock + 1
    BY <1>1, <2>1 DEF UserWrite, CalmInv, TypeInv, Base
  <2> QED BY <2>2
<1>3. CASE ~UserStep
  <2>1. clock' = clock
    <3>1. CASE WorkerStep
      BY <1>1, <3>1, CalmSteps DEF WorkerStep, WorkerTake, Decide, Detect, Conflict, Preserve,
         CopyNothing, Copy, Resolve, Record, Attrs, Apply, Scan, envVars
    <3>2. CASE LoopStep \/ FeedStep \/ Boot \/ Fault \/ Rest
      BY <1>1, <3>2, CalmSteps DEF LoopStep, TakeEvent, HandleFailure, StartResync, RetryDue,
         FeedStep, Pump, Release, Boot, Fault, Crash, Overflow, Expire, Rest, vars, envVars
    <3> QED BY <1>3, <3>1, <3>2 DEF Next
  <2>2. CASE Copy
    <3>1. disk[to].c <= disk[From].c
      BY <2>2 DEF Copy, WinsInv, Forward
    <3>2. disk[From].c = clock
      BY <1>1, <3>1, Versions DEF Side
    <3> QED BY <1>1, <2>1, <2>2, <3>2, CopySame
  <2>3. CASE disk' = disk
    BY <1>1, <2>1, <2>3
  <2> QED BY <1>1, <1>3, <2>2, <2>3, CalmDisk
<1> QED BY <1>2, <1>3

LEMMA WinsInit ==
    ASSUME PairAssumption, Init
    PROVE  WinsInv
<1>1. CalmInv /\ entry = disk /\ clock = disk["A"].c /\ pc = "idle"
  BY CalmInit DEF Init
<1>2. Grown
  BY <1>1, Versions DEF Grown
<1>3. Forward /\ Newest
  BY <1>1 DEF Forward, Newest, Side
<1> QED BY <1>2, <1>3, SyncInit DEF WinsInv

LEMMA WinsStep ==
    ASSUME PairAssumption, Calm, WinsInv, [Next]_vars
    PROVE  WinsInv'
<1>1. SyncInv'
  BY SyncStep DEF WinsInv
<1>2. CASE Next
  BY <1>1, <1>2, GrownStep, ForwardStep, NewestStep DEF WinsInv
<1>3. CASE UNCHANGED vars
  <2>1. UNCHANGED <<disk, entry, clock, policy, pc, to>>
    BY <1>3 DEF vars, fsVars, dbVars, envVars, engVars
  <2> QED BY <1>1, <2>1 DEF WinsInv, Grown, Forward, Newest, From
<1> QED BY <1>2, <1>3

(* Under "newer-wins" the version written last is the one both sides hold at      *)
(* rest, wherever the conflict began and however often the daemon crashed in it   *)
(* (resolveConflict of conflict.go turns the event round).                        *)
THEOREM LastWins ==
    ASSUME Calm
    PROVE  Spec => []LastWriteWins
<1> USE PairAssumption, Calm
<1>1. Init => WinsInv
  BY WinsInit
<1>2. WinsInv /\ [Next]_vars => WinsInv'
  BY WinsStep
<1>3. WinsInv => LastWriteWins
  <2> SUFFICES ASSUME WinsInv, Quiet, policy = "newer-wins"
               PROVE  \A s \in Side : disk[s].c = clock
    BY DEF LastWriteWins
  <2>1. Same
    BY AtRest DEF WinsInv
  <2>2. \E s \in Side : disk[s].c = clock
    BY DEF WinsInv, Newest
  <2> QED BY <2>1, <2>2 DEF Same, Side
<1> QED BY <1>1, <1>2, <1>3, PTL DEF Spec
================================================================================
