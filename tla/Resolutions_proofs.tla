--------------------------- MODULE Resolutions_proofs ---------------------------
(* Proofs about Resolutions, for any number of commands, of versions and of      *)
(* faults, with or without commands beside the daemon and each other.            *)
EXTENDS Resolutions, FiniteSetTheorems, TLAPS

LEMMA SideCount ==
    ASSUME NEW S \in SUBSET Side
    PROVE  IsFiniteSet(S) /\ Cardinality(S) \in Nat
<1>1. IsFiniteSet({"A"})
  BY FS_Singleton
<1>2. IsFiniteSet({"A"} \cup {"B"})
  BY <1>1, FS_AddElement
<1>3. Side = {"A"} \cup {"B"}
  BY DEF Side
<1>4. IsFiniteSet(S)
  BY <1>2, <1>3, FS_Subset
<1> QED BY <1>4, FS_CardinalityType

LEMMA Sides == \A p \in Proc : Winner(p) \in Side /\ Loser(p) \in Side /\ Loser(p) # Winner(p)
BY DEF Winner, Loser, Other, Side

LEMMA InitTypes == ResolutionsAssumption /\ Init => TypeOK
<1> SUFFICES ASSUME ResolutionsAssumption, Init PROVE TypeOK
  OBVIOUS
<1>1. PICK st \in Starts : disk = st.disk /\ overlap = st.overlap
  BY DEF Init
<1>2. st.disk \in [Side -> 0..MaxClock] /\ Cardinality({s \in Side : st.disk[s] # 0}) <= MaxClock
  BY DEF ResolutionsAssumption
<1>3. Cardinality({s \in Side : disk[s] # 0}) \in Nat
  BY SideCount
<1>4. clock \in 0..MaxClock /\ disk \in [Side -> Contents]
  BY <1>1, <1>2, <1>3 DEF Init, Contents, ResolutionsAssumption
<1>5. 0 \in Contents /\ 0 \in 0..MaxFaults
  BY DEF Contents, ResolutionsAssumption
<1> QED BY <1>4, <1>5 DEF Init, TypeOK, NoFile

\* The steps of whoever applies a resolution.
LEMMA ApplyTypes ==
    ASSUME ResolutionsAssumption, TypeOK, NEW p \in Proc, ApplyResolution(p) \/ CopyFails(p)
    PROVE  TypeOK'
<1> USE Sides
<1>1. CASE StatBoth(p)
  BY <1>1 DEF StatBoth, Step, Fail, TypeOK, dbVars, cntVars
<1>2. CASE PreserveLoser(p)
  <2>1. KeptVersion(p) \subseteq Kept /\ disk[Loser(p)] \in Contents
    BY DEF KeptVersion, Kept, TypeOK
  <2> QED BY <1>2, <2>1 DEF PreserveLoser, Step, TypeOK, dbVars, cntVars
<1>3. CASE CopyWinner(p)
  BY <1>3 DEF CopyWinner, Step, TypeOK, dbVars, cntVars
<1>4. CASE RecordPair(p)
  BY <1>4 DEF RecordPair, Step, TypeOK, dmnVars, cntVars
<1>5. CASE ResolveConflict(p)
  BY <1>5 DEF ResolveConflict, ConflictAfter, Step, TypeOK, dmnVars, cntVars
<1>6. CASE CopyFails(p)
  <2>1. faults' \in 0..MaxFaults /\ MaxClock + faults' \in Contents /\ 0 \in Contents
    BY <1>6 DEF CopyFails, TypeOK, Contents, ResolutionsAssumption
  <2> QED BY <1>6, <2>1 DEF CopyFails, Fail, Step, TypeOK, dbVars
<1> QED BY <1>1, <1>2, <1>3, <1>4, <1>5, <1>6 DEF ApplyResolution

LEMMA PropagateTypes ==
    ASSUME TypeOK, NEW s \in Side, Propagate(s)
    PROVE  /\ disk' \in [Side -> Contents] /\ entry' \in [Side -> Contents]
           /\ open' \in BOOLEAN
<1>1. disk[s] \in Contents
  BY DEF TypeOK
<1>2. \/ open' = TRUE /\ UNCHANGED <<disk, entry>>
      \/ disk' = [x \in Side |-> disk[s]] /\ entry' = disk' /\ UNCHANGED open
  BY DEF Propagate
<1>3. [x \in Side |-> disk[s]] \in [Side -> Contents]
  BY <1>1
<1> QED BY <1>2, <1>3 DEF TypeOK

\* The steps of the daemon's loop and of its reconciliation.
LEMMA DaemonTypes ==
    ASSUME ResolutionsAssumption, TypeOK,
           \/ Heartbeat \/ MarkApplied \/ ProcessKept \/ Boot \/ Scan \/ Reconcile \/ Crash
           \/ \E s \in Side : Process(s) \/ CoverExpires(s)
    PROVE  TypeOK'
<1>1. CASE Heartbeat
  BY <1>1 DEF Heartbeat, Step, TypeOK, dmnVars, cntVars, Proc
<1>2. CASE MarkApplied
  BY <1>2 DEF MarkApplied, Closing, Step, TypeOK, dmnVars, cntVars
<1>3. CASE ProcessKept
  BY <1>3 DEF ProcessKept, TypeOK, dbVars, runVars, cntVars
<1>4. CASE Boot \/ Scan
  BY <1>4 DEF Boot, Scan, TypeOK, dbVars, runVars, cntVars
<1>5. CASE Reconcile
  <2>1. disk' \in [Side -> Contents] /\ entry' \in [Side -> Contents] /\ open' \in BOOLEAN
    <3> DEFINE present == {s \in Side : inv[s] # 0}
               from == IF Cardinality(present) = 1 THEN present ELSE OriginOf
    <3>1. from \subseteq Side
      BY DEF OriginOf
    <3>2. \/ UNCHANGED <<disk, entry, open>>
          \/ \E s \in from : Propagate(s)
          \/ entry' = disk /\ UNCHANGED <<disk, open>>
          \/ open' = TRUE /\ UNCHANGED <<disk, entry>>
      BY <1>5 DEF Reconcile
    <3> HIDE DEF from
    <3> QED BY <3>1, <3>2, PropagateTypes DEF TypeOK
  <2>2. spread' \subseteq Contents /\ NoFile \in [Side -> Contents]
    BY <1>5 DEF Reconcile, TypeOK, Kept, NoFile, Contents, ResolutionsAssumption
  <2> QED BY <1>5, <2>1, <2>2 DEF Reconcile, TypeOK, runVars, cntVars
<1>6. CASE Crash
  <2>1. faults' \in 0..MaxFaults /\ NoFile \in [Side -> Contents]
    BY <1>6 DEF Crash, TypeOK, NoFile, Contents, ResolutionsAssumption
  <2> QED BY <1>6, <2>1 DEF Crash, Step, TypeOK, dbVars
<1>7. ASSUME NEW s \in Side, Process(s) PROVE TypeOK'
  <2>1. disk' \in [Side -> Contents] /\ entry' \in [Side -> Contents] /\ open' \in BOOLEAN
    BY <1>7, PropagateTypes DEF Process, TypeOK
  <2> QED BY <1>7, <2>1 DEF Process, TypeOK, runVars, cntVars
<1>8. ASSUME NEW s \in Side, CoverExpires(s) PROVE TypeOK'
  BY <1>8 DEF CoverExpires, TypeOK, dbVars, runVars, cntVars
<1> QED BY <1>1, <1>2, <1>3, <1>4, <1>5, <1>6, <1>7, <1>8

\* The steps of users, of the command before it applies anything, and of the clock.
LEMMA OtherTypes ==
    ASSUME ResolutionsAssumption, TypeOK,
           \/ UserStep \/ BeatExpires \/ Rest
           \/ \E c \in Clis : CliStart(c) \/ CliRequest(c) \/ CliKilled(c)
    PROVE  TypeOK'
<1>1. ASSUME NEW s \in Side, UserWrite(s) PROVE TypeOK'
  <2>1. clock' \in 0..MaxClock /\ clock + 1 \in Contents /\ 0 \in Contents
    BY <1>1 DEF UserWrite, TypeOK, Contents, ResolutionsAssumption
  <2> QED BY <1>1, <2>1 DEF UserWrite, TypeOK, dbVars, runVars
<1>2. ASSUME NEW c \in Clis, CliStart(c) PROVE TypeOK'
  BY <1>2 DEF CliStart, Step, TypeOK, dbVars, dmnVars, cntVars, Proc
<1>3. ASSUME NEW c \in Clis, CliRequest(c) PROVE TypeOK'
  BY <1>3 DEF CliRequest, Step, TypeOK, dmnVars, cntVars, Proc
<1>4. ASSUME NEW c \in Clis, CliKilled(c) PROVE TypeOK'
  <2>1. faults' \in 0..MaxFaults
    BY <1>4 DEF CliKilled, TypeOK, ResolutionsAssumption
  <2> QED BY <1>4, <2>1 DEF CliKilled, Step, TypeOK, dbVars, dmnVars
<1>5. CASE BeatExpires
  BY <1>5 DEF BeatExpires, TypeOK, dmnVars, runVars, cntVars
<1>6. CASE Rest
  BY <1>6 DEF Rest, vars, moves, TypeOK, dbVars, dmnVars, runVars, cntVars
<1> QED BY <1>1, <1>2, <1>3, <1>4, <1>5, <1>6 DEF UserStep

LEMMA TypeStep == ResolutionsAssumption /\ TypeOK /\ [Next]_vars => TypeOK'
<1> SUFFICES ASSUME ResolutionsAssumption, TypeOK, [Next]_vars PROVE TypeOK'
  OBVIOUS
<1>1. CASE UNCHANGED vars
  BY <1>1 DEF vars, moves, TypeOK, dbVars, dmnVars, runVars, cntVars
<1> QED BY <1>1, ApplyTypes, DaemonTypes, OtherTypes DEF Next, Acts

\* The files, the database and the processes keep their types, whatever runs
\* beside what and wherever it is interrupted.
THEOREM TypeCorrect == Spec => []TypeOK
<1> USE ResolutionsAssumption
<1>1. Init => TypeOK
  BY InitTypes
<1>2. TypeOK /\ [Next]_vars => TypeOK'
  BY TypeStep
<1> QED BY <1>1, <1>2, PTL DEF Spec

--------------------------------------------------------------------------------
(* What may be overwritten without loss: nothing, a torn file, a kept version.   *)
Spare == {k.c : k \in kept} \cup (Contents \ UserVersions)

Copying == {p \in Proc : pc[p] = "copy"}

(* Whoever is about to overwrite a side has kept what is there, or somebody has  *)
(* meanwhile made the two sides equal.  Two who are about to overwrite different *)
(* sides have kept both: otherwise the first, failing half-way, would destroy    *)
(* one copy of a version and the second the other.                               *)
LoserSpare == \A p \in Copying : disk[Loser(p)] \in Spare \/ disk[Loser(p)] = disk[Winner(p)]
BothSpare  == \A p, q \in Copying : Loser(p) # Loser(q) => \A s \in Side : disk[s] \in Spare

Covered == LoserSpare /\ BothSpare

LEMMA SpareGrows ==
    ASSUME kept \subseteq kept'
    PROVE  Spare \subseteq Spare'
BY DEF Spare

\* Whoever starts to copy finds a loser that is spare.
LEMMA Arrives ==
    ASSUME TypeOK, Covered, NEW p \in Proc, disk[Loser(p)] \in Spare', kept \subseteq kept',
           disk' = disk, want' = want, pc' = [pc EXCEPT ![p] = "copy"]
    PROVE  Covered'
<1>1. Spare \subseteq Spare'
  BY SpareGrows
<1>2. Copying' \subseteq Copying \cup {p}
  BY DEF Copying, TypeOK
<1>3. \A q \in Proc : Loser(q)' = Loser(q) /\ Winner(q)' = Winner(q)
  BY DEF Loser, Winner
<1>4. \A q \in Copying : disk[Loser(q)] \in Spare' \/ disk[Loser(q)] = disk[Winner(q)]
  BY <1>1 DEF Covered, LoserSpare
<1>5. LoserSpare'
  BY <1>2, <1>3, <1>4 DEF LoserSpare, Copying
<1>6. ASSUME NEW q \in Copying, Loser(q) # Loser(p) PROVE \A s \in Side : disk[s] \in Spare'
  <2>1. Winner(q) = Loser(p) /\ Side = {Loser(p), Loser(q)}
    BY <1>6 DEF Winner, Loser, Other, Side
  <2> QED BY <1>4, <2>1
<1>7. \A q, r \in Copying : Loser(q) # Loser(r) => \A s \in Side : disk[s] \in Spare'
  BY <1>1 DEF Covered, BothSpare
<1>8. BothSpare'
  BY <1>2, <1>3, <1>6, <1>7 DEF BothSpare, Copying
<1> QED BY <1>5, <1>8 DEF Covered

\* Nobody starts to copy and the disk stays: nothing that is covered is uncovered.
LEMMA StaysCovered ==
    ASSUME Covered, Copying' \subseteq Copying, disk' = disk, kept \subseteq kept',
           \A p \in Copying : want'[p] = want[p]
    PROVE  Covered'
<1>1. Spare \subseteq Spare'
  BY SpareGrows
<1>2. \A q \in Copying : Loser(q)' = Loser(q) /\ Winner(q)' = Winner(q)
  BY DEF Loser, Winner
<1> QED BY <1>1, <1>2 DEF Covered, LoserSpare, BothSpare

\* One side becomes a copy of the other: what is lost was spare or is equal.
LEMMA StaysCoveredEqual ==
    ASSUME TypeOK, Covered, Copying' \subseteq Copying, kept' = kept, want' = want,
           NEW s \in Side, disk' \in [Side -> Contents], \A x \in Side : disk'[x] = disk[s]
    PROVE  Covered'
<1>1. Spare' = Spare
  BY DEF Spare
<1>2. \A q \in Proc : Loser(q)' = Loser(q) /\ Winner(q)' = Winner(q)
  BY DEF Loser, Winner
<1>3. LoserSpare'
  BY <1>2, Sides DEF LoserSpare, Copying
<1>4. BothSpare'
  BY <1>1, <1>2 DEF Covered, BothSpare, Copying
<1> QED BY <1>3, <1>4 DEF Covered

\* A copy fails: its destination is torn.
LEMMA StaysCoveredTorn ==
    ASSUME TypeOK, Covered, Copying' \subseteq Copying, kept' = kept, want' = want,
           NEW p \in Copying, NEW torn \in Contents \ UserVersions,
           disk' = [disk EXCEPT ![Loser(p)] = torn]
    PROVE  Covered'
<1>1. Spare' = Spare /\ torn \in Spare
  BY DEF Spare
<1>2. \A q \in Proc : Loser(q)' = Loser(q) /\ Winner(q)' = Winner(q)
  BY DEF Loser, Winner
<1>3. p \in Proc /\ Loser(p) \in Side /\ disk'[Loser(p)] = torn
      /\ \A x \in Side : x # Loser(p) => disk'[x] = disk[x]
  BY Sides DEF Copying, TypeOK
<1>4. ASSUME NEW q \in Copying PROVE disk'[Loser(q)] \in Spare
  <2>1. q \in Proc /\ Loser(q) \in Side
    BY Sides DEF Copying
  <2>2. CASE Loser(q) = Loser(p)
    BY <1>1, <1>3, <2>2
  <2>3. CASE Loser(q) # Loser(p)
    <3>1. disk[Loser(q)] \in Spare
      BY <2>1, <2>3 DEF Covered, BothSpare
    <3> QED BY <1>3, <2>1, <2>3, <3>1
  <2> QED BY <2>2, <2>3
<1>5. ASSUME NEW q \in Copying, NEW r \in Copying, Loser(q) # Loser(r), NEW x \in Side
      PROVE  disk'[x] \in Spare
  BY <1>1, <1>3, <1>5 DEF Covered, BothSpare
<1> QED BY <1>1, <1>2, <1>4, <1>5 DEF Covered, LoserSpare, BothSpare, Copying

LEMMA NothingSpare == ResolutionsAssumption => 0 \in Spare
BY DEF ResolutionsAssumption, Spare, Contents, UserVersions

LEMMA TornFile ==
    ASSUME ResolutionsAssumption, TypeOK, faults < MaxFaults, faults' = faults + 1
    PROVE  MaxClock + faults' \in Contents \ UserVersions
BY DEF ResolutionsAssumption, TypeOK, Contents, UserVersions

LEMMA ApplyCovered ==
    ASSUME ResolutionsAssumption, TypeOK, Covered, NEW p \in Proc,
           ApplyResolution(p) \/ CopyFails(p)
    PROVE  Covered'
<1>1. CASE StatBoth(p)
  <2>1. disk' = disk /\ kept' = kept /\ want' = want
    BY <1>1 DEF StatBoth
  <2>2. CASE pc' = [pc EXCEPT ![p] = "copy"]
    <3>1. disk[Loser(p)] = 0
      BY <1>1, <2>2 DEF StatBoth, Step, Fail, TypeOK
    <3>2. disk[Loser(p)] \in Spare'
      BY <2>1, <3>1, NothingSpare DEF Spare
    <3> QED BY <2>1, <2>2, <3>2, Arrives
  <2>3. CASE \E label \in {"preserve", "failed", "done"} : pc' = [pc EXCEPT ![p] = label]
    <3>1. Copying' \subseteq Copying
      BY <2>3 DEF Copying, TypeOK
    <3> QED BY <2>1, <3>1, StaysCovered
  <2> QED BY <1>1, <2>2, <2>3 DEF StatBoth, Step, Fail
<1>2. CASE PreserveLoser(p)
  <2>1. /\ disk' = disk /\ kept' = kept \cup KeptVersion(p) /\ want' = want
        /\ pc' = [pc EXCEPT ![p] = "copy"]
    BY <1>2 DEF PreserveLoser, Step
  <2>2. disk[Loser(p)] \in Spare'
    <3> DEFINE k == [side |-> Loser(p), c |-> disk[Loser(p)], sync |-> want[p] = "both"]
    <3>1. k \in kept' /\ k.c = disk[Loser(p)]
      BY <2>1 DEF KeptVersion
    <3> HIDE DEF k
    <3> QED BY <3>1 DEF Spare
  <2> QED BY <2>1, <2>2, Arrives
<1>3. CASE CopyWinner(p)
  <2>1. /\ disk' = [disk EXCEPT ![Loser(p)] = disk[Winner(p)]]
        /\ kept' = kept /\ want' = want /\ pc' = [pc EXCEPT ![p] = "record"]
    BY <1>3 DEF CopyWinner, Step
  <2>2. Copying' \subseteq Copying
    BY <2>1 DEF Copying, TypeOK
  <2>3. Side = {Winner(p), Loser(p)} /\ Winner(p) \in Side
    BY DEF Winner, Loser, Other, Side
  <2>4. disk' \in [Side -> Contents] /\ \A x \in Side : disk'[x] = disk[Winner(p)]
    BY <2>1, <2>3 DEF TypeOK
  <2> QED BY <2>1, <2>2, <2>3, <2>4, StaysCoveredEqual
<1>4. CASE RecordPair(p) \/ ResolveConflict(p)
  <2>1. disk' = disk /\ kept' = kept /\ want' = want
    BY <1>4 DEF RecordPair, ResolveConflict, dmnVars
  <2>2. Copying' \subseteq Copying
    BY <1>4 DEF RecordPair, ResolveConflict, Step, Copying, TypeOK
  <2> QED BY <2>1, <2>2, StaysCovered
<1>5. CASE CopyFails(p)
  <2>1. kept' = kept /\ want' = want /\ faults < MaxFaults /\ faults' = faults + 1
    BY <1>5 DEF CopyFails
  <2>2. Copying' \subseteq Copying
    BY <1>5 DEF CopyFails, Fail, Step, Copying, TypeOK
  <2>3. CASE pc[p] = "preserve"
    BY <1>5, <2>1, <2>2, <2>3, StaysCovered DEF CopyFails
  <2>4. CASE pc[p] = "copy"
    <3>1. disk' = [disk EXCEPT ![Loser(p)] = MaxClock + faults']
      BY <1>5, <2>4 DEF CopyFails
    <3>2. p \in Copying
      BY <2>4 DEF Copying
    <3> QED BY <2>1, <2>2, <3>1, <3>2, TornFile, StaysCoveredTorn
  <2> QED BY <1>5, <2>3, <2>4 DEF CopyFails
<1> QED BY <1>1, <1>2, <1>3, <1>4, <1>5 DEF ApplyResolution

\* What a handler or the reconciliation of the daemon does to the two files.
LEMMA PropagateEffect ==
    ASSUME TypeOK, NEW s \in Side, Propagate(s)
    PROVE  \/ disk' = disk
           \/ /\ disk' \in [Side -> Contents] /\ \A x \in Side : disk'[x] = disk[s]
              /\ disk[Other(s)] \in {0, entry[Other(s)], disk[s]}
<1>1. CASE disk' = disk
  BY <1>1
<1>2. CASE disk' # disk
  <2>1. /\ disk' = [x \in Side |-> disk[s]]
        /\ disk[Other(s)] \in {0, entry[Other(s)], disk[s]}
    BY <1>2 DEF Propagate
  <2>2. disk[s] \in Contents
    BY DEF TypeOK
  <2> QED BY <2>1, <2>2
<1> QED BY <1>1, <1>2

LEMMA DaemonWrites ==
    ASSUME Reconcile \/ \E s \in Side : Process(s)
    PROVE  disk' = disk \/ \E s \in Side : Propagate(s)
<1>1. ASSUME NEW s \in Side, Process(s) PROVE disk' = disk \/ Propagate(s)
  BY <1>1 DEF Process
<1>2. CASE Reconcile
  <2> DEFINE present == {s \in Side : inv[s] # 0}
             from == IF Cardinality(present) = 1 THEN present ELSE OriginOf
  <2>1. from \subseteq Side
    BY DEF OriginOf
  <2>2. disk' = disk \/ \E s \in from : Propagate(s)
    BY <1>2 DEF Reconcile
  <2> HIDE DEF from
  <2> QED BY <2>1, <2>2
<1> QED BY <1>1, <1>2

LEMMA CoveredStep ==
    ResolutionsAssumption /\ UsersWait /\ TypeOK /\ Covered /\ [Next]_vars => Covered'
<1> SUFFICES ASSUME ResolutionsAssumption, UsersWait, TypeOK, Covered, [Next]_vars PROVE Covered'
  OBVIOUS
<1>1. CASE UserStep
  <2>1. Copying' = {}
    BY <1>1 DEF UserStep, UserWrite, Applying, Copying, runVars
  <2> QED BY <2>1 DEF Covered, LoserSpare, BothSpare
<1>2. ASSUME NEW p \in Proc, ApplyResolution(p) \/ CopyFails(p) PROVE Covered'
  BY <1>2, ApplyCovered
<1>3. CASE Reconcile \/ \E s \in Side : Process(s)
  <2>1. kept' = kept /\ want' = want /\ pc' = pc
    BY <1>3 DEF Reconcile, Process, runVars
  <2>2. Copying' \subseteq Copying
    BY <2>1 DEF Copying
  <2>3. CASE disk' = disk
    BY <2>1, <2>2, <2>3, StaysCovered
  <2>4. ASSUME NEW s \in Side, Propagate(s) PROVE Covered'
    BY <2>1, <2>2, <2>3, <2>4, PropagateEffect, StaysCoveredEqual
  <2> QED BY <1>3, <2>3, <2>4, DaemonWrites
<1>4. ASSUME \/ Heartbeat \/ MarkApplied \/ ProcessKept \/ Boot \/ Scan \/ Crash
             \/ BeatExpires \/ Rest \/ UNCHANGED vars
             \/ \E s \in Side : CoverExpires(s)
             \/ \E c \in Clis : CliStart(c) \/ CliRequest(c) \/ CliKilled(c)
      PROVE  Covered'
  <2>1. disk' = disk /\ kept' = kept
    BY <1>4 DEF Heartbeat, MarkApplied, ProcessKept, Boot, Scan, Crash, BeatExpires, Rest, vars,
       moves, CoverExpires, CliStart, CliRequest, CliKilled
  <2>2. Copying' \subseteq Copying /\ \A p \in Copying : want'[p] = want[p]
    BY <1>4 DEF Heartbeat, Idle, MarkApplied, ProcessKept, Boot, Scan, Crash, BeatExpires, Rest,
       vars, moves, CoverExpires, CliStart, CliRequest, CliKilled, runVars, Step, Copying, TypeOK
  <2> QED BY <2>1, <2>2, StaysCovered
<1> QED BY <1>1, <1>2, <1>3, <1>4 DEF Next, Acts

Lost(s) == disk[s] \in UserVersions /\ disk'[s] # disk[s]
Somewhere(s) == \/ \E x \in Side : disk'[x] = disk[s] \/ entry[x] = disk[s]
                \/ \E k \in kept' : k.c = disk[s]

LEMMA NoLossStep ==
    ASSUME ResolutionsAssumption, TypeOK, Covered, [Next]_vars, ~UserStep,
           NEW s \in Side, Lost(s)
    PROVE  Somewhere(s)
<1>1. ASSUME NEW p \in Proc, CopyWinner(p) \/ CopyFails(p) PROVE Somewhere(s)
  <2>1. pc[p] = "copy" /\ kept' = kept
        /\ \E c \in Contents : disk' = [disk EXCEPT ![Loser(p)] = c]
    <3>1. CASE CopyWinner(p)
      <4>1. disk[Winner(p)] \in Contents
        BY Sides DEF TypeOK
      <4> QED BY <3>1, <4>1 DEF CopyWinner
    <3>2. CASE CopyFails(p)
      <4>1. MaxClock + faults' \in Contents
        BY <3>2, TornFile DEF CopyFails
      <4> QED BY <3>2, <4>1 DEF CopyFails, Lost
    <3> QED BY <1>1, <3>1, <3>2
  <2>2. s = Loser(p) /\ Winner(p) \in Side /\ disk'[Winner(p)] = disk[Winner(p)]
    BY <2>1, Sides DEF Lost, TypeOK
  <2>3. disk[s] \in Spare \/ disk[s] = disk'[Winner(p)]
    BY <2>1, <2>2 DEF Covered, LoserSpare, Copying
  <2> QED BY <2>1, <2>2, <2>3 DEF Somewhere, Spare, Lost
<1>2. ASSUME NEW x \in Side, Propagate(x) PROVE Somewhere(s)
  <2>1. /\ \A y \in Side : disk'[y] = disk[x]
        /\ disk[Other(x)] \in {0, entry[Other(x)], disk[x]}
    BY <1>2, PropagateEffect DEF Lost
  <2>2. s = Other(x)
    BY <2>1 DEF Lost, Side, Other
  <2>3. 0 \notin UserVersions
    BY DEF UserVersions, ResolutionsAssumption
  <2> QED BY <2>1, <2>2, <2>3 DEF Somewhere, Lost
<1>3. CASE Reconcile \/ \E x \in Side : Process(x)
  BY <1>2, <1>3, DaemonWrites DEF Lost
<1>4. ASSUME \/ Heartbeat \/ MarkApplied \/ ProcessKept \/ Boot \/ Scan \/ Crash
             \/ BeatExpires \/ Rest \/ UNCHANGED vars
             \/ \E x \in Side : CoverExpires(x)
             \/ \E c \in Clis : CliStart(c) \/ CliRequest(c) \/ CliKilled(c)
             \/ \E p \in Proc : StatBoth(p) \/ PreserveLoser(p) \/ RecordPair(p)
                                \/ ResolveConflict(p)
      PROVE  disk' = disk
  BY <1>4 DEF Heartbeat, MarkApplied, ProcessKept, Boot, Scan, Crash, BeatExpires, Rest, vars,
     moves, CoverExpires, CliStart, CliRequest, CliKilled, StatBoth, PreserveLoser, RecordPair,
     ResolveConflict
<1> QED BY <1>1, <1>3, <1>4 DEF Next, Acts, ApplyResolution, Lost

\* However many commands and the daemon apply resolutions at once, and wherever
\* each is killed or fails, while users leave a file that is being resolved alone: a
\* user's version that leaves a side is on the other
\* side, kept under another name, or was the baseline.  preserveLoser before the
\* copy is enough, with no lock between the processes.
THEOREM LosesNothing ==
    ASSUME UsersWait
    PROVE  Spec => NothingLost
<1> USE ResolutionsAssumption, UsersWait
<1>1. Init => Covered
  BY DEF Init, Covered, LoserSpare, BothSpare, Copying
<1>2. TypeOK /\ Covered /\ [Next]_vars => Covered'
  BY CoveredStep
<1>3. TypeOK /\ Covered /\ [Next]_vars
        => [~UserStep => \A s \in Side :
              disk[s] \in UserVersions /\ disk'[s] # disk[s]
                  => \/ \E x \in Side : disk'[x] = disk[s] \/ entry[x] = disk[s]
                     \/ \E k \in kept' : k.c = disk[s]]_vars
  BY NoLossStep DEF Lost, Somewhere
<1> QED BY <1>1, <1>2, <1>3, TypeCorrect, PTL DEF Spec, NothingLost
-------------------------------------------------------------------------------
(* A resolution stands.  Unless commands run beside the daemon or each other,    *)
(* one process applies at a time: a command only while the service is down, the  *)
(* daemon only from its loop, whose heartbeat keeps the commands out.            *)
Alone ==
    /\ \A p, q \in Proc : Applying(p) /\ Applying(q) => p = q
    /\ \A c \in Clis : Applying(c) => mode = "down"
    /\ pc[Daemon] # "idle" => mode = "loop"
    /\ mode = "loop" => beat

\* Between the copy and the end of a resolution nobody moves the two sides apart.
Stages ==
    \A p \in Proc :
        /\ pc[p] \in {"record", "resolve"} => disk["A"] = disk["B"]
        /\ pc[p] = "resolve" => entry = disk

\* What a resolution has put on both sides is the baseline, and the inventory
\* that a later reconciliation works from has it too.
Settled ==
    /\ \A s \in Side : disk[s] = outcome /\ entry[s] = outcome
    /\ mode = "apply" => inv = disk
    /\ ~open

Standing == ~overlap => Alone /\ Stages /\ (outcome # 0 => Settled)


\* The steps of whoever applies a resolution, and those of everyone else: they
\* leave the two sides and their baseline alone, or are a user's or the daemon's
\* in its loop or at its start.
ApplyStep(p) == ApplyResolution(p) \/ CopyFails(p)
OtherStep ==
    \/ UNCHANGED vars \/ Rest \/ BeatExpires \/ Heartbeat \/ MarkApplied \/ ProcessKept
    \/ Boot \/ Scan \/ Crash
    \/ \E s \in Side : CoverExpires(s)
    \/ \E c \in Clis : CliStart(c) \/ CliRequest(c) \/ CliKilled(c)

LEMMA Steps ==
    ASSUME [Next]_vars
    PROVE  \/ \E p \in Proc : ApplyStep(p)
           \/ \E s \in Side : UserWrite(s) \/ Process(s)
           \/ Reconcile \/ OtherStep
BY DEF Next, Acts, UserStep, ApplyStep, OtherStep

\* Who applies goes on applying or stops; nobody else moves.
LEMMA ApplyMoves ==
    ASSUME TypeOK, NEW p \in Proc, ApplyStep(p)
    PROVE  /\ Applying(p) /\ mode' = mode /\ beat' = beat /\ want' = want
           /\ \A q \in Proc : q # p => pc'[q] = pc[q]
<1>1. PICK label : pc' = [pc EXCEPT ![p] = label]
  BY DEF ApplyStep, ApplyResolution, StatBoth, PreserveLoser, CopyWinner, RecordPair,
     ResolveConflict, CopyFails, Step, Fail
<1>2. \A q \in Proc : q # p => pc'[q] = pc[q]
  BY <1>1 DEF TypeOK
<1>3. Applying(p)
  BY DEF ApplyStep, ApplyResolution, StatBoth, PreserveLoser, CopyWinner, RecordPair,
     ResolveConflict, CopyFails, Applying
<1>4. mode' = mode /\ beat' = beat /\ want' = want
  BY DEF ApplyStep, ApplyResolution, StatBoth, PreserveLoser, CopyWinner, RecordPair,
     ResolveConflict, CopyFails, dbVars, dmnVars
<1> QED BY <1>2, <1>3, <1>4

LEMMA AloneApply ==
    ASSUME TypeOK, Alone, NEW p \in Proc, ApplyStep(p)
    PROVE  Alone'
<1>1. /\ Applying(p) /\ mode' = mode /\ beat' = beat
      /\ \A q \in Proc : q # p => pc'[q] = pc[q]
  BY ApplyMoves
<1>2. \A q \in Proc : Applying(q)' => Applying(q)
  BY <1>1 DEF Applying
<1>3. pc'[Daemon] # "idle" => pc[Daemon] # "idle"
  BY <1>1 DEF Applying, Proc
<1> QED BY <1>1, <1>2, <1>3 DEF Alone, Proc

LEMMA AloneWrites ==
    ASSUME Alone, Reconcile \/ \E s \in Side : UserWrite(s) \/ Process(s)
    PROVE  Alone'
<1>1. pc' = pc
  BY DEF Reconcile, UserWrite, Process, runVars
<1>2. CASE Reconcile
  BY <1>1, <1>2 DEF Reconcile, Alone, Applying, Proc
<1>3. CASE \E s \in Side : UserWrite(s) \/ Process(s)
  <2>1. mode' = mode /\ beat' = beat
    BY <1>3 DEF UserWrite, Process, dbVars
  <2> QED BY <1>1, <2>1 DEF Alone, Applying
<1> QED BY <1>2, <1>3

LEMMA AloneOther ==
    ASSUME ResolutionsAssumption, TypeOK, ~overlap, Alone, OtherStep
    PROVE  Alone'
<1>1. Daemon \in Proc /\ \A c \in Clis : c \in Proc /\ c # Daemon
  BY DEF Proc, ResolutionsAssumption
<1>2. CASE Heartbeat
  <2>1. mode = "loop" /\ mode' = mode /\ beat' = TRUE /\ pc[Daemon] = "idle"
        /\ \A q \in Clis : pc'[q] = pc[q]
    BY <1>1, <1>2 DEF Heartbeat, Idle, Step, dmnVars, TypeOK
  <2>2. \A q \in Clis : ~Applying(q)
    BY <2>1 DEF Alone
  <2>3. \A q \in Clis : ~Applying(q)'
    BY <2>1, <2>2 DEF Applying
  <2> QED BY <2>1, <2>3 DEF Alone, Proc
<1>3. CASE MarkApplied
  <2>1. mode' = mode /\ beat' = beat /\ pc'[Daemon] = "idle" /\ pc[Daemon] # "idle"
        /\ \A q \in Clis : pc'[q] = pc[q]
    BY <1>1, <1>3 DEF MarkApplied, Step, dmnVars, TypeOK
  <2>2. \A q \in Proc : Applying(q)' => Applying(q)
    BY <1>1, <2>1 DEF Applying, Proc
  <2> QED BY <1>1, <2>1, <2>2 DEF Alone
<1>4. CASE Crash
  <2>1. mode' = "down" /\ beat' = beat /\ pc'[Daemon] = "idle"
        /\ \A q \in Clis : pc'[q] = pc[q]
    BY <1>1, <1>4 DEF Crash, Step, dbVars, TypeOK
  <2>2. \A q \in Proc : Applying(q)' => Applying(q)
    BY <1>1, <2>1 DEF Applying, Proc
  <2> QED BY <2>1, <2>2 DEF Alone
<1>5. CASE Boot
  <2>1. mode' = "scan" /\ pc' = pc /\ \A c \in Clis : ~Applying(c)
    BY <1>5 DEF Boot, runVars
  <2>2. mode = "down"
    BY <1>5 DEF Boot
  <2> QED BY <2>1, <2>2 DEF Alone, Applying
<1>6. CASE Scan
  <2>1. mode = "scan" /\ mode' = "apply" /\ pc' = pc
    BY <1>6 DEF Scan, runVars
  <2> QED BY <2>1 DEF Alone, Applying
<1>7. CASE BeatExpires
  <2>1. mode = "down" /\ mode' = mode /\ pc' = pc
    BY <1>7 DEF BeatExpires, runVars, dmnVars
  <2> QED BY <2>1 DEF Alone, Applying
<1>8. CASE UNCHANGED vars \/ Rest \/ ProcessKept \/ \E s \in Side : CoverExpires(s)
  <2>1. mode' = mode /\ beat' = beat /\ pc' = pc
    BY <1>8 DEF Rest, vars, moves, ProcessKept, CoverExpires, dbVars, dmnVars, runVars
  <2> QED BY <2>1 DEF Alone, Applying
<1>9. ASSUME NEW c \in Clis, CliStart(c) PROVE Alone'
  <2>1. /\ mode' = mode /\ beat' = beat
        /\ beat \/ (mode = "down" /\ \A p \in Clis : ~Applying(p))
        /\ pc' = [pc EXCEPT ![c] = IF beat THEN "request" ELSE "stat"]
    BY <1>9 DEF CliStart, Step, dmnVars, dbVars
  <2>2. \A q \in Proc : q # c => pc'[q] = pc[q]
    BY <1>1, <2>1 DEF TypeOK
  <2>3. pc'[c] = IF beat THEN "request" ELSE "stat"
    BY <1>1, <2>1 DEF TypeOK
  <2>4. CASE beat
    <3>1. \A q \in Proc : Applying(q)' => Applying(q)
      BY <2>2, <2>3, <2>4 DEF Applying
    <3> QED BY <1>1, <2>1, <2>2, <3>1 DEF Alone
  <2>5. CASE ~beat
    <3>1. mode = "down" /\ \A q \in Proc : ~Applying(q)
      BY <1>1, <2>1, <2>5 DEF Alone, Proc, Applying
    <3>2. \A q \in Proc : Applying(q)' => q = c
      BY <2>2, <3>1 DEF Applying
    <3> QED BY <1>1, <2>1, <2>2, <3>1, <3>2 DEF Alone
  <2> QED BY <2>4, <2>5
<1>10. ASSUME NEW c \in Clis, CliRequest(c) \/ CliKilled(c) PROVE Alone'
  <2>1. mode' = mode /\ beat' = beat /\ pc' = [pc EXCEPT ![c] = "done"]
    BY <1>10 DEF CliRequest, CliKilled, Step, dmnVars, dbVars
  <2>2. pc'[c] = "done" /\ \A q \in Proc : q # c => pc'[q] = pc[q]
    BY <1>1, <2>1 DEF TypeOK
  <2>3. \A q \in Proc : Applying(q)' => Applying(q)
    BY <2>2 DEF Applying
  <2> QED BY <1>1, <2>1, <2>2, <2>3 DEF Alone
<1> QED BY <1>2, <1>3, <1>4, <1>5, <1>6, <1>7, <1>8, <1>9, <1>10 DEF OtherStep

\* The sides, their baseline and the outcome are what they were.
LEMMA OtherKeeps ==
    ASSUME OtherStep
    PROVE  disk' = disk /\ entry' = entry /\ open' = open /\ outcome' = outcome
BY DEF OtherStep, Rest, vars, moves, BeatExpires, Heartbeat, MarkApplied, ProcessKept, Boot,
   Scan, Crash, CoverExpires, CliStart, CliRequest, CliKilled, dbVars

LEMMA StagesOther ==
    ASSUME ResolutionsAssumption, TypeOK, Stages, OtherStep
    PROVE  Stages'
<1>1. disk' = disk /\ entry' = entry
  BY OtherKeeps
<1>2. \A p \in Proc : pc'[p] \in {"record", "resolve"} => pc'[p] = pc[p]
  BY DEF OtherStep, Rest, vars, moves, BeatExpires, Heartbeat, MarkApplied, ProcessKept, Boot,
     Scan, Crash, CoverExpires, CliStart, CliRequest, CliKilled, runVars, Step, TypeOK
<1> QED BY <1>1, <1>2 DEF Stages

\* Nobody is half-way through a resolution when a user or the daemon writes.
LEMMA StagesWrites ==
    ASSUME UsersWait, TypeOK, ~overlap, Alone, Stages,
           Reconcile \/ \E s \in Side : UserWrite(s) \/ Process(s)
    PROVE  Stages'
<1>1. \A p \in Proc : ~Applying(p)
  <2>1. CASE \E s \in Side : UserWrite(s)
    BY <2>1 DEF UserWrite
  <2>2. CASE Reconcile
    BY <2>2 DEF Reconcile, Alone, Proc, Applying
  <2>3. CASE \E s \in Side : Process(s)
    BY <2>3 DEF Process, Idle, Alone, Proc, Applying
  <2> QED BY <2>1, <2>2, <2>3
<1>2. pc' = pc
  BY DEF Reconcile, UserWrite, Process, runVars
<1> QED BY <1>1, <1>2 DEF Stages, Applying

LEMMA StagesApply ==
    ASSUME TypeOK, ~overlap, Alone, Stages, NEW p \in Proc, ApplyStep(p)
    PROVE  Stages'
<1>1. Applying(p) /\ \A q \in Proc : q # p => pc'[q] = pc[q]
  BY ApplyMoves
<1>2. \A q \in Proc : q # p => pc'[q] \notin {"record", "resolve"}
  BY <1>1 DEF Alone, Applying
<1>3. CASE StatBoth(p) \/ PreserveLoser(p) \/ ResolveConflict(p) \/ CopyFails(p)
  <2>1. pc'[p] \notin {"record", "resolve"}
    BY <1>3 DEF StatBoth, PreserveLoser, ResolveConflict, CopyFails, Step, Fail, TypeOK
  <2> QED BY <1>2, <2>1 DEF Stages
<1>4. CASE CopyWinner(p)
  <2>1. pc'[p] = "record" /\ disk' = [disk EXCEPT ![Loser(p)] = disk[Winner(p)]]
    BY <1>4 DEF CopyWinner, Step, TypeOK
  <2>2. {Winner(p), Loser(p)} = {"A", "B"}
    BY DEF Winner, Loser, Other
  <2>3. disk'["A"] = disk'["B"]
    BY <2>1, <2>2 DEF TypeOK, Side
  <2> QED BY <1>2, <2>1, <2>3 DEF Stages
<1>5. CASE RecordPair(p)
  <2>1. pc[p] = "record" /\ pc'[p] = "resolve" /\ disk' = disk /\ entry' = disk
    BY <1>5 DEF RecordPair, Step, TypeOK
  <2> QED BY <1>2, <2>1 DEF Stages
<1> QED BY <1>3, <1>4, <1>5 DEF ApplyStep, ApplyResolution

\* What the last resolution put on both sides stays there, whoever applies next.
LEMMA SettledApply ==
    ASSUME ResolutionsAssumption, TypeOK, ~overlap, Alone, Stages, outcome # 0 => Settled,
           NEW p \in Proc, ApplyStep(p), outcome' # 0
    PROVE  Settled'
<1>1. mode # "apply" /\ mode' = mode
  BY ApplyMoves DEF Alone, Proc, Applying
<1>2. Winner(p) \in Side /\ Loser(p) \in Side
  BY Sides
<1>3. CASE StatBoth(p) \/ PreserveLoser(p)
  <2>1. disk' = disk /\ entry' = entry /\ open' = open /\ outcome' = outcome
    BY <1>3 DEF StatBoth, PreserveLoser, dbVars
  <2> QED BY <1>1, <2>1 DEF Settled
<1>4. CASE CopyWinner(p)
  <2>1. disk' = [disk EXCEPT ![Loser(p)] = disk[Winner(p)]]
        /\ entry' = entry /\ open' = open /\ outcome' = outcome
    BY <1>4 DEF CopyWinner, dbVars
  <2>2. \A s \in Side : disk'[s] = outcome
    BY <1>2, <2>1 DEF Settled, TypeOK
  <2> QED BY <1>1, <2>1, <2>2 DEF Settled
<1>5. CASE RecordPair(p)
  <2>1. disk' = disk /\ entry' = disk /\ open' = open /\ outcome' = outcome
    BY <1>5 DEF RecordPair
  <2> QED BY <1>1, <2>1 DEF Settled
<1>6. CASE ResolveConflict(p)
  <2>1. /\ disk' = disk /\ entry' = entry /\ open' = FALSE /\ outcome' = disk[Winner(p)]
        /\ pc[p] = "resolve"
    BY <1>6 DEF ResolveConflict, ConflictAfter
  <2>2. entry = disk /\ disk["A"] = disk["B"]
    BY <2>1 DEF Stages
  <2>3. \A s \in Side : disk[s] = disk[Winner(p)]
    BY <1>2, <2>2 DEF Side
  <2> QED BY <1>1, <2>1, <2>2, <2>3 DEF Settled
<1>7. CASE CopyFails(p)
  BY <1>7 DEF CopyFails
<1> QED BY <1>3, <1>4, <1>5, <1>6, <1>7 DEF ApplyStep, ApplyResolution

LEMMA SettledOther ==
    ASSUME outcome # 0 => Settled, OtherStep, outcome' # 0
    PROVE  Settled'
<1>1. disk' = disk /\ entry' = entry /\ open' = open /\ outcome' = outcome
  BY OtherKeeps
<1>2. mode' = "apply" => inv' = disk \/ (inv' = inv /\ mode = "apply")
  BY DEF OtherStep, Rest, vars, moves, BeatExpires, Heartbeat, MarkApplied, ProcessKept, Boot,
     Scan, Crash, CoverExpires, CliStart, CliRequest, CliKilled, dmnVars
<1> QED BY <1>1, <1>2 DEF Settled

\* A late event finds the file synchronised already.
LEMMA SettledProcess ==
    ASSUME Settled, outcome # 0, NEW s \in Side, Process(s)
    PROVE  Settled'
<1>1. AlreadySynced(s)
  BY DEF Settled, AlreadySynced, Side
<1>2. /\ disk' = disk /\ entry' = entry /\ open' = open /\ outcome' = outcome
      /\ mode' = mode /\ inv' = inv
  BY <1>1 DEF Process
<1> QED BY <1>2 DEF Settled

LEMMA TwoSides == IsFiniteSet(Side) /\ Cardinality(Side) = 2
<1>1. IsFiniteSet({"A"}) /\ Cardinality({"A"}) = 1
  BY FS_Singleton
<1>2. IsFiniteSet({"A"} \cup {"B"}) /\ Cardinality({"A"} \cup {"B"}) = 2
  BY <1>1, FS_AddElement
<1>3. Side = {"A"} \cup {"B"}
  BY DEF Side
<1> QED BY <1>2, <1>3

\* The reconciliation finds the same version on both sides and records it again.
LEMMA SettledReconcile ==
    ASSUME Settled, outcome # 0, Reconcile
    PROVE  Settled'
<1> DEFINE present == {s \in Side : inv[s] # 0}
<1>1. inv = disk /\ \A s \in Side : inv[s] = outcome /\ entry[s] = outcome
  BY DEF Settled, Reconcile
<1>2. present = Side
  BY <1>1
<1>3. Cardinality(present) # 1 /\ present # {}
  BY <1>2, TwoSides DEF Side
<1>4. OriginOf = {}
  BY <1>1 DEF OriginOf, Side, Other
<1>5. inv["A"] = inv["B"] /\ inv["A"] # 0
  BY <1>1 DEF Side
<1>6. entry' = disk /\ UNCHANGED <<disk, open>>
  BY <1>3, <1>4, <1>5 DEF Reconcile
<1>7. mode' = "loop" /\ outcome' = outcome
  BY DEF Reconcile
<1> QED BY <1>6, <1>7 DEF Settled

LEMMA StandingStep ==
    ASSUME ResolutionsAssumption, UsersWait, TypeOK, Standing, [Next]_vars
    PROVE  Standing'
<1> SUFFICES ASSUME ~overlap PROVE Alone' /\ Stages' /\ (outcome' # 0 => Settled')
  BY DEF Standing, Next, vars
<1>1. Alone /\ Stages /\ (outcome # 0 => Settled)
  BY DEF Standing
<1>2. ASSUME NEW p \in Proc, ApplyStep(p)
      PROVE  Alone' /\ Stages' /\ (outcome' # 0 => Settled')
  BY <1>1, <1>2, AloneApply, StagesApply, SettledApply
<1>3. CASE OtherStep
  BY <1>1, <1>3, AloneOther, StagesOther, SettledOther
<1>4. CASE \E s \in Side : UserWrite(s)
  <2>1. outcome' = 0
    BY <1>4 DEF UserWrite
  <2> QED BY <1>1, <1>4, <2>1, AloneWrites, StagesWrites
<1>5. CASE Reconcile \/ \E s \in Side : Process(s)
  <2>1. outcome' = outcome
    BY <1>5 DEF Reconcile, Process
  <2> QED BY <1>1, <1>5, <2>1, AloneWrites, StagesWrites, SettledProcess, SettledReconcile
<1> QED BY <1>2, <1>3, <1>4, <1>5, Steps

\* However many commands, users' versions, crashes and failed copies there are:
\* while no command runs beside the daemon or another one and users leave the file
\* alone while it is being resolved, the version that a
\* resolution chose is on both sides once everything is quiet, and the conflict
\* stays closed.  Late events, a restart with its reconciliation and a command
\* killed half-way do not undo it.
THEOREM ResolutionStands ==
    ASSUME UsersWait
    PROVE  Spec => []Stands
<1> USE ResolutionsAssumption, UsersWait
<1>1. Init => Standing
  <2> SUFFICES ASSUME Init PROVE Standing
    OBVIOUS
  <2>1. mode = "loop" => beat
    BY DEF Init
  <2>2. Daemon \in Proc /\ \A p \in Proc : pc[p] = "idle"
    BY DEF Init, Proc
  <2>3. outcome = 0
    BY DEF Init
  <2>4. Alone /\ Stages
    BY <2>1, <2>2 DEF Alone, Stages, Applying, Proc
  <2> QED BY <2>3, <2>4 DEF Standing
<1>2. TypeOK /\ Standing /\ [Next]_vars => Standing'
  BY StandingStep
<1>3. Standing => Stands
  BY DEF Standing, Stands, Settled
<1> QED BY <1>1, <1>2, <1>3, TypeCorrect, PTL DEF Spec
================================================================================
