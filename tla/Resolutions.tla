------------------------------ MODULE Resolutions ------------------------------
(***************************************************************************)
(* Resolving a conflict by hand.  "synkronyx -resolve path -with a|b|both" *)
(* is a process of its own: if the heartbeat in the state db looks fresh   *)
(* it leaves a request there, else it calls ApplyResolution itself.  The   *)
(* daemon applies the request at a heartbeat, in its main loop.            *)
(*                                                                         *)
(* One file in conflict under conflict_policy "manual", the policy that    *)
(* leaves conflicts open.  A content is a number, 0 a missing file or row; *)
(* nobody deletes.  The daemon's handlers are one step each here: their    *)
(* interleavings with users are SyncPair's subject.  ApplyResolution is    *)
(* cut at every write, because two processes may run it at once.           *)
(* Directories, hence types that differ and recordSubtree, are left out.   *)
(***************************************************************************)
EXTENDS Naturals, FiniteSets

CONSTANTS
    Clis,        \* runs of synkronyx -resolve
    Daemon,      \* the service
    Wants,       \* what operators ask for: a subset of {"a", "b", "both"}
    Starts,      \* Init: contents of A and B, and whether a command may write beside
                 \* the daemon or another command
    UsersWait,   \* users leave the file alone while it is being resolved
    MaxClock,    \* bound: contents users write
    MaxBeside,   \* bound: the same, where a command may write beside others
    MaxFaults    \* bound: crashes, killed CLIs and failed copies

Side == {"A", "B"}
Other(s) == IF s = "A" THEN "B" ELSE "A"
Proc == Clis \cup {Daemon}
Contents == 0..(MaxClock + MaxFaults)     \* those above MaxClock are torn files
UserVersions == 1..MaxClock

ASSUME ResolutionsAssumption ==
    /\ Daemon \notin Clis /\ IsFiniteSet(Clis)
    /\ Wants \subseteq {"a", "b", "both"} /\ UsersWait \in BOOLEAN
    /\ MaxClock \in Nat /\ MaxBeside \in 0..MaxClock /\ MaxFaults \in Nat
    /\ Starts \subseteq [disk : [Side -> 0..MaxClock], overlap : BOOLEAN]
    /\ \A st \in Starts : Cardinality({s \in Side : st.disk[s] # 0}) <= MaxClock

VARIABLES
    disk,      \* the file on each side
    kept,      \* preserved versions: side, content, and whether the name syncs
    spread,    \* syncable preserved versions that are on both sides
    entry,     \* the state db: content last synchronised, per side
    open,      \* the state db: the conflict has no resolution
    request,   \* the state db: the row of the path in resolutions
    beat,      \* the heartbeat in the db is less than three intervals old
    mode,      \* the daemon: down, scanning, applying a reconciliation, looping
    inv,       \* the reconciliation's inventory
    dirty,     \* sides whose unclaimed event the daemon has still to process
    dirtyKept, \* preserved versions whose creation it has still to process
    cover,     \* sides on which the daemon's guard covers the path
    pc, want,  \* per process: where it is in ApplyResolution, and the choice
    clock, faults,
    overlap,   \* this behaviour has commands beside the daemon or each other
    outcome    \* history: the version the last resolution put on both sides

dbVars  == <<entry, open, request, beat>>
dmnVars == <<mode, inv, dirty, dirtyKept, cover>>
runVars == <<pc, want>>
cntVars == <<clock, faults>>
moves == <<disk, kept, spread, dbVars, dmnVars, runVars, cntVars, outcome>>
vars  == <<moves, overlap>>

NoFile == [s \in Side |-> 0]
Kept == [side : Side, c : Contents, sync : BOOLEAN]

\* The service is down, or in its loop with the conflict already recorded.
Init ==
    /\ \E st \in Starts : disk = st.disk /\ overlap = st.overlap
    /\ kept = {} /\ spread = {}
    /\ entry = NoFile /\ request = [want |-> "none", state |-> "none"]
    /\ mode \in {"down", "loop"}
    /\ beat = (mode = "loop")
    /\ open = (\A s \in Side : disk[s] # 0)
    /\ inv = NoFile /\ dirty = {} /\ dirtyKept = {} /\ cover = {}
    /\ mode = "loop" => open
    /\ pc = [p \in Proc |-> "idle"]
    /\ want = [p \in Proc |-> "none"]
    /\ clock = Cardinality({s \in Side : disk[s] # 0}) /\ faults = 0 /\ outcome = 0

Applying(p) == pc[p] \in {"stat", "preserve", "copy", "record", "resolve"}
Step(p, label) == pc' = [pc EXCEPT ![p] = label]

-------------------------------------------------------------------------------
(* Users edit the file.  UsersWait: not from the first stat of a resolution to  *)
(* the end of the window in which the guard covers the loser.  resolve.go only  *)
(* accepts that events of that window are ignored; an edit between              *)
(* preserveLoser and the copy it does not save (resol_edit.cfg).                *)
UserWrite(s) ==
    /\ clock < (IF overlap THEN MaxBeside ELSE MaxClock)
    /\ UsersWait => s \notin cover /\ \A p \in Proc : ~Applying(p)
    /\ disk' = [disk EXCEPT ![s] = clock + 1]
    /\ clock' = clock + 1
    /\ outcome' = 0
    /\ dirty' = IF mode = "down" \/ s \in cover THEN dirty ELSE dirty \cup {s}
    /\ UNCHANGED <<kept, spread, dbVars, mode, inv, dirtyKept, cover, runVars, faults>>

-------------------------------------------------------------------------------
(* The command.                                                              *)
\* resolveConflictCmd reads the heartbeat first.
CliStart(c) ==
    /\ pc[c] = "idle"
    /\ overlap \/ beat \/ (mode = "down" /\ \A p \in Clis : ~Applying(p))
    /\ \E w \in Wants : want' = [want EXCEPT ![c] = w]
    /\ Step(c, IF beat THEN "request" ELSE "stat")
    /\ UNCHANGED <<disk, kept, spread, dbVars, dmnVars, cntVars, outcome>>

\* RequestResolution inserts the row, or replaces the one there is.
CliRequest(c) ==
    /\ pc[c] = "request"
    /\ request' = [want |-> want[c], state |-> "pending"]
    /\ Step(c, "done")
    /\ UNCHANGED <<disk, kept, spread, entry, open, beat, dmnVars, want, cntVars, outcome>>

\* Three intervals pass without a heartbeat: the daemon is down, in its first
\* sync, or kept busy by a resync or by workers it waits for.
BeatExpires ==
    /\ beat
    /\ mode = "down" \/ overlap
    /\ beat' = FALSE
    /\ UNCHANGED <<disk, kept, spread, entry, open, request, dmnVars, runVars, cntVars, outcome>>

-------------------------------------------------------------------------------
(* ApplyResolution, run by the daemon or by a command.                       *)
Winner(p) == IF want[p] = "b" THEN "B" ELSE "A"
Loser(p) == Other(Winner(p))

\* The daemon closes the request whatever happened; a command just ends.
Fail(p) == Step(p, IF p = Daemon THEN "failed" ELSE "done")

\* The changes a command makes are events for a daemon that is up; those the
\* daemon makes are claimed by its guard's subtree expectation.
Noticed(p) == p # Daemon /\ mode # "down"

\* Both stats, then ExpectSubtree(loser, rel), which is never forgotten.
StatBoth(p) ==
    /\ pc[p] = "stat"
    /\ IF disk[Winner(p)] = 0
       THEN Fail(p) /\ UNCHANGED cover
       ELSE /\ Step(p, IF disk[Loser(p)] # 0 THEN "preserve" ELSE "copy")
            /\ cover' = IF p = Daemon THEN cover \cup {Loser(p)} ELSE cover
    /\ UNCHANGED <<disk, kept, spread, dbVars, mode, inv, dirty, dirtyKept, want, cntVars, outcome>>

\* preserveLoser: "both" gives the copy a name that the exclude does not match.
KeptNothing(p) == {}
KeptUnderChoice(p) == {[side |-> want[p], c |-> disk[Loser(p)], sync |-> want[p] = "both"]}
KeptVersion(p) ==
    {[side |-> Loser(p), c |-> disk[Loser(p)], sync |-> want[p] = "both"]}

PreserveLoser(p) ==
    /\ pc[p] = "preserve"
    /\ kept' = kept \cup KeptVersion(p)
    /\ dirtyKept' = IF Noticed(p) /\ want[p] = "both"
                    THEN dirtyKept \cup {disk[Loser(p)]} ELSE dirtyKept
    /\ Step(p, "copy")
    /\ UNCHANGED <<disk, spread, dbVars, mode, inv, dirty, cover, want, cntVars, outcome>>

CopyWinner(p) ==
    /\ pc[p] = "copy"
    /\ disk' = [disk EXCEPT ![Loser(p)] = disk[Winner(p)]]
    /\ dirty' = IF Noticed(p) THEN dirty \cup {Loser(p)} ELSE dirty
    /\ Step(p, "record")
    /\ UNCHANGED <<kept, spread, dbVars, mode, inv, dirtyKept, cover, want, cntVars, outcome>>

\* One of the two copies fails: the preserved one leaves nothing of use, the
\* other a torn loser (rsync --inplace).
CopyFails(p) ==
    /\ pc[p] \in {"preserve", "copy"} /\ faults < MaxFaults
    /\ faults' = faults + 1 /\ outcome' = 0
    /\ IF pc[p] = "preserve" THEN UNCHANGED <<disk, dirty>>
       ELSE /\ disk' = [disk EXCEPT ![Loser(p)] = MaxClock + faults']
            /\ dirty' = IF Noticed(p) THEN dirty \cup {Loser(p)} ELSE dirty
    /\ Fail(p)
    /\ UNCHANGED <<kept, spread, dbVars, mode, inv, dirtyKept, cover, want, clock>>

\* recordPair stats both sides again.
RecordPair(p) ==
    /\ pc[p] = "record"
    /\ entry' = disk
    /\ Step(p, "resolve")
    /\ UNCHANGED <<disk, kept, spread, open, request, beat, dmnVars, want, cntVars, outcome>>

ConflictLeftOpen(p) == open
ConflictAfter(p) == FALSE

ResolveConflict(p) ==
    /\ pc[p] = "resolve"
    /\ open' = ConflictAfter(p)
    /\ outcome' = disk[Winner(p)]
    /\ Step(p, IF p = Daemon THEN "applied" ELSE "done")
    /\ UNCHANGED <<disk, kept, spread, entry, request, beat, dmnVars, want, cntVars>>

ApplyResolution(p) ==
    StatBoth(p) \/ PreserveLoser(p) \/ CopyWinner(p) \/ RecordPair(p) \/ ResolveConflict(p)

-------------------------------------------------------------------------------
(* The daemon's loop.                                                        *)
Idle == mode = "loop" /\ pc[Daemon] = "idle"

\* beat.C: publish the heartbeat, then read PendingResolutions.
Heartbeat ==
    /\ Idle /\ beat' = TRUE
    /\ ~beat \/ request.state = "pending"
    /\ IF request.state = "pending"
       THEN Step(Daemon, "stat") /\ want' = [want EXCEPT ![Daemon] = request.want]
       ELSE UNCHANGED <<pc, want>>
    /\ UNCHANGED <<disk, kept, spread, entry, open, request, dmnVars, cntVars, outcome>>

\* MarkResolutionApplied closes whatever request the path has by now.
SuccessUnmarked == IF pc[Daemon] = "applied" THEN request.state ELSE "error"
Closing == IF pc[Daemon] = "applied" THEN "applied" ELSE "error"

MarkApplied ==
    /\ pc[Daemon] \in {"applied", "failed"}
    /\ request' = [request EXCEPT !.state = Closing]
    /\ Step(Daemon, "idle")
    /\ UNCHANGED <<disk, kept, spread, entry, open, beat, dmnVars, want, cntVars, outcome>>

\* propagateContent from s: detectConflict, and the policy leaves the files alone.
Propagate(s) ==
    IF disk[Other(s)] \notin {0, entry[Other(s)], disk[s]}
    THEN open' = TRUE /\ UNCHANGED <<disk, entry>>
    ELSE disk' = [x \in Side |-> disk[s]] /\ entry' = disk' /\ UNCHANGED open

\* An event of side s: process, with layer 2 first.
AlreadySynced(s) == entry["A"] # 0 /\ entry["A"] = entry["B"] /\ disk[s] = entry[s]

Process(s) ==
    /\ Idle /\ s \in dirty
    /\ dirty' = dirty \ {s}
    /\ IF AlreadySynced(s) THEN UNCHANGED <<disk, entry, open>> ELSE Propagate(s)
    /\ UNCHANGED <<kept, spread, request, beat, mode, inv, dirtyKept, cover, runVars, cntVars, outcome>>

\* A preserved version with a syncable name is a new file like any other.
ProcessKept ==
    /\ Idle /\ dirtyKept # {}
    /\ spread' = spread \cup dirtyKept /\ dirtyKept' = {}
    /\ UNCHANGED <<disk, kept, dbVars, mode, inv, dirty, cover, runVars, cntVars, outcome>>

\* self_write_ttl passes.
CoverExpires(s) ==
    /\ s \in cover /\ pc[Daemon] = "idle"
    /\ cover' = cover \ {s}
    /\ UNCHANGED <<disk, kept, spread, dbVars, mode, inv, dirty, dirtyKept, runVars, cntVars, outcome>>

-------------------------------------------------------------------------------
(* Start, first sync and crash.                                              *)
Boot ==
    /\ mode = "down"
    /\ overlap \/ \A c \in Clis : ~Applying(c)
    /\ mode' = "scan"
    /\ UNCHANGED <<disk, kept, spread, dbVars, inv, dirty, dirtyKept, cover, runVars, cntVars, outcome>>

Scan ==
    /\ mode = "scan"
    /\ mode' = "apply" /\ inv' = disk
    /\ UNCHANGED <<disk, kept, spread, dbVars, dirty, dirtyKept, cover, runVars, cntVars, outcome>>

\* originOf: the only side that left the baseline.
OriginOf == IF entry["A"] = 0 \/ entry["B"] = 0 THEN {}
            ELSE {s \in Side : inv[s] # entry[s] /\ inv[Other(s)] = entry[Other(s)]}

\* reconcile for the path and for the preserved copies, then the loop and its
\* first heartbeat.  resolveConflict does not compare the digests again.
Reconcile ==
    /\ mode = "apply"
    /\ mode' = "loop" /\ inv' = NoFile /\ beat' = TRUE
    /\ spread' = spread \cup {k.c : k \in {x \in kept : x.sync}}
    /\ LET present == {s \in Side : inv[s] # 0}
           from == IF Cardinality(present) = 1 THEN present ELSE OriginOf
       IN CASE present = {} -> UNCHANGED <<disk, entry, open>>
            [] from # {} -> \E s \in from : Propagate(s)
            [] inv["A"] = inv["B"] /\ inv["A"] # 0 -> entry' = disk /\ UNCHANGED <<disk, open>>
            [] OTHER -> open' = TRUE /\ UNCHANGED <<disk, entry>>
    /\ UNCHANGED <<kept, request, dirty, dirtyKept, cover, runVars, cntVars, outcome>>

Crash ==
    /\ mode # "down" /\ faults < MaxFaults
    /\ faults' = faults + 1
    /\ mode' = "down" /\ inv' = NoFile /\ dirty' = {} /\ dirtyKept' = {} /\ cover' = {}
    /\ Step(Daemon, "idle")
    /\ UNCHANGED <<disk, kept, spread, dbVars, want, clock, outcome>>

CliKilled(c) ==
    /\ Applying(c) /\ faults < MaxFaults
    /\ faults' = faults + 1
    /\ Step(c, "done")
    /\ UNCHANGED <<disk, kept, spread, dbVars, dmnVars, want, clock, outcome>>

\* Nothing is under way and nothing is asked of the daemon.
Quiet ==
    /\ Idle /\ dirty = {} /\ dirtyKept = {} /\ request.state # "pending"
    /\ \A c \in Clis : pc[c] \in {"idle", "done"}

Rest == Quiet /\ UNCHANGED vars

UserStep == \E s \in Side : UserWrite(s)
Acts ==
    \/ UserStep
    \/ \E c \in Clis : CliStart(c) \/ CliRequest(c) \/ CliKilled(c)
    \/ \E p \in Proc : ApplyResolution(p) \/ CopyFails(p)
    \/ BeatExpires \/ Heartbeat \/ MarkApplied \/ ProcessKept
    \/ \E s \in Side : Process(s) \/ CoverExpires(s)
    \/ Boot \/ Scan \/ Reconcile \/ Crash \/ Rest

Next == Acts /\ UNCHANGED overlap

\* systemd starts the service again, the ticker ticks and select is random, so
\* a heartbeat that is always due again is served; a process that runs goes on.
Fairness ==
    /\ WF_moves(Boot) /\ WF_moves(Scan) /\ WF_moves(Reconcile)
    /\ SF_moves(Heartbeat) /\ WF_moves(MarkApplied)
    /\ \A p \in Proc : WF_moves(ApplyResolution(p))
    /\ \A s \in Side : WF_moves(Process(s))

Spec == Init /\ [][Next]_vars /\ Fairness

-------------------------------------------------------------------------------
\* Types of the resolutions.
TypeOK ==
    /\ disk \in [Side -> Contents] /\ entry \in [Side -> Contents] /\ inv \in [Side -> Contents]
    /\ kept \subseteq Kept /\ spread \subseteq Contents /\ dirtyKept \subseteq Contents
    /\ open \in BOOLEAN /\ beat \in BOOLEAN
    /\ request \in [want : Wants \cup {"none"}, state : {"none", "pending", "applied", "error"}]
    /\ mode \in {"down", "scan", "apply", "loop"}
    /\ dirty \subseteq Side /\ cover \subseteq Side
    /\ pc \in [Proc -> {"idle", "request", "stat", "preserve", "copy", "record", "resolve",
                        "applied", "failed", "done"}]
    /\ want \in [Proc -> Wants \cup {"none"}]
    /\ clock \in 0..MaxClock /\ faults \in 0..MaxFaults /\ outcome \in Contents

\* Whoever resolves, two at once included, and wherever one is interrupted: a
\* user's version that leaves a side is on the other side, kept under another
\* name, or superseded by a version made from it (it was the baseline).
NothingLost ==
    [][~UserStep => \A s \in Side :
          disk[s] \in UserVersions /\ disk'[s] # disk[s]
              => \/ \E x \in Side : disk'[x] = disk[s] \/ entry[x] = disk[s]
                 \/ \E k \in kept' : k.c = disk[s]]_vars

\* A resolution stands: once everything is quiet, the version it chose is on
\* both sides and the conflict is closed, unless a user wrote or a copy failed
\* since, or commands ran beside each other.
Stands == Quiet /\ ~overlap /\ outcome # 0 => ~open /\ \A s \in Side : disk[s] = outcome

\* Each request gets an answer, across crashes: applied, or closed with an error.
Answered == request.state = "pending" ~> request.state # "pending"

\* The request that is closed as applied is the one that was applied.
RequestHonoured ==
    [][request.state = "pending" /\ request'.state = "applied" => request.want = want[Daemon]]_vars

\* "Com o daemon rodando, o CLI nao escreve nas arvores".
CliAlone == \A c \in Clis : pc[c] \in {"preserve", "copy"} => mode = "down"

\* -with both: the preserved version too ends up on both sides.
BothOnBoth == Quiet => \A k \in kept : k.sync => k.c \in spread
===============================================================================
