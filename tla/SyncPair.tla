------------------------------- MODULE SyncPair -------------------------------
(***************************************************************************)
(* One regular file of the two trees, end to end: users edit it on either  *)
(* side, the kernel reports the edits, the guard drops the echoes of the   *)
(* daemon's own writes, the debouncer groups what is left, the worker      *)
(* decides and copies, the retry queue and the resync repair.              *)
(*                                                                         *)
(* A file is a content c, a stat stamp t (size and mtime) and a mode m,    *)
(* which stands for the owner too where the daemon may set it.  Two        *)
(* digests are equal iff the contents are; Stat.Unchanged holds iff the    *)
(* stamps are equal, i.e. user edits are more than the one-second          *)
(* tolerance apart or change the size.  c = 0 is a missing file, and a     *)
(* missing row of the state db.  Symlinks are left out.  With one path     *)
(* there is one partition, hence one worker; channel capacities            *)
(* are EngineLoop's and the debouncer's threads are Debounce's subject.    *)
(***************************************************************************)
EXTENDS Naturals, Sequences

CONSTANTS
    Policies,      \* what conflict_policy may say: "preserve", "newer-wins", "manual"
    SyncPolicy,    \* first_sync_policy: "union", "a-wins" or "b-wins"
    RetryMax,      \* retry_max_attempts
    UserOps,       \* what users do: a subset of {"write", "delete", "touch",
                   \* "chmod"}
    Writers,       \* the sides users work on
    MaxClock,      \* bound: user operations in a behaviour
    Pace,          \* how close to the daemon's own steps users act
    EchoNew,       \* what the kernel reports of an rsync that creates the file ...
    EchoUpdate,    \* ... and of one that rewrites it: sets of sequences
    Expiry,        \* may an expectation's TTL pass before its events come?
    FaultKinds,    \* what may fail: the process, a copy of a worker or of a
                   \* resync, the inotify queue
    MaxFaults      \* bound: faults in a behaviour

Side  == {"A", "B"}
Other(s) == IF s = "A" THEN "B" ELSE "A"
Kind  == {"CREATE", "MODIFY", "DELETE", "ATTRIB"}
None  == "NONE"

Stamps == 0..(MaxClock + MaxFaults)
File   == [c : Stamps, t : Stamps, m : Stamps]
Absent == [c |-> 0, t |-> 0, m |-> 0]
Task   == [side : Side, kind : Kind]
Notice == [kind : Kind, own : BOOLEAN]   \* "own": caused by the daemon itself
NoTask == [side |-> "A", kind |-> None]
NoRetry == [kind |-> None, attempts |-> 0]
UserVersions == 1..MaxClock

ASSUME PairAssumption ==
    /\ Policies \subseteq {"preserve", "newer-wins", "manual"}
    /\ SyncPolicy \in {"union", "a-wins", "b-wins"}
    /\ RetryMax \in Nat /\ MaxClock \in Nat \ {0} /\ MaxFaults \in Nat
    /\ UserOps \subseteq {"write", "delete", "touch", "chmod"}
    /\ Writers \subseteq Side
    /\ Pace \in {"racing", "stepwise", "apart"}
    /\ Expiry \in BOOLEAN
    /\ EchoNew \subseteq Seq(Kind) /\ EchoUpdate \subseteq Seq(Kind)
    /\ FaultKinds \subseteq {"crash", "io", "resync-io", "overflow"}

VARIABLES
    disk,      \* the file on each side
    saved,     \* contents kept in .sync-conflict- copies
    shared,    \* history: contents that were on both sides at once
    entry,     \* the state db: last synchronised stat and digest per side
    open,      \* the state db: an open conflict is recorded for the path
    policy,    \* conflict_policy, as configured
    up,        \* the daemon runs
    clock,     \* user operations so far
    faults,    \* faults so far
    kern,      \* inotify queue and watcher, per side: notices of changes
    cnt,       \* guard.seen: events still expected on each side
    slot,      \* the debouncer's pending event per side
    out,       \* debo.Out
    wq,        \* the worker's channel
    failed,    \* e.failed
    retry,     \* the retry queue, per side
    resync,    \* e.resync holds a request
    pc,        \* where the worker, or the loop inside a resync, is
    run,       \* who runs: the "worker", or the loop in a "resync"
    ev,        \* the event being processed
    to,        \* the side it writes
    inv        \* the resync's inventory of the two sides

fsVars   == <<disk, saved, shared>>
dbVars   == <<entry, open>>
envVars  == <<policy, up, clock, faults>>
feedVars == <<kern, cnt, slot, out>>
loopVars == <<wq, failed, retry, resync>>
engVars  == <<pc, run, ev, to, inv>>
vars == <<fsVars, dbVars, envVars, feedVars, loopVars, engVars>>

NoInventory == [s \in Side |-> Absent]

\* Either nothing exists yet, or one version is in sync and recorded.
Init ==
    /\ disk \in {NoInventory, [s \in Side |-> [c |-> 1, t |-> 1, m |-> 0]]}
    /\ entry = disk
    /\ clock = disk["A"].c
    /\ shared = {clock} \ {0}
    /\ policy \in Policies
    /\ saved = {} /\ open = FALSE /\ up = FALSE /\ faults = 0
    /\ kern = [s \in Side |-> << >>] /\ cnt = [s \in Side |-> 0]
    /\ slot = [s \in Side |-> None] /\ out = << >>
    /\ wq = << >> /\ failed = << >> /\ retry = [s \in Side |-> NoRetry] /\ resync = FALSE
    /\ pc = "idle" /\ run = "worker" /\ ev = NoTask /\ to = "A" /\ inv = NoInventory

-------------------------------------------------------------------------------
(* Users.  Their edits are seen by the kernel only while the watchers run.   *)
Deciding ==
    pc \in {"scan2", "apply", "conflict", "preserve", "copy", "settle", "resolve", "record", "remove",
            "attrs"}

\* The engine has nothing in hand: at most, events wait for their window.
Resting ==
    /\ pc = "idle" /\ out = << >> /\ wq = << >> /\ failed = << >> /\ ~resync
    /\ \A s \in Side : retry[s] = NoRetry

\* Nothing is left to do, except that an expectation may wait for its TTL.
Quiet == up /\ Resting /\ \A s \in Side : kern[s] = << >> /\ slot[s] = None

\* "racing": at any moment.  "stepwise": never between the look at the disk
\* that decides and the record that ends the operation.  "apart": in bursts,
\* while the service is down, or at rest with all its echoes behind it; an
\* attribute change only when not even an event of a user is left.
Settled ==
    /\ Resting
    /\ \A s \in Side : /\ slot[s] = None /\ cnt[s] = 0
                       /\ \A i \in DOMAIN kern[s] : ~kern[s][i].own

UserMay(op, s) ==
    /\ op \in UserOps /\ s \in Writers /\ clock < MaxClock
    /\ Pace = "stepwise" => ~Deciding
    /\ Pace = "apart" => ~up \/ (Settled /\ (op \in {"write", "delete"} \/ Quiet))

Notices(kinds, own) == [i \in DOMAIN kinds |-> [kind |-> kinds[i], own |-> own]]

\* inotify drops an event identical to the last one of its queue if nobody has
\* read that one yet; it may have been read, or another path's event lie behind.
Queued(s, kinds) ==
    {kinds} \cup (IF kern[s] # << >> /\ kinds # << >> /\ kern[s][Len(kern[s])].kind = Head(kinds)
                 THEN {Tail(kinds)} ELSE {})

Notify(s, kinds) ==
    IF up THEN \E new \in Queued(s, kinds) : kern' = [kern EXCEPT ![s] = @ \o Notices(new, FALSE)]
    ELSE UNCHANGED kern

Echo(s, kinds) ==
    \E new \in Queued(s, kinds) : kern' = [kern EXCEPT ![s] = @ \o Notices(new, TRUE)]

UserWrite(s) ==
    /\ UserMay("write", s)
    /\ disk' = [disk EXCEPT ![s] = [c |-> clock + 1, t |-> clock + 1, m |-> @.m]]
    /\ clock' = clock + 1
    /\ Notify(s, IF disk[s] = Absent THEN <<"CREATE", "MODIFY">> ELSE <<"MODIFY">>)
    /\ UNCHANGED <<saved, shared, dbVars, policy, up, faults, cnt, slot, out, loopVars, engVars>>

UserDelete(s) ==
    /\ UserMay("delete", s) /\ disk[s] # Absent
    /\ disk' = [disk EXCEPT ![s] = Absent]
    /\ clock' = clock + 1
    /\ Notify(s, <<"DELETE">>)
    /\ UNCHANGED <<saved, shared, dbVars, policy, up, faults, cnt, slot, out, loopVars, engVars>>

\* A touch moves the mtime, a chmod only the mode.
UserAttrib(s) ==
    /\ disk[s] # Absent
    /\ \/ UserMay("touch", s) /\ disk' = [disk EXCEPT ![s].t = clock + 1]
       \/ UserMay("chmod", s) /\ disk' = [disk EXCEPT ![s].m = clock + 1]
    /\ clock' = clock + 1
    /\ Notify(s, <<"ATTRIB">>)
    /\ UNCHANGED <<saved, shared, dbVars, policy, up, faults, cnt, slot, out, loopVars, engVars>>

UserStep == \E s \in Side : UserWrite(s) \/ UserDelete(s) \/ UserAttrib(s)

-------------------------------------------------------------------------------
(* Pump and debouncer.                                                       *)
Merge(prev, next) ==
    IF prev = "CREATE" /\ next = "MODIFY" THEN "CREATE"
    ELSE IF prev = "DELETE" /\ next = "CREATE" THEN "MODIFY"
    ELSE next

\* guard.Consume: is the next event of the path one the daemon announced?
ClaimsAlways(s) == cnt[s] >= 0
Claims(s) == cnt[s] > 0

\* pump: guard.Consume, and only what it does not claim goes to Push.
Pump(s) ==
    /\ up /\ kern[s] # << >>
    /\ kern' = [kern EXCEPT ![s] = Tail(@)]
    /\ IF Claims(s)
       THEN cnt' = [cnt EXCEPT ![s] = @ - 1] /\ UNCHANGED slot
       ELSE slot' = [slot EXCEPT ![s] = Merge(@, Head(kern[s]).kind)] /\ UNCHANGED cnt
    /\ UNCHANGED <<fsVars, dbVars, envVars, out, loopVars, engVars>>

\* The TTL passes over an expectation: always in the end, and before its events
\* arrive if Expiry.
Expire(s) ==
    /\ cnt[s] > 0
    /\ Expiry \/ (pc = "idle" /\ kern[s] = << >>)
    /\ cnt' = [cnt EXCEPT ![s] = 0]
    /\ UNCHANGED <<fsVars, dbVars, envVars, kern, slot, out, loopVars, engVars>>

\* The silence window of the path ends.
Release(s) ==
    /\ up /\ slot[s] # None
    /\ out' = Append(out, [side |-> s, kind |-> slot[s]])
    /\ slot' = [slot EXCEPT ![s] = None]
    /\ UNCHANGED <<fsVars, dbVars, envVars, kern, cnt, loopVars, engVars>>

-------------------------------------------------------------------------------
(* The main loop, whenever it is not inside a resync.                        *)
LoopFree == up /\ run = "worker"

TakeEvent ==
    /\ LoopFree /\ out # << >>
    /\ retry' = [retry EXCEPT ![Head(out).side] = NoRetry]
    /\ wq' = Append(wq, Head(out))
    /\ out' = Tail(out)
    /\ UNCHANGED <<fsVars, dbVars, envVars, kern, cnt, slot, failed, resync, engVars>>

\* schedule refuses when the attempts are used up.
GivesUp(n) == n >= RetryMax

\* handleFailure with retryQueue.schedule: either the event waits for its
\* backoff, or it is given up and a resync is requested.
HandleFailure ==
    /\ LoopFree /\ failed # << >>
    /\ LET f == Head(failed)
           n == retry[f.side].attempts + 1
       IN IF GivesUp(n)
          THEN retry' = [retry EXCEPT ![f.side] = NoRetry] /\ resync' = TRUE
          ELSE retry' = [retry EXCEPT ![f.side] = [kind |-> f.kind, attempts |-> n]]
               /\ UNCHANGED resync
    /\ failed' = Tail(failed)
    /\ UNCHANGED <<fsVars, dbVars, envVars, feedVars, wq, engVars>>

\* processRetries: due removes the item, attempts included, and dispatches it.
RetryDue(s) ==
    /\ LoopFree /\ retry[s] # NoRetry
    /\ wq' = Append(wq, [side |-> s, kind |-> retry[s].kind])
    /\ retry' = [retry EXCEPT ![s] = NoRetry]
    /\ UNCHANGED <<fsVars, dbVars, envVars, feedVars, failed, resync, engVars>>

\* The resync waits for the workers (inflight.Wait) and runs in the loop.
StartResync ==
    /\ LoopFree /\ resync /\ pc = "idle" /\ wq = << >>
    /\ resync' = FALSE
    /\ run' = "resync" /\ pc' = "scan"
    /\ UNCHANGED <<fsVars, dbVars, envVars, feedVars, wq, failed, retry, ev, to, inv>>

-------------------------------------------------------------------------------
(* The worker.  Each step is one look at the disk or the db, or one write.   *)
From == Other(to)

Finish ==
    pc' = "idle" /\ run' = "worker" /\ ev' = NoTask /\ to' = "A" /\ inv' = NoInventory

Goto(label) == pc' = label /\ UNCHANGED <<run, ev, to, inv>>

\* The events each operation announces to the guard.
Expected == [copy |-> 3, remove |-> 1, attrs |-> 1]

\* A worker reports a failure to the loop; a resync only counts it.
FailUnreported == UNCHANGED failed /\ Finish
FailTask ==
    /\ failed' = IF run = "worker" THEN Append(failed, ev) ELSE failed
    /\ Finish

WorkerTake ==
    /\ LoopFree /\ pc = "idle" /\ wq # << >>
    /\ ev' = Head(wq) /\ wq' = Tail(wq) /\ to' = Other(ev'.side)
    /\ pc' = "decide"
    /\ UNCHANGED <<fsVars, dbVars, envVars, feedVars, failed, retry, resync, run, inv>>

\* alreadySynced: layer 2 of the loop prevention.
NeverSynced == FALSE
AlreadyStamped ==
    /\ entry["A"] # Absent /\ entry["B"] # Absent
    /\ IF ev.kind = "DELETE" THEN disk[to] = Absent
       ELSE disk[From] # Absent /\ disk[From].t = entry[From].t
AlreadySwapped ==
    /\ entry["A"] # Absent /\ entry["B"] # Absent
    /\ IF ev.kind = "DELETE" THEN disk[From] = Absent
       ELSE disk[to] # Absent /\ disk[to].t = entry[to].t /\ entry["A"].c = entry["B"].c
AlreadySynced ==
    /\ entry["A"] # Absent /\ entry["B"] # Absent
    /\ IF ev.kind = "DELETE" THEN disk[to] = Absent
       ELSE /\ disk[From] # Absent
            /\ disk[From].t = entry[From].t
            /\ entry["A"].c = entry["B"].c

\* process: drop the event, or go to the handler of its kind.
Decide ==
    /\ up /\ pc = "decide"
    /\ IF AlreadySynced THEN Finish
       ELSE Goto(CASE ev.kind \in {"CREATE", "MODIFY"} -> "detect"
                   [] ev.kind = "DELETE" -> "remove"
                   [] ev.kind = "ATTRIB" -> "attrs")
    /\ UNCHANGED <<fsVars, dbVars, envVars, feedVars, loopVars>>

\* detectConflict: has the destination left, by itself, the state recorded for
\* it?  A destination without a row has.
SuspectWithRow == disk[to] # Absent /\ entry[to] # Absent /\ disk[to].t # entry[to].t
Suspect == disk[to] # Absent /\ disk[to].t # entry[to].t

\* propagateContent and detectConflict; digests are read only for a suspect.
Detect ==
    /\ up /\ pc = "detect"
    /\ CASE Suspect /\ disk[From] = Absent -> FailTask
         [] Suspect /\ disk[From] # Absent /\ disk[From].c # disk[to].c ->
                Goto("conflict") /\ UNCHANGED failed
         [] OTHER -> Goto("copy") /\ UNCHANGED failed
    /\ UNCHANGED <<fsVars, dbVars, envVars, feedVars, wq, retry, resync>>

\* The side "newer-wins" overwrites.
OlderByMistake == IF disk[to].t < disk[From].t THEN From ELSE to
OlderSide == IF disk[to].t > disk[From].t THEN From ELSE to

\* resolveConflict: record it, then apply the policy.  "newer-wins" may turn
\* the event round.
Conflict ==
    /\ up /\ pc = "conflict"
    /\ IF disk["A"] = Absent \/ disk["B"] = Absent
       THEN FailTask /\ UNCHANGED open
       ELSE /\ open' = TRUE
            /\ UNCHANGED failed
            /\ CASE policy = "manual" -> Finish
                 [] policy = "preserve" -> Goto("preserve")
                 [] policy = "newer-wins" ->
                      /\ pc' = "settle"
                      /\ to' = OlderSide
                      /\ UNCHANGED <<run, ev, inv>>
    /\ UNCHANGED <<fsVars, entry, envVars, feedVars, wq, retry, resync>>

\* The preserve policy copies the losing version aside first.
PreservedWinner == disk[From].c
Preserved == disk[to].c

Preserve ==
    /\ up /\ pc = "preserve"
    /\ IF disk[to] = Absent THEN FailTask /\ UNCHANGED saved
       ELSE saved' = saved \cup {Preserved} /\ Goto("settle") /\ UNCHANGED failed
    /\ UNCHANGED <<disk, shared, dbVars, envVars, feedVars, wq, retry, resync>>

\* guard.Expect(dst, 3) and rsync.  "settle" is the copy that ends a conflict.
Write(file) ==
    /\ disk' = [disk EXCEPT ![to] = file]
    /\ shared' = shared \cup (IF file.c = disk[From].c THEN {file.c} ELSE {})
    /\ cnt' = [cnt EXCEPT ![to] = @ + Expected.copy]
    /\ \E kinds \in IF disk[to] = Absent THEN EchoNew ELSE EchoUpdate : Echo(to, kinds)

Copy ==
    /\ up /\ pc \in {"copy", "settle"} /\ disk[From] # Absent
    /\ Write(disk[From])
    /\ Goto(IF pc = "copy" THEN "record" ELSE "resolve")
    /\ UNCHANGED <<saved, dbVars, envVars, slot, out, loopVars>>

\* rsync fails without touching the destination: its source is gone.
CopyNothing ==
    /\ up /\ pc \in {"copy", "settle"} /\ disk[From] = Absent
    /\ cnt' = [cnt EXCEPT ![to] = 0]
    /\ FailTask
    /\ UNCHANGED <<fsVars, dbVars, envVars, kern, slot, out, wq, retry, resync>>

\* rsync fails half-way (disk full, killed).  With --inplace the destination
\* keeps what was written; the engine then forgets its expectation.
CopyTorn ==
    /\ up /\ pc \in {"copy", "settle"} /\ disk[From] # Absent
    /\ (IF run = "worker" THEN "io" ELSE "resync-io") \in FaultKinds /\ faults < MaxFaults
    /\ faults' = faults + 1
    /\ disk' = [disk EXCEPT ![to] = [c |-> MaxClock + faults', t |-> MaxClock + faults', m |-> @.m]]
    /\ Echo(to, IF disk[to] = Absent THEN <<"CREATE", "MODIFY">> ELSE <<"MODIFY">>)
    /\ cnt' = [cnt EXCEPT ![to] = @ + Expected.copy]
    /\ Goto("forget")
    /\ UNCHANGED <<saved, shared, dbVars, policy, up, clock, slot, out, loopVars>>

Forget ==
    /\ up /\ pc = "forget"
    /\ cnt' = [cnt EXCEPT ![to] = 0]
    /\ FailTask
    /\ UNCHANGED <<fsVars, dbVars, envVars, kern, slot, out, wq, retry, resync>>

Resolve ==
    /\ up /\ pc = "resolve"
    /\ open' = FALSE
    /\ Goto("record")
    /\ UNCHANGED <<fsVars, entry, envVars, feedVars, loopVars>>

\* recordPair stats and hashes both sides again, as they are now.
RecordedOneSide == [entry EXCEPT ![to] = disk[to]]
Recorded == disk

Record ==
    /\ up /\ pc = "record"
    /\ IF disk["A"] = Absent \/ disk["B"] = Absent
       THEN FailTask /\ UNCHANGED entry
       ELSE entry' = Recorded /\ Finish /\ UNCHANGED failed
    /\ UNCHANGED <<fsVars, open, envVars, feedVars, wq, retry, resync>>

\* propagateDelete of a file, and deleteOneSided: Expect(1) and os.Remove; a
\* missing file is no error and produces no event.
Remove ==
    /\ up /\ pc = "remove"
    /\ disk' = [disk EXCEPT ![to] = Absent]
    /\ cnt' = [cnt EXCEPT ![to] = @ + Expected.remove]
    /\ Echo(to, IF disk[to] = Absent THEN << >> ELSE <<"DELETE">>)
    /\ Goto("unrecord")
    /\ UNCHANGED <<saved, shared, dbVars, envVars, slot, out, loopVars>>

\* An event deletes its two rows one after the other, a resync in one statement.
Unrecord ==
    /\ up /\ pc \in {"unrecord", "unrecord2"}
    /\ IF run = "resync" THEN entry' = NoInventory /\ Finish
       ELSE IF pc = "unrecord"
            THEN entry' = [entry EXCEPT ![From] = Absent] /\ Goto("unrecord2")
            ELSE entry' = [entry EXCEPT ![to] = Absent] /\ Finish
    /\ UNCHANGED <<fsVars, open, envVars, feedVars, loopVars>>

\* propagateAttrs: Expect(1) and SyncAttrs, which sets the mtime always, and
\* mode and owner when they differ: up to three calls, one ATTRIB each, of which
\* the kernel may merge neighbours.
AttrsEchoes ==
    {<<"ATTRIB">>} \cup
    (IF disk["A"].m = disk["B"].m THEN {}
     ELSE {<<"ATTRIB", "ATTRIB">>, <<"ATTRIB", "ATTRIB", "ATTRIB">>})

Attrs ==
    /\ up /\ pc = "attrs"
    /\ IF disk[From] = Absent
       THEN FailTask /\ cnt' = [cnt EXCEPT ![to] = 0] /\ UNCHANGED <<disk, kern>>
       ELSE /\ cnt' = [cnt EXCEPT ![to] = @ + Expected.attrs]
            /\ IF disk[to] = Absent THEN UNCHANGED <<disk, kern>>
               ELSE /\ disk' = [disk EXCEPT ![to] = [disk[From] EXCEPT !.c = disk[to].c]]
                    /\ \E kinds \in AttrsEchoes : Echo(to, kinds)
            /\ Goto("record") /\ UNCHANGED failed
    /\ UNCHANGED <<saved, shared, dbVars, envVars, slot, out, wq, retry, resync>>

-------------------------------------------------------------------------------
(* First sync and full resync, for this path.                                *)
\* scanBothSides walks the two trees in parallel; in "scan2" only the side
\* "to" is left.  The digests of compareInParallel count as read by the walk.
Scan(s) ==
    /\ up
    /\ \/ pc = "scan" /\ pc' = "scan2" /\ to' = Other(s)
       \/ pc = "scan2" /\ to = s /\ pc' = "apply" /\ UNCHANGED to
    /\ inv' = [inv EXCEPT ![s] = disk[s]]
    /\ UNCHANGED <<fsVars, dbVars, envVars, feedVars, loopVars, run, ev>>

Newer == IF inv["B"].t > inv["A"].t THEN "B" ELSE "A"

\* The one side that differs from its row, if it is one.
OnlyOne(sides) == IF sides = Side THEN {} ELSE sides

\* originOf and reconcileAttrs need both rows; the latter falls back on mtime.
Known == entry["A"] # Absent /\ entry["B"] # Absent
ContentOrigin == IF Known THEN OnlyOne({s \in Side : inv[s].c # entry[s].c}) ELSE {}
AttrsDiverged(f, g) == f.t # g.t \/ f.m # g.m
AttrsOrigin ==
    LET one == IF Known THEN OnlyOne({s \in Side : AttrsDiverged(inv[s], entry[s])}) ELSE {}
    IN IF one # {} THEN one ELSE {Newer}

Winner == CASE SyncPolicy = "a-wins" -> {"A"} [] SyncPolicy = "b-wins" -> {"B"} [] OTHER -> {}

Begin(label, s, kind) ==
    /\ pc' = label
    /\ ev' = [side |-> s, kind |-> kind] /\ to' = Other(s)
    /\ UNCHANGED <<run, inv>>

\* reconcileOneSided: s has the file, the other side does not.  A row for the
\* other side means that it was deleted there.
DeletedWithoutRow(s) == IF Winner = {} THEN entry[Other(s)] = Absent ELSE s \notin Winner
DeletedThere(s) == IF Winner = {} THEN entry[Other(s)] # Absent ELSE s \notin Winner

OneSided(s) ==
    IF DeletedThere(s) THEN Begin("remove", Other(s), "DELETE")
    ELSE Begin("detect", s, "CREATE")

\* reconcileBothSides, for two files.
BothSides ==
    IF inv["A"].c = inv["B"].c
    THEN IF ~AttrsDiverged(inv["A"], inv["B"]) THEN Goto("record")
         ELSE \E s \in AttrsOrigin : Begin("attrs", s, "ATTRIB")
    ELSE LET origin == IF Winner # {} THEN Winner ELSE ContentOrigin
         IN IF origin # {} THEN \E s \in origin : Begin("detect", s, "MODIFY")
            ELSE Begin("conflict", Newer, "MODIFY")

Apply ==
    /\ up /\ pc = "apply"
    /\ CASE inv["A"] = Absent /\ inv["B"] = Absent -> Finish
         [] inv["A"] # Absent /\ inv["B"] = Absent -> OneSided("A")
         [] inv["A"] = Absent /\ inv["B"] # Absent -> OneSided("B")
         [] OTHER -> BothSides
    /\ UNCHANGED <<fsVars, dbVars, envVars, feedVars, loopVars>>

-------------------------------------------------------------------------------
(* Boot, crash and overflow.                                                 *)
Boot ==
    /\ ~up
    /\ up' = TRUE
    /\ run' = "resync" /\ pc' = "scan"
    /\ UNCHANGED <<fsVars, dbVars, policy, clock, faults, feedVars, loopVars, ev, to, inv>>

\* Everything in memory, and the events the kernel held, are gone.
Crash ==
    /\ up /\ "crash" \in FaultKinds /\ faults < MaxFaults
    /\ up' = FALSE /\ faults' = faults + 1
    /\ kern' = [s \in Side |-> << >>] /\ cnt' = [s \in Side |-> 0]
    /\ slot' = [s \in Side |-> None] /\ out' = << >>
    /\ wq' = << >> /\ failed' = << >> /\ retry' = [s \in Side |-> NoRetry] /\ resync' = FALSE
    /\ Finish
    /\ UNCHANGED <<fsVars, dbVars, policy, clock>>

\* The inotify queue overflows: its events are lost, a resync is requested.
OverflowUnnoticed(s) ==
    /\ up /\ "overflow" \in FaultKinds /\ faults < MaxFaults /\ kern[s] # << >>
    /\ kern' = [kern EXCEPT ![s] = << >>]
    /\ faults' = faults + 1
    /\ UNCHANGED <<fsVars, dbVars, policy, up, clock, cnt, slot, out, loopVars, engVars>>

Overflow(s) ==
    /\ up /\ "overflow" \in FaultKinds /\ faults < MaxFaults /\ kern[s] # << >>
    /\ kern' = [kern EXCEPT ![s] = << >>]
    /\ resync' = TRUE
    /\ faults' = faults + 1
    /\ UNCHANGED <<fsVars, dbVars, policy, up, clock, cnt, slot, out, wq, failed, retry, engVars>>

\* Nothing left to do unless a user acts.
Rest == Quiet /\ UNCHANGED vars

WorkerStep ==
    \/ WorkerTake \/ Decide \/ Detect \/ Conflict \/ Preserve \/ Copy \/ CopyNothing
    \/ Forget \/ Resolve \/ Record \/ Remove \/ Unrecord \/ Attrs \/ Apply
    \/ \E s \in Side : Scan(s)
LoopStep == TakeEvent \/ HandleFailure \/ StartResync \/ \E s \in Side : RetryDue(s)
FeedStep == \E s \in Side : Pump(s) \/ Release(s)
Fault == Crash \/ CopyTorn \/ \E s \in Side : Overflow(s) \/ Expire(s)

Next == UserStep \/ WorkerStep \/ LoopStep \/ FeedStep \/ Boot \/ Fault \/ Rest

\* Every goroutine that can run does run, the service is restarted by systemd,
\* windows end and backoffs elapse.  Users and faults owe nothing.
Fairness ==
    /\ WF_vars(WorkerStep) /\ WF_vars(Boot)
    /\ WF_vars(TakeEvent) /\ WF_vars(HandleFailure) /\ SF_vars(StartResync)
    /\ \A s \in Side : WF_vars(RetryDue(s)) /\ WF_vars(Pump(s)) /\ WF_vars(Release(s))

Spec == Init /\ [][Next]_vars /\ Fairness

-------------------------------------------------------------------------------
\* Types of the pair.
TypeOK ==
    /\ disk \in [Side -> File] /\ entry \in [Side -> File] /\ inv \in [Side -> File]
    /\ saved \subseteq Stamps /\ shared \subseteq Stamps
    /\ policy \in Policies /\ open \in BOOLEAN /\ up \in BOOLEAN /\ resync \in BOOLEAN
    /\ clock \in 0..MaxClock /\ faults \in 0..MaxFaults
    /\ kern \in [Side -> Seq(Notice)] /\ cnt \in [Side -> Nat]
    /\ slot \in [Side -> Kind \cup {None}]
    /\ out \in Seq(Task) /\ wq \in Seq(Task) /\ failed \in Seq(Task)
    /\ retry \in [Side -> [kind : Kind \cup {None}, attempts : Nat]]
    /\ pc \in {"idle", "decide", "detect", "conflict", "preserve", "copy", "settle", "forget",
               "resolve", "record", "remove", "unrecord", "unrecord2", "attrs", "scan", "scan2", "apply"}
    /\ run \in {"worker", "resync"}
    /\ ev \in [side : Side, kind : Kind \cup {None}] /\ to \in Side

\* "Uma alteracao em A chega a B": once nothing is left to do, both sides hold
\* the same content, or the conflict waits for a human under "manual".
Converged == Quiet => \/ disk["A"] = disk["B"]
                      \/ policy = "manual" /\ open

\* No version a user wrote disappears from a side by the daemon's doing, unless
\* it had reached both sides or was preserved under a conflict name: "preserve"
\* and "manual" promise so, "newer-wins" overwrites.
NoSilentLoss ==
    [][policy # "newer-wins" /\ ~UserStep => \A s \in Side :
          disk[s].c \in UserVersions /\ disk'[s].c # disk[s].c
              => disk[s].c \in saved' \cup shared']_vars

\* The baseline the next boot decides by is what is on disk: a stale row makes
\* originOf and reconcileOneSided blame the wrong side.
BaselineTrue == Quiet /\ ~open => entry = disk

\* "newer-wins": whoever of the two sides a conflict starts on, the version
\* written last is the one that stays.
LastWriteWins == Quiet /\ policy = "newer-wins" => \A s \in Side : disk[s].c = clock

\* A copy that failed half-way stays a defect of its destination.
TornStaysLocal == ~\A s \in Side : disk[s].c > MaxClock

\* The machinery comes to rest: no ping-pong of echoes, no endless retry.
Settles == <>[]Quiet
===============================================================================
