------------------------------ MODULE EngineLoop ------------------------------
(***************************************************************************)
(* internal/engine: the main loop, the dispatcher with its workers, the    *)
(* retry queue and the barriers.  The loop is the only producer of the     *)
(* workers' channels and the only consumer of e.failed; the workers are    *)
(* the producers of e.failed.  All three kinds of channel are bounded.     *)
(*                                                                         *)
(* A path stands for a (side, path) pair.  What process does to the disk   *)
(* is SyncPair's subject: here an event is handled, or it fails.  Backoffs *)
(* and tickers may elapse at any moment.  The send on e.failed and the     *)
(* inflight.Done that follows it are one step.  Of the debouncer there is  *)
(* only its lock, held over a Move's blocked send (moveWaits).             *)
(***************************************************************************)
EXTENDS Naturals, Sequences, FiniteSets

CONSTANTS
    Paths,
    Workers,       \* sync_workers goroutines
    Partition,     \* the worker of each path: fnv32 of its top component
    Moves,         \* may the loop receive renames?
    QueueCap,      \* capacity of a worker's channel (64 in the code)
    FailedCap,     \* capacity of e.failed (256 in the code)
    RetryMax,      \* retry_max_attempts
    ResyncFails,   \* may a full resync return an error?
    FatalExit,     \* may a watcher fail for good?
    MaxEvents,     \* bound: events received in a behaviour
    MaxFailures,   \* bound: events that fail
    MaxRequests,   \* bound: resyncs requested from outside the loop
    NoEvent

\* n numbers the events in the order the loop receives them; a retry keeps it.
Event == [path : Paths, from : Paths, n : 1..MaxEvents, fresh : BOOLEAN]
Item  == [ev : Event, attempts : Nat]
NoItem == [ev |-> NoEvent, attempts |-> 0]

ASSUME LoopAssumption ==
    /\ Partition \in [Paths -> Workers] /\ IsFiniteSet(Workers)
    /\ QueueCap \in Nat \ {0} /\ FailedCap \in Nat \ {0}
    /\ RetryMax \in Nat /\ MaxEvents \in Nat /\ MaxFailures \in Nat /\ MaxRequests \in Nat
    /\ Moves \in BOOLEAN /\ ResyncFails \in BOOLEAN /\ FatalExit \in BOOLEAN
    /\ NoEvent \notin Event

VARIABLES
    at,        \* where the loop is; "select" is its select statement
    job,       \* what it does behind the barrier it waits at
    cur,       \* the event it is dispatching
    due,       \* due items of processRetries not dispatched yet
    queue,     \* the workers' channels
    hold,      \* the event each worker is processing
    reporting, \* workers whose event failed: they are about to report it
    inflight,  \* the WaitGroup's counter
    failed,    \* e.failed
    retry,     \* retryQueue.items
    resync,    \* e.resync holds a request
    fatal,     \* e.fatal holds an error
    ctxDone,
    moveWaits, \* a pump is inside Push: its Move found debo.Out full
    received,  \* events received so far
    failures,  \* failures so far
    requests,  \* outside requests so far
    newest,    \* history: last event received of each path
    owed,      \* history: last event of each path not yet applied
    started    \* history: last fresh event whose processing began, per worker

loopVars  == <<at, job, cur, due, retry>>
workVars  == <<queue, hold, reporting>>
signals   == <<resync, fatal, ctxDone, requests, moveWaits>>
history   == <<newest, owed, started>>
vars == <<loopVars, workVars, inflight, failed, signals, received, failures, history>>

Init ==
    /\ at = "select" /\ job = "none" /\ cur = NoEvent /\ due = {}
    /\ queue = [w \in Workers |-> << >>] /\ hold = [w \in Workers |-> NoEvent]
    /\ reporting = {} /\ inflight = 0 /\ failed = << >>
    /\ retry = [p \in Paths |-> NoItem]
    /\ resync = FALSE /\ fatal = FALSE /\ ctxDone = FALSE /\ moveWaits = FALSE
    /\ received = 0 /\ failures = 0 /\ requests = 0
    /\ newest = [p \in Paths |-> 0] /\ owed = [p \in Paths |-> 0]
    /\ started = [w \in Workers |-> 0]

-------------------------------------------------------------------------------
(* dispatch.                                                                 *)
NeverCrosses(e) == FALSE
CrossesPartitions(e) == Partition[e.from] # Partition[e.path]

Touches(e) == {Partition[e.from], Partition[e.path]}

\* Whatever follows a dispatch: the next due item, or the select.
Back(rest) == IF rest = {} THEN "select" ELSE "retry"

\* Up to the blocking operation: the barrier, or the send on the channel.
DispatchUncounted(e) ==
    /\ cur' = e
    /\ IF CrossesPartitions(e)
       THEN at' = "barrier" /\ job' = "inline" /\ UNCHANGED inflight
       ELSE at' = "send" /\ UNCHANGED <<job, inflight>>

Dispatch(e) ==
    /\ cur' = e
    /\ IF CrossesPartitions(e)
       THEN at' = "barrier" /\ job' = "inline" /\ UNCHANGED inflight
       ELSE at' = "send" /\ inflight' = inflight + 1 /\ UNCHANGED job

SendToWorker ==
    /\ at = "send"
    /\ LET w == Partition[cur.path]
       IN Len(queue[w]) < QueueCap /\ queue' = [queue EXCEPT ![w] = Append(@, cur)]
    /\ at' = Back(due) /\ cur' = NoEvent
    /\ UNCHANGED <<job, due, retry, hold, reporting, inflight, failed, signals, received,
                   failures, history>>

SendCancelled ==
    /\ at = "send" /\ ctxDone
    /\ inflight' = inflight - 1
    /\ at' = Back(due) /\ cur' = NoEvent
    /\ UNCHANGED <<job, due, retry, workVars, failed, signals, received, failures, history>>

\* History: the processing of e begins.
Begun(e) == IF ctxDone \/ ~e.fresh THEN started
            ELSE [w \in Workers |-> IF w \in Touches(e) THEN e.n ELSE started[w]]

\* inflight.Wait.
BarrierIgnored ==
    /\ at = "barrier"
    /\ at' = job /\ started' = IF job = "inline" THEN Begun(cur) ELSE started
    /\ UNCHANGED <<job, cur, due, retry, workVars, inflight, failed, signals, received, failures,
                   newest, owed>>

Barrier ==
    /\ at = "barrier" /\ inflight = 0
    /\ at' = job /\ started' = IF job = "inline" THEN Begun(cur) ELSE started
    /\ UNCHANGED <<job, cur, due, retry, workVars, inflight, failed, signals, received, failures,
                   newest, owed>>

\* An event is applied: nothing older is owed for its paths.
Applied(e) == owed' = [p \in Paths |-> IF p \in {e.path, e.from} /\ owed[p] <= e.n THEN 0
                                       ELSE owed[p]]

CanFail == failures < MaxFailures /\ failures' = failures + 1

\* A rename between partitions, processed by the loop itself.
InlineDone ==
    /\ at = "inline"
    /\ Applied(cur)
    /\ at' = Back(due) /\ cur' = NoEvent /\ job' = "none"
    /\ UNCHANGED <<due, retry, workVars, inflight, failed, signals, received, failures, newest,
                   started>>

InlineFails ==
    /\ at = "inline" /\ CanFail
    /\ at' = "report"
    /\ UNCHANGED <<job, cur, due, retry, workVars, inflight, failed, signals, received, history>>

\* fail: the loop sends to a channel that only the loop reads.
Report(e) ==
    \/ Len(failed) < FailedCap /\ failed' = Append(failed, e)
    \/ ctxDone /\ UNCHANGED failed

InlineReport ==
    /\ at = "report" /\ Report(cur)
    /\ at' = Back(due) /\ cur' = NoEvent /\ job' = "none"
    /\ UNCHANGED <<due, retry, workVars, inflight, signals, received, failures, history>>

-------------------------------------------------------------------------------
(* The workers.                                                              *)
WorkerTake(w) ==
    /\ hold[w] = NoEvent /\ queue[w] # << >>
    /\ LET e == Head(queue[w]) IN
       /\ hold' = [hold EXCEPT ![w] = e]
       /\ started' = Begun(e)
    /\ queue' = [queue EXCEPT ![w] = Tail(@)]
    /\ UNCHANGED <<loopVars, reporting, inflight, failed, signals, received, failures, newest,
                   owed>>

\* What is left after a cancellation is drained, not processed.
WorkerSkip(w) ==
    /\ hold[w] # NoEvent /\ w \notin reporting /\ ctxDone
    /\ hold' = [hold EXCEPT ![w] = NoEvent]
    /\ inflight' = inflight - 1
    /\ UNCHANGED <<loopVars, queue, reporting, failed, signals, received, failures, history>>

WorkerDone(w) ==
    /\ hold[w] # NoEvent /\ w \notin reporting
    /\ Applied(hold[w])
    /\ hold' = [hold EXCEPT ![w] = NoEvent]
    /\ inflight' = inflight - 1
    /\ UNCHANGED <<loopVars, queue, reporting, failed, signals, received, failures, newest,
                   started>>

WorkerFails(w) ==
    /\ hold[w] # NoEvent /\ w \notin reporting /\ CanFail
    /\ reporting' = reporting \cup {w}
    /\ UNCHANGED <<loopVars, queue, hold, inflight, failed, signals, received, history>>

WorkerReport(w) ==
    /\ w \in reporting /\ Report(hold[w])
    /\ reporting' = reporting \ {w}
    /\ hold' = [hold EXCEPT ![w] = NoEvent]
    /\ inflight' = inflight - 1
    /\ UNCHANGED <<loopVars, queue, signals, received, failures, history>>

-------------------------------------------------------------------------------
(* The branches of the select.                                               *)
NewEvents == {e \in [path : Paths, from : Paths, n : {received + 1}, fresh : {TRUE}] :
                  Moves \/ e.from = e.path}

\* Push holds the debouncer's lock over a Move's send.  That rename is behind a
\* full channel (1024), hence behind all the events a behaviour receives.
MoveBlocks ==
    /\ ~moveWaits /\ ~ctxDone /\ at \notin {"join", "done"}
    /\ moveWaits' = TRUE
    /\ UNCHANGED <<loopVars, workVars, inflight, failed, resync, fatal, ctxDone, requests,
                   received, failures, history>>

\* emit's ctx.Done.  Its d.done is closed by Close only, under the same lock.
MoveStays == FALSE /\ UNCHANGED vars
MoveLeaves ==
    /\ moveWaits /\ ctxDone
    /\ moveWaits' = FALSE
    /\ UNCHANGED <<loopVars, workVars, inflight, failed, resync, fatal, ctxDone, requests,
                   received, failures, history>>

\* debo.Out, where a blocked Move finds room now: cancel what waits for the
\* path, then dispatch.
Receive(e) ==
    /\ at = "select" /\ received < MaxEvents /\ e \in NewEvents
    /\ received' = received + 1
    /\ newest' = [newest EXCEPT ![e.path] = e.n]
    /\ owed' = [p \in Paths |-> IF p \in {e.path, e.from} THEN e.n ELSE owed[p]]
    /\ retry' = [retry EXCEPT ![e.path] = NoItem]
    /\ Dispatch(e)
    /\ moveWaits' = FALSE
    /\ UNCHANGED <<due, workVars, failed, resync, fatal, ctxDone, requests, failures, started>>

\* handleFailure and retryQueue.schedule.
GiveUpSilently ==
    /\ at = "select" /\ failed # << >>
    /\ LET e == Head(failed)
           n == retry[e.path].attempts + 1
       IN retry' = [retry EXCEPT ![e.path] = IF n >= RetryMax THEN NoItem
                                              ELSE [ev |-> e, attempts |-> n]]
    /\ failed' = Tail(failed)
    /\ UNCHANGED <<at, job, cur, due, workVars, inflight, signals, received, failures, history>>

HandleFailure ==
    /\ at = "select" /\ failed # << >>
    /\ LET e == Head(failed)
           n == retry[e.path].attempts + 1
       IN IF n >= RetryMax
          THEN retry' = [retry EXCEPT ![e.path] = NoItem] /\ resync' = TRUE
          ELSE retry' = [retry EXCEPT ![e.path] = [ev |-> e, attempts |-> n]] /\ UNCHANGED resync
    /\ failed' = Tail(failed)
    /\ UNCHANGED <<at, job, cur, due, workVars, inflight, fatal, ctxDone, requests, moveWaits,
                   received, failures, history>>

\* processRetries: due takes the expired items out, then each is dispatched.
RetryTick(ps) ==
    /\ at = "select" /\ ps # {} /\ \A p \in ps : retry[p] # NoItem
    /\ due' = {[retry[p].ev EXCEPT !.fresh = FALSE] : p \in ps}
    /\ retry' = [p \in Paths |-> IF p \in ps THEN NoItem ELSE retry[p]]
    /\ at' = "retry"
    /\ UNCHANGED <<job, cur, workVars, inflight, failed, signals, received, failures, history>>

RetryNext(e) ==
    /\ at = "retry" /\ e \in due
    /\ due' = due \ {e}
    /\ Dispatch(e)
    /\ UNCHANGED <<retry, workVars, failed, signals, received, failures, history>>

\* e.resync and the heartbeat: both wait for the workers first.
StartBarrier(what) ==
    /\ at = "select"
    /\ IF what = "resync" THEN resync /\ resync' = FALSE ELSE UNCHANGED resync
    /\ at' = "barrier" /\ job' = what
    /\ UNCHANGED <<cur, due, retry, workVars, inflight, failed, fatal, ctxDone, requests,
                   moveWaits, received, failures, history>>

\* FullResync reconciles everything, or its error is logged.
ResyncDone ==
    /\ at = "resync"
    /\ owed' \in {[p \in Paths |-> 0]} \cup (IF ResyncFails THEN {owed} ELSE {})
    /\ at' = "select" /\ job' = "none"
    /\ UNCHANGED <<cur, due, retry, workVars, inflight, failed, signals, received, failures, newest,
                   started>>

BeatDone ==
    /\ at = "beat"
    /\ at' = "select" /\ job' = "none"
    /\ UNCHANGED <<cur, due, retry, workVars, inflight, failed, signals, received, failures,
                   history>>

\* ctx.Done or e.fatal: debo.Close, which needs the debouncer's lock; then
\* dispatcher.close closes the channels and waits for the workers to drain them.
ExitOnCancel ==
    /\ at = "select" /\ ctxDone
    /\ at' = "close"
    /\ UNCHANGED <<job, cur, due, retry, workVars, inflight, failed, signals, received, failures,
                   history>>

Exit ==
    /\ at = "select" /\ (ctxDone \/ fatal)
    /\ at' = "close"
    /\ UNCHANGED <<job, cur, due, retry, workVars, inflight, failed, signals, received, failures,
                   history>>

DeboClosed ==
    /\ at = "close" /\ ~moveWaits
    /\ at' = "join"
    /\ UNCHANGED <<job, cur, due, retry, workVars, inflight, failed, signals, received, failures,
                   history>>

Joined ==
    /\ at = "join" /\ \A w \in Workers : queue[w] = << >> /\ hold[w] = NoEvent
    /\ at' = "done"
    /\ UNCHANGED <<job, cur, due, retry, workVars, inflight, failed, signals, received, failures,
                   history>>

-------------------------------------------------------------------------------
(* The rest of the process.                                                  *)
Cancel ==
    /\ ~ctxDone /\ ctxDone' = TRUE
    /\ UNCHANGED <<loopVars, workVars, inflight, failed, resync, fatal, requests, moveWaits,
                   received, failures, history>>

\* watchSignals: an overflow, or a watcher that lost its root.
RequestResync ==
    /\ requests < MaxRequests /\ at # "done"
    /\ requests' = requests + 1 /\ resync' = TRUE
    /\ UNCHANGED <<loopVars, workVars, inflight, failed, fatal, ctxDone, moveWaits, received,
                   failures, history>>

WatcherDies ==
    /\ FatalExit /\ ~fatal /\ fatal' = TRUE
    /\ UNCHANGED <<loopVars, workVars, inflight, failed, resync, ctxDone, requests, moveWaits,
                   received, failures, history>>

Terminated == at = "done" /\ UNCHANGED vars

InlineStep == InlineDone \/ InlineFails \/ InlineReport
WorkerStep(w) == WorkerSkip(w) \/ WorkerDone(w) \/ WorkerFails(w) \/ WorkerReport(w)

Next ==
    \/ \E e \in NewEvents : Receive(e)
    \/ HandleFailure \/ Exit \/ DeboClosed \/ Joined \/ MoveBlocks \/ MoveLeaves
    \/ \E ps \in SUBSET Paths : RetryTick(ps)
    \/ \E e \in due : RetryNext(e)
    \/ \E what \in {"resync", "beat"} : StartBarrier(what)
    \/ SendToWorker \/ SendCancelled \/ Barrier \/ ResyncDone \/ BeatDone \/ InlineStep
    \/ \E w \in Workers : WorkerTake(w) \/ WorkerStep(w)
    \/ Cancel \/ RequestResync \/ WatcherDies
    \/ Terminated

\* Goroutines that can run do run, and a handler returns.  A Go select picks
\* at random among its ready branches: each one that is ready again and again
\* is taken in the end, hence strong fairness.  The heartbeat owes nothing.
Fairness ==
    /\ SF_vars(HandleFailure) /\ SF_vars(Exit) /\ SF_vars(StartBarrier("resync"))
    /\ \A p \in Paths : SF_vars(\E ps \in SUBSET Paths : p \in ps /\ RetryTick(ps))
    /\ WF_vars(\E e \in due : RetryNext(e))
    /\ WF_vars(SendToWorker \/ SendCancelled) /\ WF_vars(Barrier)
    /\ WF_vars(ResyncDone) /\ WF_vars(BeatDone) /\ WF_vars(InlineStep)
    /\ WF_vars(MoveLeaves) /\ WF_vars(DeboClosed) /\ WF_vars(Joined)
    /\ \A w \in Workers : WF_vars(WorkerTake(w)) /\ WF_vars(WorkerStep(w))

Spec == Init /\ [][Next]_vars /\ Fairness

-------------------------------------------------------------------------------
Held == {hold[w] : w \in Workers} \ {NoEvent}
InQueues == UNION {{queue[w][i] : i \in DOMAIN queue[w]} : w \in Workers}
InFailed == {failed[i] : i \in DOMAIN failed}
InRetry  == {retry[p].ev : p \in Paths} \ {NoEvent}
InHand   == IF at \in {"send", "inline", "report"} \/ (at = "barrier" /\ job = "inline")
            THEN {cur} ELSE {}

\* Types of the loop's state.
TypeOK ==
    /\ at \in {"select", "send", "retry", "barrier", "inline", "report", "resync", "beat",
               "close", "join", "done"}
    /\ job \in {"none", "inline", "resync", "beat"}
    /\ cur \in Event \cup {NoEvent} /\ due \subseteq Event
    /\ queue \in [Workers -> Seq(Event)] /\ hold \in [Workers -> Event \cup {NoEvent}]
    /\ reporting \subseteq Workers /\ inflight \in Nat /\ failed \in Seq(Event)
    /\ retry \in [Paths -> Item \cup {NoItem}]
    /\ resync \in BOOLEAN /\ fatal \in BOOLEAN /\ ctxDone \in BOOLEAN
    /\ moveWaits \in BOOLEAN
    /\ received \in 0..MaxEvents /\ failures \in 0..MaxFailures /\ requests \in 0..MaxRequests
    /\ newest \in [Paths -> 0..MaxEvents] /\ owed \in [Paths -> 0..MaxEvents]
    /\ started \in [Workers -> 0..MaxEvents]

\* Behind a barrier the loop is alone: a resync, a resolution or a rename
\* between partitions never decides about a path together with a worker.
BarrierExclusive ==
    at \in {"inline", "report", "resync", "beat"} => Held = {} /\ InQueues = {}

\* Events of a subtree begin in the order the loop received them, renames
\* between subtrees included.
InOrder == [][\A w \in Workers : started'[w] >= started[w]]_vars

\* An event that was not applied is still in somebody's hands, or a resync is
\* going to cover it: a failure never leaves a silent divergence behind.
NothingForgotten ==
    ~ctxDone /\ at \notin {"close", "join", "done"} =>
        \A p \in Paths : owed[p] # 0 =>
            \/ \E e \in Held \cup InQueues \cup InFailed \cup InRetry \cup due \cup InHand :
                   p \in {e.path, e.from} /\ e.n = owed[p]
            \/ resync \/ job = "resync"

\* "Um evento novo torna irrelevante qualquer tentativa pendente para o mesmo
\* path": what waits for a retry is the last event received of its path.
RetryIsNewest == \A e \in InRetry : e.n = newest[e.path]

\* A cancelled context ends the process, full channels or not.
CancelReturns == ctxDone ~> at = "done"

\* The state the loop cannot leave by itself when it waits for a worker.
Full == Len(failed) = FailedCap

\* Nothing but a cancellation ends this: Close waits for the lock of a Push that
\* waits for a channel nobody reads any more.
CloseStuck == at = "close" /\ moveWaits

\* A watcher that lost its root ends the process, so that systemd restarts it,
\* as long as the workers can report their failures and no rename is blocked in
\* the debouncer.
FatalReturns == fatal ~> (at = "done" \/ Full \/ CloseStuck)

\* While the service runs and e.failed has room, every event received is applied
\* in the end.
EventuallyApplied == \A p \in Paths : owed[p] # 0 ~> (owed[p] = 0 \/ ctxDone \/ fatal \/ Full)

\* The same without the room: every failure is retried or covered by a resync,
\* however many there are.
AlwaysRetried == \A p \in Paths : owed[p] # 0 ~> (owed[p] = 0 \/ ctxDone \/ fatal)
===============================================================================
