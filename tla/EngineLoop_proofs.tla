--------------------------- MODULE EngineLoop_proofs ---------------------------
(* Proofs about EngineLoop, for any number of workers, paths, events and        *)
(* failures, any partition and any capacity of the channels.                    *)
EXTENDS EngineLoop, FiniteSetTheorems, TLAPS

(* TypeOK without the WaitGroup's counter: that the counter never becomes       *)
(* negative (a panic in Go) takes the invariant Counted below.                  *)
LoopTypes ==
    /\ at \in {"select", "send", "retry", "barrier", "inline", "report", "resync", "beat",
               "close", "join", "done"}
    /\ job \in {"none", "inline", "resync", "beat"}
    /\ cur \in Event \cup {NoEvent} /\ due \subseteq Event
    /\ queue \in [Workers -> Seq(Event)] /\ hold \in [Workers -> Event \cup {NoEvent}]
    /\ reporting \subseteq Workers /\ failed \in Seq(Event)
    /\ retry \in [Paths -> Item \cup {NoItem}]
    /\ resync \in BOOLEAN /\ fatal \in BOOLEAN /\ ctxDone \in BOOLEAN
    /\ moveWaits \in BOOLEAN
    /\ received \in 0..MaxEvents /\ failures \in 0..MaxFailures /\ requests \in 0..MaxRequests
    /\ newest \in [Paths -> 0..MaxEvents] /\ owed \in [Paths -> 0..MaxEvents]
    /\ started \in [Workers -> 0..MaxEvents]

(* Who is inside an operation has an event in hand, and the loop waits at a     *)
(* barrier for something.                                                       *)
Hands ==
    /\ at \in {"send", "inline", "report"} => cur \in Event
    /\ at = "barrier" => job # "none"
    /\ at = "barrier" /\ job = "inline" => cur \in Event
    /\ \A w \in reporting : hold[w] # NoEvent

TypeInv == LoopTypes /\ Hands

--------------------------------------------------------------------------------
LEMMA RetryItem ==
    ASSUME NEW p \in Paths, retry \in [Paths -> Item \cup {NoItem}]
    PROVE  /\ retry[p].attempts \in Nat
           /\ retry[p] # NoItem => retry[p].ev \in Event
BY DEF Item, NoItem

LEMMA DispatchType ==
    ASSUME NEW e \in Event, Dispatch(e), job \in {"none", "inline", "resync", "beat"}
    PROVE  /\ cur' = e /\ at' \in {"send", "barrier"}
           /\ job' \in {"none", "inline", "resync", "beat"}
           /\ at' = "barrier" => job' = "inline"
BY DEF Dispatch

LEMMA ReportType ==
    ASSUME NEW e \in Event, failed \in Seq(Event), Report(e)
    PROVE  failed' \in Seq(Event)
<1>1. Append(failed, e) \in Seq(Event)
  OBVIOUS
<1> QED BY <1>1 DEF Report

LEMMA BackType == \A rest : Back(rest) \in {"select", "retry"}
BY DEF Back

LEMMA BegunType ==
    ASSUME NEW e \in Event, started \in [Workers -> 0..MaxEvents], LoopAssumption
    PROVE  Begun(e) \in [Workers -> 0..MaxEvents]
BY DEF Begun, Event, LoopAssumption

LEMMA AppliedType ==
    ASSUME NEW e, owed \in [Paths -> 0..MaxEvents], LoopAssumption, Applied(e)
    PROVE  owed' \in [Paths -> 0..MaxEvents]
BY DEF Applied, LoopAssumption

\* What the loop receives is an event, numbered by its arrival.
LEMMA ReceivedType ==
    ASSUME NEW e \in NewEvents, LoopAssumption, received \in 0..MaxEvents, received < MaxEvents
    PROVE  e \in Event /\ e.n = received + 1 /\ e.n \in 0..MaxEvents /\ e.path \in Paths
<1>1. e \in [path : Paths, from : Paths, n : {received + 1}, fresh : {TRUE}]
  BY DEF NewEvents
<1>2. received + 1 \in 1..MaxEvents /\ received + 1 \in 0..MaxEvents
  BY DEF LoopAssumption
<1>3. e.n = received + 1 /\ e.path \in Paths
  BY <1>1
<1>4. e \in Event
  BY <1>1, <1>2 DEF Event
<1> QED BY <1>2, <1>3, <1>4

LEMMA InitTypes == Init /\ LoopAssumption => TypeInv
<1> SUFFICES ASSUME Init, LoopAssumption PROVE TypeInv
  OBVIOUS
<1>1. 0 \in 0..MaxEvents /\ 0 \in 0..MaxFailures /\ 0 \in 0..MaxRequests
  BY DEF LoopAssumption
<1>2. << >> \in Seq(Event)
  OBVIOUS
<1> QED BY <1>1, <1>2 DEF Init, TypeInv, LoopTypes, Hands

\* The steps of the loop outside its select.
LEMMA LoopSteps ==
    ASSUME LoopAssumption, TypeInv,
           SendToWorker \/ SendCancelled \/ Barrier \/ InlineStep \/ ResyncDone \/ BeatDone
    PROVE  TypeInv'
<1> USE BackType DEF TypeInv
<1>1. CASE SendToWorker
  <2>1. cur \in Event /\ cur.path \in Paths
    BY <1>1 DEF SendToWorker, Hands, Event
  <2>2. Partition[cur.path] \in Workers
    BY <2>1 DEF LoopAssumption
  <2>3. queue' \in [Workers -> Seq(Event)]
    <3>1. Append(queue[Partition[cur.path]], cur) \in Seq(Event)
      BY <2>1, <2>2 DEF LoopTypes
    <3> QED BY <1>1, <2>2, <3>1 DEF SendToWorker, LoopTypes
  <2>4. at' \in {"select", "retry"} /\ cur' = NoEvent
    BY <1>1 DEF SendToWorker
  <2>5. LoopTypes'
    BY <1>1, <2>3, <2>4 DEF SendToWorker, LoopTypes, signals, history
  <2> QED BY <1>1, <2>4, <2>5 DEF SendToWorker, Hands
<1>2. CASE SendCancelled
  <2>1. at' \in {"select", "retry"} /\ cur' = NoEvent
    BY <1>2 DEF SendCancelled
  <2> QED BY <1>2, <2>1 DEF SendCancelled, LoopTypes, Hands, workVars, signals, history
<1>3. CASE Barrier
  <2>1. at' = job /\ job # "none" /\ job' = job /\ cur' = cur
    BY <1>3 DEF Barrier, Hands
  <2>2. job = "inline" => cur \in Event
    BY <1>3 DEF Barrier, Hands
  <2>3. started' \in [Workers -> 0..MaxEvents]
    BY <1>3, <2>2, BegunType DEF Barrier, LoopTypes
  <2>4. LoopTypes'
    BY <1>3, <2>1, <2>3 DEF Barrier, LoopTypes, workVars, signals
  <2> QED BY <1>3, <2>1, <2>2, <2>4 DEF Barrier, LoopTypes, Hands, workVars
<1>4. CASE InlineDone
  <2>1. at' \in {"select", "retry"} /\ cur' = NoEvent
    BY <1>4 DEF InlineDone
  <2>2. owed' \in [Paths -> 0..MaxEvents]
    BY <1>4, AppliedType DEF InlineDone, LoopTypes
  <2> QED BY <1>4, <2>1, <2>2 DEF InlineDone, LoopTypes, Hands, workVars, signals
<1>5. CASE InlineFails
  <2>1. failures' \in 0..MaxFailures
    BY <1>5 DEF InlineFails, CanFail, LoopTypes, LoopAssumption
  <2> QED BY <1>5, <2>1 DEF InlineFails, LoopTypes, Hands, workVars, signals, history
<1>6. CASE InlineReport
  <2>1. cur \in Event
    BY <1>6 DEF InlineReport, Hands
  <2>2. failed' \in Seq(Event)
    BY <1>6, <2>1, ReportType DEF InlineReport, LoopTypes
  <2>3. at' \in {"select", "retry"} /\ cur' = NoEvent
    BY <1>6 DEF InlineReport
  <2> QED BY <1>6, <2>2, <2>3 DEF InlineReport, LoopTypes, Hands, workVars, signals, history
<1>7. CASE ResyncDone
  <2>1. owed' \in [Paths -> 0..MaxEvents]
    BY <1>7, SMTT(30) DEF ResyncDone, LoopTypes, LoopAssumption
  <2> QED BY <1>7, <2>1 DEF ResyncDone, LoopTypes, Hands, workVars, signals
<1>8. CASE BeatDone
  BY <1>8 DEF BeatDone, LoopTypes, Hands, workVars, signals, history
<1> QED BY <1>1, <1>2, <1>3, <1>4, <1>5, <1>6, <1>7, <1>8 DEF InlineStep

\* The steps of a worker.
LEMMA WorkerSteps ==
    ASSUME LoopAssumption, TypeInv, NEW w \in Workers, WorkerTake(w) \/ WorkerStep(w)
    PROVE  TypeInv'
<1> USE DEF TypeInv
<1>1. CASE WorkerTake(w)
  <2> DEFINE e == Head(queue[w])
  <2>1. queue[w] \in Seq(Event) /\ queue[w] # << >> /\ hold[w] = NoEvent
    BY <1>1 DEF WorkerTake, LoopTypes
  <2>2. e \in Event /\ Tail(queue[w]) \in Seq(Event)
    BY <2>1
  <2>3. started' \in [Workers -> 0..MaxEvents]
    BY <1>1, <2>2, BegunType DEF WorkerTake, LoopTypes
  <2>4. hold' = [hold EXCEPT ![w] = e] /\ queue' = [queue EXCEPT ![w] = Tail(@)]
    BY <1>1 DEF WorkerTake
  <2>5. hold' \in [Workers -> Event \cup {NoEvent}] /\ queue' \in [Workers -> Seq(Event)]
    BY <2>2, <2>4 DEF LoopTypes
  <2>6. \A v \in reporting' : hold'[v] # NoEvent
    BY <1>1, <2>2, <2>4 DEF WorkerTake, Hands, LoopTypes, LoopAssumption
  <2>7. LoopTypes'
    BY <1>1, <2>3, <2>5 DEF WorkerTake, LoopTypes, loopVars, signals
  <2> QED BY <1>1, <2>6, <2>7 DEF WorkerTake, Hands, loopVars
<1>2. CASE WorkerSkip(w)
  BY <1>2 DEF WorkerSkip, LoopTypes, Hands, loopVars, signals, history
<1>3. CASE WorkerDone(w)
  <2>1. owed' \in [Paths -> 0..MaxEvents]
    BY <1>3, AppliedType DEF WorkerDone, LoopTypes
  <2> QED BY <1>3, <2>1 DEF WorkerDone, LoopTypes, Hands, loopVars, signals
<1>4. CASE WorkerFails(w)
  <2>1. failures' \in 0..MaxFailures
    BY <1>4 DEF WorkerFails, CanFail, LoopTypes, LoopAssumption
  <2> QED BY <1>4, <2>1 DEF WorkerFails, LoopTypes, Hands, loopVars, signals, history
<1>5. CASE WorkerReport(w)
  <2>1. hold[w] \in Event
    BY <1>5 DEF WorkerReport, Hands, LoopTypes
  <2>2. failed' \in Seq(Event)
    BY <1>5, <2>1, ReportType DEF WorkerReport, LoopTypes
  <2> QED BY <1>5, <2>2 DEF WorkerReport, LoopTypes, Hands, loopVars, signals, history
<1> QED BY <1>1, <1>2, <1>3, <1>4, <1>5 DEF WorkerStep

\* The branches of the select, and the retries they leave to dispatch.
LEMMA SelectSteps ==
    ASSUME LoopAssumption, TypeInv,
           \/ \E e \in NewEvents : Receive(e)
           \/ HandleFailure \/ Exit \/ DeboClosed \/ Joined
           \/ \E ps \in SUBSET Paths : RetryTick(ps)
           \/ \E e \in due : RetryNext(e)
           \/ \E what \in {"resync", "beat"} : StartBarrier(what)
    PROVE  TypeInv'
<1> USE DEF TypeInv
<1>1. ASSUME NEW e \in NewEvents, Receive(e) PROVE TypeInv'
  <2>1. e \in Event /\ e.n \in 0..MaxEvents /\ received' \in 0..MaxEvents /\ e.path \in Paths
    BY <1>1, ReceivedType DEF Receive, LoopTypes
  <2>2. newest' \in [Paths -> 0..MaxEvents] /\ owed' \in [Paths -> 0..MaxEvents]
    BY <1>1, <2>1 DEF Receive, LoopTypes
  <2>3. retry' \in [Paths -> Item \cup {NoItem}]
    BY <1>1, <2>1 DEF Receive, LoopTypes
  <2>4. /\ cur' = e /\ at' \in {"send", "barrier"}
        /\ job' \in {"none", "inline", "resync", "beat"}
        /\ at' = "barrier" => job' = "inline"
    BY <1>1, <2>1, DispatchType DEF Receive, LoopTypes
  <2>5. LoopTypes'
    BY <1>1, <2>1, <2>2, <2>3, <2>4 DEF Receive, LoopTypes, workVars, signals
  <2> QED BY <1>1, <2>1, <2>4, <2>5 DEF Receive, Hands, workVars
<1>2. CASE HandleFailure
  <2> DEFINE e == Head(failed)
             n == retry[e.path].attempts + 1
  <2>1. e \in Event /\ Tail(failed) \in Seq(Event) /\ e.path \in Paths
    <3>1. failed \in Seq(Event) /\ failed # << >>
      BY <1>2 DEF HandleFailure, LoopTypes
    <3>2. e \in Event /\ Tail(failed) \in Seq(Event)
      BY <3>1
    <3> QED BY <3>2 DEF Event
  <2>2. n \in Nat
    <3>1. retry \in [Paths -> Item \cup {NoItem}]
      BY DEF LoopTypes
    <3>2. retry[e.path].attempts \in Nat
      BY <2>1, <3>1, RetryItem
    <3> HIDE DEF e
    <3> QED BY <3>2
  <2>3. [ev |-> e, attempts |-> n] \in Item
    BY <2>1, <2>2 DEF Item
  <2>4. \/ retry' = [retry EXCEPT ![e.path] = NoItem] /\ resync' = TRUE
        \/ retry' = [retry EXCEPT ![e.path] = [ev |-> e, attempts |-> n]] /\ resync' = resync
    BY <1>2 DEF HandleFailure
  <2> HIDE DEF e, n
  <2>5. retry' \in [Paths -> Item \cup {NoItem}] /\ resync' \in BOOLEAN
    BY <2>1, <2>3, <2>4 DEF LoopTypes
  <2>6. failed' \in Seq(Event)
    BY <1>2, <2>1 DEF HandleFailure, e
  <2> QED BY <1>2, <2>5, <2>6 DEF HandleFailure, LoopTypes, Hands, workVars, history
<1>3. CASE Exit \/ DeboClosed \/ Joined
  BY <1>3 DEF Exit, DeboClosed, Joined, LoopTypes, Hands, workVars, signals, history
<1>4. ASSUME NEW ps \in SUBSET Paths, RetryTick(ps) PROVE TypeInv'
  <2>1. \A p \in ps : retry[p].ev \in Event
    BY <1>4, RetryItem DEF RetryTick, LoopTypes
  <2>2. \A p \in ps : [retry[p].ev EXCEPT !.fresh = FALSE] \in Event
    BY <2>1 DEF Event
  <2>3. due' \subseteq Event
    BY <1>4, <2>2 DEF RetryTick
  <2>4. retry' \in [Paths -> Item \cup {NoItem}]
    BY <1>4 DEF RetryTick, LoopTypes
  <2> QED BY <1>4, <2>3, <2>4 DEF RetryTick, LoopTypes, Hands, workVars, signals, history
<1>5. ASSUME NEW e \in due, RetryNext(e) PROVE TypeInv'
  <2>1. e \in Event /\ due' \subseteq Event
    BY <1>5 DEF RetryNext, LoopTypes
  <2>2. /\ cur' = e /\ at' \in {"send", "barrier"}
        /\ job' \in {"none", "inline", "resync", "beat"}
        /\ at' = "barrier" => job' = "inline"
    BY <1>5, <2>1, DispatchType DEF RetryNext, LoopTypes
  <2>3. LoopTypes'
    BY <1>5, <2>1, <2>2 DEF RetryNext, LoopTypes, workVars, signals, history
  <2> QED BY <1>5, <2>1, <2>2, <2>3 DEF RetryNext, Hands, workVars
<1>6. ASSUME NEW what \in {"resync", "beat"}, StartBarrier(what) PROVE TypeInv'
  BY <1>6 DEF StartBarrier, LoopTypes, Hands, workVars, history
<1> QED BY <1>1, <1>2, <1>3, <1>4, <1>5, <1>6

LEMMA TypeStep == LoopAssumption /\ TypeInv /\ [Next]_vars => TypeInv'
<1> SUFFICES ASSUME LoopAssumption, TypeInv, [Next]_vars PROVE TypeInv'
  OBVIOUS
<1>1. CASE Cancel
  BY <1>1 DEF Cancel, TypeInv, LoopTypes, Hands, loopVars, workVars, history
<1>2. CASE RequestResync
  <2>1. requests' \in 0..MaxRequests
    BY <1>2 DEF RequestResync, TypeInv, LoopTypes, LoopAssumption
  <2> QED BY <1>2, <2>1 DEF RequestResync, TypeInv, LoopTypes, Hands, loopVars, workVars, history
<1>3. CASE WatcherDies
  BY <1>3 DEF WatcherDies, TypeInv, LoopTypes, Hands, loopVars, workVars, history
<1>4. CASE Terminated \/ UNCHANGED vars
  BY <1>4 DEF Terminated, vars, TypeInv, LoopTypes, Hands, loopVars, workVars, signals, history
<1>5. CASE MoveBlocks \/ MoveLeaves
  BY <1>5 DEF MoveBlocks, MoveLeaves, TypeInv, LoopTypes, Hands, loopVars, workVars, history
<1> QED BY <1>1, <1>2, <1>3, <1>4, <1>5, LoopSteps, WorkerSteps, SelectSteps DEF Next

--------------------------------------------------------------------------------
(* The WaitGroup counts the work there is: the events in the workers' channels, *)
(* the events the workers hold, and the one the loop is about to send.  It is   *)
(* raised before the send, so it can only be too high, never too low.           *)
Work == {x \in Workers \X Nat : IF x[2] = 0 THEN hold[x[1]] # NoEvent
                                ELSE x[2] <= Len(queue[x[1]])}

Counted ==
    /\ IsFiniteSet(Work)
    /\ inflight = Cardinality(Work) + (IF at = "send" THEN 1 ELSE 0)

(* What the loop does behind a barrier it does with a counter of zero.          *)
Alone == at \in {"inline", "report", "resync", "beat"} => inflight = 0

CountInv == TypeInv /\ Counted /\ Alone

LEMMA HoldWork ==
    ASSUME NEW w \in Workers
    PROVE  <<w, 0>> \in Work <=> hold[w] # NoEvent
BY DEF Work

LEMMA QueueWork ==
    ASSUME NEW w \in Workers, NEW i \in Nat \ {0}
    PROVE  <<w, i>> \in Work <=> i <= Len(queue[w])
BY DEF Work

LEMMA SameWork == UNCHANGED <<queue, hold>> => Work' = Work
BY DEF Work

\* Work that exists keeps the counter above zero.
LEMMA CountPositive ==
    ASSUME Counted, NEW x \in Work
    PROVE  /\ Cardinality(Work) \in Nat \ {0} /\ inflight \in Nat \ {0}
           /\ ~(at \in {"inline", "report", "resync", "beat"} /\ Alone)
<1>1. Cardinality(Work) \in Nat /\ Cardinality(Work) # 0
  BY FS_CardinalityType, FS_EmptySet DEF Counted
<1> QED BY <1>1 DEF Counted, Alone

\* An event leaves its worker and the counter: the last two things of a worker's turn.
LEMMA WorkLeaves ==
    ASSUME LoopTypes, Counted, Alone, NEW w \in Workers, hold[w] # NoEvent,
           hold' = [hold EXCEPT ![w] = NoEvent], queue' = queue, at' = at,
           inflight' = inflight - 1
    PROVE  Counted' /\ Alone'
<1>1. Work' = Work \ {<<w, 0>>}
  BY DEF Work, LoopTypes
<1>2. <<w, 0>> \in Work
  BY HoldWork
<1>3. IsFiniteSet(Work') /\ Cardinality(Work') = Cardinality(Work) - 1
  BY <1>1, <1>2, FS_RemoveElement DEF Counted
<1>4. Cardinality(Work) \in Nat \ {0} /\ at \notin {"inline", "report", "resync", "beat"}
  BY <1>2, CountPositive
<1> QED BY <1>3, <1>4 DEF Counted, Alone

\* Taking an event from the channel moves work, it makes none.
LEMMA WorkMoves ==
    ASSUME LoopAssumption, LoopTypes, Counted, Alone, NEW w \in Workers, WorkerTake(w)
    PROVE  Counted' /\ Alone'
<1> DEFINE n == Len(queue[w])
<1>1. queue[w] \in Seq(Event) /\ n \in Nat \ {0} /\ hold[w] = NoEvent
  BY DEF WorkerTake, LoopTypes
<1>2. Len(Tail(queue[w])) = n - 1 /\ Head(queue[w]) # NoEvent
  <2>1. Head(queue[w]) \in Event
    BY <1>1
  <2> QED BY <1>1, <2>1 DEF LoopAssumption
<1>3. /\ queue' = [queue EXCEPT ![w] = Tail(queue[w])]
      /\ hold' = [hold EXCEPT ![w] = Head(queue[w])]
      /\ at' = at /\ inflight' = inflight
  BY DEF WorkerTake, loopVars
<1>4. /\ Len(queue'[w]) = n - 1 /\ hold'[w] # NoEvent
      /\ \A v \in Workers \ {w} : queue'[v] = queue[v] /\ hold'[v] = hold[v]
  BY <1>2, <1>3 DEF LoopTypes
<1> HIDE DEF n
<1>5. Work' = (Work \ {<<w, n>>}) \cup {<<w, 0>>}
  <2>1. ASSUME NEW v \in Workers \ {w}, NEW i \in Nat
        PROVE  <<v, i>> \in Work' <=> <<v, i>> \in Work
    BY <1>4 DEF Work
  <2>2. ASSUME NEW i \in Nat
        PROVE  <<w, i>> \in Work' <=> <<w, i>> \in (Work \ {<<w, n>>}) \cup {<<w, 0>>}
    BY <1>1, <1>4 DEF Work, n
  <2>3. Work \subseteq Workers \X Nat /\ Work' \subseteq Workers \X Nat
    BY DEF Work
  <2> QED BY <2>1, <2>2, <2>3, <1>1
<1>6. <<w, n>> \in Work /\ <<w, 0>> \notin Work \ {<<w, n>>}
  BY <1>1, QueueWork, HoldWork DEF n
<1>7. IsFiniteSet(Work \ {<<w, n>>}) /\ Cardinality(Work \ {<<w, n>>}) = Cardinality(Work) - 1
  BY <1>6, FS_RemoveElement DEF Counted
<1>8. Cardinality(Work) \in Nat
  BY FS_CardinalityType DEF Counted
<1>9. IsFiniteSet(Work') /\ Cardinality(Work') = Cardinality(Work)
  <2> DEFINE rest == Work \ {<<w, n>>}
  <2>1. IsFiniteSet(rest) /\ <<w, 0>> \notin rest /\ Work' = rest \cup {<<w, 0>>}
    BY <1>5, <1>6, <1>7
  <2>2. Cardinality(rest) = Cardinality(Work) - 1
    BY <1>7
  <2> HIDE DEF rest
  <2>3. IsFiniteSet(rest \cup {<<w, 0>>})
        /\ Cardinality(rest \cup {<<w, 0>>}) = Cardinality(rest) + 1
    BY <2>1, FS_AddElement
  <2> QED BY <2>1, <2>2, <2>3, <1>8
<1> QED BY <1>3, <1>9 DEF Counted, Alone

\* The send turns the event announced to the WaitGroup into work.
LEMMA WorkArrives ==
    ASSUME LoopAssumption, TypeInv, Counted, SendToWorker
    PROVE  Counted' /\ Alone'
<1> DEFINE w == Partition[cur.path]
           n == Len(queue[w]) + 1
<1>1. w \in Workers /\ cur \in Event
  BY DEF SendToWorker, TypeInv, Hands, Event, LoopAssumption
<1>2. queue[w] \in Seq(Event) /\ n \in Nat \ {0}
  BY <1>1 DEF TypeInv, LoopTypes
<1>3. /\ queue' = [queue EXCEPT ![w] = Append(queue[w], cur)] /\ hold' = hold
      /\ at = "send" /\ at' \in {"select", "retry"} /\ inflight' = inflight
  BY BackType DEF SendToWorker
<1>4. /\ Len(queue'[w]) = n
      /\ \A v \in Workers \ {w} : queue'[v] = queue[v]
  <2>1. queue'[w] = Append(queue[w], cur)
    BY <1>1, <1>3 DEF TypeInv, LoopTypes
  <2>2. Len(Append(queue[w], cur)) = n
    BY <1>1, <1>2
  <2>3. \A v \in Workers \ {w} : queue'[v] = queue[v]
    BY <1>3 DEF TypeInv, LoopTypes
  <2> QED BY <2>1, <2>2, <2>3
<1>5. Len(queue[w]) = n - 1 /\ Len(queue[w]) \in Nat
  BY <1>2
<1> HIDE DEF w, n
<1>6. Work' = Work \cup {<<w, n>>}
  <2>1. ASSUME NEW v \in Workers \ {w}, NEW i \in Nat
        PROVE  <<v, i>> \in Work' <=> <<v, i>> \in Work
    BY <1>3, <1>4 DEF Work
  <2>2. ASSUME NEW i \in Nat
        PROVE  <<w, i>> \in Work' <=> <<w, i>> \in Work \cup {<<w, n>>}
    BY <1>1, <1>2, <1>3, <1>4, <1>5 DEF Work
  <2>3. Work \subseteq Workers \X Nat /\ Work' \subseteq Workers \X Nat
    BY DEF Work
  <2> QED BY <2>1, <2>2, <2>3, <1>1, <1>2
<1>7. <<w, n>> \notin Work
  BY <1>1, <1>2, <1>5, QueueWork
<1>8. IsFiniteSet(Work') /\ Cardinality(Work') = Cardinality(Work) + 1
  BY <1>6, <1>7, FS_AddElement DEF Counted
<1> QED BY <1>3, <1>8 DEF Counted, Alone

LEMMA DispatchCount ==
    ASSUME NEW e \in Event, Dispatch(e), Counted, at # "send", Work' = Work
    PROVE  Counted' /\ Alone'
<1>1. Cardinality(Work) \in Nat
  BY FS_CardinalityType DEF Counted
<1>2. CASE CrossesPartitions(e)
  BY <1>2 DEF Dispatch, Counted, Alone
<1>3. CASE ~CrossesPartitions(e)
  BY <1>1, <1>3 DEF Dispatch, Counted, Alone
<1> QED BY <1>2, <1>3

LEMMA CountStep == LoopAssumption /\ CountInv /\ [Next]_vars => Counted' /\ Alone'
<1> SUFFICES ASSUME LoopAssumption, CountInv, [Next]_vars PROVE Counted' /\ Alone'
  OBVIOUS
<1> USE DEF CountInv
<1>1. ASSUME NEW w \in Workers, WorkerTake(w) PROVE Counted' /\ Alone'
  BY <1>1, WorkMoves DEF TypeInv
<1>2. ASSUME NEW w \in Workers, WorkerSkip(w) \/ WorkerDone(w) \/ WorkerReport(w)
      PROVE  Counted' /\ Alone'
  <2>1. hold[w] # NoEvent
    BY <1>2 DEF WorkerSkip, WorkerDone, WorkerReport, TypeInv, Hands
  <2>2. /\ hold' = [hold EXCEPT ![w] = NoEvent] /\ queue' = queue /\ at' = at
        /\ inflight' = inflight - 1
    BY <1>2 DEF WorkerSkip, WorkerDone, WorkerReport, loopVars
  <2> QED BY <2>1, <2>2, WorkLeaves DEF TypeInv
<1>3. CASE SendToWorker
  BY <1>3, WorkArrives
<1>4. CASE SendCancelled
  <2>1. Work' = Work /\ at = "send" /\ at' \in {"select", "retry"} /\ inflight' = inflight - 1
    BY <1>4, SameWork, BackType DEF SendCancelled, workVars
  <2>2. Cardinality(Work) \in Nat
    BY FS_CardinalityType DEF Counted
  <2> QED BY <2>1, <2>2 DEF Counted, Alone
<1>5. ASSUME NEW e \in NewEvents, Receive(e) PROVE Counted' /\ Alone'
  <2>1. e \in Event
    BY <1>5, ReceivedType DEF Receive, TypeInv, LoopTypes
  <2>2. Work' = Work /\ Dispatch(e) /\ at = "select"
    BY <1>5, SameWork DEF Receive, workVars
  <2> QED BY <2>1, <2>2, DispatchCount
<1>6. ASSUME NEW e \in due, RetryNext(e) PROVE Counted' /\ Alone'
  <2>1. e \in Event
    BY <1>6 DEF TypeInv, LoopTypes
  <2>2. Work' = Work /\ Dispatch(e) /\ at = "retry"
    BY <1>6, SameWork DEF RetryNext, workVars
  <2> QED BY <2>1, <2>2, DispatchCount
<1>7. CASE Barrier
  <2>1. Work' = Work /\ at = "barrier" /\ at' # "send" /\ inflight = 0 /\ inflight' = 0
    BY <1>7, SameWork DEF Barrier, workVars, TypeInv, LoopTypes
  <2> QED BY <2>1 DEF Counted, Alone
<1>8. CASE InlineFails
  <2>1. /\ Work' = Work /\ at = "inline" /\ at' = "report" /\ inflight' = inflight
    BY <1>8, SameWork DEF InlineFails, workVars
  <2> QED BY <2>1 DEF Counted, Alone
<1>9. ASSUME \/ HandleFailure \/ Exit \/ DeboClosed \/ Joined \/ InlineDone \/ InlineReport
             \/ ResyncDone \/ BeatDone
             \/ \E ps \in SUBSET Paths : RetryTick(ps)
             \/ \E what \in {"resync", "beat"} : StartBarrier(what)
      PROVE  Counted' /\ Alone'
  <2>1. Work' = Work /\ inflight' = inflight /\ at # "send"
    BY <1>9, SameWork DEF HandleFailure, Exit, DeboClosed, Joined, InlineDone, InlineReport, ResyncDone,
       BeatDone, RetryTick, StartBarrier, workVars
  <2>2. at' \in {"select", "retry", "barrier", "close", "join", "done"}
    BY <1>9, BackType DEF HandleFailure, Exit, DeboClosed, Joined, InlineDone, InlineReport, ResyncDone,
       BeatDone, RetryTick, StartBarrier
  <2> QED BY <2>1, <2>2 DEF Counted, Alone
<1>10. ASSUME \/ \E w \in Workers : WorkerFails(w)
              \/ MoveBlocks \/ MoveLeaves \/ Cancel \/ RequestResync \/ WatcherDies \/ Terminated \/ UNCHANGED vars
       PROVE  Counted' /\ Alone'
  <2>1. Work' = Work /\ inflight' = inflight /\ at' = at
    BY <1>10, SameWork DEF WorkerFails, MoveBlocks, MoveLeaves, Cancel, RequestResync, WatcherDies, Terminated, vars,
       loopVars, workVars
  <2> QED BY <2>1 DEF Counted, Alone
<1> QED BY <1>1, <1>2, <1>3, <1>4, <1>5, <1>6, <1>7, <1>8, <1>9, <1>10
        DEF Next, WorkerStep, InlineStep

\* CountInv is an invariant of the loop.
LEMMA CountInvariant == Spec => []CountInv
<1> USE LoopAssumption
<1>1. Init => CountInv
  <2> SUFFICES ASSUME Init PROVE CountInv
    OBVIOUS
  <2>1. Work = {}
    BY DEF Init, Work
  <2>2. IsFiniteSet(Work) /\ Cardinality(Work) = 0
    BY <2>1, FS_EmptySet
  <2> QED BY <2>2, InitTypes DEF Init, CountInv, Counted, Alone
<1>2. CountInv /\ [Next]_vars => CountInv'
  BY CountStep, TypeStep DEF CountInv
<1> QED BY <1>1, <1>2, PTL DEF Spec

\* The loop's state keeps its type.  In particular the WaitGroup never falls
\* below zero, which Go answers with a panic, however dispatches, cancelled
\* sends and workers interleave.
THEOREM TypeCorrect == Spec => []TypeOK
<1>1. CountInv => TypeOK
  <2> SUFFICES ASSUME CountInv PROVE TypeOK
    OBVIOUS
  <2>1. Cardinality(Work) \in Nat
    BY FS_CardinalityType DEF CountInv, Counted
  <2>2. inflight \in Nat
    BY <2>1 DEF CountInv, Counted
  <2> QED BY <2>2 DEF CountInv, TypeInv, LoopTypes, TypeOK
<1> QED BY <1>1, CountInvariant, PTL

\* A rename between partitions, a resync, a resolution: the loop does them while
\* no worker holds an event and no channel has one, for any number of workers
\* and any capacity.
THEOREM ExclusiveBarrier == Spec => []BarrierExclusive
<1>1. CountInv => BarrierExclusive
  <2> SUFFICES ASSUME CountInv, at \in {"inline", "report", "resync", "beat"}
               PROVE  Held = {} /\ InQueues = {}
    BY DEF BarrierExclusive
  <2>1. Work = {}
    BY CountPositive, FS_EmptySet DEF CountInv
  <2>2. \A w \in Workers : hold[w] = NoEvent
    BY <2>1, HoldWork
  <2>3. \A w \in Workers : queue[w] \in Seq(Event) /\ Len(queue[w]) = 0
    <3> TAKE w \in Workers
    <3>1. queue[w] \in Seq(Event) /\ Len(queue[w]) \in Nat
      BY DEF CountInv, TypeInv, LoopTypes
    <3>2. <<w, 1>> \notin Work
      BY <2>1
    <3> QED BY <3>1, <3>2, QueueWork
  <2>4. \A w \in Workers : DOMAIN queue[w] = {}
    BY <2>3
  <2> QED BY <2>2, <2>4 DEF Held, InQueues
<1> QED BY <1>1, CountInvariant, PTL

--------------------------------------------------------------------------------
(* The order of a subtree.  All its fresh events pass through one channel, or   *)
(* past all channels when they are empty; so it is enough that a channel holds  *)
(* its own worker's events in the order of their numbers, none older than what  *)
(* the worker began last.  A retry is not fresh: it comes when it can.          *)
Lined(w, e) ==
    /\ Partition[e.path] = w /\ ~CrossesPartitions(e)
    /\ e.fresh => started[w] <= e.n /\ e.n <= received

InHandNewest ==
    at = "send" \/ (at = "barrier" /\ job = "inline") => (cur.fresh => cur.n = received)

Orders ==
    /\ \A w \in Workers : started[w] <= received
    /\ \A e \in due : ~e.fresh
    /\ InHandNewest
    /\ at = "send" => ~CrossesPartitions(cur)
    /\ \A w \in Workers : \A i \in DOMAIN queue[w] : Lined(w, queue[w][i])
    /\ \A w \in Workers : \A i, j \in DOMAIN queue[w] :
           i < j /\ queue[w][i].fresh /\ queue[w][j].fresh => queue[w][i].n <= queue[w][j].n

OrderInv == CountInv /\ Orders

\* Behind a barrier the channels are empty.
LEMMA EmptyQueues ==
    ASSUME CountInv, inflight = 0
    PROVE  \A w \in Workers : DOMAIN queue[w] = {}
<1>1. Work = {}
  BY CountPositive DEF CountInv
<1> TAKE w \in Workers
<1>2. queue[w] \in Seq(Event) /\ Len(queue[w]) \in Nat
  BY DEF CountInv, TypeInv, LoopTypes
<1>3. Len(queue[w]) = 0
  BY <1>1, <1>2, QueueWork
<1> QED BY <1>2, <1>3

\* The steps that begin the processing of an event are the two that move started.
LEMMA BarrierOrder ==
    ASSUME LoopAssumption, OrderInv, Barrier
    PROVE  Orders' /\ \A w \in Workers : started'[w] >= started[w]
<1> USE DEF OrderInv
<1>1. \A w \in Workers : DOMAIN queue[w] = {}
  BY EmptyQueues DEF Barrier
<1>2. /\ received \in Nat /\ started \in [Workers -> 0..MaxEvents] /\ MaxEvents \in Nat
      /\ job = "inline" => cur \in Event
  BY DEF Barrier, CountInv, TypeInv, LoopTypes, Hands, LoopAssumption
<1>3. job = "inline" /\ cur.fresh => cur.n = received
  BY DEF Barrier, Orders, InHandNewest
<1>4. \A w \in Workers : started'[w] >= started[w] /\ started'[w] <= received
  <2> TAKE w \in Workers
  <2>1. started[w] \in Nat /\ started[w] <= received
    BY <1>2 DEF Orders
  <2>2. CASE job # "inline" \/ ctxDone \/ ~cur.fresh
    BY <2>1, <2>2, <1>2 DEF Barrier, Begun
  <2>3. CASE job = "inline" /\ ~ctxDone /\ cur.fresh
    <3>1. started' = [v \in Workers |-> IF v \in Touches(cur) THEN received ELSE started[v]]
      BY <2>3, <1>3 DEF Barrier, Begun
    <3> QED BY <3>1, <2>1, <1>2
  <2> QED BY <2>2, <2>3
<1>5. at' # "send" /\ at' # "barrier" /\ due' = due /\ queue' = queue /\ received' = received
  BY DEF Barrier, workVars, CountInv, TypeInv, LoopTypes, Hands
<1> QED BY <1>1, <1>4, <1>5 DEF Orders, InHandNewest

LEMMA TakeOrder ==
    ASSUME LoopAssumption, OrderInv, NEW w \in Workers, WorkerTake(w)
    PROVE  Orders' /\ \A v \in Workers : started'[v] >= started[v]
<1> USE DEF OrderInv
<1> DEFINE q == queue[w]
           e == Head(q)
<1>1. /\ q \in Seq(Event) /\ q # << >> /\ Len(q) \in Nat \ {0}
      /\ received \in Nat /\ started \in [Workers -> 0..MaxEvents] /\ MaxEvents \in Nat
  BY DEF WorkerTake, CountInv, TypeInv, LoopTypes, LoopAssumption
<1>2. e = q[1] /\ 1 \in DOMAIN q /\ e \in Event
  BY <1>1
<1>3. /\ Len(Tail(q)) = Len(q) - 1 /\ DOMAIN Tail(q) = 1..(Len(q) - 1)
      /\ \A i \in 1..(Len(q) - 1) : Tail(q)[i] = q[i + 1]
  BY <1>1
<1>4. \A i \in 1..(Len(q) - 1) : i + 1 \in DOMAIN q /\ 1 < i + 1
  BY <1>1
<1>5. Lined(w, e) /\ e.n \in Nat
  BY <1>2 DEF Orders, Event
<1>6. Touches(e) = {w}
  BY <1>5 DEF Lined, Touches, CrossesPartitions
<1>7. /\ queue' = [queue EXCEPT ![w] = Tail(q)] /\ started' = Begun(e)
      /\ at' = at /\ job' = job /\ cur' = cur /\ due' = due /\ received' = received
  BY DEF WorkerTake, loopVars
<1>8. /\ queue'[w] = Tail(q)
      /\ \A v \in Workers \ {w} : queue'[v] = queue[v] /\ started'[v] = started[v]
      /\ started'[w] = (IF ctxDone \/ ~e.fresh THEN started[w] ELSE e.n)
  BY <1>1, <1>6, <1>7 DEF Begun, CountInv, TypeInv, LoopTypes
<1> HIDE DEF e, q
<1>9. /\ started[w] \in Nat /\ started[w] <= received
      /\ e.fresh => started[w] <= e.n /\ e.n <= received
  BY <1>1, <1>5 DEF Orders, Lined
<1>10. started'[w] >= started[w] /\ started'[w] <= received
  BY <1>1, <1>5, <1>8, <1>9
<1>11. \A v \in Workers : started'[v] >= started[v] /\ started'[v] <= received'
  <2> TAKE v \in Workers
  <2>1. started[v] \in Nat /\ started[v] <= received
    BY <1>1 DEF Orders
  <2> QED BY <1>7, <1>8, <1>10, <2>1
<1>12. \A v \in Workers : \A i \in DOMAIN queue'[v] : Lined(v, queue[v][i])'
  <2> TAKE v \in Workers
  <2> TAKE i \in DOMAIN queue'[v]
  <2>1. CASE v # w
    <3>1. queue'[v] = queue[v] /\ started'[v] = started[v] /\ Lined(v, queue[v][i])
      BY <1>8, <2>1 DEF Orders
    <3> QED BY <1>7, <3>1 DEF Lined
  <2>2. CASE v = w
    <3> DEFINE f == q[i + 1]
    <3>1. i \in 1..(Len(q) - 1)
      BY <1>3, <1>8, <2>2
    <3>2. f = queue'[v][i] /\ Lined(w, f) /\ (e.fresh /\ f.fresh => e.n <= f.n)
      BY <1>2, <1>3, <1>4, <1>8, <2>2, <3>1 DEF Orders, q
    <3> HIDE DEF f
    <3>3. f.fresh => started'[v] <= f.n /\ f.n <= received'
      BY <1>7, <1>8, <2>2, <3>2 DEF Lined
    <3> QED BY <2>2, <3>2, <3>3 DEF Lined
  <2> QED BY <2>1, <2>2
<1>13. \A v \in Workers : \A i, j \in DOMAIN queue'[v] :
           i < j /\ queue'[v][i].fresh /\ queue'[v][j].fresh => queue'[v][i].n <= queue'[v][j].n
  <2> TAKE v \in Workers
  <2>1. CASE v # w
    BY <1>8, <2>1 DEF Orders
  <2>2. CASE v = w
    <3> TAKE i, j \in DOMAIN queue'[v]
    <3>1. i \in 1..(Len(q) - 1) /\ j \in 1..(Len(q) - 1)
      BY <1>3, <1>8, <2>2
    <3>2. queue'[v][i] = queue[w][i + 1] /\ queue'[v][j] = queue[w][j + 1]
      BY <1>3, <1>8, <2>2, <3>1 DEF q
    <3>3. i + 1 \in DOMAIN queue[w] /\ j + 1 \in DOMAIN queue[w] /\ (i < j => i + 1 < j + 1)
      BY <1>4, <3>1 DEF q
    <3> QED BY <3>2, <3>3 DEF Orders
  <2> QED BY <2>1, <2>2
<1> QED BY <1>7, <1>11, <1>12, <1>13 DEF Orders, InHandNewest

\* The event sent is the newest there is: it belongs at the end of the channel.
LEMMA SendOrder ==
    ASSUME LoopAssumption, OrderInv, SendToWorker
    PROVE  Orders' /\ started' = started
<1> USE DEF OrderInv
<1> DEFINE w == Partition[cur.path]
           q == queue[w]
<1>1. /\ at = "send" /\ cur \in Event /\ w \in Workers /\ q \in Seq(Event) /\ Len(q) \in Nat
      /\ received \in Nat /\ started \in [Workers -> 0..MaxEvents] /\ MaxEvents \in Nat
  <2>1. at = "send" /\ cur \in Event /\ cur.path \in Paths
    BY DEF SendToWorker, CountInv, TypeInv, Hands, Event
  <2>2. w \in Workers
    BY <2>1 DEF LoopAssumption
  <2> QED BY <2>1, <2>2 DEF CountInv, TypeInv, LoopTypes, LoopAssumption
<1>2. /\ queue' = [queue EXCEPT ![w] = Append(q, cur)] /\ at' \in {"select", "retry"}
      /\ due' = due /\ received' = received /\ started' = started
  BY BackType DEF SendToWorker, history
<1>3. /\ queue'[w] = Append(q, cur)
      /\ \A v \in Workers \ {w} : queue'[v] = queue[v]
  BY <1>1, <1>2 DEF CountInv, TypeInv, LoopTypes
<1>4. /\ DOMAIN Append(q, cur) = 1..(Len(q) + 1) /\ DOMAIN q = 1..Len(q)
      /\ Append(q, cur)[Len(q) + 1] = cur
      /\ \A i \in 1..Len(q) : Append(q, cur)[i] = q[i]
  BY <1>1
<1>5. cur.fresh => cur.n = received
  BY <1>1 DEF Orders, InHandNewest
<1>6. Lined(w, cur)
  <2>1. started[w] <= received
    BY <1>1 DEF Orders
  <2>2. ~CrossesPartitions(cur)
    BY <1>1 DEF Orders
  <2> QED BY <1>1, <1>5, <2>1, <2>2 DEF Lined
<1>7. \A i \in 1..Len(q) : Lined(w, q[i])
  BY <1>1, <1>4 DEF Orders
<1> HIDE DEF w, q
<1>8. \A v \in Workers : \A i \in DOMAIN queue'[v] : Lined(v, queue[v][i])'
  <2> TAKE v \in Workers
  <2> TAKE i \in DOMAIN queue'[v]
  <2>1. Lined(v, queue'[v][i])
    <3>1. CASE v # w
      BY <1>3, <3>1 DEF Orders
    <3>2. CASE v = w
      <4>1. CASE i = Len(q) + 1
        BY <1>3, <1>4, <1>6, <3>2, <4>1
      <4>2. CASE i # Len(q) + 1
        <5>1. i \in 1..Len(q)
          BY <1>1, <1>3, <1>4, <3>2, <4>2
        <5> QED BY <1>3, <1>4, <1>7, <3>2, <5>1
      <4> QED BY <4>1, <4>2
    <3> QED BY <3>1, <3>2
  <2> QED BY <1>2, <2>1 DEF Lined
<1>9. \A v \in Workers : \A i, j \in DOMAIN queue'[v] :
          i < j /\ queue'[v][i].fresh /\ queue'[v][j].fresh => queue'[v][i].n <= queue'[v][j].n
  <2> TAKE v \in Workers
  <2>1. CASE v # w
    BY <1>3, <2>1 DEF Orders
  <2>2. CASE v = w
    <3> TAKE i, j \in DOMAIN queue'[v]
    <3> SUFFICES ASSUME i < j, queue'[v][i].fresh, queue'[v][j].fresh
                 PROVE  queue'[v][i].n <= queue'[v][j].n
      OBVIOUS
    <3>1. i \in 1..Len(q) /\ queue'[v][i] = q[i]
      BY <1>1, <1>3, <1>4, <2>2
    <3>2. CASE j = Len(q) + 1
      <4>1. queue'[v][j] = cur /\ cur.n = received
        BY <1>3, <1>4, <1>5, <2>2, <3>2
      <4> QED BY <1>7, <3>1, <4>1 DEF Lined
    <3>3. CASE j # Len(q) + 1
      <4>1. j \in 1..Len(q) /\ queue'[v][j] = q[j]
        BY <1>1, <1>3, <1>4, <2>2, <3>3
      <4> QED BY <1>1, <1>4, <3>1, <4>1 DEF Orders, q
    <3> QED BY <3>2, <3>3
  <2> QED BY <2>1, <2>2
<1> QED BY <1>2, <1>8, <1>9 DEF Orders, InHandNewest

LEMMA SameQueues ==
    ASSUME Orders, UNCHANGED <<queue, started>>, received \in Nat, received' \in Nat,
           received <= received', started \in [Workers -> 0..MaxEvents], MaxEvents \in Nat,
           queue \in [Workers -> Seq(Event)]
    PROVE  /\ \A w \in Workers : started'[w] <= received'
           /\ \A w \in Workers : \A i \in DOMAIN queue'[w] : Lined(w, queue[w][i])'
           /\ \A w \in Workers : \A i, j \in DOMAIN queue'[w] :
                  i < j /\ queue'[w][i].fresh /\ queue'[w][j].fresh
                      => queue'[w][i].n <= queue'[w][j].n
<1>1. ASSUME NEW w \in Workers PROVE started'[w] <= received'
  <2>1. started[w] \in Nat /\ started[w] <= received
    BY DEF Orders
  <2> QED BY <2>1
<1>2. ASSUME NEW w \in Workers, NEW i \in DOMAIN queue'[w] PROVE Lined(w, queue[w][i])'
  <2> DEFINE e == queue[w][i]
  <2>1. queue[w] \in Seq(Event) /\ i \in DOMAIN queue[w]
    OBVIOUS
  <2>2. e \in Event
    BY <2>1
  <2>3. Lined(w, e) /\ e.n \in Nat
    BY <2>1, <2>2 DEF Orders, Event
  <2>4. queue'[w][i] = e
    OBVIOUS
  <2> HIDE DEF e
  <2> QED BY <2>3, <2>4 DEF Lined
<1> QED BY <1>1, <1>2 DEF Orders

LEMMA OrderStep ==
    ASSUME LoopAssumption, OrderInv, [Next]_vars
    PROVE  Orders' /\ [\A w \in Workers : started'[w] >= started[w]]_vars
<1> USE DEF OrderInv
<1>1. /\ received \in Nat /\ started \in [Workers -> 0..MaxEvents] /\ MaxEvents \in Nat
      /\ queue \in [Workers -> Seq(Event)] /\ due \subseteq Event
      /\ \A w \in Workers : started[w] >= started[w]
  BY DEF CountInv, TypeInv, LoopTypes, LoopAssumption
<1>2. ASSUME NEW w \in Workers, WorkerTake(w)
      PROVE  Orders' /\ \A v \in Workers : started'[v] >= started[v]
  BY <1>2, TakeOrder
<1>3. CASE Barrier
  BY <1>3, BarrierOrder
<1>4. CASE SendToWorker
  BY <1>1, <1>4, SendOrder
<1>5. ASSUME NEW e \in NewEvents, Receive(e) PROVE Orders' /\ started' = started
  <2>1. e \in Event /\ e.n = received + 1 /\ received' = received + 1 /\ at = "select"
    BY <1>1, <1>5, ReceivedType DEF Receive, CountInv, TypeInv, LoopTypes
  <2>2. UNCHANGED <<queue, started, due>> /\ Dispatch(e)
    BY <1>5 DEF Receive, workVars
  <2>3. cur' = e /\ (at' = "send" => ~CrossesPartitions(e))
    BY <2>2 DEF Dispatch
  <2> QED BY <1>1, <2>1, <2>2, <2>3, SameQueues DEF Orders, InHandNewest, CrossesPartitions
<1>6. ASSUME NEW e \in due, RetryNext(e) PROVE Orders' /\ started' = started
  <2>1. ~e.fresh /\ due' \subseteq due
    BY <1>6 DEF RetryNext, Orders
  <2>2. UNCHANGED <<queue, started, received>> /\ Dispatch(e)
    BY <1>6 DEF RetryNext, workVars, history
  <2>3. cur' = e /\ (at' = "send" => ~CrossesPartitions(e))
    BY <2>2 DEF Dispatch
  <2> QED BY <1>1, <2>1, <2>2, <2>3, SameQueues DEF Orders, InHandNewest, CrossesPartitions
<1>7. ASSUME NEW ps \in SUBSET Paths, RetryTick(ps) PROVE Orders' /\ started' = started
  <2>1. \A p \in ps : retry[p].ev \in Event
    BY <1>7, RetryItem DEF RetryTick, CountInv, TypeInv, LoopTypes
  <2>2. \A p \in ps : ~[retry[p].ev EXCEPT !.fresh = FALSE].fresh
    BY <2>1 DEF Event
  <2>3. \A e \in due' : ~e.fresh
    BY <1>7, <2>2 DEF RetryTick
  <2>4. UNCHANGED <<queue, started, received>> /\ at' = "retry"
    BY <1>7 DEF RetryTick, workVars, history
  <2> QED BY <1>1, <2>3, <2>4, SameQueues DEF Orders, InHandNewest
<1>8. ASSUME \/ HandleFailure \/ Exit \/ DeboClosed \/ Joined \/ InlineStep \/ ResyncDone \/ BeatDone
             \/ SendCancelled
             \/ \E what \in {"resync", "beat"} : StartBarrier(what)
      PROVE  Orders' /\ started' = started
  <2>1. UNCHANGED <<queue, started, received, due>>
    BY <1>8 DEF HandleFailure, Exit, DeboClosed, Joined, InlineStep, InlineDone, InlineFails, InlineReport,
       ResyncDone, BeatDone, SendCancelled, StartBarrier, workVars, history
  <2>2. at' # "send" /\ ~(at' = "barrier" /\ job' = "inline")
    BY <1>8, BackType DEF HandleFailure, Exit, DeboClosed, Joined, InlineStep, InlineDone, InlineFails,
       InlineReport, ResyncDone, BeatDone, SendCancelled, StartBarrier
  <2> QED BY <1>1, <2>1, <2>2, SameQueues DEF Orders, InHandNewest
<1>9. ASSUME \/ \E w \in Workers : WorkerStep(w)
             \/ MoveBlocks \/ MoveLeaves
             \/ Cancel \/ RequestResync \/ WatcherDies \/ Terminated \/ UNCHANGED vars
      PROVE  Orders' /\ started' = started
  <2>1. UNCHANGED <<queue, started, received, due, at, job, cur>>
    BY <1>9 DEF WorkerStep, WorkerSkip, WorkerDone, WorkerFails, WorkerReport,
       MoveBlocks, MoveLeaves, Cancel, RequestResync, WatcherDies, Terminated, vars, loopVars, workVars, history
  <2> QED BY <1>1, <2>1, SameQueues DEF Orders, InHandNewest, CrossesPartitions
<1> QED BY <1>1, <1>2, <1>3, <1>4, <1>5, <1>6, <1>7, <1>8, <1>9 DEF Next

\* Fresh events of a subtree begin in the order the loop received them, for any
\* number of workers, any partition and any capacity, renames across subtrees
\* and failures included: dispatch.go's reason for one worker per subtree.
THEOREM KeepsOrder == Spec => InOrder
<1> USE LoopAssumption
<1>1. Init => Orders
  BY DEF Init, Orders, InHandNewest
<1>2. CountInv /\ Orders /\ [Next]_vars => Orders'
  BY OrderStep DEF OrderInv
<1>3. CountInv /\ Orders /\ [Next]_vars => [\A w \in Workers : started'[w] >= started[w]]_vars
  BY OrderStep DEF OrderInv
<1> QED BY <1>1, <1>2, <1>3, CountInvariant, PTL DEF Spec, InOrder

--------------------------------------------------------------------------------
(* Nothing is forgotten, as long as no rename arrives, a resync does its work    *)
(* and no failure takes the place of a newer one in the retry queue.  Each of    *)
(* the three is needed: a rename is owed to two paths and has one retry, a       *)
(* resync that fails is not asked for again, and schedule keeps the event that   *)
(* was reported last, which may be the older one.                                *)
Direct == ~Moves /\ ~ResyncFails

Overwrites ==
    HandleFailure /\ LET e == Head(failed) IN
        /\ retry[e.path] # NoItem /\ retry[e.path].ev.n > e.n
        /\ retry[e.path].attempts + 1 < RetryMax

Pending == Held \cup InQueues \cup InFailed \cup InRetry \cup due \cup InHand

\* Without renames an event is about one path, and none is newer than what is
\* owed to its path.
Due(e) == /\ e.from = e.path /\ e.n <= received
          /\ owed[e.path] # 0 => e.n <= owed[e.path]
Straight == \A e \in Pending : Due(e)

\* Its retry is filed under the path.
RetryFiled == \A p \in Paths : retry[p] # NoItem =>
                  retry[p].ev.path = p /\ retry[p].attempts # 0

\* The loop's job ends with the barrier it was set for.
JobEnds ==
    /\ at \notin {"inline", "report"} /\ job # "inline"
    /\ job # "none" => at \in {"barrier", "resync", "beat"}
    /\ at \in {"resync", "beat"} => job = at
    /\ due # {} => at \in {"send", "retry"}

Kept(p, n) == \E e \in Pending : e.path = p /\ e.n = n

OwedKept == ~ctxDone /\ at \notin {"close", "join", "done"} =>
                \A p \in Paths : owed[p] # 0 => Kept(p, owed[p]) \/ resync \/ job = "resync"

RetryInv == Straight /\ RetryFiled /\ JobEnds /\ OwedKept

LEMMA PendingTypes == TypeInv => Pending \subseteq Event
<1> SUFFICES ASSUME TypeInv PROVE Pending \subseteq Event
  OBVIOUS
<1>1. Held \subseteq Event /\ InQueues \subseteq Event /\ InFailed \subseteq Event
  BY DEF TypeInv, LoopTypes, Held, InQueues, InFailed
<1>2. InRetry \subseteq Event
  <2>1. \A p \in Paths : retry[p] \in Item \cup {NoItem}
    BY DEF TypeInv, LoopTypes
  <2>2. \A p \in Paths : retry[p].ev \in Event \cup {NoEvent}
    BY <2>1 DEF Item, NoItem
  <2> QED BY <2>2 DEF InRetry
<1>3. InHand \subseteq Event /\ due \subseteq Event
  BY DEF TypeInv, LoopTypes, Hands, InHand
<1> QED BY <1>1, <1>2, <1>3 DEF Pending

\* An item of the retry queue is pending under its path, and only an event is.
LEMMA RetryPending ==
    ASSUME LoopAssumption, TypeInv
    PROVE  /\ \A p \in Paths : retry[p] # NoItem => retry[p].ev \in InRetry
           /\ \A e \in InRetry : \E p \in Paths : retry[p].ev = e /\ retry[p] # NoItem
<1>1. \A p \in Paths : retry[p] # NoItem => retry[p].ev \in Event
  BY RetryItem DEF TypeInv, LoopTypes
<1>2. NoEvent \notin Event /\ NoItem.ev = NoEvent
  BY DEF LoopAssumption, NoItem
<1> QED BY <1>1, <1>2 DEF InRetry

\* What the steps of the loop do to the sets of pending events.
LEMMA QueueGrows ==
    ASSUME LoopAssumption, TypeInv, SendToWorker
    PROVE  /\ cur \in InQueues' /\ InQueues' \subseteq InQueues \cup {cur}
           /\ InQueues \subseteq InQueues'
<1> DEFINE w == Partition[cur.path]
           q == queue[w]
<1>1. cur \in Event /\ cur.path \in Paths
  BY DEF SendToWorker, TypeInv, Hands, Event
<1>2. w \in Workers /\ q \in Seq(Event) /\ queue' = [queue EXCEPT ![w] = Append(q, cur)]
  BY <1>1 DEF SendToWorker, TypeInv, LoopTypes, LoopAssumption
<1>3. queue'[w] = Append(q, cur) /\ \A v \in Workers : v # w => queue'[v] = queue[v]
  BY <1>2 DEF TypeInv, LoopTypes
<1>4. /\ DOMAIN Append(q, cur) = 1..(Len(q) + 1) /\ DOMAIN q = 1..Len(q) /\ Len(q) \in Nat
      /\ Append(q, cur)[Len(q) + 1] = cur /\ \A i \in 1..Len(q) : Append(q, cur)[i] = q[i]
  BY <1>1, <1>2
<1> HIDE DEF w
<1>5. cur \in InQueues'
  <2>1. Len(q) + 1 \in DOMAIN queue'[w] /\ queue'[w][Len(q) + 1] = cur
    BY <1>3, <1>4
  <2> QED BY <1>2, <2>1 DEF InQueues
<1>6. ASSUME NEW e \in InQueues PROVE e \in InQueues'
  <2>1. PICK v \in Workers : \E i \in DOMAIN queue[v] : queue[v][i] = e
    BY <1>6 DEF InQueues
  <2>2. PICK i \in DOMAIN queue[v] : queue[v][i] = e
    BY <2>1
  <2>3. i \in DOMAIN queue'[v] /\ queue'[v][i] = e
    BY <1>3, <1>4, <2>2
  <2> QED BY <2>3 DEF InQueues
<1>7. ASSUME NEW e \in InQueues' PROVE e \in InQueues \cup {cur}
  <2>1. PICK v \in Workers : \E i \in DOMAIN queue'[v] : queue'[v][i] = e
    BY <1>7 DEF InQueues
  <2>2. PICK i \in DOMAIN queue'[v] : queue'[v][i] = e
    BY <2>1
  <2>3. e = cur \/ (i \in DOMAIN queue[v] /\ queue[v][i] = e)
    BY <1>3, <1>4, <2>2
  <2> QED BY <2>3 DEF InQueues
<1> QED BY <1>5, <1>6, <1>7

LEMMA QueueShrinks ==
    ASSUME LoopAssumption, TypeInv, NEW w \in Workers, WorkerTake(w)
    PROVE  /\ InQueues' \subseteq InQueues /\ InQueues \subseteq InQueues' \cup {hold'[w]}
           /\ hold'[w] \in InQueues /\ Held' = Held \cup {hold'[w]}
<1> DEFINE q == queue[w]
           e == Head(q)
<1>1. /\ q \in Seq(Event) /\ q # << >> /\ Len(q) \in Nat \ {0} /\ hold[w] = NoEvent
      /\ hold' = [hold EXCEPT ![w] = e] /\ queue' = [queue EXCEPT ![w] = Tail(q)]
  BY DEF WorkerTake, TypeInv, LoopTypes
<1>2. e = q[1] /\ 1 \in DOMAIN q /\ e \in Event /\ e # NoEvent
  BY <1>1 DEF LoopAssumption
<1>3. /\ DOMAIN Tail(q) = 1..(Len(q) - 1) /\ DOMAIN q = 1..Len(q)
      /\ \A i \in 1..(Len(q) - 1) : Tail(q)[i] = q[i + 1]
  BY <1>1
<1>4. /\ queue'[w] = Tail(q) /\ \A v \in Workers : v # w => queue'[v] = queue[v]
      /\ hold'[w] = e /\ \A v \in Workers : v # w => hold'[v] = hold[v]
  BY <1>1 DEF TypeInv, LoopTypes
<1> HIDE DEF e
<1>5. Held' = Held \cup {e}
  BY <1>1, <1>2, <1>4 DEF Held
<1>6. e \in InQueues
  BY <1>2 DEF InQueues
<1>7. ASSUME NEW f \in InQueues' PROVE f \in InQueues
  <2>1. PICK v \in Workers : \E i \in DOMAIN queue'[v] : queue'[v][i] = f
    BY <1>7 DEF InQueues
  <2>2. PICK i \in DOMAIN queue'[v] : queue'[v][i] = f
    BY <2>1
  <2>3. \E j \in DOMAIN queue[v] : queue[v][j] = f
    <3>1. CASE v # w
      BY <1>4, <2>2, <3>1
    <3>2. CASE v = w
      <4>1. i \in DOMAIN Tail(q) /\ Tail(q)[i] = f
        BY <1>4, <2>2, <3>2
      <4>2. i \in 1..(Len(q) - 1) /\ i + 1 \in DOMAIN q /\ q[i + 1] = f
        BY <1>1, <1>3, <4>1
      <4> QED BY <3>2, <4>2
    <3> QED BY <3>1, <3>2
  <2> QED BY <2>3 DEF InQueues
<1>8. ASSUME NEW f \in InQueues, f # e PROVE f \in InQueues'
  <2>1. PICK v \in Workers : \E i \in DOMAIN queue[v] : queue[v][i] = f
    BY <1>8 DEF InQueues
  <2>2. PICK i \in DOMAIN queue[v] : queue[v][i] = f
    BY <2>1
  <2>3. \E j \in DOMAIN queue'[v] : queue'[v][j] = f
    <3>1. CASE v # w
      BY <1>4, <2>2, <3>1
    <3>2. CASE v = w
      <4>1. i # 1
        BY <1>2, <1>8, <2>2, <3>2
      <4>2. i - 1 \in 1..(Len(q) - 1) /\ Tail(q)[i - 1] = f
        BY <1>1, <1>3, <2>2, <3>2, <4>1
      <4> QED BY <1>3, <1>4, <3>2, <4>2
    <3> QED BY <3>1, <3>2
  <2> QED BY <2>3 DEF InQueues
<1> QED BY <1>4, <1>5, <1>6, <1>7, <1>8

\* A worker lets go of its event.
LEMMA HeldShrinks ==
    ASSUME TypeInv, NEW w \in Workers, hold' = [hold EXCEPT ![w] = NoEvent]
    PROVE  Held' \subseteq Held /\ Held \subseteq Held' \cup {hold[w]}
<1>1. hold'[w] = NoEvent /\ \A v \in Workers : v # w => hold'[v] = hold[v]
  BY DEF TypeInv, LoopTypes
<1>2. ASSUME NEW f \in Held' PROVE f \in Held
  BY <1>1 DEF Held
<1>3. ASSUME NEW f \in Held, f # hold[w] PROVE f \in Held'
  BY <1>1, <1>3 DEF Held
<1> QED BY <1>2, <1>3

LEMMA FailedGrows ==
    ASSUME TypeInv, NEW e \in Event, failed' = Append(failed, e)
    PROVE  InFailed' = InFailed \cup {e}
<1>1. failed \in Seq(Event) /\ Len(failed) \in Nat
  BY DEF TypeInv, LoopTypes
<1>2. /\ DOMAIN failed' = 1..(Len(failed) + 1) /\ DOMAIN failed = 1..Len(failed)
      /\ failed'[Len(failed) + 1] = e /\ \A i \in 1..Len(failed) : failed'[i] = failed[i]
  BY <1>1
<1>3. e \in InFailed' /\ InFailed' \subseteq InFailed \cup {e}
  BY <1>1, <1>2 DEF InFailed
<1>4. InFailed \subseteq InFailed'
  BY <1>1, <1>2 DEF InFailed
<1> QED BY <1>3, <1>4

LEMMA FailedShrinks ==
    ASSUME TypeInv, failed # << >>, failed' = Tail(failed)
    PROVE  /\ Head(failed) \in InFailed /\ InFailed' \subseteq InFailed
           /\ InFailed \subseteq InFailed' \cup {Head(failed)}
<1>1. failed \in Seq(Event) /\ Len(failed) \in Nat \ {0}
  BY DEF TypeInv, LoopTypes
<1>2. /\ Head(failed) = failed[1] /\ DOMAIN failed = 1..Len(failed)
      /\ DOMAIN failed' = 1..(Len(failed) - 1)
      /\ \A i \in 1..(Len(failed) - 1) : failed'[i] = failed[i + 1]
  BY <1>1
<1>3. Head(failed) \in InFailed
  BY <1>1, <1>2 DEF InFailed
<1>4. InFailed' \subseteq InFailed
  BY <1>1, <1>2 DEF InFailed
<1>5. ASSUME NEW f \in InFailed, f # Head(failed) PROVE f \in InFailed'
  <2>1. PICK i \in DOMAIN failed : failed[i] = f
    BY <1>5 DEF InFailed
  <2>2. i - 1 \in 1..(Len(failed) - 1) /\ failed'[i - 1] = f
    BY <1>1, <1>2, <1>5, <2>1
  <2> QED BY <1>2, <2>2 DEF InFailed
<1> QED BY <1>3, <1>4, <1>5

\* Whatever the loop is doing, it goes on being owed what it was owed as long as
\* every pending event has a successor of the same path and number.
LEMMA StaysOwed ==
    ASSUME OwedKept, ctxDone' = ctxDone,
           at' \notin {"close", "join", "done"} => at \notin {"close", "join", "done"},
           owed' = owed, resync => resync' \/ job' = "resync", job = "resync" => job' = "resync",
           \A e \in Pending : \E f \in Pending' : f.path = e.path /\ f.n = e.n
    PROVE  OwedKept'
BY DEF OwedKept, Kept

\* What is pending comes from something pending, and nobody is owed more.
LEMMA StaysStraight ==
    ASSUME TypeInv, Straight, received' = received,
           owed' = owed \/ \A p \in Paths : owed'[p] \in {0, owed[p]},
           \A f \in Pending' : \E e \in Pending : f.path = e.path /\ f.n = e.n /\ f.from = e.from
    PROVE  Straight'
<1> SUFFICES ASSUME NEW f \in Pending' PROVE Due(f)'
  BY DEF Straight
<1>1. PICK e \in Pending : f.path = e.path /\ f.n = e.n /\ f.from = e.from
  OBVIOUS
<1>2. e \in Event /\ Due(e)
  BY PendingTypes DEF Straight
<1>3. e.path \in Paths /\ owed'[e.path] \in {0, owed[e.path]}
  BY <1>2 DEF Event
<1> QED BY <1>1, <1>2, <1>3 DEF Due

LEMMA NothingOwed == ctxDone' => OwedKept'
BY DEF OwedKept

\* The hands of the loop hold an event only while it sends one.
LEMMA HandIs ==
    /\ JobEnds => InHand = IF at = "send" THEN {cur} ELSE {}
    /\ JobEnds' => InHand' = IF at' = "send" THEN {cur'} ELSE {}
BY DEF JobEnds, InHand

\* Without renames a dispatch leads to the send.
LEMMA StraightDispatch ==
    ASSUME NEW e \in Event, e.from = e.path, Dispatch(e)
    PROVE  at' = "send" /\ cur' = e /\ job' = job
BY DEF Dispatch, CrossesPartitions

LEMMA ForgetsNotSend ==
    ASSUME LoopAssumption, TypeInv, RetryInv, SendToWorker \/ SendCancelled
    PROVE  RetryInv'
<1>1. /\ at = "send" /\ at' = Back(due) /\ job' = job /\ due' = due /\ retry' = retry
      /\ hold' = hold /\ failed' = failed /\ owed' = owed /\ resync' = resync /\ ctxDone' = ctxDone
      /\ received' = received
  BY DEF SendToWorker, SendCancelled, workVars, signals, history
<1>2. at' \in {"select", "retry"} /\ (due = {} <=> at' = "select")
  BY <1>1 DEF Back
<1>3. job = "none"
  BY <1>1 DEF RetryInv, JobEnds
<1>4. JobEnds'
  BY <1>1, <1>2, <1>3 DEF JobEnds
<1>5. InHand = {cur} /\ InHand' = {}
  BY <1>1, <1>2, <1>4, HandIs DEF RetryInv
<1>6. Held' = Held /\ InFailed' = InFailed /\ InRetry' = InRetry
  BY <1>1 DEF Held, InFailed, InRetry
<1>7. /\ InQueues' \subseteq InQueues \cup {cur}
      /\ (cur \in InQueues' /\ InQueues \subseteq InQueues') \/ ctxDone
  <2>1. CASE SendToWorker
    BY <2>1, QueueGrows
  <2>2. CASE SendCancelled
    BY <2>2 DEF SendCancelled, workVars, InQueues
  <2> QED BY <2>1, <2>2
<1>8. Pending' \subseteq Pending /\ (Pending \subseteq Pending' \/ ctxDone)
  BY <1>1, <1>5, <1>6, <1>7 DEF Pending
<1>9. Straight' /\ RetryFiled'
  BY <1>1, <1>8, StaysStraight DEF RetryInv, RetryFiled
<1>10. OwedKept'
  BY <1>1, <1>2, <1>8, StaysOwed, NothingOwed DEF RetryInv
<1> QED BY <1>4, <1>9, <1>10 DEF RetryInv

LEMMA ForgetsNotBarrier ==
    ASSUME LoopAssumption, Direct, TypeInv, RetryInv,
           \/ Barrier \/ BeatDone \/ ResyncDone
           \/ \E what \in {"resync", "beat"} : StartBarrier(what)
    PROVE  RetryInv'
<1>1. /\ due' = due /\ retry' = retry /\ queue' = queue /\ hold' = hold /\ failed' = failed
      /\ ctxDone' = ctxDone /\ at # "send" /\ due = {}
  BY DEF Barrier, BeatDone, ResyncDone, StartBarrier, workVars, signals, history, RetryInv, JobEnds
<1>6. at' # "send"
  BY DEF Barrier, BeatDone, ResyncDone, StartBarrier, TypeInv, LoopTypes
<1>2. JobEnds'
  BY <1>1 DEF Barrier, BeatDone, ResyncDone, StartBarrier, RetryInv, JobEnds, TypeInv, Hands,
     LoopTypes
<1>3. Pending' = Pending
  <2>1. InHand = {} /\ InHand' = {}
    BY <1>1, <1>2, <1>6, HandIs DEF RetryInv
  <2> QED BY <1>1, <2>1 DEF Pending, Held, InQueues, InFailed, InRetry
<1>7. received' = received /\ (owed' = owed \/ \A p \in Paths : owed'[p] = 0)
  BY DEF Barrier, BeatDone, ResyncDone, StartBarrier, history, Direct
<1>4. Straight' /\ RetryFiled'
  BY <1>1, <1>3, <1>7, StaysStraight DEF RetryInv, RetryFiled
<1>5. OwedKept'
  <2>1. CASE ResyncDone
    <3>1. \A p \in Paths : owed'[p] = 0
      BY <2>1 DEF ResyncDone, Direct
    <3> QED BY <3>1 DEF OwedKept
  <2>2. CASE Barrier
    <3>1. /\ owed' = owed /\ resync' = resync /\ job' = job /\ at = "barrier"
      BY <2>2 DEF Barrier, signals
    <3> QED BY <1>1, <1>3, <3>1, StaysOwed DEF RetryInv
  <2>3. CASE BeatDone
    <3>1. /\ owed' = owed /\ resync' = resync /\ job # "resync" /\ at = "beat"
      BY <2>3 DEF BeatDone, history, signals, RetryInv, JobEnds
    <3> QED BY <1>1, <1>3, <3>1, StaysOwed DEF RetryInv
  <2>4. ASSUME NEW what \in {"resync", "beat"}, StartBarrier(what) PROVE OwedKept'
    <3>1. /\ owed' = owed /\ at = "select" /\ job = "none" /\ job' = what
          /\ what = "beat" => resync' = resync
      BY <2>4 DEF StartBarrier, history, RetryInv, JobEnds
    <3> QED BY <1>1, <1>3, <3>1, StaysOwed DEF RetryInv
  <2> QED BY <2>1, <2>2, <2>3, <2>4
<1> QED BY <1>2, <1>4, <1>5 DEF RetryInv

\* The worker's turn: take, then skip, finish, or fail and report.
LEMMA ForgetsNotWorker ==
    ASSUME LoopAssumption, TypeInv, RetryInv, NEW w \in Workers, WorkerTake(w) \/ WorkerStep(w)
    PROVE  RetryInv'
<1>1. /\ at' = at /\ job' = job /\ cur' = cur /\ due' = due /\ retry' = retry
      /\ resync' = resync /\ ctxDone' = ctxDone /\ received' = received
  BY DEF WorkerTake, WorkerStep, WorkerSkip, WorkerDone, WorkerFails, WorkerReport, loopVars,
     signals
<1>2. JobEnds' /\ RetryFiled'
  BY <1>1 DEF RetryInv, JobEnds, RetryFiled
<1>3. InHand' = InHand /\ InRetry' = InRetry
  BY <1>1 DEF InHand, InRetry
<1>4. CASE WorkerTake(w)
  <2>1. failed' = failed /\ owed' = owed
    BY <1>4 DEF WorkerTake
  <2>2. Pending' = Pending
    BY <1>1, <1>3, <1>4, <2>1, QueueShrinks DEF Pending, InFailed
  <2>3. OwedKept'
    BY <1>1, <2>1, <2>2, StaysOwed DEF RetryInv
  <2> QED BY <1>1, <1>2, <2>1, <2>2, <2>3, StaysStraight DEF RetryInv
<1>5. CASE WorkerSkip(w)
  <2>1. hold' = [hold EXCEPT ![w] = NoEvent] /\ queue' = queue /\ failed' = failed /\ ctxDone
        /\ owed' = owed
    BY <1>5 DEF WorkerSkip, history
  <2>4. InQueues' = InQueues /\ InFailed' = InFailed
    BY <2>1 DEF InFailed, InQueues
  <2>2. InQueues' = InQueues /\ InFailed' = InFailed /\ Held' \subseteq Held
    BY <2>1, <2>4, HeldShrinks
  <2>3. Pending' \subseteq Pending
    BY <1>1, <1>3, <2>2 DEF Pending
  <2> QED BY <1>1, <1>2, <2>1, <2>3, NothingOwed, StaysStraight DEF RetryInv
<1>6. CASE WorkerDone(w)
  <2> DEFINE e == hold[w]
  <2>1. /\ hold' = [hold EXCEPT ![w] = NoEvent] /\ queue' = queue /\ failed' = failed
        /\ Applied(e) /\ e \in Held
    BY <1>6 DEF WorkerDone, Held
  <2>7. InQueues' = InQueues /\ InFailed' = InFailed
    BY <2>1 DEF InFailed, InQueues
  <2>8. Held' \subseteq Held /\ Held \subseteq Held' \cup {e}
    BY <2>1, HeldShrinks
  <2>2. Pending' \subseteq Pending /\ Pending \subseteq Pending' \cup {e}
    BY <1>1, <1>3, <2>7, <2>8 DEF Pending
  <2>3. e \in Event /\ e.from = e.path /\ e.n \in Nat /\ e.path \in Paths
    <3>1. e \in Pending
      BY <2>1 DEF Pending
    <3>2. e \in Event /\ e.from = e.path
      BY <3>1, PendingTypes DEF RetryInv, Straight, Due
    <3> QED BY <3>2 DEF Event
  <2> HIDE DEF e
  <2>4. \A p \in Paths : owed[p] \in Nat
    BY DEF TypeInv, LoopTypes, LoopAssumption
  <2>5. ASSUME ~ctxDone', at' \notin {"close", "join", "done"}, NEW p \in Paths, owed'[p] # 0
        PROVE  Kept(p, owed[p])' \/ resync' \/ job' = "resync"
    <3>1. owed'[p] = owed[p] /\ ~(p = e.path /\ owed[p] <= e.n)
      BY <2>1, <2>3, <2>5 DEF Applied
    <3>2. Kept(p, owed[p]) \/ resync \/ job = "resync"
      BY <1>1, <2>5, <3>1 DEF RetryInv, OwedKept
    <3>3. ASSUME NEW f \in Pending, f.path = p, f.n = owed[p] PROVE Kept(p, owed[p])'
      <4>1. owed[p] <= owed[p]
        BY <2>4
      <4>2. f # e
        BY <3>1, <3>3, <4>1
      <4> QED BY <2>2, <3>1, <3>3, <4>2 DEF Kept
    <3> QED BY <1>1, <3>2, <3>3 DEF Kept
  <2>6. OwedKept'
    BY <2>5 DEF OwedKept
  <2>9. \A p \in Paths : owed'[p] \in {0, owed[p]}
    BY <2>1 DEF Applied
  <2> QED BY <1>1, <1>2, <2>2, <2>6, <2>9, StaysStraight DEF RetryInv
<1>7. CASE WorkerFails(w)
  <2>1. hold' = hold /\ queue' = queue /\ failed' = failed /\ owed' = owed
    BY <1>7 DEF WorkerFails, history
  <2>2. Pending' = Pending
    BY <1>1, <1>3, <2>1 DEF Pending, Held, InFailed, InQueues
  <2>3. OwedKept'
    BY <1>1, <2>1, <2>2, StaysOwed DEF RetryInv
  <2> QED BY <1>1, <1>2, <2>1, <2>2, <2>3, StaysStraight DEF RetryInv
<1>8. CASE WorkerReport(w)
  <2> DEFINE e == hold[w]
  <2>1. /\ hold' = [hold EXCEPT ![w] = NoEvent] /\ queue' = queue /\ owed' = owed
        /\ failed' = Append(failed, e) \/ (ctxDone /\ failed' = failed)
    BY <1>8 DEF WorkerReport, Report, history
  <2>2. e \in Event /\ e \in Held
    BY <1>8 DEF WorkerReport, TypeInv, Hands, LoopTypes, Held
  <2>3. Held' \subseteq Held /\ Held \subseteq Held' \cup {e}
    BY <2>1, HeldShrinks
  <2>7. InQueues' = InQueues
    BY <2>1 DEF InQueues
  <2>4. InFailed' = InFailed \cup {e} \/ (ctxDone /\ InFailed' = InFailed)
    BY <2>1, <2>2, FailedGrows DEF InFailed
  <2> HIDE DEF e
  <2>5. Pending' \subseteq Pending /\ (Pending \subseteq Pending' \/ ctxDone)
    BY <1>1, <1>3, <2>2, <2>3, <2>4, <2>7 DEF Pending
  <2>6. OwedKept'
    BY <1>1, <2>1, <2>5, StaysOwed, NothingOwed DEF RetryInv
  <2> QED BY <1>1, <1>2, <2>1, <2>5, <2>6, StaysStraight DEF RetryInv
<1> QED BY <1>4, <1>5, <1>6, <1>7, <1>8 DEF WorkerStep

\* An event received is in hand; what it cancels was older and of its own path.
LEMMA ForgetsNotReceive ==
    ASSUME LoopAssumption, Direct, TypeInv, RetryInv, NEW e \in NewEvents, Receive(e)
    PROVE  RetryInv'
<1>1. e \in Event /\ e.path \in Paths /\ e.from = e.path /\ e.n # 0 /\ e.n = received + 1
  <2>1. e \in Event /\ e.path \in Paths /\ e.n = received + 1
    BY ReceivedType DEF Receive, TypeInv, LoopTypes
  <2>2. e.from = e.path
    BY DEF NewEvents, Direct
  <2> QED BY <2>1, <2>2 DEF Event
<1>2. /\ at = "select" /\ at' = "send" /\ cur' = e /\ job' = job /\ due' = due
      /\ retry' = [retry EXCEPT ![e.path] = NoItem]
      /\ owed' = [p \in Paths |-> IF p \in {e.path, e.from} THEN e.n ELSE owed[p]]
      /\ hold' = hold /\ queue' = queue /\ failed' = failed
      /\ resync' = resync /\ ctxDone' = ctxDone /\ received' = received + 1
  BY <1>1, StraightDispatch DEF Receive, workVars, signals
<1>3. JobEnds'
  BY <1>2 DEF RetryInv, JobEnds
<1>4. InHand = {} /\ InHand' = {e}
  BY <1>2, <1>3, HandIs DEF RetryInv
<1>5. Held' = Held /\ InQueues' = InQueues /\ InFailed' = InFailed
  BY <1>2 DEF Held, InQueues, InFailed
<1>6. \A p \in Paths : retry'[p] = IF p = e.path THEN NoItem ELSE retry[p]
  BY <1>2 DEF TypeInv, LoopTypes
<1>7. InRetry' \subseteq InRetry
  BY <1>6 DEF InRetry, NoItem
<1>8. \A f \in InRetry : f.path # e.path => f \in InRetry'
  <2> SUFFICES ASSUME NEW f \in InRetry, f.path # e.path PROVE f \in InRetry'
    OBVIOUS
  <2>1. PICK p \in Paths : retry[p].ev = f /\ retry[p] # NoItem
    BY RetryPending
  <2>2. p # e.path
    BY <2>1 DEF RetryInv, RetryFiled
  <2>3. retry'[p].ev = f /\ f # NoEvent
    BY <1>6, <2>1, <2>2 DEF InRetry
  <2> QED BY <2>3 DEF InRetry
<1>9. /\ Pending' \subseteq Pending \cup {e} /\ e \in Pending'
      /\ \A f \in Pending : f.path # e.path => f \in Pending'
  BY <1>2, <1>4, <1>5, <1>7, <1>8 DEF Pending
<1>12. Straight'
  <2> SUFFICES ASSUME NEW f \in Pending' PROVE Due(f)'
    BY DEF Straight
  <2>1. received \in Nat
    BY DEF TypeInv, LoopTypes, LoopAssumption
  <2>2. CASE f = e
    <3>1. owed'[e.path] = e.n /\ e.n <= received'
      BY <1>1, <1>2, <2>1
    <3> QED BY <1>1, <2>1, <2>2, <3>1 DEF Due
  <2>3. CASE f # e
    <3>1. f \in Event /\ Due(f)
      BY <1>9, <2>3, PendingTypes DEF RetryInv, Straight
    <3>2. f.n \in Nat /\ f.path \in Paths
      BY <3>1 DEF Event
    <3>3. owed'[f.path] \in {received + 1, owed[f.path]}
      BY <1>1, <1>2, <3>2
    <3>4. f.n <= received + 1 /\ f.n <= received'
      BY <1>2, <2>1, <3>1, <3>2 DEF Due
    <3> QED BY <3>1, <3>3, <3>4 DEF Due
  <2> QED BY <2>2, <2>3
<1>10. Straight' /\ RetryFiled'
  BY <1>6, <1>12 DEF RetryInv, RetryFiled
<1>11. OwedKept'
  <2> SUFFICES ASSUME ~ctxDone', NEW p \in Paths, owed'[p] # 0
               PROVE  Kept(p, owed[p])' \/ resync' \/ job' = "resync"
    BY DEF OwedKept
  <2>1. CASE p = e.path
    <3>1. owed'[p] = e.n
      BY <1>2, <2>1
    <3> QED BY <1>9, <2>1, <3>1 DEF Kept
  <2>2. CASE p # e.path
    <3>1. owed'[p] = owed[p]
      BY <1>1, <1>2, <2>2
    <3>2. Kept(p, owed[p]) \/ resync \/ job = "resync"
      BY <1>2, <3>1 DEF RetryInv, OwedKept
    <3> QED BY <1>2, <1>9, <2>2, <3>1, <3>2 DEF Kept
  <2> QED BY <2>1, <2>2
<1> QED BY <1>3, <1>10, <1>11 DEF RetryInv

\* A failure asks for a resync, or is queued and may replace a retry of its path
\* that is not newer.
LEMMA ForgetsNotFailure ==
    ASSUME LoopAssumption, TypeInv, RetryInv, HandleFailure, ~Overwrites
    PROVE  RetryInv'
<1> DEFINE e == Head(failed)
           n == retry[e.path].attempts + 1
           old == retry[e.path]
<1>1. /\ at = "select" /\ failed # << >> /\ failed' = Tail(failed)
      /\ \/ n >= RetryMax /\ retry' = [retry EXCEPT ![e.path] = NoItem] /\ resync' = TRUE
         \/ /\ ~(n >= RetryMax) /\ resync' = resync
            /\ retry' = [retry EXCEPT ![e.path] = [ev |-> e, attempts |-> n]]
      /\ at' = at /\ job' = job /\ cur' = cur /\ due' = due /\ hold' = hold /\ queue' = queue
      /\ owed' = owed /\ ctxDone' = ctxDone /\ received' = received
  BY DEF HandleFailure, workVars, history
<1>2. /\ e \in InFailed /\ InFailed' \subseteq InFailed /\ InFailed \subseteq InFailed' \cup {e}
  BY <1>1, FailedShrinks
<1>3. e \in Event /\ e \in Pending
  BY <1>2, PendingTypes DEF Pending
<1>4. e.path \in Paths /\ e # NoEvent /\ e.n \in Nat
  BY <1>3 DEF Event, LoopAssumption
<1>5. n \in Nat \ {0}
  <2>1. retry[e.path].attempts \in Nat
    BY <1>4, RetryItem DEF TypeInv, LoopTypes
  <2> QED BY <2>1
<1>6. JobEnds'
  BY <1>1 DEF RetryInv, JobEnds
<1>7. InHand' = InHand /\ Held' = Held /\ InQueues' = InQueues
  BY <1>1 DEF InHand, Held, InQueues
<1>8. CASE n >= RetryMax
  <2>1. retry' = [retry EXCEPT ![e.path] = NoItem] /\ resync'
    BY <1>1, <1>8
  <2> HIDE DEF e, n
  <2>2. \A p \in Paths : retry'[p] = IF p = e.path THEN NoItem ELSE retry[p]
    BY <2>1 DEF TypeInv, LoopTypes
  <2>3. InRetry' \subseteq InRetry
    BY <2>2 DEF InRetry, NoItem
  <2>4. Pending' \subseteq Pending
    BY <1>1, <1>2, <1>7, <2>3 DEF Pending
  <2>5. Straight' /\ RetryFiled' /\ OwedKept'
    BY <1>1, <2>1, <2>2, <2>4, StaysStraight DEF RetryInv, RetryFiled, OwedKept
  <2> QED BY <1>6, <2>5 DEF RetryInv
<1>9. CASE ~(n >= RetryMax)
  <2>1. retry' = [retry EXCEPT ![e.path] = [ev |-> e, attempts |-> n]] /\ resync' = resync
    BY <1>1, <1>9
  <2>2. old # NoItem => old.ev.path = e.path /\ old.ev.n \in Nat /\ old.ev.n <= e.n
    <3> SUFFICES ASSUME old # NoItem
                 PROVE  old.ev.path = e.path /\ old.ev.n \in Nat /\ old.ev.n <= e.n
      OBVIOUS
    <3>1. old.ev.path = e.path /\ old.ev \in Event
      BY <1>4, RetryItem DEF RetryInv, RetryFiled, TypeInv, LoopTypes
    <3>2. old.ev.n \in Nat
      BY <3>1 DEF Event
    <3>3. n < RetryMax
      BY <1>5, <1>9 DEF LoopAssumption
    <3>4. ~(old.ev.n > e.n)
      BY <3>3 DEF Overwrites
    <3> QED BY <1>4, <3>1, <3>2, <3>4
  <2> HIDE DEF e, n
  <2>4. \A p \in Paths : retry'[p] = IF p = e.path THEN [ev |-> e, attempts |-> n] ELSE retry[p]
    BY <2>1 DEF TypeInv, LoopTypes
  <2>5. /\ e \in InRetry' /\ InRetry' \subseteq InRetry \cup {e}
        /\ \A f \in InRetry : f \in InRetry' \/ (old # NoItem /\ f = old.ev)
    <3>1. e \in InRetry'
      BY <1>4, <2>4 DEF InRetry
    <3>2. ASSUME NEW f \in InRetry PROVE f \in InRetry' \/ (old # NoItem /\ f = old.ev)
      <4>1. PICK p \in Paths : retry[p].ev = f /\ retry[p] # NoItem
        BY RetryPending
      <4>2. CASE p = e.path
        BY <4>1, <4>2
      <4>3. CASE p # e.path
        BY <2>4, <4>1, <4>3 DEF InRetry
      <4> QED BY <4>2, <4>3
    <3>3. InRetry' \subseteq InRetry \cup {e}
      BY <2>4 DEF InRetry
    <3> QED BY <3>1, <3>2, <3>3
  <2> HIDE DEF old
  <2>6. /\ Pending' \subseteq Pending /\ e \in Pending'
        /\ \A f \in Pending : f \in Pending' \/ (old # NoItem /\ f = old.ev)
    BY <1>1, <1>2, <1>3, <1>7, <2>5 DEF Pending
  <2>7. RetryFiled'
    BY <1>5, <2>4 DEF RetryInv, RetryFiled
  <2>8. Straight'
    BY <1>1, <2>6, StaysStraight DEF RetryInv
  <2>9. OwedKept'
    <3> SUFFICES ASSUME ~ctxDone', NEW p \in Paths, owed'[p] # 0
                 PROVE  Kept(p, owed[p])' \/ resync' \/ job' = "resync"
      BY DEF OwedKept
    <3>1. Kept(p, owed[p]) \/ resync \/ job = "resync"
      BY <1>1 DEF RetryInv, OwedKept
    <3>2. ASSUME NEW f \in Pending, f.path = p, f.n = owed[p] PROVE Kept(p, owed[p])'
      <4>1. CASE f \in Pending'
        BY <1>1, <3>2, <4>1 DEF Kept
      <4>2. CASE old # NoItem /\ f = old.ev
        <5>1. p = e.path /\ owed[p] <= e.n /\ owed[p] \in Nat
          BY <2>2, <3>2, <4>2
        <5>2. Due(e) /\ owed[p] # 0
          BY <1>1, <1>3 DEF RetryInv, Straight
        <5>3. owed[p] = e.n
          BY <1>4, <5>1, <5>2 DEF Due
        <5> QED BY <1>1, <2>6, <5>1, <5>3 DEF Kept
      <4> QED BY <2>6, <4>1, <4>2
    <3> QED BY <1>1, <2>1, <3>1, <3>2 DEF Kept
  <2> QED BY <1>6, <2>7, <2>8, <2>9 DEF RetryInv
<1> QED BY <1>8, <1>9

\* The items that are due leave the queue for the loop, which sends them one by one.
LEMMA ForgetsNotTick ==
    ASSUME LoopAssumption, TypeInv, RetryInv, NEW ps \in SUBSET Paths, RetryTick(ps)
    PROVE  RetryInv'
<1>1. /\ at = "select" /\ ps # {} /\ \A p \in ps : retry[p] # NoItem
      /\ due' = {[retry[p].ev EXCEPT !.fresh = FALSE] : p \in ps}
      /\ retry' = [p \in Paths |-> IF p \in ps THEN NoItem ELSE retry[p]]
      /\ at' = "retry" /\ job' = job /\ hold' = hold /\ queue' = queue /\ failed' = failed
      /\ owed' = owed /\ resync' = resync /\ ctxDone' = ctxDone /\ received' = received
  BY DEF RetryTick, workVars, signals, history
<1>2. JobEnds' /\ due = {}
  BY <1>1 DEF RetryInv, JobEnds
<1>3. InHand = {} /\ InHand' = {}
  BY <1>1, <1>2, HandIs DEF RetryInv
<1>4. Held' = Held /\ InQueues' = InQueues /\ InFailed' = InFailed
  BY <1>1 DEF Held, InQueues, InFailed
<1>5. InRetry' \subseteq InRetry
  BY <1>1 DEF InRetry, NoItem
<1>6. ASSUME NEW p \in ps
      PROVE  /\ [retry[p].ev EXCEPT !.fresh = FALSE].path = retry[p].ev.path
             /\ [retry[p].ev EXCEPT !.fresh = FALSE].from = retry[p].ev.from
             /\ [retry[p].ev EXCEPT !.fresh = FALSE].n = retry[p].ev.n
             /\ retry[p].ev \in InRetry
             /\ [retry[p].ev EXCEPT !.fresh = FALSE] \in due'
  <2>1. retry[p].ev \in InRetry
    BY <1>1, RetryPending
  <2>2. retry[p].ev \in Event
    BY <2>1, PendingTypes DEF Pending
  <2> QED BY <1>1, <2>1, <2>2 DEF Event
<1>7. ASSUME NEW f \in InRetry PROVE f \in InRetry' \/ \E g \in due' : g.path = f.path /\ g.n = f.n
  <2>1. PICK p \in Paths : retry[p].ev = f /\ f # NoEvent
    BY <1>7 DEF InRetry
  <2>2. CASE p \in ps
    BY <1>6, <2>1, <2>2
  <2>3. CASE p \notin ps
    <3>1. retry'[p].ev = f
      BY <1>1, <2>1, <2>3
    <3> QED BY <2>1, <3>1 DEF InRetry
  <2> QED BY <2>2, <2>3
<1>8. \A f \in Pending : \E g \in Pending' : g.path = f.path /\ g.n = f.n
  BY <1>2, <1>3, <1>4, <1>7 DEF Pending
<1>9. Straight'
  <2>1. ASSUME NEW g \in due'
        PROVE  \E f \in Pending : g.path = f.path /\ g.n = f.n /\ g.from = f.from
    <3>1. PICK p \in ps : g = [retry[p].ev EXCEPT !.fresh = FALSE]
      BY <1>1
    <3>2. retry[p].ev \in Pending
      BY <1>6 DEF Pending
    <3> QED BY <1>6, <3>1, <3>2
  <2>2. Pending' \subseteq Pending \cup due'
    BY <1>3, <1>4, <1>5 DEF Pending
  <2> QED BY <1>1, <2>1, <2>2, StaysStraight DEF RetryInv
<1>10. RetryFiled'
  BY <1>1 DEF RetryInv, RetryFiled
<1>11. OwedKept'
  BY <1>1, <1>8, StaysOwed DEF RetryInv
<1> QED BY <1>2, <1>9, <1>10, <1>11 DEF RetryInv

LEMMA ForgetsNotNext ==
    ASSUME LoopAssumption, TypeInv, RetryInv, NEW e \in due, RetryNext(e)
    PROVE  RetryInv'
<1>1. e \in Event /\ e.from = e.path
  BY PendingTypes DEF RetryInv, Straight, Due, Pending
<1>2. /\ at = "retry" /\ at' = "send" /\ cur' = e /\ job' = job /\ due' = due \ {e}
      /\ hold' = hold /\ queue' = queue /\ failed' = failed /\ retry' = retry
      /\ owed' = owed /\ resync' = resync /\ ctxDone' = ctxDone /\ received' = received
  BY <1>1, StraightDispatch DEF RetryNext, workVars, signals, history
<1>3. JobEnds'
  BY <1>2 DEF RetryInv, JobEnds
<1>4. InHand = {} /\ InHand' = {e}
  BY <1>2, <1>3, HandIs DEF RetryInv
<1>5. Held' = Held /\ InQueues' = InQueues /\ InFailed' = InFailed /\ InRetry' = InRetry
  BY <1>2 DEF Held, InQueues, InFailed, InRetry
<1>6. Pending' = Pending
  BY <1>2, <1>4, <1>5 DEF Pending
<1>7. Straight' /\ RetryFiled'
  BY <1>2, <1>6, StaysStraight DEF RetryInv, RetryFiled
<1>8. OwedKept'
  BY <1>2, <1>6, StaysOwed DEF RetryInv
<1> QED BY <1>3, <1>7, <1>8 DEF RetryInv

\* The end of the loop, and what happens around it.
LEMMA ForgetsNotOther ==
    ASSUME LoopAssumption, TypeInv, RetryInv,
           \/ Exit \/ DeboClosed \/ Joined \/ MoveBlocks \/ MoveLeaves \/ Cancel
           \/ RequestResync \/ WatcherDies \/ Terminated \/ UNCHANGED vars
    PROVE  RetryInv'
<1>1. /\ due' = due /\ retry' = retry /\ hold' = hold /\ queue' = queue /\ failed' = failed
      /\ owed' = owed /\ job' = job /\ cur' = cur /\ (resync => resync') /\ received' = received
  BY DEF Exit, DeboClosed, Joined, MoveBlocks, MoveLeaves, Cancel, RequestResync, WatcherDies,
     Terminated, vars, loopVars, workVars, signals, history
<1>2. \/ at' = at /\ ctxDone' = ctxDone
      \/ at' \in {"close", "join", "done"} /\ at \in {"select", "close", "join"}
      \/ ctxDone' /\ at' = at
  BY DEF Exit, DeboClosed, Joined, MoveBlocks, MoveLeaves, Cancel, RequestResync, WatcherDies,
     Terminated, vars, loopVars, signals
<1>3. JobEnds'
  BY <1>1, <1>2 DEF RetryInv, JobEnds
<1>4. InHand' = InHand
  BY <1>1, <1>2, <1>3, HandIs DEF RetryInv
<1>5. Pending' = Pending
  BY <1>1, <1>4 DEF Pending, Held, InQueues, InFailed, InRetry
<1>6. Straight' /\ RetryFiled'
  BY <1>1, <1>5, StaysStraight DEF RetryInv, RetryFiled
<1>7. OwedKept'
  BY <1>1, <1>2, <1>5, StaysOwed DEF RetryInv, OwedKept
<1> QED BY <1>3, <1>6, <1>7 DEF RetryInv

LEMMA RetryStep ==
    ASSUME LoopAssumption, Direct, TypeInv, RetryInv, [Next]_vars, [~Overwrites]_vars
    PROVE  RetryInv'
<1>1. ~InlineStep
  BY DEF InlineStep, InlineDone, InlineFails, InlineReport, RetryInv, JobEnds
<1>2. CASE UNCHANGED vars
  BY <1>2, ForgetsNotOther
<1>3. CASE Next /\ ~Overwrites
  BY <1>1, <1>3, ForgetsNotSend, ForgetsNotBarrier, ForgetsNotWorker, ForgetsNotReceive,
     ForgetsNotFailure, ForgetsNotTick, ForgetsNotNext, ForgetsNotOther DEF Next
<1> QED BY <1>2, <1>3

LEMMA RetryInit ==
    ASSUME LoopAssumption, Init
    PROVE  RetryInv
<1>1. Pending = {}
  BY DEF Init, Pending, Held, InQueues, InFailed, InRetry, InHand, NoItem
<1> QED BY <1>1 DEF Init, RetryInv, Straight, RetryFiled, JobEnds, OwedKept

LEMMA RetryMeaning == RetryInv => NothingForgotten
BY DEF RetryInv, OwedKept, NothingForgotten, Kept, Pending

\* An event that was not applied is in the loop's hands, in a channel, with a
\* worker, among the failures or the retries, or a resync is going to cover its
\* path: for any number of workers, paths, events, failures and attempts and any
\* capacity.  Renames and failing resyncs apart, the only way to lose one is that
\* retryQueue.schedule replaces a pending retry by that of an older event.
THEOREM ForgetsOnlyByOverwriting ==
    ASSUME Direct
    PROVE  Spec /\ [][~Overwrites]_vars => []NothingForgotten
<1> USE LoopAssumption, Direct
<1>1. Init => RetryInv
  BY RetryInit
<1>2. TypeInv /\ RetryInv /\ [Next]_vars /\ [~Overwrites]_vars => RetryInv'
  BY RetryStep
<1> QED BY <1>1, <1>2, RetryMeaning, CountInvariant, PTL DEF Spec, CountInv
================================================================================
