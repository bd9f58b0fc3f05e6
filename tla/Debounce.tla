------------------------------- MODULE Debounce -------------------------------
(***************************************************************************)
(* internal/debounce: events are grouped per (side, path) and released     *)
(* after a silence window.  The threads are the two pump goroutines (one   *)
(* per side) that call Push, one goroutine per fired timer, and the        *)
(* engine's main loop, which receives from Out() and is also the caller    *)
(* of Close.  Every critical section of d.mu is one step, except that of a *)
(* Move: Push emits it on the channel while it still holds the lock.       *)
(*                                                                         *)
(* Abstractions.  A window is a timer that may fire at any moment after it *)
(* was armed.  Go serves senders blocked on a full channel in FIFO order;  *)
(* the model lets any of them go first.  d.done is closed and d.closed is  *)
(* set in one critical section, so one variable stands for both.           *)
(***************************************************************************)
EXTENDS Naturals, Sequences, FiniteSets

CONSTANTS Sides,       \* one pump goroutine per side
          Paths,
          Kinds,       \* the kinds the watcher emits, Move apart
          Moves,       \* whether the watcher pairs renames into Move events
          OutCap,      \* capacity of d.out (1024 in the code)
          MaxPush,     \* bound: events pushed in a behaviour
          FatalClose   \* whether Close may be called while ctx is still alive

CONSTANTS Free, NoSlot

Keys == Sides \X Paths

\* An event; "at" numbers the pushes and stands for the field At.  "from" is
\* the path itself unless the event is a Move.
Event == [side : Sides, kind : Kinds \cup {"CREATE", "MODIFY", "DELETE", "MOVE"},
          path : Paths, from : Paths, at : 1..MaxPush]

\* A pending slot.  "gen" identifies the *slot the callback compares with.
Slot == [ev : Event, gen : 1..MaxPush, armed : BOOLEAN]

ASSUME ConstantsAssumption ==
    /\ Kinds \subseteq {"CREATE", "MODIFY", "DELETE", "ATTRIB"}
    /\ Moves \in BOOLEAN /\ FatalClose \in BOOLEAN
    /\ OutCap \in Nat \ {0} /\ MaxPush \in Nat
    /\ Free \notin Event /\ NoSlot \notin Slot

VARIABLES
    mu,        \* Free, or the Move its pump is emitting with the lock held
    pending,   \* d.pending
    fired,     \* timers that fired and whose callback has not got the lock
    sending,   \* emissions counted by d.emitting, on their way to d.out
    out,       \* the buffer of d.out
    outClosed, \* close(d.out) was executed
    closed,    \* d.closed and d.done
    closer,    \* where the engine's loop is in Close
    ctxDone,   \* the service context was cancelled
    pushed,    \* number of events pushed so far
    owed,      \* history: last event of each key not yet handed to the loop
    moved      \* history: last Move placed in out that touched each key

vars == <<mu, pending, fired, sending, out, outClosed, closed, closer,
          ctxDone, pushed, owed, moved>>

KeyOf(e)    == <<e.side, e.path>>
Touched(e)  == {<<e.side, e.from>>, <<e.side, e.path>>}
Queued      == {out[i] : i \in DOMAIN out}
InFlight    == Queued \cup sending \cup {pending[k].ev : k \in {q \in Keys : pending[q] # NoSlot}}

\* The event that represents a burst (merge).
MergeCancels(prev, next) ==
    IF prev.kind = "DELETE" /\ next.kind = "CREATE" THEN [next EXCEPT !.kind = "NONE"]
    ELSE next

Merge(prev, next) ==
    IF next.kind = "DELETE" THEN next
    ELSE IF prev.kind = "CREATE" /\ next.kind = "MODIFY" THEN [prev EXCEPT !.at = next.at]
    ELSE IF prev.kind = "DELETE" /\ next.kind = "CREATE" THEN [next EXCEPT !.kind = "MODIFY"]
    ELSE next

Init ==
    /\ mu = Free
    /\ pending = [k \in Keys |-> NoSlot]
    /\ fired = {} /\ sending = {} /\ out = << >>
    /\ outClosed = FALSE /\ closed = FALSE /\ closer = "running" /\ ctxDone = FALSE
    /\ pushed = 0
    /\ owed = [k \in Keys |-> 0] /\ moved = [k \in Keys |-> 0]

-------------------------------------------------------------------------------
\* Push of anything but a Move.  An existing slot keeps its identity, its
\* event is merged and its timer re-armed (Reset), even if it already fired.
Push(k, kind) ==
    /\ mu = Free /\ ~closed /\ pushed < MaxPush
    /\ LET ev == [side |-> k[1], kind |-> kind, path |-> k[2], from |-> k[2],
                  at |-> pushed + 1]
       IN pending' = [pending EXCEPT ![k] =
              IF @ = NoSlot THEN [ev |-> ev, gen |-> ev.at, armed |-> TRUE]
              ELSE [ev |-> Merge(@.ev, ev), gen |-> @.gen, armed |-> TRUE]]
    /\ pushed' = pushed + 1
    /\ owed' = [owed EXCEPT ![k] = pushed + 1]
    /\ UNCHANGED <<mu, fired, sending, out, outClosed, closed, closer, ctxDone, moved>>

\* Push of a Move, first half: take the lock and cancel what is pending on
\* both paths (cancelLocked).  The lock stays held during the emission.
PushMove(s, from, to) ==
    /\ Moves /\ mu = Free /\ ~closed /\ pushed < MaxPush /\ from # to
    /\ mu' = [side |-> s, kind |-> "MOVE", path |-> to, from |-> from, at |-> pushed + 1]
    /\ pending' = [k \in Keys |-> IF k \in Touched(mu') THEN NoSlot ELSE pending[k]]
    /\ owed' = [k \in Keys |-> IF k \in Touched(mu') THEN 0 ELSE owed[k]]
    /\ pushed' = pushed + 1
    /\ UNCHANGED <<fired, sending, out, outClosed, closed, closer, ctxDone, moved>>

\* Push after Close returns at once.
PushClosed ==
    /\ mu = Free /\ closed /\ pushed < MaxPush
    /\ pushed' = pushed + 1
    /\ UNCHANGED <<mu, pending, fired, sending, out, outClosed, closed, closer, ctxDone,
                   owed, moved>>

\* The second half: emit's select takes the channel ...
MoveSent ==
    /\ mu # Free /\ Len(out) < OutCap
    /\ out' = Append(out, mu)
    /\ moved' = [k \in Keys |-> IF k \in Touched(mu) THEN mu.at ELSE moved[k]]
    /\ mu' = Free
    /\ UNCHANGED <<pending, fired, sending, outClosed, closed, closer, ctxDone, pushed, owed>>

\* ... or d.done or ctx.Done.
MoveDroppedLocked == mu # Free /\ (closed \/ ctxDone) /\ UNCHANGED vars

MoveDropped ==
    /\ mu # Free /\ (closed \/ ctxDone)
    /\ mu' = Free
    /\ UNCHANGED <<pending, fired, sending, out, outClosed, closed, closer, ctxDone, pushed,
                   owed, moved>>

\* The runtime fires an armed timer: its callback now wants the lock.
TimerFires(k) ==
    /\ pending[k] # NoSlot /\ pending[k].armed
    /\ pending' = [pending EXCEPT ![k].armed = FALSE]
    /\ fired' = fired \cup {[key |-> k, gen |-> pending[k].gen]}
    /\ UNCHANGED <<mu, sending, out, outClosed, closed, closer, ctxDone, pushed, owed, moved>>

\* The callback's critical section: only the slot it was created for is
\* removed, and the emission is registered before the lock is released.
CallbackDeletesFirst(f) ==
    /\ f \in fired /\ mu = Free
    /\ fired' = fired \ {f}
    /\ pending' = [pending EXCEPT ![f.key] = NoSlot]
    /\ sending' = IF pending[f.key] # NoSlot /\ pending[f.key].gen = f.gen /\ ~closed
                  THEN sending \cup {pending[f.key].ev} ELSE sending
    /\ UNCHANGED <<mu, out, outClosed, closed, closer, ctxDone, pushed, owed, moved>>

CallbackKeepsSlot(f) ==
    /\ f \in fired /\ mu = Free
    /\ fired' = fired \ {f}
    /\ sending' = IF pending[f.key] # NoSlot /\ pending[f.key].gen = f.gen /\ ~closed
                  THEN sending \cup {pending[f.key].ev} ELSE sending
    /\ UNCHANGED <<mu, pending, out, outClosed, closed, closer, ctxDone, pushed, owed, moved>>

Callback(f) ==
    /\ f \in fired /\ mu = Free
    /\ fired' = fired \ {f}
    /\ IF pending[f.key] # NoSlot /\ pending[f.key].gen = f.gen
       THEN /\ pending' = [pending EXCEPT ![f.key] = NoSlot]
            /\ sending' = IF closed THEN sending ELSE sending \cup {pending[f.key].ev}
       ELSE UNCHANGED <<pending, sending>>
    /\ UNCHANGED <<mu, out, outClosed, closed, closer, ctxDone, pushed, owed, moved>>

\* emit, called by the callback without the lock.
EmitSent(e) ==
    /\ e \in sending /\ Len(out) < OutCap
    /\ out' = Append(out, e)
    /\ sending' = sending \ {e}
    /\ UNCHANGED <<mu, pending, fired, outClosed, closed, closer, ctxDone, pushed, owed, moved>>

EmitDropped(e) ==
    /\ e \in sending /\ (closed \/ ctxDone)
    /\ sending' = sending \ {e}
    /\ UNCHANGED <<mu, pending, fired, out, outClosed, closed, closer, ctxDone, pushed, owed,
                   moved>>

-------------------------------------------------------------------------------
\* The engine's loop receives an event ...
Receive ==
    /\ closer = "running" /\ out # << >>
    /\ LET e == Head(out) IN
       owed' = [owed EXCEPT ![KeyOf(e)] = IF @ = e.at THEN 0 ELSE @]
    /\ out' = Tail(out)
    /\ UNCHANGED <<mu, pending, fired, sending, outClosed, closed, closer, ctxDone, pushed,
                   moved>>

CancelContext ==
    /\ ~ctxDone
    /\ ctxDone' = TRUE
    /\ UNCHANGED <<mu, pending, fired, sending, out, outClosed, closed, closer, pushed, owed,
                   moved>>

\* ... or leaves its select for good and calls Close: on ctx.Done, or on a
\* fatal failure of a watcher, which does not cancel the context.
CallClose ==
    /\ closer = "running" /\ (ctxDone \/ FatalClose)
    /\ closer' = "locking"
    /\ UNCHANGED <<mu, pending, fired, sending, out, outClosed, closed, ctxDone, pushed, owed,
                   moved>>

\* Step 1 of Close: refuse new emissions, free the blocked ones, stop timers.
CloseLockedSilently ==
    /\ closer = "locking" /\ mu = Free
    /\ closer' = "waiting"
    /\ pending' = [k \in Keys |-> NoSlot]
    /\ UNCHANGED <<mu, fired, sending, out, outClosed, closed, ctxDone, pushed, owed, moved>>

CloseLocked ==
    /\ closer = "locking" /\ mu = Free
    /\ closer' = "waiting"
    /\ closed' = TRUE
    /\ pending' = [k \in Keys |-> NoSlot]
    /\ UNCHANGED <<mu, fired, sending, out, outClosed, ctxDone, pushed, owed, moved>>

\* Steps 2 and 3: d.emitting.Wait, then close(d.out).
CloseOutEarly ==
    /\ closer = "waiting"
    /\ closer' = "closed"
    /\ outClosed' = TRUE
    /\ UNCHANGED <<mu, pending, fired, sending, out, closed, ctxDone, pushed, owed, moved>>

CloseOut ==
    /\ closer = "waiting" /\ sending = {}
    /\ closer' = "closed"
    /\ outClosed' = TRUE
    /\ UNCHANGED <<mu, pending, fired, sending, out, closed, ctxDone, pushed, owed, moved>>

Terminated == closer = "closed" /\ UNCHANGED vars

Next ==
    \/ \E k \in Keys, kind \in Kinds : Push(k, kind)
    \/ \E s \in Sides, from, to \in Paths : PushMove(s, from, to)
    \/ PushClosed \/ MoveSent \/ MoveDropped
    \/ \E k \in Keys : TimerFires(k)
    \/ \E f \in fired : Callback(f)
    \/ \E e \in sending : EmitSent(e) \/ EmitDropped(e)
    \/ Receive \/ CancelContext \/ CallClose \/ CloseLocked \/ CloseOut
    \/ Terminated

\* Goroutines that can run do run; the loop keeps receiving; Go's mutex hands
\* the lock to a waiter in bounded time, hence strong fairness of its takers.
Fairness ==
    /\ \A k \in Keys : WF_vars(TimerFires(k))
    /\ \A k \in Keys, g \in 1..MaxPush : SF_vars(Callback([key |-> k, gen |-> g]))
    /\ WF_vars(MoveSent \/ MoveDropped)
    /\ WF_vars(\E e \in sending : EmitSent(e) \/ EmitDropped(e))
    /\ WF_vars(Receive) /\ SF_vars(CloseLocked) /\ WF_vars(CloseOut)

Spec == Init /\ [][Next]_vars /\ Fairness

-------------------------------------------------------------------------------
\* Types of the debouncer's state.
TypeOK ==
    /\ mu \in Event \cup {Free}
    /\ pending \in [Keys -> Slot \cup {NoSlot}]
    /\ fired \subseteq [key : Keys, gen : 1..MaxPush]
    /\ sending \subseteq Event
    /\ out \in Seq(Event)
    /\ outClosed \in BOOLEAN /\ closed \in BOOLEAN /\ ctxDone \in BOOLEAN
    /\ closer \in {"running", "locking", "waiting", "closed"}
    /\ pushed \in 0..MaxPush
    /\ owed \in [Keys -> 0..MaxPush] /\ moved \in [Keys -> 0..MaxPush]

\* No goroutine is ever about to send when d.out is closed: a send on a closed
\* channel is the panic the three ordered steps of Close exist to exclude,
\* whatever timers had fired and whatever pushes were under way.
NoSendOnClosed == outClosed => sending = {} /\ mu = Free

\* Until shutdown, the last event pushed on a key is still on its way to the
\* loop - in a slot, in a fired timer's hands or in the channel - unless a Move
\* superseded it.  This is what a Reset racing a timer that already fired, or
\* a callback that removed somebody else's slot, would break.
NoEventDropped ==
    ~closed /\ ~ctxDone =>
        \A k \in Keys : owed[k] # 0 =>
            \E e \in InFlight : KeyOf(e) = k /\ e.at = owed[k]

\* "Liberamos imediatamente, e de quebra invalidamos qualquer pendencia nos dois
\* paths envolvidos": once a Move is in the channel, no older event of a path
\* it touched may still follow it.
MoveSupersedesPending == \A e \in sending : e.at > moved[KeyOf(e)]

\* Close returns: the service never hangs in shutdown, channel full or not.
CloseReturns == closer = "locking" ~> closer = "closed"

\* Silence windows end: an event pushed while the service runs reaches the loop.
Delivered == \A k \in Keys : owed[k] # 0 ~> (owed[k] = 0 \/ closer # "running" \/ ctxDone)

\* The mailbox the debouncer implements: what is in a slot, in the hands of a
\* callback or of the pump that holds the lock is held; the channel is the stream.
InHand ==
    sending \cup {pending[k].ev : k \in {q \in Keys : pending[q] # NoSlot}}
            \cup {e \in {mu} : mu # Free}

ShutdownPhase ==
    IF outClosed THEN "closed"
    ELSE IF closed THEN "refusing"
    ELSE IF ctxDone THEN "stopping" ELSE "running"

Post == INSTANCE Mailbox WITH Cap <- OutCap, held <- InHand, stream <- out,
                              phase <- ShutdownPhase

\* The debouncer is a mailbox: whatever timers, callbacks, pumps and Close do at
\* the same time, an event is handed to the loop once, is given up for a newer
\* event of its own path or for the shutdown only, and a Move is never replaced.
IsMailbox == Post!Spec
===============================================================================
