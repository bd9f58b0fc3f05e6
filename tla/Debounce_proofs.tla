---------------------------- MODULE Debounce_proofs ----------------------------
(* Proofs about Debounce, for any number of paths and pushes and any capacity. *)
EXTENDS Debounce, TLAPS

LEMMA MergeType ==
    ASSUME NEW prev \in Event, NEW next \in Event
    PROVE  /\ Merge(prev, next) \in Event
           /\ KeyOf(next) = KeyOf(prev) => KeyOf(Merge(prev, next)) = KeyOf(next)
           /\ Merge(prev, next).at = next.at
BY DEF Merge, Event, KeyOf

\* The event a push builds is an event of its key.
LEMMA NewEvent ==
    ASSUME NEW k \in Keys, NEW kind \in Kinds, ConstantsAssumption,
           NEW n \in 0..MaxPush, n < MaxPush
    PROVE  LET ev == [side |-> k[1], kind |-> kind, path |-> k[2], from |-> k[2], at |-> n + 1]
           IN  ev \in Event /\ KeyOf(ev) = k /\ ev.at = n + 1 /\ n + 1 \in 1..MaxPush
BY DEF Event, Keys, KeyOf, ConstantsAssumption

\* The debouncer's state keeps its type.
THEOREM TypeCorrect == Spec => []TypeOK
<1> USE ConstantsAssumption
<1>1. Init => TypeOK
  <2>1. MaxPush \in Nat /\ 0 \in 0..MaxPush
    BY DEF ConstantsAssumption
  <2>2. Init => pending \in [Keys -> Slot \cup {NoSlot}]
    BY DEF Init
  <2>3. Init => owed \in [Keys -> 0..MaxPush] /\ moved \in [Keys -> 0..MaxPush]
    BY <2>1 DEF Init
  <2>4. << >> \in Seq(Event)
    OBVIOUS
  <2>5. Init => /\ mu \in Event \cup {Free} /\ pushed \in 0..MaxPush
                /\ fired \subseteq [key : Keys, gen : 1..MaxPush]
                /\ sending \subseteq Event /\ out \in Seq(Event)
                /\ outClosed \in BOOLEAN /\ closed \in BOOLEAN /\ ctxDone \in BOOLEAN
                /\ closer \in {"running", "locking", "waiting", "closed"}
    BY <2>1, <2>4 DEF Init
  <2> QED BY <2>2, <2>3, <2>5 DEF TypeOK
<1>2. TypeOK /\ [Next]_vars => TypeOK'
  <2> SUFFICES ASSUME TypeOK, [Next]_vars PROVE TypeOK'
    OBVIOUS
  <2> USE DEF TypeOK
  <2>1. ASSUME NEW k \in Keys, NEW kind \in Kinds, Push(k, kind) PROVE TypeOK'
    <3> DEFINE ev == [side |-> k[1], kind |-> kind, path |-> k[2], from |-> k[2],
                      at |-> pushed + 1]
    <3>1. ev \in Event /\ pushed + 1 \in 1..MaxPush /\ pushed + 1 \in 0..MaxPush
      <4>1. pushed \in 0..MaxPush /\ pushed < MaxPush
        BY <2>1 DEF Push
      <4>2. MaxPush \in Nat
        BY DEF ConstantsAssumption
      <4>3. ev \in Event /\ pushed + 1 \in 1..MaxPush
        BY <4>1, NewEvent
      <4> QED BY <4>1, <4>2, <4>3
    <3>2. CASE pending[k] = NoSlot
      <4>1. [ev |-> ev, gen |-> ev.at, armed |-> TRUE] \in Slot
        BY <3>1 DEF Slot
      <4>2. pending' = [pending EXCEPT ![k] = [ev |-> ev, gen |-> ev.at, armed |-> TRUE]]
        BY <2>1, <3>2 DEF Push
      <4> QED BY <2>1, <3>1, <4>1, <4>2, ZenonT(60) DEF Push
    <3>3. CASE pending[k] # NoSlot
      <4>1. pending[k] \in Slot /\ pending[k].ev \in Event
        BY <3>3 DEF Slot
      <4>2. Merge(pending[k].ev, ev) \in Event
        BY <3>1, <4>1, MergeType
      <4>3. [ev |-> Merge(pending[k].ev, ev), gen |-> pending[k].gen, armed |-> TRUE] \in Slot
        BY <4>1, <4>2 DEF Slot
      <4>4. pending' = [pending EXCEPT ![k] =
                [ev |-> Merge(pending[k].ev, ev), gen |-> pending[k].gen, armed |-> TRUE]]
        BY <2>1, <3>3 DEF Push
      <4>5. pending' \in [Keys -> Slot \cup {NoSlot}]
        BY <4>3, <4>4
      <4>6. owed' \in [Keys -> 0..MaxPush] /\ pushed' \in 0..MaxPush
        BY <2>1, <3>1 DEF Push
      <4> QED BY <2>1, <4>5, <4>6 DEF Push
    <3> QED BY <3>2, <3>3
  <2>2. ASSUME NEW s \in Sides, NEW from \in Paths, NEW to \in Paths, PushMove(s, from, to)
        PROVE  TypeOK'
    <3>1. mu' \in Event /\ pushed' \in 0..MaxPush
      BY <2>2 DEF PushMove, Event, ConstantsAssumption
    <3> QED BY <2>2, <3>1 DEF PushMove
  <2>3. CASE PushClosed
    BY <2>3 DEF PushClosed, ConstantsAssumption
  <2>4. CASE MoveSent
    <3>1. mu \in Event /\ mu.at \in 0..MaxPush
      BY <2>4 DEF MoveSent, Event, ConstantsAssumption
    <3> QED BY <2>4, <3>1 DEF MoveSent
  <2>5. CASE MoveDropped
    BY <2>5 DEF MoveDropped
  <2>6. ASSUME NEW k \in Keys, TimerFires(k) PROVE TypeOK'
    <3>1. pending[k] \in Slot
      BY <2>6 DEF TimerFires
    <3>2. [pending[k] EXCEPT !.armed = FALSE] \in Slot /\ pending[k].gen \in 1..MaxPush
      BY <3>1 DEF Slot
    <3> QED BY <2>6, <3>2 DEF TimerFires
  <2>7. ASSUME NEW f \in fired, Callback(f) PROVE TypeOK'
    <3>1. f.key \in Keys
      OBVIOUS
    <3>2. pending[f.key] # NoSlot => pending[f.key].ev \in Event
      BY <3>1 DEF Slot
    <3> QED BY <2>7, <3>1, <3>2 DEF Callback
  <2>8. ASSUME NEW e \in sending, EmitSent(e) \/ EmitDropped(e) PROVE TypeOK'
    <3>1. e \in Event /\ sending' \subseteq Event
      BY <2>8 DEF EmitSent, EmitDropped
    <3>2. Append(out, e) \in Seq(Event)
      BY <3>1
    <3>3. CASE EmitSent(e)
      BY <3>1, <3>2, <3>3 DEF EmitSent
    <3>4. CASE EmitDropped(e)
      BY <3>1, <3>4 DEF EmitDropped
    <3> QED BY <2>8, <3>3, <3>4
  <2>9. CASE Receive
    <3>1. Head(out) \in Event /\ Tail(out) \in Seq(Event)
      BY <2>9 DEF Receive
    <3>2. \A k \in Keys : owed[k] \in 0..MaxPush
      OBVIOUS
    <3>3. 0 \in 0..MaxPush
      BY DEF ConstantsAssumption
    <3>4. KeyOf(Head(out)) \in Keys
      BY <3>1 DEF KeyOf, Keys, Event
    <3>5. owed' = [owed EXCEPT ![KeyOf(Head(out))] =
                       IF owed[KeyOf(Head(out))] = Head(out).at
                       THEN 0 ELSE owed[KeyOf(Head(out))]]
      BY <2>9 DEF Receive
    <3>6. owed' \in [Keys -> 0..MaxPush]
      BY <3>2, <3>3, <3>4, <3>5
    <3> QED BY <2>9, <3>1, <3>6 DEF Receive
  <2>10. CASE CancelContext \/ CallClose \/ CloseLocked \/ CloseOut \/ Terminated
    BY <2>10 DEF CancelContext, CallClose, CloseLocked, CloseOut, Terminated, vars
  <2>11. CASE UNCHANGED vars
    BY <2>11 DEF vars
  <2> QED
    BY <2>1, <2>2, <2>3, <2>4, <2>5, <2>6, <2>7, <2>8, <2>9, <2>10, <2>11 DEF Next
<1> QED BY <1>1, <1>2, PTL DEF Spec

--------------------------------------------------------------------------------
(* The three ordered steps of Close as an inductive invariant: once the lock  *)
(* was taken by Close no pump is inside an emission (it would hold the lock)  *)
(* and no callback registers a new one; d.out is closed only after that, and  *)
(* only when the emissions registered before are over.                        *)
CloseInv ==
    /\ closed <=> closer \in {"waiting", "closed"}
    /\ outClosed <=> closer = "closed"
    /\ closed => mu = Free
    /\ outClosed => sending = {}

LEMMA CloseInvInductive == TypeOK /\ CloseInv /\ [Next]_vars => CloseInv'
<1> SUFFICES ASSUME TypeOK, CloseInv, [Next]_vars PROVE CloseInv'
  OBVIOUS
<1> USE DEF CloseInv
<1>1. ASSUME NEW k \in Keys, NEW kind \in Kinds, Push(k, kind) PROVE CloseInv'
  BY <1>1 DEF Push
<1>2. ASSUME NEW s \in Sides, NEW from \in Paths, NEW to \in Paths, PushMove(s, from, to)
      PROVE  CloseInv'
  BY <1>2 DEF PushMove
<1>3. CASE PushClosed \/ MoveSent \/ MoveDropped
  BY <1>3 DEF PushClosed, MoveSent, MoveDropped
<1>4. ASSUME NEW k \in Keys, TimerFires(k) PROVE CloseInv'
  BY <1>4 DEF TimerFires
<1>5. ASSUME NEW f \in fired, Callback(f) PROVE CloseInv'
  BY <1>5 DEF Callback
<1>6. ASSUME NEW e \in sending, EmitSent(e) \/ EmitDropped(e) PROVE CloseInv'
  BY <1>6 DEF EmitSent, EmitDropped
<1>7. CASE Receive \/ CancelContext \/ CallClose \/ Terminated
  BY <1>7 DEF Receive, CancelContext, CallClose, Terminated, vars
<1>8. CASE CloseLocked \/ CloseOut
  BY <1>8 DEF CloseLocked, CloseOut
<1>9. CASE UNCHANGED vars
  BY <1>9 DEF vars
<1> QED BY <1>1, <1>2, <1>3, <1>4, <1>5, <1>6, <1>7, <1>8, <1>9 DEF Next

\* Nobody is ever about to send on d.out when it is closed.
THEOREM NoPanicOnClose == Spec => []NoSendOnClosed
<1>1. Init => CloseInv
  BY DEF Init, CloseInv
<1>2. CloseInv => NoSendOnClosed
  BY DEF CloseInv, NoSendOnClosed
<1> QED BY <1>1, <1>2, CloseInvInductive, TypeCorrect, PTL DEF Spec

--------------------------------------------------------------------------------
(* Where the last event of a key can be: in the channel, in the hands of a    *)
(* fired timer, or in the key's own slot.                                     *)
Held(k, n) ==
    \/ \E i \in DOMAIN out : KeyOf(out[i]) = k /\ out[i].at = n
    \/ \E e \in sending : KeyOf(e) = k /\ e.at = n
    \/ pending[k] # NoSlot /\ pending[k].ev.at = n

\* A slot holds an event of its key, and what is owed is held somewhere.
OwedInv ==
    /\ \A k \in Keys : pending[k] # NoSlot => KeyOf(pending[k].ev) = k
    /\ ~closed /\ ~ctxDone => \A k \in Keys : owed[k] # 0 => Held(k, owed[k])

\* Steps that leave the channel, the emissions and the slots' events alone.
LEMMA OwedKept ==
    ASSUME OwedInv, UNCHANGED <<out, sending, pending, owed>>,
           ~closed' /\ ~ctxDone' => ~closed /\ ~ctxDone
    PROVE  OwedInv'
BY DEF OwedInv, Held, KeyOf

LEMMA OwedInvInductive == TypeOK /\ OwedInv /\ [Next]_vars => OwedInv'
<1> SUFFICES ASSUME TypeOK, OwedInv, [Next]_vars PROVE OwedInv'
  OBVIOUS
<1>1. ASSUME NEW k \in Keys, NEW kind \in Kinds, Push(k, kind) PROVE OwedInv'
  <2> DEFINE ev == [side |-> k[1], kind |-> kind, path |-> k[2], from |-> k[2],
                    at |-> pushed + 1]
  <2>1. /\ pushed \in 0..MaxPush /\ pushed < MaxPush
        /\ pending \in [Keys -> Slot \cup {NoSlot}] /\ owed \in [Keys -> 0..MaxPush]
    BY <1>1 DEF Push, TypeOK
  <2>2. ev \in Event /\ KeyOf(ev) = k /\ ev.at = pushed + 1 /\ pushed + 1 \in 1..MaxPush
    BY <2>1, NewEvent, ConstantsAssumption
  <2>3. \E s \in Slot : /\ pending' = [pending EXCEPT ![k] = s]
                        /\ s.ev.at = pushed + 1 /\ KeyOf(s.ev) = k
    <3>1. CASE pending[k] = NoSlot
      <4> DEFINE s == [ev |-> ev, gen |-> ev.at, armed |-> TRUE]
      <4>1. s \in Slot /\ s.ev = ev
        BY <2>2 DEF Slot
      <4>2. pending' = [pending EXCEPT ![k] = s]
        BY <1>1, <3>1 DEF Push
      <4> HIDE DEF s
      <4> QED BY <2>2, <4>1, <4>2
    <3>2. CASE pending[k] # NoSlot
      <4> DEFINE s == [ev |-> Merge(pending[k].ev, ev), gen |-> pending[k].gen,
                       armed |-> TRUE]
      <4>1. pending[k].ev \in Event /\ pending[k].gen \in 1..MaxPush
        BY <2>1, <3>2 DEF Slot
      <4>2. KeyOf(pending[k].ev) = k
        BY <3>2 DEF OwedInv
      <4>3. /\ Merge(pending[k].ev, ev) \in Event
            /\ Merge(pending[k].ev, ev).at = pushed + 1
            /\ KeyOf(Merge(pending[k].ev, ev)) = k
        <5> HIDE DEF ev
        <5> QED BY <2>2, <4>1, <4>2, MergeType
      <4>4. s \in Slot /\ s.ev = Merge(pending[k].ev, ev)
        BY <4>1, <4>3 DEF Slot
      <4>5. pending' = [pending EXCEPT ![k] = s]
        BY <1>1, <3>2 DEF Push
      <4> HIDE DEF s, ev
      <4> QED BY <4>3, <4>4, <4>5
    <3> QED BY <3>1, <3>2
  <2>4. PICK s \in Slot : /\ pending' = [pending EXCEPT ![k] = s]
                         /\ s.ev.at = pushed + 1 /\ KeyOf(s.ev) = k
    BY <2>3
  <2>5. pending'[k] = s /\ s # NoSlot /\ \A q \in Keys : q # k => pending'[q] = pending[q]
    BY <2>1, <2>4, ConstantsAssumption DEF ConstantsAssumption
  <2>6. owed'[k] = pushed + 1 /\ \A q \in Keys : q # k => owed'[q] = owed[q]
    BY <1>1, <2>1 DEF Push
  <2>7. UNCHANGED <<out, sending, closed, ctxDone>>
    BY <1>1 DEF Push
  <2>8. \A q \in Keys : pending'[q] # NoSlot => KeyOf(pending'[q].ev) = q
    BY <2>4, <2>5 DEF OwedInv
  <2>9. ASSUME ~closed', ~ctxDone', NEW q \in Keys, owed'[q] # 0 PROVE Held(q, owed[q])'
    <3>1. CASE q = k
      BY <2>4, <2>5, <2>6, <3>1 DEF Held
    <3>2. CASE q # k
      <4>1. Held(q, owed[q])
        BY <2>6, <2>7, <2>9, <3>2 DEF OwedInv
      <4> QED BY <2>5, <2>6, <2>7, <3>2, <4>1 DEF Held, KeyOf
    <3> QED BY <3>1, <3>2
  <2> QED BY <2>8, <2>9 DEF OwedInv
<1>2. ASSUME NEW s \in Sides, NEW from \in Paths, NEW to \in Paths, PushMove(s, from, to)
      PROVE  OwedInv'
  <2>1. \A q \in Keys : owed'[q] # 0 => owed'[q] = owed[q] /\ pending'[q] = pending[q]
    BY <1>2 DEF PushMove
  <2>2. \A q \in Keys : pending'[q] # NoSlot => pending'[q] = pending[q]
    BY <1>2 DEF PushMove
  <2>3. UNCHANGED <<out, sending, closed, ctxDone>>
    BY <1>2 DEF PushMove
  <2> QED BY <2>1, <2>2, <2>3 DEF OwedInv, Held, KeyOf
<1>3. CASE MoveSent
  <2>1. /\ UNCHANGED <<sending, pending, owed, closed, ctxDone>>
        /\ out' = Append(out, mu) /\ out \in Seq(Event)
    BY <1>3 DEF MoveSent, TypeOK
  <2>2. \A i \in DOMAIN out : i \in DOMAIN out' /\ out'[i] = out[i]
    BY <2>1
  <2> QED BY <2>1, <2>2 DEF OwedInv, Held, KeyOf
<1>4. ASSUME NEW k \in Keys, TimerFires(k) PROVE OwedInv'
  <2>1. \A q \in Keys : /\ pending'[q] # NoSlot <=> pending[q] # NoSlot
                        /\ pending[q] # NoSlot => pending'[q].ev = pending[q].ev
    <3>1. pending[k] \in Slot /\ pending \in [Keys -> Slot \cup {NoSlot}]
      BY <1>4 DEF TimerFires, TypeOK
    <3>2. /\ [pending[k] EXCEPT !.armed = FALSE] \in Slot
          /\ [pending[k] EXCEPT !.armed = FALSE].ev = pending[k].ev
      BY <3>1 DEF Slot
    <3> QED BY <1>4, <3>1, <3>2, ConstantsAssumption DEF TimerFires, ConstantsAssumption
  <2>2. UNCHANGED <<out, sending, owed, closed, ctxDone>>
    BY <1>4 DEF TimerFires
  <2> QED BY <2>1, <2>2 DEF OwedInv, Held, KeyOf
<1>5. ASSUME NEW f \in fired, Callback(f) PROVE OwedInv'
  <2>1. CASE pending[f.key] # NoSlot /\ pending[f.key].gen = f.gen
    <3>1. f.key \in Keys /\ pending \in [Keys -> Slot \cup {NoSlot}]
      BY DEF TypeOK
    <3>2. pending' = [pending EXCEPT ![f.key] = NoSlot] /\ UNCHANGED <<out, owed, closed, ctxDone>>
      BY <1>5, <2>1 DEF Callback
    <3>3. ~closed => sending' = sending \cup {pending[f.key].ev}
      BY <1>5, <2>1 DEF Callback
    <3>4. \A q \in Keys : pending'[q] # NoSlot => pending'[q] = pending[q]
      BY <3>1, <3>2
    <3>5. \A q \in Keys : q # f.key => pending'[q] = pending[q]
      BY <3>1, <3>2
    <3>6. KeyOf(pending[f.key].ev) = f.key
      BY <2>1, <3>1 DEF OwedInv
    <3>7. ASSUME ~closed', ~ctxDone', NEW q \in Keys, owed'[q] # 0 PROVE Held(q, owed[q])'
      <4>1. Held(q, owed[q])
        BY <3>2, <3>7 DEF OwedInv
      <4>2. sending' = sending \cup {pending[f.key].ev}
        BY <3>2, <3>3, <3>7
      <4>3. CASE q = f.key
        BY <3>2, <3>6, <4>1, <4>2, <4>3 DEF Held, KeyOf
      <4>4. CASE q # f.key
        BY <3>2, <3>5, <4>1, <4>2, <4>4 DEF Held, KeyOf
      <4> QED BY <4>3, <4>4
    <3> QED BY <3>4, <3>7 DEF OwedInv, KeyOf
  <2>2. CASE ~(pending[f.key] # NoSlot /\ pending[f.key].gen = f.gen)
    <3>1. UNCHANGED <<out, sending, pending, owed, closed, ctxDone>>
      BY <1>5, <2>2 DEF Callback
    <3> QED BY <3>1, OwedKept
  <2> QED BY <2>1, <2>2
<1>6. ASSUME NEW e \in sending, EmitSent(e) PROVE OwedInv'
  <2>1. /\ UNCHANGED <<pending, owed, closed, ctxDone>> /\ sending' = sending \ {e}
        /\ out' = Append(out, e) /\ out \in Seq(Event)
    BY <1>6 DEF EmitSent, TypeOK
  <2>2. /\ \A i \in DOMAIN out : i \in DOMAIN out' /\ out'[i] = out[i]
        /\ Len(out) + 1 \in DOMAIN out' /\ out'[Len(out) + 1] = e
    BY <2>1
  <2>3. ASSUME NEW q \in Keys, Held(q, owed[q]) PROVE Held(q, owed[q])'
    <3>1. CASE \E i \in DOMAIN out : KeyOf(out[i]) = q /\ out[i].at = owed[q]
      BY <2>1, <2>2, <3>1 DEF Held, KeyOf
    <3>2. CASE \E x \in sending : KeyOf(x) = q /\ x.at = owed[q]
      BY <2>1, <2>2, <3>2 DEF Held, KeyOf
    <3>3. CASE pending[q] # NoSlot /\ pending[q].ev.at = owed[q]
      BY <2>1, <3>3 DEF Held
    <3> QED BY <2>3, <3>1, <3>2, <3>3 DEF Held
  <2> QED BY <2>1, <2>3 DEF OwedInv, KeyOf
<1>7. ASSUME NEW e \in sending, EmitDropped(e) PROVE OwedInv'
  BY <1>7 DEF EmitDropped, OwedInv, KeyOf
<1>8. CASE Receive
  <2> DEFINE h == Head(out)
  <2>1. out \in Seq(Event) /\ out # << >> /\ owed \in [Keys -> 0..MaxPush]
    BY <1>8 DEF Receive, TypeOK
  <2>2. h \in Event /\ h = out[1] /\ KeyOf(h) \in Keys
    <3>1. h \in Event /\ h = out[1]
      BY <2>1
    <3> HIDE DEF h
    <3> QED BY <3>1 DEF KeyOf, Keys, Event
  <2>3. /\ UNCHANGED <<sending, pending, closed, ctxDone>> /\ out' = Tail(out)
        /\ owed' = [owed EXCEPT ![KeyOf(h)] = IF owed[KeyOf(h)] = h.at THEN 0
                                                ELSE owed[KeyOf(h)]]
    BY <1>8 DEF Receive
  <2>4. \A i \in DOMAIN out : i # 1 => i - 1 \in DOMAIN out' /\ out'[i - 1] = out[i]
    BY <2>1, <2>3
  <2> HIDE DEF h
  <2>5. ASSUME NEW q \in Keys, owed'[q] # 0, Held(q, owed[q]) PROVE Held(q, owed[q])'
    <3>1. owed'[q] = owed[q] /\ ~(KeyOf(h) = q /\ h.at = owed[q])
      BY <2>1, <2>2, <2>3, <2>5
    <3>2. CASE \E i \in DOMAIN out : KeyOf(out[i]) = q /\ out[i].at = owed[q]
      <4>1. PICK i \in DOMAIN out : KeyOf(out[i]) = q /\ out[i].at = owed[q]
        BY <3>2
      <4>2. i # 1
        BY <2>2, <3>1, <4>1
      <4> QED BY <2>4, <3>1, <4>1, <4>2 DEF Held, KeyOf
    <3>3. CASE \E x \in sending : KeyOf(x) = q /\ x.at = owed[q]
      BY <2>3, <3>1, <3>3 DEF Held, KeyOf
    <3>4. CASE pending[q] # NoSlot /\ pending[q].ev.at = owed[q]
      BY <2>3, <3>1, <3>4 DEF Held
    <3> QED BY <2>5, <3>2, <3>3, <3>4 DEF Held
  <2>6. \A q \in Keys : owed'[q] # 0 => owed[q] # 0
    BY <2>1, <2>2, <2>3
  <2> QED BY <2>3, <2>5, <2>6 DEF OwedInv, KeyOf
<1>9. CASE PushClosed \/ MoveDropped \/ CancelContext \/ CallClose \/ CloseOut \/ Terminated
  BY <1>9, OwedKept
     DEF PushClosed, MoveDropped, CancelContext, CallClose, CloseOut, Terminated, vars
<1>10. CASE CloseLocked
  BY <1>10 DEF CloseLocked, OwedInv, TypeOK
<1>11. CASE UNCHANGED vars
  BY <1>11, OwedKept DEF vars
<1> QED
  BY <1>1, <1>2, <1>3, <1>4, <1>5, <1>6, <1>7, <1>8, <1>9, <1>10, <1>11 DEF Next

\* Until shutdown the debouncer loses no key's last event.
THEOREM NothingDropped == Spec => []NoEventDropped
<1>1. Init => OwedInv
  BY DEF Init, OwedInv
<1>2. OwedInv => NoEventDropped
  <2> SUFFICES ASSUME OwedInv, ~closed, ~ctxDone, NEW k \in Keys, owed[k] # 0
               PROVE  \E e \in InFlight : KeyOf(e) = k /\ e.at = owed[k]
    BY DEF NoEventDropped
  <2>1. Held(k, owed[k]) /\ (pending[k] # NoSlot => KeyOf(pending[k].ev) = k)
    BY DEF OwedInv
  <2> QED BY <2>1 DEF Held, InFlight, Queued
<1> QED BY <1>1, <1>2, OwedInvInductive, TypeCorrect, PTL DEF Spec

--------------------------------------------------------------------------------
(* The debouncer implements Mailbox, for any number of paths and pushes and   *)
(* any capacity: the initial states correspond, and every step of Debounce is *)
(* a step of the mailbox or leaves it as it is.                               *)

(* Events are numbered as they are pushed; a slot holds one event, of its own *)
(* key and not a Move; an event a callback took out of its slot is in no slot *)
(* any more.  So handing an event over takes it out of the mailbox, and to    *)
(* replace what is in a slot takes nothing else out.                          *)
Numbered ==
    /\ \A e \in sending : e.at <= pushed
    /\ \A i \in DOMAIN out : out[i].at <= pushed
    /\ \A k \in Keys : pending[k] # NoSlot => pending[k].ev.at <= pushed
    /\ mu # Free => mu.at <= pushed

SlotOk(k) ==
    /\ KeyOf(pending[k].ev) = k
    /\ pending[k].ev.kind # "MOVE" /\ pending[k].ev.from = pending[k].ev.path
    /\ pending[k].ev \notin sending

Placed ==
    /\ \A k \in Keys : pending[k] # NoSlot => SlotOk(k)
    /\ \A e \in sending : e.kind # "MOVE"
    /\ mu # Free => mu.kind = "MOVE"
    /\ closed => \A k \in Keys : pending[k] = NoSlot

MailInv == Numbered /\ Placed

\* What a push leaves in the slot of its key: the newest event of that key.
LEMMA PushFillsSlot ==
    ASSUME TypeOK, Placed, NEW k \in Keys, NEW kind \in Kinds, Push(k, kind)
    PROVE  \E s \in Slot :
              /\ pending' = [pending EXCEPT ![k] = s]
              /\ s.ev \in Event /\ KeyOf(s.ev) = k /\ s.ev.at = pushed + 1
              /\ s.ev.kind # "MOVE" /\ s.ev.from = s.ev.path
<1> DEFINE ev == [side |-> k[1], kind |-> kind, path |-> k[2], from |-> k[2],
                  at |-> pushed + 1]
<1>1. /\ pushed \in 0..MaxPush /\ pushed < MaxPush
      /\ pending \in [Keys -> Slot \cup {NoSlot}]
  BY DEF Push, TypeOK
<1>2. ev \in Event /\ KeyOf(ev) = k /\ ev.at = pushed + 1 /\ pushed + 1 \in 1..MaxPush
  BY <1>1, NewEvent, ConstantsAssumption
<1>3. ev.kind # "MOVE" /\ ev.from = ev.path
  BY ConstantsAssumption DEF ConstantsAssumption
<1>4. CASE pending[k] = NoSlot
  <2> DEFINE s == [ev |-> ev, gen |-> ev.at, armed |-> TRUE]
  <2>1. s \in Slot /\ s.ev = ev
    BY <1>2 DEF Slot
  <2>2. pending' = [pending EXCEPT ![k] = s]
    BY <1>4 DEF Push
  <2> HIDE DEF s
  <2> QED BY <1>2, <1>3, <2>1, <2>2
<1>5. CASE pending[k] # NoSlot
  <2> DEFINE old == pending[k].ev
             s   == [ev |-> Merge(old, ev), gen |-> pending[k].gen, armed |-> TRUE]
  <2>1. /\ old \in Event /\ pending[k].gen \in 1..MaxPush
        /\ KeyOf(old) = k /\ old.kind # "MOVE" /\ old.from = old.path
    BY <1>1, <1>5 DEF Slot, Placed, SlotOk
  <2>2. pending' = [pending EXCEPT ![k] = s]
    BY <1>5 DEF Push
  <2>3. /\ Merge(old, ev) \in Event /\ Merge(old, ev).at = pushed + 1
        /\ KeyOf(Merge(old, ev)) = k
        /\ Merge(old, ev).kind # "MOVE" /\ Merge(old, ev).from = Merge(old, ev).path
    <3> HIDE DEF ev, old
    <3>1. /\ Merge(old, ev) \in Event /\ Merge(old, ev).at = pushed + 1
          /\ KeyOf(Merge(old, ev)) = k
      BY <1>2, <2>1, MergeType
    <3>2. Merge(old, ev).kind # "MOVE" /\ Merge(old, ev).from = Merge(old, ev).path
      BY <1>2, <1>3, <2>1 DEF Merge, Event
    <3> QED BY <3>1, <3>2
  <2>4. s \in Slot /\ s.ev = Merge(old, ev)
    BY <2>1, <2>3 DEF Slot
  <2> HIDE DEF s, ev, old
  <2> QED BY <2>2, <2>3, <2>4
<1> QED BY <1>4, <1>5

LEMMA MailInvInductive == TypeOK /\ CloseInv /\ MailInv /\ [Next]_vars => MailInv'
<1> SUFFICES ASSUME TypeOK, CloseInv, MailInv, [Next]_vars PROVE MailInv'
  OBVIOUS
<1>a. Numbered /\ Placed
  BY DEF MailInv
<1>b. /\ Free \notin Event /\ NoSlot \notin Slot /\ MaxPush \in Nat
      /\ pushed \in Nat /\ pending \in [Keys -> Slot \cup {NoSlot}]
      /\ sending \subseteq Event /\ out \in Seq(Event)
  BY ConstantsAssumption DEF ConstantsAssumption, TypeOK
<1>c. /\ \A e \in sending : e.at \in Nat /\ e.at <= pushed
      /\ \A i \in DOMAIN out : out[i].at \in Nat /\ out[i].at <= pushed
      /\ \A q \in Keys : pending[q] # NoSlot =>
            pending[q].ev.at \in Nat /\ pending[q].ev.at <= pushed
  <2>1. \A e \in Event : e.at \in Nat
    BY ConstantsAssumption DEF ConstantsAssumption, Event
  <2>2. \A i \in DOMAIN out : out[i] \in Event
    BY <1>b
  <2>3. \A x \in Slot : x.ev \in Event
    BY DEF Slot
  <2> QED BY <1>a, <1>b, <2>1, <2>2, <2>3 DEF Numbered
<1>1. ASSUME NEW k \in Keys, NEW kind \in Kinds, Push(k, kind) PROVE MailInv'
  <2>1. PICK s \in Slot :
              /\ pending' = [pending EXCEPT ![k] = s]
              /\ s.ev \in Event /\ KeyOf(s.ev) = k /\ s.ev.at = pushed + 1
              /\ s.ev.kind # "MOVE" /\ s.ev.from = s.ev.path
    BY <1>a, <1>1, PushFillsSlot
  <2>2. pending'[k] = s /\ \A q \in Keys : q # k => pending'[q] = pending[q]
    BY <1>b, <2>1
  <2>3. /\ pushed' = pushed + 1 /\ ~closed /\ mu = Free
        /\ UNCHANGED <<mu, sending, out, closed>>
    BY <1>1 DEF Push
  <2>4. \A e \in sending : e.at < pushed + 1
    BY <1>b, <1>c
  <2>5. Numbered'
    BY <1>b, <1>c, <2>1, <2>2, <2>3 DEF Numbered
  <2>6. Placed'
    <3>1. s.ev \notin sending
      BY <1>b, <2>1, <2>4
    <3> QED BY <1>a, <2>1, <2>2, <2>3, <3>1 DEF Placed, SlotOk, KeyOf
  <2> QED BY <2>5, <2>6 DEF MailInv
<1>2. ASSUME NEW s \in Sides, NEW from \in Paths, NEW to \in Paths, PushMove(s, from, to)
      PROVE  MailInv'
  <2>1. /\ pushed' = pushed + 1 /\ ~closed /\ UNCHANGED <<sending, out, closed>>
        /\ mu'.at = pushed + 1 /\ mu'.kind = "MOVE"
    BY <1>2 DEF PushMove
  <2>2. \A q \in Keys : pending'[q] # NoSlot => pending'[q] = pending[q]
    BY <1>2 DEF PushMove
  <2>3. Numbered'
    BY <1>b, <1>c, <2>1, <2>2 DEF Numbered
  <2>4. Placed'
    BY <1>a, <2>1, <2>2 DEF Placed, SlotOk, KeyOf
  <2> QED BY <2>3, <2>4 DEF MailInv
<1>3. CASE PushClosed
  <2>1. pushed' = pushed + 1 /\ UNCHANGED <<mu, pending, sending, out, closed>>
    BY <1>3 DEF PushClosed
  <2>2. Numbered'
    <3>1. mu = Free
      BY <1>3 DEF PushClosed
    <3> QED BY <1>b, <1>c, <2>1, <3>1 DEF Numbered
  <2>3. Placed'
    BY <1>a, <2>1 DEF Placed, SlotOk, KeyOf
  <2> QED BY <2>2, <2>3 DEF MailInv
<1>4. CASE MoveSent
  <2>1. /\ mu # Free /\ mu' = Free /\ out' = Append(out, mu)
        /\ UNCHANGED <<pushed, pending, sending, closed>>
    BY <1>4 DEF MoveSent
  <2>2. \A i \in DOMAIN out' : out'[i] = mu \/ (i \in DOMAIN out /\ out'[i] = out[i])
    BY <1>b, <2>1
  <2> QED BY <1>a, <2>1, <2>2 DEF MailInv, Numbered, Placed, SlotOk, KeyOf
<1>5. ASSUME NEW k \in Keys, TimerFires(k) PROVE MailInv'
  <2>1. UNCHANGED <<mu, sending, out, pushed, closed>>
    BY <1>5 DEF TimerFires
  <2>2. \A q \in Keys : /\ pending'[q] # NoSlot <=> pending[q] # NoSlot
                        /\ pending[q] # NoSlot => pending'[q].ev = pending[q].ev
    <3>1. pending[k] \in Slot
      BY <1>b, <1>5 DEF TimerFires
    <3>2. /\ [pending[k] EXCEPT !.armed = FALSE] \in Slot
          /\ [pending[k] EXCEPT !.armed = FALSE].ev = pending[k].ev
      BY <3>1 DEF Slot
    <3> QED BY <1>b, <1>5, <3>1, <3>2 DEF TimerFires
  <2> QED BY <1>a, <2>1, <2>2 DEF MailInv, Numbered, Placed, SlotOk, KeyOf
<1>6. ASSUME NEW f \in fired, Callback(f) PROVE MailInv'
  <2>1. f.key \in Keys /\ UNCHANGED <<mu, out, pushed, closed>>
    BY <1>6 DEF Callback, TypeOK
  <2>2. CASE pending[f.key] # NoSlot /\ pending[f.key].gen = f.gen
    <3>1. /\ pending' = [pending EXCEPT ![f.key] = NoSlot] /\ ~closed
          /\ sending' = sending \cup {pending[f.key].ev}
      BY <1>a, <1>6, <2>1, <2>2 DEF Callback, Placed
    <3>2. /\ \A q \in Keys : pending'[q] # NoSlot => q # f.key /\ pending'[q] = pending[q]
          /\ pending'[f.key] = NoSlot
      BY <1>b, <2>1, <3>1
    <3>3. Numbered'
      BY <1>a, <2>1, <2>2, <3>1, <3>2 DEF Numbered
    <3>4. Placed'
      BY <1>a, <2>1, <2>2, <3>1, <3>2 DEF Placed, SlotOk, KeyOf
    <3> QED BY <3>3, <3>4 DEF MailInv
  <2>3. CASE ~(pending[f.key] # NoSlot /\ pending[f.key].gen = f.gen)
    <3>1. UNCHANGED <<pending, sending>>
      BY <1>6, <2>3 DEF Callback
    <3> QED BY <1>a, <2>1, <3>1 DEF MailInv, Numbered, Placed, SlotOk, KeyOf
  <2> QED BY <2>2, <2>3
<1>7. ASSUME NEW e \in sending, EmitSent(e) \/ EmitDropped(e) PROVE MailInv'
  <2>1. sending' = sending \ {e} /\ UNCHANGED <<mu, pending, pushed, closed>>
    BY <1>7 DEF EmitSent, EmitDropped
  <2>2. \A i \in DOMAIN out' : out'[i] = e \/ (i \in DOMAIN out /\ out'[i] = out[i])
    <3>1. out' = Append(out, e) \/ out' = out
      BY <1>7 DEF EmitSent, EmitDropped
    <3> QED BY <1>b, <3>1
  <2> QED BY <1>a, <1>7, <2>1, <2>2 DEF MailInv, Numbered, Placed, SlotOk, KeyOf
<1>8. CASE Receive
  <2>1. out # << >> /\ out' = Tail(out) /\ UNCHANGED <<mu, pending, pushed, sending, closed>>
    BY <1>8 DEF Receive
  <2>2. \A i \in DOMAIN out' : i + 1 \in DOMAIN out /\ out'[i] = out[i + 1]
    BY <1>b, <2>1
  <2> QED BY <1>a, <2>1, <2>2 DEF MailInv, Numbered, Placed, SlotOk, KeyOf
<1>9. CASE MoveDropped \/ CancelContext \/ CallClose \/ CloseOut \/ Terminated \/ UNCHANGED vars
  <2>1. (mu' = Free \/ mu' = mu) /\ UNCHANGED <<sending, out, pending, pushed, closed>>
    BY <1>9 DEF MoveDropped, CancelContext, CallClose, CloseOut, Terminated, vars
  <2> QED BY <1>a, <2>1 DEF MailInv, Numbered, Placed, SlotOk, KeyOf
<1>10. CASE CloseLocked
  <2>1. /\ \A k \in Keys : pending'[k] = NoSlot
        /\ UNCHANGED <<mu, sending, out, pushed>>
    BY <1>10 DEF CloseLocked
  <2> QED BY <1>a, <2>1 DEF MailInv, Numbered, Placed, SlotOk, KeyOf
<1> QED
  BY <1>1, <1>2, <1>3, <1>4, <1>5, <1>6, <1>7, <1>8, <1>9, <1>10 DEF Next

--------------------------------------------------------------------------------
\* What the mailbox holds, one place at a time.
LEMMA InHandCases ==
    ASSUME NEW e
    PROVE  e \in InHand <=> \/ e \in sending
                            \/ \E k \in Keys : pending[k] # NoSlot /\ e = pending[k].ev
                            \/ mu # Free /\ e = mu
BY DEF InHand

LEMMA InHandCasesNext ==
    ASSUME NEW e
    PROVE  e \in InHand' <=> \/ e \in sending'
                             \/ \E k \in Keys : pending'[k] # NoSlot /\ e = pending'[k].ev
                             \/ mu' # Free /\ e = mu'
BY DEF InHand

\* Whatever is held or in the channel was pushed before.
LEMMA AllOlder ==
    ASSUME TypeOK, Numbered
    PROVE  \A o \in InHand \cup Post!InStream : o.at \in Nat /\ o.at < pushed + 1
<1>1. \A e \in Event : e.at \in Nat
  BY ConstantsAssumption DEF ConstantsAssumption, Event
<1>2. /\ pushed \in Nat /\ sending \subseteq Event /\ out \in Seq(Event)
      /\ mu # Free => mu \in Event
      /\ \A k \in Keys : pending[k] # NoSlot => pending[k].ev \in Event
  BY ConstantsAssumption DEF ConstantsAssumption, TypeOK, Slot
<1>3. ASSUME NEW o \in InHand PROVE o.at \in Nat /\ o.at <= pushed
  BY <1>1, <1>2, <1>3, InHandCases DEF Numbered
<1>4. ASSUME NEW o \in Post!InStream PROVE o.at \in Nat /\ o.at <= pushed
  <2>1. PICK i \in DOMAIN out : o = out[i]
    BY <1>4 DEF Post!InStream
  <2>2. out[i] \in Event
    BY <1>2
  <2> QED BY <1>1, <2>1, <2>2 DEF Numbered
<1> QED BY <1>2, <1>3, <1>4

\* A push accepts its event in place of what the key's slot held.
LEMMA PushAccepts ==
    ASSUME TypeOK, CloseInv, MailInv,
           NEW k \in Keys, NEW kind \in Kinds, Push(k, kind)
    PROVE  Post!Next
<1>a. Numbered /\ Placed
  BY DEF MailInv
<1>b. /\ NoSlot \notin Slot /\ pushed \in Nat /\ pending \in [Keys -> Slot \cup {NoSlot}]
      /\ ~closed /\ mu = Free /\ ~outClosed
      /\ UNCHANGED <<mu, sending, out, closed, outClosed, ctxDone>>
  BY ConstantsAssumption DEF ConstantsAssumption, TypeOK, Push, CloseInv
<1>1. PICK s \in Slot :
              /\ pending' = [pending EXCEPT ![k] = s]
              /\ s.ev \in Event /\ KeyOf(s.ev) = k /\ s.ev.at = pushed + 1
              /\ s.ev.kind # "MOVE" /\ s.ev.from = s.ev.path
  BY <1>a, PushFillsSlot
<1>2. pending'[k] = s /\ s # NoSlot /\ \A q \in Keys : q # k => pending'[q] = pending[q]
  BY <1>b, <1>1
<1> DEFINE old == {e \in {pending[k].ev} : pending[k] # NoSlot}
<1>3. old \in SUBSET InHand
  BY InHandCases
<1>4. Post!Accept(s.ev, old)
  <2>1. Post!Accepting /\ UNCHANGED <<out, ShutdownPhase>>
    BY <1>b DEF Post!Accepting, ShutdownPhase
  <2>2. \A o \in InHand \cup Post!InStream : o.at < s.ev.at
    BY <1>a, <1>1, AllOlder
  <2>3. \A o \in old : o.kind # "MOVE" /\ Post!Keys(o) \subseteq Post!Keys(s.ev)
    BY <1>a, <1>1 DEF Placed, SlotOk, Post!Keys, KeyOf
  <2>4. InHand' = (InHand \ old) \cup {s.ev}
    <3>1. \A q \in Keys : q # k /\ pending[q] # NoSlot => pending[q].ev \notin old
      BY <1>a DEF Placed, SlotOk
    <3>2. \A e \in sending : e \notin old
      BY <1>a DEF Placed, SlotOk
    <3>3. ASSUME NEW e PROVE e \in InHand' <=> e \in (InHand \ old) \cup {s.ev}
      BY <1>b, <1>2, <3>1, <3>2, InHandCases, InHandCasesNext
    <3> QED BY <3>3
  <2>5. \A o, p \in old : o = p
    OBVIOUS
  <2> HIDE DEF old
  <2> QED BY <2>1, <2>2, <2>3, <2>4, <2>5 DEF Post!Accept
<1> QED BY <1>1, <1>3, <1>4 DEF Post!Next

\* A Move accepts itself in place of what the slots of its two paths held.
LEMMA PushMoveAccepts ==
    ASSUME TypeOK, CloseInv, MailInv,
           NEW s \in Sides, NEW from \in Paths, NEW to \in Paths, PushMove(s, from, to)
    PROVE  Post!Next
<1>a. Numbered /\ Placed
  BY DEF MailInv
<1>b. /\ ~closed /\ mu = Free /\ ~outClosed
      /\ UNCHANGED <<sending, out, closed, outClosed, ctxDone>>
      /\ mu' = [side |-> s, kind |-> "MOVE", path |-> to, from |-> from, at |-> pushed + 1]
  BY DEF PushMove, CloseInv
<1>1. mu' \in Event /\ mu' # Free /\ pushed \in Nat
  BY ConstantsAssumption DEF ConstantsAssumption, PushMove, Event, TypeOK
<1> DEFINE cancelled == {k \in Keys : k \in Touched(mu') /\ pending[k] # NoSlot}
           old == {pending[k].ev : k \in cancelled}
<1>2. pending' = [k \in Keys |-> IF k \in Touched(mu') THEN NoSlot ELSE pending[k]]
  BY DEF PushMove
<1>3. old \in SUBSET InHand
  BY DEF InHand
<1>4. Post!Accept(mu', old)
  <2>1. Post!Accepting /\ UNCHANGED <<out, ShutdownPhase>>
    BY <1>b DEF Post!Accepting, ShutdownPhase
  <2>2. \A o \in InHand \cup Post!InStream : o.at < mu'.at
    BY <1>a, <1>b, <1>1, AllOlder
  <2>3. \A o \in old : o.kind # "MOVE" /\ Post!Keys(o) \subseteq Post!Keys(mu')
    BY <1>a DEF Placed, SlotOk, Post!Keys, KeyOf, Touched
  <2>4. InHand' = (InHand \ old) \cup {mu'}
    <3>1. \A q \in Keys : pending[q] # NoSlot =>
              (pending[q].ev \in old <=> q \in Touched(mu'))
      BY <1>a DEF Placed, SlotOk
    <3>2. \A e \in sending : e \notin old
      BY <1>a DEF Placed, SlotOk
    <3>3. \A q \in Keys : /\ q \in Touched(mu') => pending'[q] = NoSlot
                          /\ q \notin Touched(mu') => pending'[q] = pending[q]
      BY <1>2
    <3>4. \A e \in old : \E q \in Keys : e = pending[q].ev /\ pending[q] # NoSlot
      OBVIOUS
    <3> HIDE DEF old
    <3>5. ASSUME NEW e PROVE e \in InHand' <=> e \in (InHand \ old) \cup {mu'}
      BY <1>b, <1>1, <3>1, <3>2, <3>3, <3>4, InHandCases, InHandCasesNext
    <3> QED BY <3>5
  <2>5. mu'.kind = "MOVE"
    BY <1>b
  <2> HIDE DEF old
  <2> QED BY <2>1, <2>2, <2>3, <2>4, <2>5 DEF Post!Accept
<1> HIDE DEF old
<1> QED BY <1>1, <1>3, <1>4 DEF Post!Next

\* Every step of the debouncer is a step of the mailbox, or leaves it alone.
LEMMA StepMaps == TypeOK /\ CloseInv /\ MailInv /\ [Next]_vars => [Post!Next]_(Post!vars)
<1> SUFFICES ASSUME TypeOK, CloseInv, MailInv, [Next]_vars
             PROVE  Post!Next \/ UNCHANGED <<InHand, out, ShutdownPhase>>
  BY DEF Post!vars
<1>a. Numbered /\ Placed
  BY DEF MailInv
<1>b. /\ NoSlot \notin Slot /\ pending \in [Keys -> Slot \cup {NoSlot}]
      /\ sending \subseteq Event /\ out \in Seq(Event)
      /\ closed \in BOOLEAN /\ outClosed \in BOOLEAN /\ ctxDone \in BOOLEAN
  BY ConstantsAssumption DEF ConstantsAssumption, TypeOK
<1>1. ASSUME NEW k \in Keys, NEW kind \in Kinds, Push(k, kind) PROVE Post!Next
  BY <1>1, PushAccepts
<1>2. ASSUME NEW s \in Sides, NEW from \in Paths, NEW to \in Paths, PushMove(s, from, to)
      PROVE  Post!Next
  BY <1>2, PushMoveAccepts
<1>3. CASE MoveSent
  <2>1. /\ mu # Free /\ Len(out) < OutCap /\ out' = Append(out, mu) /\ mu' = Free
        /\ UNCHANGED <<pending, sending, closed, outClosed, ctxDone>>
    BY <1>3 DEF MoveSent
  <2>2. mu \in InHand
    BY <2>1, InHandCases
  <2>3. InHand' = InHand \ {mu}
    <3>1. mu \notin sending /\ \A k \in Keys : pending[k] # NoSlot => pending[k].ev # mu
      BY <1>a, <2>1 DEF Placed, SlotOk
    <3>2. ASSUME NEW e PROVE e \in InHand' <=> e \in InHand \ {mu}
      BY <2>1, <3>1, InHandCases, InHandCasesNext
    <3> QED BY <3>2
  <2>4. UNCHANGED ShutdownPhase
    BY <2>1 DEF ShutdownPhase
  <2>5. Post!HandOver(mu)
    BY <2>1, <2>2, <2>3, <2>4 DEF Post!HandOver
  <2> QED BY <2>2, <2>5 DEF Post!Next
<1>4. CASE MoveDropped
  <2>1. /\ mu # Free /\ (closed \/ ctxDone) /\ mu' = Free
        /\ UNCHANGED <<out, pending, sending, closed, outClosed, ctxDone>>
    BY <1>4 DEF MoveDropped
  <2>2. mu \in InHand
    BY <2>1, InHandCases
  <2>3. InHand' = InHand \ {mu}
    <3>1. mu \notin sending /\ \A k \in Keys : pending[k] # NoSlot => pending[k].ev # mu
      BY <1>a, <2>1 DEF Placed, SlotOk
    <3>2. ASSUME NEW e PROVE e \in InHand' <=> e \in InHand \ {mu}
      BY <2>1, <3>1, InHandCases, InHandCasesNext
    <3> QED BY <3>2
  <2>4. ShutdownPhase # "running" /\ UNCHANGED ShutdownPhase
    BY <2>1 DEF ShutdownPhase
  <2>5. Post!Discard(mu)
    BY <2>1, <2>2, <2>3, <2>4 DEF Post!Discard
  <2> QED BY <2>2, <2>5 DEF Post!Next
<1>5. ASSUME NEW e \in sending, EmitSent(e) \/ EmitDropped(e) PROVE Post!Next
  <2>1. /\ sending' = sending \ {e} /\ UNCHANGED <<mu, pending, closed, outClosed, ctxDone>>
    BY <1>5 DEF EmitSent, EmitDropped
  <2>2. e \in InHand
    BY InHandCases
  <2>3. InHand' = InHand \ {e}
    <3>1. /\ mu # Free => mu # e
          /\ \A k \in Keys : pending[k] # NoSlot => pending[k].ev # e
      BY <1>a DEF Placed, SlotOk
    <3>2. ASSUME NEW x PROVE x \in InHand' <=> x \in InHand \ {e}
      BY <2>1, <3>1, InHandCases, InHandCasesNext
    <3> QED BY <3>2
  <2>4. UNCHANGED ShutdownPhase
    BY <2>1 DEF ShutdownPhase
  <2>5. CASE EmitSent(e)
    <3>1. Post!HandOver(e)
      BY <2>2, <2>3, <2>4, <2>5 DEF Post!HandOver, EmitSent
    <3> QED BY <2>2, <3>1 DEF Post!Next
  <2>6. CASE EmitDropped(e)
    <3>1. ShutdownPhase # "running" /\ out' = out
      BY <2>6 DEF EmitDropped, ShutdownPhase
    <3>2. Post!Discard(e)
      BY <2>2, <2>3, <2>4, <3>1 DEF Post!Discard
    <3> QED BY <2>2, <3>2 DEF Post!Next
  <2> QED BY <1>5, <2>5, <2>6
<1>6. CASE Receive
  <2>1. UNCHANGED <<mu, pending, sending, closed, outClosed, ctxDone>> /\ ~closed /\ ~outClosed
    BY <1>6 DEF Receive, CloseInv
  <2>2. UNCHANGED <<InHand, ShutdownPhase>> /\ ShutdownPhase \in {"running", "stopping"}
    BY <2>1 DEF InHand, ShutdownPhase
  <2>3. Post!Receive
    BY <1>6, <2>2 DEF Receive, Post!Receive
  <2> QED BY <2>3 DEF Post!Next
<1>7. CASE CancelContext
  <2>1. ~ctxDone /\ ctxDone' /\ UNCHANGED <<mu, pending, sending, out, closed, outClosed>>
    BY <1>7 DEF CancelContext
  <2>2. UNCHANGED InHand
    BY <2>1 DEF InHand
  <2>3. CASE closed \/ outClosed
    BY <2>1, <2>2, <2>3 DEF ShutdownPhase
  <2>4. CASE ~closed /\ ~outClosed
    <3>1. Post!Stop
      BY <2>1, <2>2, <2>4 DEF Post!Stop, ShutdownPhase
    <3> QED BY <3>1 DEF Post!Next
  <2> QED BY <2>3, <2>4
<1>8. CASE CloseLocked
  <2>1. /\ ~closed /\ ~outClosed /\ closed' /\ outClosed' = outClosed
        /\ \A k \in Keys : pending'[k] = NoSlot
        /\ UNCHANGED <<mu, sending, out, ctxDone>>
    BY <1>8 DEF CloseLocked, CloseInv
  <2>2. Post!Accepting /\ ShutdownPhase' = "refusing"
    BY <2>1 DEF Post!Accepting, ShutdownPhase
  <2>3. InHand' \in SUBSET InHand
    <3>1. ASSUME NEW e, e \in InHand' PROVE e \in InHand
      BY <2>1, <3>1, InHandCases, InHandCasesNext
    <3> QED BY <3>1
  <2>4. Post!Refuse
    BY <2>1, <2>2, <2>3 DEF Post!Refuse
  <2> QED BY <2>4 DEF Post!Next
<1>9. CASE CloseOut
  <2>1. /\ sending = {} /\ closed /\ ~outClosed /\ outClosed' /\ mu = Free
        /\ \A k \in Keys : pending[k] = NoSlot
        /\ UNCHANGED <<mu, pending, sending, out, closed, ctxDone>>
    BY <1>a, <1>9 DEF CloseOut, CloseInv, Placed
  <2>2. InHand = {} /\ InHand' = InHand
    BY <2>1 DEF InHand
  <2>3. ShutdownPhase = "refusing" /\ ShutdownPhase' = "closed"
    BY <2>1 DEF ShutdownPhase
  <2>4. Post!Close
    BY <2>1, <2>2, <2>3 DEF Post!Close
  <2> QED BY <2>4 DEF Post!Next
<1>10. ASSUME NEW k \in Keys, TimerFires(k) PROVE UNCHANGED <<InHand, out, ShutdownPhase>>
  <2>1. UNCHANGED <<mu, sending, out, closed, outClosed, ctxDone>>
    BY <1>10 DEF TimerFires
  <2>2. \A q \in Keys : /\ pending'[q] # NoSlot <=> pending[q] # NoSlot
                        /\ pending[q] # NoSlot => pending'[q].ev = pending[q].ev
    <3>1. pending[k] \in Slot
      BY <1>b, <1>10 DEF TimerFires
    <3>2. /\ [pending[k] EXCEPT !.armed = FALSE] \in Slot
          /\ [pending[k] EXCEPT !.armed = FALSE].ev = pending[k].ev
      BY <3>1 DEF Slot
    <3> QED BY <1>b, <1>10, <3>1, <3>2 DEF TimerFires
  <2>3. ASSUME NEW e PROVE e \in InHand' <=> e \in InHand
    BY <2>1, <2>2, InHandCases, InHandCasesNext
  <2>4. UNCHANGED ShutdownPhase
    BY <2>1 DEF ShutdownPhase
  <2>5. UNCHANGED InHand
    BY <2>3
  <2> QED BY <2>1, <2>4, <2>5
<1>11. ASSUME NEW f \in fired, Callback(f) PROVE UNCHANGED <<InHand, out, ShutdownPhase>>
  <2>1. f.key \in Keys /\ UNCHANGED <<mu, out, closed, outClosed, ctxDone>>
    BY <1>11 DEF Callback, TypeOK
  <2>2. ASSUME NEW e PROVE e \in InHand' <=> e \in InHand
    <3>1. CASE pending[f.key] # NoSlot /\ pending[f.key].gen = f.gen
      <4>1. /\ pending' = [pending EXCEPT ![f.key] = NoSlot]
            /\ sending' = sending \cup {pending[f.key].ev}
        BY <1>a, <1>11, <2>1, <3>1 DEF Callback, Placed
      <4>2. \A q \in Keys : pending'[q] = IF q = f.key THEN NoSlot ELSE pending[q]
        BY <1>b, <2>1, <4>1
      <4> QED BY <2>1, <3>1, <4>1, <4>2, InHandCases, InHandCasesNext
    <3>2. CASE ~(pending[f.key] # NoSlot /\ pending[f.key].gen = f.gen)
      <4>1. UNCHANGED <<pending, sending>>
        BY <1>11, <3>2 DEF Callback
      <4> QED BY <2>1, <4>1, InHandCases, InHandCasesNext
    <3> QED BY <3>1, <3>2
  <2>3. UNCHANGED ShutdownPhase
    BY <2>1 DEF ShutdownPhase
  <2>4. UNCHANGED InHand
    BY <2>2
  <2> QED BY <2>1, <2>3, <2>4
<1>12. CASE PushClosed \/ CallClose \/ Terminated \/ UNCHANGED vars
  <2>1. UNCHANGED <<mu, sending, out, pending, closed, outClosed, ctxDone>>
    BY <1>12 DEF PushClosed, CallClose, Terminated, vars
  <2> QED BY <2>1 DEF InHand, ShutdownPhase
<1> QED
  BY <1>1, <1>2, <1>3, <1>4, <1>5, <1>6, <1>7, <1>8, <1>9, <1>10, <1>11, <1>12 DEF Next

\* The debouncer implements the mailbox.
THEOREM ImplementsMailbox == Spec => IsMailbox
<1>1. Init => CloseInv /\ MailInv
  BY DEF Init, CloseInv, MailInv, Numbered, Placed
<1>2. Init => Post!Init
  BY DEF Init, Post!Init, InHand, ShutdownPhase
<1> QED
  BY <1>1, <1>2, StepMaps, MailInvInductive, CloseInvInductive, TypeCorrect, PTL
     DEF Spec, IsMailbox, Post!Spec
================================================================================
