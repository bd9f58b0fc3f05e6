-------------------------------- MODULE Mailbox --------------------------------
(***************************************************************************)
(* What internal/debounce promises to the engine's loop, without locks,    *)
(* timers or goroutines: a mailbox that holds accepted events for as long  *)
(* as it likes and hands each of them over once, in a bounded FIFO stream. *)
(*                                                                         *)
(* An event leaves the mailbox in three ways only: it is handed over, a    *)
(* newer event of the same paths takes its place, or the service is        *)
(* stopping.  A rename is never replaced.  The stream is closed when the   *)
(* mailbox accepts nothing any more and is empty.  Debounce implements     *)
(* this (Debounce!IsMailbox).                                              *)
(***************************************************************************)
EXTENDS Naturals, Sequences

CONSTANTS Event,   \* records with side, kind, path, from and a number at
          Cap      \* capacity of the stream

VARIABLES
    held,    \* events accepted and not yet handed over
    stream,  \* events handed over and not yet received
    phase    \* how far the shutdown went

vars == <<held, stream, phase>>

Keys(e)   == {<<e.side, e.from>>, <<e.side, e.path>>}
InStream  == {stream[i] : i \in DOMAIN stream}
Accepting == phase \in {"running", "stopping"}

Init == held = {} /\ stream = << >> /\ phase = "running"

\* Accept e, the newest event of all, in place of older ones of its own paths:
\* a rename may replace any number of them, another event one of them at most.
Accept(e, old) ==
    /\ Accepting
    /\ \A o \in held \cup InStream : o.at < e.at
    /\ \A o \in old : o.kind # "MOVE" /\ Keys(o) \subseteq Keys(e)
    /\ e.kind # "MOVE" => \A o, p \in old : o = p
    /\ held' = (held \ old) \cup {e}
    /\ UNCHANGED <<stream, phase>>

HandOver(e) ==
    /\ e \in held /\ Len(stream) < Cap
    /\ held' = held \ {e}
    /\ stream' = Append(stream, e)
    /\ UNCHANGED phase

Receive ==
    /\ phase \in {"running", "stopping"} /\ stream # << >>
    /\ stream' = Tail(stream)
    /\ UNCHANGED <<held, phase>>

Stop == phase = "running" /\ phase' = "stopping" /\ UNCHANGED <<held, stream>>

\* A stopping mailbox gives up on what nobody will receive.
Discard(e) == phase # "running" /\ e \in held /\ held' = held \ {e} /\ UNCHANGED <<stream, phase>>

Refuse ==
    /\ Accepting
    /\ phase' = "refusing"
    /\ held' \in SUBSET held
    /\ UNCHANGED stream

Close == phase = "refusing" /\ held = {} /\ phase' = "closed" /\ UNCHANGED <<held, stream>>

Next ==
    \/ \E e \in Event, old \in SUBSET held : Accept(e, old)
    \/ \E e \in held : HandOver(e) \/ Discard(e)
    \/ Receive \/ Stop \/ Refuse \/ Close

Spec == Init /\ [][Next]_vars
===============================================================================
