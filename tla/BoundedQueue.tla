----------------------------- MODULE BoundedQueue -----------------------------
(***************************************************************************)
(* What a channel of the engine promises its two ends: a bounded FIFO      *)
(* queue.  A push may be refused, which is counted and changes nothing     *)
(* else; it need not be full at that very moment, because the producer     *)
(* learns of the consumer's progress late.                                 *)
(***************************************************************************)
EXTENDS Integers, Sequences

CONSTANTS Values, Capacity

VARIABLES
  queue,    \* the values pushed and not yet popped
  dropped,  \* the pushes refused
  popped    \* the value popped last

Push == \E v \in Values :
  /\ Len(queue) < Capacity
  /\ queue' = Append(queue, v)
  /\ UNCHANGED <<dropped, popped>>

Refuse == dropped' = dropped + 1 /\ UNCHANGED <<queue, popped>>

Pop ==
  /\ queue # <<>>
  /\ popped' = Head(queue)
  /\ queue' = Tail(queue)
  /\ UNCHANGED dropped

Init == queue = <<>> /\ dropped = 0 /\ popped \notin Values

Next == Push \/ Refuse \/ Pop

Spec == Init /\ [][Next]_<<queue, dropped, popped>>
=============================================================================
