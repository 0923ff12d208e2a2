------------------------------ MODULE RingBuffer ------------------------------
(***************************************************************************)
(* The single-producer single-consumer ring of engine/src/ringbuffer.rs,   *)
(* one step for each access to shared memory.                              *)
(*                                                                         *)
(* The memory model is release/acquire.  Each counter is stored by one     *)
(* thread only; a load by the other thread returns any value from the one  *)
(* it saw last to the one stored last, so it may be stale.  The accesses   *)
(* to the slots are not atomic: they are a data race unless they are       *)
(* ordered by happens-before, which a thread gains only by an Acquire load *)
(* that returns a value stored with Release.  popsKnown and pushesKnown    *)
(* record what each thread has gained.                                     *)
(***************************************************************************)
EXTENDS Integers, Sequences

CONSTANTS
  Values,      \* the values pushed
  Empty,       \* no value: an uninitialised slot, a pop that returned None
  Capacity,    \* the number of slots: a power of two
  CounterMod,  \* the number of values of a counter (2^64 for usize)
  MaxPushes,   \* bound: the number of successful pushes
  MaxDropped   \* bound: the refused pushes are counted up to this number

ASSUME RingAssumption ==
  /\ Empty \notin Values
  /\ Capacity \in Nat \ {0} /\ MaxPushes \in Nat /\ MaxDropped \in Nat
  /\ CounterMod \in Nat /\ CounterMod > Capacity
  /\ CounterMod % Capacity = 0  \* both are powers of two

VARIABLES
  buf, head, tail, dropped,  \* RingInner
  ppc, input, headRead,      \* the producer: pc, argument, the head it loaded
  cpc, value, tailRead,      \* the consumer: pc, the slot it read, the tail it loaded
  popped,                    \* history: the last value returned by try_pop
  pushes, pops,              \* history: the number of stores to tail and to head
  popsSeen, pushesSeen,      \* the store each thread's last load returned
  popsKnown, pushesKnown     \* the stores each thread is ordered after

shared == <<buf, head, tail, dropped>>
producer == <<ppc, input, headRead, pushes, popsSeen, popsKnown>>
consumer == <<cpc, value, tailRead, popped, pops, pushesSeen, pushesKnown>>
vars == <<buf, head, tail, dropped, ppc, input, headRead, cpc, value, tailRead,
          popped, pushes, pops, popsSeen, pushesSeen, popsKnown, pushesKnown>>

-----------------------------------------------------------------------------
(* Counter arithmetic and synchronisation *)

\* Mutant: the counter is incremented as an unbounded number.
PlainInc(n) == n + 1

\* wrapping_add(1)
WrapInc(n) == (n + 1) % CounterMod

\* Mutant: the distance is computed without wrapping.
PlainSub(m, n) == m - n

\* wrapping_sub
WrapSub(m, n) == (m - n) % CounterMod

\* tail & mask
SlotOf(n) == n % Capacity

\* Mutant: a Relaxed load orders nothing.
Relaxed(known, store) == known

\* An Acquire load of a value stored with Release.
Acquire(known, store) == IF store > known THEN store ELSE known

-----------------------------------------------------------------------------
(* The producer: try_push *)

Init ==
  /\ buf = [i \in 0 .. Capacity - 1 |-> Empty]
  /\ head = 0 /\ tail = 0 /\ dropped = 0
  /\ ppc = "idle" /\ input = Empty /\ headRead = 0
  /\ cpc = "idle" /\ value = Empty /\ tailRead = 0
  /\ popped = Empty
  /\ pushes = 0 /\ pops = 0 /\ popsSeen = 0 /\ pushesSeen = 0
  /\ popsKnown = 0 /\ pushesKnown = 0

\* Called with v: tail is the producer's own; head may be read stale.
LoadHead(v) ==
  /\ ppc = "idle" /\ pushes < MaxPushes
  /\ \E store \in popsSeen .. pops :
       /\ headRead' = store % CounterMod
       /\ popsSeen' = store
       /\ popsKnown' = Acquire(popsKnown, store)
  /\ input' = v
  /\ ppc' = "loaded"
  /\ UNCHANGED <<shared, pushes, consumer>>

Full == WrapSub(tail, headRead) >= Capacity

Refuse ==
  /\ ppc = "loaded" /\ Full
  /\ dropped' = IF dropped < MaxDropped THEN dropped + 1 ELSE dropped
  /\ ppc' = "idle"
  /\ UNCHANGED <<buf, head, tail, input, headRead, pushes, popsSeen, popsKnown, consumer>>

WriteSlot ==
  /\ ppc = "loaded" /\ ~ Full
  /\ buf' = [buf EXCEPT ![SlotOf(tail)] = input]
  /\ ppc' = "written"
  /\ UNCHANGED <<head, tail, dropped, input, headRead, pushes, popsSeen, popsKnown, consumer>>

StoreTail ==
  /\ ppc = "written"
  /\ tail' = WrapInc(tail)
  /\ pushes' = pushes + 1
  /\ ppc' = "idle"
  /\ UNCHANGED <<buf, head, dropped, input, headRead, popsSeen, popsKnown, consumer>>

-----------------------------------------------------------------------------
(* The consumer: try_pop *)

LoadTail ==
  /\ cpc = "idle"
  /\ \E store \in pushesSeen .. pushes :
       /\ tailRead' = store % CounterMod
       /\ pushesSeen' = store
       /\ pushesKnown' = Acquire(pushesKnown, store)
  /\ cpc' = "loaded"
  /\ UNCHANGED <<shared, value, popped, pops, producer>>

ReturnNone ==
  /\ cpc = "loaded" /\ head = tailRead
  /\ cpc' = "idle"
  /\ UNCHANGED <<shared, value, tailRead, popped, pops, pushesSeen, pushesKnown, producer>>

ReadSlot ==
  /\ cpc = "loaded" /\ head # tailRead
  /\ value' = buf[SlotOf(head)]
  /\ cpc' = "read"
  /\ UNCHANGED <<shared, tailRead, popped, pops, pushesSeen, pushesKnown, producer>>

StoreHead ==
  /\ cpc = "read"
  /\ head' = WrapInc(head)
  /\ pops' = pops + 1
  /\ popped' = value
  /\ cpc' = "idle"
  /\ UNCHANGED <<buf, tail, dropped, value, tailRead, pushesSeen, pushesKnown, producer>>

Next ==
  \/ \E v \in Values : LoadHead(v)
  \/ Refuse
  \/ WriteSlot
  \/ StoreTail
  \/ LoadTail
  \/ ReturnNone
  \/ ReadSlot
  \/ StoreHead

Spec == Init /\ [][Next]_vars

-----------------------------------------------------------------------------
(* Properties *)

\* Every variable has its type.
TypeOK ==
  /\ buf \in [0 .. Capacity - 1 -> Values \cup {Empty}]
  /\ head \in 0 .. CounterMod - 1 /\ tail \in 0 .. CounterMod - 1 /\ dropped \in Nat
  /\ ppc \in {"idle", "loaded", "written"} /\ input \in Values \cup {Empty}
  /\ cpc \in {"idle", "loaded", "read"} /\ value \in Values \cup {Empty}
  /\ headRead \in 0 .. CounterMod - 1 /\ tailRead \in 0 .. CounterMod - 1
  /\ popped \in Values \cup {Empty}
  /\ pushes \in Nat /\ pops \in Nat
  /\ popsSeen \in Nat /\ pushesSeen \in Nat /\ popsKnown \in Nat /\ pushesKnown \in Nat

\* About to write a slot, or to read one.
Writing == ppc = "loaded" /\ ~ Full
Reading == cpc = "loaded" /\ head # tailRead

\* The comment on the unsafe impls: the two threads never touch one slot
\* unordered.  A write comes after the pop that last read the slot (the one
\* Capacity pushes ago), and a read after the push that filled it, by
\* happens-before and not by luck; so no read finds a slot uninitialised.
NoDataRace ==
  /\ Writing => pushes < popsKnown + Capacity
  /\ Reading => pops < pushesKnown
  /\ (Writing /\ Reading) => SlotOf(tail) # SlotOf(head)

\* The values published and not yet consumed, oldest first.
Contents == [i \in 1 .. pushes - pops |-> buf[SlotOf(pops + i - 1)]]

Queue == INSTANCE BoundedQueue WITH queue <- Contents

\* Through stale loads and counters that wrap, the ring is a bounded FIFO
\* queue: a push takes effect when tail is stored, a pop when head is.
ImplementsQueue == Queue!Spec
=============================================================================
