-------------------------------- MODULE Bench --------------------------------
(***************************************************************************)
(* The two threads of engine/src/bench.rs on the ring: the producer pushes *)
(* MaxPushes messages and retries each until it is taken, the consumer     *)
(* pops until it has them all.  A retry may carry another value here, so   *)
(* the producers of the engine, which give a refused message up, are       *)
(* clients of the same kind.                                               *)
(*                                                                         *)
(* Whether they spin or yield between two tries (wait_hint) makes no       *)
(* difference to what happens, only to when.                               *)
(***************************************************************************)
EXTENDS RingBuffer

Producer == (\E v \in Values : LoadHead(v)) \/ Refuse \/ WriteSlot \/ StoreTail

\* Mutant: the consumer stops one message early.
StopEarly == pops + 1 < MaxPushes /\ LoadTail

\* received < n_messages
TryPop == pops < MaxPushes /\ LoadTail

Consumer == TryPop \/ ReturnNone \/ ReadSlot \/ StoreHead

\* Both threads have been joined.
Joined ==
  /\ pushes = MaxPushes /\ pops = MaxPushes
  /\ ppc = "idle" /\ cpc = "idle"
  /\ UNCHANGED vars

BenchNext == Producer \/ Consumer \/ Joined

\* A load that returns the latest store.
FreshHead == \E v \in Values : LoadHead(v) /\ popsSeen' = pops
FreshTail == TryPop /\ pushesSeen' = pushes

\* Neither thread stops, and a store is not kept from the other thread's
\* loads for ever: one that tries again and again sees it.
BenchSpec ==
  /\ Init /\ [][BenchNext]_vars
  /\ WF_vars(Producer) /\ SF_vars(FreshHead)
  /\ WF_vars(Consumer) /\ SF_vars(FreshTail)

\* The benchmark ends: "nothing is actually lost, since the caller retries",
\* however often a stale counter makes the ring look full or empty.
EverythingArrives == <>(pushes = MaxPushes /\ pops = MaxPushes)
=============================================================================
