----------------------------- MODULE FeedHandler -----------------------------
(***************************************************************************)
(* The feed handler's gap detection: run() of engine/src/udp_feed.rs.      *)
(*                                                                         *)
(* Datagrams arrive lost, duplicated and in any order: the handler sees    *)
(* some sequence number at each step.  Where the packet goes next is       *)
(* module MarketData's.                                                    *)
(***************************************************************************)
EXTENDS Integers, FiniteSets

CONSTANTS
  MaxSeq,       \* bound: the highest sequence number sent
  MaxReceived   \* bound: the number of datagrams received

ASSUME FeedHandlerAssumption == MaxSeq \in Nat /\ MaxReceived \in Nat

VARIABLES
  expected,  \* expected_seq, with Unknown for its None
  received,  \* packets_received
  gaps,      \* gaps_detected
  lost,      \* events_lost_to_gaps
  first,     \* history: the sequence number of the first packet
  late,      \* history: the packets that came below the expectation
  seen       \* history: the sequence numbers that arrived

handlerVars == <<expected, received, gaps, lost>>
history == <<first, late, seen>>
vars == <<expected, received, gaps, lost, first, late, seen>>

Unknown == -1

HandlerInit ==
  /\ expected = Unknown
  /\ received = 0
  /\ gaps = 0
  /\ lost = 0

\* Mutant: a late packet is a gap too, of a negative size.
CountsBackward(seq) == gaps' = gaps + 1 /\ lost' = lost + (seq - expected)

\* Mutant: a gap counts as one lost event.
OnePerGap(seq) ==
  IF expected # Unknown /\ seq > expected
  THEN gaps' = gaps + 1 /\ lost' = lost + 1
  ELSE UNCHANGED <<gaps, lost>>

\* A packet beyond the expectation is a gap; the first packet never is.
CountGap(seq) ==
  IF expected # Unknown /\ seq > expected
  THEN gaps' = gaps + 1 /\ lost' = lost + (seq - expected)
  ELSE UNCHANGED <<gaps, lost>>

\* Mutant: a late packet rewinds the expectation.
Rewind(seq) == seq + 1

\* A late packet does not rewind the expectation.
NextExpected(seq) == IF seq >= expected THEN seq + 1 ELSE expected

\* A well-formed datagram with this sequence number is received.
Handle(seq) ==
  /\ received' = received + 1
  /\ expected' = NextExpected(seq)
  /\ CountGap(seq)

Init ==
  /\ HandlerInit
  /\ first = 0
  /\ late = 0
  /\ seen = {}

Receive(seq) ==
  /\ received < MaxReceived
  /\ Handle(seq)
  /\ first' = IF expected = Unknown THEN seq ELSE first
  /\ late' = IF seq < expected THEN late + 1 ELSE late
  /\ seen' = seen \cup {seq}

Next == \E seq \in 0..MaxSeq : Receive(seq)

Spec == Init /\ [][Next]_vars

-----------------------------------------------------------------------------
(* Properties *)

\* Every variable has its type.
TypeOK ==
  /\ expected \in Nat \cup {Unknown}
  /\ received \in Nat /\ gaps \in Nat /\ lost \in Nat
  /\ first \in Nat /\ late \in Nat
  /\ seen \in SUBSET Nat

\* Every number from the first packet's to the expectation was either counted
\* as received in order or as lost, once, whatever came late or twice.
GapAccounting ==
  expected # Unknown => lost + (received - late) = expected - first

\* The count of lost events, the only trigger of a resync, never understates
\* what is missing between the first packet and the newest one.
LossNeverUnderstated ==
  expected # Unknown => Cardinality((first .. expected - 1) \ seen) <= lost
=============================================================================
