--------------------------- MODULE FeedHandlerProofs ---------------------------
(***************************************************************************)
(* Proofs about FeedHandler: its counters account for every sequence       *)
(* number, on any network and for any number of datagrams.                 *)
(***************************************************************************)
EXTENDS FeedHandler, FiniteSetTheorems, TLAPS

(* Before the first packet nothing is counted. *)
NothingYet == expected = Unknown => received = 0 /\ late = 0 /\ lost = 0 /\ gaps = 0

AccountInv == TypeOK /\ NothingYet /\ GapAccounting

LEMMA AccountInit == Init => AccountInv
BY DEF Init, HandlerInit, AccountInv, TypeOK, NothingYet, GapAccounting, Unknown

LEMMA AccountStep == AccountInv /\ [Next]_vars => AccountInv'
<1> SUFFICES ASSUME AccountInv, [Next]_vars PROVE AccountInv'
  OBVIOUS
<1> USE DEF AccountInv, TypeOK, NothingYet, GapAccounting, Unknown
<1>1. ASSUME NEW seq \in 0..MaxSeq, Receive(seq) PROVE AccountInv'
  <2>1. /\ seq \in Nat
        /\ received' = received + 1
        /\ first' = IF expected = Unknown THEN seq ELSE first
        /\ late' = IF seq < expected THEN late + 1 ELSE late
        /\ seen' = seen \cup {seq}
        /\ expected' = IF seq >= expected THEN seq + 1 ELSE expected
    BY <1>1, FeedHandlerAssumption DEF Receive, Handle, NextExpected
  <2>2. CASE expected = Unknown
    <3>1. gaps' = gaps /\ lost' = lost
      BY <1>1, <2>2 DEF Receive, Handle, CountGap
    <3>2. QED
      BY <2>1, <2>2, <3>1
  <2>3. CASE expected # Unknown /\ seq > expected
    <3>1. gaps' = gaps + 1 /\ lost' = lost + (seq - expected)
      BY <1>1, <2>3 DEF Receive, Handle, CountGap
    <3>2. QED
      BY <2>1, <2>3, <3>1
  <2>4. CASE expected # Unknown /\ seq <= expected
    <3>1. gaps' = gaps /\ lost' = lost
      BY <1>1, <2>1, <2>4 DEF Receive, Handle, CountGap
    <3>2. QED
      BY <2>1, <2>4, <3>1
  <2>5. QED
    BY <2>1, <2>2, <2>3, <2>4
<1>2. CASE UNCHANGED vars
  BY <1>2 DEF vars
<1>3. QED
  BY <1>1, <1>2 DEF Next

(* The counters of the health display add up: whatever was lost, duplicated or *)
(* reordered, the handler counts each number up to its expectation once.      *)
THEOREM Accounting == Spec => [](TypeOK /\ GapAccounting)
<1>1. AccountInv => TypeOK /\ GapAccounting
  BY DEF AccountInv
<1>2. QED
  BY <1>1, AccountInit, AccountStep, PTL DEF Spec

-----------------------------------------------------------------------------
(* What is missing is at most what was counted *)

Missing == (first .. expected - 1) \ seen

LossInv == AccountInv /\ IsFiniteSet(Missing) /\ LossNeverUnderstated

LEMMA LossStep == LossInv /\ [Next]_vars => LossInv'
<1> SUFFICES ASSUME LossInv, [Next]_vars PROVE LossInv'
  OBVIOUS
<1>1. AccountInv /\ AccountInv' /\ TypeOK /\ TypeOK' /\ NothingYet
  BY AccountStep DEF LossInv, AccountInv
<1>2. /\ expected \in Nat \cup {Unknown} /\ expected' \in Nat \cup {Unknown}
      /\ first \in Nat /\ first' \in Nat /\ lost \in Nat /\ lost' \in Nat
  BY <1>1 DEF TypeOK
<1>3. IsFiniteSet(Missing')
  <2> DEFINE span == first' .. expected' - 1
  <2>1. first' \in Int /\ expected' - 1 \in Int
    BY <1>2 DEF Unknown
  <2>2. IsFiniteSet(span)
    BY <2>1, FS_Interval
  <2> HIDE DEF span
  <2>3. IsFiniteSet(span \ seen')
    BY <2>2, FS_Difference
  <2>4. QED
    BY <2>3 DEF Missing, span
<1>4. ASSUME NEW seq \in 0..MaxSeq, Receive(seq)
      PROVE  Cardinality(Missing') <= lost'
  <2>1. /\ seq \in Nat
        /\ first' = IF expected = Unknown THEN seq ELSE first
        /\ seen' = seen \cup {seq}
        /\ expected' = IF seq >= expected THEN seq + 1 ELSE expected
    BY <1>4, FeedHandlerAssumption DEF Receive, Handle, NextExpected
  <2>2. CASE expected = Unknown
    <3>1. Missing' = {}
      BY <2>1, <2>2 DEF Missing, Unknown
    <3>2. QED
      BY <1>2, <3>1, FS_EmptySet
  <2>3. CASE expected # Unknown /\ seq > expected
    <3>1. lost' = lost + (seq - expected)
      BY <1>4, <2>3 DEF Receive, Handle, CountGap
    <3>2. Missing' \subseteq Missing \cup (expected .. seq - 1)
      BY <1>2, <2>1, <2>3 DEF Missing, Unknown
    <3>3. /\ IsFiniteSet(expected .. seq - 1)
          /\ Cardinality(expected .. seq - 1) = seq - expected
      <4>1. expected \in Int /\ seq - 1 \in Int /\ seq \in Int /\ expected <= seq - 1
        BY <1>2, <2>1, <2>3 DEF Unknown
      <4>2. /\ IsFiniteSet(expected .. seq - 1)
            /\ Cardinality(expected .. seq - 1) =
                 IF expected > seq - 1 THEN 0 ELSE (seq - 1) - expected + 1
        BY <4>1, FS_Interval
      <4>3. QED
        BY <4>1, <4>2
    <3>4. IsFiniteSet(Missing) /\ Cardinality(Missing) <= lost /\ Cardinality(Missing) \in Nat
      BY <2>3, FS_CardinalityType DEF LossInv, LossNeverUnderstated, Missing
    <3> HIDE DEF Missing
    <3>5. /\ IsFiniteSet(Missing \cup (expected .. seq - 1))
          /\ Cardinality(Missing \cup (expected .. seq - 1)) <= Cardinality(Missing) + (seq - expected)
      <4> DEFINE skipped == expected .. seq - 1
      <4>1. IsFiniteSet(skipped) /\ Cardinality(skipped) = seq - expected
        BY <3>3
      <4> HIDE DEF skipped
      <4>2. /\ IsFiniteSet(Missing \cup skipped)
            /\ Cardinality(Missing \cup skipped) =
                 Cardinality(Missing) + Cardinality(skipped) - Cardinality(Missing \cap skipped)
        BY <3>4, <4>1, FS_Union
      <4>3. Cardinality(Missing \cap skipped) \in Nat
        <5>1. IsFiniteSet(Missing \cap skipped)
          BY <3>4, FS_Subset
        <5>2. QED
          BY <5>1, FS_CardinalityType
      <4>4. Cardinality(Missing \cup skipped) <= Cardinality(Missing) + (seq - expected)
        <5>1. seq - expected \in Int
          BY <1>2, <2>1, <2>3
        <5>2. QED
          BY <3>4, <4>1, <4>2, <4>3, <5>1
      <4>5. QED
        BY <4>2, <4>4 DEF skipped
    <3>6. Cardinality(Missing') <= Cardinality(Missing \cup (expected .. seq - 1))
      BY <3>2, <3>5, FS_Subset
    <3>7. Cardinality(Missing') \in Nat /\ Cardinality(Missing \cup (expected .. seq - 1)) \in Nat
      BY <1>3, <3>5, FS_CardinalityType
    <3>8. QED
      BY <1>2, <2>1, <2>3, <3>1, <3>4, <3>5, <3>6, <3>7 DEF Unknown
  <2>4. CASE expected # Unknown /\ seq <= expected
    <3>1. lost' = lost
      BY <1>2, <1>4, <2>1, <2>4 DEF Receive, Handle, CountGap, Unknown
    <3>2. Missing' \subseteq Missing
      BY <1>2, <2>1, <2>4 DEF Missing, Unknown
    <3>3. IsFiniteSet(Missing) /\ Cardinality(Missing) <= lost /\ Cardinality(Missing) \in Nat
      BY <2>4, FS_CardinalityType DEF LossInv, LossNeverUnderstated, Missing
    <3>4. Cardinality(Missing') <= Cardinality(Missing)
      BY <3>2, <3>3, FS_Subset
    <3>5. Cardinality(Missing') \in Nat
      BY <1>3, FS_CardinalityType
    <3>6. QED
      BY <1>2, <3>1, <3>3, <3>4, <3>5
  <2>5. QED
    BY <1>2, <2>1, <2>2, <2>3, <2>4 DEF Unknown
<1>5. CASE UNCHANGED vars
  BY <1>1, <1>3, <1>5 DEF vars, LossInv, LossNeverUnderstated
<1>6. CASE Next
  BY <1>1, <1>3, <1>4, <1>6 DEF Next, LossInv, LossNeverUnderstated, Missing
<1>7. QED
  BY <1>5, <1>6

(* The loss counter, the only trigger of a resync, never understates what is  *)
(* missing between the first packet and the newest.                           *)
THEOREM NeverUnderstated == Spec => []LossNeverUnderstated
<1>1. Init => LossInv
  <2>1. ASSUME Init PROVE LossInv
    <3>1. AccountInv /\ first = 0 /\ expected = -1
      BY <2>1, AccountInit DEF Init, HandlerInit, Unknown
    <3>2. Missing = {}
      BY <3>1 DEF Missing
    <3>3. QED
      BY <3>1, <3>2, FS_EmptySet DEF LossInv, LossNeverUnderstated, Unknown
  <2>2. QED
    BY <2>1
<1>2. LossInv => LossNeverUnderstated
  BY DEF LossInv
<1>3. QED
  BY <1>1, <1>2, LossStep, PTL DEF Spec

(* The counters of the handler stay counters, whatever number a packet has.    *)
THEOREM Typed == Spec => []TypeOK
<1>1. TypeOK /\ GapAccounting => TypeOK
  OBVIOUS
<1>2. QED
  BY <1>1, Accounting, PTL
=============================================================================
