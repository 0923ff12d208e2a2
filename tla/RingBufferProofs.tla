---------------------------- MODULE RingBufferProofs ----------------------------
(***************************************************************************)
(* Proofs about RingBuffer.tla: for every capacity and every width of the  *)
(* counters, no slot is touched by both threads unordered, and the ring    *)
(* implements a bounded FIFO queue.  Indices that wrap are compared        *)
(* through the unbounded history counters they are the remainders of.      *)
(***************************************************************************)
EXTENDS Bench, SequenceTheorems, TLAPS

-----------------------------------------------------------------------------
(* Remainders *)

\* Division with remainder: what the counters' wrapping and masking compute.
LEMMA DivMod ==
  ASSUME NEW n \in Int, NEW k \in Nat \ {0}
  PROVE  /\ n \div k \in Int /\ n % k \in 0 .. k - 1
         /\ n = (n \div k) * k + (n % k)
<1>1. n \div k \in Int
  OBVIOUS
<1>2. n % k \in 0 .. k - 1
  OBVIOUS
<1>3. n = (n \div k) * k + (n % k)
  OBVIOUS
<1>4. QED
  BY <1>1, <1>2, <1>3

\* The only multiple of k nearer to 0 than k is 0.
LEMMA MulBound ==
  ASSUME NEW k \in Nat \ {0}, NEW q \in Int, NEW r \in Int, q * k = r, -k < r, r < k
  PROVE  q = 0
OBVIOUS

\* A remainder is unique.
LEMMA ModUnique ==
  ASSUME NEW n \in Int, NEW k \in Nat \ {0}, NEW q \in Int, NEW r \in 0 .. k - 1, n = q * k + r
  PROVE  n % k = r
<1> DEFINE a == n \div k
           b == n % k
<1>1. a \in Int /\ b \in 0 .. k - 1 /\ n = a * k + b
  BY DivMod
<1> HIDE DEF a, b
<1>2. (a - q) * k = r - b
  BY <1>1
<1>3. a - q = 0
  BY <1>1, <1>2, MulBound
<1>4. b = r
  BY <1>1, <1>2, <1>3
<1>5. QED
  BY <1>4 DEF b

\* wrapping_sub recovers the distance of two counters that wrapped.
LEMMA Distance ==
  ASSUME NEW m \in Nat, NEW n \in Nat, NEW k \in Nat \ {0}, n <= m, m - n < k
  PROVE  ((m % k) - (n % k)) % k = m - n
<1> DEFINE a == m \div k
           x == m % k
           b == n \div k
           y == n % k
<1>1. a \in Int /\ x \in 0 .. k - 1 /\ m = a * k + x
  BY DivMod
<1>2. b \in Int /\ y \in 0 .. k - 1 /\ n = b * k + y
  BY DivMod
<1> HIDE DEF a, x, b, y
<1>3. x - y = (b - a) * k + (m - n)
  BY <1>1, <1>2
<1>4. x - y \in Int /\ b - a \in Int /\ m - n \in 0 .. k - 1
  BY <1>1, <1>2
<1>5. (x - y) % k = m - n
  BY <1>3, <1>4, ModUnique
<1>6. QED
  BY <1>5 DEF x, y

\* wrapping_add(1) keeps a counter the remainder of its history counter.
LEMMA Increment ==
  ASSUME NEW n \in Nat, NEW k \in Nat \ {0}
  PROVE  ((n % k) + 1) % k = (n + 1) % k
<1> DEFINE a == n \div k
           x == n % k
           c == (x + 1) \div k
           z == (x + 1) % k
<1>1. a \in Int /\ x \in 0 .. k - 1 /\ n = a * k + x
  BY DivMod
<1>2. c \in Int /\ z \in 0 .. k - 1 /\ x + 1 = c * k + z
  BY <1>1, DivMod
<1> HIDE DEF a, x, c, z
<1>3. n + 1 = (a + c) * k + z
  BY <1>1, <1>2
<1>4. (n + 1) % k = z
  BY <1>1, <1>2, <1>3, ModUnique
<1>5. QED
  BY <1>4 DEF x, z

\* Multiplication is associative.
LEMMA Associative ==
  ASSUME NEW a \in Int, NEW j \in Int, NEW c \in Int
  PROVE  a * (j * c) = (a * j) * c
OBVIOUS

\* Masking a counter gives the slot of its history counter, because the
\* counters wrap at a multiple of the capacity.
LEMMA Masking ==
  ASSUME NEW n \in Nat, NEW k \in Nat \ {0}, NEW c \in Nat \ {0}, k % c = 0
  PROVE  (n % k) % c = n % c
<1> DEFINE j == k \div c
           a == n \div k
           x == n % k
           b == x \div c
           y == x % c
<1>1. j \in Int /\ k = j * c
  BY DivMod
<1>2. a \in Int /\ x \in 0 .. k - 1 /\ n = a * k + x
  BY DivMod
<1>3. b \in Int /\ y \in 0 .. c - 1 /\ x = b * c + y
  BY <1>2, DivMod
<1> HIDE DEF j, a, x, b, y
<1>4. a * k = (a * j) * c
  BY <1>1, <1>2, Associative
<1>5. n = (a * j + b) * c + y
  BY <1>1, <1>2, <1>3, <1>4
<1>6. n % c = y
  <2>1. a * j + b \in Int
    BY <1>1, <1>2, <1>3
  <2> DEFINE q == a * j + b
  <2>2. q \in Int /\ n = q * c + y
    BY <1>5, <2>1
  <2> HIDE DEF q
  <2>3. QED
    BY <1>3, <2>2, ModUnique
<1>7. QED
  BY <1>6 DEF x, y

\* Counters less than a capacity apart are in different slots.
LEMMA DistinctSlots ==
  ASSUME NEW m \in Nat, NEW n \in Nat, NEW c \in Nat \ {0}, n < m, m - n < c
  PROVE  m % c # n % c
<1> DEFINE a == m \div c
           x == m % c
           b == n \div c
           y == n % c
<1>1. a \in Int /\ x \in 0 .. c - 1 /\ m = a * c + x
  BY DivMod
<1>2. b \in Int /\ y \in 0 .. c - 1 /\ n = b * c + y
  BY DivMod
<1> HIDE DEF a, x, b, y
<1>3. SUFFICES ASSUME x = y PROVE FALSE
  BY DEF x, y
<1>4. (a - b) * c = m - n
  BY <1>1, <1>2, <1>3
<1>5. a - b = 0
  BY <1>1, <1>2, <1>4, MulBound
<1>6. QED
  BY <1>1, <1>2, <1>4, <1>5

-----------------------------------------------------------------------------
(* The inductive invariant *)

\* Each counter is the remainder of its history counter, each thread knows
\* exactly the stores it has seen, and the four history counters stay in
\* order with no more than Capacity between the first and the last.
RingInv ==
  /\ TypeOK
  /\ head = pops % CounterMod /\ tail = pushes % CounterMod
  /\ popsKnown = popsSeen /\ pushesKnown = pushesSeen
  /\ popsSeen <= pops /\ pops <= pushesSeen /\ pushesSeen <= pushes
  /\ pushes <= popsSeen + Capacity
  /\ ppc = "loaded" => headRead = popsSeen % CounterMod
  /\ ppc = "written" => pushes < popsSeen + Capacity
  /\ cpc = "loaded" => tailRead = pushesSeen % CounterMod
  /\ cpc = "read" => pops < pushesSeen


\* Facts about the constants in the form the steps use.
LEMMA Constants ==
  /\ Capacity \in Nat \ {0} /\ CounterMod \in Nat \ {0} /\ Capacity < CounterMod
  /\ CounterMod % Capacity = 0 /\ 0 % CounterMod = 0
<1>1. Capacity \in Nat \ {0} /\ CounterMod \in Nat \ {0} /\ Capacity < CounterMod /\ CounterMod % Capacity = 0
  BY RingAssumption
<1>2. 0 % CounterMod = 0
  BY <1>1, ModUnique, 0 = 0 * CounterMod + 0, 0 \in 0 .. CounterMod - 1
<1>3. QED
  BY <1>1, <1>2

\* A counter and a slot index are in range.
LEMMA Ranges ==
  ASSUME NEW n \in Nat
  PROVE  n % CounterMod \in 0 .. CounterMod - 1 /\ n % Capacity \in 0 .. Capacity - 1
BY Constants, DivMod

\* The order of the history counters, as facts of plain arithmetic.
LEMMA Order ==
  ASSUME RingInv
  PROVE  /\ pushes \in Nat /\ pops \in Nat /\ popsSeen \in Nat /\ pushesSeen \in Nat
         /\ popsSeen <= pops /\ pops <= pushesSeen /\ pushesSeen <= pushes
         /\ pushes - popsSeen <= Capacity /\ pushes - popsSeen < CounterMod
<1>1. /\ pushes \in Nat /\ pops \in Nat /\ popsSeen \in Nat /\ pushesSeen \in Nat
      /\ popsSeen <= pops /\ pops <= pushesSeen /\ pushesSeen <= pushes
      /\ pushes <= popsSeen + Capacity
  BY DEF RingInv, TypeOK
<1>2. QED
  BY <1>1, Constants

\* A producer that does not find the ring full has a free slot, by what it
\* knows of the pops and not only by what the consumer has done.
LEMMA NotFull ==
  ASSUME RingInv, ppc = "loaded", ~ Full
  PROVE  pushes < popsSeen + Capacity
<1>1. pushes \in Nat /\ popsSeen \in Nat /\ popsSeen <= pushes /\ pushes - popsSeen < CounterMod
  BY Order
<1>2. ((pushes % CounterMod) - (popsSeen % CounterMod)) % CounterMod = pushes - popsSeen
  BY <1>1, Constants, Distance
<1>3. tail = pushes % CounterMod /\ headRead = popsSeen % CounterMod
  BY DEF RingInv
<1>4. WrapSub(tail, headRead) = pushes - popsSeen
  BY <1>2, <1>3 DEF WrapSub
<1>5. QED
  BY <1>1, <1>4, Constants DEF Full

\* A consumer that does not find the ring empty has a slot to read.
LEMMA NotEmpty ==
  ASSUME RingInv, cpc = "loaded", head # tailRead
  PROVE  pops < pushesSeen
BY DEF RingInv, TypeOK

\* The invariant gives race freedom.
LEMMA RaceFree ==
  ASSUME RingInv
  PROVE  NoDataRace
<1>1. Writing => pushes < popsKnown + Capacity
  BY NotFull DEF Writing, RingInv
<1>2. Reading => pops < pushesKnown
  BY NotEmpty DEF Reading, RingInv
<1>3. ASSUME Writing, Reading
      PROVE  SlotOf(tail) # SlotOf(head)
  <2>1. pushes \in Nat /\ pops \in Nat /\ pops < pushes /\ pushes - pops < Capacity
    <3>1. pops < pushesSeen
      BY <1>3, NotEmpty DEF Reading
    <3>2. pushes < popsSeen + Capacity
      BY <1>3, NotFull DEF Writing
    <3>3. QED
      BY <3>1, <3>2, Order, Constants
  <2>2. pushes % Capacity # pops % Capacity
    BY <2>1, Constants, DistinctSlots
  <2>3. tail % Capacity = pushes % Capacity /\ head % Capacity = pops % Capacity
    BY <2>1, Constants, Masking DEF RingInv
  <2>4. QED
    BY <2>2, <2>3 DEF SlotOf
<1>4. QED
  BY <1>1, <1>2, <1>3 DEF NoDataRace

LEMMA RingInit ==
  ASSUME Init
  PROVE  RingInv
BY Constants DEF Init, RingInv, TypeOK

LEMMA RingStep ==
  ASSUME RingInv, [Next]_vars
  PROVE  RingInv'
<1> USE DEF RingInv, TypeOK
<1>1. ASSUME NEW v \in Values, LoadHead(v)
      PROVE  RingInv'
  <2>1. PICK store \in popsSeen .. pops :
          /\ headRead' = store % CounterMod
          /\ popsSeen' = store
          /\ popsKnown' = Acquire(popsKnown, store)
    BY <1>1 DEF LoadHead
  <2>2. popsKnown' = store /\ store \in Nat
    BY <2>1 DEF Acquire
  <2>3. headRead' \in 0 .. CounterMod - 1
    BY <2>1, <2>2, Ranges
  <2>4. pushes <= store + Capacity
    BY <2>1, Constants
  <2> HIDE DEF RingInv, TypeOK
  <2>5. TypeOK'
    BY <1>1, <2>1, <2>2, <2>3 DEF LoadHead, shared, consumer, RingInv, TypeOK
  <2>6. QED
    BY <1>1, <2>1, <2>2, <2>4, <2>5, Order DEF LoadHead, shared, consumer, RingInv
<1>2. CASE Refuse
  BY <1>2 DEF Refuse, consumer
<1>3. CASE WriteSlot
  <2>1. pushes < popsSeen + Capacity
    BY <1>3, NotFull DEF WriteSlot
  <2>2. buf' \in [0 .. Capacity - 1 -> Values \cup {Empty}]
    BY <1>3 DEF WriteSlot
  <2>3. QED
    BY <1>3, <2>1, <2>2 DEF WriteSlot, consumer
<1>4. CASE StoreTail
  <2>1. tail' = (pushes + 1) % CounterMod
    BY <1>4, Constants, Increment DEF StoreTail, WrapInc
  <2>2. tail' \in 0 .. CounterMod - 1
    BY <2>1, Ranges, pushes + 1 \in Nat
  <2>3. pushes + 1 <= popsSeen + Capacity
    BY <1>4, Constants DEF StoreTail
  <2> HIDE DEF RingInv, TypeOK
  <2>4. TypeOK'
    BY <1>4, <2>2 DEF StoreTail, consumer, RingInv, TypeOK
  <2>5. QED
    BY <1>4, <2>1, <2>3, <2>4, Order DEF StoreTail, consumer, RingInv
<1>5. CASE LoadTail
  <2>1. PICK store \in pushesSeen .. pushes :
          /\ tailRead' = store % CounterMod
          /\ pushesSeen' = store
          /\ pushesKnown' = Acquire(pushesKnown, store)
    BY <1>5 DEF LoadTail
  <2>2. pushesKnown' = store /\ store \in Nat
    BY <2>1 DEF Acquire
  <2>3. tailRead' \in 0 .. CounterMod - 1
    BY <2>1, <2>2, Ranges
  <2> HIDE DEF RingInv, TypeOK
  <2>4. TypeOK'
    BY <1>5, <2>1, <2>2, <2>3 DEF LoadTail, shared, producer, RingInv, TypeOK
  <2>5. QED
    BY <1>5, <2>1, <2>2, <2>4, Order DEF LoadTail, shared, producer, RingInv
<1>6. CASE ReturnNone
  BY <1>6 DEF ReturnNone, shared, producer
<1>7. CASE ReadSlot
  <2>1. pops < pushesSeen
    BY <1>7, NotEmpty DEF ReadSlot
  <2>2. head = pops % CounterMod /\ pops \in Nat
    OBVIOUS
  <2>3. SlotOf(head) \in 0 .. Capacity - 1
    <3> HIDE DEF RingInv, TypeOK
    <3>1. (pops % CounterMod) % Capacity = pops % Capacity
      BY <2>2, Constants, Masking
    <3>2. pops % Capacity \in 0 .. Capacity - 1
      BY <2>2, Ranges
    <3>3. QED
      BY <2>2, <3>1, <3>2 DEF SlotOf
  <2>4. value' \in Values \cup {Empty}
    BY <1>7, <2>3 DEF ReadSlot
  <2>5. QED
    BY <1>7, <2>1, <2>4 DEF ReadSlot, shared, producer
<1>8. CASE StoreHead
  <2>1. head' = (pops + 1) % CounterMod
    BY <1>8, Constants, Increment DEF StoreHead, WrapInc
  <2>2. head' \in 0 .. CounterMod - 1
    BY <2>1, Ranges, pops + 1 \in Nat
  <2> HIDE DEF RingInv, TypeOK
  <2>3. TypeOK'
    BY <1>8, <2>2 DEF StoreHead, producer, RingInv, TypeOK
  <2>4. QED
    BY <1>8, <2>1, <2>3, Order DEF StoreHead, producer, RingInv
<1>9. CASE UNCHANGED vars
  BY <1>9 DEF vars
<1>10. QED
  BY <1>1, <1>2, <1>3, <1>4, <1>5, <1>6, <1>7, <1>8, <1>9 DEF Next

\* For every capacity that divides the range of the counters, the two threads
\* never touch one slot of the ring unordered, and no slot is read before it
\* is written: what the unsafe impls of ringbuffer.rs rely on.
THEOREM RaceFreedom == Spec => [](TypeOK /\ NoDataRace)
<1>1. Init => RingInv
  BY RingInit
<1>2. RingInv /\ [Next]_vars => RingInv'
  BY RingStep
<1>3. RingInv => TypeOK /\ NoDataRace
  BY RaceFree DEF RingInv
<1>4. QED
  BY <1>1, <1>2, <1>3, PTL DEF Spec

\* Both counters stay within their range through every wrap, and the slots hold
\* values or are empty.
THEOREM Typed == Spec => []TypeOK
<1>1. TypeOK /\ NoDataRace => TypeOK
  OBVIOUS
<1>2. QED
  BY <1>1, RaceFreedom, PTL

\* The two threads of the benchmark use the ring as its contract asks, one at
\* each end, so what is proved of the ring holds in the benchmark.
THEOREM BenchIsAClient == BenchSpec => Spec
<1>1. BenchNext => [Next]_vars
  BY DEF BenchNext, Producer, Consumer, TryPop, Joined, Next
<1>2. QED
  BY <1>1, PTL DEF BenchSpec, Spec

-----------------------------------------------------------------------------
(* The ring is a queue *)

Cells == Values \cup {Empty}

\* What the steps between a load and a store carry along: the producer a value,
\* the consumer the contents of the slot that is still the oldest.
QueueInv ==
  /\ RingInv
  /\ ppc = "loaded" => input \in Values
  /\ ppc = "written" => buf[SlotOf(pushes)] \in Values
  /\ cpc = "read" => value = buf[SlotOf(pops)]

\* A slot index of an unbounded counter is in range.
LEMMA SlotRange ==
  ASSUME NEW n \in Nat
  PROVE  SlotOf(n) \in 0 .. Capacity - 1
BY Ranges DEF SlotOf

\* The contents are a sequence as long as the counters are apart.
ContentsShape ==
  /\ Contents \in Seq(Cells) /\ Len(Contents) = pushes - pops
  /\ \A i \in 1 .. pushes - pops : Contents[i] = buf[SlotOf(pops + i - 1)]

LEMMA ContentsType == RingInv => ContentsShape
<1> SUFFICES ASSUME RingInv PROVE ContentsShape
  OBVIOUS
<1>1. pushes - pops \in Nat /\ pops \in Nat /\ pushes \in Nat
  BY Order
<1>2. buf \in [0 .. Capacity - 1 -> Cells]
  BY DEF RingInv, TypeOK, Cells
<1>3. ASSUME NEW i \in 1 .. pushes - pops
      PROVE  buf[SlotOf(pops + i - 1)] \in Cells
  <2>1. pops + i - 1 \in Nat
    BY <1>1
  <2>2. SlotOf(pops + i - 1) \in 0 .. Capacity - 1
    BY <2>1, SlotRange
  <2>3. QED
    BY <1>2, <2>2
<1>4. Contents \in [1 .. pushes - pops -> Cells]
  BY <1>3 DEF Contents
<1>5. Contents \in Seq(Cells)
  BY <1>1, <1>4, SeqDef
<1>6. Len(Contents) = pushes - pops
  BY <1>1, <1>4, <1>5, LenProperties
<1>7. QED
  BY <1>5, <1>6 DEF Contents, ContentsShape

\* The slot written to is none of those of the contents.
LEMMA WriteIsApart ==
  ASSUME RingInv, ppc = "loaded", ~ Full, NEW n \in Nat, pops <= n, n < pushes
  PROVE  SlotOf(tail) # SlotOf(n)
<1>1. pushes < popsSeen + Capacity
  BY NotFull
<1>2. pushes \in Nat /\ pushes - n < Capacity
  BY <1>1, Order, Constants
<1>3. pushes % Capacity # n % Capacity
  BY <1>2, Constants, DistinctSlots
<1>4. tail % Capacity = pushes % Capacity
  BY <1>2, Constants, Masking DEF RingInv
<1>5. QED
  BY <1>3, <1>4 DEF SlotOf

\* What masking a wrapped counter gives.
LEMMA SlotOfCounters ==
  ASSUME RingInv
  PROVE  SlotOf(tail) = SlotOf(pushes) /\ SlotOf(head) = SlotOf(pops)
<1>1. pushes \in Nat /\ pops \in Nat
  BY Order
<1>2. tail % Capacity = pushes % Capacity /\ head % Capacity = pops % Capacity
  BY <1>1, Constants, Masking DEF RingInv
<1>3. QED
  BY <1>2 DEF SlotOf

LEMMA QueueInvStep ==
  ASSUME QueueInv, [Next]_vars
  PROVE  QueueInv'
<1>0. RingInv /\ RingInv'
  BY RingStep DEF QueueInv
<1>1. pushes \in Nat /\ pops \in Nat
  BY <1>0, Order
<1> USE DEF QueueInv
<1>2. ASSUME NEW v \in Values, LoadHead(v)
      PROVE  QueueInv'
  BY <1>0, <1>2 DEF LoadHead, shared, consumer
<1>3. CASE Refuse
  BY <1>0, <1>3 DEF Refuse, consumer
<1>4. CASE WriteSlot
  <2>1. SlotOf(pushes) \in 0 .. Capacity - 1 /\ SlotOf(tail) = SlotOf(pushes)
    BY <1>0, <1>1, SlotRange, SlotOfCounters
  <2>2. buf \in [0 .. Capacity - 1 -> Cells]
    BY <1>0 DEF RingInv, TypeOK, Cells
  <2>3. buf' = [buf EXCEPT ![SlotOf(tail)] = input] /\ input \in Values
    BY <1>4 DEF WriteSlot
  <2>4. buf'[SlotOf(pushes)] \in Values
    BY <2>1, <2>2, <2>3
  <2>5. cpc = "read" => SlotOf(tail) # SlotOf(pops)
    <3>1. cpc = "read" => pops < pushes
      BY <1>0, Order DEF RingInv
    <3>2. QED
      BY <1>0, <1>1, <1>4, <3>1, WriteIsApart DEF WriteSlot
  <2>6. cpc = "read" => buf'[SlotOf(pops)] = buf[SlotOf(pops)]
    BY <1>1, <2>2, <2>3, <2>5, SlotRange
  <2>7. UNCHANGED <<pushes, pops, cpc, value>> /\ ppc' = "written"
    BY <1>4 DEF WriteSlot, consumer
  <2>8. SlotOf(pushes)' = SlotOf(pushes) /\ SlotOf(pops)' = SlotOf(pops)
    BY <2>7 DEF SlotOf
  <2>9. QED
    BY <1>0, <2>4, <2>6, <2>7, <2>8
<1>5. CASE StoreTail
  BY <1>0, <1>5 DEF StoreTail, consumer, SlotOf
<1>6. CASE LoadTail
  BY <1>0, <1>6 DEF LoadTail, shared, producer, SlotOf
<1>7. CASE ReturnNone
  BY <1>0, <1>7 DEF ReturnNone, shared, producer, SlotOf
<1>8. CASE ReadSlot
  <2>1. value' = buf[SlotOf(pops)]
    BY <1>0, <1>8, SlotOfCounters DEF ReadSlot
  <2>2. UNCHANGED <<buf, pushes, pops, ppc, input>>
    BY <1>8 DEF ReadSlot, shared, producer
  <2>3. QED
    BY <1>0, <2>1, <2>2 DEF SlotOf
<1>9. CASE StoreHead
  BY <1>0, <1>9 DEF StoreHead, producer, SlotOf
<1>10. CASE UNCHANGED vars
  BY <1>0, <1>10 DEF vars, SlotOf
<1>11. QED
  BY <1>2, <1>3, <1>4, <1>5, <1>6, <1>7, <1>8, <1>9, <1>10 DEF Next

-----------------------------------------------------------------------------
(* The steps of the queue *)

LEMMA SameContents ==
  ASSUME UNCHANGED <<pushes, pops, buf>>
  PROVE  Contents' = Contents
BY DEF Contents, SlotOf

\* Filling a slot does not show: the value is not published yet.
LEMMA WriteIsInvisible ==
  ASSUME RingInv, RingInv', WriteSlot
  PROVE  Contents' = Contents
<1>1. pushes - pops \in Nat /\ pops \in Nat /\ pushes \in Nat /\ UNCHANGED <<pushes, pops>>
  BY Order DEF WriteSlot, consumer
<1>2. buf \in [0 .. Capacity - 1 -> Cells] /\ buf' = [buf EXCEPT ![SlotOf(tail)] = input]
  BY DEF RingInv, TypeOK, Cells, WriteSlot
<1>3. ASSUME NEW i \in 1 .. pushes - pops
      PROVE  buf'[SlotOf(pops + i - 1)] = buf[SlotOf(pops + i - 1)]
  <2>1. pops + i - 1 \in Nat /\ pops <= pops + i - 1 /\ pops + i - 1 < pushes
    BY <1>1
  <2>2. SlotOf(tail) # SlotOf(pops + i - 1)
    BY <2>1, WriteIsApart DEF WriteSlot
  <2>3. SlotOf(pops + i - 1) \in 0 .. Capacity - 1
    BY <2>1, SlotRange
  <2>4. QED
    BY <1>2, <2>2, <2>3
<1>4. QED
  BY <1>1, <1>3 DEF Contents, SlotOf

\* Storing tail publishes the slot filled before: a push.
LEMMA StoreTailPushes ==
  ASSUME QueueInv, RingInv', StoreTail
  PROVE  Queue!Push
<1> DEFINE v == buf[SlotOf(pushes)]
           n == pushes - pops
<1>1. v \in Values /\ RingInv
  BY DEF QueueInv, StoreTail
<1>2. n \in Nat /\ n < Capacity /\ pops \in Nat /\ pushes \in Nat
  BY <1>1, Order, Constants DEF StoreTail, RingInv
<1>3. pushes' = pushes + 1 /\ UNCHANGED <<pops, buf, dropped, popped>>
  BY DEF StoreTail, consumer
<1>4. /\ Contents \in Seq(Cells) /\ Len(Contents) = n
      /\ \A i \in 1 .. n : Contents[i] = buf[SlotOf(pops + i - 1)]
  BY <1>1, ContentsType DEF ContentsShape
<1>5. /\ Contents' \in Seq(Cells) /\ Len(Contents') = n + 1
      /\ \A i \in 1 .. n + 1 : Contents'[i] = buf[SlotOf(pops + i - 1)]
  <2>0. ContentsShape'
    BY ContentsType, PTL
  <2>1. /\ Contents' \in Seq(Cells) /\ Len(Contents') = pushes' - pops'
        /\ \A i \in 1 .. pushes' - pops' : Contents'[i] = buf'[SlotOf(pops' + i - 1)]
    BY <2>0 DEF ContentsShape, Cells, SlotOf
  <2>2. pushes' - pops' = n + 1
    BY <1>2, <1>3
  <2>3. QED
    BY <1>3, <2>1, <2>2
<1>6. pops + (n + 1) - 1 = pushes
  BY <1>2
<1> HIDE DEF v, n
<1>7. v \in Cells
  BY <1>1 DEF Cells
<1>8. /\ Append(Contents, v) \in Seq(Cells) /\ Len(Append(Contents, v)) = n + 1
      /\ \A i \in 1 .. n + 1 : Append(Contents, v)[i] = IF i = n + 1 THEN v ELSE Contents[i]
  BY <1>2, <1>4, <1>7
<1>9. ASSUME NEW i \in 1 .. n + 1
      PROVE  Contents'[i] = Append(Contents, v)[i]
  <2>1. CASE i = n + 1
    BY <1>2, <1>5, <1>6, <1>8, <2>1 DEF v
  <2>2. CASE i # n + 1
    <3>1. i \in 1 .. n
      BY <1>2, <2>2
    <3>2. QED
      BY <1>4, <1>5, <1>8, <2>2, <3>1
  <2>3. QED
    BY <2>1, <2>2
<1>10. Contents' = Append(Contents, v)
  BY <1>5, <1>8, <1>9, SeqEqual
<1>11. QED
  BY <1>1, <1>2, <1>3, <1>4, <1>10 DEF Queue!Push

\* Storing head takes the oldest value off: a pop.
LEMMA StoreHeadPops ==
  ASSUME QueueInv, RingInv', StoreHead
  PROVE  Queue!Pop
<1> DEFINE n == pushes - pops
<1>1. RingInv /\ value = buf[SlotOf(pops)]
  BY DEF QueueInv, StoreHead
<1>2. n \in Nat \ {0} /\ pops \in Nat /\ pushes \in Nat
  BY <1>1, Order DEF StoreHead, RingInv
<1>3. pops' = pops + 1 /\ popped' = value /\ UNCHANGED <<pushes, buf, dropped>>
  BY DEF StoreHead, producer
<1>4. /\ Contents \in Seq(Cells) /\ Len(Contents) = n
      /\ \A i \in 1 .. n : Contents[i] = buf[SlotOf(pops + i - 1)]
  BY <1>1, ContentsType DEF ContentsShape
<1>5. /\ Contents' \in Seq(Cells) /\ Len(Contents') = n - 1
      /\ \A i \in 1 .. n - 1 : Contents'[i] = buf[SlotOf(pops + 1 + i - 1)]
  <2>0. ContentsShape'
    BY ContentsType, PTL
  <2>1. /\ Contents' \in Seq(Cells) /\ Len(Contents') = pushes' - pops'
        /\ \A i \in 1 .. pushes' - pops' : Contents'[i] = buf'[SlotOf(pops' + i - 1)]
    BY <2>0 DEF ContentsShape, Cells, SlotOf
  <2>2. pushes' - pops' = n - 1
    BY <1>2, <1>3
  <2>3. QED
    BY <1>3, <2>1, <2>2
<1>6. pops + 1 - 1 = pops /\ \A i \in Nat : pops + 1 + i - 1 = pops + (i + 1) - 1
  BY <1>2
<1> HIDE DEF n
<1>7. Contents # <<>>
  BY <1>2, <1>4
<1>8. Head(Contents) = value
  <2>1. Head(Contents) = Contents[1]
    BY <1>4, <1>7
  <2>2. Contents[1] = buf[SlotOf(pops + 1 - 1)]
    BY <1>2, <1>4
  <2>3. QED
    BY <1>1, <1>6, <2>1, <2>2
<1>9. /\ Tail(Contents) \in Seq(Cells) /\ Len(Tail(Contents)) = n - 1
      /\ \A i \in 1 .. n - 1 : Tail(Contents)[i] = Contents[i + 1]
  BY <1>4, <1>7, HeadTailProperties
<1>10. ASSUME NEW i \in 1 .. n - 1
       PROVE  Contents'[i] = Tail(Contents)[i]
  <2>1. i \in Nat /\ i + 1 \in 1 .. n
    BY <1>2
  <2>2. Contents[i + 1] = buf[SlotOf(pops + (i + 1) - 1)]
    BY <1>4, <2>1
  <2>3. Contents'[i] = buf[SlotOf(pops + 1 + i - 1)]
    BY <1>5
  <2>4. QED
    BY <1>6, <1>9, <2>1, <2>2, <2>3
<1>11. Contents' = Tail(Contents)
  BY <1>5, <1>9, <1>10, SeqEqual
<1>12. QED
  BY <1>3, <1>7, <1>8, <1>11 DEF Queue!Pop

\* Every access to shared memory is a step of the queue or none.
LEMMA QueueStep ==
  ASSUME QueueInv, QueueInv', [Next]_vars
  PROVE  [Queue!Next]_<<Contents, dropped, popped>>
<1>0. RingInv /\ RingInv'
  BY DEF QueueInv
<1>1. ASSUME NEW v \in Values, LoadHead(v)
      PROVE  UNCHANGED <<Contents, dropped, popped>>
  BY <1>1, SameContents DEF LoadHead, shared, consumer
<1>2. CASE Refuse
  <2>1. Contents' = Contents /\ popped' = popped
    BY <1>2, SameContents DEF Refuse, consumer
  <2>2. dropped' = dropped + 1 \/ dropped' = dropped
    BY <1>2 DEF Refuse
  <2>3. QED
    BY <2>1, <2>2 DEF Queue!Next, Queue!Refuse
<1>3. CASE WriteSlot
  BY <1>0, <1>3, WriteIsInvisible DEF WriteSlot, consumer
<1>4. CASE StoreTail
  BY <1>0, <1>4, StoreTailPushes DEF Queue!Next
<1>5. CASE LoadTail
  BY <1>5, SameContents DEF LoadTail, shared, producer
<1>6. CASE ReturnNone
  BY <1>6, SameContents DEF ReturnNone, shared, producer
<1>7. CASE ReadSlot
  BY <1>7, SameContents DEF ReadSlot, shared, producer
<1>8. CASE StoreHead
  BY <1>0, <1>8, StoreHeadPops DEF Queue!Next
<1>9. CASE UNCHANGED vars
  BY <1>9, SameContents DEF vars
<1>10. QED
  BY <1>1, <1>2, <1>3, <1>4, <1>5, <1>6, <1>7, <1>8, <1>9 DEF Next

\* The ring is a bounded FIFO queue, whatever its capacity: the pop returns what
\* was pushed, in order and once, through stale loads, wrapping and refusals.
THEOREM RingIsAQueue == Spec => ImplementsQueue
<1>1. Init => QueueInv /\ Queue!Init
  <2>1. ASSUME Init
        PROVE  QueueInv /\ Queue!Init
    <3>1. RingInv /\ QueueInv
      BY <2>1, RingInit DEF QueueInv, Init
    <3>2. Contents \in Seq(Cells) /\ Len(Contents) = 0
      BY <2>1, <3>1, ContentsType DEF ContentsShape, Init
    <3>3. Contents = <<>>
      BY <3>2, EmptySeq
    <3>4. QED
      BY <2>1, <3>1, <3>3, RingAssumption DEF Init, Queue!Init
  <2>2. QED
    BY <2>1
<1>2. QueueInv /\ [Next]_vars => QueueInv'
  BY QueueInvStep
<1>3. QueueInv /\ QueueInv' /\ [Next]_vars => [Queue!Next]_<<Contents, dropped, popped>>
  BY QueueStep
<1>4. QED
  BY <1>1, <1>2, <1>3, PTL DEF Spec, ImplementsQueue, Queue!Spec
=============================================================================
