------------------------- MODULE DistilBufferProofs -------------------------
(***************************************************************************)
(* Proofs about DistilBuffer for any number of workers, any capacity, batch  *)
(* size and samples_per_train: the trainer copies what it picked, eviction   *)
(* takes the oldest samples, and no sample outlives its share of draws.     *)
(***************************************************************************)
EXTENDS DistilBuffer, TLAPS

Age(i)   == ring[Wrap(tail + i)]
PerDraw  == BatchSize * UsesDen
Pending  == IF tpc = "copy" THEN PerDraw ELSE 0

(* The live window ends at the head.                                         *)
WindowOK == head = Wrap(tail + size)

(* Between picking and evicting, the buffer still holds what was picked from: *)
(* it only grows, and not at all once it drains.                            *)
BatchOK ==
    /\ tpc # "copy" => picks = NoPicks
    /\ tpc = "copy" /\ batch.draining => stop /\ batch.actual = size
    /\ tpc = "copy" /\ ~batch.draining => BatchSize <= size

(* A sample with i older ones has seen at most the draws that evicted those   *)
(* before it, and those the credit has not yet turned into evictions.       *)
AgesOK ==
    /\ credit < UsesNum
    /\ \A i \in 0 .. size - 1 : Age(i) * PerDraw <= (Capacity - 1 - i) * UsesNum + credit + Pending

IInv == TypeOK /\ WindowOK /\ BatchOK /\ PicksUntouched /\ OldestFirst /\ AgesOK
-----------------------------------------------------------------------------
(* Offsets from the tail and the slots they name.                            *)

LEMMA WrapInSlots ==
    ASSUME NEW i \in 0 .. 2 * Capacity - 1
    PROVE  Wrap(i) \in Slots
BY BufferAssumption DEF Wrap, Slots

LEMMA WrapApart ==
    ASSUME NEW t \in Slots, NEW i \in 0 .. Capacity - 1, NEW j \in 0 .. Capacity - 1,
           Wrap(t + i) = Wrap(t + j)
    PROVE  i = j
BY BufferAssumption DEF Wrap, Slots

LEMMA WrapTwice ==
    ASSUME NEW t \in Slots, NEW i \in Nat, NEW j \in Nat, i + j <= Capacity
    PROVE  Wrap(Wrap(t + i) + j) = Wrap(t + (i + j))
BY BufferAssumption DEF Wrap, Slots

-----------------------------------------------------------------------------
(* Arithmetic of the eviction credit.                                       *)

LEMMA Distributes ==
    ASSUME NEW a \in Int, NEW b \in Int, NEW c \in Int
    PROVE  (a + b) * c = a * c + b * c /\ (a - b) * c = a * c - b * c
OBVIOUS

LEMMA Monotone ==
    ASSUME NEW a \in Int, NEW b \in Int, NEW c \in Nat, a <= b
    PROVE  a * c <= b * c
OBVIOUS

LEMMA Quotient ==
    ASSUME NEW a \in Nat, NEW b \in Nat \ {0}
    PROVE  /\ a \div b \in Nat
           /\ (a \div b) * b <= a
           /\ a < (a \div b) * b + b
OBVIOUS

LEMMA PerDrawNat == PerDraw \in Nat /\ PerDraw <= BatchSize * UsesNum
<1>1. BatchSize * UsesDen \in Nat /\ BatchSize * UsesNum \in Nat
  BY BufferAssumption
<1>2. UsesDen * BatchSize <= UsesNum * BatchSize
  BY BufferAssumption, Monotone
<1> QED
  BY <1>1, <1>2, BufferAssumption DEF PerDraw

-----------------------------------------------------------------------------
(* The invariant is inductive.                                              *)

LEMMA InitOK == Init => IInv
<1> SUFFICES ASSUME Init PROVE IInv
  OBVIOUS
<1> USE BufferAssumption DEF Init
<1>1. TypeOK
  BY DEF TypeOK, Slots, Threads, NoPicks
<1>2. WindowOK /\ BatchOK
  BY DEF WindowOK, BatchOK, Wrap
<1>3. PicksUntouched /\ OldestFirst
  BY DEF PicksUntouched, NoPicks, OldestFirst
<1>4. AgesOK
  BY DEF AgesOK
<1> QED
  BY <1>1, <1>2, <1>3, <1>4 DEF IInv

(* A step that leaves the ring and the picks alone, neither starts nor ends   *)
(* a draw and does not take stop() back.                                    *)
LEMMA RingUntouched ==
    ASSUME IInv, UNCHANGED <<ringVars, drawVars>>, TypeOK', stop => stop',
           tpc = "copy" <=> tpc' = "copy"
    PROVE  IInv'
<1> USE DEF IInv, ringVars, drawVars
<1>1. LiveSlots' = LiveSlots
  BY DEF LiveSlots
<1>2. WindowOK' /\ BatchOK'
  BY DEF WindowOK, BatchOK
<1>3. PicksUntouched' /\ OldestFirst'
  BY <1>1 DEF PicksUntouched, OldestFirst
<1>4. AgesOK'
  BY DEF AgesOK, Age, Pending, PerDraw
<1> QED
  BY <1>2, <1>3, <1>4

(* The slots written lie behind the live window, whose samples stay.          *)
LEMMA WritesBehindWindow ==
    ASSUME IInv, NEW p \in Producers, AddWrites(p)
    PROVE  /\ size' = size + ToWrite(p) /\ ToWrite(p) \in 0 .. Capacity - size
           /\ size' \in 0 .. Capacity
           /\ tail' = tail /\ tail \in Slots
           /\ \A i \in 0 .. size - 1 : Age(i)' = Age(i)
           /\ \A i \in size .. size' - 1 : Age(i)' = 0
<1> DEFINE n == ToWrite(p)
<1> USE BufferAssumption
<1>1. size \in 0 .. Capacity /\ tail \in Slots /\ left[p] \in 0 .. MaxAdd
  BY DEF IInv, TypeOK
<1>2. n \in 0 .. Capacity - size
  BY <1>1 DEF ToWrite
<1>3. size' = size + n /\ tail' = tail /\ size' \in 0 .. Capacity
  BY <1>1, <1>2 DEF AddWrites
<1>4. ring' = [s \in Slots |-> IF s \in Written(n) THEN 0 ELSE ring[s]]
  BY DEF AddWrites
<1>5. Written(n) = {Wrap(tail + (size + o)) : o \in 0 .. n - 1}
  <2>1. \A o \in 0 .. n - 1 : Wrap(head + o) = Wrap(tail + (size + o))
    <3> TAKE o \in 0 .. n - 1
    <3>1. head = Wrap(tail + size) /\ size \in Nat /\ o \in Nat /\ size + o <= Capacity
      BY <1>1, <1>2 DEF IInv, WindowOK
    <3> QED
      BY <1>1, <3>1, WrapTwice
  <2> QED
    BY <2>1 DEF Written
<1>6. ASSUME NEW i \in 0 .. Capacity - 1
      PROVE  Wrap(tail + i) \in Slots
  <2>1. tail + i \in 0 .. 2 * Capacity - 1
    BY <1>1 DEF Slots
  <2> QED
    BY <2>1, WrapInSlots
<1>7. ASSUME NEW i \in 0 .. size - 1
      PROVE  Age(i)' = Age(i)
  <2>1. i \in 0 .. Capacity - 1
    BY <1>1
  <2>2. Wrap(tail + i) \notin Written(n)
    <3>1. SUFFICES ASSUME NEW o \in 0 .. n - 1, Wrap(tail + i) = Wrap(tail + (size + o))
                   PROVE  FALSE
      BY <1>5
    <3>2. size + o \in 0 .. Capacity - 1
      BY <1>1, <1>2
    <3>3. i = size + o
      BY <1>1, <2>1, <3>1, <3>2, WrapApart
    <3> QED
      BY <1>1, <1>2, <3>3
  <2> QED
    BY <1>3, <1>4, <1>6, <2>1, <2>2 DEF Age, Wrap
<1>8. ASSUME NEW i \in size .. size' - 1
      PROVE  Age(i)' = 0
  <2>1. i \in 0 .. Capacity - 1
    BY <1>1, <1>3
  <2>2. i - size \in 0 .. n - 1 /\ i = size + (i - size)
    BY <1>1, <1>2, <1>3
  <2>3. Wrap(tail + i) \in Written(n)
    BY <1>5, <2>2
  <2> QED
    BY <1>3, <1>4, <1>6, <2>1, <2>3 DEF Age, Wrap
<1> QED
  BY <1>1, <1>2, <1>3, <1>7, <1>8

(* The picks are live samples, at some offset.                               *)
LEMMA LiveOffsets ==
    ASSUME NEW s
    PROVE  s \in LiveSlots <=> \E i \in 0 .. size - 1 : s = Wrap(tail + i)
BY DEF LiveSlots

LEMMA AddWritesOK ==
    ASSUME IInv, NEW p \in Producers, AddWrites(p)
    PROVE  IInv'
<1> DEFINE n == ToWrite(p)
<1> USE BufferAssumption
<1>1. TypeOK
  BY DEF IInv
<1>2. /\ size' = size + n /\ n \in 0 .. Capacity - size /\ size' \in 0 .. Capacity
      /\ tail' = tail /\ tail \in Slots /\ size \in 0 .. Capacity
      /\ \A i \in 0 .. size - 1 : Age(i)' = Age(i)
      /\ \A i \in size .. size' - 1 : Age(i)' = 0
  BY <1>1, WritesBehindWindow DEF TypeOK
<1>3. picks' = picks /\ batch' = batch /\ credit' = credit /\ ~stop /\ stop' = stop
  BY DEF AddWrites, drawVars, stopVars
<1>4. tpc' = "copy" <=> tpc = "copy"
  BY DEF AddWrites, WakeTrainer
<1>5. TypeOK'
  <2>1. ring' \in [Slots -> Nat]
    BY <1>1 DEF AddWrites, TypeOK
  <2>2. head' \in Slots
    <3>1. head + n \in 0 .. 2 * Capacity - 1
      BY <1>1, <1>2 DEF TypeOK, Slots
    <3> QED
      BY <3>1, WrapInSlots DEF AddWrites
  <2>3. tpc' \in {"loop", "draw", "block", "blocked", "copy", "wake",
                  "stop", "notify", "sentinels", "join", "done"}
    BY <1>1 DEF AddWrites, WakeTrainer, TypeOK
  <2>4. left' \in [Producers -> 0 .. MaxAdd]
    <3>1. left[p] \in 0 .. MaxAdd /\ n <= left[p]
      BY <1>1 DEF ToWrite, TypeOK
    <3>2. left[p] - n \in 0 .. MaxAdd
      BY <1>2, <3>1
    <3> QED
      BY <1>1, <3>2 DEF AddWrites, TypeOK
  <2>5. ppc' \in [Producers -> {"turn", "test", "block", "blocked", "gone"}]
    BY <1>1 DEF AddWrites, TypeOK
  <2>6. UNCHANGED <<started, credit, mutex, drawVars, stopVars>>
    BY DEF AddWrites
  <2> QED
    BY <1>1, <1>2, <2>1, <2>2, <2>3, <2>4, <2>5, <2>6
    DEF TypeOK, drawVars, stopVars, Threads, Slots
<1>6. WindowOK'
  <2>1. head = Wrap(tail + size) /\ size \in Nat /\ n \in Nat /\ size + n <= Capacity
    BY <1>2 DEF IInv, WindowOK
  <2>2. Wrap(head + n) = Wrap(tail + (size + n))
    BY <1>2, <2>1, WrapTwice
  <2> QED
    BY <1>2, <2>2 DEF WindowOK, AddWrites, Wrap
<1>7. BatchOK'
  BY <1>2, <1>3, <1>4 DEF IInv, BatchOK
<1>8. PicksUntouched'
  <2> SUFFICES ASSUME NEW s \in DOMAIN picks
               PROVE  s \in LiveSlots' /\ ring'[s] = picks[s]
    BY <1>3 DEF PicksUntouched
  <2>1. s \in LiveSlots /\ ring[s] = picks[s]
    BY DEF IInv, PicksUntouched
  <2>2. PICK i \in 0 .. size - 1 : s = Wrap(tail + i)
    BY <2>1 DEF LiveSlots
  <2>3. i \in 0 .. size' - 1 /\ s = Wrap(tail + i)'
    BY <1>2, <2>2 DEF Wrap
  <2>4. ring'[s] = ring[s]
    BY <1>2, <2>2, <2>3 DEF Age
  <2> QED
    BY <2>1, <2>3, <2>4 DEF LiveSlots
<1>9. OldestFirst'
  <2> SUFFICES ASSUME NEW i \in 0 .. size' - 1, NEW j \in 0 .. size' - 1, i < j
               PROVE  Age(i)' >= Age(j)'
    BY DEF OldestFirst, Age
  <2>1. \A k \in 0 .. size - 1 : Age(k) \in Nat
    <3> TAKE k \in 0 .. size - 1
    <3>1. tail + k \in 0 .. 2 * Capacity - 1
      BY <1>2 DEF Slots
    <3> QED
      BY <1>1, <3>1, WrapInSlots DEF Age, TypeOK
  <2>2. CASE j < size
    BY <1>2, <2>2 DEF IInv, OldestFirst, Age
  <2>3. CASE j >= size
    <3>1. Age(j)' = 0
      BY <1>2, <2>3
    <3>2. Age(i)' >= 0
      BY <1>2, <2>1
    <3> QED
      BY <3>1, <3>2
  <2> QED
    BY <1>2, <2>2, <2>3
<1>10. AgesOK'
  <2>1. Pending' = Pending /\ PerDraw' = PerDraw
    BY <1>4 DEF Pending, PerDraw
  <2>2. credit \in Nat /\ Pending \in Nat
    BY <1>1, PerDrawNat DEF TypeOK, Pending
  <2> SUFFICES ASSUME NEW i \in 0 .. size' - 1
               PROVE  Age(i)' * PerDraw <= (Capacity - 1 - i) * UsesNum + credit + Pending
    BY <1>3, <2>1 DEF IInv, AgesOK
  <2>3. CASE i < size
    BY <1>2, <2>3 DEF IInv, AgesOK
  <2>4. CASE i >= size
    <3>1. Age(i)' = 0
      BY <1>2, <2>4
    <3>2. Capacity - 1 - i \in Int /\ 0 <= Capacity - 1 - i
      BY <1>2
    <3>3. 0 * UsesNum <= (Capacity - 1 - i) * UsesNum
      BY <3>2, Monotone
    <3>4. (Capacity - 1 - i) * UsesNum \in Int
      BY <3>2
    <3> QED
      BY <2>2, <3>1, <3>3, <3>4, PerDrawNat
  <2> QED
    BY <1>2, <2>3, <2>4
<1> QED
  BY <1>5, <1>6, <1>7, <1>8, <1>9, <1>10 DEF IInv

(* DrawPicks: every live sample is one draw older, and picks are live.        *)
LEMMA DrawPicksOK ==
    ASSUME IInv, DrawPicks
    PROVE  IInv'
<1> USE BufferAssumption
<1>1. TypeOK
  BY DEF IInv
<1>2. UNCHANGED <<head, tail, size, credit, mutex, ppc, left, stop, stopFlag, spc, leave>>
  BY DEF DrawPicks, workerVars, stopVars
<1>3. /\ ring' = [s \in Slots |-> IF s \in LiveSlots THEN ring[s] + 1 ELSE ring[s]]
      /\ tpc = "draw" /\ tpc' = "copy" /\ started' = TRUE
      /\ batch' = [actual   |-> IF size < Required THEN size ELSE BatchSize,
                   draining |-> size < Required]
      /\ size >= Required \/ (stop /\ size > 0)
  BY DEF DrawPicks
<1>4. PICK P \in SUBSET LiveSlots : picks' = [s \in P |-> ring'[s]]
  BY DEF DrawPicks
<1>5. \A i \in 0 .. size - 1 : Wrap(tail + i) \in Slots
  <2> TAKE i \in 0 .. size - 1
  <2>1. tail + i \in 0 .. 2 * Capacity - 1
    BY <1>1 DEF TypeOK, Slots
  <2> QED
    BY <2>1, WrapInSlots
<1>6. LiveSlots \subseteq Slots /\ LiveSlots' = LiveSlots
  BY <1>2, <1>5 DEF LiveSlots, Wrap
<1>7. \A i \in 0 .. size - 1 : Age(i) \in Nat /\ Age(i)' = Age(i) + 1
  BY <1>1, <1>2, <1>3, <1>5 DEF Age, TypeOK, LiveSlots, Wrap
<1>8. TypeOK'
  <2>1. ring' \in [Slots -> Nat]
    BY <1>1, <1>3 DEF TypeOK
  <2>2. DOMAIN picks' \subseteq Slots /\ \A s \in DOMAIN picks' : picks'[s] \in Nat
    BY <1>4, <1>6, <2>1
  <2>3. batch' \in [actual : 0 .. Capacity, draining : BOOLEAN]
    BY <1>1, <1>3 DEF TypeOK
  <2> QED
    BY <1>1, <1>2, <1>3, <2>1, <2>2, <2>3 DEF TypeOK, Threads
<1>9. WindowOK'
  BY <1>2 DEF IInv, WindowOK, Wrap
<1>10. BatchOK'
  <2>1. BatchSize <= Required
    BY DEF Required
  <2>2. size \in Nat /\ Required \in Nat
    BY <1>1 DEF TypeOK, Required
  <2>3. CASE size < Required
    <3>1. batch'.draining = TRUE /\ batch'.actual = size
      BY <1>3, <2>3
    <3>2. stop
      BY <1>3, <2>2, <2>3
    <3> QED
      BY <1>2, <1>3, <3>1, <3>2 DEF BatchOK
  <2>4. CASE ~(size < Required)
    <3>1. ~batch'.draining
      BY <1>3, <2>4
    <3>2. BatchSize <= size
      BY <2>1, <2>2, <2>4
    <3> QED
      BY <1>2, <1>3, <3>1, <3>2 DEF BatchOK
  <2> QED
    BY <2>3, <2>4
<1>11. PicksUntouched'
  BY <1>4, <1>6 DEF PicksUntouched
<1>12. OldestFirst'
  BY <1>2, <1>7 DEF IInv, OldestFirst, Age
<1>13. AgesOK'
  <2>1. credit \in Nat /\ credit < UsesNum /\ Pending = 0 /\ Pending' = PerDraw
    BY <1>1, <1>3 DEF TypeOK, IInv, AgesOK, Pending, PerDraw
  <2> SUFFICES ASSUME NEW i \in 0 .. size - 1
               PROVE  Age(i)' * PerDraw <= (Capacity - 1 - i) * UsesNum + credit + PerDraw
    BY <1>2, <2>1 DEF AgesOK, PerDraw
  <2>2. Age(i) * PerDraw <= (Capacity - 1 - i) * UsesNum + credit
    <3>1. Age(i) * PerDraw <= (Capacity - 1 - i) * UsesNum + credit + Pending
      BY DEF IInv, AgesOK
    <3>2. (Capacity - 1 - i) * UsesNum \in Int
      BY <1>1 DEF TypeOK
    <3> QED
      BY <2>1, <3>1, <3>2
  <2>3. Age(i)' * PerDraw = Age(i) * PerDraw + 1 * PerDraw
    BY <1>7, PerDrawNat, Distributes
  <2>4. (Capacity - 1 - i) * UsesNum \in Int /\ Age(i) * PerDraw \in Int
    BY <1>1, <1>7, PerDrawNat DEF TypeOK
  <2> QED
    BY <2>1, <2>2, <2>3, <2>4, PerDrawNat
<1> QED
  BY <1>8, <1>9, <1>10, <1>11, <1>12, <1>13 DEF IInv

(* What an eviction takes: at least nothing, at most what there is, and, but  *)
(* for a draining one, as much as the credit is worth.                      *)
LEMMA EvictionOK ==
    ASSUME IInv, DrawEvicts
    PROVE  /\ Evicted \in 0 .. size
           /\ credit' \in 0 .. UsesNum - 1
           /\ IF batch.draining THEN Evicted = size
              ELSE credit' + Evicted * UsesNum = credit + PerDraw
<1> USE BufferAssumption
<1>1. TypeOK /\ tpc = "copy" /\ BatchOK /\ credit < UsesNum
  BY DEF IInv, DrawEvicts, AgesOK
<1>2. credit' = IF batch.draining THEN credit ELSE Credit - Evicted * UsesNum
  BY DEF DrawEvicts
<1>3. credit \in Nat /\ size \in 0 .. Capacity
  BY <1>1 DEF TypeOK
<1>4. CASE batch.draining
  BY <1>1, <1>2, <1>3, <1>4 DEF BatchOK, Evicted
<1>5. CASE ~batch.draining
  <2>1. Credit = credit + PerDraw /\ Credit \in Nat
    BY <1>3, <1>5, PerDrawNat DEF Credit, PerDraw
  <2> DEFINE q == Credit \div UsesNum
  <2>2. q \in Nat /\ q * UsesNum <= Credit /\ Credit < q * UsesNum + UsesNum
    BY <2>1, Quotient
  <2>3. q <= size
    <3>1. q * UsesNum \in Nat /\ BatchSize * UsesNum \in Nat
      BY <2>2
    <3>2. q * UsesNum < BatchSize * UsesNum + UsesNum
      BY <1>1, <1>3, <2>1, <2>2, <3>1, PerDrawNat
    <3>3. SUFFICES ASSUME BatchSize + 1 <= q PROVE FALSE
      BY <1>1, <1>3, <1>5, <2>2 DEF BatchOK
    <3>4. (BatchSize + 1) * UsesNum <= q * UsesNum
      BY <2>2, <3>3, Monotone
    <3>5. (BatchSize + 1) * UsesNum = BatchSize * UsesNum + 1 * UsesNum
      BY Distributes
    <3> QED
      BY <3>1, <3>2, <3>4, <3>5
  <2>4. Evicted = q
    BY <1>3, <1>5, <2>2, <2>3 DEF Evicted
  <2>5. credit' = Credit - q * UsesNum
    BY <1>2, <1>5, <2>4
  <2>6. q * UsesNum \in Nat
    BY <2>2
  <2>7. credit' \in 0 .. UsesNum - 1
    BY <2>1, <2>2, <2>5, <2>6
  <2>8. credit' + q * UsesNum = credit + PerDraw
    BY <1>3, <2>1, <2>5, <2>6, PerDrawNat
  <2> HIDE DEF q
  <2> QED
    BY <1>3, <1>5, <2>2, <2>3, <2>4, <2>7, <2>8
<1> QED
  BY <1>4, <1>5

LEMMA DrawEvictsOK ==
    ASSUME IInv, DrawEvicts
    PROVE  IInv'
<1> USE BufferAssumption
<1>1. TypeOK
  BY DEF IInv
<1>2. /\ Evicted \in 0 .. size /\ size \in 0 .. Capacity /\ tail \in Slots
      /\ credit' \in 0 .. UsesNum - 1
  BY <1>1, EvictionOK DEF TypeOK
<1>3. /\ tail' = Wrap(tail + Evicted) /\ size' = size - Evicted
      /\ picks' = NoPicks /\ tpc = "copy" /\ tpc' # "copy"
      /\ UNCHANGED <<ring, head, started, mutex, ppc, left, batch, stop, stopFlag, spc, leave>>
  BY DEF DrawEvicts, workerVars, stopVars
<1>4. size' \in 0 .. size
  BY <1>2, <1>3
<1>5. tail' \in Slots
  <2>1. tail + Evicted \in 0 .. 2 * Capacity - 1
    BY <1>2 DEF Slots
  <2> QED
    BY <1>3, <2>1, WrapInSlots
<1>6. \A i \in 0 .. size' : Wrap(tail' + i) = Wrap(tail + (Evicted + i))
  <2> TAKE i \in 0 .. size'
  <2>1. Evicted \in Nat /\ i \in Nat /\ Evicted + i <= Capacity
    BY <1>2, <1>3
  <2> QED
    BY <1>2, <1>3, <2>1, WrapTwice
<1>7. \A i \in 0 .. size' - 1 : /\ Evicted + i \in 0 .. size - 1
                                /\ Age(i)' = Age(Evicted + i)
  <2> TAKE i \in 0 .. size' - 1
  <2>1. Evicted + i \in 0 .. size - 1 /\ i \in 0 .. size'
    BY <1>2, <1>3
  <2> QED
    BY <1>3, <1>6, <2>1 DEF Age, Wrap
<1>8. TypeOK'
  <2>1. tpc' \in {"wake", "loop"}
    BY DEF DrawEvicts
  <2>2. DOMAIN picks' = {}
    BY <1>3 DEF NoPicks
  <2>3. size' \in 0 .. Capacity /\ credit' \in Nat
    BY <1>2, <1>4
  <2> QED
    BY <1>1, <1>3, <1>5, <2>1, <2>2, <2>3 DEF TypeOK, Threads, Slots
<1>9. WindowOK'
  <2>1. size' \in 0 .. size' /\ Evicted + size' = size
    BY <1>2, <1>3, <1>4
  <2>2. Wrap(tail' + size') = Wrap(tail + size)
    BY <1>6, <2>1
  <2> QED
    BY <1>3, <2>2 DEF IInv, WindowOK, Wrap
<1>10. BatchOK' /\ PicksUntouched'
  BY <1>3 DEF BatchOK, PicksUntouched, NoPicks
<1>11. OldestFirst'
  <2> SUFFICES ASSUME NEW i \in 0 .. size' - 1, NEW j \in 0 .. size' - 1, i < j
               PROVE  Age(i)' >= Age(j)'
    BY DEF OldestFirst, Age
  <2>1. Age(Evicted + i) >= Age(Evicted + j)
    BY <1>2, <1>7 DEF IInv, OldestFirst, Age
  <2> QED
    BY <1>7, <2>1
<1>12. AgesOK'
  <2>1. Pending' = 0 /\ Pending = PerDraw /\ PerDraw' = PerDraw
    BY <1>3 DEF Pending, PerDraw
  <2> SUFFICES ASSUME NEW i \in 0 .. size' - 1
               PROVE  Age(i)' * PerDraw <= (Capacity - 1 - i) * UsesNum + credit'
    BY <1>2, <2>1 DEF AgesOK
  <2> DEFINE e == Evicted
  <2>2. ~batch.draining
    BY <1>2, <1>3, EvictionOK
  <2>3. credit' + e * UsesNum = credit + PerDraw
    BY <2>2, EvictionOK
  <2>4. Age(i)' = Age(e + i)
    BY <1>7
  <2>5. Age(e + i) * PerDraw <= (Capacity - 1 - (e + i)) * UsesNum + credit + PerDraw
    BY <1>7, <2>1 DEF IInv, AgesOK
  <2>6. (Capacity - 1 - (e + i)) * UsesNum = (Capacity - 1 - i) * UsesNum - e * UsesNum
    <3>1. Capacity - 1 - (e + i) = (Capacity - 1 - i) - e
      BY <1>2, <1>4
    <3>2. Capacity - 1 - i \in Int /\ e \in Int /\ UsesNum \in Int
      BY <1>2, <1>4
    <3> QED
      BY <3>1, <3>2, Distributes
  <2>7. (Capacity - 1 - i) * UsesNum \in Int /\ e * UsesNum \in Int
    BY <1>2, <1>4
  <2>8. credit \in Nat /\ credit' \in Nat
    BY <1>1, <1>2 DEF TypeOK
  <2>9. Age(e + i) * PerDraw \in Int
    <3>1. tail + (e + i) \in 0 .. 2 * Capacity - 1
      BY <1>2, <1>7 DEF Slots
    <3>2. Age(e + i) \in Nat
      BY <1>1, <3>1, WrapInSlots DEF Age, TypeOK
    <3> QED
      BY <3>2, PerDrawNat
  <2> HIDE DEF e
  <2> QED
    BY <2>3, <2>4, <2>5, <2>6, <2>7, <2>8, <2>9, PerDrawNat
<1> QED
  BY <1>8, <1>9, <1>10, <1>11, <1>12 DEF IInv

-----------------------------------------------------------------------------
(* The steps that leave the ring alone keep the types.                       *)

LEMMA WorkerTypes ==
    ASSUME TypeOK, NEW p \in Producers,
           Turn(p) \/ TakeSentinel(p) \/ AddStopped(p) \/ AddFull(p) \/ AddBlocks(p)
    PROVE  TypeOK'
<1> USE BufferAssumption DEF TypeOK, Threads, ringVars, drawVars, stopVars
<1>1. CASE Turn(p)
  BY <1>1 DEF Turn
<1>2. CASE TakeSentinel(p)
  BY <1>2 DEF TakeSentinel
<1>3. CASE AddStopped(p)
  BY <1>3 DEF AddStopped
<1>4. CASE AddFull(p)
  BY <1>4 DEF AddFull
<1>5. CASE AddBlocks(p)
  BY <1>5 DEF AddBlocks
<1> QED
  BY <1>1, <1>2, <1>3, <1>4, <1>5

LEMMA TrainerTypes ==
    ASSUME TypeOK,
           LoopDraws \/ LoopBreaks \/ DrawWaits \/ DrawBlocks \/ DrawEmpty \/ DrawWakes \/ RunEnds
    PROVE  TypeOK'
<1> USE DEF TypeOK, Threads, ringVars, workerVars, drawVars, stopVars
<1>1. CASE LoopDraws \/ LoopBreaks
  BY <1>1 DEF LoopDraws, LoopBreaks
<1>2. CASE DrawWaits \/ DrawBlocks \/ DrawEmpty
  BY <1>2 DEF DrawWaits, DrawBlocks, DrawEmpty
<1>3. CASE DrawWakes
  BY <1>3 DEF DrawWakes, WakeProducers
<1>4. CASE RunEnds
  BY <1>4 DEF RunEnds, RunStops, RunNotifies, RunPushesSentinels, RunJoins, WakeProducers
<1> QED
  BY <1>1, <1>2, <1>3, <1>4

LEMMA StopTypes ==
    ASSUME TypeOK, StopStep \/ SpuriousWake
    PROVE  TypeOK'
<1> USE DEF TypeOK, Threads, ringVars, workerVars, drawVars, stopVars
<1>1. CASE StopStep
  BY <1>1 DEF StopStep, StopFlag, StopBuffer, StopNotifiesConsumer, StopNotifiesProducers,
              WakeTrainer, WakeProducers
<1>2. CASE SpuriousWake
  BY <1>2 DEF SpuriousWake
<1> QED
  BY <1>1, <1>2

(* They also keep the rest: the ring, the picks and the draw in progress are  *)
(* untouched, and stop_ is never reset.                                     *)
LEMMA WorkerQuiet ==
    ASSUME IInv, NEW p \in Producers,
           Turn(p) \/ TakeSentinel(p) \/ AddStopped(p) \/ AddFull(p) \/ AddBlocks(p)
    PROVE  IInv'
<1>1. TypeOK'
  BY WorkerTypes DEF IInv
<1>2. UNCHANGED <<ringVars, drawVars, stopVars, tpc>>
  BY DEF Turn, TakeSentinel, AddStopped, AddFull, AddBlocks
<1> QED
  BY <1>1, <1>2, RingUntouched DEF stopVars

LEMMA TrainerQuiet ==
    ASSUME IInv,
           LoopDraws \/ LoopBreaks \/ DrawWaits \/ DrawBlocks \/ DrawEmpty \/ DrawWakes \/ RunEnds
    PROVE  IInv'
<1>1. TypeOK'
  BY TrainerTypes DEF IInv
<1>2. UNCHANGED <<ringVars, drawVars>> /\ tpc # "copy" /\ tpc' # "copy" /\ (stop => stop')
  BY DEF LoopDraws, LoopBreaks, DrawWaits, DrawBlocks, DrawEmpty, DrawWakes, RunEnds,
         RunStops, RunNotifies, RunPushesSentinels, RunJoins, stopVars
<1> QED
  BY <1>1, <1>2, RingUntouched

LEMMA StopQuiet ==
    ASSUME IInv, StopStep \/ SpuriousWake
    PROVE  IInv'
<1>1. TypeOK'
  BY StopTypes DEF IInv
<1>2. UNCHANGED <<ringVars, drawVars>> /\ (tpc = "copy" <=> tpc' = "copy") /\ (stop => stop')
  BY DEF StopStep, StopFlag, StopBuffer, StopNotifiesConsumer, StopNotifiesProducers,
         SpuriousWake, WakeTrainer, stopVars
<1> QED
  BY <1>1, <1>2, RingUntouched

LEMMA NextOK == IInv /\ [Next]_vars => IInv'
<1> SUFFICES ASSUME IInv, [Next]_vars PROVE IInv'
  OBVIOUS
<1>1. ASSUME NEW p \in Producers, WorkerStep(p) PROVE IInv'
  BY <1>1, WorkerQuiet, AddWritesOK DEF WorkerStep
<1>2. CASE DrawStep
  BY <1>2, TrainerQuiet, DrawPicksOK, DrawEvictsOK DEF DrawStep
<1>3. CASE LoopBreaks \/ RunEnds
  BY <1>3, TrainerQuiet
<1>4. CASE StopStep \/ SpuriousWake
  BY <1>4, StopQuiet
<1>5. CASE UNCHANGED vars
  <2>1. TypeOK'
    BY <1>5 DEF IInv, TypeOK, vars, ringVars, workerVars, drawVars, stopVars, Threads, Slots
  <2> QED
    BY <1>5, <2>1, RingUntouched DEF vars, stopVars
<1> QED
  BY <1>1, <1>2, <1>3, <1>4, <1>5 DEF Next, Flow

LEMMA InvariantHolds == Spec => []IInv
BY InitOK, NextOK, PTL DEF Spec

-----------------------------------------------------------------------------
(* Whatever the capacity, the batch size and samples_per_train that           *)
(* validate_distil() lets through, size_ stays within 0 .. capacity_ and    *)
(* the indices within the ring, in every order of the lock sections of      *)
(* add_batch() and draw_batch() (replay_buffer.h:90-221).                   *)
THEOREM TypeCorrect == Spec => []TypeOK
<1>1. IInv => TypeOK
  BY DEF IInv
<1> QED
  BY InvariantHolds, <1>1, PTL

(* What draw_batch() copies outside the lock is what it picked under it       *)
(* (replay_buffer.h:178-180), although workers append in between.           *)
THEOREM PicksStayLive == Spec => []PicksUntouched
<1>1. IInv => PicksUntouched
  BY DEF IInv
<1> QED
  BY InvariantHolds, <1>1, PTL

(* Eviction is first in, first out: the live window is ordered by age around *)
(* the end of the ring (replay_buffer.h:26).                                *)
THEOREM EvictionIsFIFO == Spec => []OldestFirst
<1>1. IInv => OldestFirst
  BY DEF IInv
<1> QED
  BY InvariantHolds, <1>1, PTL

(* No sample sees more draws than the ring and samples_per_train allow: the   *)
(* fractions carried in eviction_credit_ make up for those cut off          *)
(* (replay_buffer.h:203-207).                                               *)
THEOREM NoSampleOutlivesItsShare == Spec => []LifetimeBound
<1>1. IInv => LifetimeBound
  <2> SUFFICES ASSUME IInv, NEW s \in LiveSlots
               PROVE  (ring[s] - 1) * BatchSize * UsesDen < Capacity * UsesNum
    BY DEF LifetimeBound
  <2> USE BufferAssumption
  <2>1. PICK i \in 0 .. size - 1 : s = Wrap(tail + i)
    BY LiveOffsets
  <2>2. size \in 0 .. Capacity /\ credit \in Nat /\ credit < UsesNum
    BY DEF IInv, TypeOK, AgesOK
  <2>3. Age(i) \in Nat
    <3>1. tail + i \in 0 .. 2 * Capacity - 1
      BY <2>2 DEF IInv, TypeOK, Slots
    <3> QED
      BY <3>1, WrapInSlots DEF Age, IInv, TypeOK
  <2>4. Age(i) * PerDraw <= (Capacity - 1 - i) * UsesNum + credit + PerDraw
    <3>1. Age(i) * PerDraw <= (Capacity - 1 - i) * UsesNum + credit + Pending
      BY DEF IInv, AgesOK
    <3>2. Pending \in 0 .. PerDraw
      BY PerDrawNat DEF Pending
    <3>3. (Capacity - 1 - i) * UsesNum \in Int /\ Age(i) * PerDraw \in Int
      BY <2>2, <2>3, PerDrawNat
    <3> QED
      BY <2>2, <3>1, <3>2, <3>3, PerDrawNat
  <2>5. (Capacity - 1 - i) * UsesNum <= (Capacity - 1) * UsesNum
    BY <2>2, Monotone
  <2>6. (Capacity - 1) * UsesNum = Capacity * UsesNum - 1 * UsesNum
    BY Distributes
  <2>7. (Age(i) - 1) * PerDraw = Age(i) * PerDraw - 1 * PerDraw
    BY <2>3, PerDrawNat, Distributes
  <2>8. (Age(i) - 1) * PerDraw < Capacity * UsesNum
    <3>1. (Capacity - 1 - i) * UsesNum \in Int /\ Age(i) * PerDraw \in Int
          /\ Capacity * UsesNum \in Int
      BY <2>2, <2>3, PerDrawNat
    <3> QED
      BY <2>2, <2>4, <2>5, <2>6, <2>7, <3>1, PerDrawNat
  <2>9. (Age(i) - 1) * PerDraw = (Age(i) - 1) * BatchSize * UsesDen
    BY <2>3 DEF PerDraw
  <2> QED
    BY <2>1, <2>8, <2>9 DEF Age
<1> QED
  BY InvariantHolds, <1>1, PTL

=============================================================================
