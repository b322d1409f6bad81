------------------------- MODULE BatchManagerProofs -------------------------
(***************************************************************************)
(* Proofs about BatchManager for any number of workers, coordinators, games  *)
(* and batches, and any batch size: whatever is pushed is complete, the     *)
(* writers of a batch never touch each other's rows, no batch is in two     *)
(* places, and no game and no batch is lost: the batcher implements the     *)
(* exchange, provided no committer lags behind the reuse of its batch.      *)
(***************************************************************************)
EXTENDS BatchManager, FiniteSetTheorems, SequenceTheorems, TLAPS

(* The worker has a game in hand and rows to ask for.                        *)
Busy   == {"loop", "reserve", "push", "pool", "block", "wait", "install", "return",
           "write", "count"}
(* Control states in which the worker's `batch` is a batch, by what it is.   *)
Holding == {"install", "return", "push", "finish"}
Working == {"write", "count", "decide"}

(* The committed rows of a batch are the reserved ones nobody is writing.    *)
Open(b) == UNION {Rows(offset[w], count[w]) : w \in {v \in Workers : Writing(v, b)}}
Done(b) == (0 .. reserved[b] - 1) \ Open(b)

WorkersOK ==
    \A w \in Workers :
        /\ pc[w] \in Holding \cup Working => batch[w] \in Batches
        /\ pc[w] \in Busy => count[w] \in 1 .. MaxRequests
        /\ pc[w] = "decide" => seen[w] <= committed[batch[w]]
        /\ pc[w] \in Busy /\ pc[w] # "count" => game[w] \in Games
        /\ \A b \in Batches : Writing(w, b) => offset[w] + count[w] <= reserved[b]

CoordinatorsOK ==
    \A c \in Coordinators : cpc[c] \in {"push", "infer", "recycle"} => cbatch[c] \in Batches

WritersApart ==
    \A b \in Batches : \A v, w \in Workers : Writing(v, b) /\ Writing(w, b) /\ v # w
        => Rows(offset[v], count[v]) \cap Rows(offset[w], count[w]) = {}

EntriesApart ==
    \A b \in Batches : \A e \in entries[b] :
        /\ e.start + e.count <= reserved[b]
        /\ \A w \in Workers : Writing(w, b) /\ (pc[w] = "write" \/ e.start # offset[w])
              => Rows(e.start, e.count) \cap Rows(offset[w], count[w]) = {}

Counted == \A b \in Batches : committed[b] = Cardinality(Done(b))

(* The batches in the pool or in the queue, and that each is there once.      *)
Elems(s)    == {s[i] : i \in 1 .. Len(s)}
Distinct(s) == \A i, j \in 1 .. Len(s) : i # j => s[i] # s[j]

(* A batch is claimed from the moment it is complete until it is installed   *)
(* again, and nobody writes into a claimed batch.                           *)
ClaimsOK ==
    /\ active \in Batches => ~claimed[active]
    /\ \A b \in Elems(ready) : claimed[b]
    /\ \A w \in Workers : pc[w] \in {"push", "finish"} => claimed[batch[w]]
    /\ \A c \in Coordinators : cpc[c] \in {"push", "infer", "recycle"} => claimed[cbatch[c]]
    /\ \A w \in Workers, b \in Batches : Writing(w, b) => ~claimed[b]

(* Nobody writes into a batch that is in the pool or a candidate; a worker    *)
(* may still be about to decide on it only if it has been claimed already.  *)
Quiet(b) == \A w \in Workers :
    pc[w] \in Working /\ batch[w] = b => pc[w] = "decide" /\ claimed[b]

PoolQuiet ==
    /\ \A b \in Elems(free) : Quiet(b)
    /\ \A w \in Workers : pc[w] \in {"install", "return"} => Quiet(batch[w])

(* No batch is in two places.  That the active batch is neither queued nor    *)
(* with a coordinator follows from ClaimsOK.                                *)
PoolApart ==
    /\ Distinct(free) /\ Distinct(ready)
    /\ \A b \in Elems(free) : b \notin Elems(ready) /\ b # active

HoldersApart ==
    /\ \A v, w \in Workers : pc[v] \in Holding /\ pc[w] \in Holding /\ v # w
          => batch[v] # batch[w]
    /\ \A w \in Workers : pc[w] \in Holding =>
          batch[w] \notin Elems(free) \cup Elems(ready) \cup {active}

CoordsApart ==
    /\ \A c, d \in Coordinators :
          cpc[c] \in {"push", "infer", "recycle"} /\ cpc[d] \in {"push", "infer", "recycle"}
          /\ c # d => cbatch[c] # cbatch[d]
    /\ \A c \in Coordinators : cpc[c] \in {"push", "infer", "recycle"} =>
          /\ cbatch[c] \notin Elems(free) \cup Elems(ready)
          /\ \A w \in Workers : pc[w] \in Holding => batch[w] # cbatch[c]

Apart == PoolApart /\ HoldersApart /\ CoordsApart

IInv == /\ TypeOK /\ WorkersOK /\ CoordinatorsOK
        /\ WritersApart /\ EntriesApart /\ Counted
        /\ ClaimsOK /\ PoolQuiet /\ Apart
-----------------------------------------------------------------------------
(* Counting rows.                                                           *)

(* The rows being written lie within the reserved ones.                      *)
LEMMA OpenWithinReserved ==
    ASSUME TypeOK, WorkersOK, NEW b \in Batches
    PROVE  Open(b) \subseteq 0 .. reserved[b] - 1
  BY BatchManagerAssumption DEF TypeOK, WorkersOK, Open, Writing, Rows

LEMMA FirstNumbers ==
    ASSUME NEW n \in Nat
    PROVE  IsFiniteSet(0 .. n - 1) /\ Cardinality(0 .. n - 1) = n
<1>1. 0 \in Int /\ n - 1 \in Int
  OBVIOUS
<1>2. /\ IsFiniteSet(0 .. n - 1)
      /\ Cardinality(0 .. n - 1) = IF 0 > n - 1 THEN 0 ELSE (n - 1) - 0 + 1
  BY ONLY <1>1, FS_Interval, Zenon
<1>3. (IF 0 > n - 1 THEN 0 ELSE (n - 1) - 0 + 1) = n
  OBVIOUS
<1> QED BY <1>2, <1>3

(* So the committed rows are a finite set of at most reserved[b] rows, all    *)
(* of them exactly when no worker is writing.                               *)
LEMMA CommittedWithinReserved ==
    ASSUME TypeOK, WorkersOK, Counted, NEW b \in Batches
    PROVE  /\ IsFiniteSet(Done(b))
           /\ committed[b] <= reserved[b]
           /\ committed[b] = reserved[b] <=> \A w \in Workers : ~Writing(w, b)
<1> DEFINE All == 0 .. reserved[b] - 1
<1>1. reserved[b] \in Nat
  BY BatchManagerAssumption DEF TypeOK
<1>2. IsFiniteSet(All) /\ Cardinality(All) = reserved[b]
  BY ONLY <1>1, FirstNumbers
<1>3. Done(b) \in SUBSET All
  BY DEF Done
<1>4. IsFiniteSet(Done(b)) /\ Cardinality(Done(b)) <= reserved[b]
  BY <1>2, <1>3, FS_Subset
<1>5. Cardinality(Done(b)) = reserved[b] <=> Done(b) = All
  BY <1>2, <1>3, FS_Subset
<1>6. Done(b) = All <=> Open(b) = {}
  BY OpenWithinReserved DEF Done
<1>7. Open(b) = {} <=> \A w \in Workers : ~Writing(w, b)
  <2>1. ASSUME NEW w \in Workers, Writing(w, b)
        PROVE  offset[w] \in Open(b)
    <3>1. count[w] \in Nat \ {0} /\ offset[w] \in Nat
      BY <2>1, BatchManagerAssumption DEF TypeOK, WorkersOK, Writing, Busy
    <3>2. offset[w] \in Rows(offset[w], count[w])
      BY <3>1 DEF Rows
    <3> QED
      BY <2>1, <3>2 DEF Open
  <2> QED
    BY <2>1 DEF Open
<1> QED
  BY <1>4, <1>5, <1>6, <1>7 DEF Counted

(* What an action leaves alone: the writers of a batch and its reserved rows. *)
LEMMA DoneUnchanged ==
    ASSUME NEW b \in Batches, reserved'[b] = reserved[b],
           \A w \in Workers : Writing(w, b)' <=> Writing(w, b),
           \A w \in Workers : Writing(w, b) => offset'[w] = offset[w] /\ count'[w] = count[w]
    PROVE  Done(b)' = Done(b)
<1>1. Open(b)' = Open(b)
  BY DEF Open, Rows
<1> QED
  BY <1>1 DEF Done

LEMMA WritersUnchanged ==
    ASSUME IInv, UNCHANGED <<reserved, entries, committed>>,
           \A w \in Workers : pc'[w] \in {"write", "count"} <=> pc[w] \in {"write", "count"},
           \A w \in Workers : pc'[w] = "write" <=> pc[w] = "write",
           \A w \in Workers : pc[w] \in {"write", "count"} =>
              offset'[w] = offset[w] /\ count'[w] = count[w] /\ batch'[w] = batch[w]
    PROVE  WritersApart' /\ EntriesApart' /\ Counted'
<1>1. \A w \in Workers, b \in Batches : Writing(w, b)' <=> Writing(w, b)
  BY DEF Writing
<1>2. \A w \in Workers, b \in Batches : Writing(w, b) =>
         offset'[w] = offset[w] /\ count'[w] = count[w] /\ batch'[w] = batch[w]
  BY DEF Writing
<1>3. \A b \in Batches : Done(b)' = Done(b)
  BY <1>1, <1>2, DoneUnchanged
<1>4. Counted'
  BY <1>3 DEF IInv, Counted
<1>5. WritersApart'
  BY <1>1, <1>2 DEF IInv, WritersApart, Rows
<1>6. EntriesApart'
  BY <1>1, <1>2 DEF IInv, EntriesApart, Rows
<1> QED
  BY <1>4, <1>5, <1>6

-----------------------------------------------------------------------------
(* Most steps only move a thread between control states in which it owns no   *)
(* batch; one lemma covers them all.                                        *)

CoordHolding == {"push", "infer", "recycle"}

Bystander ==
    /\ UNCHANGED <<free, active, ready, reserved, committed, entries, claimed,
                   batch, offset, seen, cbatch>>
    /\ \A w \in Workers :
          \/ pc'[w] = pc[w] /\ count'[w] = count[w] /\ game'[w] = game[w]
          \/ /\ pc[w] \in {"install", "return"} /\ pc'[w] \in {"install", "return"}
             /\ count'[w] = count[w] /\ game'[w] = game[w]
          \/ /\ pc[w] \notin Holding \cup Working /\ pc'[w] \notin Holding \cup Working
             /\ pc'[w] \in Busy => count'[w] \in 1 .. MaxRequests /\ game'[w] \in Games
    /\ \A c \in Coordinators : cpc'[c] \in CoordHolding => cpc[c] \in CoordHolding

LEMMA BystanderPreserves ==
    ASSUME IInv, TypeOK', Bystander
    PROVE  IInv'
<1> USE BatchManagerAssumption DEF Bystander
<1>1. WorkersOK' /\ CoordinatorsOK'
  BY DEF IInv, WorkersOK, CoordinatorsOK, CoordHolding, Busy, Holding, Working, Writing
<1>2. WritersApart' /\ EntriesApart' /\ Counted'
  BY WritersUnchanged DEF Holding, Working
<1>3. ClaimsOK'
  BY DEF IInv, ClaimsOK, Writing, CoordHolding, Holding, Working
<1>4. PoolQuiet'
  BY DEF IInv, PoolQuiet, Quiet, Holding, Working
<1>5. Apart'
  BY DEF IInv, Apart, PoolApart, HoldersApart, CoordsApart, Holding, CoordHolding, Working
<1> QED
  BY <1>1, <1>2, <1>3, <1>4, <1>5 DEF IInv

LEMMA WorkerMovesPreserve ==
    ASSUME IInv, NEW w \in Workers,
           \/ TakeGame(w) \/ TakeSentinel(w) \/ ReserveLoop(w) \/ ReserveNoActive(w)
           \/ PoolShutDown(w) \/ PoolEmpty(w) \/ PoolBlock(w) \/ SpuriousWake(w)
           \/ InstallRaced(w)
    PROVE  IInv'
<1> USE BatchManagerAssumption DEF Goto, batchVars, coordVars
<1>1. TypeOK'
  <2>1. CASE TakeGame(w)
    BY <2>1 DEF TakeGame, IInv, TypeOK, WorkerPCs
  <2>2. CASE TakeSentinel(w)
    BY <2>2 DEF TakeSentinel, IInv, TypeOK, WorkerPCs
  <2>3. CASE ReserveLoop(w)
    BY <2>3 DEF ReserveLoop, IInv, TypeOK, WorkerPCs
  <2>4. CASE ReserveNoActive(w)
    BY <2>4 DEF ReserveNoActive, IInv, TypeOK, WorkerPCs
  <2>5. CASE PoolShutDown(w)
    BY <2>5 DEF PoolShutDown, IInv, TypeOK, WorkerPCs
  <2>6. CASE PoolEmpty(w)
    BY <2>6 DEF PoolEmpty, IInv, TypeOK, WorkerPCs
  <2>7. CASE PoolBlock(w)
    BY <2>7 DEF PoolBlock, IInv, TypeOK, WorkerPCs
  <2>8. CASE SpuriousWake(w)
    BY <2>8 DEF SpuriousWake, IInv, TypeOK, WorkerPCs
  <2>9. CASE InstallRaced(w)
    BY <2>9 DEF InstallRaced, IInv, TypeOK, WorkerPCs
  <2> QED
    BY <2>1, <2>2, <2>3, <2>4, <2>5, <2>6, <2>7, <2>8, <2>9
<1>2. Bystander
  BY DEF TakeGame, TakeSentinel, ReserveLoop, ReserveNoActive, PoolShutDown, PoolEmpty,
         PoolBlock, SpuriousWake, InstallRaced,
         IInv, TypeOK, WorkersOK, Bystander, Busy, Holding, Working, CoordHolding
<1> QED
  BY <1>1, <1>2, BystanderPreserves

LEMMA CoordinatorMovesPreserve ==
    ASSUME IInv, NEW c \in Coordinators,
           CoordTop(c) \/ PopShutDown(c) \/ InferAndDeliver(c)
    PROVE  IInv'
<1> USE BatchManagerAssumption DEF batchVars, workerVars
<1>1. TypeOK'
  <2>1. CASE CoordTop(c)
    BY <2>1 DEF CoordTop, IInv, TypeOK, CoordPCs
  <2>2. CASE PopShutDown(c)
    BY <2>2 DEF PopShutDown, IInv, TypeOK, CoordPCs
  <2>3. CASE InferAndDeliver(c)
    <3>1. cbatch[c] \in Batches
      BY <2>3 DEF InferAndDeliver, IInv, CoordinatorsOK
    <3>2. Answered(cbatch[c]) \subseteq Games
      BY <3>1 DEF Answered, Entry, IInv, TypeOK
    <3> QED
      BY <2>3, <3>2 DEF InferAndDeliver, IInv, TypeOK, CoordPCs
  <2> QED
    BY <2>1, <2>2, <2>3
<1>2. Bystander
  BY DEF CoordTop, PopShutDown, InferAndDeliver, IInv, TypeOK, Bystander, WorkersOK, CoordHolding
<1> QED
  BY <1>1, <1>2, BystanderPreserves

LEMMA StopPreserves ==
    ASSUME IInv, Stop \/ UNCHANGED vars
    PROVE  IInv'
<1> USE BatchManagerAssumption DEF Stop, StopSignal, StopFlag, StopNotify, vars,
        batchVars, workerVars, coordVars
<1>1. TypeOK'
  BY DEF IInv, TypeOK, Stages, WorkerPCs
<1>2. Bystander
  BY DEF IInv, TypeOK, Bystander, WorkersOK, Busy, Holding, Working, CoordHolding
<1> QED
  BY <1>1, <1>2, BystanderPreserves
-----------------------------------------------------------------------------
(* The queue, the pool and the condition variable.                          *)

LEMMA AppendFacts ==
    ASSUME NEW s \in Seq(Batches), NEW b \in Batches
    PROVE  /\ Append(s, b) \in Seq(Batches)
           /\ Elems(Append(s, b)) = Elems(s) \cup {b}
           /\ Distinct(s) /\ b \notin Elems(s) => Distinct(Append(s, b))
<1> DEFINE t == Append(s, b)
<1>1. /\ t \in Seq(Batches)
      /\ Len(t) = Len(s) + 1 /\ Len(s) \in Nat
      /\ \A i \in 1 .. Len(s) : t[i] = s[i]
      /\ t[Len(s) + 1] = b
  OBVIOUS
<1> HIDE DEF t
<1>2. Elems(t) = Elems(s) \cup {b}
  <2>1. \A i \in 1 .. Len(t) : i \in 1 .. Len(s) \/ i = Len(s) + 1
    BY <1>1
  <2>2. \A i \in 1 .. Len(s) : i \in 1 .. Len(t)
    BY <1>1
  <2>3. Len(s) + 1 \in 1 .. Len(t)
    BY <1>1
  <2> QED
    BY <1>1, <2>1, <2>2, <2>3 DEF Elems
<1>3. Distinct(s) /\ b \notin Elems(s) => Distinct(t)
  BY <1>1 DEF Distinct, Elems
<1> QED
  BY <1>1, <1>2, <1>3 DEF t

LEMMA ElemsAreBatches ==
    ASSUME NEW s \in Seq(Batches)
    PROVE  Elems(s) \subseteq Batches
  BY ElementOfSeq DEF Elems

LEMMA TailFacts ==
    ASSUME NEW s \in Seq(Batches), s # << >>
    PROVE  /\ Tail(s) \in Seq(Batches) /\ Head(s) \in Batches
           /\ Head(s) \in Elems(s)
           /\ Distinct(s) => Elems(Tail(s)) = Elems(s) \ {Head(s)} /\ Distinct(Tail(s))
<1> DEFINE t == Tail(s)
<1>1. /\ t \in Seq(Batches)
      /\ Len(s) \in Nat \ {0} /\ Len(t) = Len(s) - 1
      /\ \A i \in 1 .. Len(t) : t[i] = s[i + 1]
      /\ Head(s) = s[1] /\ Head(s) \in Batches
  BY HeadTailProperties, EmptySeq
<1> HIDE DEF t
<1>2. Head(s) \in Elems(s)
  BY <1>1 DEF Elems
<1>3. ASSUME Distinct(s)
      PROVE  Elems(t) = Elems(s) \ {Head(s)}
  <2>1. \A i \in 1 .. Len(t) : t[i] \in Elems(s) \ {Head(s)}
    BY <1>1, <1>3 DEF Elems, Distinct
  <2>2. \A i \in 1 .. Len(s) : i = 1 \/ (i - 1 \in 1 .. Len(t) /\ t[i - 1] = s[i])
    BY <1>1
  <2> QED
    BY <1>1, <2>1, <2>2 DEF Elems
<1>4. Distinct(s) => Distinct(t)
  BY <1>1 DEF Distinct
<1> QED
  BY <1>1, <1>2, <1>3, <1>4 DEF t

LEMMA PopFacts ==
    ASSUME NEW s \in Seq(Batches), s # << >>
    PROVE  LET f == SubSeq(s, 1, Len(s) - 1)
               top == s[Len(s)]
           IN  /\ f \in Seq(Batches) /\ top \in Batches
               /\ top \in Elems(s)
               /\ Distinct(s) => Elems(f) = Elems(s) \ {top} /\ Distinct(f)
<1> DEFINE f == SubSeq(s, 1, Len(s) - 1)
           top == s[Len(s)]
<1>1. Len(s) \in Nat \ {0} /\ \A i \in 1 .. Len(s) : s[i] \in Batches
  BY EmptySeq, ElementOfSeq
<1>2. Len(s) - 1 \in Nat /\ \A i \in 1 .. Len(s) - 1 : s[i] \in Batches
  BY <1>1
<1>3. f \in Seq(Batches) /\ \A i \in 1 .. Len(s) - 1 : f[i] = s[i]
  <2>1. \A i \in 1 .. Len(s) - 1 : i \in 1 .. Len(s) - 1 - 1 + 1 /\ 1 + i - 1 = i
    BY <1>2
  <2> QED
    BY <1>2, <2>1, SubSeqProperties
<1>4. Len(f) = Len(s) - 1
  <2>1. PICK n \in Nat : n = Len(s) - 1
    BY <1>2
  <2>2. f = SubSeq(s, 1, n) /\ \A i \in 1 .. n : s[i] \in Batches
    BY <1>2, <2>1
  <2> HIDE DEF f
  <2>3. Len(f) = IF 1 <= n THEN n - 1 + 1 ELSE 0
    BY <2>2, SubSeqProperties
  <2>4. Len(f) = n
    BY <2>3
  <2> QED
    BY <2>1, <2>4
<1> HIDE DEF f
<1>5. top \in Elems(s) /\ top \in Batches
  BY <1>1 DEF Elems
<1>6. ASSUME Distinct(s)
      PROVE  Elems(f) = Elems(s) \ {top}
  <2>1. \A i \in 1 .. Len(f) : f[i] \in Elems(s) \ {top}
    BY <1>1, <1>3, <1>4, <1>6 DEF Elems, Distinct
  <2>2. \A i \in 1 .. Len(s) : i = Len(s) \/ (i \in 1 .. Len(f) /\ f[i] = s[i])
    BY <1>1, <1>3, <1>4
  <2> QED
    BY <1>1, <2>1, <2>2 DEF Elems
<1>7. Distinct(s) => Distinct(f)
  BY <1>1, <1>3, <1>4 DEF Distinct
<1> QED
  BY <1>3, <1>5, <1>6, <1>7 DEF f

(* A notification moves at most one blocked worker, and moves it to "pool".   *)
LEMMA NotifiedFacts ==
    ASSUME NEW p \in [Workers -> WorkerPCs], NEW q \in Notified(p)
    PROVE  /\ q \in [Workers -> WorkerPCs]
           /\ \A w \in Workers : q[w] = p[w] \/ (p[w] = "wait" /\ q[w] = "pool")
  BY DEF Notified, WorkerPCs

-----------------------------------------------------------------------------
(* The steps that move a batch.                                             *)

LEMMA PoolTakePreserves ==
    ASSUME IInv, NEW w \in Workers, PoolTake(w)
    PROVE  IInv'
<1> USE BatchManagerAssumption DEF Goto, coordVars
<1>1. /\ free' \in Seq(Batches) /\ batch'[w] \in Elems(free) /\ batch'[w] \in Batches
      /\ Elems(free') = Elems(free) \ {batch'[w]} /\ Distinct(free')
  BY PopFacts DEF PoolTake, IInv, TypeOK, Apart, PoolApart, HoldersApart, CoordsApart
<1>2. TypeOK'
  BY <1>1 DEF PoolTake, IInv, TypeOK, WorkerPCs
<1>3. /\ UNCHANGED <<active, ready, reserved, committed, entries, claimed, count, offset,
                    seen, game, cpc, cbatch>>
      /\ pc[w] = "pool" /\ pc'[w] = "install"
      /\ \A v \in Workers \ {w} : pc'[v] = pc[v] /\ batch'[v] = batch[v]
  BY DEF PoolTake, IInv, TypeOK
<1>4. WorkersOK' /\ CoordinatorsOK'
  BY <1>1, <1>3 DEF IInv, WorkersOK, CoordinatorsOK, Busy, Holding, Working, Writing
<1>5. WritersApart' /\ EntriesApart' /\ Counted'
  BY <1>3, WritersUnchanged
<1>6. ClaimsOK'
  BY <1>3 DEF IInv, ClaimsOK, Writing
<1>7. PoolQuiet'
  BY <1>1, <1>3 DEF IInv, PoolQuiet, Quiet, Working
<1>8. Apart'
  BY <1>1, <1>3 DEF IInv, Apart, PoolApart, HoldersApart, CoordsApart, Holding
<1> QED
  BY <1>2, <1>4, <1>5, <1>6, <1>7, <1>8 DEF IInv

LEMMA ReturnCandidatePreserves ==
    ASSUME IInv, NEW w \in Workers, ReturnCandidate(w)
    PROVE  IInv'
<1> USE BatchManagerAssumption DEF coordVars
<1>1. batch[w] \in Batches /\ pc[w] = "return" /\ count[w] \in 1 .. MaxRequests
  BY DEF ReturnCandidate, IInv, WorkersOK, Holding, Busy
<1>2. /\ free' \in Seq(Batches)
      /\ Elems(free') = Elems(free) \cup {batch[w]} /\ Distinct(free')
  BY <1>1, AppendFacts DEF ReturnCandidate, IInv, TypeOK, Apart, PoolApart, HoldersApart, CoordsApart, Holding
<1>3. /\ pc' \in [Workers -> WorkerPCs] /\ pc'[w] = "loop"
      /\ \A v \in Workers \ {w} : pc'[v] = pc[v] \/ (pc[v] = "wait" /\ pc'[v] = "pool")
  <2> DEFINE p == [pc EXCEPT ![w] = "loop"]
  <2>1. p \in [Workers -> WorkerPCs] /\ p[w] = "loop" /\ \A v \in Workers \ {w} : p[v] = pc[v]
    BY DEF IInv, TypeOK, WorkerPCs
  <2>2. pc' \in Notified(p)
    BY DEF ReturnCandidate
  <2> HIDE DEF p
  <2> QED
    BY <2>1, <2>2, NotifiedFacts
<1>4. TypeOK'
  BY <1>2, <1>3 DEF ReturnCandidate, IInv, TypeOK
<1>5. /\ UNCHANGED <<active, ready, reserved, committed, entries, claimed, count, offset,
                    seen, game, cpc, cbatch>>
      /\ \A v \in Workers \ {w} : batch'[v] = batch[v]
  BY DEF ReturnCandidate, IInv, TypeOK
<1>6. WorkersOK' /\ CoordinatorsOK'
  BY <1>1, <1>3, <1>5 DEF IInv, WorkersOK, CoordinatorsOK, Busy, Holding, Working, Writing
<1>7. WritersApart' /\ EntriesApart' /\ Counted'
  BY <1>1, <1>3, <1>5, WritersUnchanged
<1>8. ClaimsOK'
  BY <1>1, <1>3, <1>5 DEF IInv, ClaimsOK, Writing
<1>9. PoolQuiet'
  BY <1>1, <1>2, <1>3, <1>5 DEF IInv, PoolQuiet, Quiet, Working
<1>10. Apart'
  BY <1>1, <1>2, <1>3, <1>5 DEF IInv, Apart, PoolApart, HoldersApart, CoordsApart, Holding
<1> QED
  BY <1>4, <1>6, <1>7, <1>8, <1>9, <1>10 DEF IInv

LEMMA PushesPreserve ==
    ASSUME IInv, NEW w \in Workers, ReservePush(w) \/ CommitPush(w)
    PROVE  IInv'
<1> USE BatchManagerAssumption DEF Goto, coordVars
<1>1. /\ batch[w] \in Batches /\ pc[w] \in {"push", "finish"}
      /\ ready' = Append(ready, batch[w])
      /\ pc' = [pc EXCEPT ![w] = IF pc[w] = "push" THEN "pool" ELSE "idle"]
      /\ batch' = [batch EXCEPT ![w] = NoBatch]
      /\ UNCHANGED <<free, active, reserved, committed, entries, claimed, poolMtx, stage,
                    available, count, offset, seen, game, cpc, cbatch>>
  BY DEF ReservePush, CommitPush, IInv, WorkersOK, Holding
<1>2. /\ ready' \in Seq(Batches)
      /\ Elems(ready') = Elems(ready) \cup {batch[w]} /\ Distinct(ready')
  BY <1>1, AppendFacts DEF IInv, TypeOK, Apart, PoolApart, HoldersApart, CoordsApart, Holding
<1>3. TypeOK'
  BY <1>1, <1>2 DEF IInv, TypeOK, WorkerPCs
<1>4. /\ pc'[w] \in {"pool", "idle"} /\ (pc'[w] = "pool" => pc[w] = "push")
      /\ \A v \in Workers \ {w} : pc'[v] = pc[v] /\ batch'[v] = batch[v]
  BY <1>1 DEF IInv, TypeOK
<1>5. WorkersOK' /\ CoordinatorsOK'
  BY <1>1, <1>4 DEF IInv, WorkersOK, CoordinatorsOK, Busy, Holding, Working, Writing
<1>6. WritersApart' /\ EntriesApart' /\ Counted'
  BY <1>1, <1>4, WritersUnchanged
<1>7. ClaimsOK'
  BY <1>1, <1>2, <1>4 DEF IInv, ClaimsOK, Writing
<1>8. PoolQuiet'
  BY <1>1, <1>4 DEF IInv, PoolQuiet, Quiet, Working
<1>9. Apart'
  BY <1>1, <1>2, <1>4 DEF IInv, Apart, PoolApart, HoldersApart, CoordsApart, Holding
<1> QED
  BY <1>3, <1>5, <1>6, <1>7, <1>8, <1>9 DEF IInv

LEMMA PopReadyPreserves ==
    ASSUME IInv, NEW c \in Coordinators, PopReady(c)
    PROVE  IInv'
<1> USE BatchManagerAssumption DEF workerVars
<1>1. /\ ready' \in Seq(Batches) /\ cbatch'[c] \in Elems(ready) /\ cbatch'[c] \in Batches
      /\ Elems(ready') = Elems(ready) \ {cbatch'[c]} /\ Distinct(ready')
  BY TailFacts DEF PopReady, IInv, TypeOK, Apart, PoolApart, HoldersApart, CoordsApart
<1>2. TypeOK'
  BY <1>1 DEF PopReady, IInv, TypeOK, CoordPCs
<1>3. /\ UNCHANGED <<free, active, reserved, committed, entries, claimed, pc, game, count,
                    batch, offset, seen>>
      /\ cpc[c] = "pop" /\ cpc'[c] = "infer"
      /\ \A d \in Coordinators \ {c} : cpc'[d] = cpc[d] /\ cbatch'[d] = cbatch[d]
  BY DEF PopReady, IInv, TypeOK
<1>4. WorkersOK' /\ CoordinatorsOK'
  BY <1>1, <1>3 DEF IInv, WorkersOK, CoordinatorsOK, Writing
<1>5. WritersApart' /\ EntriesApart' /\ Counted'
  BY <1>3, WritersUnchanged
<1>6. ClaimsOK'
  BY <1>1, <1>3 DEF IInv, ClaimsOK, Writing
<1>7. PoolQuiet'
  BY <1>3 DEF IInv, PoolQuiet, Quiet
<1>8. Apart'
  BY <1>1, <1>3 DEF IInv, Apart, PoolApart, HoldersApart, CoordsApart
<1> QED
  BY <1>2, <1>4, <1>5, <1>6, <1>7, <1>8 DEF IInv

LEMMA PushFlushedAndPopPreserves ==
    ASSUME IInv, NEW c \in Coordinators, PushFlushedAndPop(c)
    PROVE  IInv'
<1> USE BatchManagerAssumption DEF workerVars
<1> DEFINE q == Append(ready, cbatch[c])
<1>1. cbatch[c] \in Batches /\ cpc[c] = "push"
  BY DEF PushFlushedAndPop, IInv, CoordinatorsOK
<1>2. q \in Seq(Batches) /\ Elems(q) = Elems(ready) \cup {cbatch[c]} /\ Distinct(q)
  BY <1>1, AppendFacts DEF IInv, TypeOK, Apart, PoolApart, HoldersApart, CoordsApart
<1>3. q # << >>
  BY <1>2, EmptySeq DEF Elems
<1>4. ready' = Tail(q) /\ cbatch' = [cbatch EXCEPT ![c] = Head(q)]
  BY DEF PushFlushedAndPop
<1> HIDE DEF q
<1>5. /\ ready' \in Seq(Batches) /\ cbatch'[c] \in Elems(q) /\ cbatch'[c] \in Batches
      /\ Elems(ready') = Elems(q) \ {cbatch'[c]} /\ Distinct(ready')
  BY <1>2, <1>3, <1>4, TailFacts DEF IInv, TypeOK
<1>6. TypeOK'
  BY <1>4, <1>5 DEF PushFlushedAndPop, IInv, TypeOK, CoordPCs
<1>7. /\ UNCHANGED <<free, active, reserved, committed, entries, claimed, pc, game, count,
                    batch, offset, seen>>
      /\ cpc'[c] = "infer"
      /\ \A d \in Coordinators \ {c} : cpc'[d] = cpc[d] /\ cbatch'[d] = cbatch[d]
  BY DEF PushFlushedAndPop, IInv, TypeOK
<1>8. WorkersOK' /\ CoordinatorsOK'
  BY <1>5, <1>7 DEF IInv, WorkersOK, CoordinatorsOK, Writing
<1>9. WritersApart' /\ EntriesApart' /\ Counted'
  BY <1>7, WritersUnchanged
<1>10. ClaimsOK'
  BY <1>1, <1>2, <1>5, <1>7 DEF IInv, ClaimsOK, Writing
<1>11. PoolQuiet'
  BY <1>7 DEF IInv, PoolQuiet, Quiet
<1>12. Apart'
  BY <1>1, <1>2, <1>5, <1>7 DEF IInv, Apart, PoolApart, HoldersApart, CoordsApart
<1> QED
  BY <1>6, <1>8, <1>9, <1>10, <1>11, <1>12 DEF IInv

LEMMA RecyclePreserves ==
    ASSUME IInv, NEW c \in Coordinators, Recycle(c)
    PROVE  IInv'
<1> USE BatchManagerAssumption
<1>1. cbatch[c] \in Batches /\ cpc[c] = "recycle" /\ claimed[cbatch[c]]
  BY DEF Recycle, IInv, CoordinatorsOK, ClaimsOK
<1>2. /\ free' \in Seq(Batches)
      /\ Elems(free') = Elems(free) \cup {cbatch[c]} /\ Distinct(free')
  BY <1>1, AppendFacts DEF Recycle, IInv, TypeOK, Apart, PoolApart, HoldersApart, CoordsApart
<1>3. /\ pc' \in [Workers -> WorkerPCs]
      /\ \A v \in Workers : pc'[v] = pc[v] \/ (pc[v] = "wait" /\ pc'[v] = "pool")
  BY NotifiedFacts DEF Recycle, IInv, TypeOK
<1>4. TypeOK'
  BY <1>2, <1>3 DEF Recycle, IInv, TypeOK, CoordPCs
<1>5. /\ UNCHANGED <<active, ready, reserved, committed, entries, claimed, count, offset,
                    seen, game, batch>>
      /\ cpc'[c] = "top"
      /\ \A d \in Coordinators \ {c} : cpc'[d] = cpc[d] /\ cbatch'[d] = cbatch[d]
  BY DEF Recycle, IInv, TypeOK
<1>6. WorkersOK' /\ CoordinatorsOK'
  BY <1>3, <1>5 DEF IInv, WorkersOK, CoordinatorsOK, Busy, Holding, Working, Writing
<1>7. WritersApart' /\ EntriesApart' /\ Counted'
  BY <1>3, <1>5, WritersUnchanged
<1>8. ClaimsOK'
  BY <1>3, <1>5 DEF IInv, ClaimsOK, Writing
<1>9. PoolQuiet'
  <2>1. Quiet(cbatch[c])
    BY <1>1 DEF IInv, ClaimsOK, Quiet, Writing, Working
  <2> QED
    BY <1>2, <1>3, <1>5, <2>1 DEF IInv, PoolQuiet, Quiet, Working
<1>10. Apart'
  <2>1. cbatch[c] # active
    BY <1>1 DEF IInv, ClaimsOK
  <2>2. cbatch[c] \notin Elems(ready) /\ \A w \in Workers : pc[w] \in Holding => batch[w] # cbatch[c]
    BY <1>1 DEF IInv, Apart, CoordsApart
  <2>3. PoolApart'
    BY <1>2, <1>5, <2>1, <2>2 DEF IInv, Apart, PoolApart
  <2>4. HoldersApart'
    BY <1>2, <1>3, <1>5, <2>2 DEF IInv, Apart, HoldersApart, Holding
  <2>5. CoordsApart'
    BY <1>1, <1>2, <1>3, <1>5 DEF IInv, Apart, CoordsApart, Holding
  <2> QED
    BY <2>3, <2>4, <2>5 DEF Apart
<1> QED
  BY <1>4, <1>6, <1>7, <1>8, <1>9, <1>10 DEF IInv

(* Detaching the active batch: when the caller gets it, it is complete.       *)
LEMMA FlushFacts ==
    ASSUME IInv, active # NoBatch, FlushGivesBatch
    PROVE  \A w \in Workers : ~Writing(w, active)
  BY CommittedWithinReserved DEF IInv, TypeOK, FlushGivesBatch

LEMMA ReserveFlushPreserves ==
    ASSUME IInv, NEW w \in Workers, ReserveFlush(w)
    PROVE  IInv'
<1> USE BatchManagerAssumption DEF Goto, coordVars
<1>1. /\ active \in Batches /\ ~claimed[active] /\ active' = NoBatch
      /\ pc[w] = "reserve" /\ count[w] \in 1 .. MaxRequests
      /\ UNCHANGED <<free, ready, reserved, committed, entries, count, offset, seen, game,
                    cpc, cbatch>>
      /\ \A v \in Workers \ {w} : pc'[v] = pc[v] /\ batch'[v] = batch[v]
  BY DEF ReserveFlush, Flush, IInv, TypeOK, ClaimsOK, WorkersOK, Busy
<1>2. active \notin Elems(free) /\ active \notin Elems(ready)
      /\ NoBatch \notin Elems(free) /\ NoBatch \notin Elems(ready)
  BY <1>1, ElemsAreBatches DEF IInv, TypeOK, ClaimsOK, Apart, PoolApart
<1>3. \A v \in Workers : pc[v] \in Holding => batch[v] \in Batches /\ batch[v] # active
  BY DEF IInv, WorkersOK, Apart, HoldersApart
<1>4. \A c \in Coordinators : cpc[c] \in {"push", "infer", "recycle"} =>
         cbatch[c] \in Batches /\ cbatch[c] # active
  BY <1>1 DEF IInv, CoordinatorsOK, ClaimsOK
<1>5. CASE FlushGivesBatch
  <2>1. /\ pc'[w] = "push" /\ batch'[w] = active /\ claimed'[active]
        /\ \A b \in Batches \ {active} : claimed'[b] = claimed[b]
    BY <1>5, <1>1 DEF ReserveFlush, Flush, IInv, TypeOK
  <2>2. \A v \in Workers : ~Writing(v, active)
    BY <1>1, <1>5, FlushFacts
  <2>3. TypeOK'
    BY <1>1, <1>5 DEF ReserveFlush, Flush, IInv, TypeOK, WorkerPCs
  <2>4. WorkersOK' /\ CoordinatorsOK'
    BY <1>1, <2>1 DEF IInv, WorkersOK, CoordinatorsOK, Busy, Holding, Working, Writing
  <2>5. WritersApart' /\ EntriesApart' /\ Counted'
    BY <1>1, <2>1, WritersUnchanged
  <2>6. ClaimsOK'
    <3>1. \A v \in Workers, b \in Batches : Writing(v, b)' => ~claimed'[b]
      BY <1>1, <2>1, <2>2 DEF IInv, ClaimsOK, Writing
    <3>2. \A v \in Workers : pc'[v] \in {"push", "finish"} => claimed'[batch'[v]]
      BY <1>1, <1>3, <2>1 DEF IInv, ClaimsOK, Holding
    <3>3. \A c \in Coordinators : cpc'[c] \in {"push", "infer", "recycle"} => claimed'[cbatch'[c]]
      BY <1>1, <1>4, <2>1 DEF IInv, ClaimsOK
    <3>4. \A b \in Elems(ready') : claimed'[b]
      BY <1>1, <1>2, <2>1, ElemsAreBatches DEF IInv, TypeOK, ClaimsOK
    <3> QED
      BY <1>1, <3>1, <3>2, <3>3, <3>4 DEF ClaimsOK
  <2>7. PoolQuiet'
    <3>1. \A b \in Elems(free) : b \in Batches /\ b # active
      BY <1>2, ElemsAreBatches DEF IInv, TypeOK
    <3>2. ASSUME NEW b \in Elems(free)
          PROVE  Quiet(b)'
      BY <1>1, <2>1, <3>1 DEF IInv, PoolQuiet, Quiet, Working
    <3>3. ASSUME NEW v \in Workers, pc'[v] \in {"install", "return"}
          PROVE  Quiet(batch[v])'
      BY <1>1, <1>3, <2>1, <3>3 DEF IInv, PoolQuiet, Quiet, Working, Holding
    <3> QED
      BY <1>1, <3>2, <3>3 DEF PoolQuiet
  <2>8. PoolApart'
    BY <1>1, <1>2 DEF IInv, Apart, PoolApart
  <2>9. HoldersApart'
    BY <1>1, <1>2, <1>3, <2>1 DEF IInv, Apart, HoldersApart, Holding
  <2>10. CoordsApart'
    BY <1>1, <1>4, <2>1 DEF IInv, Apart, CoordsApart, Holding
  <2> QED
    BY <2>3, <2>4, <2>5, <2>6, <2>7, <2>8, <2>9, <2>10 DEF IInv, Apart
<1>6. CASE ~FlushGivesBatch
  <2>1. pc'[w] = "pool" /\ batch'[w] = batch[w] /\ claimed' = claimed
    BY <1>6, <1>1 DEF ReserveFlush, Flush, IInv, TypeOK
  <2>2. TypeOK'
    BY <1>1, <1>6 DEF ReserveFlush, Flush, IInv, TypeOK, WorkerPCs
  <2>3. WorkersOK' /\ CoordinatorsOK'
    BY <1>1, <2>1 DEF IInv, WorkersOK, CoordinatorsOK, Busy, Holding, Working, Writing
  <2>4. WritersApart' /\ EntriesApart' /\ Counted'
    BY <1>1, <2>1, WritersUnchanged
  <2>5. ClaimsOK'
    BY <1>1, <2>1 DEF IInv, ClaimsOK, Writing
  <2>6. PoolQuiet'
    BY <1>1, <2>1 DEF IInv, PoolQuiet, Quiet, Working
  <2>7. PoolApart'
    BY <1>1, <1>2 DEF IInv, Apart, PoolApart
  <2>8. HoldersApart'
    BY <1>1, <1>2, <1>3, <2>1 DEF IInv, Apart, HoldersApart, Holding
  <2>9. CoordsApart'
    BY <1>1, <1>4, <2>1 DEF IInv, Apart, CoordsApart, Holding
  <2> QED
    BY <2>2, <2>3, <2>4, <2>5, <2>6, <2>7, <2>8, <2>9 DEF IInv, Apart
<1> QED
  BY <1>5, <1>6

LEMMA TimeoutFlushPreserves ==
    ASSUME IInv, NEW c \in Coordinators, TimeoutFlush(c)
    PROVE  IInv'
<1> USE BatchManagerAssumption DEF workerVars, coordVars
<1>1. /\ active \in Batches /\ active # NoBatch /\ ~claimed[active] /\ active' = NoBatch
      /\ cpc[c] = "pop"
      /\ UNCHANGED <<free, ready, reserved, committed, entries, pc, batch, count, offset,
                    seen, game>>
      /\ \A d \in Coordinators \ {c} : cpc'[d] = cpc[d] /\ cbatch'[d] = cbatch[d]
  BY DEF TimeoutFlush, Flush, IInv, TypeOK, ClaimsOK
<1>2. active \notin Elems(free) /\ active \notin Elems(ready)
      /\ NoBatch \notin Elems(free) /\ NoBatch \notin Elems(ready)
  BY <1>1, ElemsAreBatches DEF IInv, TypeOK, ClaimsOK, Apart, PoolApart
<1>3. \A v \in Workers : pc[v] \in Holding => batch[v] \in Batches /\ batch[v] # active
  BY DEF IInv, WorkersOK, Apart, HoldersApart
<1>4. \A d \in Coordinators : cpc[d] \in {"push", "infer", "recycle"} =>
         cbatch[d] \in Batches /\ cbatch[d] # active
  BY <1>1 DEF IInv, CoordinatorsOK, ClaimsOK
<1>5. WorkersOK' /\ WritersApart' /\ EntriesApart' /\ Counted'
  BY <1>1, WritersUnchanged DEF IInv, WorkersOK, Writing
<1>6. PoolApart' /\ HoldersApart'
  BY <1>1, <1>2, <1>3 DEF IInv, Apart, PoolApart, HoldersApart
<1>7. CASE FlushGivesBatch
  <2>1. /\ cpc'[c] = "push" /\ cbatch'[c] = active /\ claimed'[active]
        /\ \A b \in Batches \ {active} : claimed'[b] = claimed[b]
    BY <1>7, <1>1 DEF TimeoutFlush, Flush, IInv, TypeOK
  <2>2. \A v \in Workers : ~Writing(v, active)
    BY <1>1, <1>7, FlushFacts
  <2>3. TypeOK'
    <3>1. /\ claimed' = [claimed EXCEPT ![active] = TRUE]
          /\ cbatch' = [cbatch EXCEPT ![c] = active] /\ cpc' = [cpc EXCEPT ![c] = "push"]
          /\ UNCHANGED <<stage, available, poolMtx>>
      BY <1>7 DEF TimeoutFlush, Flush
    <3> QED
      BY <1>1, <3>1 DEF IInv, TypeOK, CoordPCs
  <2>4. CoordinatorsOK'
    BY <1>1, <2>1 DEF IInv, CoordinatorsOK
  <2>5. ClaimsOK'
    <3>1. \A v \in Workers, b \in Batches : Writing(v, b)' => ~claimed'[b]
      BY <1>1, <2>1, <2>2 DEF IInv, ClaimsOK, Writing
    <3>2. \A v \in Workers : pc'[v] \in {"push", "finish"} => claimed'[batch'[v]]
      BY <1>1, <1>3, <2>1 DEF IInv, ClaimsOK, Holding
    <3>3. \A d \in Coordinators : cpc'[d] \in {"push", "infer", "recycle"} => claimed'[cbatch'[d]]
      BY <1>1, <1>4, <2>1 DEF IInv, ClaimsOK
    <3>4. \A b \in Elems(ready') : claimed'[b]
      BY <1>1, <1>2, <2>1, ElemsAreBatches DEF IInv, TypeOK, ClaimsOK
    <3> QED
      BY <1>1, <3>1, <3>2, <3>3, <3>4 DEF ClaimsOK
  <2>6. PoolQuiet'
    <3>1. \A b \in Elems(free) : b \in Batches /\ b # active
      BY <1>2, ElemsAreBatches DEF IInv, TypeOK
    <3>2. ASSUME NEW b \in Elems(free)
          PROVE  Quiet(b)'
      BY <1>1, <2>1, <3>1 DEF IInv, PoolQuiet, Quiet, Working
    <3>3. ASSUME NEW v \in Workers, pc'[v] \in {"install", "return"}
          PROVE  Quiet(batch[v])'
      BY <1>1, <1>3, <2>1, <3>3 DEF IInv, PoolQuiet, Quiet, Working, Holding
    <3> QED
      BY <1>1, <3>2, <3>3 DEF PoolQuiet
  <2>7. CoordsApart'
    BY <1>1, <1>2, <1>3, <1>4, <2>1 DEF IInv, Apart, CoordsApart
  <2> QED
    BY <1>5, <1>6, <2>3, <2>4, <2>5, <2>6, <2>7 DEF IInv, Apart
<1>8. CASE ~FlushGivesBatch
  <2>1. claimed' = claimed /\ UNCHANGED <<cpc, cbatch>>
    BY <1>8 DEF TimeoutFlush, Flush
  <2>2. TypeOK'
    BY <1>1, <2>1 DEF TimeoutFlush, IInv, TypeOK
  <2>3. CoordinatorsOK' /\ ClaimsOK' /\ PoolQuiet' /\ CoordsApart'
    BY <1>1, <2>1 DEF IInv, CoordinatorsOK, ClaimsOK, Writing, PoolQuiet, Quiet, Apart, CoordsApart
  <2> QED
    BY <1>5, <1>6, <2>2, <2>3 DEF IInv, Apart
<1> QED
  BY <1>7, <1>8

(* A reservation takes the next rows of the active batch.                     *)
LEMMA ReserveRowsPreserves ==
    ASSUME IInv, NEW w \in Workers, ReserveRows(w)
    PROVE  IInv'
<1> USE BatchManagerAssumption DEF Goto, coordVars
<1>1. /\ active \in Batches /\ pc[w] = "reserve" /\ count[w] \in 1 .. MaxRequests
      /\ reserved[active] \in Nat /\ reserved[active] + count[w] <= MaxTensors
      /\ ~claimed[active]
  BY DEF ReserveRows, HasRoom, IInv, TypeOK, WorkersOK, Busy, ClaimsOK
<1>2. /\ pc'[w] = "write" /\ batch'[w] = active /\ offset'[w] = reserved[active]
      /\ reserved'[active] = reserved[active] + count[w]
      /\ \A b \in Batches \ {active} : reserved'[b] = reserved[b]
      /\ UNCHANGED <<free, active, ready, committed, entries, claimed, count, seen, game,
                    cpc, cbatch>>
      /\ \A v \in Workers \ {w} :
            pc'[v] = pc[v] /\ batch'[v] = batch[v] /\ offset'[v] = offset[v]
  BY <1>1 DEF ReserveRows, IInv, TypeOK
<1>3. TypeOK'
  <2>1. reserved[active] \in 0 .. MaxTensors /\ reserved[active] + count[w] \in 0 .. MaxTensors
    BY <1>1
  <2>2. /\ reserved' = [reserved EXCEPT ![active] = reserved[active] + count[w]]
        /\ batch' = [batch EXCEPT ![w] = active]
        /\ offset' = [offset EXCEPT ![w] = reserved[active]]
        /\ pc' = [pc EXCEPT ![w] = "write"]
        /\ UNCHANGED <<stage, available, poolMtx>>
    BY DEF ReserveRows
  <2> QED
    BY <1>1, <1>2, <2>1, <2>2 DEF IInv, TypeOK, WorkerPCs
<1>4. /\ Writing(w, active)'
      /\ \A b \in Batches \ {active} : ~Writing(w, b)'
      /\ \A v \in Workers \ {w}, b \in Batches : Writing(v, b)' <=> Writing(v, b)
      /\ \A b \in Batches : ~Writing(w, b)
  BY <1>1, <1>2 DEF Writing
<1>5. \A v \in Workers \ {w}, b \in Batches : Writing(v, b) =>
         /\ offset[v] \in Nat /\ count[v] \in Nat
         /\ offset[v] + count[v] <= reserved[b]
  BY DEF IInv, TypeOK, WorkersOK, Writing, Busy
<1>6. WorkersOK' /\ CoordinatorsOK'
  <2>1. ASSUME NEW b \in Batches, NEW v \in Workers, Writing(v, b)'
        PROVE  offset'[v] + count'[v] <= reserved'[b]
    <3>1. CASE v = w
      BY <1>1, <1>2, <1>4, <2>1, <3>1
    <3>2. CASE v # w /\ b = active
      BY <1>1, <1>2, <1>4, <1>5, <2>1, <3>2
    <3>3. CASE v # w /\ b # active
      BY <1>2, <1>4, <1>5, <2>1, <3>3
    <3> QED
      BY <3>1, <3>2, <3>3
  <2>2. ASSUME NEW v \in Workers
        PROVE  /\ pc'[v] \in Holding \cup Working => batch'[v] \in Batches
               /\ pc'[v] \in Busy => count'[v] \in 1 .. MaxRequests
               /\ pc'[v] = "decide" => seen'[v] <= committed'[batch'[v]]
               /\ pc'[v] \in Busy /\ pc'[v] # "count" => game'[v] \in Games
    <3>1. CASE v = w
      BY <1>1, <1>2, <3>1 DEF IInv, WorkersOK, Busy
    <3>2. CASE v # w
      BY <1>2, <3>2 DEF IInv, WorkersOK
    <3> QED
      BY <3>1, <3>2
  <2>3. CoordinatorsOK'
    BY <1>2 DEF IInv, CoordinatorsOK
  <2> QED
    BY <2>1, <2>2, <2>3 DEF WorkersOK
<1>7. WritersApart'
  <2>1. ASSUME NEW v \in Workers \ {w}, Writing(v, active)
        PROVE  Rows(offset[v], count[v]) \cap Rows(reserved[active], count[w]) = {}
    BY <1>1, <1>5, <2>1 DEF Rows
  <2> QED
    BY <1>2, <1>4, <2>1 DEF IInv, WritersApart, Rows
<1>8. EntriesApart'
  <2>1. ASSUME NEW e \in entries[active]
        PROVE  /\ e.start + e.count <= reserved'[active]
               /\ Rows(e.start, e.count) \cap Rows(reserved[active], count[w]) = {}
    <3>1. e.start \in Nat /\ e.count \in Nat /\ e.start + e.count <= reserved[active]
      BY <1>1, <2>1 DEF IInv, TypeOK, Entry, EntriesApart
    <3> QED
      BY <1>1, <1>2, <3>1 DEF Rows
  <2>2. ASSUME NEW b \in Batches, NEW e \in entries[b]
        PROVE  /\ e.start + e.count <= reserved'[b]
               /\ \A v \in Workers : Writing(v, b)' /\ (pc'[v] = "write" \/ e.start # offset'[v])
                    => Rows(e.start, e.count) \cap Rows(offset'[v], count'[v]) = {}
    BY <1>2, <1>4, <2>1 DEF IInv, EntriesApart
  <2> QED
    BY <1>2, <2>2 DEF EntriesApart, Rows
<1>9. Counted'
  <2>1. ASSUME NEW b \in Batches \ {active}
        PROVE  Done(b)' = Done(b)
    BY <1>2, <1>4, DoneUnchanged
  <2>2. Open(active)' = Open(active) \cup Rows(reserved[active], count[w])
    BY <1>1, <1>2, <1>4 DEF Open, Rows
  <2>3. Done(active)' = Done(active)
    <3>1. Open(active) \subseteq 0 .. reserved[active] - 1
      BY <1>1, OpenWithinReserved DEF IInv
    <3>2. 0 .. reserved'[active] - 1 = (0 .. reserved[active] - 1) \cup Rows(reserved[active], count[w])
      BY <1>1, <1>2 DEF Rows
    <3>3. (0 .. reserved[active] - 1) \cap Rows(reserved[active], count[w]) = {}
      BY <1>1 DEF Rows
    <3> QED
      BY <1>2, <2>2, <3>1, <3>2, <3>3 DEF Done
  <2> QED
    BY <1>2, <2>1, <2>3 DEF IInv, Counted
<1>10. ClaimsOK'
  BY <1>1, <1>2, <1>4 DEF IInv, ClaimsOK
<1>11. PoolQuiet'
  BY <1>1, <1>2 DEF IInv, PoolQuiet, Quiet, Working, Apart, PoolApart, HoldersApart, Holding
<1>12. Apart'
  BY <1>1, <1>2 DEF IInv, Apart, PoolApart, HoldersApart, CoordsApart, Holding
<1> QED
  BY <1>3, <1>6, <1>7, <1>8, <1>9, <1>10, <1>11, <1>12 DEF IInv

LEMMA AppendEntryPreserves ==
    ASSUME IInv, NEW w \in Workers, AppendEntry(w)
    PROVE  IInv'
<1> USE BatchManagerAssumption DEF Goto, coordVars
<1> DEFINE e == [game |-> game[w], start |-> offset[w], count |-> count[w]]
<1>1. /\ batch[w] \in Batches /\ pc[w] = "write" /\ game[w] \in Games
      /\ count[w] \in 1 .. MaxRequests /\ offset[w] \in 0 .. MaxTensors
      /\ Writing(w, batch[w])
  BY DEF AppendEntry, IInv, TypeOK, WorkersOK, Holding, Working, Busy, Writing
<1>2. /\ pc'[w] = "count" /\ game'[w] = NoGame
      /\ entries'[batch[w]] = entries[batch[w]] \cup {e}
      /\ \A b \in Batches \ {batch[w]} : entries'[b] = entries[b]
      /\ UNCHANGED <<free, active, ready, reserved, committed, claimed, count, batch, offset,
                    seen, cpc, cbatch>>
      /\ \A v \in Workers \ {w} : pc'[v] = pc[v] /\ game'[v] = game[v]
  BY <1>1 DEF AppendEntry, IInv, TypeOK
<1>3. e \in Entry /\ e.start = offset[w] /\ e.count = count[w]
  BY <1>1 DEF Entry
<1>4. entries' = [entries EXCEPT ![batch[w]] = entries[batch[w]] \cup {e}]
  BY DEF AppendEntry
<1> HIDE DEF e
<1>5. TypeOK'
  <2>1. entries[batch[w]] \cup {e} \in SUBSET Entry
    BY <1>1, <1>3 DEF IInv, TypeOK
  <2>2. entries' \in [Batches -> SUBSET Entry]
    BY <1>1, <1>4, <2>1 DEF IInv, TypeOK
  <2>3. /\ pc' = [pc EXCEPT ![w] = "count"] /\ game' = [game EXCEPT ![w] = NoGame]
        /\ UNCHANGED <<free, active, ready, reserved, committed, claimed, poolMtx, stage,
                      available, count, batch, offset, seen, cpc, cbatch>>
    BY DEF AppendEntry
  <2> QED
    BY <2>2, <2>3 DEF IInv, TypeOK, WorkerPCs
<1>6. \A v \in Workers, b \in Batches : Writing(v, b)' <=> Writing(v, b)
  BY <1>1, <1>2 DEF Writing
<1>7. WorkersOK' /\ CoordinatorsOK'
  BY <1>1, <1>2, <1>6 DEF IInv, WorkersOK, CoordinatorsOK, Busy, Holding, Working
<1>8. Counted'
  <2>1. \A b \in Batches : Done(b)' = Done(b)
    BY <1>2, <1>6, DoneUnchanged
  <2> QED
    BY <1>2, <2>1 DEF IInv, Counted
<1>9. WritersApart'
  BY <1>2, <1>6 DEF IInv, WritersApart, Rows
<1>10. EntriesApart'
  <2>1. /\ e.start + e.count <= reserved[batch[w]]
        /\ \A v \in Workers \ {w} : Writing(v, batch[w])
              => Rows(e.start, e.count) \cap Rows(offset[v], count[v]) = {}
    BY <1>1, <1>3 DEF IInv, WorkersOK, WritersApart
  <2>2. ASSUME NEW b \in Batches, NEW x \in entries'[b]
        PROVE  /\ x.start + x.count <= reserved[b]
               /\ \A v \in Workers : Writing(v, b) /\ (pc'[v] = "write" \/ x.start # offset[v])
                    => Rows(x.start, x.count) \cap Rows(offset[v], count[v]) = {}
    <3>1. CASE x \in entries[b]
      BY <1>1, <1>2, <3>1 DEF IInv, EntriesApart
    <3>2. CASE x \notin entries[b]
      <4>1. b = batch[w] /\ x = e
        BY <1>2, <2>2, <3>2
      <4> QED
        BY <1>2, <1>3, <2>1, <4>1
    <3> QED
      BY <3>1, <3>2
  <2> QED
    BY <1>2, <1>6, <2>2 DEF EntriesApart, Rows
<1>11. ClaimsOK'
  BY <1>1, <1>2, <1>6 DEF IInv, ClaimsOK
<1>12. PoolQuiet'
  BY <1>1, <1>2 DEF IInv, PoolQuiet, Quiet, Working
<1>13. Apart'
  BY <1>1, <1>2 DEF IInv, Apart, PoolApart, HoldersApart, CoordsApart, Holding
<1> QED
  BY <1>5, <1>7, <1>8, <1>9, <1>10, <1>11, <1>12, <1>13 DEF IInv

(* The fetch_add moves the worker's rows from the open to the committed ones. *)
LEMMA CountCommittedPreserves ==
    ASSUME IInv, NEW w \in Workers, CountCommitted(w)
    PROVE  IInv'
<1> USE BatchManagerAssumption DEF Goto, coordVars
<1>0. PICK b \in Batches : b = batch[w] /\ pc[w] = "count"
  BY DEF CountCommitted, IInv, WorkersOK, Holding, Working
<1> DEFINE mine == Rows(offset[w], count[w])
<1>1. /\ b \in Batches /\ b = batch[w] /\ pc[w] = "count" /\ Writing(w, b)
      /\ count[w] \in Nat /\ offset[w] \in Nat /\ offset[w] + count[w] <= reserved[b]
      /\ reserved[b] \in 0 .. MaxTensors /\ committed[b] \in Nat
      /\ committed \in [Batches -> 0 .. MaxTensors]
  BY <1>0 DEF IInv, TypeOK, WorkersOK, Holding, Working, Busy, Writing
<1>2. /\ pc'[w] = "decide" /\ seen'[w] = committed'[b]
      /\ committed'[b] = committed[b] + count[w]
      /\ \A x \in Batches \ {b} : committed'[x] = committed[x]
      /\ UNCHANGED <<free, active, ready, reserved, entries, claimed, count, batch, offset,
                    game, cpc, cbatch>>
      /\ \A v \in Workers \ {w} : pc'[v] = pc[v] /\ seen'[v] = seen[v]
  BY <1>1 DEF CountCommitted, IInv, TypeOK
<1>3. \A v \in Workers, x \in Batches : Writing(v, x)' <=> Writing(v, x) /\ v # w
  BY <1>1, <1>2 DEF Writing
<1>4. /\ Done(b)' = Done(b) \cup mine
      /\ Done(b) \cap mine = {}
      /\ Done(b) \cup mine \subseteq 0 .. reserved[b] - 1
  <2>1. \A v \in Workers \ {w} : Writing(v, b) => Rows(offset[v], count[v]) \cap mine = {}
    BY <1>1 DEF IInv, WritersApart
  <2>2. Open(b)' = Open(b) \ mine
    BY <1>1, <1>2, <1>3, <2>1 DEF Open, Rows
  <2>3. mine \subseteq Open(b)
    BY <1>1 DEF Open
  <2>4. mine \subseteq 0 .. reserved[b] - 1
    BY <1>1 DEF Rows, IInv, TypeOK
  <2> QED
    BY <1>2, <2>2, <2>3, <2>4 DEF Done
<1>5. /\ IsFiniteSet(mine) /\ Cardinality(mine) = count[w]
      /\ IsFiniteSet(Done(b)) /\ Cardinality(Done(b)) = committed[b]
  <2>1. mine = offset[w] .. offset[w] + count[w] - 1
    BY DEF Rows
  <2>2. /\ offset[w] \in Int /\ offset[w] + count[w] - 1 \in Int
        /\ (offset[w] > offset[w] + count[w] - 1 => count[w] = 0)
        /\ (offset[w] + count[w] - 1) - offset[w] + 1 = count[w]
    BY <1>1
  <2>3. IsFiniteSet(mine) /\ Cardinality(mine) = count[w]
    BY <2>1, <2>2, FS_Interval
  <2> QED
    BY <1>1, <2>3, CommittedWithinReserved DEF IInv, Counted
<1>6. Cardinality(Done(b)') = committed'[b]
  <2>1. Cardinality(Done(b) \cup mine) = committed[b] + count[w] - 0
    BY <1>4, <1>5, FS_Union, FS_EmptySet
  <2> QED
    BY <1>1, <1>2, <1>4, <2>1
<1>7. committed'[b] \in 0 .. MaxTensors
  <2> DEFINE All == 0 .. reserved[b] - 1
  <2>0. reserved[b] \in Nat
    BY <1>1
  <2>1. IsFiniteSet(All) /\ Cardinality(All) = reserved[b]
    <3>1. /\ 0 \in Int /\ reserved[b] - 1 \in Int
          /\ (0 > reserved[b] - 1 => reserved[b] = 0)
          /\ (reserved[b] - 1) - 0 + 1 = reserved[b]
      BY <2>0
    <3> QED
      BY <3>1, FS_Interval
  <2>2. Done(b)' \in SUBSET All
    BY <1>4
  <2> HIDE DEF All
  <2>3. Cardinality(Done(b)') <= reserved[b]
    BY <2>1, <2>2, FS_Subset
  <2> QED
    BY <1>1, <1>2, <1>6, <2>3
<1> HIDE DEF mine
<1>8. TypeOK'
  <2>1. /\ committed' = [committed EXCEPT ![b] = committed'[b]]
        /\ seen' = [seen EXCEPT ![w] = committed'[b]]
        /\ pc' = [pc EXCEPT ![w] = "decide"]
        /\ UNCHANGED <<free, active, ready, reserved, entries, claimed, poolMtx, stage,
                      available, coordVars, game, count, batch, offset>>
    BY <1>1, <1>2 DEF CountCommitted
  <2> QED
    BY <1>7, <2>1 DEF IInv, TypeOK, WorkerPCs
<1>9. WorkersOK' /\ CoordinatorsOK'
  <2>1. ASSUME NEW v \in Workers, pc'[v] = "decide"
        PROVE  seen'[v] <= committed'[batch'[v]]
    <3>1. CASE v = w
      BY <1>1, <1>2, <1>7, <3>1
    <3>2. CASE v # w /\ batch[v] = b
      <4>1. seen[v] <= committed[b] /\ seen[v] \in Nat
        BY <1>2, <2>1, <3>2 DEF IInv, TypeOK, WorkersOK
      <4> QED
        BY <1>1, <1>2, <3>2, <4>1
    <3>3. CASE v # w /\ batch[v] # b
      <4>1. batch[v] \in Batches
        BY <1>2, <2>1, <3>3 DEF IInv, WorkersOK, Holding, Working
      <4> QED
        BY <1>2, <2>1, <3>3, <4>1 DEF IInv, WorkersOK
    <3> QED
      BY <3>1, <3>2, <3>3
  <2> QED
    BY <1>1, <1>2, <1>3, <2>1 DEF IInv, WorkersOK, CoordinatorsOK, Busy, Holding, Working
<1>10. WritersApart' /\ EntriesApart'
  BY <1>1, <1>2, <1>3 DEF IInv, WritersApart, EntriesApart, Rows
<1>11. Counted'
  <2>1. ASSUME NEW x \in Batches \ {b}
        PROVE  Done(x)' = Done(x)
    <3>1. \A v \in Workers : Writing(v, x)' <=> Writing(v, x)
      BY <1>1, <1>3 DEF Writing
    <3> QED
      BY <1>2, <3>1, DoneUnchanged
  <2> QED
    BY <1>2, <1>6, <2>1 DEF IInv, Counted
<1>12. ClaimsOK'
  BY <1>1, <1>2, <1>3 DEF IInv, ClaimsOK
<1>13. PoolQuiet'
  BY <1>1, <1>2 DEF IInv, PoolQuiet, Quiet, Working
<1>14. Apart'
  BY <1>1, <1>2 DEF IInv, Apart, PoolApart, HoldersApart, CoordsApart, Holding
<1> QED
  BY <1>8, <1>9, <1>10, <1>11, <1>12, <1>13, <1>14 DEF IInv

(* A committer that claims a batch has seen its last row committed, and the   *)
(* batch is then in no place another thread could take it from.             *)
LEMMA ClaimFacts ==
    ASSUME IInv, NEW w \in Workers, NEW b \in Batches, CommitDecide(w), CommitClaims(w),
           b = batch[w]
    PROVE  /\ \A v \in Workers : ~Writing(v, b)
           /\ b \notin Elems(free) /\ b \notin Elems(ready) /\ b # active'
           /\ \A v \in Workers : pc[v] \in Holding => batch[v] # b
           /\ \A c \in Coordinators : cpc[c] \in {"push", "infer", "recycle"} => cbatch[c] # b
<1> USE BatchManagerAssumption
<1>1. pc[w] = "decide" /\ ~claimed[b] /\ seen[w] <= committed[b]
  BY DEF CommitDecide, CommitClaims, IInv, WorkersOK
<1>2. reserved[b] \in 0 .. MaxTensors /\ committed[b] \in 0 .. MaxTensors
      /\ seen[w] \in 0 .. MaxTensors /\ MaxTensors \in Nat
  BY DEF IInv, TypeOK
<1>3. committed[b] <= reserved[b]
  BY CommittedWithinReserved DEF IInv
<1>4. seen[w] = MaxTensors \/ seen[w] = reserved[b]
  BY DEF CommitClaims
<1>5. committed[b] = reserved[b]
  BY <1>1, <1>2, <1>3, <1>4
<1>6. \A v \in Workers : ~Writing(v, b)
  BY <1>5, CommittedWithinReserved DEF IInv
<1>7. ~Quiet(b)
  BY <1>1 DEF Quiet, Working
<1>8. b \notin Elems(free) /\ \A v \in Workers : pc[v] \in {"install", "return"} => batch[v] # b
  BY <1>7 DEF IInv, PoolQuiet
<1>9. b \notin Elems(ready) /\ \A v \in Workers : pc[v] \in {"push", "finish"} => batch[v] # b
  BY <1>1 DEF IInv, ClaimsOK
<1>10. \A c \in Coordinators : cpc[c] \in {"push", "infer", "recycle"} => cbatch[c] # b
  BY <1>1 DEF IInv, ClaimsOK
<1>11. b # active'
  BY DEF CommitDecide, CommitClaims
<1> QED
  BY <1>6, <1>8, <1>9, <1>10, <1>11 DEF Holding

LEMMA CommitDecidePreserves ==
    ASSUME IInv, NEW w \in Workers, CommitDecide(w)
    PROVE  IInv'
<1> USE BatchManagerAssumption DEF Goto, coordVars
<1>1. PICK b \in Batches : b = batch[w] /\ pc[w] = "decide"
  BY DEF CommitDecide, IInv, WorkersOK, Holding, Working
<1>2. /\ UNCHANGED <<free, ready, reserved, committed, entries, game, cpc, cbatch, poolMtx,
                    stage, available>>
      /\ \A v \in Workers \ {w} : /\ pc'[v] = pc[v] /\ batch'[v] = batch[v]
                                  /\ count'[v] = count[v] /\ offset'[v] = offset[v]
                                  /\ seen'[v] = seen[v]
      /\ active' \in {active, NoBatch}
  BY DEF CommitDecide, IInv, TypeOK
<1>3. CASE CommitClaims(w)
  <2>1. /\ pc' = [pc EXCEPT ![w] = "finish"] /\ batch' = batch
        /\ claimed' = [claimed EXCEPT ![b] = TRUE]
        /\ count' = [count EXCEPT ![w] = 0] /\ offset' = [offset EXCEPT ![w] = 0]
        /\ seen' = [seen EXCEPT ![w] = 0]
    BY <1>1, <1>3 DEF CommitDecide
  <2>2. /\ pc'[w] = "finish" /\ claimed'[b] /\ batch'[w] = b
        /\ \A x \in Batches \ {b} : claimed'[x] = claimed[x]
    BY <1>1, <2>1 DEF IInv, TypeOK
  <2>3. /\ \A v \in Workers : ~Writing(v, b)
        /\ b \notin Elems(free) /\ b \notin Elems(ready) /\ b # active'
        /\ \A v \in Workers : pc[v] \in Holding => batch[v] # b
        /\ \A c \in Coordinators : cpc[c] \in {"push", "infer", "recycle"} => cbatch[c] # b
    BY <1>1, <1>3, ClaimFacts
  <2>4. TypeOK'
    <3>1. 0 \in 0 .. MaxTensors /\ 0 \in 0 .. MaxRequests
      OBVIOUS
    <3>2. claimed' \in [Batches -> BOOLEAN] /\ active' \in Batches \cup {NoBatch}
      BY <1>2, <2>1 DEF IInv, TypeOK
    <3>3. /\ count' \in [Workers -> 0 .. MaxRequests] /\ offset' \in [Workers -> 0 .. MaxTensors]
          /\ seen' \in [Workers -> 0 .. MaxTensors] /\ pc' \in [Workers -> WorkerPCs]
      BY <2>1, <3>1 DEF IInv, TypeOK, WorkerPCs
    <3> QED
      BY <1>2, <2>1, <3>2, <3>3 DEF IInv, TypeOK
  <2>5. WorkersOK' /\ CoordinatorsOK'
    BY <1>1, <1>2, <2>1, <2>2 DEF IInv, WorkersOK, CoordinatorsOK, Busy, Holding, Working, Writing
  <2>6. WritersApart' /\ EntriesApart' /\ Counted'
    BY <1>1, <1>2, <2>2, WritersUnchanged
  <2>7. ClaimsOK'
    <3>1. \A x \in Elems(ready') : claimed'[x]
      BY <1>2, <2>2, ElemsAreBatches DEF IInv, TypeOK, ClaimsOK
    <3>2. \A v \in Workers : pc'[v] \in {"push", "finish"} => claimed'[batch'[v]]
      BY <1>1, <1>2, <2>2 DEF IInv, ClaimsOK, WorkersOK, Holding
    <3>3. \A c \in Coordinators : cpc'[c] \in {"push", "infer", "recycle"} => claimed'[cbatch'[c]]
      BY <1>2, <2>2 DEF IInv, ClaimsOK, CoordinatorsOK
    <3>4. \A v \in Workers, x \in Batches : Writing(v, x)' => ~claimed'[x]
      BY <1>1, <1>2, <2>1, <2>2, <2>3 DEF IInv, ClaimsOK, Writing
    <3>5. active' \in Batches => ~claimed'[active']
      BY <1>2, <2>2, <2>3 DEF IInv, ClaimsOK
    <3> QED
      BY <3>1, <3>2, <3>3, <3>4, <3>5 DEF ClaimsOK
  <2>8. PoolQuiet'
    <3>1. \A x \in Elems(free) : x \in Batches /\ x # b
      BY <2>3, ElemsAreBatches DEF IInv, TypeOK
    <3>2. ASSUME NEW x \in Elems(free)
          PROVE  Quiet(x)'
      BY <1>1, <1>2, <2>2, <3>1 DEF IInv, PoolQuiet, Quiet, Working
    <3>3. ASSUME NEW v \in Workers, pc'[v] \in {"install", "return"}
          PROVE  Quiet(batch[v])'
      <4>1. v # w /\ batch[v] \in Batches \ {b} /\ Quiet(batch[v])
        BY <1>2, <2>2, <2>3, <3>3 DEF IInv, WorkersOK, PoolQuiet, Holding
      <4> QED
        BY <1>1, <1>2, <2>2, <4>1 DEF Quiet, Working
    <3> QED
      BY <1>2, <2>1, <3>2, <3>3 DEF PoolQuiet
  <2>9. PoolApart'
    BY <1>2, <2>3, ElemsAreBatches DEF IInv, TypeOK, Apart, PoolApart
  <2>10. HoldersApart'
    <3>1. \A v \in Workers : pc[v] \in Holding =>
             batch[v] # b /\ batch[v] \in Batches
             /\ batch[v] \notin Elems(free) \cup Elems(ready) \cup {active}
      BY <2>3 DEF IInv, WorkersOK, Apart, HoldersApart
    <3> QED
      BY <1>1, <1>2, <2>1, <2>2, <2>3, <3>1 DEF IInv, Apart, HoldersApart, Holding
  <2>11. CoordsApart'
    BY <1>1, <1>2, <2>2, <2>3 DEF IInv, Apart, CoordsApart, Holding
  <2> QED
    BY <2>4, <2>5, <2>6, <2>7, <2>8, <2>9, <2>10, <2>11 DEF IInv, Apart
<1>4. CASE ~CommitClaims(w)
  <2>1. /\ pc' = [pc EXCEPT ![w] = "idle"] /\ batch' = [batch EXCEPT ![w] = NoBatch]
        /\ claimed' = claimed
        /\ count' = [count EXCEPT ![w] = 0] /\ offset' = [offset EXCEPT ![w] = 0]
        /\ seen' = [seen EXCEPT ![w] = 0]
    BY <1>4 DEF CommitDecide
  <2>2. pc'[w] = "idle" /\ active' = active
    <3>1. active = b => ~claimed[b]
      BY <1>1 DEF IInv, ClaimsOK
    <3> QED
      BY <1>1, <1>4, <2>1, <3>1 DEF CommitDecide, CommitClaims, IInv, TypeOK
  <2>3. TypeOK'
    BY <1>2, <2>1, <2>2 DEF IInv, TypeOK, WorkerPCs
  <2>4. WorkersOK' /\ CoordinatorsOK'
    BY <1>2, <2>2 DEF IInv, WorkersOK, CoordinatorsOK, Busy, Holding, Working, Writing
  <2>5. WritersApart' /\ EntriesApart' /\ Counted'
    BY <1>1, <1>2, <2>2, WritersUnchanged
  <2>6. ClaimsOK'
    BY <1>1, <1>2, <2>1, <2>2 DEF IInv, ClaimsOK, Writing
  <2>7. PoolQuiet'
    BY <1>2, <2>1, <2>2 DEF IInv, PoolQuiet, Quiet, Working
  <2>8. Apart'
    BY <1>2, <2>2 DEF IInv, Apart, PoolApart, HoldersApart, CoordsApart, Holding
  <2> QED
    BY <2>3, <2>4, <2>5, <2>6, <2>7, <2>8 DEF IInv
<1> QED
  BY <1>3, <1>4

(* The only step that needs the proviso: a committer still about to decide    *)
(* on the last use of a batch would otherwise decide on the new one.        *)
LEMMA InstallPreserves ==
    ASSUME IInv, CommitterMayLag = FALSE, NEW w \in Workers, Install(w)
    PROVE  IInv'
<1> USE BatchManagerAssumption DEF Goto, coordVars
<1>1. PICK b \in Batches : b = batch[w] /\ pc[w] = "install"
  BY DEF Install, IInv, WorkersOK, Holding
<1>2. /\ reserved' = [reserved EXCEPT ![b] = 0] /\ committed' = [committed EXCEPT ![b] = 0]
      /\ entries' = [entries EXCEPT ![b] = {}] /\ claimed' = [claimed EXCEPT ![b] = FALSE]
      /\ batch' = [batch EXCEPT ![w] = NoBatch] /\ pc' = [pc EXCEPT ![w] = "loop"]
      /\ active = NoBatch /\ active' = b
      /\ UNCHANGED <<free, ready, poolMtx, stage, available, count, offset, seen, game,
                    cpc, cbatch>>
  BY <1>1 DEF Install, Reset
<1>3. /\ reserved'[b] = 0 /\ committed'[b] = 0 /\ entries'[b] = {} /\ ~claimed'[b]
      /\ \A x \in Batches \ {b} : /\ reserved'[x] = reserved[x] /\ committed'[x] = committed[x]
                                  /\ entries'[x] = entries[x] /\ claimed'[x] = claimed[x]
      /\ pc'[w] = "loop"
      /\ \A v \in Workers \ {w} : pc'[v] = pc[v] /\ batch'[v] = batch[v]
  BY <1>2 DEF IInv, TypeOK
<1>4. \A v \in Workers : pc[v] \in Working => batch[v] # b
  <2>1. Quiet(b) /\ ~LaggingCommitter(b)
    BY <1>1 DEF Install, IInv, PoolQuiet
  <2> QED
    BY <2>1 DEF Quiet, LaggingCommitter
<1>5. /\ b \notin Elems(free) /\ b \notin Elems(ready)
      /\ \A v \in Workers \ {w} : pc[v] \in Holding => batch[v] # b
      /\ \A c \in Coordinators : cpc[c] \in {"push", "infer", "recycle"} => cbatch[c] # b
  BY <1>1 DEF IInv, Apart, HoldersApart, CoordsApart, Holding
<1>6. TypeOK'
  <2>1. 0 \in 0 .. MaxTensors /\ {} \in SUBSET Entry
    OBVIOUS
  <2>2. /\ reserved' \in [Batches -> 0 .. MaxTensors] /\ committed' \in [Batches -> 0 .. MaxTensors]
        /\ entries' \in [Batches -> SUBSET Entry] /\ claimed' \in [Batches -> BOOLEAN]
    BY <1>2, <2>1 DEF IInv, TypeOK
  <2>3. batch' \in [Workers -> Batches \cup {NoBatch}] /\ pc' \in [Workers -> WorkerPCs]
    BY <1>2 DEF IInv, TypeOK, WorkerPCs
  <2> QED
    BY <1>2, <2>2, <2>3 DEF IInv, TypeOK
<1>7. \A v \in Workers, x \in Batches : Writing(v, x)' => Writing(v, x) /\ x # b
  BY <1>3, <1>4 DEF Writing, Working
<1>8. \A v \in Workers, x \in Batches : Writing(v, x) => Writing(v, x)' /\ x # b
  BY <1>1, <1>3, <1>4 DEF Writing, Working
<1>9. WorkersOK' /\ CoordinatorsOK'
  <2>1. ASSUME NEW v \in Workers
        PROVE  /\ pc'[v] \in Holding \cup Working => batch'[v] \in Batches
               /\ pc'[v] \in Busy => count'[v] \in 1 .. MaxRequests
               /\ pc'[v] \in Busy /\ pc'[v] # "count" => game'[v] \in Games
    BY <1>1, <1>2, <1>3 DEF IInv, WorkersOK, Busy, Holding, Working
  <2>2. ASSUME NEW v \in Workers, pc'[v] = "decide"
        PROVE  seen'[v] <= committed'[batch'[v]]
    <3>1. v # w /\ batch[v] # b /\ batch[v] \in Batches
      BY <1>3, <1>4, <2>2 DEF IInv, WorkersOK, Working
    <3> QED
      BY <1>2, <1>3, <2>2, <3>1 DEF IInv, WorkersOK
  <2>3. \A v \in Workers, x \in Batches : Writing(v, x)' => offset'[v] + count'[v] <= reserved'[x]
    BY <1>2, <1>3, <1>7 DEF IInv, WorkersOK
  <2>4. CoordinatorsOK'
    BY <1>2 DEF IInv, CoordinatorsOK
  <2> QED
    BY <2>1, <2>2, <2>3, <2>4 DEF WorkersOK
<1>10. WritersApart' /\ EntriesApart'
  <2>1. WritersApart'
    BY <1>2, <1>7 DEF IInv, WritersApart, Rows
  <2>2. ASSUME NEW x \in Batches \ {b}, NEW e \in entries[x], NEW v \in Workers,
               Writing(v, x)', pc'[v] = "write" \/ e.start # offset'[v]
        PROVE  Rows(e.start, e.count) \cap Rows(offset'[v], count'[v]) = {}
    <3>1. Writing(v, x) /\ v # w
      BY <1>3, <1>7, <2>2 DEF Writing
    <3> QED
      BY <1>2, <1>3, <2>2, <3>1 DEF IInv, EntriesApart
  <2>3. EntriesApart'
    BY <1>2, <1>3, <2>2 DEF IInv, EntriesApart, Rows
  <2> QED
    BY <2>1, <2>3
<1>11. Counted'
  <2>1. ASSUME NEW x \in Batches \ {b}
        PROVE  Done(x)' = Done(x)
    BY <1>2, <1>3, <1>7, <1>8, DoneUnchanged
  <2>2. Done(b)' = {}
    BY <1>3 DEF Done
  <2>3. committed'[b] = Cardinality(Done(b)')
    BY <1>3, <2>2, FS_EmptySet
  <2> QED
    BY <1>3, <2>1, <2>3 DEF IInv, Counted
<1>12. ClaimsOK'
  <2>1. \A x \in Elems(ready') : claimed'[x]
    BY <1>2, <1>3, <1>5, ElemsAreBatches DEF IInv, TypeOK, ClaimsOK
  <2>2. \A v \in Workers : pc'[v] \in {"push", "finish"} => claimed'[batch'[v]]
    BY <1>1, <1>3, <1>5 DEF IInv, ClaimsOK, WorkersOK, Holding
  <2>3. \A c \in Coordinators : cpc'[c] \in {"push", "infer", "recycle"} => claimed'[cbatch'[c]]
    BY <1>2, <1>3, <1>5 DEF IInv, ClaimsOK, CoordinatorsOK
  <2>4. \A v \in Workers, x \in Batches : Writing(v, x)' => ~claimed'[x]
    BY <1>3, <1>7 DEF IInv, ClaimsOK
  <2> QED
    BY <1>2, <1>3, <2>1, <2>2, <2>3, <2>4 DEF ClaimsOK
<1>13. PoolQuiet'
  <2>1. ASSUME NEW x \in Batches \ {b}, Quiet(x)
        PROVE  Quiet(x)'
    BY <1>3, <2>1 DEF Quiet, Working
  <2>2. \A x \in Elems(free') : Quiet(x)'
    BY <1>2, <1>5, <2>1, ElemsAreBatches DEF IInv, TypeOK, PoolQuiet
  <2>3. ASSUME NEW v \in Workers, pc'[v] \in {"install", "return"}
        PROVE  batch'[v] = batch[v] /\ Quiet(batch[v])'
    BY <1>3, <1>5, <2>1, <2>3 DEF IInv, PoolQuiet, WorkersOK, Holding
  <2> QED
    BY <2>2, <2>3 DEF PoolQuiet, Quiet
<1>14. Apart'
  BY <1>1, <1>2, <1>3, <1>5 DEF IInv, Apart, PoolApart, HoldersApart, CoordsApart, Holding
<1> QED
  BY <1>6, <1>9, <1>10, <1>11, <1>12, <1>13, <1>14 DEF IInv

-----------------------------------------------------------------------------
(* The invariant holds initially and every step preserves it.                *)

LEMMA InitEstablishes == Init => IInv
<1> SUFFICES ASSUME Init PROVE IInv
  OBVIOUS
<1> USE BatchManagerAssumption DEF Init, InitPool, InitThreads
<1>1. free \in Seq(Batches) /\ Distinct(free)
  <2>1. PICK n \in Nat : n = Cardinality(Batches)
    BY FS_CardinalityType
  <2>2. free \in [1 .. n -> Batches] /\ \A i, j \in 1 .. n : free[i] = free[j] => i = j
    BY <2>1 DEF PoolOrders
  <2>3. free \in Seq(Batches) /\ Len(free) = n
    BY <2>2
  <2> QED
    BY <2>2, <2>3 DEF Distinct
<1>2. ready = << >> /\ Elems(ready) = {} /\ Distinct(ready) /\ << >> \in Seq(Batches)
  BY DEF Elems, Distinct
<1>3. TypeOK
  <2>1. 0 \in 0 .. MaxTensors /\ 0 \in 0 .. MaxRequests
    OBVIOUS
  <2> QED
    BY <1>1, <1>2, <2>1 DEF TypeOK, Stages, WorkerPCs, CoordPCs
<1>4. WorkersOK /\ CoordinatorsOK
  BY DEF WorkersOK, CoordinatorsOK, Busy, Holding, Working, Writing
<1>5. WritersApart /\ EntriesApart
  BY DEF WritersApart, EntriesApart, Writing
<1>6. Counted
  <2>1. ASSUME NEW b \in Batches
        PROVE  Done(b) = {}
    BY DEF Done
  <2> QED
    BY <2>1, FS_EmptySet DEF Counted
<1>7. ClaimsOK
  BY <1>2 DEF ClaimsOK, Writing
<1>8. PoolQuiet
  BY DEF PoolQuiet, Quiet, Working
<1>9. Apart
  BY <1>1, <1>2, ElemsAreBatches DEF Apart, PoolApart, HoldersApart, CoordsApart, Holding
<1> QED
  BY <1>3, <1>4, <1>5, <1>6, <1>7, <1>8, <1>9 DEF IInv

LEMMA StepPreserves ==
    ASSUME IInv, CommitterMayLag = FALSE, [Next]_vars
    PROVE  IInv'
<1>1. ASSUME NEW w \in Workers, TakeGame(w) \/ TakeSentinel(w) \/ SpuriousWake(w)
      PROVE  IInv'
  BY <1>1, WorkerMovesPreserve
<1>2. ASSUME NEW w \in Workers, ReserveStep(w)
      PROVE  IInv'
  BY <1>2, WorkerMovesPreserve, ReserveRowsPreserves, ReserveFlushPreserves, PushesPreserve,
     PoolTakePreserves, InstallPreserves, ReturnCandidatePreserves DEF ReserveStep
<1>3. ASSUME NEW w \in Workers, CommitStep(w)
      PROVE  IInv'
  BY <1>3, AppendEntryPreserves, CountCommittedPreserves, CommitDecidePreserves, PushesPreserve
     DEF CommitStep
<1>4. ASSUME NEW c \in Coordinators, CoordStep(c) \/ TimeoutFlush(c)
      PROVE  IInv'
  BY <1>4, CoordinatorMovesPreserve, PopReadyPreserves, PushFlushedAndPopPreserves,
     RecyclePreserves, TimeoutFlushPreserves DEF CoordStep
<1>5. CASE Stop \/ UNCHANGED vars
  BY <1>5, StopPreserves
<1> QED
  BY <1>1, <1>2, <1>3, <1>4, <1>5 DEF Next, Work, WorkerStep

LEMMA InvariantHolds ==
    ASSUME CommitterMayLag = FALSE
    PROVE  Spec => []IInv
<1>1. IInv /\ [Next]_vars => IInv'
  BY StepPreserves
<1> QED
  BY InitEstablishes, <1>1, PTL DEF Spec

-----------------------------------------------------------------------------
(* What it implies.                                                         *)

LEMMA PushedMembers ==
    ASSUME IInv, NEW b \in Batches, Pushed(b)
    PROVE  claimed[b] /\ active # b
<1>1. CASE \E i \in 1 .. Len(ready) : ready[i] = b
  <2>1. b \in Elems(ready)
    BY <1>1 DEF Elems
  <2> QED
    BY <2>1 DEF IInv, ClaimsOK
<1>2. CASE \E w \in Workers : pc[w] \in {"push", "finish"} /\ batch[w] = b
  BY <1>2 DEF IInv, ClaimsOK
<1>3. CASE \E c \in Coordinators : cpc[c] \in {"push", "infer"} /\ cbatch[c] = b
  BY <1>3 DEF IInv, ClaimsOK
<1> QED
  BY <1>1, <1>2, <1>3 DEF Pushed

LEMMA PushedCompleteFollows == IInv => PushedComplete
<1> SUFFICES ASSUME IInv, NEW b \in Batches, Pushed(b)
             PROVE  /\ committed[b] = reserved[b]
                    /\ \A w \in Workers : ~Writing(w, b)
                    /\ active # b
  BY DEF PushedComplete
<1>1. claimed[b] /\ active # b
  BY PushedMembers
<1>2. \A w \in Workers : ~Writing(w, b)
  BY <1>1 DEF IInv, ClaimsOK
<1>3. committed[b] = reserved[b]
  BY <1>2, CommittedWithinReserved DEF IInv
<1> QED
  BY <1>1, <1>2, <1>3

LEMMA RowsDisjointFollows == IInv => RowsDisjoint
<1> SUFFICES ASSUME IInv, NEW b \in Batches, NEW w \in Workers, Writing(w, b)
             PROVE  /\ Rows(offset[w], count[w]) \subseteq 0 .. reserved[b] - 1
                    /\ \A v \in Workers \ {w} : Writing(v, b) =>
                          Rows(offset[w], count[w]) \cap Rows(offset[v], count[v]) = {}
                    /\ \A e \in entries[b] : e.start # offset[w] =>
                          Rows(offset[w], count[w]) \cap Rows(e.start, e.count) = {}
  BY DEF RowsDisjoint
<1>1. Rows(offset[w], count[w]) \subseteq Open(b)
  BY DEF Open
<1>2. Open(b) \subseteq 0 .. reserved[b] - 1
  BY OpenWithinReserved DEF IInv
<1>3. \A v \in Workers \ {w} : Writing(v, b) =>
         Rows(offset[w], count[w]) \cap Rows(offset[v], count[v]) = {}
  BY DEF IInv, WritersApart
<1>4. \A e \in entries[b] : e.start # offset[w] =>
         Rows(offset[w], count[w]) \cap Rows(e.start, e.count) = {}
  BY DEF IInv, EntriesApart
<1> QED
  BY <1>1, <1>2, <1>3, <1>4

LEMMA AtMostOnePlaceFollows == IInv => AtMostOnePlace
<1> SUFFICES ASSUME IInv, NEW b \in Batches, NEW p \in Places(b), NEW q \in Places(b)
             PROVE  p = q
  BY DEF AtMostOnePlace
<1> DEFINE InPool(x)   == \E i \in 1 .. Len(free) : free[i] = b /\ x = <<"pool", i>>
           InQueue(x)  == \E i \in 1 .. Len(ready) : ready[i] = b /\ x = <<"ready", i>>
           AtWorker(x) == \E w \in Workers : pc[w] \in Holding /\ batch[w] = b
                                             /\ x = <<"worker", w>>
           AtCoord(x)  == \E c \in Coordinators :
                              cpc[c] \in {"push", "infer", "recycle"} /\ cbatch[c] = b
                              /\ x = <<"coordinator", c>>
           Active(x)   == active = b /\ x = <<"active", b>>
<1>1. \A x \in Places(b) : InPool(x) \/ InQueue(x) \/ AtWorker(x) \/ AtCoord(x) \/ Active(x)
  BY DEF Places, CandidateOf, PusherOf, CoordOf, Holding
<1>2. \A x : /\ InPool(x) => b \in Elems(free)
             /\ InQueue(x) => b \in Elems(ready) /\ claimed[b]
             /\ AtWorker(x) => b \notin Elems(free) \cup Elems(ready) \cup {active}
             /\ AtCoord(x) => b \notin Elems(free) \cup Elems(ready) /\ claimed[b]
             /\ Active(x) => ~claimed[b] /\ active = b
  BY DEF IInv, ClaimsOK, Apart, HoldersApart, CoordsApart, Elems
<1>3. CASE InPool(p)
  <2>1. InPool(q)
    BY <1>1, <1>2, <1>3 DEF IInv, Apart, PoolApart
  <2> QED
    BY <1>3, <2>1 DEF IInv, Apart, PoolApart, Distinct
<1>4. CASE InQueue(p)
  <2>1. InQueue(q)
    BY <1>1, <1>2, <1>4 DEF IInv, Apart, PoolApart
  <2> QED
    BY <1>4, <2>1 DEF IInv, Apart, PoolApart, Distinct
<1>5. CASE AtWorker(p)
  <2>1. AtWorker(q)
    BY <1>1, <1>2, <1>5 DEF IInv, Apart, CoordsApart
  <2> QED
    BY <1>5, <2>1 DEF IInv, Apart, HoldersApart
<1>6. CASE AtCoord(p)
  <2>1. AtCoord(q)
    BY <1>1, <1>2, <1>6 DEF IInv, Apart, CoordsApart
  <2> QED
    BY <1>6, <2>1 DEF IInv, Apart, CoordsApart
<1>7. CASE Active(p)
  <2>1. Active(q)
    BY <1>1, <1>2, <1>7 DEF IInv, Apart, PoolApart
  <2> QED
    BY <1>7, <2>1
<1> QED
  BY <1>1, <1>3, <1>4, <1>5, <1>6, <1>7

(* Every variable keeps its type; in particular no reservation and no commit   *)
(* takes a counter past the rows of a batch (batch_manager.h:111-115, 175). *)
THEOREM TypeCorrect ==
    ASSUME CommitterMayLag = FALSE
    PROVE  Spec => []TypeOK
<1>1. IInv => TypeOK
  BY DEF IInv
<1> QED
  BY InvariantHolds, <1>1, PTL

(* For any number of threads, games and batches, a batch that reaches the     *)
(* ready queue, or a coordinator, has every reserved row committed and no   *)
(* writer left (batch_manager.h:165), as long as no committer lags behind   *)
(* the reuse of its batch.                                                  *)
THEOREM OnlyCompleteBatchesArePushed ==
    ASSUME CommitterMayLag = FALSE
    PROVE  Spec => []PushedComplete
BY InvariantHolds, PushedCompleteFollows, PTL

(* Two workers never write the same row of a batch, nor a row an entry of the  *)
(* batch already describes, although no lock is held while they write       *)
(* (worker.cc:138-144).                                                     *)
THEOREM WritersNeverOverlap ==
    ASSUME CommitterMayLag = FALSE
    PROVE  Spec => []RowsDisjoint
BY InvariantHolds, RowsDisjointFollows, PTL

(* A batch is never in two of the pool, the ready queue, active_batch_ and     *)
(* the hands of one thread: push_claimed makes every push the only one      *)
(* (batch_manager.h:55-58).                                                 *)
THEOREM BatchesAreNeverDuplicated ==
    ASSUME CommitterMayLag = FALSE
    PROVE  Spec => []AtMostOnePlace
BY InvariantHolds, AtMostOnePlaceFollows, PTL

-----------------------------------------------------------------------------
(* The exchange.                                                             *)

(* Entry e of batch b still has to be answered.                              *)
Waits(b, e) == Undelivered(b) /\ e \in entries[b]

(* A worker has no game in hand: between jobs, or after appending its entry.  *)
EmptyHanded == {"idle", "count", "decide", "finish"}

Kept ==
    \A g \in Games : \/ g \in available
                     \/ \E w \in Workers : game[w] = g
                     \/ \E b \in Batches, e \in Entry : Waits(b, e) /\ e.game = g

QueuedApart ==
    /\ \A w \in Workers : game[w] \notin available
    /\ \A b \in Batches, e \in Entry : Waits(b, e) => e.game \notin available

HeldApart ==
    /\ \A v, w \in Workers : game[v] \in Games /\ game[v] = game[w] => v = w
    /\ \A w \in Workers, b \in Batches, e \in Entry : Waits(b, e) => e.game # game[w]

WaitingApart ==
    \A b, d \in Batches, e, f \in Entry :
        Waits(b, e) /\ Waits(d, f) /\ e.game = f.game => b = d /\ e = f

HandsEmpty == \A w \in Workers : pc[w] \in EmptyHanded => game[w] = NoGame

GInv == Kept /\ QueuedApart /\ HeldApart /\ WaitingApart /\ HandsEmpty

-----------------------------------------------------------------------------
(* Steps that move no game: nothing the games are found by changes.           *)

LEMMA WaitsUnchanged ==
    ASSUME UNCHANGED <<free, entries>>,
           \A w \in Workers, b \in Batches : CandidateOf(w, b)' <=> CandidateOf(w, b),
           \A c \in Coordinators : /\ cpc'[c] = "recycle" <=> cpc[c] = "recycle"
                                   /\ cpc[c] = "recycle" => cbatch'[c] = cbatch[c]
    PROVE  \A b \in Batches, e \in Entry : Waits(b, e)' <=> Waits(b, e)
  BY DEF Waits, Undelivered

Still ==
    /\ UNCHANGED <<available, game>>
    /\ \A b \in Batches, e \in Entry : Waits(b, e)' <=> Waits(b, e)
    /\ \A w \in Workers : pc'[w] \in EmptyHanded => pc[w] \in EmptyHanded

LEMMA StillPreserves ==
    ASSUME GInv, Still
    PROVE  GInv'
  BY DEF GInv, Still, Kept, QueuedApart, HeldApart, WaitingApart, HandsEmpty

LEMMA WorkerStepsAreStill ==
    ASSUME IInv, NEW w \in Workers,
           \/ TakeSentinel(w) \/ ReserveLoop(w) \/ ReserveRows(w) \/ ReserveNoActive(w)
           \/ ReserveFlush(w) \/ ReservePush(w) \/ PoolShutDown(w) \/ PoolEmpty(w)
           \/ PoolBlock(w) \/ SpuriousWake(w) \/ InstallRaced(w) \/ CountCommitted(w)
           \/ CommitDecide(w) \/ CommitPush(w)
    PROVE  Still
<1> USE DEF Goto, batchVars, coordVars, Flush
<1>1. /\ UNCHANGED <<free, entries, available, game, cpc, cbatch>>
      /\ pc \in [Workers -> WorkerPCs]
      /\ \A v \in Workers \ {w} : pc'[v] = pc[v] /\ batch'[v] = batch[v]
      /\ pc'[w] \in {"install", "return"} <=> pc[w] \in {"install", "return"}
      /\ pc[w] \in {"install", "return"} => batch'[w] = batch[w]
      /\ pc'[w] \in EmptyHanded => pc[w] \in EmptyHanded
  BY DEF TakeSentinel, ReserveLoop, ReserveRows, ReserveNoActive, ReserveFlush, ReservePush,
         PoolShutDown, PoolEmpty, PoolBlock, SpuriousWake, InstallRaced, CountCommitted,
         CommitDecide, CommitPush, IInv, TypeOK, EmptyHanded
<1>2. \A v \in Workers, b \in Batches : CandidateOf(v, b)' <=> CandidateOf(v, b)
  BY <1>1 DEF CandidateOf
<1>3. \A v \in Workers : pc'[v] \in EmptyHanded => pc[v] \in EmptyHanded
  BY <1>1
<1> QED
  BY <1>1, <1>2, <1>3, WaitsUnchanged DEF Still

LEMMA CoordinatorStepsAreStill ==
    ASSUME IInv, NEW c \in Coordinators,
           \/ CoordTop(c) \/ PopReady(c) \/ PopShutDown(c) \/ TimeoutFlush(c)
           \/ PushFlushedAndPop(c)
    PROVE  Still
<1>1. /\ UNCHANGED <<free, entries, available, game, pc, batch>>
      /\ \A d \in Coordinators \ {c} : cpc'[d] = cpc[d] /\ cbatch'[d] = cbatch[d]
      /\ cpc[c] # "recycle" /\ cpc'[c] # "recycle"
  BY DEF CoordTop, PopReady, PopShutDown, TimeoutFlush, PushFlushedAndPop, Flush,
         batchVars, workerVars, coordVars, IInv, TypeOK
<1>2. \A v \in Workers, b \in Batches : CandidateOf(v, b)' <=> CandidateOf(v, b)
  BY <1>1 DEF CandidateOf
<1> QED
  BY <1>1, <1>2, WaitsUnchanged DEF Still

LEMMA StopIsStill ==
    ASSUME IInv, Stop \/ UNCHANGED vars
    PROVE  Still
<1> USE DEF Stop, StopSignal, StopFlag, StopNotify, vars, batchVars, workerVars, coordVars
<1>1. /\ UNCHANGED <<free, entries, available, game, batch, cpc, cbatch>>
      /\ \A w \in Workers : pc'[w] = pc[w] \/ (pc[w] = "wait" /\ pc'[w] = "pool")
  BY DEF IInv, TypeOK
<1>2. \A v \in Workers, b \in Batches : CandidateOf(v, b)' <=> CandidateOf(v, b)
  BY <1>1 DEF CandidateOf
<1> QED
  BY <1>1, <1>2, WaitsUnchanged DEF Still, EmptyHanded

(* A batch moves between the pool and a candidate's hands.                    *)
LEMMA PoolTakeIsStill ==
    ASSUME IInv, NEW w \in Workers, PoolTake(w)
    PROVE  Still
<1> USE DEF Goto, coordVars
<1>1. /\ batch'[w] \in Elems(free) /\ Elems(free') = Elems(free) \ {batch'[w]}
  BY PopFacts DEF PoolTake, IInv, TypeOK, Apart, PoolApart, HoldersApart, CoordsApart
<1>2. /\ UNCHANGED <<entries, available, game, cpc, cbatch>>
      /\ pc[w] = "pool" /\ pc'[w] = "install"
      /\ \A v \in Workers \ {w} : pc'[v] = pc[v] /\ batch'[v] = batch[v]
  BY DEF PoolTake, IInv, TypeOK
<1>3. \A b \in Batches : Undelivered(b)' <=> Undelivered(b)
  <2> TAKE b \in Batches
  <2>1. CASE b = batch'[w]
    <3>1. ~Undelivered(b)
      BY <1>1, <2>1 DEF Undelivered, Elems
    <3>2. CandidateOf(w, b)'
      BY <1>2, <2>1 DEF CandidateOf
    <3> QED
      BY <3>1, <3>2 DEF Undelivered
  <2>2. CASE b # batch'[w]
    <3>1. \A v \in Workers : CandidateOf(v, b)' <=> CandidateOf(v, b)
      BY <1>2, <2>2 DEF CandidateOf
    <3>2. b \in Elems(free') <=> b \in Elems(free)
      BY <1>1, <2>2
    <3> QED
      BY <1>2, <3>1, <3>2 DEF Undelivered, Elems
  <2> QED
    BY <2>1, <2>2
<1> QED
  BY <1>2, <1>3 DEF Still, Waits, EmptyHanded

LEMMA ReturnCandidateIsStill ==
    ASSUME IInv, NEW w \in Workers, ReturnCandidate(w)
    PROVE  Still
<1> USE DEF coordVars
<1>1. batch[w] \in Batches /\ pc[w] = "return"
  BY DEF ReturnCandidate, IInv, WorkersOK, Holding
<1>2. Elems(free') = Elems(free) \cup {batch[w]}
  BY <1>1, AppendFacts DEF ReturnCandidate, IInv, TypeOK
<1>3. /\ pc'[w] = "loop"
      /\ \A v \in Workers \ {w} : pc'[v] = pc[v] \/ (pc[v] = "wait" /\ pc'[v] = "pool")
  <2> DEFINE p == [pc EXCEPT ![w] = "loop"]
  <2>1. p \in [Workers -> WorkerPCs] /\ p[w] = "loop" /\ \A v \in Workers \ {w} : p[v] = pc[v]
    BY DEF IInv, TypeOK, WorkerPCs
  <2>2. pc' \in Notified(p)
    BY DEF ReturnCandidate
  <2> HIDE DEF p
  <2> QED
    BY <2>1, <2>2, NotifiedFacts
<1>4. /\ UNCHANGED <<entries, available, game, cpc, cbatch>>
      /\ \A v \in Workers \ {w} : batch'[v] = batch[v]
  BY DEF ReturnCandidate, IInv, TypeOK
<1>5. \A b \in Batches : Undelivered(b)' <=> Undelivered(b)
  <2> TAKE b \in Batches
  <2>1. CASE b = batch[w]
    <3>1. CandidateOf(w, b)
      BY <1>1, <2>1 DEF CandidateOf
    <3>2. b \in Elems(free')
      BY <1>2, <2>1
    <3> QED
      BY <3>1, <3>2 DEF Undelivered, Elems
  <2>2. CASE b # batch[w]
    <3>1. \A v \in Workers : CandidateOf(v, b)' <=> CandidateOf(v, b)
      BY <1>1, <1>3, <1>4, <2>2 DEF CandidateOf
    <3>2. b \in Elems(free') <=> b \in Elems(free)
      BY <1>2, <2>2
    <3> QED
      BY <1>4, <3>1, <3>2 DEF Undelivered, Elems
  <2> QED
    BY <2>1, <2>2
<1> QED
  BY <1>1, <1>3, <1>4, <1>5 DEF Still, Waits, EmptyHanded

LEMMA RecycleIsStill ==
    ASSUME IInv, NEW c \in Coordinators, Recycle(c)
    PROVE  Still
<1>1. cbatch[c] \in Batches /\ cpc[c] = "recycle" /\ cpc'[c] = "top"
  BY DEF Recycle, IInv, TypeOK, CoordinatorsOK
<1>2. Elems(free') = Elems(free) \cup {cbatch[c]}
  BY <1>1, AppendFacts DEF Recycle, IInv, TypeOK
<1>3. \A v \in Workers : pc'[v] = pc[v] \/ (pc[v] = "wait" /\ pc'[v] = "pool")
  BY NotifiedFacts DEF Recycle, IInv, TypeOK
<1>4. /\ UNCHANGED <<entries, available, game, batch>>
      /\ \A d \in Coordinators \ {c} : cpc'[d] = cpc[d] /\ cbatch'[d] = cbatch[d]
  BY DEF Recycle, IInv, TypeOK
<1>5. \A v \in Workers, b \in Batches : CandidateOf(v, b)' <=> CandidateOf(v, b)
  BY <1>3, <1>4 DEF CandidateOf
<1>6. \A b \in Batches : Undelivered(b)' <=> Undelivered(b)
  <2> TAKE b \in Batches
  <2>1. CASE b = cbatch[c]
    <3>1. b \in Elems(free')
      BY <1>2, <2>1
    <3> QED
      BY <1>1, <2>1, <3>1 DEF Undelivered, Elems
  <2>2. CASE b # cbatch[c]
    <3>1. b \in Elems(free') <=> b \in Elems(free)
      BY <1>2, <2>2
    <3>2. \A d \in Coordinators : (cpc'[d] = "recycle" /\ cbatch'[d] = b)
                                   <=> (cpc[d] = "recycle" /\ cbatch[d] = b)
      BY <1>1, <1>4, <2>2
    <3> QED
      BY <1>5, <3>1, <3>2 DEF Undelivered, Elems
  <2> QED
    BY <2>1, <2>2
<1> QED
  BY <1>3, <1>4, <1>6 DEF Still, Waits, EmptyHanded

(* An installed batch comes out of a candidate's hands with no entries.       *)
LEMMA InstallIsStill ==
    ASSUME IInv, NEW w \in Workers, Install(w)
    PROVE  Still
<1> USE DEF Goto, coordVars, Reset
<1>1. batch[w] \in Batches /\ pc[w] = "install" /\ pc'[w] = "loop"
  BY DEF Install, IInv, TypeOK, WorkersOK, Holding
<1>2. /\ UNCHANGED <<free, available, game, cpc, cbatch>>
      /\ entries'[batch[w]] = {}
      /\ \A b \in Batches : b # batch[w] => entries'[b] = entries[b]
      /\ \A v \in Workers \ {w} : pc'[v] = pc[v] /\ batch'[v] = batch[v]
  BY <1>1 DEF Install, IInv, TypeOK
<1>3. ASSUME NEW b \in Batches, NEW e \in Entry
      PROVE  Waits(b, e)' <=> Waits(b, e)
  <2>1. CASE b = batch[w]
    <3>1. CandidateOf(w, b)
      BY <1>1, <2>1 DEF CandidateOf
    <3> QED
      BY <1>2, <2>1, <3>1 DEF Waits, Undelivered
  <2>2. CASE b # batch[w]
    <3>1. \A v \in Workers : CandidateOf(v, b)' <=> CandidateOf(v, b)
      BY <1>1, <1>2, <2>2 DEF CandidateOf
    <3> QED
      BY <1>2, <2>2, <3>1 DEF Waits, Undelivered
  <2> QED
    BY <2>1, <2>2
<1> QED
  BY <1>1, <1>2, <1>3 DEF Still, EmptyHanded

-----------------------------------------------------------------------------
(* The steps that move a game.                                               *)

LEMMA TakeGameMoves ==
    ASSUME IInv, GInv, NEW w \in Workers, TakeGame(w)
    PROVE  /\ GInv'
           /\ \E g \in available : /\ available' = available \ {g}
                                   /\ game' = [game EXCEPT ![w] = g] /\ game[w] = NoGame
           /\ \A b \in Batches, e \in Entry : Waits(b, e)' <=> Waits(b, e)
<1> USE DEF Goto, batchVars, coordVars
<1>1. PICK g \in available : available' = available \ {g} /\ game' = [game EXCEPT ![w] = g]
  BY DEF TakeGame
<1>2. /\ UNCHANGED <<free, entries, batch, cpc, cbatch>>
      /\ pc[w] = "idle" /\ pc'[w] = "loop"
      /\ \A v \in Workers \ {w} : pc'[v] = pc[v]
  BY DEF TakeGame, IInv, TypeOK
<1>3. /\ g \in Games /\ game[w] = NoGame /\ game'[w] = g
      /\ \A v \in Workers \ {w} : game'[v] = game[v]
  BY <1>1, <1>2 DEF IInv, TypeOK, GInv, HandsEmpty, EmptyHanded
<1>4. \A b \in Batches, e \in Entry : Waits(b, e)' <=> Waits(b, e)
  <2>1. \A v \in Workers, b \in Batches : CandidateOf(v, b)' <=> CandidateOf(v, b)
    BY <1>2 DEF CandidateOf
  <2> QED
    BY <1>2, <2>1, WaitsUnchanged
<1>5. Kept'
  BY <1>1, <1>3, <1>4, BatchManagerAssumption DEF GInv, Kept
<1>6. QueuedApart'
  BY <1>1, <1>3, <1>4 DEF GInv, QueuedApart
<1>7. HeldApart'
  BY <1>3, <1>4 DEF GInv, QueuedApart, HeldApart
<1>8. WaitingApart'
  BY <1>4 DEF GInv, WaitingApart
<1>9. HandsEmpty'
  BY <1>2, <1>3 DEF GInv, HandsEmpty, EmptyHanded
<1> QED
  BY <1>1, <1>3, <1>4, <1>5, <1>6, <1>7, <1>8, <1>9 DEF GInv

(* A worker that is still writing does so into a batch no coordinator has     *)
(* delivered and nobody can install.                                        *)
LEMMA WritersBatchWaits ==
    ASSUME IInv, NEW w \in Workers, pc[w] \in {"write", "count"}
    PROVE  batch[w] \in Batches /\ Undelivered(batch[w])
<1>1. batch[w] \in Batches /\ ~Quiet(batch[w])
  BY DEF IInv, WorkersOK, Working, Quiet
<1>2. batch[w] \notin Elems(free) /\ \A v \in Workers : ~CandidateOf(v, batch[w])
  BY <1>1 DEF IInv, PoolQuiet, CandidateOf
<1>3. ~claimed[batch[w]]
  BY <1>1 DEF IInv, ClaimsOK, Writing
<1>4. \A c \in Coordinators : ~(cpc[c] = "recycle" /\ cbatch[c] = batch[w])
  BY <1>3 DEF IInv, ClaimsOK
<1> QED
  BY <1>1, <1>2, <1>4 DEF Undelivered, Elems

LEMMA AppendEntryMoves ==
    ASSUME IInv, GInv, NEW w \in Workers, AppendEntry(w)
    PROVE  /\ GInv'
           /\ UNCHANGED available
           /\ game[w] \in Games /\ game' = [game EXCEPT ![w] = NoGame]
           /\ \E d \in Batches, f \in Entry :
                 /\ f.game = game[w]
                 /\ \A b \in Batches, e \in Entry :
                       Waits(b, e)' <=> Waits(b, e) \/ (b = d /\ e = f)
<1> USE DEF Goto, coordVars
<1> DEFINE d == batch[w]
           f == [game |-> game[w], start |-> offset[w], count |-> count[w]]
<1>1. /\ pc[w] = "write" /\ game[w] \in Games /\ count[w] \in 1 .. MaxRequests
      /\ d \in Batches /\ Undelivered(d)
  BY WritersBatchWaits DEF AppendEntry, IInv, WorkersOK, Busy
<1>2. f \in Entry /\ f.game = game[w]
  BY <1>1 DEF Entry, IInv, TypeOK
<1>3. /\ UNCHANGED <<free, available, batch, cpc, cbatch>>
      /\ game' = [game EXCEPT ![w] = NoGame]
      /\ pc'[w] = "count" /\ \A v \in Workers \ {w} : pc'[v] = pc[v]
      /\ game'[w] = NoGame /\ \A v \in Workers \ {w} : game'[v] = game[v]
      /\ entries'[d] = entries[d] \cup {f}
      /\ \A b \in Batches : b # d => entries'[b] = entries[b]
  BY <1>1 DEF AppendEntry, IInv, TypeOK
<1> HIDE DEF d, f
<1>4. \A b \in Batches : Undelivered(b)' <=> Undelivered(b)
  <2>1. \A v \in Workers, b \in Batches : CandidateOf(v, b)' <=> CandidateOf(v, b)
    BY <1>1, <1>3 DEF CandidateOf
  <2> QED
    BY <1>3, <2>1 DEF Undelivered
<1>5. \A b \in Batches, e \in Entry : Waits(b, e)' <=> Waits(b, e) \/ (b = d /\ e = f)
  BY <1>1, <1>3, <1>4 DEF Waits
<1>6. Kept'
  BY <1>1, <1>2, <1>3, <1>5 DEF GInv, Kept
<1>7. QueuedApart'
  BY <1>2, <1>3, <1>5, BatchManagerAssumption DEF GInv, QueuedApart, IInv, TypeOK
<1>8. HeldApart'
  <2>1. \A e \in Entry : e.game \in Games
    BY DEF Entry
  <2> QED
    BY <1>1, <1>2, <1>3, <1>5, <2>1, BatchManagerAssumption DEF GInv, HeldApart
<1>9. WaitingApart'
  BY <1>2, <1>5 DEF GInv, HeldApart, WaitingApart
<1>10. HandsEmpty'
  BY <1>1, <1>3 DEF GInv, HandsEmpty, EmptyHanded
<1> QED
  BY <1>1, <1>2, <1>3, <1>5, <1>6, <1>7, <1>8, <1>9, <1>10 DEF GInv

(* The batch a coordinator infers has never been delivered, and has rows       *)
(* whenever it has entries, so every entry is answered.                      *)
LEMMA InferredBatchWaits ==
    ASSUME IInv, NEW c \in Coordinators, cpc[c] = "infer"
    PROVE  /\ cbatch[c] \in Batches /\ Undelivered(cbatch[c])
           /\ Answered(cbatch[c]) = {e.game : e \in entries[cbatch[c]]}
<1> DEFINE d == cbatch[c]
<1>1. d \in Batches
  BY DEF IInv, CoordinatorsOK
<1>2. d \notin Elems(free) /\ \A w \in Workers : ~CandidateOf(w, d)
  BY DEF IInv, Apart, CoordsApart, CandidateOf, Holding
<1>3. \A k \in Coordinators : ~(cpc[k] = "recycle" /\ cbatch[k] = d)
  BY DEF IInv, Apart, CoordsApart
<1>4. Undelivered(d)
  BY <1>2, <1>3 DEF Undelivered, Elems
<1>5. committed[d] = reserved[d]
  BY <1>1, PushedCompleteFollows DEF PushedComplete, Pushed
<1>6. ASSUME NEW e \in entries[d]
      PROVE  committed[d] # 0
  <2>1. e \in Entry
    BY <1>1 DEF IInv, TypeOK
  <2>2. e.start \in Nat /\ e.count \in Nat /\ e.count >= 1
    BY <2>1, BatchManagerAssumption DEF Entry
  <2>3. e.start + e.count <= reserved[d]
    BY <1>1 DEF IInv, EntriesApart
  <2>4. reserved[d] \in Nat
    BY <1>1, BatchManagerAssumption DEF IInv, TypeOK
  <2> QED
    BY <1>5, <2>2, <2>3, <2>4
<1>7. Answered(d) = {e.game : e \in entries[d]}
  BY <1>6 DEF Answered
<1> QED
  BY <1>1, <1>4, <1>7

LEMMA DeliveryMoves ==
    ASSUME IInv, GInv, NEW c \in Coordinators, InferAndDeliver(c)
    PROVE  /\ GInv'
           /\ UNCHANGED game
           /\ \E d \in Batches :
                 /\ available' = available \cup {e.game : e \in entries[d]}
                 /\ \A e \in entries[d] : Waits(d, e)
                 /\ \A b \in Batches, e \in Entry : Waits(b, e)' <=> Waits(b, e) /\ b # d
<1> USE DEF batchVars, workerVars
<1> DEFINE d == cbatch[c]
<1>1. /\ d \in Batches /\ Undelivered(d)
      /\ Answered(d) = {e.game : e \in entries[d]}
  BY InferredBatchWaits DEF InferAndDeliver
<1>2. /\ UNCHANGED <<free, entries, batch, game, pc, cbatch>>
      /\ available' = available \cup {e.game : e \in entries[d]}
      /\ cpc[c] = "infer" /\ cpc'[c] = "recycle"
      /\ \A k \in Coordinators \ {c} : cpc'[k] = cpc[k]
  BY <1>1 DEF InferAndDeliver, IInv, TypeOK
<1>3. \A e \in entries[d] : e \in Entry /\ Waits(d, e)
  BY <1>1 DEF Waits, IInv, TypeOK
<1>4. \A b \in Batches : Undelivered(b)' <=> Undelivered(b) /\ b # d
  <2>1. \A v \in Workers, b \in Batches : CandidateOf(v, b)' <=> CandidateOf(v, b)
    BY <1>2 DEF CandidateOf
  <2> QED
    BY <1>1, <1>2, <2>1 DEF Undelivered
<1>5. \A b \in Batches, e \in Entry : Waits(b, e)' <=> Waits(b, e) /\ b # d
  BY <1>2, <1>4 DEF Waits
<1> HIDE DEF d
<1>6. Kept'
  <2>1. \A e \in Entry : Waits(d, e) => e.game \in available'
    BY <1>2 DEF Waits
  <2> QED
    BY <1>2, <1>5, <2>1 DEF GInv, Kept
<1>7. QueuedApart'
  <2>1. \A w \in Workers : game[w] \notin available'
    BY <1>1, <1>2, <1>3 DEF GInv, QueuedApart, HeldApart
  <2>2. ASSUME NEW b \in Batches, NEW e \in Entry, Waits(b, e), b # d
        PROVE  e.game \notin available'
    BY <1>1, <1>2, <1>3, <2>2 DEF GInv, QueuedApart, WaitingApart
  <2> QED
    BY <1>2, <1>5, <2>1, <2>2 DEF QueuedApart
<1>8. HeldApart' /\ WaitingApart' /\ HandsEmpty'
  BY <1>2, <1>5 DEF GInv, HeldApart, WaitingApart, HandsEmpty
<1> QED
  BY <1>1, <1>2, <1>3, <1>5, <1>6, <1>7, <1>8 DEF GInv

-----------------------------------------------------------------------------
(* The invariant.                                                           *)

LEMMA InitHasGames == Init => GInv
<1> SUFFICES ASSUME Init PROVE GInv
  OBVIOUS
<1> USE BatchManagerAssumption DEF Init, InitPool, InitThreads
<1>1. \A b \in Batches, e \in Entry : ~Waits(b, e)
  BY DEF Waits
<1> QED
  BY <1>1 DEF GInv, Kept, QueuedApart, HeldApart, WaitingApart, HandsEmpty

(* Every step is still, or one of the three that move a game.                *)
LEMMA StepKinds ==
    ASSUME IInv, [Next]_vars
    PROVE  \/ Still
           \/ \E w \in Workers : TakeGame(w) \/ AppendEntry(w)
           \/ \E c \in Coordinators : InferAndDeliver(c)
<1>1. ASSUME NEW w \in Workers, WorkerStep(w) \/ SpuriousWake(w)
      PROVE  Still \/ TakeGame(w) \/ AppendEntry(w)
  BY <1>1, WorkerStepsAreStill, PoolTakeIsStill, ReturnCandidateIsStill, InstallIsStill
     DEF WorkerStep, ReserveStep, CommitStep
<1>2. ASSUME NEW c \in Coordinators, CoordStep(c) \/ TimeoutFlush(c)
      PROVE  Still \/ InferAndDeliver(c)
  BY <1>2, CoordinatorStepsAreStill, RecycleIsStill DEF CoordStep
<1>3. CASE Stop \/ UNCHANGED vars
  BY <1>3, StopIsStill
<1> QED
  BY <1>1, <1>2, <1>3 DEF Next, Work

LEMMA GamesPreserved ==
    ASSUME IInv, GInv, [Next]_vars
    PROVE  GInv'
  BY StepKinds, StillPreserves, TakeGameMoves, AppendEntryMoves, DeliveryMoves

LEMMA GamesInvariant ==
    ASSUME CommitterMayLag = FALSE
    PROVE  Spec => [](IInv /\ GInv)
<1>1. Init => IInv /\ GInv
  BY InitEstablishes, InitHasGames
<1>2. IInv /\ GInv /\ [Next]_vars => IInv' /\ GInv'
  BY StepPreserves, GamesPreserved
<1> QED
  BY <1>1, <1>2, PTL DEF Spec

-----------------------------------------------------------------------------
(* A game is in one place.                                                  *)

LEMMA HoldersOf ==
    ASSUME TypeOK, NEW g \in Games, NEW h
    PROVE  h \in GameHolders(g) <=>
              \/ \E w \in Workers : game[w] = g /\ h = <<"worker", w>>
              \/ \E b \in Batches, e \in Entry :
                    Waits(b, e) /\ e.game = g /\ h = <<"batch", b, e.start>>
              \/ g \in available /\ h = <<"queue">>
<1> DEFINE FromWorkers == {<<"worker", w>> : w \in {v \in Workers : game[v] = g}}
           Inside(b) == {<<"batch", b, e.start>> : e \in {x \in entries[b] : x.game = g}}
           FromBatches == UNION {Inside(b) : b \in {x \in Batches : Undelivered(x)}}
           FromQueue == IF g \in available THEN {<<"queue">>} ELSE {}
<1>1. h \in GameHolders(g) <=> h \in FromWorkers \/ h \in FromBatches \/ h \in FromQueue
  <2>1. GameHolders(g) = FromWorkers \cup FromBatches \cup FromQueue
    BY DEF GameHolders
  <2> HIDE DEF FromWorkers, FromBatches, FromQueue
  <2> QED
    BY <2>1
<1>2. h \in FromWorkers <=> \E w \in Workers : game[w] = g /\ h = <<"worker", w>>
  OBVIOUS
<1>3. h \in FromBatches <=> \E b \in Batches, e \in Entry :
                           Waits(b, e) /\ e.game = g /\ h = <<"batch", b, e.start>>
  <2>1. \A b \in Batches : entries[b] \subseteq Entry
    BY DEF TypeOK
  <2>2. h \in FromBatches <=> \E b \in Batches : Undelivered(b) /\ h \in Inside(b)
    OBVIOUS
  <2>3. ASSUME NEW b \in Batches
        PROVE  h \in Inside(b) <=> \E e \in Entry : /\ e \in entries[b] /\ e.game = g
                                                    /\ h = <<"batch", b, e.start>>
    BY <2>1
  <2> HIDE DEF Inside
  <2> QED
    BY <2>2, <2>3 DEF Waits
<1>4. h \in FromQueue <=> g \in available /\ h = <<"queue">>
  OBVIOUS
<1> HIDE DEF FromWorkers, FromBatches, FromQueue
<1> QED
  BY <1>1, <1>2, <1>3, <1>4

LEMMA HeldOnceFollows == IInv /\ GInv => GameHeldOnce
<1> SUFFICES ASSUME IInv, GInv, NEW g \in Games
             PROVE  Cardinality(GameHolders(g)) = 1
  BY DEF GameHeldOnce
<1> DEFINE AtWorker(h) == \E w \in Workers : game[w] = g /\ h = <<"worker", w>>
           InBatch(h)  == \E b \in Batches, e \in Entry :
                              Waits(b, e) /\ e.game = g /\ h = <<"batch", b, e.start>>
           InQueue(h)  == g \in available /\ h = <<"queue">>
<1>1. \A h : h \in GameHolders(g) <=> AtWorker(h) \/ InBatch(h) \/ InQueue(h)
  BY HoldersOf DEF IInv
<1>2. \E h : AtWorker(h) \/ InBatch(h) \/ InQueue(h)
  BY DEF GInv, Kept
<1>3. ASSUME NEW h, NEW k, AtWorker(h) \/ InBatch(h) \/ InQueue(h),
             AtWorker(k) \/ InBatch(k) \/ InQueue(k)
      PROVE  h = k
  <2>1. AtWorker(h) => ~InBatch(k) /\ ~InQueue(k)
    BY DEF GInv, QueuedApart, HeldApart
  <2>2. InBatch(h) => ~AtWorker(k) /\ ~InQueue(k)
    BY DEF GInv, QueuedApart, HeldApart
  <2>3. InQueue(h) => ~AtWorker(k) /\ ~InBatch(k)
    BY DEF GInv, QueuedApart
  <2>4. AtWorker(h) /\ AtWorker(k) => h = k
    BY DEF GInv, HeldApart
  <2>5. InBatch(h) /\ InBatch(k) => h = k
    BY DEF GInv, WaitingApart
  <2>6. InQueue(h) /\ InQueue(k) => h = k
    OBVIOUS
  <2> QED
    BY <1>3, <2>1, <2>2, <2>3, <2>4, <2>5, <2>6
<1> HIDE DEF AtWorker, InBatch, InQueue
<1>4. PICK h : GameHolders(g) = {h}
  BY <1>1, <1>2, <1>3
<1> QED
  BY <1>4, FS_Singleton

-----------------------------------------------------------------------------
(* The exchange.                                                            *)

LEMMA SubmittedAre ==
    ASSUME TypeOK, NEW g
    PROVE  g \in Submitted <=> \E b \in Batches, e \in Entry : Waits(b, e) /\ e.game = g
<1>1. \A b \in Batches : entries[b] \subseteq Entry
  BY DEF TypeOK
<1> QED
  BY <1>1 DEF Submitted, Waits

LEMMA SubmittedNext ==
    ASSUME TypeOK', NEW g
    PROVE  g \in Submitted' <=> \E b \in Batches, e \in Entry : Waits(b, e)' /\ e.game = g
<1>1. \A b \in Batches : entries'[b] \subseteq Entry
  BY DEF TypeOK
<1> QED
  BY <1>1 DEF Submitted, Waits

LEMMA StillChangesNothing ==
    ASSUME TypeOK, TypeOK', Still
    PROVE  UNCHANGED <<available, Taken, Submitted>>
<1>1. Submitted' = Submitted
  BY SubmittedAre, SubmittedNext DEF Still
<1> QED
  BY <1>1 DEF Still, Taken

(* The exchange is open until stop() begins, and never again.                *)
LEMMA OpenCloses ==
    ASSUME [Next]_vars
    PROVE  \/ UNCHANGED stage
           \/ stage = "running" /\ stage' # "running" /\ Stop
           \/ stage # "running" /\ stage' # "running" /\ Stop
  BY DEF Next, Work, WorkerStep, ReserveStep, CommitStep, CoordStep, Stop, TakeGame,
         TakeSentinel, SpuriousWake, ReserveLoop, ReserveRows, ReserveNoActive, ReserveFlush,
         ReservePush, PoolShutDown, PoolTake, PoolEmpty, PoolBlock, Install, InstallRaced,
         ReturnCandidate, AppendEntry, CountCommitted, CommitDecide, CommitPush, CoordTop,
         PopReady, PopShutDown, TimeoutFlush, PushFlushedAndPop, InferAndDeliver, Recycle,
         StopSignal, StopFlag, StopNotify, vars

LEMMA TakeGameTakes ==
    ASSUME IInv, GInv, IInv', NEW w \in Workers, TakeGame(w)
    PROVE  \E g \in Games : Exchange!Take(g)
<1>1. PICK g \in available : /\ available' = available \ {g}
                             /\ game' = [game EXCEPT ![w] = g] /\ game[w] = NoGame
  BY TakeGameMoves
<1>2. g \in Games /\ game \in [Workers -> Games \cup {NoGame}] /\ UNCHANGED stage
  BY <1>1 DEF IInv, TypeOK, TakeGame
<1>3. Taken' = Taken \cup {g}
  BY <1>1, <1>2, BatchManagerAssumption DEF Taken
<1>4. Submitted' = Submitted
  BY TakeGameMoves, SubmittedAre, SubmittedNext DEF IInv
<1> QED
  BY <1>1, <1>2, <1>3, <1>4 DEF Exchange!Take

LEMMA AppendEntrySubmits ==
    ASSUME IInv, GInv, IInv', NEW w \in Workers, AppendEntry(w)
    PROVE  \E g \in Games : Exchange!Submit(g)
<1>1. /\ UNCHANGED <<available, stage>>
      /\ game[w] \in Games /\ game' = [game EXCEPT ![w] = NoGame]
      /\ game \in [Workers -> Games \cup {NoGame}]
  BY AppendEntryMoves DEF IInv, TypeOK, AppendEntry
<1>2. \A v \in Workers \ {w} : game[v] # game[w]
  BY <1>1 DEF GInv, HeldApart
<1>3. game[w] \in Taken /\ Taken' = Taken \ {game[w]}
  BY <1>1, <1>2, BatchManagerAssumption DEF Taken
<1>4. Submitted' = Submitted \cup {game[w]}
  <2>1. PICK d \in Batches, f \in Entry :
            /\ f.game = game[w]
            /\ \A b \in Batches, e \in Entry : Waits(b, e)' <=> Waits(b, e) \/ (b = d /\ e = f)
    BY AppendEntryMoves
  <2>2. \A g : g \in Submitted' <=> g \in Submitted \/ g = game[w]
    BY <2>1, SubmittedAre, SubmittedNext DEF IInv
  <2> QED
    BY <2>2
<1> QED
  BY <1>1, <1>3, <1>4 DEF Exchange!Submit

LEMMA DeliveryAnswers ==
    ASSUME IInv, GInv, IInv', NEW c \in Coordinators, InferAndDeliver(c)
    PROVE  \E S \in SUBSET Submitted : Exchange!Answer(S)
<1>1. PICK d \in Batches :
          /\ available' = available \cup {e.game : e \in entries[d]}
          /\ \A e \in entries[d] : Waits(d, e)
          /\ \A b \in Batches, e \in Entry : Waits(b, e)' <=> Waits(b, e) /\ b # d
  BY DeliveryMoves
<1> DEFINE S == {e.game : e \in entries[d]}
<1>2. entries[d] \subseteq Entry
  BY DEF IInv, TypeOK
<1>3. S \subseteq Submitted
  BY <1>1, <1>2, SubmittedAre DEF IInv
<1>4. Submitted' = Submitted \ S
  <2>1. \A e \in Entry : Waits(d, e) => e.game \in S
    BY DEF Waits
  <2>2. \A b \in Batches, e \in Entry : Waits(b, e) /\ b # d => e.game \notin S
    BY <1>1, <1>2 DEF GInv, WaitingApart
  <2> HIDE DEF S
  <2>3. \A g : g \in Submitted' <=> g \in Submitted /\ g \notin S
    BY <1>1, <2>1, <2>2, SubmittedAre, SubmittedNext DEF IInv
  <2> QED
    BY <2>3
<1>5. UNCHANGED <<Taken, stage>>
  BY DEF InferAndDeliver, workerVars, Taken
<1> QED
  BY <1>1, <1>3, <1>4, <1>5 DEF Exchange!Answer

LEMMA StepImplements ==
    ASSUME IInv, GInv, CommitterMayLag = FALSE, [Next]_vars
    PROVE  [Exchange!Next]_Exchange!vars
<1>1. IInv'
  BY StepPreserves
<1>2. CASE Still
  <2>1. UNCHANGED <<available, Taken, Submitted>>
    BY <1>1, <1>2, StillChangesNothing DEF IInv
  <2> QED
    BY <2>1, OpenCloses DEF Exchange!Next, Exchange!Close, Exchange!vars
<1>3. ASSUME NEW w \in Workers, TakeGame(w)
      PROVE  Exchange!Next
  BY <1>1, <1>3, TakeGameTakes DEF Exchange!Next
<1>4. ASSUME NEW w \in Workers, AppendEntry(w)
      PROVE  Exchange!Next
  BY <1>1, <1>4, AppendEntrySubmits DEF Exchange!Next
<1>5. ASSUME NEW c \in Coordinators, InferAndDeliver(c)
      PROVE  Exchange!Next
  BY <1>1, <1>5, DeliveryAnswers DEF Exchange!Next
<1> QED
  BY <1>2, <1>3, <1>4, <1>5, StepKinds

(* For any number of threads, games and batches, and whenever stop() comes, a  *)
(* game is in the available queue, with one worker or in one entry of one   *)
(* undelivered batch, and in one of these only (game_instance.h:42).        *)
THEOREM GamesAreHeldOnce ==
    ASSUME CommitterMayLag = FALSE
    PROVE  Spec => []GameHeldOnce
BY GamesInvariant, HeldOnceFollows, PTL

(* The batcher implements the exchange: a game is answered only if it was      *)
(* submitted, only once, and together with all of its batch; reservations,  *)
(* flushes, pushes and pool moves are invisible to the pipeline.            *)
THEOREM BatcherIsAnExchange ==
    ASSUME CommitterMayLag = FALSE
    PROVE  Spec => ImplementsExchange
<1>1. Init => Exchange!Init
  <2> SUFFICES ASSUME Init PROVE Exchange!Init
    OBVIOUS
  <2>1. Taken = {}
    BY DEF Init, InitThreads, Taken
  <2>2. Submitted = {}
    BY DEF Init, InitPool, Submitted
  <2> QED
    BY <2>1, <2>2 DEF Exchange!Init, Init, InitThreads
<1>2. IInv /\ GInv /\ [Next]_vars => [Exchange!Next]_Exchange!vars
  BY StepImplements
<1> QED
  BY <1>1, <1>2, GamesInvariant, PTL DEF Spec, ImplementsExchange, Exchange!Safety
-----------------------------------------------------------------------------
(* No batch is lost: one that is in no place is unclaimed, and either a       *)
(* worker still writes into it or the worker that counted its last row is   *)
(* about to see that it was the last.                                       *)

Placed(b) ==
    \/ b \in Elems(free) \/ b \in Elems(ready) \/ b = active
    \/ \E w \in Workers : pc[w] \in Holding /\ batch[w] = b
    \/ \E c \in Coordinators : cpc[c] \in CoordHolding /\ cbatch[c] = b

LastCommitter(w, b) == pc[w] = "decide" /\ batch[w] = b /\ seen[w] = reserved[b]

Awaited(b) == ~claimed[b] /\ \E w \in Workers : Writing(w, b) \/ LastCommitter(w, b)

PlacedOrAwaited == \A b \in Batches : Placed(b) \/ Awaited(b)

(* Steps that leave every batch where it is.                                 *)
Unmoved ==
    /\ UNCHANGED <<free, active, ready, reserved, claimed>>
    /\ \A w \in Workers : pc[w] \in Holding \cup Working =>
          /\ batch'[w] = batch[w] /\ seen'[w] = seen[w]
          /\ pc[w] \in Holding => pc'[w] \in Holding
          /\ pc[w] \in {"write", "count"} => pc'[w] \in {"write", "count"}
          /\ pc[w] = "decide" => pc'[w] = "decide"
    /\ \A c \in Coordinators : cpc[c] \in CoordHolding =>
          cpc'[c] \in CoordHolding /\ cbatch'[c] = cbatch[c]

LEMMA UnmovedKeeps ==
    ASSUME PlacedOrAwaited, Unmoved
    PROVE  PlacedOrAwaited'
<1>1. \A b \in Batches : Placed(b) => Placed(b)'
  BY DEF Unmoved, Placed
<1>2. \A b \in Batches : Awaited(b) => Awaited(b)'
  BY DEF Unmoved, Awaited, Writing, LastCommitter, Working
<1> QED
  BY <1>1, <1>2 DEF PlacedOrAwaited

LEMMA WorkerMovesKeep ==
    ASSUME IInv, PlacedOrAwaited, NEW w \in Workers,
           \/ TakeGame(w) \/ TakeSentinel(w) \/ ReserveLoop(w) \/ ReserveNoActive(w)
           \/ PoolShutDown(w) \/ PoolEmpty(w) \/ PoolBlock(w) \/ SpuriousWake(w)
           \/ InstallRaced(w) \/ AppendEntry(w)
    PROVE  PlacedOrAwaited'
<1>1. Unmoved
  BY DEF TakeGame, TakeSentinel, ReserveLoop, ReserveNoActive, PoolShutDown, PoolEmpty,
         PoolBlock, SpuriousWake, InstallRaced, AppendEntry, Goto, batchVars, coordVars,
         IInv, TypeOK, Unmoved, Holding, Working
<1> QED
  BY <1>1, UnmovedKeeps

LEMMA CoordinatorMovesKeep ==
    ASSUME IInv, PlacedOrAwaited, NEW c \in Coordinators,
           CoordTop(c) \/ PopShutDown(c) \/ InferAndDeliver(c)
    PROVE  PlacedOrAwaited'
<1>1. Unmoved
  BY DEF CoordTop, PopShutDown, InferAndDeliver, batchVars, workerVars,
         IInv, TypeOK, Unmoved, Holding, Working, CoordHolding
<1> QED
  BY <1>1, UnmovedKeeps

LEMMA StopKeeps ==
    ASSUME IInv, PlacedOrAwaited, Stop \/ UNCHANGED vars
    PROVE  PlacedOrAwaited'
<1>1. Unmoved
  BY DEF Stop, StopSignal, StopFlag, StopNotify, vars, batchVars, workerVars, coordVars,
         IInv, TypeOK, Unmoved, Holding, Working
<1> QED
  BY <1>1, UnmovedKeeps

LEMMA ReserveRowsKeeps ==
    ASSUME IInv, PlacedOrAwaited, NEW w \in Workers, ReserveRows(w)
    PROVE  PlacedOrAwaited'
<1> USE DEF Goto, coordVars
<1>1. /\ UNCHANGED <<free, active, ready, claimed, cpc, cbatch, seen>>
      /\ pc[w] = "reserve" /\ active \in Batches
      /\ \A v \in Workers \ {w} : pc'[v] = pc[v] /\ batch'[v] = batch[v]
      /\ \A b \in Batches : b # active => reserved'[b] = reserved[b]
  BY DEF ReserveRows, HasRoom, IInv, TypeOK
<1>2. \A b \in Batches : Placed(b) => Placed(b)'
  BY <1>1 DEF Placed, Holding
<1>3. \A b \in Batches : b # active /\ Awaited(b) => Awaited(b)'
  BY <1>1 DEF Awaited, Writing, LastCommitter
<1>4. Placed(active)
  BY DEF Placed
<1> QED
  BY <1>2, <1>3, <1>4 DEF PlacedOrAwaited

(* A detached batch the caller does not get has a row that is not committed,   *)
(* so some worker is still writing into it.                                 *)
LEMMA DetachedIsAwaited ==
    ASSUME IInv, active # NoBatch, ~FlushGivesBatch
    PROVE  active \in Batches /\ ~claimed[active] /\ \E w \in Workers : Writing(w, active)
  BY CommittedWithinReserved DEF IInv, TypeOK, ClaimsOK, FlushGivesBatch

LEMMA ReserveFlushKeeps ==
    ASSUME IInv, PlacedOrAwaited, NEW w \in Workers, ReserveFlush(w)
    PROVE  PlacedOrAwaited'
<1> USE DEF Goto, coordVars
<1>1. /\ UNCHANGED <<free, ready, reserved, cpc, cbatch, seen>>
      /\ pc[w] = "reserve" /\ active \in Batches
      /\ \A v \in Workers \ {w} : pc'[v] = pc[v] /\ batch'[v] = batch[v]
      /\ \A b \in Batches : b # active => claimed'[b] = claimed[b]
  BY DEF ReserveFlush, Flush, IInv, TypeOK
<1>2. \A b \in Batches : b # active /\ Placed(b) => Placed(b)'
  BY <1>1 DEF Placed, Holding
<1>3. \A b \in Batches : b # active /\ Awaited(b) => Awaited(b)'
  BY <1>1 DEF Awaited, Writing, LastCommitter
<1>4. CASE FlushGivesBatch
  <2>1. pc'[w] = "push" /\ batch'[w] = active
    BY <1>4 DEF ReserveFlush, IInv, TypeOK
  <2>2. \A b \in Batches : b = active => Placed(b)'
    BY <2>1 DEF Placed, Holding
  <2> QED
    BY <1>2, <1>3, <2>2 DEF PlacedOrAwaited
<1>5. CASE ~FlushGivesBatch
  <2>1. claimed' = claimed
    BY <1>5 DEF ReserveFlush, Flush
  <2>2. ~claimed[active] /\ \E v \in Workers : Writing(v, active)
    BY <1>1, <1>5, DetachedIsAwaited DEF ReserveFlush
  <2>3. \A b \in Batches : b = active => Awaited(b)'
    BY <1>1, <2>1, <2>2 DEF Awaited, Writing
  <2> QED
    BY <1>2, <1>3, <2>3 DEF PlacedOrAwaited
<1> QED
  BY <1>4, <1>5

LEMMA TimeoutFlushKeeps ==
    ASSUME IInv, PlacedOrAwaited, NEW c \in Coordinators, TimeoutFlush(c)
    PROVE  PlacedOrAwaited'
<1> USE DEF workerVars, coordVars
<1>1. /\ UNCHANGED <<free, ready, reserved, pc, batch, seen>>
      /\ cpc[c] = "pop" /\ active \in Batches
      /\ \A d \in Coordinators \ {c} : cpc'[d] = cpc[d] /\ cbatch'[d] = cbatch[d]
      /\ \A b \in Batches : b # active => claimed'[b] = claimed[b]
  BY DEF TimeoutFlush, Flush, IInv, TypeOK
<1>2. \A b \in Batches : b # active /\ Placed(b) => Placed(b)'
  BY <1>1 DEF Placed, CoordHolding
<1>3. \A b \in Batches : b # active /\ Awaited(b) => Awaited(b)'
  BY <1>1 DEF Awaited, Writing, LastCommitter
<1>4. CASE FlushGivesBatch
  <2>1. cpc'[c] = "push" /\ cbatch'[c] = active
    BY <1>4 DEF TimeoutFlush, IInv, TypeOK
  <2>2. \A b \in Batches : b = active => Placed(b)'
    BY <2>1 DEF Placed, CoordHolding
  <2> QED
    BY <1>2, <1>3, <2>2 DEF PlacedOrAwaited
<1>5. CASE ~FlushGivesBatch
  <2>1. claimed' = claimed
    BY <1>5 DEF TimeoutFlush, Flush
  <2>2. ~claimed[active] /\ \E v \in Workers : Writing(v, active)
    BY <1>1, <1>5, DetachedIsAwaited DEF TimeoutFlush
  <2>3. \A b \in Batches : b = active => Awaited(b)'
    BY <1>1, <2>1, <2>2 DEF Awaited, Writing
  <2> QED
    BY <1>2, <1>3, <2>3 DEF PlacedOrAwaited
<1> QED
  BY <1>4, <1>5

LEMMA PushesKeep ==
    ASSUME IInv, PlacedOrAwaited, NEW w \in Workers, ReservePush(w) \/ CommitPush(w)
    PROVE  PlacedOrAwaited'
<1> USE DEF Goto, coordVars
<1>1. batch[w] \in Batches /\ pc[w] \in {"push", "finish"}
  BY DEF ReservePush, CommitPush, IInv, WorkersOK, Holding
<1>2. Elems(ready') = Elems(ready) \cup {batch[w]}
  BY <1>1, AppendFacts DEF ReservePush, CommitPush, IInv, TypeOK
<1>3. /\ UNCHANGED <<free, active, reserved, claimed, cpc, cbatch, seen>>
      /\ \A v \in Workers \ {w} : pc'[v] = pc[v] /\ batch'[v] = batch[v]
  BY DEF ReservePush, CommitPush, IInv, TypeOK
<1>4. \A b \in Batches : Placed(b) => Placed(b)'
  BY <1>2, <1>3 DEF Placed
<1>5. \A b \in Batches : Awaited(b) => Awaited(b)'
  BY <1>1, <1>3 DEF Awaited, Writing, LastCommitter
<1> QED
  BY <1>4, <1>5 DEF PlacedOrAwaited

LEMMA PoolTakeKeeps ==
    ASSUME IInv, PlacedOrAwaited, NEW w \in Workers, PoolTake(w)
    PROVE  PlacedOrAwaited'
<1> USE DEF Goto, coordVars
<1>1. Elems(free') = Elems(free) \ {batch'[w]}
  BY PopFacts DEF PoolTake, IInv, TypeOK, Apart, PoolApart, HoldersApart, CoordsApart
<1>2. /\ UNCHANGED <<active, ready, reserved, claimed, cpc, cbatch, seen>>
      /\ pc[w] = "pool" /\ pc'[w] = "install"
      /\ \A v \in Workers \ {w} : pc'[v] = pc[v] /\ batch'[v] = batch[v]
  BY DEF PoolTake, IInv, TypeOK
<1>3. \A b \in Batches : Placed(b) => Placed(b)'
  BY <1>1, <1>2 DEF Placed, Holding
<1>4. \A b \in Batches : Awaited(b) => Awaited(b)'
  BY <1>2 DEF Awaited, Writing, LastCommitter
<1> QED
  BY <1>3, <1>4 DEF PlacedOrAwaited

LEMMA InstallKeeps ==
    ASSUME IInv, PlacedOrAwaited, NEW w \in Workers, Install(w)
    PROVE  PlacedOrAwaited'
<1> USE DEF Goto, coordVars, Reset
<1>1. /\ UNCHANGED <<free, ready, cpc, cbatch, seen>>
      /\ pc[w] = "install" /\ active = NoBatch /\ active' = batch[w]
      /\ \A v \in Workers \ {w} : pc'[v] = pc[v] /\ batch'[v] = batch[v]
      /\ \A b \in Batches : b # active' => reserved'[b] = reserved[b] /\ claimed'[b] = claimed[b]
  BY DEF Install, IInv, TypeOK
<1>2. \A b \in Batches : Placed(b) => Placed(b)'
  BY <1>1, BatchManagerAssumption DEF Placed
<1>3. \A b \in Batches : b # active' /\ Awaited(b) => Awaited(b)'
  BY <1>1 DEF Awaited, Writing, LastCommitter
<1>4. \A b \in Batches : b = active' => Placed(b)'
  BY DEF Placed
<1> QED
  BY <1>2, <1>3, <1>4 DEF PlacedOrAwaited

LEMMA ReturnCandidateKeeps ==
    ASSUME IInv, PlacedOrAwaited, NEW w \in Workers, ReturnCandidate(w)
    PROVE  PlacedOrAwaited'
<1> USE DEF coordVars
<1>1. batch[w] \in Batches /\ pc[w] = "return"
  BY DEF ReturnCandidate, IInv, WorkersOK, Holding
<1>2. Elems(free') = Elems(free) \cup {batch[w]}
  BY <1>1, AppendFacts DEF ReturnCandidate, IInv, TypeOK
<1>3. \A v \in Workers \ {w} : pc'[v] = pc[v] \/ (pc[v] = "wait" /\ pc'[v] = "pool")
  <2> DEFINE p == [pc EXCEPT ![w] = "loop"]
  <2>1. p \in [Workers -> WorkerPCs] /\ \A v \in Workers \ {w} : p[v] = pc[v]
    BY DEF IInv, TypeOK, WorkerPCs
  <2>2. pc' \in Notified(p)
    BY DEF ReturnCandidate
  <2> HIDE DEF p
  <2> QED
    BY <2>1, <2>2, NotifiedFacts
<1>4. /\ UNCHANGED <<active, ready, reserved, claimed, cpc, cbatch, seen>>
      /\ \A v \in Workers \ {w} : batch'[v] = batch[v]
  BY DEF ReturnCandidate, IInv, TypeOK
<1>5. \A b \in Batches : Placed(b) => Placed(b)'
  BY <1>2, <1>3, <1>4 DEF Placed, Holding
<1>6. \A b \in Batches : Awaited(b) => Awaited(b)'
  BY <1>1, <1>3, <1>4 DEF Awaited, Writing, LastCommitter
<1> QED
  BY <1>5, <1>6 DEF PlacedOrAwaited

LEMMA RecycleKeeps ==
    ASSUME IInv, PlacedOrAwaited, NEW c \in Coordinators, Recycle(c)
    PROVE  PlacedOrAwaited'
<1>1. cbatch[c] \in Batches
  BY DEF Recycle, IInv, CoordinatorsOK
<1>2. Elems(free') = Elems(free) \cup {cbatch[c]}
  BY <1>1, AppendFacts DEF Recycle, IInv, TypeOK
<1>3. \A v \in Workers : pc'[v] = pc[v] \/ (pc[v] = "wait" /\ pc'[v] = "pool")
  BY NotifiedFacts DEF Recycle, IInv, TypeOK
<1>4. /\ UNCHANGED <<active, ready, reserved, claimed, batch, seen>>
      /\ \A d \in Coordinators \ {c} : cpc'[d] = cpc[d] /\ cbatch'[d] = cbatch[d]
  BY DEF Recycle, IInv, TypeOK
<1>5. \A b \in Batches : Placed(b) => Placed(b)'
  BY <1>2, <1>3, <1>4 DEF Placed, Holding
<1>6. \A b \in Batches : Awaited(b) => Awaited(b)'
  BY <1>3, <1>4 DEF Awaited, Writing, LastCommitter
<1> QED
  BY <1>5, <1>6 DEF PlacedOrAwaited

(* What was queued, and the flushed batch behind it, stays queued but for the   *)
(* batch now in the coordinator's hands.                                    *)
LEMMA FlushedQueue ==
    ASSUME IInv, NEW c \in Coordinators, PushFlushedAndPop(c)
    PROVE  \A b \in Elems(ready) \cup {cbatch[c]} : b \in Elems(ready') \/ b = cbatch'[c]
<1> DEFINE q == Append(ready, cbatch[c])
<1>1. cbatch[c] \in Batches /\ cbatch[c] \notin Elems(ready)
  BY DEF PushFlushedAndPop, IInv, CoordinatorsOK, Apart, CoordsApart
<1>2. ready \in Seq(Batches) /\ Distinct(ready)
  BY DEF IInv, TypeOK, Apart, PoolApart
<1>3. q \in Seq(Batches) /\ Elems(q) = Elems(ready) \cup {cbatch[c]} /\ Distinct(q)
  BY <1>1, <1>2, AppendFacts
<1>4. ready' = Tail(q) /\ cbatch'[c] = Head(q)
  BY DEF PushFlushedAndPop, IInv, TypeOK
<1> HIDE DEF q
<1>5. q # << >>
  <2>1. Elems(<< >>) = {}
    BY DEF Elems
  <2> QED
    BY <1>3, <2>1
<1>6. Elems(Tail(q)) = Elems(q) \ {Head(q)}
  BY <1>3, <1>5, TailFacts
<1> QED
  BY <1>3, <1>4, <1>6

LEMMA PopsKeep ==
    ASSUME IInv, PlacedOrAwaited, NEW c \in Coordinators, PopReady(c) \/ PushFlushedAndPop(c)
    PROVE  PlacedOrAwaited'
<1> USE DEF workerVars
<1>1. /\ UNCHANGED <<free, active, reserved, claimed, pc, batch, seen>>
      /\ cpc'[c] = "infer"
      /\ \A d \in Coordinators \ {c} : cpc'[d] = cpc[d] /\ cbatch'[d] = cbatch[d]
  BY DEF PopReady, PushFlushedAndPop, IInv, TypeOK
<1>2. \A b \in Elems(ready) : b \in Elems(ready') \/ b = cbatch'[c]
  <2>1. CASE PopReady(c)
    BY <2>1, TailFacts DEF PopReady, IInv, TypeOK, Apart, PoolApart
  <2>2. CASE PushFlushedAndPop(c)
    BY <2>2, FlushedQueue
  <2> QED
    BY <2>1, <2>2
<1>3. cpc[c] \in CoordHolding => cbatch[c] \in Elems(ready') \/ cbatch[c] = cbatch'[c]
  <2>1. CASE PopReady(c)
    BY <2>1 DEF PopReady, CoordHolding
  <2>2. CASE PushFlushedAndPop(c)
    BY <2>2, FlushedQueue
  <2> QED
    BY <2>1, <2>2
<1>4. \A b \in Batches : Placed(b) => Placed(b)'
  BY <1>1, <1>2, <1>3 DEF Placed, CoordHolding
<1>5. \A b \in Batches : Awaited(b) => Awaited(b)'
  BY <1>1 DEF Awaited, Writing, LastCommitter
<1> QED
  BY <1>4, <1>5 DEF PlacedOrAwaited

AllCounted ==
    \A b \in Batches : (\A w \in Workers : ~Writing(w, b)) => committed[b] = reserved[b]

LEMMA CountedWhenNobodyWrites == IInv => AllCounted
  BY CommittedWithinReserved DEF IInv, AllCounted

(* The last row counted: whoever counted it has seen every reserved row.       *)
LEMMA CountCommittedKeeps ==
    ASSUME IInv, IInv', PlacedOrAwaited, NEW w \in Workers, CountCommitted(w)
    PROVE  PlacedOrAwaited'
<1> USE DEF Goto, coordVars
<1>1. /\ UNCHANGED <<free, active, ready, reserved, claimed, batch, cpc, cbatch>>
      /\ pc[w] = "count" /\ pc'[w] = "decide"
      /\ batch[w] \in Batches
      /\ \A v \in Workers \ {w} : pc'[v] = pc[v] /\ seen'[v] = seen[v]
      /\ seen'[w] = committed'[batch[w]]
  BY DEF CountCommitted, IInv, TypeOK, WorkersOK, Working
<1>2. \A b \in Batches : Placed(b) => Placed(b)'
  BY <1>1 DEF Placed, Holding
<1>3. \A b \in Batches : b # batch[w] /\ Awaited(b) => Awaited(b)'
  BY <1>1 DEF Awaited, Writing, LastCommitter
<1>4. Awaited(batch[w])'
  <2>1. ~claimed[batch[w]]
    BY <1>1 DEF IInv, ClaimsOK, Writing
  <2>2. CASE \E v \in Workers : Writing(v, batch[w])'
    BY <1>1, <2>1, <2>2 DEF Awaited, Writing
  <2>3. CASE \A v \in Workers : ~Writing(v, batch[w])'
    <3>1. AllCounted'
      BY CountedWhenNobodyWrites, PTL
    <3>2. committed'[batch[w]] = reserved'[batch[w]]
      BY <1>1, <2>3, <3>1 DEF AllCounted
    <3> QED
      BY <1>1, <2>1, <3>2 DEF Awaited, LastCommitter
  <2> QED
    BY <2>2, <2>3
<1> QED
  BY <1>1, <1>2, <1>3, <1>4 DEF PlacedOrAwaited

LEMMA CommitDecideKeeps ==
    ASSUME IInv, PlacedOrAwaited, NEW w \in Workers, CommitDecide(w)
    PROVE  PlacedOrAwaited'
<1> USE DEF Goto, coordVars
<1> PICK d : d = batch[w]
  OBVIOUS
<1>1. /\ UNCHANGED <<free, ready, reserved, cpc, cbatch>>
      /\ pc[w] = "decide" /\ d \in Batches
      /\ active' = active \/ active = d
      /\ \A v \in Workers \ {w} :
            pc'[v] = pc[v] /\ batch'[v] = batch[v] /\ seen'[v] = seen[v]
      /\ \A b \in Batches : b # d => claimed'[b] = claimed[b]
  BY DEF CommitDecide, IInv, TypeOK, WorkersOK, Working
<1>2. \A b \in Batches : b # d /\ Placed(b) => Placed(b)'
  BY <1>1 DEF Placed, Holding
<1>3. \A b \in Batches : b # d /\ Awaited(b) => Awaited(b)'
  BY <1>1 DEF Awaited, Writing, LastCommitter
<1>4. Placed(d)' \/ Awaited(d)'
  <2>1. CASE CommitClaims(w)
    <3>1. pc'[w] = "finish" /\ batch'[w] = d
      BY <2>1 DEF CommitDecide, IInv, TypeOK
    <3> QED
      BY <3>1 DEF Placed, Holding
  <2>2. CASE ~CommitClaims(w)
    <3>1. claimed' = claimed
      BY <2>2 DEF CommitDecide
    <3>2. active = d => active' = active
      BY <1>1, <2>2 DEF CommitDecide, CommitClaims, IInv, ClaimsOK
    <3>3. Placed(d) => Placed(d)'
      BY <1>1, <3>2 DEF Placed, Holding
    <3>4. Awaited(d) /\ ~Placed(d) => Awaited(d)'
      <4>1. ~claimed[d] /\ d # active => ~LastCommitter(w, d)
        BY <2>2 DEF CommitClaims, LastCommitter
      <4> QED
        BY <1>1, <3>1, <4>1 DEF Awaited, Placed, Writing, LastCommitter
    <3> QED
      BY <1>1, <3>3, <3>4 DEF PlacedOrAwaited
  <2> QED
    BY <2>1, <2>2
<1> QED
  BY <1>2, <1>3, <1>4 DEF PlacedOrAwaited

(* The constructor puts every batch in the pool.                             *)
LEMMA InitHasBatches == Init => PlacedOrAwaited
<1> SUFFICES ASSUME Init PROVE PlacedOrAwaited
  OBVIOUS
<1>1. PICK n \in Nat : n = Cardinality(Batches)
  BY FS_CardinalityType, BatchManagerAssumption
<1>2. free \in [1 .. n -> Batches] /\ \A i, j \in 1 .. n : free[i] = free[j] => i = j
  BY <1>1 DEF Init, InitPool, PoolOrders
<1>3. Len(free) = n /\ Elems(free) \subseteq Batches
  <2>1. free \in Seq(Batches) /\ Len(free) = n
    BY <1>2
  <2> QED
    BY <2>1, ElemsAreBatches
<1>4. free \in Bijection(1 .. n, Elems(free))
  <2>1. DOMAIN free = 1 .. n /\ Elems(free) = {free[i] : i \in 1 .. n}
    BY <1>2, <1>3 DEF Elems
  <2>2. free \in [1 .. n -> Elems(free)]
    BY <1>2, <2>1
  <2> QED
    BY <1>2, <2>1, <2>2 DEF Bijection, Injection, Surjection, IsInjective
<1>5. Cardinality(Elems(free)) = Cardinality(Batches)
  BY <1>1, <1>4, FS_CountingElements DEF ExistsBijection
<1>6. Elems(free) = Batches
  BY <1>3, <1>5, FS_Subset, BatchManagerAssumption
<1> QED
  BY <1>6 DEF PlacedOrAwaited, Placed

LEMMA BatchesPreserved ==
    ASSUME IInv, IInv', PlacedOrAwaited, [Next]_vars
    PROVE  PlacedOrAwaited'
<1>1. ASSUME NEW w \in Workers, WorkerStep(w) \/ SpuriousWake(w)
      PROVE  PlacedOrAwaited'
  BY <1>1, WorkerMovesKeep, ReserveRowsKeeps, ReserveFlushKeeps, PushesKeep, PoolTakeKeeps,
     InstallKeeps, ReturnCandidateKeeps, CountCommittedKeeps, CommitDecideKeeps
     DEF WorkerStep, ReserveStep, CommitStep
<1>2. ASSUME NEW c \in Coordinators, CoordStep(c) \/ TimeoutFlush(c)
      PROVE  PlacedOrAwaited'
  BY <1>2, CoordinatorMovesKeep, PopsKeep, RecycleKeeps, TimeoutFlushKeeps DEF CoordStep
<1>3. CASE Stop \/ UNCHANGED vars
  BY <1>3, StopKeeps
<1> QED
  BY <1>1, <1>2, <1>3 DEF Next, Work

LEMMA NoBatchLostFollows == IInv /\ PlacedOrAwaited => NoBatchLost
<1> SUFFICES ASSUME IInv, PlacedOrAwaited, NEW b \in Batches, Places(b) = {}
             PROVE  \E w \in Workers : pc[w] \in {"write", "count", "decide"} /\ batch[w] = b
  BY DEF NoBatchLost
<1>1. b \notin Elems(free) /\ b \notin Elems(ready) /\ b # active
  BY DEF Places, Elems
<1>2. \A w \in Workers : ~(pc[w] \in Holding /\ batch[w] = b)
  BY DEF Places, CandidateOf, PusherOf, Holding
<1>3. \A c \in Coordinators : ~(cpc[c] \in CoordHolding /\ cbatch[c] = b)
  BY DEF Places, CoordOf, CoordHolding
<1>4. Awaited(b)
  BY <1>1, <1>2, <1>3 DEF PlacedOrAwaited, Placed
<1> QED
  BY <1>4 DEF Awaited, Writing, LastCommitter

(* No batch leaks, however many workers race to commit, flush and time it out: *)
(* one that is in no place has a committer still on its way to finding out  *)
(* that it is the last (batch_manager.h:165-182).                           *)
THEOREM BatchesAreNeverLost ==
    ASSUME CommitterMayLag = FALSE
    PROVE  Spec => []NoBatchLost
<1>1. Init => IInv /\ PlacedOrAwaited
  BY InitEstablishes, InitHasBatches
<1>2. IInv /\ PlacedOrAwaited /\ [Next]_vars => IInv' /\ PlacedOrAwaited'
  BY StepPreserves, BatchesPreserved
<1> QED
  BY <1>1, <1>2, NoBatchLostFollows, PTL DEF Spec

=============================================================================
