------------------------- MODULE TrainingRunProofs -------------------------
(***************************************************************************)
(* Theorems about TrainingRun, for any intervals, capacities and schedule  *)
(* and any number of launches, crashes and collected games.                *)
(*                                                                         *)
(* The inductive invariant IInv has, over the types,                       *)
(*   Idle       nothing of a process is left when there is none;           *)
(*   Paced      each part of the loop is entered at its steps only;        *)
(*   DeviceOK   the device works on a step whose loss is still to be read; *)
(*   StepOK     after a step, and until the loop's next part, the trainer  *)
(*              holds the weights and the moments of that step;            *)
(*   NamesOK    a checkpoint is of the step it is named for, with the      *)
(*              temperature of that step;                                  *)
(*   ScheduleSurvives, PublishedOK, LossOK   the schedule, the age of the        *)
(*              published network and the losses folded;                   *)
(*   SavesOK, DirectoryOK, OriginOK   as long as every launch resumed: a   *)
(*              save goes to a step above all others, its three files are  *)
(*              written for one another and the buffer last, and nothing   *)
(*              is pruned before the save is whole.                        *)
(* Beside it, as each is inductive once IInv holds,                        *)
(*   FitOK      the passes are the last evaluations, and a reason given    *)
(*              stands for what is still so;                               *)
(*   RingOK     the ring, and every buffer saved whole, is in the order    *)
(*              the samples were collected in.                             *)
(***************************************************************************)
EXTENDS TrainingRun, FiniteSetTheorems, TLAPS

Pcs == {"down", "loop", "step", "swap", "evaluate", "draw", "fit", "judge",
        "model", "optimizer", "buffer", "prune", "end", "done"}

Trainers ==
  [weights : Stamps \cup {NoNet}, moments : Stamps \cup {NoMoments},
   rate : Nat, adamRate : Nat, submitted : Nat, pending : BOOLEAN,
   busy : BOOLEAN, finalized : Nat]

Nets == [weights : Stamps, at : 0 .. NumSteps]

RingsOf(n) == [slots : [0 .. n - 1 -> Nat], pos : 0 .. n - 1, total : 0 .. n]

Cut == {Torn, Missing}

\* the three files of a save
Saves == [model : ModelFiles \cup Cut, optimizer : OptimizerFiles \cup Cut,
          buffer : BufferFiles \cup Cut]

DiskTyped ==
  /\ mode \in Modes
  /\ launch \in 0 .. MaxLaunches /\ born \in Nat
  /\ reused \in BOOLEAN /\ saved \in BOOLEAN
  /\ files \in [1 .. NumSteps -> Saves]

ProcessTyped ==
  /\ pc \in Pcs
  /\ step \in 0 .. NumSteps
  /\ trainer \in Trainers
  /\ judged \in Stamps \cup {NoNet} /\ opponent \in Stamps \cup {NoNet}
  /\ temperature \in Nat
  /\ plateau \in [best : Int, streak : Nat]
  /\ loss \in [last : Nat, folds : Nat]

Idle == pc = "down" => NoProcess

\* What a process has that trains by playing, and what any process has.
Runs ==
  pc # "down" =>
    /\ launch > 0
    /\ trainer.weights \in Stamps
    /\ mode = "train" => net \in Nets /\ \E n \in Nat \ {0} : ring \in RingsOf(n)
    /\ mode = "distil" => net = NoNet

Paced ==
  /\ pc \in {"step", "draw", "fit"} => step < NumSteps
  /\ pc \in {"step", "swap", "buffer"} => mode = "train"
  /\ pc \in {"draw", "fit", "judge"} => mode = "distil"

DeviceOK ==
  /\ trainer.busy => trainer.pending
  /\ ~trainer.pending => trainer.finalized = trainer.submitted
  /\ trainer.rate = trainer.adamRate

\* The loop is between a step and the end of its save.
Stepped ==
  \/ pc \in {"swap", "model", "optimizer", "buffer", "prune"}
  \/ mode = "distil" /\ pc = "evaluate"

StepOK ==
  Stepped => /\ step > 0
             /\ trainer.weights = Stamp(step) /\ trainer.moments = Stamp(step)

NamesOK ==
  \A s \in 1 .. NumSteps :
    Readable(files[s].model) =>
      /\ files[s].model.step = s
      /\ mode = "train" => files[s].model.temperature = TemperatureAt(s)

\* The step the published network is not older than.
Due(s) == s - (s % SwapInterval)

PublishedOK ==
  mode = "train" /\ pc # "down" =>
    /\ pc = "swap" => net.at >= Due(step - 1)
    /\ pc # "swap" => net.at >= Due(step)

LossOK ==
  mode = "distil" /\ pc # "down" =>
    /\ loss.folds = loss.last
    /\ loss.last = IF pc = "done" \/ trainer.submitted = 0 THEN trainer.submitted
                   ELSE trainer.submitted - 1

SavesOK ==
  /\ pc # "down" => \A s \in Named(files) : s <= step
  /\ Stepped /\ pc \in {"swap", "model", "evaluate"} => step \notin Named(files)
  /\ pc = "optimizer" => files[step].optimizer = Missing /\ files[step].buffer = Missing
  /\ pc = "buffer" => files[step].buffer = Missing
  /\ pc \in {"optimizer", "buffer", "prune"} =>
       Readable(files[step].model) /\ files[step].model.weights = Stamp(step)
  /\ pc \in {"buffer", "prune"} =>
       Readable(files[step].optimizer) /\ files[step].optimizer.moments = Stamp(step)
  /\ pc = "prune" /\ WithBuffer =>
       Readable(files[step].buffer) /\ files[step].buffer.stamp = Stamp(step)

\* A buffer, or what was begun of one, has the files of its save beside it.
TogetherAt(s) ==
  /\ files[s].model = Missing => files[s] = NoFiles
  /\ mode = "train" /\ files[s].buffer # Missing =>
       /\ Readable(files[s].model) /\ Readable(files[s].optimizer)
       /\ files[s].optimizer.moments = files[s].model.weights
       /\ files[s].buffer # Torn =>
            files[s].buffer.stamp = files[s].model.weights

DirectoryOK ==
  /\ \A s \in 1 .. NumSteps : TogetherAt(s)
  /\ saved => \E s \in 1 .. NumSteps : Complete(files, s, WithBuffer)

OriginOK ==
  origin # NoNet /\ mode = "train" =>
    origin.moments = origin.weights /\ origin.buffer = origin.weights

DiskOK == DiskTyped /\ NamesOK /\ (~reused => DirectoryOK)

ProcessOK ==
  /\ ProcessTyped /\ Idle /\ Runs /\ Paced /\ DeviceOK /\ StepOK
  /\ ScheduleSurvives /\ PublishedOK /\ LossOK
  /\ ~reused => SavesOK

IInv == DiskOK /\ ProcessOK /\ (~reused => OriginOK)

-----------------------------------------------------------------------------
(* Numbers: the steps at which an interval comes round.                      *)

LEMMA Remainder ==
  ASSUME NEW d \in Nat \ {0}, NEW q \in Nat, NEW r \in 0 .. d - 1
  PROVE  (d * q + r) % d = r
OBVIOUS

LEMMA RestStep ==
  ASSUME NEW n \in Nat, NEW d \in Nat \ {0}, (n + 1) % d # 0
  PROVE  (n + 1) % d = (n % d) + 1
<1> DEFINE q == (n + 1) \div d
           r == (n + 1) % d
<1>1. r = (n + 1) - d * q /\ q \in Nat /\ r \in 0 .. d - 1
  OBVIOUS
<1> HIDE DEF q
<1>2. r - 1 \in 0 .. d - 1 /\ d * q \in Nat
  BY <1>1
<1>3. n = d * q + (r - 1)
  BY <1>1, <1>2
<1>4. n % d = r - 1
  <2> HIDE DEF r
  <2> QED BY <1>1, <1>2, <1>3, Remainder
<1> QED BY <1>1, <1>4

LEMMA Constants ==
  /\ NumSteps \in Nat \ {0} /\ CheckpointInterval \in Nat \ {0}
  /\ MaxCheckpoints \in Nat \ {0} /\ EvalInterval \in Nat
  /\ MaxLaunches \in Nat /\ InitialTemperature \in Nat /\ InitialRate \in Nat
<1>1. "train" \in Modes \/ "distil" \in Modes
  BY TrainingAssumption
<1> QED BY <1>1, TrainingAssumption DEF ValidTraining, ValidDistil

LEMMA TrainConstants ==
  ASSUME "train" \in Modes
  PROVE  /\ SwapInterval \in Nat \ {0} /\ MinTemperature \in Nat \ {0}
         /\ MinTemperature <= InitialTemperature
         /\ DecayStart \in Nat /\ DecayStartValue \in Nat /\ MinRate \in Nat
         /\ DecayStartValue > 0 => DecayStartValue >= MinTemperature
         /\ \A c \in Capacities : c \in Nat \ {0}
  BY TrainingAssumption DEF ValidTraining

\* The age of a network published at the last step that was due.
LEMMA DueStep ==
  ASSUME "train" \in Modes, NEW s \in Nat
  PROVE  /\ Due(s) \in Nat /\ Due(s) <= s /\ s - Due(s) < SwapInterval
         /\ s % SwapInterval = 0 => Due(s) = s
         /\ (s + 1) % SwapInterval # 0 => Due(s + 1) = Due(s)
<1>1. SwapInterval \in Nat \ {0}
  BY TrainConstants
<1>2. /\ s \div SwapInterval \in Nat /\ s % SwapInterval \in 0 .. SwapInterval - 1
      /\ s % SwapInterval = s - SwapInterval * (s \div SwapInterval)
  BY <1>1
<1>3. SwapInterval * (s \div SwapInterval) \in Nat
  BY <1>1, <1>2
<1>4. /\ Due(s) \in Nat /\ Due(s) <= s /\ s - Due(s) < SwapInterval
      /\ s % SwapInterval = 0 => Due(s) = s
  BY <1>1, <1>2, <1>3 DEF Due
<1>5. ASSUME (s + 1) % SwapInterval # 0
      PROVE  Due(s + 1) = Due(s)
  <2>1. (s + 1) % SwapInterval = (s % SwapInterval) + 1
    BY <1>1, <1>5, RestStep
  <2> QED BY <2>1, <1>1, <1>2 DEF Due
<1> QED BY <1>4, <1>5

LEMMA MaxOfTwo ==
  ASSUME NEW a \in Int, NEW b \in Int
  PROVE  Max({a, b}) = IF a < b THEN b ELSE a
<1> DEFINE m == IF a < b THEN b ELSE a
<1>1. m \in {a, b} /\ \A y \in {a, b} : m >= y
  OBVIOUS
<1>2. \E x \in {a, b} : \A y \in {a, b} : x >= y
  BY <1>1
<1>3. Max({a, b}) \in {a, b} /\ \A y \in {a, b} : Max({a, b}) >= y
  BY ONLY <1>2 DEF Max
<1> QED BY <1>3

\* One more step of the schedule is the schedule one step further.
LEMMA TemperatureStep ==
  ASSUME "train" \in Modes, NEW s \in Nat
  PROVE  /\ TemperatureAt(s) \in Nat
         /\ Cooled(TemperatureAt(s), s + 1) = TemperatureAt(s + 1)
<1> DEFINE jump == DecayStartValue > 0 /\ DecayStart > 0
           start == IF jump THEN DecayStartValue ELSE InitialTemperature
           taken(k) == k - DecayStart + (IF jump \/ DecayStart = 0 THEN 0 ELSE 1)
<1>1. /\ MinTemperature \in Nat \ {0} /\ MinTemperature <= InitialTemperature
      /\ DecayStart \in Nat /\ DecayStartValue \in Nat /\ InitialTemperature \in Nat
      /\ DecayStartValue > 0 => DecayStartValue >= MinTemperature
  BY TrainConstants, Constants
<1>2. \A k \in Nat : start - taken(k) \in Int
  BY <1>1
<1>3. \A k \in Nat : ~(k < DecayStart \/ k = 0) =>
        TemperatureAt(k) = IF MinTemperature < start - taken(k)
                           THEN start - taken(k) ELSE MinTemperature
  <2> SUFFICES ASSUME NEW k \in Nat, ~(k < DecayStart \/ k = 0)
      PROVE  TemperatureAt(k) = IF MinTemperature < start - taken(k)
                           THEN start - taken(k) ELSE MinTemperature
    OBVIOUS
  <2>1. TemperatureAt(k) = Max({MinTemperature, start - taken(k)})
    BY DEF TemperatureAt
  <2> QED BY <2>1, <1>1, <1>2, MaxOfTwo
<1>4. \A k \in Nat : k < DecayStart \/ k = 0 => TemperatureAt(k) = InitialTemperature
  BY DEF TemperatureAt
<1>5. TemperatureAt(s) \in Nat
  BY <1>1, <1>2, <1>3, <1>4
<1>6. CASE s + 1 < DecayStart
  BY <1>6, <1>1, <1>4 DEF Cooled
<1>7. CASE s + 1 = DecayStart
  <2>1. TemperatureAt(s) = InitialTemperature
    BY <1>7, <1>1, <1>4
  <2>2. ~(s + 1 < DecayStart \/ s + 1 = 0) /\ DecayStart > 0
    BY <1>7, <1>1
  <2>3. TemperatureAt(s + 1) = IF MinTemperature < start - taken(s + 1)
                               THEN start - taken(s + 1) ELSE MinTemperature
    BY <2>2, <1>3
  <2> QED BY <2>1, <2>2, <2>3, <1>1, <1>7 DEF Cooled
<1>8. CASE s + 1 > DecayStart
  <2>1. TemperatureAt(s + 1) = IF MinTemperature < start - taken(s + 1)
                               THEN start - taken(s + 1) ELSE MinTemperature
    BY <1>8, <1>1, <1>3
  <2>2. CASE s < DecayStart \/ s = 0
    <3>1. s = 0 /\ DecayStart = 0 /\ TemperatureAt(s) = InitialTemperature
      BY <2>2, <1>8, <1>1, <1>4
    <3> QED BY <3>1, <2>1, <1>1 DEF Cooled
  <2>3. CASE ~(s < DecayStart \/ s = 0)
    <3>1. TemperatureAt(s) = IF MinTemperature < start - taken(s)
                             THEN start - taken(s) ELSE MinTemperature
      BY <2>3, <1>3
    <3>2. start - taken(s + 1) = start - taken(s) - 1 /\ start - taken(s) \in Int
      BY <1>1
    <3>3. Cooled(TemperatureAt(s), s + 1) =
            IF TemperatureAt(s) > MinTemperature THEN TemperatureAt(s) - 1
            ELSE MinTemperature
      BY <1>8, <1>1 DEF Cooled
    <3> HIDE DEF start, taken
    <3> QED BY <3>1, <3>2, <3>3, <2>1, <1>1
  <2> QED BY <2>2, <2>3
<1> QED BY <1>1, <1>5, <1>6, <1>7, <1>8

-----------------------------------------------------------------------------
(* Greatest elements.                                                      *)

NatLess == {x \in Nat \X Nat : x[1] < x[2]}

LEMMA NatLessWF == IsWellFoundedOn(NatLess, Nat)
  BY NatLessThanWellFounded DEF OpToRel, NatLess

LEMMA LeastNatural ==
  ASSUME NEW T, T \subseteq Nat, T # {}
  PROVE  \E t \in T : \A u \in T : t <= u
<1>1. PICK t \in T : \A u \in T : ~(<<u, t>> \in NatLess)
  BY NatLessWF, WFMin
<1>2. \A u \in T : t <= u
  <2> SUFFICES ASSUME NEW u \in T PROVE t <= u
    OBVIOUS
  <2>1. u \in Nat /\ t \in Nat /\ ~(<<u, t>> \in NatLess)
    BY <1>1
  <2>2. ~(u < t)
    BY <2>1 DEF NatLess
  <2> QED BY <2>1, <2>2
<1> QED BY <1>2

-----------------------------------------------------------------------------
(* The ring.                                                                 *)

LEMMA RingSize ==
  ASSUME NEW n \in Nat \ {0}, NEW r \in RingsOf(n)
  PROVE  Capacity(r) = n /\ Held(r) = r.total /\ r.total \in 0 .. n
<1>1. DOMAIN r.slots = 0 .. n - 1 /\ r.total \in 0 .. n
  BY DEF RingsOf
<1>2. Cardinality(0 .. n - 1) = n
  BY FS_Interval
<1> QED BY <1>1, <1>2 DEF Capacity, Held

LEMMA NewRingType ==
  ASSUME NEW n \in Nat \ {0}
  PROVE  NewRing(n) \in RingsOf(n)
  BY DEF NewRing, RingsOf, NoSample

LEMMA AddType ==
  ASSUME NEW n \in Nat \ {0}, NEW r \in RingsOf(n), NEW s \in Nat
  PROVE  Add(r, s) \in RingsOf(n)
<1>1. /\ r.slots \in [0 .. n - 1 -> Nat] /\ r.pos \in 0 .. n - 1
      /\ r.total \in 0 .. n /\ Capacity(r) = n
  BY RingSize DEF RingsOf
<1>2. /\ [r.slots EXCEPT ![r.pos] = s] \in [0 .. n - 1 -> Nat]
      /\ (r.pos + 1) % n \in 0 .. n - 1
      /\ (IF r.total < n THEN r.total + 1 ELSE r.total) \in 0 .. n
  BY <1>1
<1> QED BY <1>1, <1>2 DEF Add, RingsOf

\* A batch is added one sample after the other.
LEMMA AddBatchSteps ==
  ASSUME NEW n \in Nat \ {0}, NEW r \in RingsOf(n), NEW samples \in Seq(Nat)
  PROVE  \E after :
           /\ after[0] = r
           /\ \A i \in 1 .. Len(samples) : after[i] = Add(after[i - 1], samples[i])
           /\ AddBatch(r, samples) = after[Len(samples)]
<1> DEFINE len == Len(samples)
           next(f) == [i \in 0 .. len |->
                         IF i = 0 THEN r ELSE Add(f[i - 1], samples[i])]
           after == CHOOSE f : f = next(f)
           upTo(k, g) == /\ g \in [0 .. k -> RingsOf(n)] /\ g[0] = r
                         /\ \A i \in 1 .. k : g[i] = Add(g[i - 1], samples[i])
           bad == {k \in 0 .. len : \A g \in [0 .. k -> RingsOf(n)] : ~upTo(k, g)}
<1>1. len \in Nat /\ \A i \in 1 .. len : samples[i] \in Nat
  OBVIOUS
<1>2. bad = {}
  <2> SUFFICES ASSUME bad # {} PROVE FALSE
    OBVIOUS
  <2>0. bad \subseteq 0 .. len /\ bad \subseteq Nat
    BY <1>1
  <2> HIDE DEF bad
  <2>1. PICK k \in bad : \A u \in bad : k <= u
    BY <2>0, LeastNatural
  <2>2. k \in 0 .. len /\ \A g \in [0 .. k -> RingsOf(n)] : ~upTo(k, g)
    BY <2>0 DEF bad
  <2>3. CASE k = 0
    <3>1. upTo(0, [i \in 0 .. 0 |-> r])
      OBVIOUS
    <3> QED BY <3>1, <2>2, <2>3
  <2>4. CASE k # 0
    <3>1. k - 1 \in 0 .. len /\ k \in 1 .. len /\ ~(k <= k - 1)
      BY <2>2, <2>4, <1>1
    <3>7. k - 1 \notin bad
      BY <2>1, <3>1
    <3>2. PICK g \in [0 .. k - 1 -> RingsOf(n)] : upTo(k - 1, g)
      BY <3>1, <3>7 DEF bad
    <3> DEFINE h == [i \in 0 .. k |->
                       IF i = k THEN Add(g[k - 1], samples[k]) ELSE g[i]]
    <3>3. Add(g[k - 1], samples[k]) \in RingsOf(n)
      BY <3>1, <1>1, AddType
    <3>4. h \in [0 .. k -> RingsOf(n)]
      BY <3>1, <3>3
    <3>5. h[0] = r
      BY <3>1, <3>2
    <3>6. \A i \in 1 .. k : h[i] = Add(h[i - 1], samples[i])
      <4> SUFFICES ASSUME NEW i \in 1 .. k PROVE h[i] = Add(h[i - 1], samples[i])
        OBVIOUS
      <4>1. CASE i = k
        <5>1. h[k] = Add(g[k - 1], samples[k]) /\ h[k - 1] = g[k - 1]
          BY <3>1
        <5> QED BY <5>1, <4>1
      <4>2. CASE i # k
        <5>1. i \in 1 .. k - 1 /\ h[i] = g[i] /\ h[i - 1] = g[i - 1]
          BY <4>2, <3>1
        <5> QED BY <5>1, <3>2
      <4> QED BY <4>1, <4>2
    <3> QED BY <3>4, <3>5, <3>6, <2>2
  <2> QED BY <2>3, <2>4
<1>3. PICK g \in [0 .. len -> RingsOf(n)] : upTo(len, g)
  <2>1. len \in 0 .. len
    BY <1>1
  <2>3. len \notin bad
    <3> HIDE DEF bad
    <3> QED BY <1>2
  <2>2. \E g \in [0 .. len -> RingsOf(n)] : upTo(len, g)
    <3> HIDE DEF upTo, after, next
    <3> QED BY <2>1, <2>3
  <2> QED BY <2>2
<1>4. g = next(g)
  <2>1. \A i \in 0 .. len : g[i] = next(g)[i]
    BY <1>1, <1>3
  <2> QED BY <2>1
<1>5. after = next(after)
  BY <1>4
<1>6. AddBatch(r, samples) = after[len]
  BY DEF AddBatch
<1>7. after[0] = r /\ \A i \in 1 .. len : after[i] = Add(after[i - 1], samples[i])
  <2> HIDE DEF after
  <2>1. \A i \in 0 .. len :
          after[i] = IF i = 0 THEN r ELSE Add(after[i - 1], samples[i])
    BY <1>5
  <2> HIDE DEF next
  <2>2. 0 \in 0 .. len /\ \A i \in 1 .. len : i \in 0 .. len /\ i # 0
    BY <1>1
  <2> QED BY <2>1, <2>2
<1> HIDE DEF after
<1> QED BY <1>1, <1>6, <1>7

LEMMA AddBatchType ==
  ASSUME NEW n \in Nat \ {0}, NEW r \in RingsOf(n), NEW samples \in Seq(Nat)
  PROVE  AddBatch(r, samples) \in RingsOf(n)
<1> DEFINE len == Len(samples)
<1>1. len \in Nat /\ \A i \in 1 .. len : samples[i] \in Nat
  OBVIOUS
<1>2. PICK after : /\ after[0] = r
                   /\ \A i \in 1 .. len : after[i] = Add(after[i - 1], samples[i])
                   /\ AddBatch(r, samples) = after[len]
  BY AddBatchSteps
<1> HIDE DEF len
<1> DEFINE wrong == {k \in 0 .. len : after[k] \notin RingsOf(n)}
<1>3. wrong = {}
  <2> SUFFICES ASSUME wrong # {} PROVE FALSE
    OBVIOUS
  <2>0. wrong \subseteq 0 .. len /\ wrong \subseteq Nat
    BY <1>1
  <2> HIDE DEF wrong
  <2>1. PICK k \in wrong : \A u \in wrong : k <= u
    BY <2>0, LeastNatural
  <2>2. k \in 0 .. len /\ after[k] \notin RingsOf(n) /\ k # 0
    BY <1>2, <2>0 DEF wrong
  <2>3. k - 1 \in 0 .. len /\ k \in 1 .. len /\ ~(k <= k - 1)
    BY <2>2, <1>1
  <2>4. after[k - 1] \in RingsOf(n)
    BY <2>1, <2>3 DEF wrong
  <2>5. after[k] = Add(after[k - 1], samples[k])
    BY <2>3, <1>2
  <2> QED BY <2>2, <2>3, <2>4, <2>5, <1>1, AddType
<1>4. after[len] \in RingsOf(n)
  <2>1. len \in 0 .. len
    BY <1>1
  <2> QED BY <2>1, <1>3
<1> QED BY <1>2, <1>4

LEMMA SaveRingType ==
  ASSUME NEW n \in Nat \ {0}, NEW r \in RingsOf(n)
  PROVE  SaveRing(r) \in Seq(Nat)
<1>1. /\ r.slots \in [0 .. n - 1 -> Nat] /\ r.pos \in 0 .. n - 1
      /\ Held(r) \in Nat /\ Capacity(r) = n
  BY RingSize DEF RingsOf
<1> DEFINE first == IF Held(r) < Capacity(r) THEN 0 ELSE r.pos
<1>2. \A i \in 1 .. Held(r) : r.slots[(first + i - 1) % Capacity(r)] \in Nat
  <2> SUFFICES ASSUME NEW i \in 1 .. Held(r)
               PROVE  r.slots[(first + i - 1) % n] \in Nat
    BY <1>1
  <2>1. first + i - 1 \in Nat
    BY <1>1
  <2>2. (first + i - 1) % n \in 0 .. n - 1
    BY <2>1
  <2> QED BY <2>2, <1>1
<1>3. SaveRing(r) = [i \in 1 .. Held(r) |-> r.slots[(first + i - 1) % Capacity(r)]]
  BY DEF SaveRing
<1> DEFINE size == Held(r)
           kept(i) == r.slots[(first + i - 1) % Capacity(r)]
<1>4. size \in Nat /\ \A i \in 1 .. size : kept(i) \in Nat
  BY <1>1, <1>2
<1>5. SaveRing(r) = [i \in 1 .. size |-> kept(i)]
  BY <1>3
<1> HIDE DEF size, kept
<1>6. [i \in 1 .. size |-> kept(i)] \in Seq(Nat)
  BY <1>4
<1> QED BY <1>5, <1>6

LEMMA LoadRingType ==
  ASSUME NEW n \in Nat \ {0}, NEW file \in Seq(Nat)
  PROVE  LoadRing(file, n) \in RingsOf(n)
<1> DEFINE count == IF Len(file) > n THEN n ELSE Len(file)
<1>1. count \in 0 .. n /\ count <= Len(file)
  OBVIOUS
<1>2. \A i \in 0 .. n - 1 : (IF i < count THEN file[i + 1] ELSE NoSample) \in Nat
  BY <1>1 DEF NoSample
<1>3. count % n \in 0 .. n - 1
  <2> HIDE DEF count
  <2>1. count \in Nat
    BY <1>1
  <2> QED BY <2>1
<1>4. LoadRing(file, n) =
        [slots |-> [i \in 0 .. n - 1 |-> IF i < count THEN file[i + 1] ELSE NoSample],
         pos |-> count % n, total |-> count]
  BY DEF LoadRing
<1> HIDE DEF count
<1> QED BY <1>1, <1>2, <1>3, <1>4 DEF RingsOf

-----------------------------------------------------------------------------
(* The trainer and the names of the checkpoints.                             *)

LEMMA Tokens ==
  /\ ~Readable(Missing) /\ ~Readable(Torn) /\ Torn # Missing
  /\ \A f \in ModelFiles \cup OptimizerFiles \cup BufferFiles : Readable(f)
  /\ Half \notin Stamps /\ Half # NoNet /\ NoNet \notin Stamps
<1>1. Half \notin Stamps /\ NoNet \notin Stamps
  BY TokenAssumption
<1>2. \A f \in ModelFiles \cup OptimizerFiles \cup BufferFiles :
         f # Torn /\ f # Missing
  BY TokenAssumption
<1> QED BY <1>1, <1>2, TokenAssumption DEF Readable

LEMMA WaitedIs ==
  ASSUME NEW t \in Trainers, t.busy => t.pending
  PROVE  /\ Waited(t) \in Trainers
         /\ ~Waited(t).pending /\ ~Waited(t).busy
         /\ Waited(t).weights = t.weights /\ Waited(t).moments = t.moments
         /\ Waited(t).rate = t.rate /\ Waited(t).adamRate = t.adamRate
         /\ Waited(t).submitted = t.submitted
         /\ Waited(t).finalized = IF t.pending THEN t.submitted ELSE t.finalized
         /\ LossRead(t) = Waited(t).finalized
         /\ Clone(t) = t.weights /\ Weights(Waited(t)) = t.weights
         /\ Moments(Waited(t)) = t.moments
<1>1. CASE t.pending
  BY <1>1 DEF Waited, Trainers, LossRead, Clone, Weights, Moments
<1>2. CASE ~t.pending
  BY <1>2 DEF Waited, Trainers, LossRead, Clone, Weights, Moments
<1> QED BY <1>1, <1>2

LEMMA TrainedIs ==
  ASSUME NEW t \in Trainers, t.busy => t.pending, NEW s \in Stamps
  PROVE  /\ Trained(t, s) \in Trainers
         /\ Trained(t, s).weights = s /\ Trained(t, s).moments = s
         /\ Trained(t, s).rate = t.rate /\ Trained(t, s).adamRate = t.adamRate
         /\ Trained(t, s).submitted = t.submitted + 1
         /\ Trained(t, s).pending /\ Trained(t, s).busy
<1> DEFINE w == Waited(t)
<1>1. /\ w \in Trainers /\ w.rate = t.rate /\ w.adamRate = t.adamRate
      /\ w.submitted = t.submitted
  BY WaitedIs
<1>2. Trained(t, s) = [w EXCEPT !.weights = s, !.moments = s,
                                !.submitted = @ + 1, !.pending = TRUE, !.busy = TRUE]
  BY DEF Trained
<1> HIDE DEF w
<1>3. /\ w.rate \in Nat /\ w.adamRate \in Nat /\ w.submitted \in Nat
      /\ w.finalized \in Nat
  BY <1>1 DEF Trainers
<1>4. Trained(t, s) = [weights |-> s, moments |-> s, rate |-> w.rate,
                       adamRate |-> w.adamRate, submitted |-> w.submitted + 1,
                       pending |-> TRUE, busy |-> TRUE, finalized |-> w.finalized]
  BY <1>1, <1>2 DEF Trainers
<1>5. Trained(t, s) \in Trainers
  BY <1>3, <1>4 DEF Trainers
<1> QED BY <1>1, <1>4, <1>5

LEMMA StampIs ==
  ASSUME DiskTyped, launch > 0, NEW s \in 0 .. NumSteps
  PROVE  Stamp(s) \in Stamps
  BY Constants DEF DiskTyped, Stamp, Stamps

LEMMA LatestIs ==
  ASSUME DiskTyped, Named(files) # {}
  PROVE  /\ Latest(files) \in 1 .. NumSteps /\ files[Latest(files)].model # Missing
         /\ \A s \in Named(files) : s <= Latest(files)
<1> DEFINE S == Named(files)
           T == {k \in Nat : \E s \in S : k = NumSteps - s}
<1>1. S \subseteq 1 .. NumSteps /\ NumSteps \in Nat /\ \A s \in S : files[s].model # Missing
  BY Constants DEF Named, DiskTyped
<1>2. \A s \in S : s \in Int /\ NumSteps - s \in Nat
  BY <1>1
<1> HIDE DEF S
<1>3. T \subseteq Nat /\ T # {}
  <2>1. S # {}
    BY DEF S
  <2> QED BY <2>1, <1>2
<1>4. PICK t \in T : \A u \in T : t <= u
  BY <1>3, LeastNatural
<1>5. PICK m \in S : t = NumSteps - m
  OBVIOUS
<1>6. \A s \in S : m >= s
  <2> SUFFICES ASSUME NEW s \in S PROVE m >= s
    OBVIOUS
  <2>1. NumSteps - m <= NumSteps - s
    BY <1>2, <1>4, <1>5
  <2> QED BY <2>1, <1>1, <1>2
<1>7. \E x \in S : \A y \in S : x >= y
  BY <1>6
<1>8. Max(S) \in S /\ \A y \in S : Max(S) >= y
  BY ONLY <1>7 DEF Max
<1>9. Latest(files) = Max(S)
  BY DEF Latest, S
<1> QED BY <1>1, <1>2, <1>8, <1>9 DEF S

-----------------------------------------------------------------------------
(* No process.                                                               *)

LEMMA NewTrainerIs ==
  ASSUME NEW w \in Stamps \cup {NoNet}, NEW r \in Nat
  PROVE  /\ NewTrainer(w, r) \in Trainers
         /\ NewTrainer(w, r).weights = w /\ NewTrainer(w, r).moments = NoMoments
         /\ NewTrainer(w, r).rate = r /\ NewTrainer(w, r).adamRate = r
         /\ NewTrainer(w, r).submitted = 0 /\ NewTrainer(w, r).finalized = 0
         /\ ~NewTrainer(w, r).pending /\ ~NewTrainer(w, r).busy
  BY DEF NewTrainer, Trainers, NaN

LEMMA NobodyOK == NoProcess => ProcessOK
<1> SUFFICES ASSUME NoProcess PROVE ProcessOK
  OBVIOUS
<1>1. /\ NoTrainer \in Trainers /\ NoTrainer.rate = NoTrainer.adamRate
      /\ ~NoTrainer.busy /\ NoTrainer.submitted = 0 /\ NoTrainer.finalized = 0
  BY NewTrainerIs, Constants DEF NoTrainer
<1>2. /\ NoPlateau \in [best : Int, streak : Nat]
      /\ NoLoss \in [last : Nat, folds : Nat]
  BY DEF NoPlateau, NoLoss, NaN
<1>3. pc = "down" /\ step = 0 /\ trainer = NoTrainer /\ judged = NoNet
      /\ opponent = NoNet /\ temperature = InitialTemperature
      /\ plateau = NoPlateau /\ loss = NoLoss
  BY DEF NoProcess
<1> QED BY <1>1, <1>2, <1>3, Constants
        DEF ProcessOK, ProcessTyped, Pcs, Idle, Runs, Paced, DeviceOK, StepOK, Stepped,
            ScheduleSurvives, PublishedOK, LossOK, SavesOK

LEMMA InitHolds == Init => IInv
<1> SUFFICES ASSUME Init PROVE IInv
  OBVIOUS
<1>1. /\ mode \in Modes /\ launch = 0 /\ born = 0 /\ ~reused /\ ~saved
      /\ reused \in BOOLEAN /\ saved \in BOOLEAN /\ origin = NoNet
  BY DEF Init
<1>2. NoFiles \in Saves /\ \A s \in 1 .. NumSteps : files[s] = NoFiles
  BY DEF NoFiles, Saves, Cut, Init
<1>3. files \in [1 .. NumSteps -> Saves]
  BY <1>2 DEF Init
<1>4. launch \in 0 .. MaxLaunches /\ born \in Nat
  BY <1>1, Constants
<1>5. NamesOK
  BY <1>2, Tokens DEF NamesOK, NoFiles
<1>6. DirectoryOK /\ OriginOK
  BY <1>1, <1>2 DEF DirectoryOK, TogetherAt, NoFiles, OriginOK
<1>7. ProcessOK
  BY NobodyOK DEF Init
<1> QED BY <1>1, <1>3, <1>4, <1>5, <1>6, <1>7, Zenon DEF DiskTyped, DiskOK, IInv

-----------------------------------------------------------------------------
(* What an action leaves alone.                                              *)

LEMMA DiskSame ==
  ASSUME DiskOK, UNCHANGED <<mode, files, launch, reused, saved>>, born' \in Nat
  PROVE  DiskOK'
<1>1. DiskTyped'
  BY Zenon DEF DiskOK, DiskTyped
<1>2. NamesOK'
  BY DEF DiskOK, NamesOK
<1>3. ~reused => DirectoryOK'
  BY DEF DiskOK, DirectoryOK, TogetherAt, WithBuffer
<1> QED BY <1>1, <1>2, <1>3 DEF DiskOK

LEMMA OriginSame ==
  ASSUME ~reused => OriginOK, UNCHANGED <<mode, origin, reused>>
  PROVE  ~reused' => OriginOK'
  BY DEF OriginOK

\* Actions that take the loop from one part to another and touch none of what
\* the invariant is about.
LEMMA Quiet ==
  ASSUME IInv, pc # "down",
         UNCHANGED <<mode, files, launch, reused, saved, origin, step, trainer, judged,
                     net, opponent, temperature, solver, plateau, loss>>,
         born' \in Nat,
         mode = "train" => \E n \in Nat \ {0} : ring' \in RingsOf(n),
         pc' \in Pcs, pc' # "down", Paced',
         \/ pc' = pc
         \/ /\ ~Stepped' /\ pc # "swap"
            /\ mode = "train" \/ (pc # "done" /\ pc' # "done")
  PROVE  IInv'
<1>1. DiskOK /\ ProcessOK /\ (~reused => OriginOK)
  BY DEF IInv
<1>2. DiskOK' /\ (~reused' => OriginOK')
  BY <1>1, DiskSame, OriginSame
<1>3. ProcessTyped'
  BY <1>1 DEF ProcessOK, ProcessTyped
<1>4. Idle' /\ Runs' /\ DeviceOK'
  BY <1>1 DEF ProcessOK, Idle, Runs, DeviceOK
<1>5. StepOK'
  BY <1>1 DEF ProcessOK, StepOK, Stepped, Stamp
<1>6. ScheduleSurvives'
  BY <1>1 DEF ProcessOK, ScheduleSurvives, TemperatureAt
<1>7. PublishedOK'
  BY <1>1 DEF ProcessOK, PublishedOK, Stepped
<1>8. LossOK'
  BY <1>1 DEF ProcessOK, LossOK
<1>9. ~reused' => SavesOK'
  BY <1>1 DEF ProcessOK, SavesOK, Stepped, WithBuffer, Stamp
<1> QED BY <1>2, <1>3, <1>4, <1>5, <1>6, <1>7, <1>8, <1>9 DEF ProcessOK, IInv

-----------------------------------------------------------------------------
(* One lemma for each action.                                                *)

\* What every lemma below starts from.
LEMMA Holds ==
  ASSUME IInv
  PROVE  /\ DiskOK /\ DiskTyped /\ NamesOK /\ ProcessOK /\ ProcessTyped
         /\ Idle /\ Runs /\ Paced /\ DeviceOK /\ StepOK
         /\ ScheduleSurvives /\ PublishedOK /\ LossOK
         /\ ~reused => SavesOK /\ DirectoryOK /\ OriginOK
         /\ trainer \in Trainers
         /\ trainer.busy => trainer.pending
  BY DEF IInv, DiskOK, ProcessOK, ProcessTyped, DeviceOK

LEMMA CollectPreserves ==
  ASSUME IInv, NEW n \in 1 .. MaxCollect, Collect(n)
  PROVE  IInv'
<1> DEFINE games == [i \in 1 .. n |-> born + i]
<1>1. /\ mode = "train" /\ pc = "loop" /\ ~Ended
      /\ ring' = AddBatch(ring, games) /\ born' = born + n
      /\ pc' \in {"loop", "step"}
      /\ UNCHANGED <<mode, files, launch, reused, saved, origin, step, trainer, judged,
                     net, opponent, temperature, solver, plateau, loss>>
  BY DEF Collect
<1>2. n \in Nat /\ born \in Nat /\ born + n \in Nat
  BY Holds, TrainingAssumption DEF DiskTyped
<1>3. games \in Seq(Nat)
  BY <1>2
<1>4. PICK c \in Nat \ {0} : ring \in RingsOf(c)
  BY <1>1, Holds DEF Runs
<1>5. ring' \in RingsOf(c)
  BY <1>1, <1>3, <1>4, AddBatchType
<1>6. step < NumSteps
  BY <1>1, Holds, Constants DEF Ended, ProcessTyped
<1> HIDE DEF games
<1>7. Paced' /\ ~Stepped' /\ pc' \in Pcs
  BY <1>1, <1>6 DEF Paced, Stepped, Pcs
<1> QED BY <1>1, <1>2, <1>5, <1>7, Quiet

LEMMA LoopPreserves ==
  ASSUME IInv, TrainingEnds \/ Draw \/ Drawn \/ Judge \/ MaxStepsReached
  PROVE  IInv'
<1>1. /\ UNCHANGED <<mode, files, launch, reused, saved, origin, step, trainer, judged,
                     net, opponent, temperature, solver, plateau, loss, ring, born>>
      /\ pc' \in {"done", "end", "draw", "fit", "loop"}
      /\ pc \in {"loop", "draw", "judge"}
      /\ pc' = "done" => mode = "train"
      /\ pc' = "draw" => mode = "distil" /\ step < NumSteps
      /\ pc' = "fit" => pc = "draw"
  BY DEF TrainingEnds, Draw, Drawn, Judge, MaxStepsReached, Leaves, disk, play
<1>2. Paced' /\ ~Stepped' /\ pc' \in Pcs
  BY <1>1, Holds DEF Paced, Stepped, Pcs
<1>3. mode = "train" \/ mode = "distil"
  BY Holds, TrainingAssumption DEF DiskTyped
<1>4. mode = "train" => \E n \in Nat \ {0} : ring' \in RingsOf(n)
  BY <1>1, Holds DEF Runs
<1>5. born' \in Nat
  BY <1>1, Holds DEF DiskTyped
<1> QED BY <1>1, <1>2, <1>3, <1>4, <1>5, Quiet

LEMMA StopPreserves ==
  ASSUME IInv, StopFlag \/ StopBuffer
  PROVE  IInv'
<1>1. /\ UNCHANGED <<mode, files, launch, reused, saved, origin, step, trainer, judged,
                     net, opponent, temperature, solver, plateau, loss, ring, born, pc>>
      /\ pc # "down"
  BY DEF StopFlag, StopBuffer, disk, play
<1>2. Paced' /\ pc' \in Pcs
  BY <1>1, Holds DEF Paced, ProcessTyped
<1>3. mode = "train" => \E n \in Nat \ {0} : ring' \in RingsOf(n)
  BY <1>1, Holds DEF Runs
<1>4. born' \in Nat
  BY <1>1, Holds DEF DiskTyped
<1> QED BY <1>1, <1>2, <1>3, <1>4, Quiet

LEMMA StutterPreserves ==
  ASSUME IInv, UNCHANGED vars
  PROVE  IInv'
<1>1. UNCHANGED <<mode, files, launch, reused, saved, origin, step, trainer, judged,
                  net, opponent, temperature, solver, plateau, loss, ring, born, pc>>
  BY DEF vars, disk, process, play
<1>2. CASE pc = "down"
  <2>1. NoProcess /\ NoProcess'
    BY <1>2, Holds DEF Idle, NoProcess, vars, process, play, fit
  <2>2. ProcessOK'
    BY <2>1, NobodyOK, PTL
  <2>3. DiskOK' /\ (~reused' => OriginOK')
    BY <1>1, Holds, DiskSame, OriginSame DEF DiskTyped
  <2> QED BY <2>2, <2>3 DEF IInv
<1>3. CASE pc # "down"
  <2>1. Paced' /\ pc' \in Pcs
    BY <1>1, Holds DEF Paced, ProcessTyped
  <2>2. mode = "train" => \E n \in Nat \ {0} : ring' \in RingsOf(n)
    BY <1>1, <1>3, Holds DEF Runs
  <2>3. born' \in Nat
    BY <1>1, Holds DEF DiskTyped
  <2> QED BY <1>1, <1>3, <2>1, <2>2, <2>3, Quiet
<1> QED BY <1>2, <1>3

LEMMA GoneOK == ProcessGone => ProcessOK'
<1>1. ProcessGone <=> NoProcess'
  BY DEF ProcessGone, NoProcess
<1> QED BY <1>1, NobodyOK, PTL

LEMMA ExitPreserves ==
  ASSUME IInv, Exit
  PROVE  IInv'
<1>1. DiskOK'
  BY Holds, DiskSame DEF Exit, DiskTyped
<1>2. ~reused' => OriginOK'
  BY DEF Exit, OriginOK
<1> QED BY <1>1, <1>2, GoneOK DEF Exit, IInv

LEMMA DeviceFinishesPreserves ==
  ASSUME IInv, DeviceFinishes
  PROVE  IInv'
<1>1. /\ UNCHANGED <<mode, files, launch, reused, saved, origin, step, judged,
                     net, opponent, temperature, solver, plateau, loss, ring, born, pc>>
      /\ trainer.busy /\ trainer' = DeviceDone(trainer)
  BY DEF DeviceFinishes, disk, play
<1>2. /\ trainer' \in Trainers /\ ~trainer'.busy
      /\ trainer'.weights = trainer.weights /\ trainer'.moments = trainer.moments
      /\ trainer'.rate = trainer.rate /\ trainer'.adamRate = trainer.adamRate
      /\ trainer'.submitted = trainer.submitted /\ trainer'.pending = trainer.pending
      /\ trainer'.finalized = trainer.finalized
  BY <1>1, Holds DEF DeviceDone, Trainers
<1>3. pc # "down"
  <2>1. ~NoTrainer.busy
    BY NewTrainerIs, Constants DEF NoTrainer
  <2>2. pc = "down" => trainer = NoTrainer
    BY Holds DEF Idle, NoProcess
  <2> QED BY <1>1, <2>1, <2>2
<1>4. DiskOK' /\ (~reused' => OriginOK')
  BY <1>1, Holds, DiskSame, OriginSame DEF DiskTyped
<1>5. ProcessTyped'
  BY <1>1, <1>2, Holds, Zenon DEF ProcessTyped
<1>6. Idle' /\ Runs' /\ Paced' /\ DeviceOK'
  BY <1>1, <1>2, <1>3, Holds DEF Idle, Runs, Paced, DeviceOK
<1>7. StepOK'
  BY <1>1, <1>2, Holds DEF StepOK, Stepped, Stamp
<1>8. ScheduleSurvives' /\ PublishedOK' /\ LossOK'
  BY <1>1, <1>2, Holds DEF ScheduleSurvives, TemperatureAt, PublishedOK, LossOK
<1>9. ~reused' => SavesOK'
  BY <1>1, Holds DEF SavesOK, Stepped, WithBuffer, Stamp
<1> QED BY <1>4, <1>5, <1>6, <1>7, <1>8, <1>9 DEF ProcessOK, IInv

LEMMA TrainStepPreserves ==
  ASSUME IInv, TrainStep
  PROVE  IInv'
<1>1. /\ UNCHANGED <<mode, files, launch, reused, saved, origin, judged,
                     net, opponent, plateau, ring, born>>
      /\ mode = "train" /\ pc = "step" /\ pc' = "swap" /\ step' = step + 1
      /\ trainer' = Trained(trainer, Stamp(step + 1))
      /\ temperature' = Cooled(temperature, step + 1)
      /\ solver' = [temperature |-> temperature', weight |-> HeuristicWeight(step + 1)]
  BY DEF TrainStep, Scheduled, disk
<1>2. /\ step \in Nat /\ step + 1 \in 0 .. NumSteps /\ launch > 0 /\ "train" \in Modes
      /\ Stamp(step + 1) \in Stamps
  BY <1>1, Holds, Constants, StampIs DEF ProcessTyped, DiskTyped, Paced, Runs
<1>3. /\ trainer' \in Trainers
      /\ trainer'.weights = Stamp(step + 1) /\ trainer'.moments = Stamp(step + 1)
      /\ trainer'.rate = trainer.rate /\ trainer'.adamRate = trainer.adamRate
      /\ trainer'.pending
  BY <1>1, <1>2, Holds, TrainedIs
<1>4. temperature = TemperatureAt(step) /\ temperature' = TemperatureAt(step + 1)
  BY <1>1, <1>2, Holds, TemperatureStep DEF ScheduleSurvives
<1>5. temperature' \in Nat
  BY <1>2, <1>4, TemperatureStep
<1>6. loss' \in [last : Nat, folds : Nat]
  <2>1. LossRead(trainer) \in Nat
    BY Holds, WaitedIs DEF Trainers
  <2>2. loss \in [last : Nat, folds : Nat]
    BY Holds DEF ProcessTyped
  <2> QED BY <2>1, <2>2 DEF TrainStep
<1>7. DiskOK' /\ (~reused' => OriginOK')
  BY <1>1, Holds, DiskSame, OriginSame DEF DiskTyped
<1>8. ProcessTyped'
  <2>1. pc' \in Pcs
    BY <1>1 DEF Pcs
  <2> QED BY <1>1, <1>2, <1>3, <1>5, <1>6, <2>1, Holds DEF ProcessTyped
<1>9. Idle' /\ Runs' /\ Paced' /\ DeviceOK'
  BY <1>1, <1>2, <1>3, Holds DEF Idle, Runs, Paced, DeviceOK
<1>10. StepOK'
  BY <1>1, <1>2, <1>3, Holds DEF StepOK, Stepped, Stamp
<1>11. ScheduleSurvives'
  BY <1>1, <1>4 DEF ScheduleSurvives, TemperatureAt, HeuristicWeight
<1>12. PublishedOK' /\ LossOK'
  BY <1>1, <1>2, Holds DEF PublishedOK, LossOK, Due
<1>13. ~reused' => SavesOK'
  <2>1. ASSUME ~reused PROVE /\ \A s \in Named(files) : s <= step /\ s <= step + 1
                             /\ step + 1 \notin Named(files)
    <3>1. \A s \in Named(files) : s <= step /\ s \in Nat
      BY <1>1, <2>1, Holds, Constants DEF SavesOK, Named, DiskTyped
    <3> QED BY <3>1, <1>2
  <2> QED BY <1>1, <2>1 DEF SavesOK, Stepped, Named
<1> QED BY <1>7, <1>8, <1>9, <1>10, <1>11, <1>12, <1>13 DEF ProcessOK, IInv

LEMMA SwapPreserves ==
  ASSUME IInv, Swap
  PROVE  IInv'
<1>1. /\ UNCHANGED <<mode, files, launch, reused, saved, origin, step, judged,
                     opponent, temperature, solver, plateau, loss, ring, born>>
      /\ pc = "swap" /\ pc' \in {"model", "evaluate"}
      /\ trainer' \in {trainer, Waited(trainer)}
      /\ IF step % SwapInterval = 0 THEN net' = Published(trainer, step)
                                    ELSE net' = net
  BY DEF Swap, disk
<1>2. mode = "train" /\ "train" \in Modes /\ step > 0 /\ step \in Nat /\ step - 1 \in Nat
  BY <1>1, Holds, Constants DEF Paced, DiskTyped, StepOK, Stepped, ProcessTyped
<1>3. /\ trainer' \in Trainers
      /\ trainer'.busy => trainer'.pending
      /\ trainer'.weights = trainer.weights /\ trainer'.moments = trainer.moments
      /\ trainer'.rate = trainer.rate /\ trainer'.adamRate = trainer.adamRate
      /\ trainer'.submitted = trainer.submitted
      /\ ~trainer'.pending => trainer'.finalized = trainer'.submitted
  BY <1>1, Holds, WaitedIs DEF DeviceOK
<1>4. net' \in Nets /\ net'.at >= Due(step)
  <2>1. net \in Nets /\ net.at >= Due(step - 1) /\ trainer.weights \in Stamps
    BY <1>1, <1>2, Holds DEF Runs, PublishedOK
  <2>2. CASE step % SwapInterval = 0
    <3>1. net' = [weights |-> trainer.weights, at |-> step]
      BY <1>1, <2>2, Holds, WaitedIs DEF Published
    <3>2. Due(step) = step /\ step \in 0 .. NumSteps
      BY <1>2, <2>2, DueStep, Holds DEF ProcessTyped
    <3> QED BY <3>1, <3>2, <2>1, <1>2 DEF Nets
  <2>3. CASE step % SwapInterval # 0
    <3>1. Due((step - 1) + 1) = Due(step - 1)
      <4>1. ((step - 1) + 1) % SwapInterval # 0
        BY <1>2, <2>3
      <4> QED BY <4>1, <1>2, DueStep
    <3>2. (step - 1) + 1 = step
      BY <1>2
    <3> QED BY <3>1, <3>2, <2>1, <2>3, <1>1
  <2> QED BY <2>2, <2>3
<1>5. DiskOK' /\ (~reused' => OriginOK')
  BY <1>1, Holds, DiskSame, OriginSame DEF DiskTyped
<1>6. ProcessTyped'
  <2>1. pc' \in Pcs
    BY <1>1 DEF Pcs
  <2> QED BY <1>1, <1>3, <2>1, Holds DEF ProcessTyped
<1>7. Idle' /\ Runs' /\ Paced' /\ DeviceOK'
  BY <1>1, <1>2, <1>3, <1>4, Holds DEF Idle, Runs, Paced, DeviceOK
<1>8. StepOK'
  BY <1>1, <1>3, Holds DEF StepOK, Stepped, Stamp
<1>9. ScheduleSurvives'
  BY <1>1, <1>3, Holds DEF ScheduleSurvives, TemperatureAt
<1>10. PublishedOK' /\ LossOK'
  BY <1>1, <1>2, <1>4 DEF PublishedOK, LossOK, Due
<1>11. ~reused' => SavesOK'
  BY <1>1, <1>2, Holds DEF SavesOK, Stepped
<1> QED BY <1>5, <1>6, <1>7, <1>8, <1>9, <1>10, <1>11 DEF ProcessOK, IInv

LEMMA EvaluateTrainingPreserves ==
  ASSUME IInv, EvaluateTraining
  PROVE  IInv'
<1>1. /\ UNCHANGED <<mode, files, launch, reused, saved, origin, step, net,
                     opponent, temperature, solver, loss, ring, born>>
      /\ mode = "train" /\ pc = "evaluate"
      /\ \/ pc' = "loop"
         \/ pc' = "step" /\ ~Ended
  BY DEF EvaluateTraining, disk
<1>2. "train" \in Modes /\ step \in Nat /\ NumSteps \in Nat
  BY <1>1, Holds, Constants DEF DiskTyped, ProcessTyped
<1>3. pc' = "step" => step < NumSteps
  BY <1>1, <1>2 DEF Ended
<1>4. /\ trainer' \in Trainers
      /\ trainer'.busy => trainer'.pending
      /\ trainer'.weights = trainer.weights
      /\ trainer'.rate = trainer'.adamRate
      /\ trainer'.submitted = trainer.submitted
      /\ ~trainer'.pending => trainer'.finalized = trainer'.submitted
      /\ plateau' \in [best : Int, streak : Nat]
      /\ judged' \in Stamps \cup {NoNet}
  <2>1. /\ trainer.weights \in Stamps /\ plateau \in [best : Int, streak : Nat]
        /\ judged \in Stamps \cup {NoNet}
    BY <1>1, Holds DEF Runs, ProcessTyped
  <2>2. CASE ~(EvalInterval > 0 /\ step % EvalInterval = 0)
    BY <2>1, <2>2, Holds DEF EvaluateTraining, DeviceOK
  <2>3. CASE EvalInterval > 0 /\ step % EvalInterval = 0
    <3> DEFINE w == Waited(trainer)
    <3>1. /\ w \in Trainers /\ ~w.busy /\ ~w.pending
          /\ w.weights = trainer.weights /\ w.submitted = trainer.submitted
          /\ w.rate = w.adamRate /\ w.finalized = w.submitted
          /\ Weights(w) = trainer.weights
      BY Holds, WaitedIs DEF DeviceOK
    <3>2. PICK rate \in WinRates : Backoff(rate, w)
      BY <2>3 DEF EvaluateTraining
    <3>3. judged' = Weights(w)
      BY <2>3 DEF EvaluateTraining
    <3>4. plateau' \in [best : Int, streak : Nat]
      BY <2>1, <3>2 DEF Backoff, WinRates
    <3>5. trainer' \in {w, WithRate(w, Lowered(w.rate))}
      BY <3>2 DEF Backoff
    <3> HIDE DEF w
    <3>6. /\ WithRate(w, Lowered(w.rate)) \in Trainers
          /\ ~WithRate(w, Lowered(w.rate)).busy
          /\ WithRate(w, Lowered(w.rate)).weights = w.weights
          /\ WithRate(w, Lowered(w.rate)).submitted = w.submitted
          /\ WithRate(w, Lowered(w.rate)).finalized = w.finalized
          /\ WithRate(w, Lowered(w.rate)).rate = WithRate(w, Lowered(w.rate)).adamRate
      <4>1. Lowered(w.rate) \in Nat
        BY <1>2, <3>1, TrainConstants DEF Lowered, Trainers
      <4> QED BY <3>1, <4>1 DEF WithRate, Trainers
    <3> QED BY <2>1, <3>1, <3>3, <3>4, <3>5, <3>6
  <2> QED BY <2>2, <2>3
<1>5. DiskOK' /\ (~reused' => OriginOK')
  BY <1>1, Holds, DiskSame, OriginSame DEF DiskTyped
<1>6. ProcessTyped'
  <2>1. pc' \in Pcs
    BY <1>1 DEF Pcs
  <2> QED BY <1>1, <1>4, <2>1, Holds DEF ProcessTyped
<1>7. Idle' /\ Runs' /\ Paced' /\ DeviceOK'
  BY <1>1, <1>3, <1>4, Holds DEF Idle, Runs, Paced, DeviceOK
<1>8. StepOK' /\ LossOK'
  BY <1>1 DEF StepOK, Stepped, LossOK
<1>9. ScheduleSurvives'
  BY <1>1, <1>4, Holds DEF ScheduleSurvives, TemperatureAt
<1>10. PublishedOK'
  BY <1>1, Holds DEF PublishedOK, Due
<1>11. ~reused' => SavesOK'
  BY <1>1, Holds DEF SavesOK, Stepped
<1> QED BY <1>5, <1>6, <1>7, <1>8, <1>9, <1>10, <1>11 DEF ProcessOK, IInv

LEMMA FitStepPreserves ==
  ASSUME IInv, FitStep
  PROVE  IInv'
<1>1. /\ UNCHANGED <<mode, files, launch, reused, saved, origin, judged,
                     net, opponent, temperature, solver, plateau, ring, born>>
      /\ pc = "fit" /\ pc' = "evaluate" /\ step' = step + 1
      /\ trainer' = Trained(trainer, Stamp(step + 1))
      /\ loss' = Averaged(LossRead(trainer))
  BY DEF FitStep, disk, play
<1>2. /\ mode = "distil" /\ step \in Nat /\ step + 1 \in 0 .. NumSteps /\ launch > 0
      /\ Stamp(step + 1) \in Stamps
  BY <1>1, Holds, Constants, StampIs DEF ProcessTyped, DiskTyped, Paced, Runs
<1>3. /\ trainer' \in Trainers
      /\ trainer'.weights = Stamp(step + 1) /\ trainer'.moments = Stamp(step + 1)
      /\ trainer'.rate = trainer.rate /\ trainer'.adamRate = trainer.adamRate
      /\ trainer'.submitted = trainer.submitted + 1
      /\ trainer'.pending
  BY <1>1, <1>2, Holds, TrainedIs
<1>4. LossRead(trainer) = trainer.submitted /\ trainer.submitted \in Nat
  BY Holds, WaitedIs DEF DeviceOK, Trainers
<1>5. /\ loss' \in [last : Nat, folds : Nat] /\ loss'.folds = loss'.last
      /\ loss'.last = trainer'.submitted - 1 /\ trainer'.submitted > 0
  <2>1. /\ loss \in [last : Nat, folds : Nat] /\ loss.folds = loss.last
        /\ loss.last = IF trainer.submitted = 0 THEN 0 ELSE trainer.submitted - 1
    BY <1>1, <1>2, Holds DEF ProcessTyped, LossOK
  <2>2. CASE trainer.submitted = 0
    BY <1>1, <1>3, <1>4, <2>1, <2>2 DEF Averaged, NaN
  <2>3. CASE trainer.submitted # 0
    <3>1. loss' = [last |-> trainer.submitted, folds |-> loss.folds + 1]
      BY <1>1, <1>4, <2>3 DEF Averaged, NaN
    <3> QED BY <3>1, <1>3, <1>4, <2>1, <2>3
  <2> QED BY <2>2, <2>3
<1>6. DiskOK' /\ (~reused' => OriginOK')
  BY <1>1, Holds, DiskSame, OriginSame DEF DiskTyped
<1>7. ProcessTyped'
  <2>1. pc' \in Pcs
    BY <1>1 DEF Pcs
  <2> QED BY <1>1, <1>2, <1>3, <1>5, <2>1, Holds DEF ProcessTyped
<1>8. Idle' /\ Runs' /\ Paced' /\ DeviceOK'
  BY <1>1, <1>2, <1>3, Holds DEF Idle, Runs, Paced, DeviceOK
<1>9. StepOK'
  BY <1>1, <1>2, <1>3, Holds DEF StepOK, Stepped, Stamp
<1>10. ScheduleSurvives' /\ PublishedOK' /\ LossOK'
  BY <1>1, <1>2, <1>5 DEF ScheduleSurvives, PublishedOK, LossOK
<1>11. ~reused' => SavesOK'
  <2>1. ASSUME ~reused PROVE /\ \A s \in Named(files) : s <= step /\ s <= step + 1
                             /\ step + 1 \notin Named(files)
    <3>1. \A s \in Named(files) : s <= step /\ s \in Nat
      BY <1>1, <2>1, Holds, Constants DEF SavesOK, Named, DiskTyped
    <3> QED BY <3>1, <1>2
  <2> QED BY <1>1, <2>1 DEF SavesOK, Stepped, Named
<1> QED BY <1>6, <1>7, <1>8, <1>9, <1>10, <1>11 DEF ProcessOK, IInv

LEMMA EvaluateStudentPreserves ==
  ASSUME IInv, EvaluateStudent
  PROVE  IInv'
<1>1. /\ UNCHANGED <<mode, files, launch, reused, saved, origin, step, net,
                     opponent, temperature, solver, plateau, loss, ring, born>>
      /\ mode = "distil" /\ pc = "evaluate" /\ pc' \in {"model", "judge"}
      /\ \/ trainer' = trainer /\ judged' = judged
         \/ trainer' = Waited(trainer) /\ judged' = Weights(Waited(trainer))
  BY DEF EvaluateStudent, disk, play
<1>2. /\ trainer' \in Trainers
      /\ trainer'.busy => trainer'.pending
      /\ trainer'.weights = trainer.weights /\ trainer'.moments = trainer.moments
      /\ trainer'.rate = trainer.rate /\ trainer'.adamRate = trainer.adamRate
      /\ trainer'.submitted = trainer.submitted
      /\ ~trainer'.pending => trainer'.finalized = trainer'.submitted
  BY <1>1, Holds, WaitedIs DEF DeviceOK
<1>3. judged' \in Stamps \cup {NoNet}
  <2>1. trainer.weights \in Stamps /\ judged \in Stamps \cup {NoNet}
    BY <1>1, Holds DEF Runs, ProcessTyped
  <2> QED BY <1>1, <2>1, Holds, WaitedIs
<1>4. DiskOK' /\ (~reused' => OriginOK')
  BY <1>1, Holds, DiskSame, OriginSame DEF DiskTyped
<1>5. ProcessTyped'
  <2>1. pc' \in Pcs
    BY <1>1 DEF Pcs
  <2> QED BY <1>1, <1>2, <1>3, <2>1, Holds DEF ProcessTyped
<1>6. Idle' /\ Runs' /\ Paced' /\ DeviceOK'
  BY <1>1, <1>2, Holds DEF Idle, Runs, Paced, DeviceOK
<1>7. StepOK'
  BY <1>1, <1>2, Holds DEF StepOK, Stepped, Stamp
<1>8. ScheduleSurvives' /\ PublishedOK' /\ LossOK'
  BY <1>1, <1>2, Holds DEF ScheduleSurvives, PublishedOK, LossOK
<1>9. ~reused' => SavesOK'
  BY <1>1, Holds DEF SavesOK, Stepped
<1> QED BY <1>4, <1>5, <1>6, <1>7, <1>8, <1>9 DEF ProcessOK, IInv

LEMMA ReportPreserves ==
  ASSUME IInv, Report
  PROVE  IInv'
<1>1. /\ UNCHANGED <<mode, files, launch, reused, saved, origin, step, net,
                     opponent, temperature, solver, plateau, ring, born>>
      /\ pc = "end" /\ pc' = "done"
      /\ trainer' = Waited(trainer) /\ judged' = Weights(Waited(trainer))
      /\ loss' = Averaged(Waited(trainer).finalized)
  BY DEF Report, FinalReport, disk, play
<1>2. /\ trainer' \in Trainers /\ ~trainer'.busy /\ ~trainer'.pending
      /\ trainer'.weights = trainer.weights
      /\ trainer'.rate = trainer.rate /\ trainer'.adamRate = trainer.adamRate
      /\ trainer'.submitted = trainer.submitted
      /\ trainer'.finalized = trainer.submitted
      /\ judged' = trainer.weights
  BY <1>1, Holds, WaitedIs DEF DeviceOK
<1>3. judged' \in Stamps
  BY <1>1, <1>2, Holds DEF Runs
<1>4. trainer.submitted \in Nat /\ loss' = Averaged(trainer.submitted)
  BY <1>1, <1>2, Holds DEF Trainers
<1>5. loss' \in [last : Nat, folds : Nat] /\ LossOK'
  <2>1. /\ loss \in [last : Nat, folds : Nat]
        /\ mode = "distil" => /\ loss.folds = loss.last
                              /\ loss.last = IF trainer.submitted = 0 THEN 0
                                             ELSE trainer.submitted - 1
    BY <1>1, Holds DEF ProcessTyped, LossOK
  <2>2. CASE trainer.submitted = 0
    BY <1>1, <1>2, <1>4, <2>1, <2>2 DEF Averaged, NaN, LossOK
  <2>3. CASE trainer.submitted # 0
    <3>1. loss' = [last |-> trainer.submitted, folds |-> loss.folds + 1]
      BY <1>4, <2>3 DEF Averaged, NaN
    <3> QED BY <3>1, <1>1, <1>2, <1>4, <2>1, <2>3 DEF LossOK
  <2> QED BY <2>2, <2>3
<1>6. DiskOK' /\ (~reused' => OriginOK')
  BY <1>1, Holds, DiskSame, OriginSame DEF DiskTyped
<1>7. ProcessTyped'
  <2>1. pc' \in Pcs
    BY <1>1 DEF Pcs
  <2> QED BY <1>1, <1>2, <1>3, <1>5, <2>1, Holds DEF ProcessTyped
<1>8. Idle' /\ Runs' /\ Paced' /\ DeviceOK'
  BY <1>1, <1>2, Holds DEF Idle, Runs, Paced, DeviceOK
<1>9. StepOK'
  BY <1>1 DEF StepOK, Stepped
<1>10. ScheduleSurvives' /\ PublishedOK'
  BY <1>1, <1>2, Holds DEF ScheduleSurvives, TemperatureAt, PublishedOK, Due
<1>11. ~reused' => SavesOK'
  BY <1>1, Holds DEF SavesOK, Stepped
<1> QED BY <1>5, <1>6, <1>7, <1>8, <1>9, <1>10, <1>11 DEF ProcessOK, IInv

-----------------------------------------------------------------------------
(* Launches.                                                                 *)

LEMMA StartedIs ==
  ASSUME IInv, MayLaunch, launch' = launch + 1,
         NEW t \in Trainers, t.weights \in Stamps, ~t.busy, t.rate = t.adamRate,
         t.submitted = 0, t.finalized = 0,
         NEW at \in 0 .. NumSteps, NEW temp \in Nat, NEW c \in Nat \ {0},
         NEW r, mode = "train" => r \in RingsOf(c),
         mode = "train" => temp = TemperatureAt(at),
         ~reused' => \A s \in Named(files) : s <= at,
         reused' \in BOOLEAN, reused => reused',
         Started(t, at, temp, r)
  PROVE  DiskOK' /\ ProcessOK'
<1>1. /\ UNCHANGED <<mode, files, saved, born, judged, plateau, loss>>
      /\ trainer' = Waited(t) /\ step' = at /\ ring' = r /\ temperature' = temp
      /\ pc' = "loop" \/ (pc' = "evaluate" /\ mode = "train")
  <2>1. mode = "train" \/ mode = "distil"
    BY Holds, TrainingAssumption DEF DiskTyped
  <2> QED BY <2>1 DEF Started
<1>2. /\ NoProcess /\ launch \in Nat /\ launch < MaxLaunches
      /\ mode = "train" \/ mode = "distil"
      /\ launch' \in 0 .. MaxLaunches /\ launch' > 0
  <2>1. NoProcess /\ (mode = "train" \/ mode = "distil")
    BY Holds, TrainingAssumption DEF MayLaunch, Idle, DiskTyped
  <2>2. launch \in 0 .. MaxLaunches /\ MaxLaunches \in Nat /\ launch < MaxLaunches
    BY Holds, Constants DEF MayLaunch, DiskTyped
  <2> QED BY <2>1, <2>2
<1>3. /\ trainer' \in Trainers /\ trainer'.weights = t.weights
      /\ ~trainer'.busy /\ ~trainer'.pending
      /\ trainer'.rate = trainer'.adamRate /\ trainer'.submitted = 0
      /\ trainer'.finalized = 0 /\ Clone(t) = t.weights
  BY <1>1, WaitedIs
<1>4. mode = "distil" => net' = NoNet /\ opponent' = opponent
  BY <1>1, <1>2 DEF Started, NoProcess
<1>5. mode = "train" => net' = [weights |-> t.weights, at |-> at] /\ net' \in Nets
  BY <1>1, <1>3 DEF Started, Published, Nets
<1>6. opponent' \in Stamps \cup {NoNet}
  <2>1. CASE mode = "distil"
    BY <2>1, <1>4, Holds DEF ProcessTyped
  <2>2. CASE mode = "train"
    <3>1. RefreshedOpponent(files, NoNet, opponent')
      BY <2>2 DEF Started
    <3>2. \A s \in Named(files) : Readable(files[s].model) =>
             files[s].model.weights \in Stamps
      BY Holds DEF DiskTyped, Saves, Cut, Named, ModelFiles, Readable
    <3> QED BY <3>1, <3>2 DEF RefreshedOpponent
  <2> QED BY <1>2, <2>1, <2>2
<1>7. DiskOK'
  <2>1. DiskTyped'
    BY <1>1, <1>2, Holds, Zenon DEF DiskTyped
  <2>2. NamesOK' /\ (~reused' => DirectoryOK')
    BY <1>1, Holds DEF NamesOK, TemperatureAt, DirectoryOK, TogetherAt, WithBuffer
  <2> QED BY <2>1, <2>2 DEF DiskOK
<1>8. ProcessTyped'
  <2>1. pc' \in Pcs
    BY <1>1 DEF Pcs
  <2>2. step' \in 0 .. NumSteps /\ temperature' \in Nat
    BY <1>1
  <2> QED BY <1>1, <1>3, <1>6, <2>1, <2>2, Holds, Zenon DEF ProcessTyped
<1>9. Idle' /\ Paced' /\ DeviceOK' /\ StepOK'
  BY <1>1, <1>2, <1>3 DEF Idle, Paced, DeviceOK, StepOK, Stepped
<1>10. Runs'
  BY <1>1, <1>2, <1>3, <1>4, <1>5 DEF Runs
<1>11. ScheduleSurvives'
  BY <1>1, <1>3 DEF ScheduleSurvives, TemperatureAt
<1>12. PublishedOK'
  <2>1. mode = "train" => Due(at) <= at
    BY Holds, DueStep, Constants DEF DiskTyped
  <2> QED BY <1>1, <1>5, <2>1 DEF PublishedOK, Due
<1>13. LossOK'
  BY <1>1, <1>2, <1>3 DEF LossOK, NoProcess, NoLoss, NaN
<1>14. ~reused' => SavesOK'
  BY <1>1, <1>2 DEF SavesOK, Stepped, Named
<1> QED BY <1>7, <1>8, <1>9, <1>10, <1>11, <1>12, <1>13, <1>14 DEF ProcessOK

LEMMA FreshIs ==
  ASSUME IInv, MayLaunch
  PROVE  /\ FreshTrainer \in Trainers /\ FreshTrainer.weights \in Stamps
         /\ ~FreshTrainer.busy /\ ~FreshTrainer.pending
         /\ FreshTrainer.rate = FreshTrainer.adamRate
         /\ FreshTrainer.submitted = 0 /\ FreshTrainer.finalized = 0
         /\ Waited(FreshTrainer) = FreshTrainer
<1>1. [by |-> launch + 1, step |-> 0] \in Stamps
  BY Holds, Constants DEF MayLaunch, DiskTyped, Stamps
<1> QED BY <1>1, NewTrainerIs, Constants DEF FreshTrainer, Waited

LEMMA FirstTemperature == ASSUME "train" \in Modes
                          PROVE  TemperatureAt(0) = InitialTemperature
  BY TrainConstants DEF TemperatureAt

LEMMA RingOfLaunch ==
  ASSUME IInv, NEW c \in Capacities, mode = "train"
  PROVE  c \in Nat \ {0} /\ NewRing(c) \in RingsOf(c)
  BY Holds, TrainConstants, NewRingType DEF DiskTyped

LEMMA LaunchFreshPreserves ==
  ASSUME IInv, LaunchFresh
  PROVE  IInv'
<1>1. PICK c \in Capacities :
        Started(FreshTrainer, 0, InitialTemperature, NewRing(c))
  BY DEF LaunchFresh
<1>2. /\ MayLaunch /\ reused' = (reused \/ Named(files) # {}) /\ origin' = NoNet
      /\ launch' = launch + 1 /\ UNCHANGED mode
  BY <1>1 DEF LaunchFresh, Started
<1>3. /\ reused' \in BOOLEAN
      /\ reused => reused'
      /\ ~reused' => Named(files) = {}
  BY <1>2
<1>4. PICK k \in Nat \ {0} : mode = "train" => NewRing(c) \in RingsOf(k)
  <2>1. CASE mode = "train"
    BY <2>1, RingOfLaunch
  <2>2. CASE mode # "train"
    <3>1. 1 \in Nat \ {0}
      OBVIOUS
    <3> QED BY <2>2, <3>1
  <2> QED BY <2>1, <2>2
<1>5. mode = "train" => InitialTemperature = TemperatureAt(0)
  BY Holds, FirstTemperature DEF DiskTyped
<1>6. 0 \in 0 .. NumSteps /\ InitialTemperature \in Nat
  BY Constants
<1>7. DiskOK' /\ ProcessOK'
  BY <1>1, <1>2, <1>3, <1>4, <1>5, <1>6, FreshIs, StartedIs
<1>8. OriginOK'
  BY <1>2 DEF OriginOK
<1> QED BY <1>7, <1>8 DEF IInv

LEMMA LaunchFromWeightsPreserves ==
  ASSUME IInv, LaunchFromWeights
  PROVE  IInv'
<1>1. PICK s \in Named(files), c \in Capacities :
        /\ Readable(files[s].model)
        /\ Started(Reweighted(FreshTrainer, files[s].model), 0,
                   InitialTemperature, NewRing(c))
  BY DEF LaunchFromWeights
<1>2. /\ MayLaunch /\ reused' = TRUE /\ origin' = NoNet
      /\ launch' = launch + 1 /\ UNCHANGED mode
  BY <1>1 DEF LaunchFromWeights, Started
<1>3. files[s].model.weights \in Stamps
  BY <1>1, Holds DEF DiskTyped, Saves, Cut, Named, ModelFiles, Readable
<1> DEFINE t == Reweighted(FreshTrainer, files[s].model)
<1>4. /\ t \in Trainers /\ t.weights \in Stamps /\ ~t.busy /\ t.rate = t.adamRate
      /\ t.submitted = 0 /\ t.finalized = 0
  <2>1. t = [FreshTrainer EXCEPT !.weights = files[s].model.weights]
    BY <1>2, FreshIs DEF Reweighted
  <2> QED BY <2>1, <1>2, <1>3, FreshIs DEF Trainers
<1>5. PICK k \in Nat \ {0} : mode = "train" => NewRing(c) \in RingsOf(k)
  <2>1. CASE mode = "train"
    BY <2>1, RingOfLaunch
  <2>2. CASE mode # "train"
    <3>1. 1 \in Nat \ {0}
      OBVIOUS
    <3> QED BY <2>2, <3>1
  <2> QED BY <2>1, <2>2
<1>6. mode = "train" => InitialTemperature = TemperatureAt(0)
  BY Holds, FirstTemperature DEF DiskTyped
<1>7. 0 \in 0 .. NumSteps /\ InitialTemperature \in Nat
  BY Constants
<1>8. Started(t, 0, InitialTemperature, NewRing(c))
  BY <1>1
<1> HIDE DEF t
<1>9. DiskOK' /\ ProcessOK'
  BY <1>2, <1>4, <1>5, <1>6, <1>7, <1>8, StartedIs
<1> QED BY <1>2, <1>9 DEF IInv

LEMMA LaunchResumedPreserves ==
  ASSUME IInv, LaunchResumed
  PROVE  IInv'
<1> DEFINE l == Latest(files)
           at == files[l]
           t == Restored(FreshTrainer, at.model, at.optimizer)
<1>1. PICK c \in Capacities :
        Started(t, at.model.step, SavedTemperature(at), SavedRing(at, c))
  BY DEF LaunchResumed
<1>2. /\ MayLaunch /\ CanResume /\ UNCHANGED <<mode, reused>> /\ launch' = launch + 1
      /\ origin' = [weights |-> t.weights, moments |-> t.moments,
                    buffer  |-> IF WithBuffer /\ Readable(at.buffer)
                                THEN at.buffer.stamp ELSE NoNet]
  BY <1>1 DEF LaunchResumed, Started
<1>3. /\ l \in 1 .. NumSteps /\ \A s \in Named(files) : s <= l
      /\ Readable(at.model) /\ at.optimizer # Missing
      /\ WithBuffer => Readable(at.buffer)
  BY <1>2, Holds, LatestIs DEF CanResume, Present, Loadable, Readable
<1>4. /\ at \in Saves /\ at.model \in ModelFiles
      /\ Readable(at.optimizer) => at.optimizer \in OptimizerFiles
      /\ Readable(at.buffer) => at.buffer \in BufferFiles
  BY <1>3, Holds DEF DiskTyped, Saves, Cut, Readable
<1> HIDE DEF at
<1>5. at.model.step = l /\ (mode = "train" => at.model.temperature = TemperatureAt(l))
  BY <1>3, Holds DEF NamesOK, at
<1>6. /\ t \in Trainers /\ t.weights = at.model.weights /\ t.weights \in Stamps
      /\ ~t.busy /\ t.rate = t.adamRate /\ t.submitted = 0 /\ t.finalized = 0
      /\ Readable(at.optimizer) => t.moments = at.optimizer.moments
  <2>1. at.model.weights \in Stamps
    BY <1>4 DEF ModelFiles
  <2>2. CASE Readable(at.optimizer)
    <3>1. at.optimizer.moments \in Stamps /\ at.optimizer.rate \in Nat
      BY <1>4, <2>2 DEF OptimizerFiles
    <3>2. t = [FreshTrainer EXCEPT !.weights = at.model.weights,
                                   !.moments = at.optimizer.moments,
                                   !.adamRate = at.optimizer.rate,
                                   !.rate = at.optimizer.rate]
      BY <1>2, <2>2, FreshIs DEF Restored
    <3> QED BY <1>2, <2>1, <3>1, <3>2, FreshIs DEF Trainers
  <2>3. CASE ~Readable(at.optimizer)
    <3>1. t = [FreshTrainer EXCEPT !.weights = at.model.weights]
      BY <1>2, <2>3, FreshIs DEF Restored
    <3> QED BY <1>2, <2>1, <2>3, <3>1, FreshIs DEF Trainers
  <2> QED BY <2>2, <2>3
<1>7. PICK k \in Nat \ {0} : mode = "train" => SavedRing(at, c) \in RingsOf(k)
  <2>1. CASE mode = "train"
    <3>1. WithBuffer /\ at.buffer.samples \in Seq(Nat) /\ Readable(at.buffer)
      BY <2>1, <1>3, <1>4 DEF WithBuffer, BufferFiles
    <3>2. c \in Nat \ {0} /\ SavedRing(at, c) \in RingsOf(c)
      BY <2>1, <3>1, RingOfLaunch, LoadRingType DEF SavedRing
    <3> QED BY <3>2
  <2>2. CASE mode # "train"
    <3>1. 1 \in Nat \ {0}
      OBVIOUS
    <3> QED BY <2>2, <3>1
  <2> QED BY <2>1, <2>2
<1>8. /\ SavedTemperature(at) \in Nat
      /\ mode = "train" => SavedTemperature(at) = TemperatureAt(l)
  BY <1>4, <1>5, Constants DEF SavedTemperature, WithBuffer, ModelFiles
<1>9. l \in 0 .. NumSteps /\ reused' \in BOOLEAN
  BY <1>2, <1>3, Holds DEF DiskTyped
<1>10. Started(t, l, SavedTemperature(at), SavedRing(at, c))
  BY <1>1, <1>5
<1>11. ~reused' => OriginOK'
  <2> SUFFICES ASSUME ~reused, mode = "train" PROVE OriginOK'
    BY <1>2 DEF OriginOK
  <2>1. TogetherAt(l)
    BY <1>3, Holds DEF DirectoryOK
  <2>2. /\ Readable(at.optimizer) /\ at.optimizer.moments = at.model.weights
        /\ at.buffer.stamp = at.model.weights /\ WithBuffer /\ Readable(at.buffer)
    BY <2>1, <1>3 DEF TogetherAt, WithBuffer, Readable, at
  <2> HIDE DEF t
  <2>3. origin' = [weights |-> at.model.weights, moments |-> at.model.weights,
                   buffer |-> at.model.weights]
    BY <1>2, <1>6, <2>2
  <2> QED BY <2>3 DEF OriginOK
<1> HIDE DEF t, l
<1>12. DiskOK' /\ ProcessOK'
  BY <1>2, <1>3, <1>6, <1>7, <1>8, <1>9, <1>10, StartedIs
<1> QED BY <1>11, <1>12 DEF IInv

-----------------------------------------------------------------------------
(* Saves.                                                                    *)

\* What the three saving actions have in common: only the files change, and the
\* process goes on in the same step.
LEMMA SavesKeep ==
  ASSUME IInv, pc \in {"model", "optimizer", "buffer", "prune"},
         UNCHANGED <<mode, launch, reused, origin, born, step, judged, net, ring,
                     temperature, solver, plateau, loss>>,
         trainer' \in {trainer, Waited(trainer)},
         opponent' \in Stamps \cup {NoNet},
         pc' \in {"optimizer", "buffer", "prune", "evaluate", "judge"},
         pc' = "buffer" => mode = "train",
         pc' = "judge" => mode = "distil",
         pc' = "evaluate" => mode = "train"
  PROVE  /\ ProcessTyped' /\ Idle' /\ Runs' /\ Paced' /\ DeviceOK' /\ StepOK'
         /\ ScheduleSurvives' /\ PublishedOK' /\ LossOK'
         /\ ~reused' => OriginOK'
         /\ step \in 1 .. NumSteps /\ Stamp(step) \in Stamps
         /\ trainer.weights = Stamp(step) /\ trainer.moments = Stamp(step)
         /\ Stepped
<1>1. /\ trainer' \in Trainers
      /\ trainer'.busy => trainer'.pending
      /\ trainer'.weights = trainer.weights /\ trainer'.moments = trainer.moments
      /\ trainer'.rate = trainer.rate /\ trainer'.adamRate = trainer.adamRate
      /\ trainer'.submitted = trainer.submitted
      /\ ~trainer'.pending => trainer'.finalized = trainer'.submitted
  BY Holds, WaitedIs DEF DeviceOK
<1>2. /\ Stepped /\ step > 0 /\ trainer.weights = Stamp(step)
      /\ trainer.moments = Stamp(step)
  BY Holds DEF Stepped, StepOK
<1>3. step \in 1 .. NumSteps /\ Stamp(step) \in Stamps
  BY <1>2, Holds, Constants, StampIs DEF ProcessTyped, Runs
<1>4. ProcessTyped'
  <2>1. pc' \in Pcs
    BY DEF Pcs
  <2> QED BY <1>1, <2>1, Holds DEF ProcessTyped
<1>5. Idle' /\ Runs' /\ Paced' /\ DeviceOK'
  BY <1>1, Holds DEF Idle, Runs, Paced, DeviceOK
<1>6. StepOK'
  BY <1>1, <1>2 DEF StepOK, Stepped, Stamp
<1>7. ScheduleSurvives' /\ PublishedOK' /\ LossOK'
  BY <1>1, Holds DEF ScheduleSurvives, TemperatureAt, PublishedOK, Due, LossOK
<1>8. ~reused' => OriginOK'
  BY Holds, OriginSame
<1> QED BY <1>2, <1>3, <1>4, <1>5, <1>6, <1>7, <1>8

LEMMA NamesSame ==
  ASSUME NamesOK, UNCHANGED mode,
         \A s \in 1 .. NumSteps : files'[s].model = files[s].model
  PROVE  NamesOK'
  BY DEF NamesOK

LEMMA SaveModelPreserves ==
  ASSUME IInv, SaveModel
  PROVE  IInv'
<1> DEFINE new == ModelFile(trainer, step, temperature)
<1>1. /\ UNCHANGED <<mode, launch, reused, saved, origin, born, step, judged, net,
                     opponent, ring, temperature, solver, plateau, loss>>
      /\ pc = "model" /\ pc' = "optimizer" /\ trainer' = Waited(trainer)
      /\ files' = [files EXCEPT ![step].model = new]
  BY DEF SaveModel, play
<1>2. /\ ProcessTyped' /\ Idle' /\ Runs' /\ Paced' /\ DeviceOK' /\ StepOK'
      /\ ScheduleSurvives' /\ PublishedOK' /\ LossOK'
      /\ ~reused' => OriginOK'
      /\ step \in 1 .. NumSteps /\ Stamp(step) \in Stamps
      /\ trainer.weights = Stamp(step)
      /\ Stepped
  <2>1. opponent' \in Stamps \cup {NoNet}
    BY <1>1, Holds DEF ProcessTyped
  <2> QED BY <1>1, <2>1, SavesKeep
<1>3. /\ new = [weights |-> Stamp(step), step |-> step, temperature |-> temperature]
      /\ new \in ModelFiles /\ Readable(new)
  <2>1. new = [weights |-> Stamp(step), step |-> step, temperature |-> temperature]
    BY <1>2, Holds, WaitedIs DEF ModelFile
  <2>2. temperature \in Nat
    BY Holds DEF ProcessTyped
  <2>3. new \in ModelFiles
    BY <1>2, <2>1, <2>2 DEF ModelFiles
  <2> QED BY <2>1, <2>3, Tokens
<1> HIDE DEF new
<1>4. /\ files \in [1 .. NumSteps -> Saves]
      /\ files' \in [1 .. NumSteps -> Saves]
      /\ \A s \in 1 .. NumSteps : s # step => files'[s] = files[s]
      /\ files'[step].model = new
      /\ files'[step].optimizer = files[step].optimizer
      /\ files'[step].buffer = files[step].buffer
  BY <1>1, <1>2, <1>3, Holds DEF DiskTyped, Saves
<1>5. DiskTyped'
  <2>1. UNCHANGED <<mode, launch, reused, saved, born>>
    BY <1>1
  <2> QED BY <2>1, <1>4, Holds, Zenon DEF DiskTyped
<1>6. NamesOK'
  <2>1. mode = "train" => temperature = TemperatureAt(step)
    BY <1>1, Holds DEF ScheduleSurvives
  <2>2. SUFFICES ASSUME NEW s \in 1 .. NumSteps, Readable(files'[s].model)
        PROVE /\ files'[s].model.step = s
              /\ mode = "train" => files'[s].model.temperature = TemperatureAt(s)
    BY <1>1 DEF NamesOK, TemperatureAt
  <2> QED BY <1>3, <1>4, <2>1, <2>2, Holds DEF NamesOK
<1>7. ASSUME ~reused
      PROVE  DirectoryOK' /\ SavesOK'
  <2>1. /\ SavesOK /\ DirectoryOK /\ step \notin Named(files)
        /\ \A s \in Named(files) : s <= step
    BY <1>1, <1>2, <1>7, Holds DEF SavesOK
  <2>2. files[step] = NoFiles
    BY <1>2, <1>4, <2>1 DEF DirectoryOK, TogetherAt, Named
  <2>3. \A s \in 1 .. NumSteps : TogetherAt(s)'
    <3> SUFFICES ASSUME NEW s \in 1 .. NumSteps PROVE TogetherAt(s)'
      OBVIOUS
    <3>1. CASE s = step
      BY <3>1, <1>3, <1>4, <2>2, Tokens DEF TogetherAt, NoFiles
    <3>2. CASE s # step
      BY <3>2, <1>1, <1>4, <2>1 DEF TogetherAt, DirectoryOK
    <3> QED BY <3>1, <3>2
  <2>4. saved => \E s \in 1 .. NumSteps : Complete(files', s, WithBuffer)
    <3> SUFFICES ASSUME saved
                 PROVE  \E s \in 1 .. NumSteps : Complete(files', s, WithBuffer)
      OBVIOUS
    <3>1. PICK s \in 1 .. NumSteps : Complete(files, s, WithBuffer)
      BY <2>1 DEF DirectoryOK
    <3>2. s # step
      BY <3>1, <2>2, Tokens DEF Complete, NoFiles
    <3> QED BY <3>1, <3>2, <1>4 DEF Complete
  <2>5. DirectoryOK'
    BY <1>1, <2>3, <2>4 DEF DirectoryOK, WithBuffer
  <2>6. \A s \in Named(files)' : s <= step
    BY <1>2, <1>4, <2>1 DEF Named
  <2>7. /\ files'[step].optimizer = Missing /\ files'[step].buffer = Missing
        /\ Readable(files'[step].model) /\ files'[step].model.weights = Stamp(step)
    BY <1>3, <1>4, <2>2 DEF NoFiles
  <2>8. Stamp(step)' = Stamp(step) /\ step' = step /\ pc' = "optimizer"
    BY <1>1 DEF Stamp
  <2>9. SavesOK'
    BY <2>6, <2>7, <2>8 DEF SavesOK, Stepped
  <2> QED BY <2>5, <2>9
<1> QED BY <1>1, <1>2, <1>5, <1>6, <1>7 DEF ProcessOK, DiskOK, IInv

LEMMA SaveOptimizerPreserves ==
  ASSUME IInv, SaveOptimizer
  PROVE  IInv'
<1> DEFINE new == OptimizerFile(trainer)
<1>1. /\ UNCHANGED <<mode, launch, reused, saved, origin, born, step, judged, net,
                     opponent, ring, temperature, solver, plateau, loss, trainer>>
      /\ pc = "optimizer" /\ pc' = IF mode = "train" THEN "buffer" ELSE "prune"
      /\ files' = [files EXCEPT ![step].optimizer = new]
  BY DEF SaveOptimizer, play, WithBuffer
<1>2. /\ ProcessTyped' /\ Idle' /\ Runs' /\ Paced' /\ DeviceOK' /\ StepOK'
      /\ ScheduleSurvives' /\ PublishedOK' /\ LossOK'
      /\ ~reused' => OriginOK'
      /\ step \in 1 .. NumSteps /\ Stamp(step) \in Stamps
      /\ trainer.moments = Stamp(step)
      /\ Stepped
  <2>1. opponent' \in Stamps \cup {NoNet}
    BY <1>1, Holds DEF ProcessTyped
  <2> QED BY <1>1, <2>1, SavesKeep
<1>3. /\ new = [moments |-> Stamp(step), rate |-> trainer.adamRate]
      /\ new \in OptimizerFiles /\ Readable(new)
  <2>1. new = [moments |-> Stamp(step), rate |-> trainer.adamRate]
    BY <1>2, Holds, WaitedIs DEF OptimizerFile
  <2>2. trainer.adamRate \in Nat
    BY Holds DEF Trainers
  <2>3. new \in OptimizerFiles
    BY <1>2, <2>1, <2>2 DEF OptimizerFiles
  <2> QED BY <2>1, <2>3, Tokens
<1> HIDE DEF new
<1>4. /\ files \in [1 .. NumSteps -> Saves]
      /\ files' \in [1 .. NumSteps -> Saves]
      /\ \A s \in 1 .. NumSteps : s # step => files'[s] = files[s]
      /\ \A s \in 1 .. NumSteps : files'[s].model = files[s].model
      /\ files'[step].optimizer = new
      /\ files'[step].buffer = files[step].buffer
  BY <1>1, <1>2, <1>3, Holds DEF DiskTyped, Saves
<1>5. DiskTyped'
  <2>1. UNCHANGED <<mode, launch, reused, saved, born>>
    BY <1>1
  <2> QED BY <2>1, <1>4, Holds, Zenon DEF DiskTyped
<1>6. NamesOK'
  BY <1>1, <1>4, Holds, NamesSame
<1>7. ASSUME ~reused
      PROVE  DirectoryOK' /\ SavesOK'
  <2>1. /\ SavesOK /\ DirectoryOK
        /\ files[step].optimizer = Missing /\ files[step].buffer = Missing
        /\ Readable(files[step].model) /\ files[step].model.weights = Stamp(step)
        /\ \A s \in Named(files) : s <= step
    BY <1>1, <1>7, Holds DEF SavesOK
  <2>2. \A s \in 1 .. NumSteps : TogetherAt(s)'
    <3> SUFFICES ASSUME NEW s \in 1 .. NumSteps PROVE TogetherAt(s)'
      OBVIOUS
    <3>1. CASE s = step
      BY <3>1, <1>4, <2>1, Tokens DEF TogetherAt
    <3>2. CASE s # step
      BY <3>2, <1>1, <1>4, <2>1 DEF TogetherAt, DirectoryOK
    <3> QED BY <3>1, <3>2
  <2>3. saved => \E s \in 1 .. NumSteps : Complete(files', s, WithBuffer)
    <3> SUFFICES ASSUME saved
                 PROVE  \E s \in 1 .. NumSteps : Complete(files', s, WithBuffer)
      OBVIOUS
    <3>1. PICK s \in 1 .. NumSteps : Complete(files, s, WithBuffer)
      BY <2>1 DEF DirectoryOK
    <3>2. s # step
      BY <3>1, <2>1, Tokens DEF Complete
    <3> QED BY <3>1, <3>2, <1>4 DEF Complete
  <2>4. DirectoryOK'
    BY <1>1, <2>2, <2>3 DEF DirectoryOK, WithBuffer
  <2>5. \A s \in Named(files)' : s <= step
    BY <1>4, <2>1 DEF Named
  <2>6. /\ files'[step].buffer = Missing
        /\ Readable(files'[step].model) /\ files'[step].model.weights = Stamp(step)
        /\ Readable(files'[step].optimizer)
        /\ files'[step].optimizer.moments = Stamp(step)
    BY <1>2, <1>3, <1>4, <2>1
  <2>7. /\ Stamp(step)' = Stamp(step) /\ step' = step
        /\ pc' = "buffer" \/ (pc' = "prune" /\ ~WithBuffer')
    BY <1>1 DEF Stamp, WithBuffer
  <2>8. SavesOK'
    BY <2>5, <2>6, <2>7 DEF SavesOK, Stepped
  <2> QED BY <2>4, <2>8
<1> QED BY <1>1, <1>2, <1>5, <1>6, <1>7 DEF ProcessOK, DiskOK, IInv

LEMMA SaveBufferPreserves ==
  ASSUME IInv, SaveBuffer
  PROVE  IInv'
<1> DEFINE new == [stamp |-> Stamp(step), samples |-> SaveRing(ring)]
<1>1. /\ UNCHANGED <<mode, launch, reused, saved, origin, born, step, judged, net,
                     opponent, ring, temperature, solver, plateau, loss, trainer>>
      /\ pc = "buffer" /\ pc' = "prune" /\ mode = "train"
      /\ files' = [files EXCEPT ![step].buffer = new]
  BY Holds DEF SaveBuffer, play, Paced
<1>2. /\ ProcessTyped' /\ Idle' /\ Runs' /\ Paced' /\ DeviceOK' /\ StepOK'
      /\ ScheduleSurvives' /\ PublishedOK' /\ LossOK'
      /\ ~reused' => OriginOK'
      /\ step \in 1 .. NumSteps /\ Stamp(step) \in Stamps
      /\ Stepped
  <2>1. opponent' \in Stamps \cup {NoNet}
    BY <1>1, Holds DEF ProcessTyped
  <2> QED BY <1>1, <2>1, SavesKeep
<1>3. new.stamp = Stamp(step) /\ new \in BufferFiles /\ Readable(new)
  <2>1. PICK n \in Nat \ {0} : ring \in RingsOf(n)
    BY <1>1, Holds DEF Runs
  <2>2. SaveRing(ring) \in Seq(Nat)
    BY <2>1, SaveRingType
  <2>3. new \in BufferFiles
    BY <1>2, <2>2 DEF BufferFiles
  <2> QED BY <2>3, Tokens
<1> HIDE DEF new
<1>4. /\ files \in [1 .. NumSteps -> Saves]
      /\ files' \in [1 .. NumSteps -> Saves]
      /\ \A s \in 1 .. NumSteps : s # step => files'[s] = files[s]
      /\ \A s \in 1 .. NumSteps : /\ files'[s].model = files[s].model
                                  /\ files'[s].optimizer = files[s].optimizer
      /\ files'[step].buffer = new
  BY <1>1, <1>2, <1>3, Holds DEF DiskTyped, Saves
<1>5. DiskTyped'
  <2>1. UNCHANGED <<mode, launch, reused, saved, born>>
    BY <1>1
  <2> QED BY <2>1, <1>4, Holds, Zenon DEF DiskTyped
<1>6. NamesOK'
  BY <1>1, <1>4, Holds, NamesSame
<1>7. ASSUME ~reused
      PROVE  DirectoryOK' /\ SavesOK'
  <2>1. /\ SavesOK /\ DirectoryOK /\ files[step].buffer = Missing
        /\ Readable(files[step].model) /\ files[step].model.weights = Stamp(step)
        /\ Readable(files[step].optimizer)
        /\ files[step].optimizer.moments = Stamp(step)
        /\ \A s \in Named(files) : s <= step
    BY <1>1, <1>7, Holds DEF SavesOK
  <2>2. \A s \in 1 .. NumSteps : TogetherAt(s)'
    <3> SUFFICES ASSUME NEW s \in 1 .. NumSteps PROVE TogetherAt(s)'
      OBVIOUS
    <3>1. CASE s = step
      BY <3>1, <1>3, <1>4, <2>1, Tokens DEF TogetherAt
    <3>2. CASE s # step
      BY <3>2, <1>1, <1>4, <2>1 DEF TogetherAt, DirectoryOK
    <3> QED BY <3>1, <3>2
  <2>3. saved => \E s \in 1 .. NumSteps : Complete(files', s, WithBuffer)
    <3> SUFFICES ASSUME saved
                 PROVE  \E s \in 1 .. NumSteps : Complete(files', s, WithBuffer)
      OBVIOUS
    <3>1. PICK s \in 1 .. NumSteps : Complete(files, s, WithBuffer)
      BY <2>1 DEF DirectoryOK
    <3>2. s # step
      BY <1>1, <3>1, <2>1, Tokens DEF Complete, WithBuffer
    <3> QED BY <3>1, <3>2, <1>4 DEF Complete
  <2>4. DirectoryOK'
    BY <1>1, <2>2, <2>3 DEF DirectoryOK, WithBuffer
  <2>5. \A s \in Named(files)' : s <= step
    BY <1>4, <2>1 DEF Named
  <2>6. SavesOK'
    BY <1>1, <1>2, <1>3, <1>4, <2>1, <2>5 DEF SavesOK, Stepped, Stamp, WithBuffer
  <2> QED BY <2>4, <2>6
<1> QED BY <1>1, <1>2, <1>5, <1>6, <1>7 DEF ProcessOK, DiskOK, IInv

\* The step just saved is the highest there is, and is kept.
LEMMA PruneKeeps ==
  ASSUME DiskTyped, NEW s \in Named(files), \A u \in Named(files) : u <= s
  PROVE  Pruned(files, MaxCheckpoints)[s] = files[s]
<1>1. Named(files) \subseteq 1 .. NumSteps /\ DOMAIN files = 1 .. NumSteps
  BY DEF DiskTyped, Named
<1>2. {u \in Named(files) : u > s} = {}
  BY <1>1, Constants
<1>3. Cardinality({u \in Named(files) : u > s}) = 0
  BY <1>2, FS_EmptySet
<1>4. s \notin Surplus(files, MaxCheckpoints)
  BY <1>3, Constants DEF Surplus
<1> QED BY <1>1, <1>4 DEF Pruned

LEMMA PrunedIs ==
  ASSUME DiskTyped, NEW s \in 1 .. NumSteps
  PROVE  LET new == Pruned(files, MaxCheckpoints) IN
         /\ DOMAIN new = 1 .. NumSteps
         /\ new[s] \in Saves /\ new[s].model = files[s].model
         /\ \/ new[s] = files[s]
            \/ new[s].buffer = Missing /\ files[s].model # Missing
<1>1. DOMAIN files = 1 .. NumSteps /\ files[s] \in Saves
  BY DEF DiskTyped
<1>2. [files[s] EXCEPT !.optimizer = Missing, !.buffer = Missing] \in Saves
  BY <1>1 DEF Saves, Cut
<1>3. s \in Surplus(files, MaxCheckpoints) => files[s].model # Missing
  BY DEF Surplus, Named
<1> QED BY <1>1, <1>2, <1>3 DEF Pruned, Saves

LEMMA PrunePreserves ==
  ASSUME IInv, Prune
  PROVE  IInv'
<1>1. /\ UNCHANGED <<mode, launch, reused, origin, born, step, judged, net,
                     ring, temperature, solver, plateau, loss, trainer>>
      /\ pc = "prune" /\ saved' = TRUE
      /\ files' = Pruned(files, MaxCheckpoints)
      /\ IF mode = "train"
         THEN RefreshedOpponent(files', opponent, opponent') /\ pc' = "evaluate"
         ELSE UNCHANGED opponent /\ pc' = "judge"
  BY DEF Prune
<1>2. /\ files' \in [1 .. NumSteps -> Saves]
      /\ \A s \in 1 .. NumSteps :
           /\ files'[s].model = files[s].model
           /\ \/ files'[s] = files[s]
              \/ files'[s].buffer = Missing /\ files[s].model # Missing
  <2>1. files' = [s \in DOMAIN files' |-> files'[s]]
    BY <1>1 DEF Pruned
  <2>2. DOMAIN files' = 1 .. NumSteps
    BY <1>1, Holds DEF Pruned, DiskTyped
  <2>3. \A s \in 1 .. NumSteps :
           /\ files'[s] \in Saves /\ files'[s].model = files[s].model
           /\ \/ files'[s] = files[s]
              \/ files'[s].buffer = Missing /\ files[s].model # Missing
    BY <1>1, Holds, PrunedIs
  <2> QED BY <2>1, <2>2, <2>3
<1>3. opponent' \in Stamps \cup {NoNet}
  <2>1. opponent \in Stamps \cup {NoNet}
    BY Holds DEF ProcessTyped
  <2>2. \A s \in Named(files') : Readable(files'[s].model) =>
           files'[s].model.weights \in Stamps
    BY <1>2 DEF Saves, Cut, Named, ModelFiles, Readable
  <2> QED BY <1>1, <2>1, <2>2 DEF RefreshedOpponent
<1>4. mode = "train" \/ mode = "distil"
  BY Holds, TrainingAssumption DEF DiskTyped
<1>5. /\ ProcessTyped' /\ Idle' /\ Runs' /\ Paced' /\ DeviceOK' /\ StepOK'
      /\ ScheduleSurvives' /\ PublishedOK' /\ LossOK'
      /\ ~reused' => OriginOK'
      /\ step \in 1 .. NumSteps
  BY <1>1, <1>3, <1>4, SavesKeep
<1>6. DiskTyped'
  <2>1. UNCHANGED <<mode, launch, reused, born>> /\ saved' \in BOOLEAN
    BY <1>1
  <2> QED BY <2>1, <1>2, Holds, Zenon DEF DiskTyped
<1>7. NamesOK'
  BY <1>1, <1>2, Holds, NamesSame
<1>8. ASSUME ~reused
      PROVE  DirectoryOK' /\ SavesOK'
  <2>1. /\ SavesOK /\ DirectoryOK
        /\ Readable(files[step].model) /\ files[step].model.weights = Stamp(step)
        /\ Readable(files[step].optimizer)
        /\ files[step].optimizer.moments = Stamp(step)
        /\ WithBuffer => /\ Readable(files[step].buffer)
                         /\ files[step].buffer.stamp = Stamp(step)
        /\ \A s \in Named(files) : s <= step
    BY <1>1, <1>8, Holds DEF SavesOK
  <2>2. \A s \in 1 .. NumSteps : TogetherAt(s)'
    <3> SUFFICES ASSUME NEW s \in 1 .. NumSteps PROVE TogetherAt(s)'
      OBVIOUS
    <3>1. TogetherAt(s)
      BY <2>1 DEF DirectoryOK
    <3>2. CASE files'[s] = files[s]
      BY <3>1, <3>2, <1>1 DEF TogetherAt
    <3>3. CASE files'[s].buffer = Missing /\ files'[s].model # Missing
      BY <3>3 DEF TogetherAt
    <3> QED BY <3>2, <3>3, <1>2
  <2>3. files'[step] = files[step]
    <3>1. step \in Named(files)
      BY <1>5, <2>1, Holds DEF Named, Readable, DiskTyped
    <3> QED BY <1>1, <2>1, <3>1, Holds, PruneKeeps
  <2>4. Complete(files', step, WithBuffer)
    BY <2>1, <2>3 DEF Complete
  <2>5. DirectoryOK'
    BY <1>1, <1>5, <2>2, <2>4 DEF DirectoryOK, WithBuffer
  <2>6. \A s \in Named(files)' : s <= step
    BY <1>2, <2>1, Holds DEF Named, DiskTyped
  <2>7. step' = step /\ ((pc' = "evaluate" /\ mode' = "train") \/ pc' = "judge")
    BY <1>1
  <2>8. SavesOK'
    BY <2>6, <2>7 DEF SavesOK, Stepped
  <2> QED BY <2>5, <2>8
<1> QED BY <1>1, <1>5, <1>6, <1>7, <1>8 DEF ProcessOK, DiskOK, IInv

LEMMA CrashPreserves ==
  ASSUME IInv, Crash
  PROVE  IInv'
<1>1. UNCHANGED <<mode, launch, reused, saved, born>> /\ origin' = NoNet
  BY DEF Crash
<1>2. ProcessOK' /\ OriginOK'
  BY <1>1, GoneOK DEF Crash, OriginOK
<1>3. CASE files' = files
  BY <1>1, <1>2, <1>3, Holds, DiskSame DEF DiskTyped, IInv
<1>4. CASE Writing /\ files' = [files EXCEPT ![step] = [@ EXCEPT ![pc] = Torn]]
  <2>1. step \in 1 .. NumSteps /\ pc \in {"model", "optimizer", "buffer"}
    BY <1>4, Holds, Constants DEF Writing, StepOK, Stepped, ProcessTyped
  <2>2. /\ files \in [1 .. NumSteps -> Saves]
        /\ files' \in [1 .. NumSteps -> Saves]
        /\ \A s \in 1 .. NumSteps : s # step => files'[s] = files[s]
        /\ files'[step].model = IF pc = "model" THEN Torn ELSE files[step].model
        /\ files'[step].optimizer =
             IF pc = "optimizer" THEN Torn ELSE files[step].optimizer
        /\ files'[step].buffer = IF pc = "buffer" THEN Torn ELSE files[step].buffer
    <3> DEFINE cut == [files[step] EXCEPT ![pc] = Torn]
    <3>1. files[step] \in Saves /\ files \in [1 .. NumSteps -> Saves]
      BY <2>1, Holds DEF DiskTyped
    <3>2. /\ cut \in Saves
          /\ cut.model = IF pc = "model" THEN Torn ELSE files[step].model
          /\ cut.optimizer = IF pc = "optimizer" THEN Torn ELSE files[step].optimizer
          /\ cut.buffer = IF pc = "buffer" THEN Torn ELSE files[step].buffer
      BY <2>1, <3>1 DEF Saves, Cut
    <3>3. files' = [files EXCEPT ![step] = cut]
      BY <1>4
    <3> HIDE DEF cut
    <3> QED BY <2>1, <3>1, <3>2, <3>3
  <2>3. DiskTyped'
    BY <1>1, <2>2, Holds, Zenon DEF DiskTyped
  <2>4. NamesOK'
    <3>1. SUFFICES ASSUME NEW s \in 1 .. NumSteps, Readable(files'[s].model)
          PROVE /\ files'[s].model.step = s
                /\ mode = "train" => files'[s].model.temperature = TemperatureAt(s)
      BY <1>1 DEF NamesOK
    <3>2. files'[s].model = files[s].model
      BY <3>1, <2>2, Tokens
    <3> QED BY <3>1, <3>2, Holds DEF NamesOK
  <2>5. ASSUME ~reused
        PROVE  DirectoryOK'
    <3>1. SavesOK /\ DirectoryOK
      BY <2>5, Holds
    <3>2. /\ pc = "model" => files[step] = NoFiles
          /\ pc \in {"model", "optimizer"} => files[step].buffer = Missing
          /\ pc \in {"optimizer", "buffer"} => Readable(files[step].model)
          /\ pc = "optimizer" => files[step].optimizer = Missing
          /\ pc = "buffer" => /\ files[step].buffer = Missing
                              /\ Readable(files[step].optimizer)
                              /\ files[step].optimizer.moments = files[step].model.weights
      <4>1. CASE pc = "model"
        <5>1. step \notin Named(files)
          BY <3>1, <4>1 DEF SavesOK, Stepped
        <5>2. files[step] = NoFiles
          BY <5>1, <2>1, <2>2, <3>1 DEF Named, DirectoryOK, TogetherAt
        <5> QED BY <4>1, <5>2 DEF NoFiles
      <4>2. CASE pc # "model"
        BY <2>1, <3>1, <4>2 DEF SavesOK
      <4> QED BY <4>1, <4>2
    <3>3. \A s \in 1 .. NumSteps : TogetherAt(s)'
      <4> SUFFICES ASSUME NEW s \in 1 .. NumSteps PROVE TogetherAt(s)'
        OBVIOUS
      <4>1. CASE s = step /\ pc # "buffer"
        <5>1. files'[s].model # Missing /\ files'[s].buffer = Missing
          BY <4>1, <2>1, <2>2, <3>2, Tokens
        <5> QED BY <5>1 DEF TogetherAt
      <4>2. CASE s = step /\ pc = "buffer"
        BY <4>2, <2>2, <3>2, Tokens DEF TogetherAt
      <4>3. CASE s # step
        BY <4>3, <1>1, <2>2, <3>1 DEF TogetherAt, DirectoryOK
      <4> QED BY <4>1, <4>2, <4>3
    <3>4. saved => \E s \in 1 .. NumSteps : Complete(files', s, WithBuffer)
      <4> SUFFICES ASSUME saved
                   PROVE  \E s \in 1 .. NumSteps : Complete(files', s, WithBuffer)
        OBVIOUS
      <4>1. PICK s \in 1 .. NumSteps : Complete(files, s, WithBuffer)
        BY <3>1 DEF DirectoryOK
      <4>2. pc = "buffer" => WithBuffer
        BY Holds DEF Paced, WithBuffer
      <4>3. s # step
        BY <4>1, <4>2, <2>1, <3>2, Tokens DEF Complete, NoFiles
      <4> QED BY <4>1, <4>3, <2>2 DEF Complete
    <3> QED BY <1>1, <3>3, <3>4 DEF DirectoryOK, WithBuffer
  <2> QED BY <1>1, <1>2, <2>3, <2>4, <2>5 DEF DiskOK, IInv
<1> QED BY <1>3, <1>4 DEF Crash

-----------------------------------------------------------------------------
(* The theorems.                                                             *)

LEMMA StepPreserves == IInv /\ [Next]_vars => IInv'
<1> SUFFICES ASSUME IInv, [Next]_vars PROVE IInv'
  OBVIOUS
<1>1. CASE UNCHANGED vars
  BY <1>1, StutterPreserves
<1>2. CASE LaunchFresh
  BY <1>2, LaunchFreshPreserves
<1>3. CASE LaunchFromWeights
  BY <1>3, LaunchFromWeightsPreserves
<1>4. CASE LaunchResumed
  BY <1>4, LaunchResumedPreserves
<1>5. CASE Crash
  BY <1>5, CrashPreserves
<1>6. CASE Exit
  BY <1>6, ExitPreserves
<1>7. CASE CollectSome
  BY <1>7, CollectPreserves DEF CollectSome
<1>8. CASE LoopStep
  BY <1>8, TrainStepPreserves, SwapPreserves, EvaluateTrainingPreserves, LoopPreserves,
     FitStepPreserves, EvaluateStudentPreserves, ReportPreserves, SaveModelPreserves,
     SaveOptimizerPreserves, SaveBufferPreserves, PrunePreserves DEF LoopStep
<1>9. CASE DeviceFinishes
  BY <1>9, DeviceFinishesPreserves
<1>10. CASE StopFlag \/ StopBuffer
  BY <1>10, StopPreserves
<1> QED BY <1>1, <1>2, <1>3, <1>4, <1>5, <1>6, <1>7, <1>8, <1>9, <1>10 DEF Next

\* The invariant of a run of either program, over every crash and launch.
THEOREM RunInvariant == Spec => []IInv
  BY InitHolds, StepPreserves, PTL DEF Spec

\* As long as every launch resumes, a directory that once held a whole save holds
\* one in every state: a save cut off at any byte (training_loop.cc:300-330,
\* logging.cc) costs at most that save, and pruning never takes the last one.
THEOREM CheckpointSurvives == Spec => []CompleteSurvives
<1>1. IInv => CompleteSurvives
  BY Holds DEF CompleteSurvives, DirectoryOK, DiskTyped
<1> QED BY <1>1, RunInvariant, PTL

\* The weights, Adam's state and the samples a training launch resumes with
\* (resume.cc) were written by one save, whatever was killed before.
THEOREM ResumesOneSave == Spec => []ResumedTogether
<1>1. IInv => ResumedTogether
  BY Holds DEF ResumedTogether, OriginOK
<1> QED BY <1>1, RunInvariant, PTL

\* The temperature, decayed one step at a time and restored from checkpoints, is a
\* function of the step, and the workers play by it.
THEOREM ScheduleIsOfTheStep == Spec => []ScheduleSurvives
<1>1. IInv => ScheduleSurvives
  BY Holds
<1> QED BY <1>1, RunInvariant, PTL

\* No reader of the trainer meets a step the device still works on: the weights
\* published, judged and saved are committed ones, the published network is less
\* than a swap interval old at the loop's head, and every loss is averaged once.
THEOREM NothingHalfRead == Spec => []ReadsAreFinished
<1>1. IInv => ReadsAreFinished
  <2> SUFFICES ASSUME IInv PROVE ReadsAreFinished
    OBVIOUS
  <2>1. mode = "train" \/ mode = "distil"
    BY Holds, TrainingAssumption DEF DiskTyped
  <2>2. Half \notin {judged, opponent}
    BY Holds, Tokens DEF ProcessTyped
  <2>3. net # NoNet => net.weights # Half
    BY <2>1, Holds, Tokens DEF Idle, NoProcess, Runs, Nets
  <2>4. \A s \in Named(files) :
          /\ files[s].model # Torn => files[s].model.weights # Half
          /\ Readable(files[s].optimizer) => files[s].optimizer.moments # Half
    <3> SUFFICES ASSUME NEW s \in Named(files)
                 PROVE /\ files[s].model # Torn => files[s].model.weights # Half
                       /\ Readable(files[s].optimizer) =>
                            files[s].optimizer.moments # Half
      OBVIOUS
    <3>1. files[s] \in Saves /\ files[s].model # Missing
      BY Holds DEF DiskTyped, Named
    <3>2. files[s].model # Torn => files[s].model.weights \in Stamps
      BY <3>1 DEF Saves, Cut, ModelFiles
    <3>3. Readable(files[s].optimizer) => files[s].optimizer.moments \in Stamps
      BY <3>1 DEF Saves, Cut, OptimizerFiles, Readable
    <3> QED BY <3>2, <3>3, Tokens
  <2>5. pc = "loop" /\ mode = "train" => step - net.at < SwapInterval
    <3> SUFFICES ASSUME pc = "loop", mode = "train"
                 PROVE  step - net.at < SwapInterval
      OBVIOUS
    <3>1. "train" \in Modes /\ step \in Nat /\ net.at \in Nat /\ net.at >= Due(step)
      BY Holds, Constants DEF DiskTyped, ProcessTyped, Runs, Nets, PublishedOK
    <3>2. Due(step) \in Nat /\ step - Due(step) < SwapInterval /\ SwapInterval \in Nat
      BY <3>1, DueStep, TrainConstants
    <3> QED BY <3>1, <3>2
  <2>6. LossesFoldedOnce
    <3>1. CASE pc = "down"
      BY <3>1, Holds DEF Idle, NoProcess, NoLoss, NaN, LossesFoldedOnce
    <3>2. CASE pc # "down"
      BY <3>2, Holds DEF LossOK, LossesFoldedOnce
    <3> QED BY <3>1, <3>2
  <2> QED BY <2>2, <2>3, <2>4, <2>5, <2>6 DEF ReadsAreFinished, NetIsCommitted
<1> QED BY <1>1, RunInvariant, PTL

\* While a process runs Adam's rate never rises, and the evaluation that ends a
\* plateau (maybe_backoff_learning_rate()) lowers it unless it is at the floor.
THEOREM RateOnlyFalls == Spec => BackoffLowers
<1> DEFINE Lowers == pc # "down" /\ pc' # "down"
                     => /\ trainer'.adamRate <= trainer.adamRate
                        /\ BacksOff => trainer'.adamRate < trainer.adamRate
                                       \/ trainer.adamRate <= MinRate
<1>1. IInv /\ [Next]_vars => [Lowers]_vars
  <2> SUFFICES ASSUME IInv, Next, pc # "down", pc' # "down"
               PROVE  /\ trainer'.adamRate <= trainer.adamRate
                      /\ BacksOff => trainer'.adamRate < trainer.adamRate
                                     \/ trainer.adamRate <= MinRate
    BY Zenon
  <2>1. trainer.adamRate \in Nat /\ trainer.rate = trainer.adamRate
    BY Holds DEF Trainers, DeviceOK
  <2>2. CASE EvaluateTraining
    <3>1. CASE EvalInterval > 0 /\ step % EvalInterval = 0
      <4> DEFINE w == Waited(trainer)
      <4>1. PICK rate \in WinRates : Backoff(rate, w)
        BY <2>2, <3>1 DEF EvaluateTraining
      <4>2. w \in Trainers /\ w.rate = trainer.rate /\ w.adamRate = trainer.adamRate
        BY Holds, WaitedIs
      <4>3. "train" \in Modes /\ MinRate \in Nat /\ LrPatience \in Nat \ {0}
        BY <2>2, Holds, TrainConstants, TrainingAssumption
           DEF EvaluateTraining, DiskTyped
      <4>4. plateau \in [best : Int, streak : Nat] /\ rate \in Int
        BY Holds DEF ProcessTyped, WinRates
      <4> HIDE DEF w
      <4>5. WithRate(w, Lowered(w.rate)).adamRate = Lowered(w.rate)
        BY <4>2 DEF WithRate, Trainers
      <4>6. w.rate > MinRate => Lowered(w.rate) < w.rate
        BY <2>1, <4>2, <4>3 DEF Lowered
      <4>7. CASE rate > plateau.best
        <5>1. trainer' = w /\ plateau' = [best |-> rate, streak |-> 0]
          BY <4>1, <4>7 DEF Backoff
        <5>2. ~BacksOff
          <6>1. plateau'.best # plateau.best
            BY <5>1, <4>4, <4>7
          <6>2. BacksOff => plateau'.best = plateau.best
            BY <4>4 DEF BacksOff
          <6> QED BY <6>1, <6>2
        <5> QED BY <5>1, <5>2, <4>2, <2>1
      <4>8. CASE ~(rate > plateau.best) /\ plateau.streak + 1 < LrPatience
        <5>1. trainer' = w
          BY <4>1, <4>8 DEF Backoff
        <5>2. ~BacksOff
          BY <4>3, <4>4, <4>8 DEF BacksOff
        <5> QED BY <5>1, <5>2, <4>2, <2>1
      <4>9. CASE ~(rate > plateau.best) /\ ~(plateau.streak + 1 < LrPatience)
        <5>1. trainer' = IF w.rate <= MinRate THEN w ELSE WithRate(w, Lowered(w.rate))
          BY <4>1, <4>9 DEF Backoff
        <5>2. CASE w.rate <= MinRate
          BY <5>1, <5>2, <4>2, <2>1
        <5>3. CASE ~(w.rate <= MinRate)
          <6>1. w.rate \in Nat /\ Lowered(w.rate) < w.rate /\ Lowered(w.rate) \in Int
            BY <5>3, <4>2, <4>3, <4>6 DEF Trainers, Lowered
          <6> QED BY <6>1, <5>1, <5>3, <4>2, <4>5, <2>1
        <5> QED BY <5>2, <5>3
      <4> QED BY <4>7, <4>8, <4>9
    <3>2. CASE ~(EvalInterval > 0 /\ step % EvalInterval = 0)
      BY <2>1, <2>2, <3>2 DEF EvaluateTraining, BacksOff
    <3> QED BY <3>1, <3>2
  <2>3. CASE ~EvaluateTraining
    <3>1. ~BacksOff
      BY <2>3 DEF Next, BacksOff, LaunchFresh, LaunchFromWeights, LaunchResumed,
         MayLaunch, Crash, Exit, CollectSome, Collect, LoopStep, TrainStep, Swap,
         TrainingEnds, Draw, Drawn, FitStep, EvaluateStudent, Judge, MaxStepsReached,
         Report, SaveModel, SaveOptimizer, SaveBuffer, Prune, DeviceFinishes, StopFlag,
         StopBuffer, ProcessGone
    <3>2. \/ UNCHANGED trainer
          \/ trainer' = Waited(trainer)
          \/ trainer' = Trained(trainer, Stamp(step + 1)) /\ step < NumSteps
          \/ trainer' = DeviceDone(trainer)
      <4>1. CASE TrainStep \/ FitStep
        BY <4>1, Holds DEF TrainStep, FitStep, Paced
      <4>2. CASE Swap \/ TrainingEnds \/ Draw \/ Drawn \/ EvaluateStudent \/ Judge
                 \/ MaxStepsReached \/ Report \/ SaveModel \/ SaveOptimizer
                 \/ SaveBuffer \/ Prune
        BY <4>2 DEF Swap, TrainingEnds, Draw, Drawn, EvaluateStudent, Judge,
           MaxStepsReached, Report, SaveModel, SaveOptimizer, SaveBuffer, Prune
      <4>3. CASE CollectSome \/ DeviceFinishes \/ StopFlag \/ StopBuffer
        BY <4>3 DEF CollectSome, Collect, DeviceFinishes, StopFlag, StopBuffer
      <4>4. ~(LaunchFresh \/ LaunchFromWeights \/ LaunchResumed \/ Crash \/ Exit)
        BY DEF LaunchFresh, LaunchFromWeights, LaunchResumed, MayLaunch, Crash, Exit,
           ProcessGone
      <4> QED BY <2>3, <4>1, <4>2, <4>3, <4>4 DEF Next, LoopStep
    <3>3. CASE trainer' = Trained(trainer, Stamp(step + 1)) /\ step < NumSteps
      <4>1. Stamp(step + 1) \in Stamps
        BY <3>3, Holds, Constants, StampIs DEF ProcessTyped, Runs
      <4> QED BY <3>1, <3>3, <4>1, <2>1, Holds, TrainedIs
    <3>4. CASE trainer' = DeviceDone(trainer)
      BY <3>1, <3>4, <2>1, Holds DEF DeviceDone, Trainers
    <3>5. CASE trainer' \in {trainer, Waited(trainer)}
      BY <3>1, <3>5, <2>1, Holds, WaitedIs
    <3> QED BY <3>2, <3>3, <3>4, <3>5
  <2> QED BY <2>2, <2>3
<1> QED BY <1>1, RunInvariant, PTL DEF Spec, BackoffLowers

-----------------------------------------------------------------------------
(* Why the distillation ends.                                                *)

\* What is counted of the evaluations, and what a reason given stands for; the
\* buffer is stopped by stop(), after the flag, or by the end of run().
FitOK ==
  /\ passes \in Nat /\ verdicts \in Seq(BOOLEAN) /\ passes <= Len(verdicts)
  /\ \A i \in Len(verdicts) - passes + 1 .. Len(verdicts) : verdicts[i]
  /\ stop \in BOOLEAN
  /\ shut /\ pc # "done" => stop
  /\ reason # "not_stopped" => pc \in {"end", "done"}
  /\ ReasonIsTrue

LEMMA NobodyFit == NoProcess => FitOK
<1> SUFFICES ASSUME NoProcess PROVE FitOK
  OBVIOUS
<1>1. /\ passes = 0 /\ verdicts = <<>> /\ stop = FALSE /\ shut = FALSE
      /\ reason = "not_stopped"
  BY DEF NoProcess
<1>2. <<>> \in Seq(BOOLEAN) /\ Len(<<>>) = 0 /\ 0 \in Nat /\ 0 - 0 + 1 .. 0 = {}
  OBVIOUS
<1>3. \A i \in Len(verdicts) - passes + 1 .. Len(verdicts) : verdicts[i]
  BY <1>1
<1>4. /\ passes \in Nat /\ verdicts \in Seq(BOOLEAN) /\ passes <= Len(verdicts)
  BY <1>1, <1>2
<1>5. ReasonIsTrue
  BY <1>1 DEF ReasonIsTrue
<1> QED BY <1>1, <1>3, <1>4, <1>5 DEF FitOK

\* Actions that neither evaluate nor give a reason.
LEMMA FitSame ==
  ASSUME FitOK, UNCHANGED <<passes, verdicts, reason>>,
         stop' \in BOOLEAN, stop => stop',
         shut' /\ pc' # "done" => stop',
         pc \in {"end", "done"} => pc' \in {"end", "done"} /\ UNCHANGED step
  PROVE  FitOK'
  BY DEF FitOK, ReasonIsTrue

\* Actions that give the reason why.
LEMMA FitLeaves ==
  ASSUME FitOK, pc # "done", NEW why, Leaves(why),
         UNCHANGED <<step, passes, verdicts, stop, shut>>,
         why # "queue_drained",
         why = "stop_signal" => stop,
         why = "max_steps" => step = NumSteps,
         why = "convergence" =>
           step >= MinSteps /\ Patience \in Nat /\ passes >= Patience
  PROVE  FitOK'
<1>1. reason' = why /\ pc' = "end"
  BY DEF Leaves
<1>2. why = "convergence" =>
        /\ Len(verdicts) >= Patience
        /\ \A i \in Len(verdicts) - Patience + 1 .. Len(verdicts) : verdicts[i]
  BY DEF FitOK
<1> QED BY <1>1, <1>2 DEF FitOK, ReasonIsTrue

LEMMA FitEvaluates ==
  ASSUME FitOK, EvaluateStudent
  PROVE  FitOK'
<1>1. /\ pc = "evaluate" /\ pc' \in {"model", "judge"}
      /\ UNCHANGED <<step, stop, shut, reason>> /\ reason = "not_stopped"
  BY DEF EvaluateStudent, FitOK
<1>2. /\ passes' \in Nat /\ verdicts' \in Seq(BOOLEAN) /\ passes' <= Len(verdicts')
      /\ \A i \in Len(verdicts') - passes' + 1 .. Len(verdicts') : verdicts'[i]
  <2>1. CASE UNCHANGED <<passes, verdicts>>
    BY <2>1 DEF FitOK
  <2>2. ASSUME NEW passed \in BOOLEAN,
               passes' = NextPatience(passed), verdicts' = Append(verdicts, passed)
        PROVE  /\ passes' \in Nat /\ verdicts' \in Seq(BOOLEAN)
               /\ passes' <= Len(verdicts')
               /\ \A i \in Len(verdicts') - passes' + 1 .. Len(verdicts') : verdicts'[i]
    <3>1. /\ verdicts' \in Seq(BOOLEAN) /\ Len(verdicts') = Len(verdicts) + 1
          /\ Len(verdicts) \in Nat /\ passes \in Nat
          /\ \A i \in 1 .. Len(verdicts) : verdicts'[i] = verdicts[i]
          /\ verdicts'[Len(verdicts) + 1] = passed
      BY <2>2 DEF FitOK
    <3>2. CASE passed
      <4>1. passes' = passes + 1
        BY <2>2, <3>2 DEF NextPatience
      <4>2. passes' \in Nat /\ passes' <= Len(verdicts')
        BY <3>1, <4>1 DEF FitOK
      <4>3. \A i \in Len(verdicts') - passes' + 1 .. Len(verdicts') : verdicts'[i]
        <5> SUFFICES ASSUME NEW i \in Len(verdicts') - passes' + 1 .. Len(verdicts')
                     PROVE  verdicts'[i]
          OBVIOUS
        <5>1. CASE i = Len(verdicts) + 1
          BY <5>1, <3>1, <3>2, Zenon
        <5>2. CASE i # Len(verdicts) + 1
          <6>1. /\ i \in Len(verdicts) - passes + 1 .. Len(verdicts)
                /\ i \in 1 .. Len(verdicts)
            BY <5>2, <3>1, <4>1 DEF FitOK
          <6>2. verdicts[i]
            BY <6>1 DEF FitOK
          <6> QED BY <6>1, <6>2, <3>1, Zenon
        <5> QED BY <5>1, <5>2
      <4> QED BY <3>1, <4>2, <4>3, Zenon
    <3>3. CASE ~passed
      <4>1. passes' = 0
        BY <2>2, <3>3 DEF NextPatience
      <4> QED BY <3>1, <4>1
    <3> QED BY <3>2, <3>3, Zenon
  <2>3. \/ UNCHANGED <<passes, verdicts>>
        \/ \E passed \in BOOLEAN :
             passes' = NextPatience(passed) /\ verdicts' = Append(verdicts, passed)
    <3>1. CASE EvalInterval > 0 /\ step % EvalInterval = 0
      <4>1. PICK near \in BOOLEAN, low \in BOOLEAN :
              LET passed == near \/ (low /\ loss.folds > 0)
              IN  /\ passes' = NextPatience(passed)
                  /\ verdicts' = Append(verdicts, passed)
        BY <3>1 DEF EvaluateStudent
      <4> QED BY <4>1
    <3>2. CASE ~(EvalInterval > 0 /\ step % EvalInterval = 0)
      BY <3>2 DEF EvaluateStudent
    <3> QED BY <3>1, <3>2
  <2> QED BY <2>1, <2>2, <2>3
<1> QED BY <1>1, <1>2 DEF FitOK, ReasonIsTrue

LEMMA FitPreserves == IInv /\ FitOK /\ [Next]_vars => FitOK'
<1> SUFFICES ASSUME IInv, FitOK, [Next]_vars PROVE FitOK'
  OBVIOUS
<1>1. CASE UNCHANGED vars
  BY <1>1, FitSame DEF vars, process, fit, FitOK
<1>2. CASE LaunchFresh \/ LaunchFromWeights \/ LaunchResumed
  <2>1. /\ NoProcess /\ UNCHANGED <<passes, verdicts, shut, reason, stop>>
    BY <1>2, Holds DEF LaunchFresh, LaunchFromWeights, LaunchResumed, MayLaunch, Started,
       Idle, fit
  <2> QED BY <2>1, FitSame DEF NoProcess
<1>3. CASE Crash \/ Exit
  <2>1. NoProcess'
    BY <1>3 DEF Crash, Exit, ProcessGone, NoProcess
  <2> QED BY <2>1, NobodyFit, PTL
<1>4. CASE TrainStep \/ FitStep
  BY <1>4, FitSame DEF TrainStep, FitStep, FitOK, fit, play
<1>5. CASE CollectSome \/ Swap \/ EvaluateTraining \/ TrainingEnds \/ SaveModel
           \/ SaveOptimizer \/ SaveBuffer \/ Prune \/ DeviceFinishes
  <2>1. /\ UNCHANGED <<step, passes, verdicts, reason, stop, shut>>
        /\ pc \in {"end", "done"} => pc' = pc
        /\ pc = "done" => pc' = "done"
    BY <1>5 DEF CollectSome, Collect, Swap, EvaluateTraining, TrainingEnds, SaveModel,
       SaveOptimizer, SaveBuffer, Prune, DeviceFinishes, fit, play, disk
  <2> QED BY <2>1, FitSame DEF FitOK
<1>6. CASE EvaluateStudent
  BY <1>6, FitEvaluates
<1>7. CASE Draw
  <2>1. CASE stop
    BY <1>7, <2>1, FitLeaves DEF Draw
  <2>2. CASE ~stop
    BY <1>7, <2>2, FitSame DEF Draw, FitOK
  <2> QED BY <2>1, <2>2
<1>8. CASE Drawn
  <2>1. CASE shut /\ Leaves(IF stop THEN "stop_signal" ELSE "queue_drained")
    <3>1. stop
      BY <1>8, <2>1 DEF Drawn, FitOK
    <3> QED BY <1>8, <2>1, <3>1, FitLeaves DEF Drawn
  <2>2. CASE pc' = "fit" /\ UNCHANGED reason
    BY <1>8, <2>2, FitSame DEF Drawn, FitOK
  <2> QED BY <1>8, <2>1, <2>2 DEF Drawn
<1>9. CASE Judge
  <2>1. CASE Converged
    <3>1. Patience \in Nat
      BY <1>9, Holds, TrainingAssumption DEF Judge, Paced, DiskTyped, ValidDistil
    <3> QED BY <1>9, <2>1, <3>1, FitLeaves DEF Judge, Converged
  <2>2. CASE ~Converged
    BY <1>9, <2>2, FitSame DEF Judge, FitOK
  <2> QED BY <2>1, <2>2
<1>10. CASE MaxStepsReached
  <2>1. step = NumSteps
    BY <1>10, Holds, Constants DEF MaxStepsReached, ProcessTyped
  <2> QED BY <1>10, <2>1, FitLeaves DEF MaxStepsReached
<1>11. CASE Report
  BY <1>11, FitSame DEF Report, FitOK
<1>12. CASE StopFlag \/ StopBuffer
  BY <1>12, FitSame DEF StopFlag, StopBuffer, FitOK, fit
<1> QED BY <1>1, <1>2, <1>3, <1>4, <1>5, <1>6, <1>7, <1>8, <1>9, <1>10, <1>11, <1>12
        DEF Next, LoopStep

\* The reason the distillation reports (stop_reason_, distil_loop.cc) is why it
\* ended: with every order of the signal's two writes and the loop's steps it never
\* reports a drained queue, and it reports a convergence only on as many passed
\* evaluations in a row as the patience asks for, at a step where it may.
THEOREM ReasonStaysTrue == Spec => []ReasonIsTrue
<1>1. Init => FitOK
  BY NobodyFit DEF Init
<1>2. FitOK => ReasonIsTrue
  BY DEF FitOK
<1> QED BY <1>1, <1>2, RunInvariant, FitPreserves, PTL DEF Spec

-----------------------------------------------------------------------------
(* The order of the samples.                                                 *)

\* A ring of n slots whose samples, from its oldest on, are in the order they were
\* collected, none after the sample top; and a file of samples in that order.
InOrder(r, n, top) ==
  /\ r \in RingsOf(n)
  /\ r.total < n => r.pos = r.total
  /\ \A i \in 0 .. r.total - 1 : 0 < r.slots[i] /\ r.slots[i] <= top
  /\ \A i, j \in 0 .. r.pos - 1 : i < j => r.slots[i] < r.slots[j]
  /\ r.total = n =>
       \A i \in r.pos .. n - 1 :
         /\ \A j \in r.pos .. n - 1 : i < j => r.slots[i] < r.slots[j]
         /\ \A j \in 0 .. r.pos - 1 : r.slots[i] < r.slots[j]

Ascends(file, top) ==
  /\ file \in Seq(Nat)
  /\ \A i \in 1 .. Len(file) : 0 < file[i] /\ file[i] <= top
  /\ \A i, j \in 1 .. Len(file) : i < j => file[i] < file[j]

LEMMA Wraps ==
  ASSUME NEW n \in Nat \ {0}, NEW i \in 0 .. n - 1
  PROVE  i % n = i /\ (n + i) % n = i
<1>1. (n * 0 + i) % n = i /\ (n * 1 + i) % n = i
  BY Remainder
<1>2. n * 0 + i = i /\ n * 1 + i = n + i
  OBVIOUS
<1> QED BY <1>1, <1>2

LEMMA NewRingInOrder ==
  ASSUME NEW n \in Nat \ {0}, NEW top
  PROVE  InOrder(NewRing(n), n, top)
<1>1. NewRing(n).pos = 0 /\ NewRing(n).total = 0
  BY DEF NewRing
<1> QED BY <1>1, NewRingType DEF InOrder

LEMMA AddInOrder ==
  ASSUME NEW n \in Nat \ {0}, NEW r, NEW top \in Nat, InOrder(r, n, top),
         NEW s \in Nat, top < s
  PROVE  InOrder(Add(r, s), n, s)
<1> DEFINE new == Add(r, s)
<1>1. /\ r \in RingsOf(n) /\ r.slots \in [0 .. n - 1 -> Nat] /\ r.pos \in 0 .. n - 1
      /\ r.total \in 0 .. n /\ Capacity(r) = n
  BY RingSize DEF RingsOf, InOrder
<1>2. /\ new \in RingsOf(n)
      /\ new.slots = [r.slots EXCEPT ![r.pos] = s]
      /\ new.total = IF r.total < n THEN r.total + 1 ELSE r.total
      /\ new.pos = (r.pos + 1) % n
  BY <1>1, AddType DEF Add
<1>3. /\ new.slots[r.pos] = s
      /\ \A i \in 0 .. n - 1 : i # r.pos => new.slots[i] = r.slots[i]
  BY <1>1, <1>2
<1>4. new.pos = IF r.pos = n - 1 THEN 0 ELSE r.pos + 1
  <2>1. CASE r.pos = n - 1
    <3>1. (n + 0) % n = 0
      BY Wraps
    <3> QED BY <2>1, <3>1, <1>2
  <2>2. CASE r.pos # n - 1
    <3>1. r.pos + 1 \in 0 .. n - 1
      BY <2>2, <1>1
    <3>2. (r.pos + 1) % n = r.pos + 1
      BY <3>1, Wraps
    <3> QED BY <2>2, <3>2, <1>2
  <2> QED BY <2>1, <2>2
<1>5. /\ r.total < n => r.pos = r.total
      /\ \A i \in 0 .. r.total - 1 :
           r.slots[i] \in Nat /\ 0 < r.slots[i] /\ r.slots[i] < s /\ i \in 0 .. n - 1
      /\ \A i, j \in 0 .. r.pos - 1 : i < j => r.slots[i] < r.slots[j]
      /\ r.total = n =>
           \A i \in r.pos .. n - 1 :
             /\ \A j \in r.pos .. n - 1 : i < j => r.slots[i] < r.slots[j]
             /\ \A j \in 0 .. r.pos - 1 : r.slots[i] < r.slots[j]
  BY <1>1 DEF InOrder
<1> HIDE DEF new
<1>6. new.total < n => new.pos = new.total
  BY <1>1, <1>2, <1>4, <1>5
<1>7. \A i \in 0 .. new.total - 1 : 0 < new.slots[i] /\ new.slots[i] <= s
  BY <1>1, <1>2, <1>3, <1>5
<1>8. ASSUME NEW i \in 0 .. new.pos - 1, NEW j \in 0 .. new.pos - 1, i < j
      PROVE  new.slots[i] < new.slots[j]
  <2>1. /\ new.pos = r.pos + 1 /\ i \in 0 .. r.pos - 1 /\ i \in 0 .. n - 1
        /\ i # r.pos /\ i \in 0 .. r.total - 1 /\ new.slots[i] = r.slots[i]
    BY <1>1, <1>3, <1>4, <1>5, <1>8
  <2>2. CASE j = r.pos
    BY <2>1, <2>2, <1>3, <1>5
  <2>3. CASE j # r.pos
    <3>1. j \in 0 .. r.pos - 1 /\ j \in 0 .. n - 1
      BY <2>1, <2>3, <1>1
    <3> QED BY <2>1, <2>3, <3>1, <1>3, <1>5, <1>8
  <2> QED BY <2>2, <2>3
<1>9. ASSUME new.total = n, NEW i \in new.pos .. n - 1, NEW j \in 0 .. n - 1,
             j \in new.pos .. n - 1 => i < j
      PROVE  new.slots[i] < new.slots[j]
  <2>1. CASE r.pos = n - 1
    <3>1. new.pos = 0 /\ i < j /\ i \in 0 .. r.pos - 1 /\ i \in 0 .. r.total - 1
          /\ i # r.pos /\ new.slots[i] = r.slots[i]
      BY <2>1, <1>1, <1>3, <1>4, <1>5, <1>9
    <3>2. CASE j = r.pos
      BY <3>1, <3>2, <1>3, <1>5
    <3>3. CASE j # r.pos
      <4>1. j \in 0 .. r.pos - 1
        BY <2>1, <3>3, <1>1
      <4> QED BY <3>1, <3>3, <4>1, <1>3, <1>5
    <3> QED BY <3>2, <3>3
  <2>2. CASE r.pos # n - 1
    <3>1. /\ r.total = n /\ new.pos = r.pos + 1 /\ i \in r.pos .. n - 1 /\ i # r.pos
          /\ i \in 0 .. r.total - 1 /\ new.slots[i] = r.slots[i]
      <4>1. r.total = n
        <5>1. CASE r.total < n
          <6>1. r.total + 1 = n /\ r.pos = r.total
            BY <5>1, <1>2, <1>5, <1>9
          <6> QED BY <2>2, <6>1, <1>1
        <5> QED BY <5>1, <1>1
      <4>2. new.pos = r.pos + 1 /\ i \in r.pos .. n - 1 /\ i # r.pos /\ i \in 0 .. n - 1
        BY <2>2, <1>1, <1>4, <1>9
      <4> QED BY <4>1, <4>2, <1>3
    <3>2. CASE j = r.pos
      BY <3>1, <3>2, <1>3, <1>5
    <3>3. CASE j # r.pos
      <4>1. new.slots[j] = r.slots[j]
        BY <3>3, <1>3
      <4>2. j \in 0 .. r.pos - 1 \/ (j \in r.pos .. n - 1 /\ i < j)
        BY <3>1, <3>3, <1>1, <1>9
      <4> QED BY <3>1, <4>1, <4>2, <1>5
    <3> QED BY <3>2, <3>3
  <2> QED BY <2>1, <2>2
<1>10. InOrder(new, n, s)
  <2>1. new.pos \in 0 .. n - 1
    BY <1>1, <1>4
  <2>2. new.total = n =>
          \A i \in new.pos .. n - 1 :
            /\ \A j \in new.pos .. n - 1 : i < j => new.slots[i] < new.slots[j]
            /\ \A j \in 0 .. new.pos - 1 : new.slots[i] < new.slots[j]
    BY <2>1, <1>9
  <2> QED BY <2>2, <1>2, <1>6, <1>7, <1>8 DEF InOrder
<1> QED BY <1>10 DEF new

\* The games collected together are numbered on from the last one.
LEMMA AddBatchInOrder ==
  ASSUME NEW n \in Nat \ {0}, NEW r, NEW top \in Nat, InOrder(r, n, top),
         NEW k \in Nat
  PROVE  InOrder(AddBatch(r, [i \in 1 .. k |-> top + i]), n, top + k)
<1> DEFINE games == [i \in 1 .. k |-> top + i]
<1>1. games \in Seq(Nat) /\ Len(games) = k /\ \A i \in 1 .. k : games[i] = top + i
  OBVIOUS
<1>2. r \in RingsOf(n)
  BY DEF InOrder
<1> HIDE DEF games
<1>3. PICK after : /\ after[0] = r
                   /\ \A i \in 1 .. Len(games) : after[i] = Add(after[i - 1], games[i])
                   /\ AddBatch(r, games) = after[Len(games)]
  BY <1>1, <1>2, AddBatchSteps
<1> DEFINE wrong == {i \in 0 .. k : ~InOrder(after[i], n, top + i)}
<1>4. wrong = {}
  <2> SUFFICES ASSUME wrong # {} PROVE FALSE
    OBVIOUS
  <2>1. wrong \subseteq Nat
    OBVIOUS
  <2> HIDE DEF wrong
  <2>2. PICK i \in wrong : \A u \in wrong : i <= u
    BY <2>1, LeastNatural
  <2>3. i \in 0 .. k /\ ~InOrder(after[i], n, top + i)
    BY DEF wrong
  <2>4. i # 0
    BY <2>3, <1>3
  <2>5. i - 1 \in 0 .. k /\ i \in 1 .. k /\ ~(i <= i - 1)
    BY <2>3, <2>4
  <2>6. InOrder(after[i - 1], n, top + (i - 1))
    BY <2>2, <2>5 DEF wrong
  <2>7. after[i] = Add(after[i - 1], top + i)
    BY <2>5, <1>1, <1>3
  <2>8. top + (i - 1) \in Nat /\ top + i \in Nat /\ top + (i - 1) < top + i
    BY <2>5
  <2> QED BY <2>3, <2>6, <2>7, <2>8, AddInOrder
<1>5. InOrder(after[k], n, top + k)
  <2> HIDE DEF wrong
  <2>1. k \in 0 .. k /\ k \notin wrong
    BY <1>4
  <2> QED BY <2>1 DEF wrong
<1> QED BY <1>1, <1>3, <1>5 DEF games

\* A ring is saved from its oldest sample on.
LEMMA SavedAscends ==
  ASSUME NEW n \in Nat \ {0}, NEW r, NEW top \in Nat, InOrder(r, n, top)
  PROVE  Ascends(SaveRing(r), top) /\ Len(SaveRing(r)) = r.total
<1>1. /\ r \in RingsOf(n) /\ r.slots \in [0 .. n - 1 -> Nat] /\ r.pos \in 0 .. n - 1
      /\ r.total \in 0 .. n /\ Capacity(r) = n /\ Held(r) = r.total
  BY RingSize DEF RingsOf, InOrder
<1> DEFINE first == IF Held(r) < Capacity(r) THEN 0 ELSE r.pos
           at(i) == (first + i - 1) % Capacity(r)
           file == SaveRing(r)
<1>2. file = [i \in 1 .. r.total |-> r.slots[at(i)]]
  BY <1>1 DEF SaveRing
<1>3. file \in Seq(Nat)
  BY <1>1, SaveRingType
<1> HIDE DEF at
<1>4. Len(file) = r.total /\ \A i \in 1 .. r.total : file[i] = r.slots[at(i)]
  BY <1>1, <1>2
<1>5. ASSUME NEW i \in 1 .. r.total
      PROVE  at(i) = IF r.total < n THEN i - 1
                     ELSE IF r.pos + i - 1 < n THEN r.pos + i - 1
                     ELSE r.pos + i - 1 - n
  <2>1. CASE r.total < n
    <3>1. i - 1 \in 0 .. n - 1 /\ 0 + i - 1 = i - 1
      BY <2>1, <1>1
    <3>2. (i - 1) % n = i - 1
      BY <3>1, Wraps
    <3> QED BY <2>1, <3>1, <3>2, <1>1 DEF at
  <2>2. CASE ~(r.total < n) /\ r.pos + i - 1 < n
    <3>1. r.pos + i - 1 \in 0 .. n - 1
      BY <2>2, <1>1
    <3>2. (r.pos + i - 1) % n = r.pos + i - 1
      BY <3>1, Wraps
    <3> QED BY <2>2, <3>2, <1>1 DEF at
  <2>3. CASE ~(r.total < n) /\ ~(r.pos + i - 1 < n)
    <3>1. r.pos + i - 1 - n \in 0 .. n - 1 /\ n + (r.pos + i - 1 - n) = r.pos + i - 1
      BY <2>3, <1>1
    <3>2. (r.pos + i - 1) % n = r.pos + i - 1 - n
      BY <3>1, Wraps
    <3> QED BY <2>3, <3>2, <1>1 DEF at
  <2> QED BY <2>1, <2>2, <2>3
<1> HIDE DEF file, first
<1> HIDE DEF at
<1>6. ASSUME NEW i \in 1 .. r.total
      PROVE  at(i) \in 0 .. r.total - 1
  <2>1. CASE r.total < n
    <3>1. at(i) = i - 1
      BY <2>1, <1>5
    <3> QED BY <3>1, <1>1
  <2>2. CASE ~(r.total < n) /\ r.pos + i - 1 < n
    <3>1. at(i) = r.pos + i - 1 /\ r.total = n
      BY <2>2, <1>1, <1>5
    <3> QED BY <2>2, <3>1, <1>1
  <2>3. CASE ~(r.total < n) /\ ~(r.pos + i - 1 < n)
    <3>1. at(i) = r.pos + i - 1 - n /\ r.total = n
      BY <2>3, <1>1, <1>5
    <3> QED BY <2>3, <3>1, <1>1
  <2> QED BY <2>1, <2>2, <2>3
<1>7. \A i \in 1 .. r.total : 0 < file[i] /\ file[i] <= top
  BY <1>4, <1>6 DEF InOrder
<1>8. ASSUME NEW i \in 1 .. r.total, NEW j \in 1 .. r.total, i < j
      PROVE  file[i] < file[j]
  <2>1. CASE r.total < n
    <3>1. at(i) = i - 1 /\ at(j) = j - 1 /\ r.pos = r.total
      BY <2>1, <1>5 DEF InOrder
    <3>2. i - 1 \in 0 .. r.pos - 1 /\ j - 1 \in 0 .. r.pos - 1 /\ i - 1 < j - 1
      BY <3>1, <1>1, <1>8
    <3>3. r.slots[i - 1] < r.slots[j - 1]
      BY <3>2 DEF InOrder
    <3> QED BY <3>1, <3>3, <1>4
  <2>2. CASE r.total = n
    <3>1. /\ \A u, v \in 0 .. r.pos - 1 : u < v => r.slots[u] < r.slots[v]
          /\ \A u \in r.pos .. n - 1 :
               /\ \A v \in r.pos .. n - 1 : u < v => r.slots[u] < r.slots[v]
               /\ \A v \in 0 .. r.pos - 1 : r.slots[u] < r.slots[v]
      BY <2>2 DEF InOrder
    <3>2. /\ at(i) = IF r.pos + i - 1 < n THEN r.pos + i - 1 ELSE r.pos + i - 1 - n
          /\ at(j) = IF r.pos + j - 1 < n THEN r.pos + j - 1 ELSE r.pos + j - 1 - n
      BY <2>2, <1>5
    <3> DEFINE p == r.pos
    <3>3. p \in 0 .. n - 1 /\ i \in 1 .. n /\ j \in 1 .. n /\ i < j
      BY <2>2, <1>1, <1>8
    <3>4. CASE r.pos + j - 1 < n
      <4>1. r.pos + i - 1 < n
        BY <3>3, <3>4
      <4>2. at(i) = r.pos + i - 1 /\ at(j) = r.pos + j - 1
        BY <3>2, <3>4, <4>1
      <4>3. at(i) \in r.pos .. n - 1 /\ at(j) \in r.pos .. n - 1 /\ at(i) < at(j)
        <5>1. at(i) = p + i - 1 /\ at(j) = p + j - 1 /\ p + i - 1 < n /\ p + j - 1 < n
          BY <4>1, <4>2, <3>4
        <5> HIDE DEF p
        <5>2. /\ p + i - 1 \in p .. n - 1 /\ p + j - 1 \in p .. n - 1
              /\ p + i - 1 < p + j - 1
          BY <5>1, <3>3
        <5> QED BY <5>1, <5>2 DEF p
      <4> QED BY <3>1, <4>3, <1>4
    <3>5. CASE ~(r.pos + j - 1 < n) /\ r.pos + i - 1 < n
      <4>1. at(i) = r.pos + i - 1 /\ at(j) = r.pos + j - 1 - n
        BY <3>2, <3>5
      <4>2. at(i) \in r.pos .. n - 1 /\ at(j) \in 0 .. r.pos - 1
        <5>1. at(i) = p + i - 1 /\ at(j) = p + j - 1 - n /\ p + i - 1 < n
              /\ ~(p + j - 1 < n)
          BY <4>1, <3>5
        <5> HIDE DEF p
        <5>2. p + i - 1 \in p .. n - 1 /\ p + j - 1 - n \in 0 .. p - 1
          BY <5>1, <3>3
        <5> QED BY <5>1, <5>2 DEF p
      <4> QED BY <3>1, <4>2, <1>4
    <3>6. CASE ~(r.pos + i - 1 < n)
      <4>1. ~(r.pos + j - 1 < n)
        BY <3>6, <2>2, <1>1, <1>8
      <4>2. at(i) = r.pos + i - 1 - n /\ at(j) = r.pos + j - 1 - n
        BY <3>2, <3>6, <4>1
      <4>3. at(i) \in 0 .. r.pos - 1 /\ at(j) \in 0 .. r.pos - 1 /\ at(i) < at(j)
        <5>1. at(i) = p + i - 1 - n /\ at(j) = p + j - 1 - n
              /\ ~(p + i - 1 < n) /\ ~(p + j - 1 < n)
          BY <4>1, <4>2, <3>6
        <5> HIDE DEF p
        <5>2. /\ p + i - 1 - n \in 0 .. p - 1 /\ p + j - 1 - n \in 0 .. p - 1
              /\ p + i - 1 - n < p + j - 1 - n
          BY <5>1, <3>3
        <5> QED BY <5>1, <5>2 DEF p
      <4> QED BY <3>1, <4>3, <1>4
    <3> QED BY <3>4, <3>5, <3>6
  <2> QED BY <2>1, <2>2, <1>1
<1>9. Ascends(file, top)
  BY <1>3, <1>4, <1>7, <1>8 DEF Ascends
<1> QED BY <1>4, <1>9 DEF file

\* A file is loaded from its start, into a ring of any size.
LEMMA LoadedInOrder ==
  ASSUME NEW n \in Nat \ {0}, NEW top \in Nat, NEW file, Ascends(file, top)
  PROVE  InOrder(LoadRing(file, n), n, top)
<1> DEFINE count == IF Len(file) > n THEN n ELSE Len(file)
           r == LoadRing(file, n)
<1>1. file \in Seq(Nat) /\ Len(file) \in Nat
  BY DEF Ascends
<1>2. count \in 0 .. n /\ count <= Len(file)
  BY <1>1
<1>3. /\ r.slots = [i \in 0 .. n - 1 |-> IF i < count THEN file[i + 1] ELSE NoSample]
      /\ r.pos = count % n /\ r.total = count
  BY DEF LoadRing
<1>4. r \in RingsOf(n)
  BY <1>1, LoadRingType
<1> HIDE DEF r, count
<1>5. \A i \in 0 .. count - 1 : r.slots[i] = file[i + 1] /\ i + 1 \in 1 .. Len(file)
  BY <1>1, <1>2, <1>3
<1>6. r.pos = IF count < n THEN count ELSE 0
  <2>1. CASE count < n
    <3>1. count \in 0 .. n - 1
      BY <2>1, <1>2
    <3> QED BY <2>1, <3>1, <1>3, Wraps
  <2>2. CASE count = n
    <3>1. (n + 0) % n = 0
      BY Wraps
    <3> QED BY <2>2, <3>1, <1>3
  <2> QED BY <2>1, <2>2, <1>2
<1>7. \A i \in 0 .. count - 1 : 0 < r.slots[i] /\ r.slots[i] <= top
  BY <1>5 DEF Ascends
<1>8. ASSUME NEW i \in 0 .. count - 1, NEW j \in 0 .. count - 1, i < j
      PROVE  r.slots[i] < r.slots[j]
  <2>1. i + 1 < j + 1
    BY <1>2, <1>8
  <2> QED BY <2>1, <1>5 DEF Ascends
<1>9. InOrder(r, n, top)
  <2>1. CASE count < n
    <3>1. r.pos = count /\ r.total = count /\ count # n
      BY <2>1, <1>2, <1>3, <1>6
    <3> QED BY <3>1, <1>4, <1>7, <1>8 DEF InOrder
  <2>2. CASE ~(count < n)
    <3>1. r.pos = 0 /\ r.total = n /\ count = n
      BY <2>2, <1>2, <1>3, <1>6
    <3>2. /\ \A i, j \in 0 .. r.pos - 1 : FALSE
          /\ \A i, j \in r.pos .. n - 1 : i < j => r.slots[i] < r.slots[j]
      BY <3>1, <1>8
    <3> QED BY <3>1, <3>2, <1>4, <1>7 DEF InOrder
  <2> QED BY <2>1, <2>2
<1> QED BY <1>9 DEF r

\* A ring in order stays in order while only newer samples exist besides.
LEMMA OlderOrder ==
  ASSUME NEW top \in Nat, NEW later \in Nat, top <= later
  PROVE  /\ \A r, n : n \in Nat \ {0} /\ InOrder(r, n, top) => InOrder(r, n, later)
         /\ \A file : Ascends(file, top) => Ascends(file, later)
<1>1. ASSUME NEW r, NEW n \in Nat \ {0}, InOrder(r, n, top)
      PROVE  InOrder(r, n, later)
  <2>1. \A i \in 0 .. r.total - 1 : r.slots[i] \in Nat
    BY <1>1 DEF InOrder, RingsOf
  <2> QED BY <1>1, <2>1 DEF InOrder
<1>2. ASSUME NEW file, Ascends(file, top)
      PROVE  Ascends(file, later)
  BY <1>2 DEF Ascends
<1> QED BY <1>1, <1>2

\* The ring of a training launch, and every buffer that was saved whole, are in
\* the order the samples were collected in, and none is yet to be collected.
BufferOK(file) == Readable(file) => Ascends(file.samples, born)

RingOK ==
  mode = "train" =>
    /\ pc # "down" => \E n \in Nat \ {0} : InOrder(ring, n, born)
    /\ \A s \in 1 .. NumSteps : BufferOK(files[s].buffer)

\* Actions that collect nothing and save no buffer.
LEMMA RingSame ==
  ASSUME RingOK, UNCHANGED <<mode, born>>,
         pc' # "down" => pc # "down" /\ UNCHANGED ring,
         \A s \in 1 .. NumSteps :
           files'[s].buffer = files[s].buffer \/ ~Readable(files'[s].buffer)
  PROVE  RingOK'
<1> SUFFICES ASSUME mode = "train" PROVE RingOK'
  BY DEF RingOK
<1>1. ASSUME NEW s \in 1 .. NumSteps PROVE BufferOK(files[s].buffer)'
  BY <1>1 DEF RingOK, BufferOK
<1> QED BY <1>1 DEF RingOK

LEMMA RingCollects ==
  ASSUME IInv, RingOK, NEW k \in 1 .. MaxCollect, Collect(k)
  PROVE  RingOK'
<1>1. /\ mode = "train" /\ pc = "loop" /\ UNCHANGED <<mode, files>>
      /\ ring' = AddBatch(ring, [i \in 1 .. k |-> born + i]) /\ born' = born + k
  BY DEF Collect
<1>2. k \in Nat /\ born \in Nat /\ born' \in Nat /\ born <= born'
  BY <1>1, Holds, TrainingAssumption DEF DiskTyped
<1>3. PICK n \in Nat \ {0} : InOrder(ring, n, born)
  BY <1>1 DEF RingOK
<1>4. InOrder(ring', n, born')
  BY <1>1, <1>2, <1>3, AddBatchInOrder
<1>5. ASSUME NEW s \in 1 .. NumSteps PROVE BufferOK(files[s].buffer)'
  <2>1. Readable(files[s].buffer) => Ascends(files[s].buffer.samples, born)
    BY <1>1 DEF RingOK, BufferOK
  <2>2. Readable(files[s].buffer) => Ascends(files[s].buffer.samples, born')
    BY <2>1, <1>2, OlderOrder
  <2> QED BY <2>2, <1>1 DEF BufferOK
<1> QED BY <1>4, <1>5 DEF RingOK

LEMMA RingLaunches ==
  ASSUME IInv, RingOK, NEW c \in Capacities,
         NEW t, NEW at, NEW temp, NEW r, Started(t, at, temp, r),
         mode = "train" => InOrder(r, c, born)
  PROVE  RingOK'
<1> SUFFICES ASSUME mode = "train" PROVE RingOK'
  BY DEF Started, RingOK
<1>1. ring' = r /\ UNCHANGED <<mode, files, born>>
  BY DEF Started
<1>2. c \in Nat \ {0}
  BY RingOfLaunch
<1>3. ASSUME NEW s \in 1 .. NumSteps PROVE BufferOK(files[s].buffer)'
  BY <1>1 DEF RingOK, BufferOK
<1> QED BY <1>1, <1>2, <1>3 DEF RingOK

LEMMA RingResumes ==
  ASSUME IInv, RingOK, LaunchResumed
  PROVE  RingOK'
<1> DEFINE at == files[Latest(files)]
           t == Restored(FreshTrainer, at.model, at.optimizer)
<1>1. PICK c \in Capacities :
        Started(t, at.model.step, SavedTemperature(at), SavedRing(at, c))
  BY DEF LaunchResumed
<1>2. CanResume
  BY DEF LaunchResumed
<1>3. Latest(files) \in 1 .. NumSteps
  BY <1>2, Holds, LatestIs DEF CanResume, Present
<1>4. ASSUME mode = "train" PROVE InOrder(SavedRing(at, c), c, born)
  <2>1. c \in Nat \ {0} /\ born \in Nat
    BY <1>4, Holds, RingOfLaunch DEF DiskTyped
  <2>2. CASE Readable(at.buffer)
    <3>1. Ascends(at.buffer.samples, born)
      BY <1>3, <1>4, <2>2 DEF RingOK, BufferOK
    <3>2. SavedRing(at, c) = LoadRing(at.buffer.samples, c)
      BY <1>4, <2>2 DEF SavedRing, WithBuffer
    <3> HIDE DEF at
    <3> QED BY <2>1, <3>1, <3>2, LoadedInOrder
  <2>3. CASE ~Readable(at.buffer)
    <3>1. SavedRing(at, c) = NewRing(c)
      BY <2>3 DEF SavedRing
    <3> QED BY <2>1, <3>1, NewRingInOrder
  <2> QED BY <2>2, <2>3
<1> HIDE DEF at, t
<1> QED BY <1>1, <1>4, RingLaunches

LEMMA RingSaves ==
  ASSUME IInv, RingOK, SaveBuffer
  PROVE  RingOK'
<1> DEFINE new == [stamp |-> Stamp(step), samples |-> SaveRing(ring)]
<1>1. /\ UNCHANGED <<mode, born, ring>> /\ pc = "buffer" /\ mode = "train"
      /\ files' = [files EXCEPT ![step].buffer = new]
  BY Holds DEF SaveBuffer, play, Paced
<1>2. PICK n \in Nat \ {0} : InOrder(ring, n, born)
  BY <1>1 DEF RingOK
<1>3. Ascends(SaveRing(ring), born)
  BY <1>2, Holds, SavedAscends DEF DiskTyped
<1>4. new.samples = SaveRing(ring)
  OBVIOUS
<1> HIDE DEF new
<1>5. ASSUME NEW s \in 1 .. NumSteps PROVE BufferOK(files[s].buffer)'
  <2>1. files \in [1 .. NumSteps -> Saves]
    BY Holds DEF DiskTyped
  <2>2. files'[s].buffer = new \/ files'[s].buffer = files[s].buffer
    BY <1>1, <2>1 DEF Saves
  <2> QED BY <1>1, <1>3, <1>4, <2>2 DEF RingOK, BufferOK
<1> QED BY <1>1, <1>2, <1>5 DEF RingOK

LEMMA RingPreserves == IInv /\ RingOK /\ [Next]_vars => RingOK'
<1> SUFFICES ASSUME IInv, RingOK, [Next]_vars PROVE RingOK'
  OBVIOUS
<1>1. files \in [1 .. NumSteps -> Saves]
  BY Holds DEF DiskTyped
<1>2. CASE UNCHANGED vars
  BY <1>2, RingSame DEF vars, process, disk, play
<1>3. CASE LaunchFresh \/ LaunchFromWeights
  <2>1. PICK c \in Capacities :
          \E t : Started(t, 0, InitialTemperature, NewRing(c))
    BY <1>3 DEF LaunchFresh, LaunchFromWeights
  <2>2. PICK t : Started(t, 0, InitialTemperature, NewRing(c))
    BY <2>1
  <2>3. mode = "train" => InOrder(NewRing(c), c, born)
    BY RingOfLaunch, NewRingInOrder
  <2> QED BY <2>2, <2>3, RingLaunches
<1>4. CASE LaunchResumed
  BY <1>4, RingResumes
<1>5. CASE Crash \/ Exit
  <2>1. pc' = "down" /\ UNCHANGED <<mode, born>>
    BY <1>5 DEF Crash, Exit, ProcessGone
  <2>2. ASSUME NEW s \in 1 .. NumSteps
        PROVE  files'[s].buffer = files[s].buffer \/ ~Readable(files'[s].buffer)
    <3>1. CASE UNCHANGED files
      BY <3>1
    <3>2. CASE Writing /\ files' = [files EXCEPT ![step] = [@ EXCEPT ![pc] = Torn]]
      <4>1. files'[s] = files[s] \/ files'[s] = [files[s] EXCEPT ![pc] = Torn]
        BY <3>2, <1>1
      <4>2. files[s] \in Saves /\ pc \in {"model", "optimizer", "buffer"}
        BY <1>1, <3>2 DEF Writing
      <4>3. CASE pc = "buffer"
        BY <4>1, <4>2, <4>3, Tokens DEF Saves
      <4>4. CASE pc # "buffer"
        BY <4>1, <4>2, <4>4 DEF Saves
      <4> QED BY <4>3, <4>4
    <3> QED BY <1>5, <3>1, <3>2 DEF Crash, Exit
  <2> QED BY <2>1, <2>2, RingSame
<1>6. CASE CollectSome
  BY <1>6, RingCollects DEF CollectSome
<1>7. CASE SaveBuffer
  BY <1>7, RingSaves
<1>8. CASE SaveModel \/ SaveOptimizer
  <2>1. pc # "down" /\ UNCHANGED <<mode, born, ring>>
    BY <1>8 DEF SaveModel, SaveOptimizer, play
  <2>2. \A s \in 1 .. NumSteps : files'[s].buffer = files[s].buffer
    <3>1. CASE SaveModel
      BY <3>1, <1>1 DEF SaveModel, Saves
    <3>2. CASE SaveOptimizer
      BY <3>2, <1>1 DEF SaveOptimizer, Saves
    <3> QED BY <1>8, <3>1, <3>2
  <2> QED BY <2>1, <2>2, RingSame
<1>9. CASE Prune
  <2>1. /\ pc # "down" /\ UNCHANGED <<mode, born, ring>>
        /\ files' = Pruned(files, MaxCheckpoints)
    BY <1>9 DEF Prune
  <2>2. \A s \in 1 .. NumSteps :
          files'[s].buffer = files[s].buffer \/ ~Readable(files'[s].buffer)
    BY <2>1, Holds, PrunedIs, Tokens
  <2> QED BY <2>1, <2>2, RingSame
<1>10. CASE TrainStep \/ Swap \/ EvaluateTraining \/ TrainingEnds \/ Draw \/ Drawn
            \/ FitStep \/ EvaluateStudent \/ Judge \/ MaxStepsReached \/ Report
            \/ StopFlag \/ StopBuffer
  <2>1. pc # "down" /\ UNCHANGED <<mode, born, files, ring>>
    BY <1>10 DEF TrainStep, Swap, EvaluateTraining, TrainingEnds, Draw, Drawn, FitStep,
       EvaluateStudent, Judge, MaxStepsReached, Report, StopFlag, StopBuffer, disk, play
  <2> QED BY <2>1, RingSame
<1>11. CASE DeviceFinishes
  BY <1>11, RingSame DEF DeviceFinishes, disk, play
<1> QED BY <1>2, <1>3, <1>4, <1>5, <1>6, <1>7, <1>8, <1>9, <1>10, <1>11
        DEF Next, LoopStep

\* The replay buffer (replay_buffer.h) drops its oldest sample first, also when it
\* was saved full or not, loaded into a ring of another capacity and filled again,
\* and none of the slots the sampler draws from is without a sample.
THEOREM RingStaysInOrder == Spec => []RingInOrder
<1>1. Init => RingOK
  <2> SUFFICES ASSUME Init PROVE RingOK
    OBVIOUS
  <2>1. pc = "down" /\ \A s \in 1 .. NumSteps : files[s].buffer = Missing
    BY DEF Init, NoProcess, NoFiles
  <2> QED BY <2>1, Tokens DEF RingOK, BufferOK
<1>2. IInv /\ RingOK => RingInOrder
  <2> SUFFICES ASSUME IInv, RingOK, mode = "train" PROVE RingInOrder
    BY DEF RingInOrder
  <2> DEFINE kept == SaveRing(ring)
  <2>1. CASE pc = "down"
    <3>1. ring = NewRing(0)
      BY <2>1, Holds DEF Idle, NoProcess
    <3>2. ring.total = 0 /\ 0 .. 0 - 1 = {} /\ ring.slots = [i \in 0 .. 0 - 1 |-> NoSample]
      BY <3>1 DEF NewRing
    <3>3. DOMAIN ring.slots = {}
      BY <3>2
    <3>4. Capacity(ring) = 0
      BY <3>3, FS_EmptySet DEF Capacity
    <3>5. Held(ring) = 0
      BY <3>2, <3>4 DEF Held
    <3>6. DOMAIN kept = {}
      BY <3>5 DEF SaveRing
    <3> QED BY <3>2, <3>5, <3>6 DEF RingInOrder
  <2>2. CASE pc # "down"
    <3>1. PICK n \in Nat \ {0} : InOrder(ring, n, born)
      BY <2>2 DEF RingOK
    <3>2. ring \in RingsOf(n) /\ born \in Nat
      BY <3>1, Holds DEF InOrder, DiskTyped
    <3>3. Ascends(kept, born) /\ Held(ring) = ring.total
      BY <3>1, <3>2, SavedAscends, RingSize
    <3>4. kept \in Seq(Nat) /\ DOMAIN kept = 1 .. Len(kept)
      BY <3>3 DEF Ascends
    <3> HIDE DEF kept
    <3>5. /\ \A i \in DOMAIN kept : kept[i] # NoSample
          /\ \A i, j \in DOMAIN kept : i < j => kept[i] < kept[j]
      BY <3>3, <3>4 DEF Ascends, NoSample
    <3>6. \A i \in 0 .. Held(ring) - 1 : ring.slots[i] # NoSample
      BY <3>1, <3>3 DEF InOrder, NoSample
    <3> QED BY <3>5, <3>6 DEF RingInOrder, kept
  <2> QED BY <2>1, <2>2
<1> QED BY <1>1, <1>2, RunInvariant, RingPreserves, PTL DEF Spec
=============================================================================
