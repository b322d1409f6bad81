---------------------------- MODULE EngineProofs ----------------------------
(***************************************************************************)
(* Theorems about the comparison of two columns (Duel), for all scores,    *)
(* and about Engine for every sheet, number of players and score table     *)
(* that its assumptions allow.                                             *)
(*                                                                         *)
(* The inductive invariant has three independent parts over the types:     *)
(*   Opening   the legal cells are those of a rebuild, which for Down and  *)
(*             Up needs that these columns are filled in order;            *)
(*   Maxima    golden_max is the maximum of the board;                     *)
(*   Sums      the scratch flags of the sums are those of the board, and   *)
(*             the sums interlock (for which Maxima is needed: a large sum *)
(*             is compared with golden_max, not with the player's own      *)
(*             small sum).                                                 *)
(* Beside it TInv has the turn: cells_filled and                           *)
(* non_turbo_cells_remaining are counts of the board, sheets are filled    *)
(* one cell a round, and no turn without throws is left to a player who    *)
(* has Turbo cells only.  Counted says that upper_sum is the sum of the    *)
(* number rows: what makes a column clean is then part of its points, and  *)
(* what holds of two raw scores (PointsNeverDrop) holds of the columns.    *)
(* OneRuns says that the filled cells of a Mid or UpDown column are one    *)
(* run around the sheet.                                                   *)
(***************************************************************************)
EXTENDS Engine, FiniteSetTheorems, WellFoundedInduction, TLAPS

-----------------------------------------------------------------------------
(* The duel. *)

LEMMA CrushValues ==
  ASSUME NEW a \in Nat, NEW b \in Nat
  PROVE  /\ CrushMultiplier(a, b) \in 1..5
         /\ CrushMultiplier(a, b) = 1 <=> a < 2 * b \/ (a = 0 /\ b = 0)
  BY DEF CrushMultiplier

\* Only one side of a pairing can crush the other: duel.cc:31 relies on it when
\* it takes the larger of the two multipliers.
THEOREM OneSideCrushes ==
  ASSUME NEW a \in Nat, NEW b \in Nat
  PROVE  CrushMultiplier(a, b) = 1 \/ CrushMultiplier(b, a) = 1
<1>1. a < 2 * b \/ b < 2 * a \/ (a = 0 /\ b = 0)
  OBVIOUS
<1> QED BY <1>1, CrushValues

LEMMA ActiveCrushSymmetric ==
  ASSUME NEW a \in Nat, NEW b \in Nat
  PROVE  /\ ActiveCrush(a, b) = ActiveCrush(b, a)
         /\ ActiveCrush(a, b) \in 1..5
  BY CrushValues DEF ActiveCrush

\* What one side gains in a pairing the other loses (duel.cc:87-93 computes the
\* margin of the first side only).
THEOREM PairingIsZeroSum ==
  ASSUME NEW a \in Nat, NEW ca \in BOOLEAN, NEW b \in Nat, NEW cb \in BOOLEAN
  PROVE  PairingPoints(a, ca, b, cb) = -PairingPoints(b, cb, a, ca)
<1>1. CleanBonus(a, b) = CleanBonus(b, a) /\ CleanBonus(a, b) \in Nat
  BY ActiveCrushSymmetric DEF CleanBonus
<1> DEFINE x == a + IF ca THEN CleanBonus(a, b) ELSE 0
           y == b + IF cb THEN CleanBonus(a, b) ELSE 0
           m == ActiveCrush(a, b)
<1>2. x \in Int /\ y \in Int /\ m \in 1..5
  BY <1>1, ActiveCrushSymmetric
<1>3. /\ PairingPoints(a, ca, b, cb) = (x - y) * m
      /\ PairingPoints(b, cb, a, ca) = (y - x) * m
  BY <1>1, ActiveCrushSymmetric DEF PairingPoints
<1> HIDE DEF x, y, m
<1>4. m = 1 \/ m = 2 \/ m = 3 \/ m = 4 \/ m = 5
  BY <1>2
<1>5. (x - y) * m = -((y - x) * m)
  BY <1>2, <1>4
<1> QED BY <1>3, <1>5

-----------------------------------------------------------------------------
(* More points for a column never cost its owner.                          *)

\* How much the higher raw score is of the lower.
LEMMA CrushIs ==
  ASSUME NEW a \in Nat, NEW b \in Nat
  PROVE  LET k == ActiveCrush(a, b) IN
         \/ k = 1 /\ ((a < 2 * b /\ b < 2 * a) \/ (a = 0 /\ b = 0))
         \/ k = 2 /\ ((2 * b <= a /\ a < 3 * b) \/ (2 * a <= b /\ b < 3 * a))
         \/ k = 3 /\ ((3 * b <= a /\ a < 4 * b) \/ (3 * a <= b /\ b < 4 * a))
         \/ k = 4 /\ ((4 * b <= a /\ a < 5 * b) \/ (4 * a <= b /\ b < 5 * a))
         \/ k = 5 /\ ((5 * b <= a /\ a > 0) \/ (5 * a <= b /\ b > 0))
<1>1. CASE a <= b
  <2>1. CrushMultiplier(a, b) = 1
    BY <1>1, CrushValues
  <2>2. ActiveCrush(a, b) = CrushMultiplier(b, a)
    BY <2>1, CrushValues DEF ActiveCrush
  <2> QED BY <1>1, <2>2 DEF CrushMultiplier
<1>2. CASE b < a
  <2>1. CrushMultiplier(b, a) = 1
    BY <1>2, CrushValues
  <2>2. ActiveCrush(a, b) = CrushMultiplier(a, b)
    BY <2>1, CrushValues DEF ActiveCrush
  <2> QED BY <1>2, <2>2 DEF CrushMultiplier
<1> QED BY <1>1, <1>2

LEMMA PointsAre ==
  ASSUME NEW a \in Nat, NEW ca \in BOOLEAN, NEW b \in Nat, NEW cb \in BOOLEAN
  PROVE  LET k == ActiveCrush(a, b)
             big == (a - b) + (IF ca THEN 200 ELSE 0) - (IF cb THEN 200 ELSE 0)
             small == (a - b) + (IF ca THEN 100 ELSE 0) - (IF cb THEN 100 ELSE 0)
         IN  /\ k = 1 => PairingPoints(a, ca, b, cb) = big
             /\ k = 2 => PairingPoints(a, ca, b, cb) = 2 * small
             /\ k = 3 => PairingPoints(a, ca, b, cb) = 3 * small
             /\ k = 4 => PairingPoints(a, ca, b, cb) = 4 * small
             /\ k = 5 => PairingPoints(a, ca, b, cb) = 5 * small
<1>1. ActiveCrush(a, b) \in 1..5
  BY ActiveCrushSymmetric
<1>2. CASE ActiveCrush(a, b) = 1
  BY <1>2 DEF PairingPoints, CleanBonus
<1>3. CASE ActiveCrush(a, b) = 2
  BY <1>3 DEF PairingPoints, CleanBonus
<1>4. CASE ActiveCrush(a, b) = 3
  BY <1>4 DEF PairingPoints, CleanBonus
<1>5. CASE ActiveCrush(a, b) = 4
  BY <1>5 DEF PairingPoints, CleanBonus
<1>6. CASE ActiveCrush(a, b) = 5
  BY <1>6 DEF PairingPoints, CleanBonus
<1> QED BY <1>1, <1>2, <1>3, <1>4, <1>5, <1>6

\* A pairing does not lose value for the side whose raw score rises, whatever
\* that does to the crush of either side, to the value of the clean bonus and
\* to the cleanness of the column.  That a clean column has at least 90 points
\* (60 in the number rows and the bonus of 30 for them) is needed: it keeps the
\* bonus smaller than the gap a crush multiplies (duel.cc:80-93).
THEOREM PointsNeverDrop ==
  ASSUME NEW a \in Nat, NEW ca \in BOOLEAN, ca => a >= 90,
         NEW b \in Nat, NEW cb \in BOOLEAN, cb => b >= 90,
         NEW a2 \in Nat, NEW ca2 \in BOOLEAN, a < a2, ca => ca2
  PROVE  PairingPoints(a, ca, b, cb) <= PairingPoints(a2, ca2, b, cb)
<1> DEFINE k == ActiveCrush(a, b)
           k2 == ActiveCrush(a2, b)
           x == PairingPoints(a, ca, b, cb)
           x2 == PairingPoints(a2, ca2, b, cb)
           big == (a - b) + (IF ca THEN 200 ELSE 0) - (IF cb THEN 200 ELSE 0)
           small == (a - b) + (IF ca THEN 100 ELSE 0) - (IF cb THEN 100 ELSE 0)
           big2 == (a2 - b) + (IF ca2 THEN 200 ELSE 0) - (IF cb THEN 200 ELSE 0)
           small2 == (a2 - b) + (IF ca2 THEN 100 ELSE 0) - (IF cb THEN 100 ELSE 0)
<1>1. /\ k = 1 => x = big
      /\ k = 2 => x = 2 * small
      /\ k = 3 => x = 3 * small
      /\ k = 4 => x = 4 * small
      /\ k = 5 => x = 5 * small
  BY PointsAre
<1>2. /\ k2 = 1 => x2 = big2
      /\ k2 = 2 => x2 = 2 * small2
      /\ k2 = 3 => x2 = 3 * small2
      /\ k2 = 4 => x2 = 4 * small2
      /\ k2 = 5 => x2 = 5 * small2
  BY PointsAre
<1>3. \/ k = 1 /\ ((a < 2 * b /\ b < 2 * a) \/ (a = 0 /\ b = 0))
      \/ k = 2 /\ ((2 * b <= a /\ a < 3 * b) \/ (2 * a <= b /\ b < 3 * a))
      \/ k = 3 /\ ((3 * b <= a /\ a < 4 * b) \/ (3 * a <= b /\ b < 4 * a))
      \/ k = 4 /\ ((4 * b <= a /\ a < 5 * b) \/ (4 * a <= b /\ b < 5 * a))
      \/ k = 5 /\ ((5 * b <= a /\ a > 0) \/ (5 * a <= b /\ b > 0))
  BY CrushIs
<1>4. \/ k2 = 1 /\ ((a2 < 2 * b /\ b < 2 * a2) \/ (a2 = 0 /\ b = 0))
      \/ k2 = 2 /\ ((2 * b <= a2 /\ a2 < 3 * b) \/ (2 * a2 <= b /\ b < 3 * a2))
      \/ k2 = 3 /\ ((3 * b <= a2 /\ a2 < 4 * b) \/ (3 * a2 <= b /\ b < 4 * a2))
      \/ k2 = 4 /\ ((4 * b <= a2 /\ a2 < 5 * b) \/ (4 * a2 <= b /\ b < 5 * a2))
      \/ k2 = 5 /\ ((5 * b <= a2 /\ a2 > 0) \/ (5 * a2 <= b /\ b > 0))
  BY CrushIs
<1> HIDE DEF k, k2, x, x2
<1>5. x <= x2
  <2>1. CASE k2 = 1
    BY <1>1, <1>2, <1>3, <1>4, <2>1
  <2>2. CASE k2 = 2
    BY <1>1, <1>2, <1>3, <1>4, <2>2
  <2>3. CASE k2 = 3
    BY <1>1, <1>2, <1>3, <1>4, <2>3
  <2>4. CASE k2 = 4
    BY <1>1, <1>2, <1>3, <1>4, <2>4
  <2>5. CASE k2 = 5
    BY <1>1, <1>2, <1>3, <1>4, <2>5
  <2> QED BY <1>4, <2>1, <2>2, <2>3, <2>4, <2>5
<1> QED BY <1>5 DEF x, x2

-----------------------------------------------------------------------------
(* The rules. *)

-----------------------------------------------------------------------------
(* Greatest elements.                                                      *)

NatLess == {x \in Nat \X Nat : x[1] < x[2]}

LEMMA NatLessWF == IsWellFoundedOn(NatLess, Nat)
  BY NatLessThanWellFounded DEF OpToRel, NatLess

LEMMA LeastNatural ==
  ASSUME NEW T, T \subseteq Nat, T # {}
  PROVE  \E t \in T : \A u \in T : t <= u
<1>1. PICK t \in T : \A u \in T : ~(<<u, t>> \in NatLess)
  BY NatLessWF, WFMin
<1>2. \A u \in T : t <= u
  <2> SUFFICES ASSUME NEW u \in T PROVE t <= u
    OBVIOUS
  <2>1. u \in Nat /\ t \in Nat /\ ~(<<u, t>> \in NatLess)
    BY <1>1
  <2>2. ~(u < t)
    BY <2>1 DEF NatLess
  <2> QED BY <2>1, <2>2
<1> QED BY <1>2

\* A bounded set of numbers has a greatest element, and Max is it.
LEMMA MaxIsGreatest ==
  ASSUME NEW n \in Nat, NEW S, S \subseteq -1..n, S # {}
  PROVE  Max(S) \in S /\ \A s \in S : s <= Max(S)
<1> DEFINE T == {k \in Nat : \E s \in S : k = n - s}
<1>1. \A s \in S : s \in -1..n /\ n + 1 \in Nat /\ n - s \in Nat
  OBVIOUS
<1>2. T \subseteq Nat /\ T # {}
  BY <1>1
<1>3. PICK t \in T : \A u \in T : t <= u
  BY <1>2, LeastNatural
<1>4. PICK m \in S : t = n - m
  OBVIOUS
<1>5. \A s \in S : m >= s
  <2> SUFFICES ASSUME NEW s \in S PROVE m >= s
    OBVIOUS
  <2>1. n - m <= n - s
    BY <1>1, <1>3, <1>4
  <2> QED BY <2>1, <1>1
<1>6. \E x \in S : \A y \in S : x >= y
  BY <1>5
<1>7. Max(S) \in S /\ \A y \in S : Max(S) >= y
  BY ONLY <1>6 DEF Max
<1> QED BY <1>7, <1>1

LEMMA MaxIsUnique ==
  ASSUME NEW n \in Nat, NEW S, S \subseteq -1..n,
         NEW m \in S, \A s \in S : s <= m
  PROVE  Max(S) = m
<1>1. Max(S) \in S /\ m <= Max(S)
  BY MaxIsGreatest
<1>2. \A s \in S : s \in Int
  OBVIOUS
<1>3. Max(S) <= m
  BY <1>1
<1> QED BY ONLY <1>1, <1>2, <1>3, m \in S

-----------------------------------------------------------------------------
(* Sums over finite sets.                                                  *)

\* How SumFunction goes through a set: the elements one after the other, as
\* CHOOSE gives them.
Any(s) == CHOOSE x \in s : TRUE

\* it adds f up over the subsets of S that have at most k elements.
AddsUpTo(it, S, f, k) ==
  \A s \in SUBSET S : Cardinality(s) <= k =>
     /\ it[s] \in Int
     /\ it[s] = IF s = {} THEN 0 ELSE f[Any(s)] + it[s \ {Any(s)}]

LEMMA OneLess ==
  ASSUME NEW S, IsFiniteSet(S), NEW s \in SUBSET S, NEW x \in s
  PROVE  /\ IsFiniteSet(s) /\ s \ {x} \in SUBSET S
         /\ Cardinality(s) \in Nat /\ Cardinality(s \ {x}) \in Nat
         /\ Cardinality(s \ {x}) = Cardinality(s) - 1
<1>1. IsFiniteSet(s)
  BY FS_Subset
<1>2. Cardinality(s \ {x}) = Cardinality(s) - 1 /\ IsFiniteSet(s \ {x})
  BY <1>1, FS_RemoveElement
<1> QED BY <1>1, <1>2, FS_CardinalityType

LEMMA AddsUpToExists ==
  ASSUME NEW S, IsFiniteSet(S), NEW f \in [S -> Int], NEW k \in Nat
  PROVE  \E it : AddsUpTo(it, S, f, k)
<1> DEFINE T == {j \in Nat : ~ \E it : AddsUpTo(it, S, f, j)}
<1>1. CASE T # {}
  <2>1. T \subseteq Nat /\ T # {}
    BY <1>1
  <2> HIDE DEF T
  <2>2. PICK j \in T : \A u \in T : j <= u
    BY <2>1, LeastNatural
  <2>3. j \in Nat /\ ~ \E it : AddsUpTo(it, S, f, j)
    BY <2>2 DEF T
  <2>4. \E g : AddsUpTo(g, S, f, j - 1)
    <3>1. CASE j = 0
      <4>1. ASSUME NEW s \in SUBSET S, Cardinality(s) <= j - 1 PROVE FALSE
        <5>1. Cardinality(s) \in Nat
          BY FS_Subset, FS_CardinalityType
        <5> QED BY <5>1, <4>1, <3>1
      <4> QED BY <4>1 DEF AddsUpTo
    <3>2. CASE j # 0
      <4>1. j - 1 \in Nat /\ j - 1 \notin T
        BY <2>2, <2>3, <3>2
      <4> QED BY <4>1 DEF T
    <3> QED BY <3>1, <3>2
  <2>5. PICK g : AddsUpTo(g, S, f, j - 1)
    BY <2>4
  <2> DEFINE it == [s \in SUBSET S |-> IF s = {} THEN 0 ELSE f[Any(s)] + g[s \ {Any(s)}]]
  <2>6. ASSUME NEW s \in SUBSET S, Cardinality(s) <= j - 1
        PROVE  it[s] = g[s]
    BY <2>5, <2>6 DEF AddsUpTo
  <2>7. ASSUME NEW s \in SUBSET S, Cardinality(s) <= j
        PROVE  /\ it[s] \in Int
               /\ it[s] = IF s = {} THEN 0 ELSE f[Any(s)] + it[s \ {Any(s)}]
    <3>1. CASE s = {}
      BY <3>1
    <3>2. CASE s # {}
      <4>1. Any(s) \in s
        BY <3>2 DEF Any
      <4>2. /\ s \ {Any(s)} \in SUBSET S
            /\ Cardinality(s) \in Nat
            /\ Cardinality(s \ {Any(s)}) = Cardinality(s) - 1
        BY <4>1, OneLess
      <4>3. Cardinality(s \ {Any(s)}) <= j - 1
        BY <4>2, <2>3, <2>7
      <4>4. it[s \ {Any(s)}] = g[s \ {Any(s)}] /\ g[s \ {Any(s)}] \in Int
        BY <4>2, <4>3, <2>5, <2>6 DEF AddsUpTo
      <4>5. it[s] = f[Any(s)] + g[s \ {Any(s)}]
        BY <3>2
      <4>6. f[Any(s)] \in Int
        BY <4>1
      <4> HIDE DEF it
      <4> QED BY <3>2, <4>4, <4>5, <4>6
    <3> QED BY <3>1, <3>2
  <2>8. AddsUpTo(it, S, f, j)
    <3> HIDE DEF it
    <3> QED BY <2>7 DEF AddsUpTo
  <2> QED BY <2>3, <2>8
<1>2. CASE T = {}
  BY <1>2
<1> QED BY <1>1, <1>2

\* it adds up f over every subset of S, taking the elements as CHOOSE does.
AddsUp(it, S, f) ==
  /\ \A s \in SUBSET S : it[s] \in Int
  /\ it[{}] = 0
  /\ \A s \in SUBSET S : s # {} => it[s] = f[Any(s)] + it[s \ {Any(s)}]

\* The same, whichever element is taken first.
SumsUp(it, S, f) ==
  /\ \A s \in SUBSET S : it[s] \in Int
  /\ it[{}] = 0
  /\ \A s \in SUBSET S : \A x \in s : it[s] = f[x] + it[s \ {x}]

\* The order in which a sum takes its elements is of no matter.
LEMMA AnyOrder ==
  ASSUME NEW S, IsFiniteSet(S), NEW f \in [S -> Int], NEW it, AddsUp(it, S, f)
  PROVE  SumsUp(it, S, f)
<1>0. /\ \A s \in SUBSET S : it[s] \in Int
      /\ \A s \in SUBSET S : s # {} => it[s] = f[Any(s)] + it[s \ {Any(s)}]
  BY DEF AddsUp
<1> DEFINE T == {k \in Nat : \E s \in SUBSET S : /\ Cardinality(s) = k
                                                  /\ \E x \in s : it[s] # f[x] + it[s \ {x}]}
<1>1. T = {}
  <2> SUFFICES ASSUME T # {} PROVE FALSE
    OBVIOUS
  <2>1. T \subseteq Nat /\ T # {}
    OBVIOUS
  <2> HIDE DEF T
  <2>2. PICK k \in T : \A u \in T : k <= u
    BY <2>1, LeastNatural
  <2>3. PICK s \in SUBSET S : /\ Cardinality(s) = k
                              /\ \E x \in s : it[s] # f[x] + it[s \ {x}]
    BY <2>2 DEF T
  <2>4. PICK x \in s : it[s] # f[x] + it[s \ {x}]
    BY <2>3
  <2> DEFINE y == Any(s)
  <2>5. y \in s /\ it[s] = f[y] + it[s \ {y}] /\ x # y
    BY <1>0, <2>4 DEF Any
  <2> HIDE DEF y
  <2>6. ASSUME NEW z \in s, NEW w \in s \ {z}
        PROVE  it[s \ {z}] = f[w] + it[(s \ {z}) \ {w}]
    <3>1. s \ {z} \in SUBSET S /\ Cardinality(s \ {z}) = k - 1 /\ Cardinality(s \ {z}) \in Nat
      BY <2>3, OneLess
    <3>2. k - 1 \notin T /\ k - 1 \in Nat
      BY <2>1, <2>2, <3>1
    <3> QED BY <3>1, <3>2, <2>6 DEF T
  <2>7. it[s \ {y}] = f[x] + it[(s \ {y}) \ {x}] /\ it[s \ {x}] = f[y] + it[(s \ {x}) \ {y}]
    BY <2>4, <2>5, <2>6
  <2>8. (s \ {y}) \ {x} = (s \ {x}) \ {y}
    OBVIOUS
  <2> DEFINE rest == it[(s \ {x}) \ {y}]
  <2>9. rest \in Int /\ f[x] \in Int /\ f[y] \in Int
    BY <1>0, <2>5
  <2>10. it[s] = f[y] + (f[x] + rest) /\ it[s \ {x}] = f[y] + rest
    BY <2>5, <2>7, <2>8
  <2> HIDE DEF rest
  <2>11. it[s] = f[x] + it[s \ {x}]
    BY <2>9, <2>10
  <2> QED BY <2>4, <2>11
<1>2. ASSUME NEW s \in SUBSET S, NEW x \in s
      PROVE  it[s] = f[x] + it[s \ {x}]
  <2>1. Cardinality(s) \in Nat
    BY OneLess
  <2> QED BY <1>1, <2>1
<1> QED BY <1>2 DEF SumsUp, AddsUp

LEMMA SumFunctionIs ==
  ASSUME NEW S, IsFiniteSet(S), NEW f \in [S -> Int]
  PROVE  \E it : SumsUp(it, S, f) /\ SumFunction(f) = it[S]
<1> DEFINE adds(it) == it = [s \in SUBSET S |->
                     IF s = {} THEN 0
                     ELSE LET x == CHOOSE x \in s : TRUE
                          IN  f[x] + it[s \ {x}]]
           iter == CHOOSE it : adds(it)
<1>1. Cardinality(S) \in Nat /\ \A s \in SUBSET S : Cardinality(s) <= Cardinality(S)
  BY FS_CardinalityType, FS_Subset
<1>2. PICK g : AddsUpTo(g, S, f, Cardinality(S))
  BY <1>1, AddsUpToExists
<1> DEFINE it == [s \in SUBSET S |-> g[s]]
<1>3. \A s \in SUBSET S : g[s] = IF s = {} THEN 0 ELSE f[Any(s)] + g[s \ {Any(s)}]
  BY <1>1, <1>2 DEF AddsUpTo
<1>4. adds(it)
  <2>1. ASSUME NEW s \in SUBSET S
        PROVE  g[s] = IF s = {} THEN 0
                      ELSE LET x == CHOOSE x \in s : TRUE IN f[x] + it[s \ {x}]
    <3>1. CASE s = {}
      BY <1>3, <3>1
    <3>2. CASE s # {}
      <4>1. it[s \ {Any(s)}] = g[s \ {Any(s)}]
        OBVIOUS
      <4>2. g[s] = f[Any(s)] + it[s \ {Any(s)}]
        BY <1>3, <3>2, <4>1
      <4> HIDE DEF it
      <4> QED BY <3>2, <4>2 DEF Any
    <3> QED BY <3>1, <3>2
  <2> QED BY <2>1
<1>5. adds(iter)
  <2> HIDE DEF adds, it
  <2> QED BY <1>4
<1>6. SumFunction(f) = iter[S]
  BY DEF SumFunction, SumFunctionOnSet, FoldFunctionOnSet, MapThenFoldSet
<1> HIDE DEF iter
<1>7. iter[{}] = 0
  BY <1>5
<1>8. \A s \in SUBSET S : s # {} => iter[s] = f[Any(s)] + iter[s \ {Any(s)}]
  BY <1>5 DEF Any
<1> HIDE DEF adds
<1>9. \A s \in SUBSET S : iter[s] \in Int
  <2> DEFINE T == {k \in Nat : \E s \in SUBSET S : Cardinality(s) = k /\ iter[s] \notin Int}
  <2>1. T = {}
    <3> SUFFICES ASSUME T # {} PROVE FALSE
      OBVIOUS
    <3>1. T \subseteq Nat /\ T # {}
      OBVIOUS
    <3> HIDE DEF T
    <3>2. PICK k \in T : \A u \in T : k <= u
      BY <3>1, LeastNatural
    <3>3. PICK s \in SUBSET S : Cardinality(s) = k /\ iter[s] \notin Int
      BY <3>2 DEF T
    <3>4. s # {}
      BY <1>7, <3>3
    <3>5. Any(s) \in s
      BY <3>4 DEF Any
    <3>6. /\ s \ {Any(s)} \in SUBSET S /\ Cardinality(s \ {Any(s)}) \in Nat
          /\ Cardinality(s \ {Any(s)}) = k - 1
      BY <3>3, <3>5, OneLess
    <3>7. k - 1 \notin T
      BY <3>1, <3>2, <3>6
    <3>8. iter[s \ {Any(s)}] \in Int
      BY <3>6, <3>7 DEF T
    <3>9. iter[s] = f[Any(s)] + iter[s \ {Any(s)}] /\ f[Any(s)] \in Int
      BY <1>8, <3>4, <3>5
    <3> QED BY <3>3, <3>8, <3>9
  <2> SUFFICES ASSUME NEW s \in SUBSET S, iter[s] \notin Int PROVE FALSE
    OBVIOUS
  <2>2. Cardinality(s) \in Nat
    BY FS_Subset, FS_CardinalityType
  <2> QED BY <2>1, <2>2
<1>10. SumsUp(iter, S, f)
  <2>1. AddsUp(iter, S, f)
    BY <1>7, <1>8, <1>9 DEF AddsUp
  <2> QED BY <2>1, AnyOrder
<1> QED BY <1>6, <1>10

\* What the sums are compared by: it is enough that a set keeps a property when
\* an element is added.
LEMMA SubsetInduction ==
  ASSUME NEW S, IsFiniteSet(S), NEW G, {} \in G,
         \A s \in SUBSET S : \A x \in s : s \ {x} \in G => s \in G
  PROVE  S \in G
<1> DEFINE T == {k \in Nat : \E s \in SUBSET S : s \notin G /\ Cardinality(s) = k}
<1>1. T = {}
  <2> SUFFICES ASSUME T # {} PROVE FALSE
    OBVIOUS
  <2>1. T \subseteq Nat /\ T # {}
    OBVIOUS
  <2> HIDE DEF T
  <2>2. PICK k \in T : \A u \in T : k <= u
    BY <2>1, LeastNatural
  <2>3. PICK s \in SUBSET S : s \notin G /\ Cardinality(s) = k
    BY <2>2 DEF T
  <2>4. PICK x \in s : s \ {x} \notin G
    BY <2>3
  <2>5. /\ s \ {x} \in SUBSET S /\ Cardinality(s \ {x}) \in Nat
        /\ Cardinality(s \ {x}) = k - 1
    BY <2>3, OneLess
  <2>6. k - 1 \in T
    BY <2>4, <2>5 DEF T
  <2> QED BY <2>1, <2>2, <2>6
<1>2. Cardinality(S) \in Nat
  BY FS_CardinalityType
<1> QED BY <1>1, <1>2

LEMMA SumIsNat ==
  ASSUME NEW S, IsFiniteSet(S), NEW f \in [S -> Nat]
  PROVE  SumFunction(f) \in Nat
<1>1. f \in [S -> Int]
  OBVIOUS
<1>2. PICK it : SumsUp(it, S, f) /\ SumFunction(f) = it[S]
  BY <1>1, SumFunctionIs
<1> DEFINE G == {s \in SUBSET S : it[s] >= 0}
<1>3. {} \in G
  BY <1>2 DEF SumsUp
<1>4. ASSUME NEW s \in SUBSET S, NEW x \in s, s \ {x} \in G
      PROVE  s \in G
  <2>1. it[s] = f[x] + it[s \ {x}] /\ it[s \ {x}] \in Int /\ f[x] \in Nat
    BY <1>2 DEF SumsUp
  <2> QED BY <1>4, <2>1
<1> HIDE DEF G
<1>5. S \in G
  BY <1>3, <1>4, SubsetInduction
<1> QED BY <1>2, <1>5 DEF G, SumsUp

\* No element less, no sum less.
LEMMA SumGrows ==
  ASSUME NEW S, IsFiniteSet(S), NEW f \in [S -> Int], NEW g \in [S -> Int],
         \A x \in S : f[x] <= g[x]
  PROVE  SumFunction(f) <= SumFunction(g)
<1>1. PICK it : SumsUp(it, S, f) /\ SumFunction(f) = it[S]
  BY SumFunctionIs
<1>2. PICK jt : SumsUp(jt, S, g) /\ SumFunction(g) = jt[S]
  BY SumFunctionIs
<1> DEFINE G == {s \in SUBSET S : it[s] <= jt[s]}
<1>3. {} \in G
  BY <1>1, <1>2 DEF SumsUp
<1>4. ASSUME NEW s \in SUBSET S, NEW x \in s, s \ {x} \in G
      PROVE  s \in G
  <2>1. /\ it[s] = f[x] + it[s \ {x}] /\ it[s \ {x}] \in Int
        /\ jt[s] = g[x] + jt[s \ {x}] /\ jt[s \ {x}] \in Int
    BY <1>1, <1>2 DEF SumsUp
  <2>2. f[x] \in Int /\ g[x] \in Int /\ f[x] <= g[x]
    OBVIOUS
  <2> QED BY <1>4, <2>1, <2>2
<1> HIDE DEF G
<1>5. S \in G
  BY <1>3, <1>4, SubsetInduction
<1> QED BY <1>1, <1>2, <1>5 DEF G

\* The sum over a part of the set is what the larger sum makes of that part.
LEMMA SumOverPart ==
  ASSUME NEW S, IsFiniteSet(S), NEW f \in [S -> Int], NEW it, SumsUp(it, S, f),
         NEW P, P \subseteq S, NEW h \in [P -> Int], \A x \in P : h[x] = f[x]
  PROVE  SumFunction(h) = it[P]
<1>1. IsFiniteSet(P)
  BY FS_Subset
<1>2. PICK jt : SumsUp(jt, P, h) /\ SumFunction(h) = jt[P]
  BY <1>1, SumFunctionIs
<1> DEFINE G == {s \in SUBSET P : jt[s] = it[s]}
<1>3. {} \in G
  BY <1>2 DEF SumsUp
<1>4. ASSUME NEW s \in SUBSET P, NEW x \in s, s \ {x} \in G
      PROVE  s \in G
  <2>1. it[s] = f[x] + it[s \ {x}] /\ jt[s] = h[x] + jt[s \ {x}]
    BY <1>2 DEF SumsUp
  <2> QED BY <1>4, <2>1
<1> HIDE DEF G
<1>5. P \in G
  BY <1>1, <1>3, <1>4, SubsetInduction
<1> QED BY <1>2, <1>5 DEF G

\* One element changed changes the sum by as much.
LEMMA SumChanges ==
  ASSUME NEW S, IsFiniteSet(S), NEW f \in [S -> Int], NEW g \in [S -> Int], NEW x \in S,
         \A y \in S : y # x => g[y] = f[y]
  PROVE  SumFunction(g) = SumFunction(f) + (g[x] - f[x])
<1>1. PICK it : SumsUp(it, S, f) /\ SumFunction(f) = it[S]
  BY SumFunctionIs
<1>2. PICK jt : SumsUp(jt, S, g) /\ SumFunction(g) = jt[S]
  BY SumFunctionIs
<1> DEFINE P == S \ {x}
           h == [y \in P |-> f[y]]
<1>3. P \subseteq S /\ h \in [P -> Int] /\ \A y \in P : h[y] = f[y] /\ h[y] = g[y]
  OBVIOUS
<1> HIDE DEF h
<1>4. SumFunction(h) = it[P] /\ SumFunction(h) = jt[P]
  <2> HIDE DEF P
  <2> QED BY <1>1, <1>2, <1>3, SumOverPart
<1>5. it[S] = f[x] + it[P] /\ jt[S] = g[x] + jt[P] /\ it[P] \in Int
  BY <1>1, <1>2 DEF SumsUp
<1>6. f[x] \in Int /\ g[x] \in Int
  OBVIOUS
<1> DEFINE rest == it[P]
           a == f[x]
           b == g[x]
<1>7. SumFunction(f) = a + rest /\ SumFunction(g) = b + rest
  BY <1>1, <1>2, <1>4, <1>5
<1>8. a \in Int /\ b \in Int /\ rest \in Int
  BY <1>5, <1>6
<1> HIDE DEF rest, a, b
<1>9. SumFunction(g) = SumFunction(f) + (b - a)
  BY <1>7, <1>8
<1> QED BY <1>9 DEF a, b

\* Where nothing is negative a part is at most the whole.
LEMMA PartAtMostWhole ==
  ASSUME NEW S, IsFiniteSet(S), NEW f \in [S -> Nat],
         NEW P, P \subseteq S, NEW h \in [P -> Nat], \A x \in P : h[x] = f[x]
  PROVE  SumFunction(h) <= SumFunction(f)
<1> DEFINE g == [x \in S |-> IF x \in P THEN f[x] ELSE 0]
<1>1. f \in [S -> Int] /\ g \in [S -> Int] /\ h \in [P -> Int]
      /\ \A x \in S : g[x] <= f[x] /\ (x \in P => h[x] = g[x]) /\ (x \notin P => g[x] = 0)
  OBVIOUS
<1> HIDE DEF g
<1>2. PICK it : SumsUp(it, S, g) /\ SumFunction(g) = it[S]
  BY <1>1, SumFunctionIs
<1>3. SumFunction(h) = it[P]
  BY <1>1, <1>2, SumOverPart
<1>4. it[S] = it[P]
  <2> DEFINE Q == S \ P
             G == {s \in SUBSET Q : it[P \union s] = it[P]}
  <2>1. {} \in G
    <3>1. P \union {} = P
      OBVIOUS
    <3> QED BY <3>1
  <2>2. ASSUME NEW s \in SUBSET Q, NEW x \in s, s \ {x} \in G
        PROVE  s \in G
    <3>1. (P \union s) \ {x} = P \union (s \ {x}) /\ P \union s \in SUBSET S /\ x \in P \union s
      OBVIOUS
    <3>2. it[P \union s] = g[x] + it[P \union (s \ {x})] /\ it[P \union (s \ {x})] \in Int
      BY <1>2, <3>1 DEF SumsUp
    <3>3. g[x] = 0
      BY <1>1
    <3> QED BY <2>2, <3>2, <3>3
  <2>3. IsFiniteSet(Q)
    BY FS_Subset
  <2> HIDE DEF G
  <2>4. Q \in G
    <3> HIDE DEF Q
    <3> QED BY <2>1, <2>2, <2>3, SubsetInduction
  <2>5. P \union Q = S
    OBVIOUS
  <2> QED BY <2>4, <2>5 DEF G
<1>5. SumFunction(g) <= SumFunction(f)
  BY <1>1, SumGrows
<1> QED BY <1>2, <1>3, <1>4, <1>5

-----------------------------------------------------------------------------
(* Types and scores.                                                       *)

Typed ==
  /\ cells \in [Players -> [Columns -> [Rows -> -1..100]]]
  /\ mover \in Players
  /\ golden \in [Columns -> [Rows -> 0..100]]
  /\ ssScratched \in [Players -> [Columns -> BOOLEAN]]
  /\ lsScratched \in [Players -> [Columns -> BOOLEAN]]
  /\ legalAll \in [Players -> SUBSET (Columns \X Rows)]
  /\ legalNoTurbo \in [Players -> SUBSET (Columns \X Rows)]
  /\ dice \in Rolls
  /\ rollsLeft \in 0..2

LEMMA SheetFacts ==
  /\ NumRows \in Nat /\ Row6s \in Nat
  /\ RowSS \in Rows /\ RowLS \in Rows /\ RowSS # RowLS
  /\ \A r \in Rows : Partner(r) \in Rows
  BY SheetAssumption DEF RowSS, RowLS, Rows, Partner

LEMMA BonusCounts ==
  ASSUME NEW p, NEW c, NEW r \in Rows
  PROVE  \/ BonusScore(p, c, r) = 0
         \/ BonusScore(p, c, r) \in Bonus[r] /\ Accepts(p, c, r, BonusScore(p, c, r))
<1> DEFINE ok == {s \in Bonus[r] : Accepts(p, c, r, s)}
<1>1. CASE ok = {}
  BY <1>1 DEF BonusScore
<1>2. CASE ok # {}
  <2>1. ok \subseteq -1..100
    BY ScoreAssumption
  <2>2. Max(ok) \in ok
    BY <1>2, <2>1, MaxIsGreatest
  <2>3. BonusScore(p, c, r) = Max(ok)
    BY <1>2 DEF BonusScore
  <2> QED BY <2>2, <2>3
<1> QED BY <1>1, <1>2

\* What is written is a scratch or a score that counts.
LEMMA PlacedCounts ==
  ASSUME Typed, NEW c \in Columns, NEW r \in Rows
  PROVE  /\ PlacedScore(c, r) \in 0..100
         /\ PlacedScore(c, r) = 0 \/ Accepts(mover, c, r, PlacedScore(c, r))
<1>1. CASE YamsBonusActive
  <2>1. PlacedScore(c, r) = BonusScore(mover, c, r)
    BY <1>1 DEF PlacedScore
  <2>2. Bonus[r] \subseteq 1..100
    BY ScoreAssumption
  <2> QED BY <2>1, <2>2, BonusCounts
<1>2. CASE ~YamsBonusActive
  <2>1. PlacedScore(c, r) = Score(mover, c, r, dice)
    BY <1>2 DEF PlacedScore
  <2>2. Raw[dice][r] \in 0..100
    BY ScoreAssumption DEF Typed
  <2> QED BY <2>1, <2>2 DEF Score
<1> QED BY <1>1, <1>2

-----------------------------------------------------------------------------
(* The board after a placement, cell by cell.                              *)

LEMMA CellsAfterType ==
  ASSUME Typed, NEW p \in Players, NEW c \in Columns, NEW r \in Rows, NEW s, s \in 0..100
  PROVE  CellsAfter(p, c, r, s) \in [Players -> [Columns -> [Rows -> -1..100]]]
  BY DEF Typed, CellsAfter

LEMMA CellsAfterAt ==
  ASSUME Typed, NEW p \in Players, NEW c \in Columns, NEW r \in Rows, NEW s, s \in 0..100,
         NEW o \in Players, NEW d \in Columns, NEW q \in Rows
  PROVE  CellsAfter(p, c, r, s)[o][d][q] =
           IF o = p /\ d = c
           THEN IF q = r THEN s
                ELSE IF q = Partner(r) /\ Destroys(p, c, r, s) THEN 0
                ELSE cells[p][c][q]
           ELSE cells[o][d][q]
  BY DEF Typed, CellsAfter

\* A placement fills its cell and empties none.
LEMMA FilledAfter ==
  ASSUME Typed, NEW p \in Players, NEW c \in Columns, NEW r \in Rows, NEW s, s \in 0..100,
         NEW o \in Players, NEW d \in Columns, NEW q \in Rows
  PROVE  IsFilled(CellsAfter(p, c, r, s), o, d, q) <=>
           IsFilled(cells, o, d, q) \/ (o = p /\ d = c /\ q = r)
<1>1. Destroys(p, c, r, s) => IsFilled(cells, p, c, Partner(r))
  BY DEF Destroys, IsFilled
<1>2. s # Empty /\ 0 # Empty
  BY DEF Empty
<1>3. CellsAfter(p, c, r, s)[o][d][q] =
        IF o = p /\ d = c
        THEN IF q = r THEN s
             ELSE IF q = Partner(r) /\ Destroys(p, c, r, s) THEN 0
             ELSE cells[p][c][q]
        ELSE cells[o][d][q]
  BY CellsAfterAt
<1> QED BY ONLY <1>1, <1>2, <1>3 DEF IsFilled

-----------------------------------------------------------------------------
(* What a filled cell opens.  Boards enter the next lemmas as any a and b  *)
(* of which b is a with the one cell (c, r) of player p filled.            *)

\* Down columns are filled from the top, Up columns from the bottom.
InOrder(b, p, c) ==
  \A q, w \in Rows :
    /\ c = "Down" /\ q < w /\ IsFilled(b, p, c, w) => IsFilled(b, p, c, q)
    /\ c = "Up" /\ q > w /\ IsFilled(b, p, c, w) => IsFilled(b, p, c, q)

IsOpen(b, p, c, q) == ~IsFilled(b, p, c, q) /\ IsColumnLegal(b, p, c, q)

FillsOne(a, b, p, c, r) ==
  /\ ~IsFilled(a, p, c, r)
  /\ \A q \in Rows : IsFilled(b, p, c, q) <=> IsFilled(a, p, c, q) \/ q = r

LEMMA InOrderAfter ==
  ASSUME NEW a, NEW b, NEW p, NEW c \in Columns, NEW r \in Rows,
         FillsOne(a, b, p, c, r), InOrder(a, p, c), IsColumnLegal(a, p, c, r)
  PROVE  InOrder(b, p, c)
<1>1. CASE c = "Down"
  <2>1. \A q \in Rows : q < r => IsFilled(a, p, c, q)
    BY <1>1 DEF IsColumnLegal
  <2> QED BY <1>1, <2>1, SheetFacts DEF InOrder, FillsOne, Rows
<1>2. CASE c = "Up"
  <2>1. \A q \in Rows : q > r => IsFilled(a, p, c, q)
    BY <1>2 DEF IsColumnLegal
  <2> QED BY <1>2, <2>1, SheetFacts DEF InOrder, FillsOne, Rows
<1> QED BY <1>1, <1>2 DEF InOrder

LEMMA DownOpens ==
  ASSUME NEW a, NEW b, NEW p, NEW c \in Columns, NEW r \in Rows, c = "Down",
         FillsOne(a, b, p, c, r), InOrder(a, p, c), IsColumnLegal(a, p, c, r),
         NEW q \in Rows
  PROVE  IsOpen(b, p, c, q) <=> q = r + 1 /\ ~IsFilled(b, p, c, q)
<1>1. \A w \in Rows : w < r => IsFilled(a, p, c, w)
  BY DEF IsColumnLegal
<1>2. IsColumnLegal(b, p, c, q) <=> \A w \in Rows : w < q => IsFilled(b, p, c, w)
  BY DEF IsColumnLegal
<1>3. \A w \in Rows : w > r => ~IsFilled(b, p, c, w)
  <2> SUFFICES ASSUME NEW w \in Rows, w > r, IsFilled(b, p, c, w) PROVE FALSE
    OBVIOUS
  <2>1. IsFilled(a, p, c, w)
    BY SheetFacts DEF FillsOne, Rows
  <2> QED BY <2>1 DEF InOrder, FillsOne
<1>4. CASE q > r + 1
  <2>1. r + 1 \in Rows /\ r + 1 > r /\ r + 1 < q
    BY <1>4, SheetFacts DEF Rows
  <2> QED BY <1>2, <1>3, <1>4, <2>1, SheetFacts DEF IsOpen, Rows
<1>5. CASE q = r + 1
  <2>1. \A w \in Rows : w < q => w < r \/ w = r
    BY <1>5, SheetFacts DEF Rows
  <2> QED BY <1>1, <1>2, <1>5, <2>1 DEF IsOpen, FillsOne
<1>6. CASE q < r + 1
  <2>1. q < r \/ q = r
    BY <1>6, SheetFacts DEF Rows
  <2> QED BY <1>1, <1>6, <2>1, SheetFacts DEF IsOpen, FillsOne, Rows
<1>7. q > r + 1 \/ q = r + 1 \/ q < r + 1
  BY SheetFacts DEF Rows
<1> QED BY <1>4, <1>5, <1>6, <1>7

LEMMA UpOpens ==
  ASSUME NEW a, NEW b, NEW p, NEW c \in Columns, NEW r \in Rows, c = "Up",
         FillsOne(a, b, p, c, r), InOrder(a, p, c), IsColumnLegal(a, p, c, r),
         NEW q \in Rows
  PROVE  IsOpen(b, p, c, q) <=> q = r - 1 /\ ~IsFilled(b, p, c, q)
<1>1. \A w \in Rows : w > r => IsFilled(a, p, c, w)
  BY DEF IsColumnLegal
<1>2. IsColumnLegal(b, p, c, q) <=> \A w \in Rows : w > q => IsFilled(b, p, c, w)
  BY DEF IsColumnLegal
<1>3. \A w \in Rows : w < r => ~IsFilled(b, p, c, w)
  <2> SUFFICES ASSUME NEW w \in Rows, w < r, IsFilled(b, p, c, w) PROVE FALSE
    OBVIOUS
  <2>1. IsFilled(a, p, c, w)
    BY SheetFacts DEF FillsOne, Rows
  <2>2. r > w
    BY SheetFacts DEF Rows
  <2> QED BY <2>1, <2>2 DEF InOrder, FillsOne
<1>4. CASE q < r - 1
  <2>1. r - 1 \in Rows /\ r - 1 < r /\ r - 1 > q
    BY <1>4, SheetFacts DEF Rows
  <2> QED BY <1>2, <1>3, <1>4, <2>1, SheetFacts DEF IsOpen, Rows
<1>5. CASE q = r - 1
  <2>1. \A w \in Rows : w > q => w > r \/ w = r
    BY <1>5, SheetFacts DEF Rows
  <2> QED BY <1>1, <1>2, <1>5, <2>1 DEF IsOpen, FillsOne
<1>6. CASE q > r - 1
  <2>1. q > r \/ q = r
    BY <1>6, SheetFacts DEF Rows
  <2> QED BY <1>1, <1>6, <2>1, SheetFacts DEF IsOpen, FillsOne, Rows
<1>7. q < r - 1 \/ q = r - 1 \/ q > r - 1
  BY SheetFacts DEF Rows
<1> QED BY <1>4, <1>5, <1>6, <1>7

LEMMA RunOpens ==
  ASSUME NEW a, NEW b, NEW p, NEW c \in Columns, NEW r \in Rows, c \in {"Mid", "UpDown"},
         FillsOne(a, b, p, c, r), NEW q \in Rows
  PROVE  IsOpen(b, p, c, q) <=> q \in EmptyRows(b, p, c) /\ HasFilledNeighbor(b, p, c, q)
<1>1. ~IsUntouched(b, p, c)
  BY DEF IsUntouched, FillsOne
<1> QED BY <1>1 DEF IsOpen, IsColumnLegal, EmptyRows

LEMMA FreeOpens ==
  ASSUME NEW a, NEW b, NEW p, NEW c \in Columns, NEW r \in Rows,
         c \notin {"Down", "Up", "Mid", "UpDown"},
         FillsOne(a, b, p, c, r), NEW q \in Rows
  PROVE  IsOpen(b, p, c, q) <=> IsOpen(a, p, c, q) /\ q # r
  BY DEF IsOpen, IsColumnLegal, FillsOne

-----------------------------------------------------------------------------
(* The caches of legal cells.                                              *)

LEMMA RebuiltLegalAt ==
  ASSUME NEW b, NEW p, NEW d \in Columns, NEW q \in Rows
  PROVE  <<d, q>> \in RebuiltLegal(b, p) <=> IsOpen(b, p, d, q)
  BY DEF RebuiltLegal, IsOpen

LEMMA OtherColumnsStay ==
  ASSUME NEW a, NEW b, NEW o, NEW d,
         \A q \in Rows : IsFilled(b, o, d, q) <=> IsFilled(a, o, d, q)
  PROVE  /\ InOrder(a, o, d) => InOrder(b, o, d)
         /\ \A q \in Rows : IsOpen(b, o, d, q) <=> IsOpen(a, o, d, q)
<1>1. InOrder(a, o, d) => InOrder(b, o, d)
  BY DEF InOrder
<1>2. IsUntouched(b, o, d) <=> IsUntouched(a, o, d)
  BY DEF IsUntouched
<1>3. \A q \in Rows : HasFilledNeighbor(b, o, d, q) <=> HasFilledNeighbor(a, o, d, q)
  BY SheetFacts DEF HasFilledNeighbor, Before, After, Rows
<1>4. \A q \in Rows : IsColumnLegal(b, o, d, q) <=> IsColumnLegal(a, o, d, q)
  BY <1>2, <1>3 DEF IsColumnLegal
<1> QED BY <1>1, <1>4 DEF IsOpen

\* One update of a cache that lists the column of the move as a rebuild would.
LEMMA LegalAfterAt ==
  ASSUME NEW a, NEW b, NEW p, NEW c \in Columns, NEW r \in Rows,
         FillsOne(a, b, p, c, r), InOrder(a, p, c), IsColumnLegal(a, p, c, r),
         NEW legal \in SUBSET (Columns \X Rows),
         \A w \in Rows : <<c, w>> \in legal <=> IsOpen(a, p, c, w),
         NEW d \in Columns, NEW q \in Rows
  PROVE  <<d, q>> \in LegalAfter(legal, b, p, c, r) <=>
           IF d = c THEN IsOpen(b, p, c, q) ELSE <<d, q>> \in legal
<1>1. \A w \in Rows : IsOpen(b, p, c, w) => ~IsFilled(b, p, c, w) /\ w # r
  BY DEF IsOpen, FillsOne
<1>2. CASE c = "Down"
  <2>1. <<d, q>> \in LegalAfter(legal, b, p, c, r) <=>
          \/ <<d, q>> \in legal /\ ~(d = c /\ q = r)
          \/ d = c /\ q = r + 1 /\ ~IsFilled(b, p, c, q)
    BY <1>2 DEF LegalAfter
  <2>2. IsOpen(b, p, c, q) <=> q = r + 1 /\ ~IsFilled(b, p, c, q)
    BY <1>2, DownOpens
  <2>3. IsOpen(a, p, c, q) => q = r
    <3> SUFFICES ASSUME IsOpen(a, p, c, q), q # r PROVE FALSE
      OBVIOUS
    <3>1. /\ \A w \in Rows : w < r => IsFilled(a, p, c, w)
          /\ \A w \in Rows : w < q => IsFilled(a, p, c, w)
      BY <1>2 DEF IsOpen, IsColumnLegal
    <3>2. q < r \/ r < q
      BY SheetFacts DEF Rows
    <3> QED BY <3>1, <3>2 DEF IsOpen, FillsOne
  <2> QED BY <2>1, <2>2, <2>3
<1>3. CASE c = "Up"
  <2>1. <<d, q>> \in LegalAfter(legal, b, p, c, r) <=>
          \/ <<d, q>> \in legal /\ ~(d = c /\ q = r)
          \/ d = c /\ q = r - 1 /\ ~IsFilled(b, p, c, q)
    BY <1>3 DEF LegalAfter
  <2>2. IsOpen(b, p, c, q) <=> q = r - 1 /\ ~IsFilled(b, p, c, q)
    BY <1>3, UpOpens
  <2>3. IsOpen(a, p, c, q) => q = r
    <3> SUFFICES ASSUME IsOpen(a, p, c, q), q # r PROVE FALSE
      OBVIOUS
    <3>1. /\ \A w \in Rows : w > r => IsFilled(a, p, c, w)
          /\ \A w \in Rows : w > q => IsFilled(a, p, c, w)
      BY <1>3 DEF IsOpen, IsColumnLegal
    <3>2. q > r \/ r > q
      BY SheetFacts DEF Rows
    <3> QED BY <3>1, <3>2 DEF IsOpen, FillsOne
  <2> QED BY <2>1, <2>2, <2>3
<1>4. CASE c \in {"Mid", "UpDown"}
  <2>1. <<d, q>> \in LegalAfter(legal, b, p, c, r) <=>
          \/ <<d, q>> \in legal /\ d # c
          \/ d = c /\ q \in EmptyRows(b, p, c) /\ HasFilledNeighbor(b, p, c, q)
    BY <1>4 DEF LegalAfter
  <2>2. IsOpen(b, p, c, q) <=> q \in EmptyRows(b, p, c) /\ HasFilledNeighbor(b, p, c, q)
    BY <1>4, RunOpens
  <2> QED BY <2>1, <2>2
<1>5. CASE c \notin {"Down", "Up", "Mid", "UpDown"}
  <2>1. <<d, q>> \in LegalAfter(legal, b, p, c, r) <=>
          <<d, q>> \in legal /\ ~(d = c /\ q = r)
    BY <1>5 DEF LegalAfter
  <2>2. IsOpen(b, p, c, q) <=> IsOpen(a, p, c, q) /\ q # r
    BY <1>5, FreeOpens
  <2> QED BY <2>1, <2>2
<1> QED BY <1>2, <1>3, <1>4, <1>5

Opening == /\ \A p \in Players, c \in Columns : InOrder(cells, p, c)
           /\ LegalIsRebuilt

\* What a placement does to the board.
LEMMA PlaceFills ==
  ASSUME Typed, Opening, NEW c \in Columns, NEW r \in Rows, Place(c, r)
  PROVE  /\ IsOpen(cells, mover, c, r)
         /\ FillsOne(cells, cells', mover, c, r)
         /\ \A o \in Players, d \in Columns, q \in Rows :
              IsFilled(cells', o, d, q) <=>
                IsFilled(cells, o, d, q) \/ (o = mover /\ d = c /\ q = r)
<1>1. mover \in Players
  BY DEF Typed
<1>2. <<c, r>> \in RebuiltLegal(cells, mover)
  BY <1>1 DEF Place, LegalPlacements, Opening, LegalIsRebuilt, NoTurbo
<1>3. IsOpen(cells, mover, c, r)
  BY <1>2, RebuiltLegalAt
<1>4. PlacedScore(c, r) \in 0..100
  BY PlacedCounts
<1>5. cells' = CellsAfter(mover, c, r, PlacedScore(c, r))
  BY DEF Place, ApplyPlacement
<1>6. \A o \in Players, d \in Columns, q \in Rows :
        IsFilled(cells', o, d, q) <=>
          IsFilled(cells, o, d, q) \/ (o = mover /\ d = c /\ q = r)
  BY <1>1, <1>4, <1>5, FilledAfter
<1> QED BY <1>1, <1>3, <1>6 DEF FillsOne, IsOpen

LEMMA OpeningStays ==
  ASSUME Typed, Opening, NEW c \in Columns, NEW r \in Rows, Place(c, r)
  PROVE  Opening'
<1>1. mover \in Players
  BY DEF Typed
<1>2. /\ IsOpen(cells, mover, c, r)
      /\ FillsOne(cells, cells', mover, c, r)
  BY PlaceFills
<1>3. \A o \in Players, d \in Columns : (o # mover \/ d # c) =>
        \A q \in Rows : IsFilled(cells', o, d, q) <=> IsFilled(cells, o, d, q)
  BY PlaceFills
<1>4. \A o \in Players, d \in Columns : InOrder(cells', o, d)
  <2> SUFFICES ASSUME NEW o \in Players, NEW d \in Columns PROVE InOrder(cells', o, d)
    OBVIOUS
  <2>1. CASE o = mover /\ d = c
    BY <1>2, <2>1, InOrderAfter DEF IsOpen, Opening
  <2>2. CASE o # mover \/ d # c
    BY <1>3, <2>2, OtherColumnsStay DEF Opening
  <2> QED BY <2>1, <2>2
<1>5. \A o \in Players, d \in Columns, q \in Rows : (o # mover \/ d # c) =>
        (IsOpen(cells', o, d, q) <=> IsOpen(cells, o, d, q))
  BY <1>3, OtherColumnsStay
<1>6. \A x \in Columns \X Rows : x = <<x[1], x[2]>> /\ x[1] \in Columns /\ x[2] \in Rows
  OBVIOUS
<1>7. ASSUME NEW o \in Players, o # mover
      PROVE  RebuiltLegal(cells', o) = RebuiltLegal(cells, o)
  <2>1. \A d \in Columns, q \in Rows :
          <<d, q>> \in RebuiltLegal(cells', o) <=> <<d, q>> \in RebuiltLegal(cells, o)
    BY <1>5, <1>7, RebuiltLegalAt
  <2>2. RebuiltLegal(cells', o) \subseteq Columns \X Rows
    BY DEF RebuiltLegal
  <2>3. RebuiltLegal(cells, o) \subseteq Columns \X Rows
    BY DEF RebuiltLegal
  <2> QED BY <1>6, <2>1, <2>2, <2>3
<1>8. ASSUME NEW legal \in SUBSET (Columns \X Rows),
             \A w \in Rows : <<c, w>> \in legal <=> IsOpen(cells, mover, c, w),
             NEW d \in Columns, NEW q \in Rows
      PROVE  <<d, q>> \in LegalAfter(legal, cells', mover, c, r) <=>
               IF d = c THEN IsOpen(cells', mover, c, q) ELSE <<d, q>> \in legal
  BY <1>1, <1>2, <1>8, LegalAfterAt DEF IsOpen, Opening
<1>9. ASSUME NEW legal \in SUBSET (Columns \X Rows)
      PROVE  LegalAfter(legal, cells', mover, c, r) \subseteq Columns \X Rows
  BY SheetFacts DEF LegalAfter, EmptyRows
<1>10. LegalAfter(RebuiltLegal(cells, mover), cells', mover, c, r)
         = RebuiltLegal(cells', mover)
  <2>1. RebuiltLegal(cells, mover) \subseteq Columns \X Rows
    BY DEF RebuiltLegal
  <2>2. RebuiltLegal(cells', mover) \subseteq Columns \X Rows
    BY DEF RebuiltLegal
  <2>3. \A d \in Columns, q \in Rows :
          <<d, q>> \in LegalAfter(RebuiltLegal(cells, mover), cells', mover, c, r) <=>
            <<d, q>> \in RebuiltLegal(cells', mover)
    BY <1>1, <1>5, <1>8, <2>1, RebuiltLegalAt
  <2> QED BY <1>6, <1>9, <2>1, <2>2, <2>3
<1>11. ASSUME c # "Turbo"
       PROVE  LegalAfter(NoTurbo(RebuiltLegal(cells, mover)), cells', mover, c, r)
                = NoTurbo(RebuiltLegal(cells', mover))
  <2> DEFINE N(b) == NoTurbo(RebuiltLegal(b, mover))
  <2>1. N(cells) \subseteq Columns \X Rows
    BY DEF RebuiltLegal, NoTurbo
  <2>2. N(cells') \subseteq Columns \X Rows
    BY DEF RebuiltLegal, NoTurbo
  <2>3. \A d \in Columns, q \in Rows :
          <<d, q>> \in N(cells) <=> d # "Turbo" /\ IsOpen(cells, mover, d, q)
    BY RebuiltLegalAt DEF NoTurbo
  <2>4. \A d \in Columns, q \in Rows :
          <<d, q>> \in N(cells') <=> d # "Turbo" /\ IsOpen(cells', mover, d, q)
    BY RebuiltLegalAt DEF NoTurbo
  <2>5. LegalAfter(N(cells), cells', mover, c, r) \subseteq Columns \X Rows
    BY <1>9, <2>1
  <2> HIDE DEF N
  <2>6. \A d \in Columns, q \in Rows :
          <<d, q>> \in LegalAfter(N(cells), cells', mover, c, r) <=> <<d, q>> \in N(cells')
    BY <1>1, <1>5, <1>8, <1>11, <2>1, <2>3, <2>4
  <2>7. LegalAfter(N(cells), cells', mover, c, r) = N(cells')
    BY <1>6, <2>2, <2>5, <2>6
  <2> QED BY <2>7 DEF N
<1>12. ASSUME c = "Turbo"
       PROVE  NoTurbo(RebuiltLegal(cells', mover)) = NoTurbo(RebuiltLegal(cells, mover))
  <2>1. \A d \in Columns, q \in Rows : d # "Turbo" =>
          (<<d, q>> \in RebuiltLegal(cells', mover) <=> <<d, q>> \in RebuiltLegal(cells, mover))
    BY <1>1, <1>5, <1>12, RebuiltLegalAt
  <2>2. RebuiltLegal(cells', mover) \subseteq Columns \X Rows
    BY DEF RebuiltLegal
  <2>3. RebuiltLegal(cells, mover) \subseteq Columns \X Rows
    BY DEF RebuiltLegal
  <2> QED BY <1>6, <2>1, <2>2, <2>3 DEF NoTurbo
<1>13. ASSUME NEW o \in Players
       PROVE  /\ legalAll'[o] = RebuiltLegal(cells', o)
              /\ legalNoTurbo'[o] = NoTurbo(RebuiltLegal(cells', o))
  <2>1. /\ legalAll[o] = RebuiltLegal(cells, o)
        /\ legalNoTurbo[o] = NoTurbo(RebuiltLegal(cells, o))
    BY DEF Opening, LegalIsRebuilt
  <2>2. /\ cells' = CellsAfter(mover, c, r, PlacedScore(c, r))
        /\ legalAll' = [legalAll EXCEPT ![mover] =
             LegalAfter(@, CellsAfter(mover, c, r, PlacedScore(c, r)), mover, c, r)]
        /\ legalNoTurbo' = [legalNoTurbo EXCEPT ![mover] =
             IF c = "Turbo" THEN @
             ELSE LegalAfter(@, CellsAfter(mover, c, r, PlacedScore(c, r)), mover, c, r)]
    BY DEF Place, ApplyPlacement
  <2>3. o \in DOMAIN legalAll /\ o \in DOMAIN legalNoTurbo
    BY DEF Typed
  <2>4. CASE o # mover
    BY <1>7, <2>1, <2>2, <2>3, <2>4
  <2>5. CASE o = mover
    <3>1. legalAll'[o] = LegalAfter(legalAll[o], cells', mover, c, r)
      BY <2>2, <2>3, <2>5
    <3>2. legalNoTurbo'[o] = IF c = "Turbo" THEN legalNoTurbo[o]
                             ELSE LegalAfter(legalNoTurbo[o], cells', mover, c, r)
      BY <2>2, <2>3, <2>5
    <3> QED BY <1>10, <1>11, <1>12, <2>1, <2>5, <3>1, <3>2
  <2> QED BY <2>4, <2>5
<1> QED BY <1>4, <1>13 DEF Opening, LegalIsRebuilt

-----------------------------------------------------------------------------
(* The maxima of the board.                                                *)

Maxima == GoldenIsRebuilt

Boards == [Players -> [Columns -> [Rows -> -1..100]]]

LEMMA RebuiltGoldenAt ==
  ASSUME NEW b \in Boards,
         NEW d \in Columns, NEW q \in Rows
  PROVE  /\ RebuiltGolden(b)[d][q] \in 0..100
         /\ RebuiltGolden(b)[d][q] \in {0} \union {b[o][d][q] : o \in Players}
         /\ \A o \in Players : b[o][d][q] <= RebuiltGolden(b)[d][q]
<1> DEFINE S == {0} \union {b[o][d][q] : o \in Players}
<1>1. RebuiltGolden(b)[d][q] = Max(S)
  BY DEF RebuiltGolden
<1>2. S \subseteq -1..100 /\ 0 \in S
  BY DEF Boards
<1>3. Max(S) \in S /\ \A x \in S : x <= Max(S)
  BY <1>2, MaxIsGreatest
<1>4. \A o \in Players : b[o][d][q] \in S
  OBVIOUS
<1> HIDE DEF S
<1>5. Max(S) \in 0..100
  <2>1. Max(S) \in -1..100 /\ 0 <= Max(S)
    BY <1>2, <1>3
  <2> QED BY <2>1
<1> QED BY <1>1, <1>3, <1>4, <1>5 DEF S

LEMMA RebuiltGoldenIs ==
  ASSUME NEW b \in Boards,
         NEW d \in Columns, NEW q \in Rows,
         NEW m \in Int, m = 0 \/ (\E o \in Players : m = b[o][d][q]),
         m >= 0, \A o \in Players : b[o][d][q] <= m
  PROVE  RebuiltGolden(b)[d][q] = m
<1>1. m \in Int
  OBVIOUS
<1>2. RebuiltGolden(b)[d][q] \in Int
  BY RebuiltGoldenAt
<1>3. RebuiltGolden(b)[d][q] <= m
  BY RebuiltGoldenAt
<1>4. m <= RebuiltGolden(b)[d][q]
  BY RebuiltGoldenAt
<1> QED BY ONLY <1>1, <1>2, <1>3, <1>4

LEMMA GoldenOfTwo ==
  ASSUME NEW x \in 0..100, NEW y \in 0..100
  PROVE  Max({x, y}) = IF x < y THEN y ELSE x
<1>1. {x, y} \subseteq -1..100
  OBVIOUS
<1>2. CASE x < y
  BY <1>1, <1>2, MaxIsUnique
<1>3. CASE ~(x < y)
  BY <1>1, <1>3, MaxIsUnique
<1> QED BY <1>2, <1>3

LEMMA MaximaStay ==
  ASSUME Typed, Opening, Maxima, NEW c \in Columns, NEW r \in Rows, Place(c, r)
  PROVE  Maxima' /\ golden' \in [Columns -> [Rows -> 0..100]]
<1> DEFINE s == PlacedScore(c, r)
           b == CellsAfter(mover, c, r, s)
<1>1. mover \in Players /\ s \in 0..100
  BY PlacedCounts DEF Typed
<1>2. b \in Boards
  BY <1>1, CellsAfterType DEF Boards
<1>3. \A o \in Players, d \in Columns, q \in Rows :
        b[o][d][q] = IF o = mover /\ d = c
                     THEN IF q = r THEN s
                          ELSE IF q = Partner(r) /\ Destroys(mover, c, r, s) THEN 0
                          ELSE cells[mover][c][q]
                     ELSE cells[o][d][q]
  BY <1>1, CellsAfterAt
<1>4. cells' = b /\ golden' = GoldenAfter(mover, c, r, s)
  BY DEF Place, ApplyPlacement
<1>5. cells[mover][c][r] = -1
  BY PlaceFills DEF IsOpen, IsFilled, Empty
<1>6. cells \in [Players -> [Columns -> [Rows -> -1..100]]]
      /\ golden \in [Columns -> [Rows -> 0..100]]
      /\ cells \in Boards
  BY DEF Typed, Boards
<1> HIDE DEF s, b
<1>7. ASSUME NEW d \in Columns, NEW q \in Rows,
             \A o \in Players : b[o][d][q] = cells[o][d][q]
      PROVE  RebuiltGolden(b)[d][q] = RebuiltGolden(cells)[d][q]
  BY <1>7 DEF RebuiltGolden
<1>8. ASSUME NEW d \in Columns, NEW q \in Rows
      PROVE  golden'[d][q] = RebuiltGolden(b)[d][q]
  <2>1. golden[d][q] = RebuiltGolden(cells)[d][q]
    BY DEF Maxima, GoldenIsRebuilt
  <2>2. golden'[d][q] = IF d = c
                        THEN IF q = r THEN Max({s, golden[c][q]})
                             ELSE IF q = Partner(r) /\ Destroys(mover, c, r, s)
                                  THEN RebuiltGolden(CellsAfter(mover, c, r, s))[c][q]
                             ELSE golden[c][q]
                        ELSE golden[d][q]
    BY <1>4, <1>6 DEF GoldenAfter
  <2>3. CASE d # c
    <3>1. \A o \in Players : b[o][d][q] = cells[o][d][q]
      BY <1>3, <2>3
    <3> QED BY <1>7, <2>1, <2>2, <2>3, <3>1
  <2>4. CASE d = c /\ q = r
    <3> DEFINE g == golden[c][r]
               m == IF s < g THEN g ELSE s
    <3>1. g \in 0..100 /\ golden'[d][q] = m
      BY <1>1, <1>6, <2>2, <2>4, GoldenOfTwo
    <3>2. \A o \in Players : b[o][d][q] = IF o = mover THEN s ELSE cells[o][d][q]
      BY <1>3, <2>4
    <3>3. /\ g = 0 \/ \E o \in Players : g = cells[o][d][q]
          /\ \A o \in Players : cells[o][d][q] <= g
      BY <1>6, <2>1, <2>4, RebuiltGoldenAt
    <3> HIDE DEF g
    <3>4. m = 0 \/ \E o \in Players : m = b[o][d][q]
      <4>1. CASE s < g
        <5>1. g # cells[mover][d][q]
          BY <1>1, <1>5, <2>4, <4>1, <3>1
        <5> QED BY <3>2, <3>3, <4>1, <5>1, <1>1
      <4>2. CASE ~(s < g)
        BY <1>1, <3>2, <4>2
      <4> QED BY <4>1, <4>2
    <3>5. \A o \in Players : cells[o][d][q] \in -1..100
      BY <1>6
    <3>6. m \in 0..100 /\ m >= 0 /\ m >= s /\ m >= g
      BY <1>1, <3>1
    <3> HIDE DEF m
    <3>7. ASSUME NEW o \in Players PROVE b[o][d][q] <= m
      <4>1. CASE o = mover
        BY <1>1, <3>2, <3>6, <4>1
      <4>2. CASE o # mover
        <5>1. cells[o][d][q] \in Int /\ cells[o][d][q] <= g /\ g \in Int /\ m \in Int
          BY <3>1, <3>3, <3>5, <3>6
        <5>2. b[o][d][q] = cells[o][d][q]
          BY <3>2, <4>2
        <5> QED BY ONLY <5>1, <5>2, <3>6
      <4> QED BY <4>1, <4>2
    <3>8. RebuiltGolden(b)[d][q] = m
      BY <1>2, <3>4, <3>6, <3>7, RebuiltGoldenIs
    <3> QED BY <3>1, <3>8
  <2>5. CASE d = c /\ q # r /\ q = Partner(r) /\ Destroys(mover, c, r, s)
    BY <2>2, <2>5 DEF b
  <2>6. CASE d = c /\ q # r /\ ~(q = Partner(r) /\ Destroys(mover, c, r, s))
    <3>1. \A o \in Players : b[o][d][q] = cells[o][d][q]
      BY <1>3, <2>6
    <3> QED BY <1>7, <2>1, <2>2, <2>6, <3>1
  <2> QED BY <2>3, <2>4, <2>5, <2>6
<1>9. \A d \in Columns, q \in Rows : RebuiltGolden(b)[d][q] \in 0..100
  BY <1>2, RebuiltGoldenAt
<1>10. /\ golden' = [d \in Columns |-> [q \in Rows |-> golden'[d][q]]]
       /\ RebuiltGolden(b) = [d \in Columns |-> [q \in Rows |-> RebuiltGolden(b)[d][q]]]
  <2>1. golden' = [d \in Columns |-> golden'[d]]
        /\ \A d \in Columns : golden'[d] = [q \in Rows |-> golden'[d][q]]
    BY <1>4, <1>6 DEF GoldenAfter
  <2>2. RebuiltGolden(b) = [d \in Columns |-> RebuiltGolden(b)[d]]
        /\ \A d \in Columns : RebuiltGolden(b)[d] = [q \in Rows |-> RebuiltGolden(b)[d][q]]
    BY DEF RebuiltGolden
  <2> QED BY <2>1, <2>2
<1>11. golden' = RebuiltGolden(b)
  BY <1>8, <1>10
<1>12. golden' \in [Columns -> [Rows -> 0..100]]
  BY <1>8, <1>9, <1>10
<1> QED BY <1>4, <1>11, <1>12 DEF Maxima, GoldenIsRebuilt

-----------------------------------------------------------------------------
(* The two sums.                                                           *)

Sums ==
  /\ \A p \in Players, c \in Columns :
       /\ ssScratched[p][c] <=> cells[p][c][RowSS] = 0
       /\ lsScratched[p][c] <=> cells[p][c][RowLS] = 0
  /\ SumsInterlock

\* The fields that the next lemmas speak of, after a placement of s.
LEMMA PlaceWrites ==
  ASSUME Typed, Opening, NEW c \in Columns, NEW r \in Rows, Place(c, r)
  PROVE  /\ cells' \in [Players -> [Columns -> [Rows -> -1..100]]]
         /\ \A o \in Players, d \in Columns, q \in Rows :
              cells'[o][d][q] =
                IF o = mover /\ d = c
                THEN IF q = r THEN PlacedScore(c, r)
                     ELSE IF /\ q = Partner(r)
                             /\ Destroys(mover, c, r, PlacedScore(c, r)) THEN 0
                     ELSE cells[mover][c][q]
                ELSE cells[o][d][q]
         /\ cells[mover][c][r] = -1
         /\ ssScratched' \in [Players -> [Columns -> BOOLEAN]]
         /\ lsScratched' \in [Players -> [Columns -> BOOLEAN]]
         /\ \A o \in Players, d \in Columns :
              /\ ssScratched'[o][d] <=>
                   \/ ssScratched[o][d]
                   \/ /\ o = mover /\ d = c
                      /\ Scratches(RowSS, mover, c, r, PlacedScore(c, r))
              /\ lsScratched'[o][d] <=>
                   \/ lsScratched[o][d]
                   \/ /\ o = mover /\ d = c
                      /\ Scratches(RowLS, mover, c, r, PlacedScore(c, r))
<1> DEFINE s == PlacedScore(c, r)
<1>1. mover \in Players /\ s \in 0..100
  BY PlacedCounts DEF Typed
<1>2. CellsAfter(mover, c, r, s) \in [Players -> [Columns -> [Rows -> -1..100]]]
  BY <1>1, CellsAfterType
<1>3. \A o \in Players, d \in Columns, q \in Rows :
        CellsAfter(mover, c, r, s)[o][d][q] =
          IF o = mover /\ d = c
          THEN IF q = r THEN s
               ELSE IF q = Partner(r) /\ Destroys(mover, c, r, s) THEN 0
               ELSE cells[mover][c][q]
          ELSE cells[o][d][q]
  BY <1>1, CellsAfterAt
<1>4. cells[mover][c][r] = -1
  BY PlaceFills DEF IsOpen, IsFilled, Empty
<1>5. /\ cells' = CellsAfter(mover, c, r, s)
      /\ ssScratched' = [ssScratched EXCEPT ![mover][c] = @ \/ Scratches(RowSS, mover, c, r, s)]
      /\ lsScratched' = [lsScratched EXCEPT ![mover][c] = @ \/ Scratches(RowLS, mover, c, r, s)]
  BY DEF Place, ApplyPlacement
<1> HIDE DEF s
<1>6. ASSUME NEW f \in [Players -> [Columns -> BOOLEAN]], NEW v \in BOOLEAN,
             NEW g, g = [f EXCEPT ![mover][c] = @ \/ v]
      PROVE  /\ g \in [Players -> [Columns -> BOOLEAN]]
             /\ \A o \in Players, d \in Columns :
                  g[o][d] <=> f[o][d] \/ (o = mover /\ d = c /\ v)
  BY <1>1, <1>6
<1>7. /\ Scratches(RowSS, mover, c, r, s) \in BOOLEAN
      /\ Scratches(RowLS, mover, c, r, s) \in BOOLEAN
  BY DEF Scratches
<1>8. /\ ssScratched' \in [Players -> [Columns -> BOOLEAN]]
      /\ \A o \in Players, d \in Columns :
           ssScratched'[o][d] <=>
             ssScratched[o][d] \/ (o = mover /\ d = c /\ Scratches(RowSS, mover, c, r, s))
  BY <1>5, <1>6, <1>7 DEF Typed
<1>9. /\ lsScratched' \in [Players -> [Columns -> BOOLEAN]]
      /\ \A o \in Players, d \in Columns :
           lsScratched'[o][d] <=>
             lsScratched[o][d] \/ (o = mover /\ d = c /\ Scratches(RowLS, mover, c, r, s))
  BY <1>5, <1>6, <1>7 DEF Typed
<1> QED BY <1>2, <1>3, <1>4, <1>5, <1>8, <1>9 DEF s

LEMMA SumsStay ==
  ASSUME Typed, Opening, Maxima, Sums, NEW c \in Columns, NEW r \in Rows, Place(c, r)
  PROVE  Sums'
<1> DEFINE s == PlacedScore(c, r)
<1>1. mover \in Players /\ s \in 0..100 /\ (s = 0 \/ Accepts(mover, c, r, s))
  BY PlacedCounts DEF Typed
<1>2. \A d \in Columns :
        /\ golden[d][RowSS] \in 0..100
        /\ \A o \in Players : cells[o][d][RowSS] \in -1..100 /\ cells[o][d][RowLS] \in -1..100
        /\ \A o \in Players : cells[o][d][RowSS] <= golden[d][RowSS]
  <2>1. cells \in Boards
    BY DEF Typed, Boards
  <2> QED BY <2>1, SheetFacts, RebuiltGoldenAt DEF Typed, Maxima, GoldenIsRebuilt
<1> SUFFICES ASSUME NEW o \in Players, NEW d \in Columns
             PROVE  /\ ssScratched'[o][d] <=> cells'[o][d][RowSS] = 0
                    /\ lsScratched'[o][d] <=> cells'[o][d][RowLS] = 0
                    /\ cells'[o][d][RowSS] # Empty /\ cells'[o][d][RowLS] # Empty =>
                         \/ cells'[o][d][RowSS] = 0 /\ cells'[o][d][RowLS] = 0
                         \/ 0 < cells'[o][d][RowSS] /\ cells'[o][d][RowSS] < cells'[o][d][RowLS]
  BY DEF Sums, SumsInterlock
<1> DEFINE ss == cells[o][d][RowSS]
           ls == cells[o][d][RowLS]
           newSS == cells'[o][d][RowSS]
           newLS == cells'[o][d][RowLS]
<1>3. /\ ssScratched[o][d] <=> ss = 0
      /\ lsScratched[o][d] <=> ls = 0
      /\ ss # -1 /\ ls # -1 => (ss = 0 /\ ls = 0) \/ (0 < ss /\ ss < ls)
  BY DEF Sums, SumsInterlock, Empty
<1>4. ss \in -1..100 /\ ls \in -1..100 /\ ss <= golden[d][RowSS]
  BY <1>2
<1>5. CASE o # mover \/ d # c
  <2>1. /\ newSS = ss /\ newLS = ls
        /\ ssScratched'[o][d] <=> ssScratched[o][d]
        /\ lsScratched'[o][d] <=> lsScratched[o][d]
    BY <1>5, PlaceWrites, SheetFacts
  <2> QED BY <1>3, <2>1 DEF Empty
<1>6. CASE o = mover /\ d = c /\ r = RowSS
  <2> DEFINE hit == s = 0 /\ ls \notin {-1, 0}
  <2>1. /\ newSS = s /\ newLS = (IF hit THEN 0 ELSE ls) /\ ss = -1
        /\ ssScratched'[o][d] <=> ssScratched[o][d] \/ s = 0
        /\ lsScratched'[o][d] <=> lsScratched[o][d] \/ hit
    BY <1>6, PlaceWrites, SheetFacts DEF Partner, Destroys, Scratches, Empty
  <2>2. s = 0 \/ (ls # 0 /\ (ls # -1 => s < ls))
    BY <1>1, <1>3, <1>6 DEF Accepts, Empty
  <2> HIDE DEF s, ss, ls, newSS, newLS
  <2>3. ssScratched'[o][d] <=> newSS = 0
    BY <1>3, <2>1
  <2>4. lsScratched'[o][d] <=> newLS = 0
    BY <1>3, <2>1
  <2>5. newSS # -1 /\ newLS # -1 => (newSS = 0 /\ newLS = 0) \/ (0 < newSS /\ newSS < newLS)
    BY <1>1, <1>4, <2>1, <2>2
  <2> QED BY <2>3, <2>4, <2>5 DEF newSS, newLS, Empty
<1>7. CASE o = mover /\ d = c /\ r = RowLS
  <2> DEFINE hit == s = 0 /\ ss \notin {-1, 0}
  <2>1. /\ newLS = s /\ newSS = (IF hit THEN 0 ELSE ss) /\ ls = -1
        /\ lsScratched'[o][d] <=> lsScratched[o][d] \/ s = 0
        /\ ssScratched'[o][d] <=> ssScratched[o][d] \/ hit
    BY <1>7, PlaceWrites, SheetFacts DEF Partner, Destroys, Scratches, Empty
  <2>2. s = 0 \/ (ss # 0 /\ (golden[d][RowSS] > 0 => s > golden[d][RowSS]))
    BY <1>1, <1>3, <1>7 DEF Accepts
  <2>3. golden[d][RowSS] \in 0..100
    BY <1>2
  <2> HIDE DEF s, ss, ls, newSS, newLS
  <2>4. ssScratched'[o][d] <=> newSS = 0
    BY <1>3, <2>1
  <2>5. lsScratched'[o][d] <=> newLS = 0
    BY <1>3, <2>1
  <2>6. newSS # -1 /\ newLS # -1 => (newSS = 0 /\ newLS = 0) \/ (0 < newSS /\ newSS < newLS)
    BY <1>1, <1>4, <2>1, <2>2, <2>3
  <2> QED BY <2>4, <2>5, <2>6 DEF newSS, newLS, Empty
<1>8. CASE o = mover /\ d = c /\ r \notin {RowSS, RowLS}
  <2>1. /\ newSS = ss /\ newLS = ls
        /\ ssScratched'[o][d] <=> ssScratched[o][d]
        /\ lsScratched'[o][d] <=> lsScratched[o][d]
    BY <1>8, PlaceWrites, SheetFacts DEF Destroys, Scratches
  <2> QED BY <1>3, <2>1 DEF Empty
<1> QED BY <1>5, <1>6, <1>7, <1>8

-----------------------------------------------------------------------------
(* The invariant, and what follows from it.                                *)

IInv == Typed /\ Opening /\ Maxima /\ Sums

LEMMA InitIInv == Init => IInv
<1> SUFFICES ASSUME Init PROVE IInv
  OBVIOUS
<1>1. \A p \in Players, c \in Columns, r \in Rows : cells[p][c][r] = -1
  BY DEF Init, Empty
<1>2. cells \in [Players -> [Columns -> [Rows -> -1..100]]] /\ cells \in Boards
  BY DEF Init, Empty, Boards
<1>3. golden \in [Columns -> [Rows -> 0..100]]
  BY DEF Init
<1>4. \A p \in Players : RebuiltLegal(cells, p) \subseteq Columns \X Rows
  BY DEF RebuiltLegal
<1>5. \A p \in Players : NoTurbo(RebuiltLegal(cells, p)) \subseteq Columns \X Rows
  BY <1>4 DEF NoTurbo
<1>6. Typed
  <2>1. /\ legalAll \in [Players -> SUBSET (Columns \X Rows)]
        /\ legalNoTurbo \in [Players -> SUBSET (Columns \X Rows)]
    BY <1>4, <1>5 DEF Init
  <2>2. /\ ssScratched \in [Players -> [Columns -> BOOLEAN]]
        /\ lsScratched \in [Players -> [Columns -> BOOLEAN]]
    BY DEF Init
  <2>3. mover \in Players /\ dice \in Rolls /\ rollsLeft \in 0..2
    BY DEF Init
  <2> QED BY <1>2, <1>3, <2>1, <2>2, <2>3 DEF Typed
<1>7. Opening
  BY <1>1 DEF Init, Opening, InOrder, IsFilled, Empty, LegalIsRebuilt
<1>8. Maxima
  <2>1. \A c \in Columns, r \in Rows : RebuiltGolden(cells)[c][r] = 0
    BY <1>1, <1>2, RebuiltGoldenIs
  <2>2. RebuiltGolden(cells) =
          [c \in Columns |-> [r \in Rows |-> RebuiltGolden(cells)[c][r]]]
    BY DEF RebuiltGolden
  <2> QED BY <2>1, <2>2 DEF Init, Maxima, GoldenIsRebuilt
<1>9. Sums
  BY <1>1, SheetFacts DEF Init, Sums, SumsInterlock, Empty
<1> QED BY <1>6, <1>7, <1>8, <1>9 DEF IInv

LEMMA PlaceIInv ==
  ASSUME IInv, NEW c \in Columns, NEW r \in Rows, Place(c, r)
  PROVE  IInv'
<1>1. Typed /\ Opening /\ Maxima /\ Sums
  BY DEF IInv
<1>2. Opening' /\ Maxima' /\ Sums' /\ golden' \in [Columns -> [Rows -> 0..100]]
  BY <1>1, OpeningStays, MaximaStay, SumsStay
<1>3. /\ cells' \in [Players -> [Columns -> [Rows -> -1..100]]]
      /\ ssScratched' \in [Players -> [Columns -> BOOLEAN]]
      /\ lsScratched' \in [Players -> [Columns -> BOOLEAN]]
  BY <1>1, PlaceWrites
<1>4. mover' \in Players /\ dice' \in Rolls /\ rollsLeft' \in 0..2
  <2>1. mover \in Players /\ dice \in Rolls /\ rollsLeft \in 0..2
    BY <1>1 DEF Typed
  <2>2. (mover + 1) % NumPlayers \in Players
    BY <2>1, SheetAssumption DEF Players
  <2> QED BY <2>1, <2>2 DEF Place
<1>5. /\ legalAll' \in [Players -> SUBSET (Columns \X Rows)]
      /\ legalNoTurbo' \in [Players -> SUBSET (Columns \X Rows)]
  <2>1. /\ legalAll' = [p \in Players |-> legalAll'[p]]
        /\ legalNoTurbo' = [p \in Players |-> legalNoTurbo'[p]]
    BY <1>1 DEF Typed, Place, ApplyPlacement
  <2>2. \A p \in Players : RebuiltLegal(cells', p) \subseteq Columns \X Rows
    BY DEF RebuiltLegal
  <2>3. \A p \in Players : NoTurbo(RebuiltLegal(cells', p)) \subseteq Columns \X Rows
    BY <2>2 DEF NoTurbo
  <2> QED BY <1>2, <2>1, <2>2, <2>3 DEF Opening, LegalIsRebuilt
<1>6. Typed'
  BY <1>2, <1>3, <1>4, <1>5 DEF Typed
<1> QED BY <1>2, <1>6 DEF IInv

LEMMA NextIInv == IInv /\ [Next]_vars => IInv'
<1> SUFFICES ASSUME IInv, [Next]_vars PROVE IInv'
  OBVIOUS
<1>1. CASE Reroll
  <2>1. Typed'
    BY <1>1 DEF IInv, Typed, Reroll, CanReroll, boardVars, ctxVars
  <2>2. Opening' /\ Maxima' /\ Sums'
    BY <1>1 DEF IInv, Opening, LegalIsRebuilt, Maxima, GoldenIsRebuilt, Sums,
                SumsInterlock, Reroll, boardVars, ctxVars
  <2> QED BY <2>1, <2>2 DEF IInv
<1>2. CASE \E c \in Columns, r \in Rows : Place(c, r)
  BY <1>2, PlaceIInv
<1>3. CASE UNCHANGED vars
  BY <1>3 DEF IInv, Typed, Opening, LegalIsRebuilt, Maxima, GoldenIsRebuilt, Sums,
              SumsInterlock, vars, boardVars, ctxVars
<1> QED BY <1>1, <1>2, <1>3 DEF Next

LEMMA IInvHolds == Spec => []IInv
  BY InitIInv, NextIInv, PTL DEF Spec

\* The legal cells kept by the placements, with and without Turbo, are those a
\* rebuild from the board finds (update_legal_placements_after_move against
\* rebuild_legal_placements), on any sheet and for any number of players.
THEOREM LegalCellsAreRebuilt == Spec => []LegalIsRebuilt
<1>1. IInv => LegalIsRebuilt
  BY DEF IInv, Opening
<1> QED BY <1>1, IInvHolds, PTL

\* golden_max is at all times the maximum of the board, mutual destructions
\* included (apply_placement against rebuild_context_from_board).
THEOREM GoldenMaxIsRebuilt == Spec => []GoldenIsRebuilt
<1>1. IInv => GoldenIsRebuilt
  BY DEF IInv, Maxima
<1> QED BY <1>1, IInvHolds, PTL

\* In every column with both sums filled, both are scratched or the small sum
\* is the smaller one (validate_score with apply_placement's destruction).
THEOREM SumsStayInterlocked == Spec => []SumsInterlock
<1>1. IInv => SumsInterlock
  BY DEF IInv, Sums
<1> QED BY <1>1, IInvHolds, PTL

\* The solver's own copy of the scoring rules gives every legal cell the score
\* the engine will write, for any throw (solver.cc against scoring.cc).
THEOREM SolverAgreesAlways == Spec => []SolverAgrees
<1>1. IInv => SolverAgrees
  <2> SUFFICES ASSUME IInv, NEW x \in LegalPlacements
               PROVE  LET c == x[1]
                          r == x[2]
                      IN  /\ \A d \in Rolls :
                               SolverScore(mover, c, r, d) = Score(mover, c, r, d)
                          /\ BonusScore(mover, c, r) \in SolverScores(mover, c, r) \union {0}
    BY DEF SolverAgrees
  <2> DEFINE c == x[1]
             r == x[2]
  <2>1. Typed /\ mover \in Players
    BY DEF IInv, Typed
  <2>2. c \in Columns /\ r \in Rows
    BY <2>1 DEF LegalPlacements, Typed
  <2>3. cells[mover][c][RowLS] \in -1..100
    BY <2>1, <2>2, SheetFacts DEF Typed
  <2>4. golden[c][RowSS] \in 0..100
    BY <2>1, <2>2, SheetFacts DEF Typed
  <2>5. Possible[r] \subseteq 1..100 /\ Bonus[r] \subseteq Possible[r]
    BY <2>2, ScoreAssumption
  <2> HIDE DEF c, r
  <2>6. ASSUME NEW s \in Possible[r]
        PROVE  Accepts(mover, c, r, s) <=> s \in SolverScores(mover, c, r)
    <3>1. s # 0 /\ s \in Int
      BY <2>5
    <3>2. cells[mover][c][RowLS] \notin {Empty, 0} <=> cells[mover][c][RowLS] > 0
      BY <2>3 DEF Empty
    <3>3. (cells[mover][c][RowLS] > 0 => s < cells[mover][c][RowLS])
            <=> ~(cells[mover][c][RowLS] > 0 /\ s >= cells[mover][c][RowLS])
      BY <2>3, <3>1
    <3>4. (golden[c][RowSS] > 0 => s > golden[c][RowSS])
            <=> ~(golden[c][RowSS] > 0 /\ s <= golden[c][RowSS])
      BY <2>4, <3>1
    <3> QED BY <2>6, <3>1, <3>2, <3>3, <3>4 DEF Accepts, SolverScores
  <2>7. \A s \in SolverScores(mover, c, r) : s \in Possible[r]
    BY DEF SolverScores
  <2>8. ASSUME NEW d \in Rolls
        PROVE  SolverScore(mover, c, r, d) = Score(mover, c, r, d)
    <3>1. Raw[d][r] \in Possible[r] \/ Raw[d][r] = 0
      BY <2>2, ScoreAssumption
    <3>2. CASE Raw[d][r] \in Possible[r]
      BY <2>6, <3>2 DEF SolverScore, Score
    <3>3. CASE Raw[d][r] = 0
      BY <3>3 DEF SolverScore, Score, Accepts
    <3> QED BY <3>1, <3>2, <3>3
  <2>9. BonusScore(mover, c, r) \in SolverScores(mover, c, r) \union {0}
    BY <2>2, <2>5, <2>6, BonusCounts
  <2> QED BY <2>8, <2>9 DEF c, r
<1> QED BY <1>1, IInvHolds, PTL

\* A score written is no lower than any score then in that box of any sheet
\* (validate_score against the golden_max that apply_placement keeps).
THEOREM GoldenRuleHolds == Spec => GoldenRule
<1>1. IInv /\ [Next]_vars =>
        [\A p \in Players, c \in Columns, r \in Rows :
           ~IsFilled(cells, p, c, r) /\ cells'[p][c][r] > 0 =>
             \A q \in Players : cells'[p][c][r] >= cells[q][c][r]]_vars
  <2> SUFFICES ASSUME IInv, NEW c \in Columns, NEW r \in Rows, Place(c, r),
                      NEW p \in Players, NEW d \in Columns, NEW w \in Rows,
                      ~IsFilled(cells, p, d, w), cells'[p][d][w] > 0,
                      NEW q \in Players
               PROVE  cells'[p][d][w] >= cells[q][d][w]
    BY DEF Next, Reroll, boardVars, IsFilled, Empty, IInv, Typed
  <2>1. Typed /\ Opening /\ Maxima
    BY DEF IInv
  <2>2. p = mover /\ d = c /\ w = r /\ cells'[p][d][w] = PlacedScore(c, r)
    <3>1. cells[p][d][w] = -1 /\ ~(cells[p][d][w] > 0)
      BY DEF IsFilled, Empty
    <3>2. cells'[p][d][w] # 0 /\ cells'[p][d][w] # cells[p][d][w]
      BY <3>1
    <3> QED BY <2>1, <3>2, PlaceWrites
  <2>3. PlacedScore(c, r) >= golden[c][r] /\ PlacedScore(c, r) \in Int
    BY <2>1, <2>2, PlacedCounts DEF Accepts
  <2>4. cells[q][c][r] <= golden[c][r]
    <3>1. cells \in Boards
      BY <2>1 DEF Typed, Boards
    <3> QED BY <2>1, <3>1, RebuiltGoldenAt DEF Maxima, GoldenIsRebuilt
  <2>5. cells[q][c][r] \in Int /\ golden[c][r] \in Int
    <3>1. cells[q] \in [Columns -> [Rows -> -1..100]] /\ golden[c] \in [Rows -> 0..100]
      BY <2>1 DEF Typed
    <3>2. cells[q][c] \in [Rows -> -1..100]
      BY <3>1
    <3>3. cells[q][c][r] \in -1..100 /\ golden[c][r] \in 0..100
      BY <3>1, <3>2
    <3> QED BY <3>3
  <2> QED BY <2>2, <2>3, <2>4, <2>5
<1> QED BY <1>1, IInvHolds, PTL DEF Spec, GoldenRule

\* A written score changes only to a scratch, in the move in which its owner
\* scratches the other sum of the column (placement.cc, mutual destruction).
THEOREM OnlyScratchedTogetherHolds == Spec => OnlyScratchedTogether
<1>1. IInv /\ [Next]_vars =>
        [\A p \in Players, c \in Columns, r \in Rows :
           IsFilled(cells, p, c, r) /\ cells'[p][c][r] # cells[p][c][r] =>
             /\ r \in {RowSS, RowLS}
             /\ cells'[p][c][r] = 0
             /\ ~IsFilled(cells, p, c, Partner(r))
             /\ cells'[p][c][Partner(r)] = 0]_vars
  <2> SUFFICES ASSUME IInv, NEW c \in Columns, NEW r \in Rows, Place(c, r),
                      NEW p \in Players, NEW d \in Columns, NEW w \in Rows,
                      IsFilled(cells, p, d, w), cells'[p][d][w] # cells[p][d][w]
               PROVE  /\ w \in {RowSS, RowLS}
                      /\ cells'[p][d][w] = 0
                      /\ ~IsFilled(cells, p, d, Partner(w))
                      /\ cells'[p][d][Partner(w)] = 0
    BY DEF Next, Reroll, boardVars
  <2>1. Typed /\ Opening
    BY DEF IInv
  <2>2. cells[mover][c][r] = -1
    BY <2>1, PlaceWrites
  <2>3. /\ p = mover /\ d = c /\ w # r /\ w = Partner(r)
        /\ Destroys(mover, c, r, PlacedScore(c, r))
        /\ cells'[p][d][w] = 0
    BY <2>1, <2>2, PlaceWrites DEF IsFilled, Empty
  <2>4. r \in {RowSS, RowLS} /\ PlacedScore(c, r) = 0 /\ Partner(w) = r /\ w \in {RowSS, RowLS}
    BY <2>3, SheetFacts DEF Destroys, Partner
  <2>5. cells'[p][d][r] = 0
    BY <2>1, <2>3, <2>4, PlaceWrites
  <2> QED BY <2>2, <2>3, <2>4, <2>5 DEF IsFilled, Empty
<1> QED BY <1>1, IInvHolds, PTL DEF Spec, OnlyScratchedTogether

-----------------------------------------------------------------------------
(* The player to move has a cell to fill.  A column with an empty cell has  *)
(* an open one; and as players take turns, the sheet of the player to move  *)
(* is never fuller than another, so that it is full only if all are.        *)

\* Where a filled cell and an empty one are, a filled one has an empty
\* neighbour somewhere between them.
LEMMA RunHasAnEnd ==
  ASSUME NEW b, NEW p, NEW c, NEW f \in Rows, NEW e \in Rows,
         IsFilled(b, p, c, f), ~IsFilled(b, p, c, e)
  PROVE  \E q \in Rows : ~IsFilled(b, p, c, q) /\ HasFilledNeighbor(b, p, c, q)
<1> USE SheetFacts
<1>1. CASE f < e
  <2> DEFINE T == {q \in Rows : q > f /\ ~IsFilled(b, p, c, q)}
  <2>1. T \subseteq Nat /\ T # {}
    BY <1>1 DEF Rows
  <2>2. PICK t \in T : \A u \in T : t <= u
    BY <2>1, LeastNatural
  <2>3. t \in Rows /\ t > f /\ t - 1 \in Rows /\ Before(t) = t - 1
    BY <2>2 DEF Rows, Before
  <2>4. IsFilled(b, p, c, t - 1)
    <3>1. CASE t - 1 = f
      BY <3>1
    <3>2. CASE t - 1 # f
      <4>1. t - 1 > f /\ ~(t <= t - 1)
        BY <2>3, <3>2 DEF Rows
      <4>2. t - 1 \notin T
        BY <2>2, <4>1
      <4> QED BY <2>3, <4>1, <4>2
    <3> QED BY <3>1, <3>2
  <2> QED BY <2>2, <2>3, <2>4 DEF HasFilledNeighbor
<1>2. CASE e < f
  <2> DEFINE T == {k \in Nat : f - k \in Rows /\ k > 0 /\ ~IsFilled(b, p, c, f - k)}
  <2>1. f - e \in Nat /\ f - e > 0 /\ f - (f - e) = e
    BY <1>2 DEF Rows
  <2>2. T \subseteq Nat /\ f - e \in T
    BY <2>1
  <2>3. PICK t \in T : \A u \in T : t <= u
    BY <2>2, LeastNatural
  <2>4. PICK q \in Rows : q = f - t
    BY <2>3
  <2>5. q < f /\ q + 1 \in Rows /\ After(q) = q + 1 /\ ~IsFilled(b, p, c, q)
    BY <2>3, <2>4 DEF Rows, After
  <2>6. IsFilled(b, p, c, q + 1)
    <3>1. CASE q + 1 = f
      BY <3>1
    <3>2. CASE q + 1 # f
      <4>1. t - 1 \in Nat /\ t - 1 > 0 /\ f - (t - 1) = q + 1 /\ ~(t <= t - 1)
        BY <2>3, <2>4, <2>5, <3>2 DEF Rows
      <4>2. t - 1 \notin T
        BY <2>3, <4>1
      <4> QED BY <2>5, <4>1, <4>2
    <3> QED BY <3>1, <3>2
  <2> QED BY <2>5, <2>6 DEF HasFilledNeighbor
<1>3. f # e
  OBVIOUS
<1> QED BY <1>1, <1>2, <1>3 DEF Rows

LEMMA EmptyCellOpensOne ==
  ASSUME NEW b, NEW p, NEW c \in Columns, NEW e \in Rows, ~IsFilled(b, p, c, e)
  PROVE  \E q \in Rows : IsOpen(b, p, c, q)
<1> USE SheetFacts
<1>1. CASE c = "Down"
  <2> DEFINE T == {q \in Rows : ~IsFilled(b, p, c, q)}
  <2>1. T \subseteq Nat /\ T # {}
    BY DEF Rows
  <2>2. PICK t \in T : \A u \in T : t <= u
    BY <2>1, LeastNatural
  <2>3. \A q \in Rows : q < t => IsFilled(b, p, c, q)
    BY <2>2 DEF Rows
  <2> QED BY <1>1, <2>2, <2>3 DEF IsOpen, IsColumnLegal
<1>2. CASE c = "Up"
  <2> DEFINE T == {k \in Nat : NumRows - k \in Rows /\ ~IsFilled(b, p, c, NumRows - k)}
  <2>1. NumRows - e \in Nat /\ NumRows - (NumRows - e) = e
    BY DEF Rows
  <2>2. T \subseteq Nat /\ NumRows - e \in T
    BY <2>1
  <2>3. PICK t \in T : \A u \in T : t <= u
    BY <2>2, LeastNatural
  <2>4. PICK w \in Rows : w = NumRows - t /\ ~IsFilled(b, p, c, w)
    BY <2>3
  <2>5. ASSUME NEW q \in Rows, q > w
        PROVE  IsFilled(b, p, c, q)
    <3>1. NumRows - q \in Nat /\ NumRows - (NumRows - q) = q /\ ~(t <= NumRows - q)
      BY <2>3, <2>4, <2>5 DEF Rows
    <3>2. NumRows - q \notin T
      BY <2>3, <3>1
    <3> QED BY <3>1, <3>2
  <2> QED BY <1>2, <2>4, <2>5 DEF IsOpen, IsColumnLegal
<1>3. CASE c \in {"Mid", "UpDown"} /\ IsUntouched(b, p, c)
  <2>1. Row6s \in Rows /\ ~IsFilled(b, p, c, Row6s)
    BY <1>3, SheetAssumption DEF IsUntouched, Rows, RowLS
  <2> QED BY <1>3, <2>1 DEF IsOpen, IsColumnLegal
<1>4. CASE c \in {"Mid", "UpDown"} /\ ~IsUntouched(b, p, c)
  <2>1. PICK f \in Rows : IsFilled(b, p, c, f)
    BY <1>4 DEF IsUntouched
  <2>2. PICK q \in Rows : ~IsFilled(b, p, c, q) /\ HasFilledNeighbor(b, p, c, q)
    BY <2>1, RunHasAnEnd
  <2> QED BY <1>4, <2>2 DEF IsOpen, IsColumnLegal
<1>5. CASE c \notin {"Down", "Up", "Mid", "UpDown"}
  BY <1>5 DEF IsOpen, IsColumnLegal
<1> QED BY <1>1, <1>2, <1>3, <1>4, <1>5

\* The cells counted: all filled ones, those of one sheet, and the empty ones
\* outside Turbo.
AllFilled == {x \in (Players \X Columns) \X Rows : IsFilled(cells, x[1][1], x[1][2], x[2])}
FilledOf(p) == {x \in Columns \X Rows : IsFilled(cells, p, x[1], x[2])}
EmptyNoTurbo(p) == {x \in (Columns \ {"Turbo"}) \X Rows : ~IsFilled(cells, p, x[1], x[2])}

\* Player q has moved in the current round, which player s began.
Moved(s, q) == IF s <= mover THEN s <= q /\ q < mover ELSE s <= q \/ q < mover

Tallied ==
  /\ cellsFilled = Cardinality(AllFilled)
  /\ nonTurbo \in [Players -> Nat]
  /\ \A p \in Players : nonTurbo[p] = Cardinality(EmptyNoTurbo(p))

InTurn ==
  ~IsTerminal => \E s \in Players, k \in Nat : \A q \in Players :
                    Cardinality(FilledOf(q)) = IF Moved(s, q) THEN k + 1 ELSE k

KeepsAThrow == ~IsTerminal /\ rollsLeft = 0 => nonTurbo[mover] # 0

TInv == Tallied /\ InTurn /\ KeepsAThrow

LEMMA SheetIsFinite ==
  /\ IsFiniteSet(Columns) /\ IsFiniteSet(Rows) /\ IsFiniteSet(Players)
  /\ Cardinality(Players) = NumPlayers /\ Cardinality(Rows) = NumRows
  /\ Cardinality(Columns) \in Nat
<1>1. IsFiniteSet(Kinds)
  <2>1. IsFiniteSet({})
    BY FS_EmptySet
  <2>2. Kinds = (((((({} \cup {"Down"}) \cup {"Free"}) \cup {"Up"}) \cup {"Mid"})
                   \cup {"Turbo"}) \cup {"UpDown"})
    BY DEF Kinds
  <2> QED BY <2>1, <2>2, FS_AddElement
<1>2. IsFiniteSet(Columns)
  BY <1>1, FS_Subset, SheetAssumption
<1>3. ASSUME NEW n \in Nat
      PROVE  IsFiniteSet(0..(n - 1)) /\ Cardinality(0..(n - 1)) = n
  <2>1. 0 \in Int /\ n - 1 \in Int
    OBVIOUS
  <2>2. /\ IsFiniteSet(0..(n - 1))
        /\ Cardinality(0..(n - 1)) = IF 0 > n - 1 THEN 0 ELSE (n - 1) - 0 + 1
    BY ONLY <2>1, FS_Interval, Zenon
  <2>3. (IF 0 > n - 1 THEN 0 ELSE (n - 1) - 0 + 1) = n
    OBVIOUS
  <2> QED BY <2>2, <2>3
<1>4. NumPlayers \in Nat /\ NumRows \in Nat
  BY SheetAssumption
<1> QED BY <1>2, <1>3, <1>4, FS_CardinalityType DEF Players, Rows

LEMMA SheetSize ==
  /\ IsFiniteSet(Columns \X Rows)
  /\ IsFiniteSet((Players \X Columns) \X Rows)
  /\ Cardinality((Players \X Columns) \X Rows) = TotalCells
<1>1. /\ IsFiniteSet(Columns \X Rows)
      /\ IsFiniteSet(Players \X Columns)
      /\ Cardinality(Players \X Columns) = Cardinality(Players) * Cardinality(Columns)
  BY SheetIsFinite, FS_Product
<1>2. /\ IsFiniteSet((Players \X Columns) \X Rows)
      /\ Cardinality((Players \X Columns) \X Rows) =
           Cardinality(Players \X Columns) * Cardinality(Rows)
  BY <1>1, SheetIsFinite, FS_Product
<1>3. Cardinality((Players \X Columns) \X Rows) =
        (NumPlayers * Cardinality(Columns)) * NumRows
  BY ONLY <1>1, <1>2, SheetIsFinite, Zenon
<1>4. TotalCells = (NumPlayers * Cardinality(Columns)) * NumRows
  BY ONLY Zenon DEF TotalCells
<1> QED BY ONLY <1>1, <1>2, <1>3, <1>4, Zenon

LEMMA CountsAreFinite ==
  /\ IsFiniteSet(AllFilled) /\ Cardinality(AllFilled) \in 0..TotalCells
  /\ \A p \in Players : /\ IsFiniteSet(FilledOf(p)) /\ Cardinality(FilledOf(p)) \in Nat
                        /\ IsFiniteSet(EmptyNoTurbo(p))
                        /\ Cardinality(EmptyNoTurbo(p)) \in Nat
<1>1. AllFilled \in SUBSET ((Players \X Columns) \X Rows)
  BY DEF AllFilled
<1>2. IsFiniteSet(AllFilled) /\ Cardinality(AllFilled) <= TotalCells
  BY <1>1, SheetSize, FS_Subset
<1>3. Cardinality(AllFilled) \in Nat /\ TotalCells \in Nat
  BY <1>2, SheetSize, FS_CardinalityType
<1>4. ASSUME NEW p \in Players
      PROVE  /\ IsFiniteSet(FilledOf(p)) /\ IsFiniteSet(EmptyNoTurbo(p))
  <2>1. FilledOf(p) \in SUBSET (Columns \X Rows) /\ EmptyNoTurbo(p) \in SUBSET (Columns \X Rows)
    BY DEF FilledOf, EmptyNoTurbo
  <2> QED BY <2>1, SheetSize, FS_Subset
<1> QED BY <1>2, <1>3, <1>4, FS_CardinalityType

\* A full sheet of the player to move means that the game is over.
LEMMA MoverHasRoom ==
  ASSUME Typed, TInv, ~IsTerminal
  PROVE  \E c \in Columns, r \in Rows : ~IsFilled(cells, mover, c, r)
<1> SUFFICES ASSUME \A c \in Columns, r \in Rows : IsFilled(cells, mover, c, r)
             PROVE  FALSE
  OBVIOUS
<1>1. mover \in Players /\ NumPlayers \in Nat
  BY SheetAssumption DEF Typed
<1>2. PICK s \in Players, k \in Nat : \A q \in Players :
          Cardinality(FilledOf(q)) = IF Moved(s, q) THEN k + 1 ELSE k
  BY DEF TInv, InTurn
<1>3. FilledOf(mover) = Columns \X Rows
  BY DEF FilledOf
<1>4. ~Moved(s, mover)
  BY <1>1 DEF Moved, Players
<1>5. k = Cardinality(Columns \X Rows)
  BY <1>1, <1>2, <1>3, <1>4
<1>6. ASSUME NEW q \in Players
      PROVE  FilledOf(q) = Columns \X Rows
  <2>1. FilledOf(q) \in SUBSET (Columns \X Rows)
    BY DEF FilledOf
  <2>2. /\ Cardinality(FilledOf(q)) <= k
        /\ Cardinality(FilledOf(q)) = k => FilledOf(q) = Columns \X Rows
    BY <1>5, <2>1, SheetSize, FS_Subset
  <2> QED BY <1>2, <2>2
<1>7. AllFilled = (Players \X Columns) \X Rows
  <2>1. ASSUME NEW q \in Players, NEW c \in Columns, NEW r \in Rows
        PROVE  IsFilled(cells, q, c, r)
    <3>1. <<c, r>> \in FilledOf(q)
      BY <1>6
    <3> QED BY <3>1 DEF FilledOf
  <2> QED BY <2>1 DEF AllFilled
<1>8. cellsFilled = TotalCells /\ TotalCells \in Nat
  BY <1>7, SheetSize, FS_CardinalityType DEF TInv, Tallied
<1> QED BY <1>8 DEF IsTerminal

LEMMA InitTInv == Init => TInv
<1> SUFFICES ASSUME Init PROVE TInv
  OBVIOUS
<1>1. \A p \in Players, c \in Columns, r \in Rows : ~IsFilled(cells, p, c, r)
  BY DEF Init, IsFilled
<1>2. AllFilled = {} /\ \A p \in Players : FilledOf(p) = {}
  BY <1>1 DEF AllFilled, FilledOf
<1>3. \A p \in Players : EmptyNoTurbo(p) = (Columns \ {"Turbo"}) \X Rows
  BY <1>1 DEF EmptyNoTurbo
<1>4. IsFiniteSet(Columns \ {"Turbo"})
  BY SheetIsFinite, FS_Subset
<1>5. /\ Cardinality((Columns \ {"Turbo"}) \X Rows) =
           Cardinality(Columns \ {"Turbo"}) * Cardinality(Rows)
      /\ Cardinality((Columns \ {"Turbo"}) \X Rows) \in Nat
      /\ Cardinality(Columns \ {"Turbo"}) \in Nat
  BY <1>4, SheetIsFinite, FS_Product, FS_CardinalityType
<1>6. NumRows * Cardinality(Columns \ {"Turbo"}) = Cardinality((Columns \ {"Turbo"}) \X Rows)
  BY <1>5, SheetIsFinite, SheetFacts
<1>7. Tallied
  BY <1>2, <1>3, <1>5, <1>6, FS_EmptySet DEF Init, Tallied
<1>8. InTurn
  <2>1. \A q \in Players : Cardinality(FilledOf(q)) = 0
    BY <1>2, FS_EmptySet
  <2>2. \A q \in Players : ~Moved(mover, q)
    BY SheetAssumption DEF Init, Moved, Players
  <2>3. mover \in Players
    BY DEF Init
  <2> QED BY <2>1, <2>2, <2>3 DEF InTurn
<1>9. KeepsAThrow
  BY DEF Init, KeepsAThrow
<1> QED BY <1>7, <1>8, <1>9 DEF TInv

\* A step that leaves the board, its counters and the mover alone.
LEMMA BoardKept ==
  ASSUME Tallied, InTurn, UNCHANGED <<cells, cellsFilled, mover, nonTurbo>>
  PROVE  Tallied' /\ InTurn'
<1>1. cells' = cells /\ cellsFilled' = cellsFilled /\ mover' = mover /\ nonTurbo' = nonTurbo
  OBVIOUS
<1>2. Tallied'
  BY <1>1 DEF Tallied, AllFilled, EmptyNoTurbo
<1>3. InTurn'
  <2> SUFFICES ASSUME ~IsTerminal'
               PROVE  \E s \in Players, k \in Nat : \A q \in Players :
                         Cardinality(FilledOf(q)') = IF Moved(s, q)' THEN k + 1 ELSE k
    BY DEF InTurn
  <2>1. ~IsTerminal
    BY <1>1 DEF IsTerminal
  <2>2. PICK s \in Players, k \in Nat : \A q \in Players :
            Cardinality(FilledOf(q)) = IF Moved(s, q) THEN k + 1 ELSE k
    BY <2>1 DEF InTurn
  <2>3. \A q \in Players : FilledOf(q)' = FilledOf(q)
    BY <1>1 DEF FilledOf
  <2>4. \A q \in Players : Moved(s, q)' <=> Moved(s, q)
    BY <1>1 DEF Moved
  <2> QED BY <2>2, <2>3, <2>4
<1> QED BY <1>2, <1>3

LEMMA RerollTInv ==
  ASSUME Typed, TInv, Reroll
  PROVE  TInv'
<1>1. UNCHANGED <<cells, cellsFilled, mover, nonTurbo>>
  BY DEF Reroll, boardVars, ctxVars
<1>2. rollsLeft' = 0 => nonTurbo[mover] # 0
  BY DEF Reroll, CanReroll, Typed
<1>3. Tallied' /\ InTurn'
  BY <1>1, BoardKept DEF TInv
<1>4. KeepsAThrow'
  BY <1>1, <1>2 DEF KeepsAThrow
<1> QED BY <1>3, <1>4 DEF TInv

\* Primed: these counts are numbers on the next board too.
LEMMA EmptyNextIsNat ==
  \A p \in Players : IsFiniteSet(EmptyNoTurbo(p)') /\ Cardinality(EmptyNoTurbo(p)') \in Nat
<1>1. ASSUME NEW p \in Players
      PROVE  IsFiniteSet(EmptyNoTurbo(p)')
  <2>1. EmptyNoTurbo(p)' \in SUBSET (Columns \X Rows)
    BY DEF EmptyNoTurbo
  <2> QED BY <2>1, SheetSize, FS_Subset
<1> QED BY <1>1, FS_CardinalityType

\* What a placement does to the counts.
LEMMA PlaceCounts ==
  ASSUME Typed, Opening, TInv, NEW c \in Columns, NEW r \in Rows, Place(c, r)
  PROVE  /\ Tallied'
         /\ \A q \in Players : Cardinality(FilledOf(q)') =
              IF q = mover THEN Cardinality(FilledOf(q)) + 1 ELSE Cardinality(FilledOf(q))
<1>0. PICK m \in Players : m = mover
  BY DEF Typed
<1>1. ~IsFilled(cells, m, c, r)
  BY <1>0, PlaceFills DEF IsOpen
<1>2. \A o \in Players, d \in Columns, q \in Rows :
        IsFilled(cells', o, d, q) <=>
          IsFilled(cells, o, d, q) \/ (o = m /\ d = c /\ q = r)
  BY <1>0, PlaceFills
<1>3. AllFilled' = AllFilled \cup {<<<<m, c>>, r>>} /\ <<<<m, c>>, r>> \notin AllFilled
  <2>1. \A o \in Players, d \in Columns, q \in Rows :
          /\ <<<<o, d>>, q>> \in AllFilled <=> IsFilled(cells, o, d, q)
          /\ <<<<o, d>>, q>> \in AllFilled' <=> IsFilled(cells', o, d, q)
    BY DEF AllFilled
  <2>2. AllFilled \subseteq (Players \X Columns) \X Rows
        /\ AllFilled' \subseteq (Players \X Columns) \X Rows
    BY DEF AllFilled
  <2>3. \A x \in (Players \X Columns) \X Rows :
          \E o \in Players, d \in Columns, q \in Rows : x = <<<<o, d>>, q>>
    OBVIOUS
  <2>4. <<<<m, c>>, r>> \in (Players \X Columns) \X Rows
    OBVIOUS
  <2>5. \A x \in (Players \X Columns) \X Rows :
          x \in AllFilled' <=> x \in AllFilled \/ x = <<<<m, c>>, r>>
    BY <1>2, <2>1, <2>3
  <2>6. <<<<m, c>>, r>> \notin AllFilled
    BY <1>1, <2>1
  <2> QED BY <2>2, <2>4, <2>5, <2>6
<1>4. Cardinality(AllFilled') = Cardinality(AllFilled) + 1
  BY <1>3, CountsAreFinite, FS_AddElement
<1>5. \A o \in Players, d \in Columns, q \in Rows :
        /\ <<d, q>> \in FilledOf(o) <=> IsFilled(cells, o, d, q)
        /\ <<d, q>> \in FilledOf(o)' <=> IsFilled(cells', o, d, q)
        /\ <<d, q>> \in EmptyNoTurbo(o) <=> d # "Turbo" /\ ~IsFilled(cells, o, d, q)
        /\ <<d, q>> \in EmptyNoTurbo(o)' <=> d # "Turbo" /\ ~IsFilled(cells', o, d, q)
  BY DEF FilledOf, EmptyNoTurbo
<1>6. \A o \in Players :
        /\ FilledOf(o) \subseteq Columns \X Rows /\ FilledOf(o)' \subseteq Columns \X Rows
        /\ EmptyNoTurbo(o) \subseteq Columns \X Rows
        /\ EmptyNoTurbo(o)' \subseteq Columns \X Rows
  BY DEF FilledOf, EmptyNoTurbo
<1>7. \A x \in Columns \X Rows : \E d \in Columns, q \in Rows : x = <<d, q>>
  OBVIOUS
<1>8. ASSUME NEW o \in Players
      PROVE  /\ Cardinality(FilledOf(o)') =
                  IF o = m THEN Cardinality(FilledOf(o)) + 1 ELSE Cardinality(FilledOf(o))
             /\ Cardinality(EmptyNoTurbo(o)') =
                  IF o = m /\ c # "Turbo" THEN Cardinality(EmptyNoTurbo(o)) - 1
                  ELSE Cardinality(EmptyNoTurbo(o))
  <2>1. CASE o = m
    <3>1. FilledOf(o)' = FilledOf(o) \cup {<<c, r>>} /\ <<c, r>> \notin FilledOf(o)
      <4>1. \A x \in Columns \X Rows :
              x \in FilledOf(o)' <=> x \in FilledOf(o) \/ x = <<c, r>>
        BY <1>2, <1>5, <1>7, <2>1
      <4>2. <<c, r>> \notin FilledOf(o) /\ <<c, r>> \in Columns \X Rows
        BY <1>1, <1>5, <2>1
      <4> QED BY <1>6, <4>1, <4>2
    <3>2. CASE c = "Turbo"
      <4>1. EmptyNoTurbo(o)' = EmptyNoTurbo(o)
        <5>1. \A x \in Columns \X Rows :
                x \in EmptyNoTurbo(o)' <=> x \in EmptyNoTurbo(o)
          BY <1>2, <1>5, <1>7, <3>2
        <5> QED BY <1>6, <5>1
      <4> QED BY <2>1, <3>1, <3>2, <4>1, CountsAreFinite, FS_AddElement
    <3>3. CASE c # "Turbo"
      <4>1. EmptyNoTurbo(o)' = EmptyNoTurbo(o) \ {<<c, r>>} /\ <<c, r>> \in EmptyNoTurbo(o)
        <5>1. \A x \in Columns \X Rows :
                x \in EmptyNoTurbo(o)' <=> x \in EmptyNoTurbo(o) /\ x # <<c, r>>
          BY <1>2, <1>5, <1>7, <2>1, <3>3
        <5>2. <<c, r>> \in EmptyNoTurbo(o)
          BY <1>1, <1>5, <2>1, <3>3
        <5> QED BY <1>6, <5>1, <5>2
      <4>2. Cardinality(EmptyNoTurbo(o)') = Cardinality(EmptyNoTurbo(o)) - 1
        BY <4>1, CountsAreFinite, FS_RemoveElement
      <4>3. Cardinality(FilledOf(o)') = Cardinality(FilledOf(o)) + 1
        BY <3>1, CountsAreFinite, FS_AddElement
      <4> QED BY <2>1, <3>3, <4>2, <4>3
    <3> QED BY <3>2, <3>3
  <2>2. CASE o # m
    <3>1. FilledOf(o)' = FilledOf(o) /\ EmptyNoTurbo(o)' = EmptyNoTurbo(o)
      <4>1. \A x \in Columns \X Rows : /\ x \in FilledOf(o)' <=> x \in FilledOf(o)
                                       /\ x \in EmptyNoTurbo(o)' <=> x \in EmptyNoTurbo(o)
        BY <1>2, <1>5, <1>7, <2>2
      <4> QED BY <1>6, <4>1
    <3> QED BY <2>2, <3>1
  <2> QED BY <2>1, <2>2
<1>9. cellsFilled' = cellsFilled + 1
  BY DEF Place, ApplyPlacement
<1>10. /\ nonTurbo' \in [Players -> Nat]
       /\ \A p \in Players : nonTurbo'[p] = Cardinality(EmptyNoTurbo(p)')
  <2>1. nonTurbo' = [nonTurbo EXCEPT ![m] = IF c = "Turbo" THEN @ ELSE @ - 1]
    BY <1>0 DEF Place, ApplyPlacement
  <2>2. nonTurbo \in [Players -> Nat] /\ \A p \in Players : nonTurbo[p] = Cardinality(EmptyNoTurbo(p))
    BY DEF TInv, Tallied
  <2>3. \A p \in Players : nonTurbo'[p] = Cardinality(EmptyNoTurbo(p)')
    BY <1>8, <2>1, <2>2
  <2>4. \A p \in Players : Cardinality(EmptyNoTurbo(p)') \in Nat
    BY EmptyNextIsNat
  <2> QED BY <2>1, <2>2, <2>3, <2>4
<1> QED BY <1>0, <1>4, <1>8, <1>9, <1>10 DEF TInv, Tallied

LEMMA PlaceTInv ==
  ASSUME Typed, Opening, TInv, NEW c \in Columns, NEW r \in Rows, Place(c, r)
  PROVE  TInv'
<1>1. Tallied'
  BY PlaceCounts
<1>2. KeepsAThrow'
  BY DEF Place, KeepsAThrow, IsTerminal
<1>3. InTurn'
  <2> SUFFICES ASSUME ~IsTerminal'
               PROVE  \E s \in Players, k \in Nat : \A q \in Players :
                         Cardinality(FilledOf(q)') = IF Moved(s, q)' THEN k + 1 ELSE k
    BY DEF InTurn
  <2>1. PICK m \in Players : m = mover
    BY DEF Typed
  <2>2. ~IsTerminal /\ mover' = (m + 1) % NumPlayers
    BY <2>1 DEF Place, IsTerminal
  <2>3. NumPlayers \in Nat \ {0} /\ m \in 0..(NumPlayers - 1)
    BY SheetAssumption DEF Players
  <2>4. mover' = IF m = NumPlayers - 1 THEN 0 ELSE m + 1
    BY <2>2, <2>3
  <2>5. PICK s \in Players, k \in Nat : \A q \in Players :
            Cardinality(FilledOf(q)) = IF Moved(s, q) THEN k + 1 ELSE k
    BY <2>2 DEF TInv, InTurn
  <2>6. \A q \in Players : Cardinality(FilledOf(q)') =
            IF q = m THEN Cardinality(FilledOf(q)) + 1 ELSE Cardinality(FilledOf(q))
    BY <2>1, PlaceCounts
  <2>7. \A q \in Players : q \in 0..(NumPlayers - 1)
    BY DEF Players
  <2>8. \A q \in Players : Moved(s, q) <=>
            IF s <= m THEN s <= q /\ q < m ELSE s <= q \/ q < m
    BY <2>1 DEF Moved
  <2>9. \A q \in Players : Cardinality(FilledOf(q)') =
            IF q = m \/ Moved(s, q) THEN k + 1 ELSE k
    BY <2>3, <2>5, <2>6, <2>7, <2>8
  <2>10. CASE mover' = s
    <3>1. ASSUME NEW q \in Players
          PROVE  q = m \/ (IF s <= m THEN s <= q /\ q < m ELSE s <= q \/ q < m)
      <4>1. q \in 0..(NumPlayers - 1) /\ m \in 0..(NumPlayers - 1) /\ NumPlayers \in Nat
        BY <2>3, <2>7
      <4>2. s = IF m = NumPlayers - 1 THEN 0 ELSE m + 1
        BY <2>4, <2>10
      <4>3. CASE m = NumPlayers - 1
        <5>1. s = 0 /\ (q = m \/ q < m) /\ 0 <= q /\ 0 <= m
          BY <4>1, <4>2, <4>3
        <5> QED BY <5>1
      <4>4. CASE m # NumPlayers - 1
        <5>1. s = m + 1 /\ ~(s <= m) /\ (q = m \/ q < m \/ s <= q)
          BY <4>1, <4>2, <4>4
        <5> QED BY <5>1
      <4> QED BY <4>3, <4>4
    <3>2. ASSUME NEW q \in Players
          PROVE  ~Moved(s, q)'
      <4>1. q \in Int /\ s \in Int /\ s <= s /\ ~(s <= q /\ q < s)
        BY <2>3, <2>7
      <4>2. Moved(s, q)' <=> IF s <= s THEN s <= q /\ q < s ELSE s <= q \/ q < s
        BY <2>10 DEF Moved
      <4> QED BY <4>1, <4>2
    <3> QED BY <2>8, <2>9, <3>1, <3>2
  <2>11. CASE mover' # s
    <3>1. \A q \in Players : Moved(s, q)' <=> q = m \/ Moved(s, q)
      BY <2>3, <2>4, <2>7, <2>8, <2>11 DEF Moved
    <3> QED BY <2>9, <3>1
  <2> QED BY <2>10, <2>11
<1> QED BY <1>1, <1>2, <1>3 DEF TInv

LEMMA TurnsInvariant == Spec => [](IInv /\ TInv)
<1>1. Init => IInv /\ TInv
  BY InitIInv, InitTInv
<1>2. IInv /\ TInv /\ [Next]_vars => IInv' /\ TInv'
  <2> SUFFICES ASSUME IInv, TInv, [Next]_vars PROVE TInv'
    BY NextIInv
  <2>1. CASE Reroll
    BY <2>1, RerollTInv DEF IInv
  <2>2. CASE \E c \in Columns, r \in Rows : Place(c, r)
    BY <2>2, PlaceTInv DEF IInv
  <2>3. CASE UNCHANGED vars
    <3>1. /\ UNCHANGED <<cells, cellsFilled, mover, nonTurbo>>
          /\ rollsLeft' = rollsLeft
      BY <2>3 DEF vars, boardVars, ctxVars
    <3>2. Tallied' /\ InTurn'
      BY <3>1, BoardKept DEF TInv
    <3>3. KeepsAThrow'
      BY <3>1 DEF TInv, KeepsAThrow, IsTerminal
    <3> QED BY <3>2, <3>3 DEF TInv
  <2> QED BY <2>1, <2>2, <2>3 DEF Next
<1> QED BY <1>1, <1>2, PTL DEF Spec

\* Whoever is to move before the game is over has a cell to place in, on any
\* sheet and after any throws: no column with an empty cell is ever without a
\* legal one, and turns alternate (is_column_legal,
\* update_legal_placements_after_move, start_turn).
THEOREM MoverCanAlwaysPlace == Spec => []MoverCanPlace
<1>1. IInv /\ TInv => MoverCanPlace
  <2> SUFFICES ASSUME IInv, TInv, ~IsTerminal PROVE LegalPlacements # {}
    BY DEF MoverCanPlace
  <2>1. PICK c \in Columns, e \in Rows : ~IsFilled(cells, mover, c, e)
    BY MoverHasRoom DEF IInv
  <2>2. PICK q \in Rows : IsOpen(cells, mover, c, q)
    BY <2>1, EmptyCellOpensOne
  <2>3. mover \in Players /\ <<c, q>> \in legalAll[mover]
    BY <2>2, RebuiltLegalAt DEF IInv, Typed, Opening, LegalIsRebuilt
  <2> QED BY <2>3 DEF LegalPlacements
<1> QED BY <1>1, TurnsInvariant, PTL

\* A Turbo cell is never filled after the third throw: a player with only Turbo
\* cells left may not throw a third time, and any other one has a legal cell
\* outside Turbo (can_reroll, get_legal_placements).
THEOREM TurboKeepsAThrowHolds == Spec => TurboKeepsAThrow
<1>1. IInv /\ TInv /\ [Next]_vars =>
        [\A p \in Players, c \in Columns, r \in Rows :
           c = "Turbo" /\ cells'[p][c][r] # cells[p][c][r] => rollsLeft > 0]_vars
  <2> SUFFICES ASSUME IInv, TInv, [Next]_vars,
                      NEW p \in Players, NEW c \in Columns, NEW r \in Rows,
                      c = "Turbo", cells'[p][c][r] # cells[p][c][r]
               PROVE  rollsLeft > 0
    OBVIOUS
  <2>1. PICK d \in Columns, q \in Rows : Place(d, q)
    BY DEF Next, Reroll, vars, boardVars
  <2>2. d = "Turbo"
    BY <2>1, PlaceWrites DEF IInv
  <2>3. CASE rollsLeft = 0
    <3>1. ~IsTerminal /\ mover \in Players
      BY <2>1 DEF Place, IInv, Typed
    <3>2. Cardinality(EmptyNoTurbo(mover)) # 0
      BY <2>3, <3>1 DEF TInv, KeepsAThrow, Tallied
    <3>3. PICK x \in EmptyNoTurbo(mover) : TRUE
      BY <3>2, FS_EmptySet
    <3>4. PICK f \in Columns, e \in Rows : f # "Turbo" /\ ~IsFilled(cells, mover, f, e)
      BY <3>3 DEF EmptyNoTurbo
    <3>5. PICK w \in Rows : IsOpen(cells, mover, f, w)
      BY <3>4, EmptyCellOpensOne
    <3>6. <<f, w>> \in legalNoTurbo[mover]
      BY <3>1, <3>4, <3>5, RebuiltLegalAt DEF IInv, Opening, LegalIsRebuilt, NoTurbo
    <3>7. LegalPlacements = NoTurbo(RebuiltLegal(cells, mover))
      BY <2>3, <3>1, <3>6 DEF LegalPlacements, IInv, Opening, LegalIsRebuilt
    <3>8. <<d, q>> \in LegalPlacements
      BY <2>1 DEF Place
    <3> QED BY <2>2, <3>7, <3>8 DEF NoTurbo
  <2> QED BY <2>3 DEF IInv, Typed
<1> QED BY <1>1, TurnsInvariant, PTL DEF Spec, TurboKeepsAThrow

-----------------------------------------------------------------------------
(* What a column is worth.  The sum of the number rows is kept by adding,   *)
(* the points of the column are added up anew, and a column is clean from   *)
(* what is kept: that both go over the same cells is needed before a column *)
(* can be said to win by a score.                                           *)

LEMMA WorthIs ==
  ASSUME NEW v \in -1..100
  PROVE  Max({0, v}) = IF v > 0 THEN v ELSE 0
<1>1. {0, v} \subseteq -1..100 /\ 100 \in Nat
  OBVIOUS
<1>2. CASE v > 0
  <2>1. v \in {0, v} /\ \A s \in {0, v} : s <= v
    BY <1>2
  <2>2. Max({0, v}) = v
    BY <1>1, <2>1, MaxIsUnique
  <2> QED BY <1>2, <2>2
<1>3. CASE ~(v > 0)
  <2>1. 0 \in {0, v} /\ \A s \in {0, v} : s <= 0
    BY <1>3
  <2>2. Max({0, v}) = 0
    BY <1>1, <2>1, MaxIsUnique
  <2> QED BY <1>3, <2>2
<1> QED BY <1>2, <1>3

UpperRows == 0..Row6s
UpperOf(b, p, c) == [r \in UpperRows |-> Max({0, b[p][c][r]})]
PointsOf(b, p, c) == [r \in Rows |-> Max({0, b[p][c][r]})]

LEMMA UpperAreRows ==
  /\ UpperRows \subseteq Rows /\ IsFiniteSet(UpperRows) /\ IsFiniteSet(Rows)
  /\ RowSS \notin UpperRows /\ RowLS \notin UpperRows
  /\ \A r \in Rows : r \in UpperRows <=> r <= Row6s
  /\ \A r \in Rows : r \in LowerRows <=> r >= RowSS
  /\ LowerRows \subseteq Rows
<1>1. /\ UpperRows \subseteq Rows
      /\ RowSS \notin UpperRows /\ RowLS \notin UpperRows
      /\ \A r \in Rows : r \in UpperRows <=> r <= Row6s
      /\ \A r \in Rows : r \in LowerRows <=> r >= RowSS
      /\ LowerRows \subseteq Rows
  BY SheetAssumption DEF UpperRows, LowerRows, Rows, RowSS, RowLS
<1> QED BY <1>1, SheetIsFinite, FS_Subset

LEMMA WorthOfCells ==
  ASSUME NEW b \in Boards, NEW p \in Players, NEW c \in Columns
  PROVE  /\ UpperOf(b, p, c) \in [UpperRows -> Nat]
         /\ PointsOf(b, p, c) \in [Rows -> Nat]
         /\ \A r \in Rows : PointsOf(b, p, c)[r] = IF b[p][c][r] > 0 THEN b[p][c][r] ELSE 0
         /\ \A r \in UpperRows : UpperOf(b, p, c)[r] = PointsOf(b, p, c)[r]
<1>1. \A r \in Rows : b[p][c][r] \in -1..100
  BY DEF Boards
<1>2. \A r \in Rows : /\ Max({0, b[p][c][r]}) = IF b[p][c][r] > 0 THEN b[p][c][r] ELSE 0
                      /\ Max({0, b[p][c][r]}) \in Nat
  <2> TAKE r \in Rows
  <2> DEFINE v == b[p][c][r]
  <2>1. v \in -1..100
    BY <1>1
  <2> HIDE DEF v
  <2>2. Max({0, v}) = IF v > 0 THEN v ELSE 0
    BY <2>1, WorthIs
  <2> QED BY <2>1, <2>2 DEF v
<1>3. PointsOf(b, p, c) \in [Rows -> Nat]
  BY <1>2 DEF PointsOf
<1>4. UpperOf(b, p, c) \in [UpperRows -> Nat]
  BY <1>2, UpperAreRows DEF UpperOf
<1>5. \A r \in Rows : PointsOf(b, p, c)[r] = Max({0, b[p][c][r]})
  BY DEF PointsOf
<1>6. \A r \in UpperRows : UpperOf(b, p, c)[r] = Max({0, b[p][c][r]})
  BY DEF UpperOf
<1> QED BY <1>2, <1>3, <1>4, <1>5, <1>6, UpperAreRows

\* The number rows of a column after a placement.
LEMMA UpperAfter ==
  ASSUME Typed, Opening, NEW c \in Columns, NEW r \in Rows, Place(c, r),
         NEW o \in Players, NEW d \in Columns
  PROVE  SumFunction(UpperOf(cells', o, d)) =
           SumFunction(UpperOf(cells, o, d))
             + (IF o = mover /\ d = c /\ r <= Row6s THEN PlacedScore(c, r) ELSE 0)
<1> DEFINE s == PlacedScore(c, r)
           f == UpperOf(cells, o, d)
           g == UpperOf(cells', o, d)
<1>1. cells \in Boards /\ cells' \in Boards
  BY PlaceWrites DEF Typed, Boards
<1>2. s \in 0..100
  BY PlacedCounts
<1>3. /\ f \in [UpperRows -> Nat] /\ g \in [UpperRows -> Nat]
      /\ \A q \in UpperRows : /\ f[q] = IF cells[o][d][q] > 0 THEN cells[o][d][q] ELSE 0
                              /\ g[q] = IF cells'[o][d][q] > 0 THEN cells'[o][d][q] ELSE 0
  BY <1>1, WorthOfCells, UpperAreRows
<1>4. /\ \A q \in UpperRows : cells'[o][d][q] =
           IF o = mover /\ d = c /\ q = r THEN s ELSE cells[o][d][q]
      /\ cells[mover][c][r] = -1
  <2>1. \A q \in UpperRows : q \in Rows /\ q # RowSS /\ q # RowLS
    BY UpperAreRows
  <2>2. Destroys(mover, c, r, s) => Partner(r) \in {RowSS, RowLS}
    BY DEF Partner
  <2> QED BY <2>1, <2>2, PlaceWrites
<1> HIDE DEF f, g, s
<1>5. SumFunction(f) \in Nat
  BY <1>3, UpperAreRows, SumIsNat
<1>6. CASE o = mover /\ d = c /\ r \in UpperRows
  <2>1. \A q \in UpperRows : q # r => g[q] = f[q]
    BY <1>3, <1>4, <1>6
  <2>2. g[r] = s /\ f[r] = 0
    BY <1>2, <1>3, <1>4, <1>6
  <2>3. f \in [UpperRows -> Int] /\ g \in [UpperRows -> Int]
    BY <1>3
  <2>4. SumFunction(g) = SumFunction(f) + (g[r] - f[r])
    BY <1>6, <2>1, <2>3, UpperAreRows, SumChanges
  <2>5. SumFunction(g) = SumFunction(f) + s
    BY <1>2, <1>5, <2>2, <2>4
  <2>6. r <= Row6s
    BY <1>6, UpperAreRows
  <2> QED BY <1>6, <2>5, <2>6 DEF f, g, s
<1>7. CASE ~(o = mover /\ d = c /\ r \in UpperRows)
  <2>1. \A q \in UpperRows : g[q] = f[q]
    BY <1>3, <1>4, <1>7
  <2>2. g = f
    BY <1>3, <2>1
  <2>3. ~(o = mover /\ d = c /\ r <= Row6s)
    BY <1>7, UpperAreRows
  <2>4. SumFunction(g) = SumFunction(f) + 0
    BY <1>5, <2>2
  <2> QED BY <2>3, <2>4 DEF f, g
<1> QED BY <1>6, <1>7

\* upper_sum and lower_has_scratch are those of the board.
Counted ==
  /\ upper \in [Players -> [Columns -> Nat]]
  /\ lowScratch \in [Players -> [Columns -> BOOLEAN]]
  /\ \A p \in Players, c \in Columns :
       /\ upper[p][c] = SumFunction(UpperOf(cells, p, c))
       /\ lowScratch[p][c] <=> \E r \in LowerRows : cells[p][c][r] = 0

LEMMA InitCounted == Init => Counted
<1> SUFFICES ASSUME Init PROVE Counted
  OBVIOUS
<1>1. /\ upper = [p \in Players |-> [c \in Columns |-> 0]]
      /\ lowScratch = [p \in Players |-> [c \in Columns |-> FALSE]]
  BY DEF Init
<1>2. cells \in Boards /\ \A p \in Players, c \in Columns, r \in Rows : cells[p][c][r] = -1
  BY DEF Init, Empty, Boards
<1>3. ASSUME NEW p \in Players, NEW c \in Columns
      PROVE  SumFunction(UpperOf(cells, p, c)) = 0
  <2> DEFINE f == UpperOf(cells, p, c)
  <2>1. f \in [UpperRows -> Nat] /\ \A q \in UpperRows : f[q] = 0
    BY <1>2, WorthOfCells, UpperAreRows
  <2> HIDE DEF f
  <2> DEFINE g == [q \in {} |-> 0]
  <2>2. PICK it : SumsUp(it, UpperRows, f) /\ SumFunction(f) = it[UpperRows]
    <3>1. f \in [UpperRows -> Int]
      BY <2>1
    <3> QED BY <3>1, UpperAreRows, SumFunctionIs
  <2> DEFINE G == {s \in SUBSET UpperRows : it[s] = 0}
  <2>3. {} \in G
    BY <2>2 DEF SumsUp
  <2>4. ASSUME NEW s \in SUBSET UpperRows, NEW x \in s, s \ {x} \in G
        PROVE  s \in G
    <3>1. it[s] = f[x] + it[s \ {x}] /\ f[x] = 0
      BY <2>1, <2>2 DEF SumsUp
    <3> QED BY <2>4, <3>1
  <2> HIDE DEF G
  <2>5. UpperRows \in G
    BY <2>3, <2>4, UpperAreRows, SubsetInduction
  <2> QED BY <2>2, <2>5 DEF G, f
<1>4. \A r \in LowerRows : r \in Rows
  BY UpperAreRows
<1> QED BY <1>1, <1>2, <1>3, <1>4 DEF Counted

LEMMA PlaceCounted ==
  ASSUME Typed, Opening, Counted, NEW c \in Columns, NEW r \in Rows, Place(c, r)
  PROVE  Counted'
<1> DEFINE s == PlacedScore(c, r)
<1>1. mover \in Players /\ s \in 0..100
  BY PlacedCounts DEF Typed
<1>2. /\ upper' = [upper EXCEPT ![mover][c] = IF r <= Row6s THEN @ + s ELSE @]
      /\ lowScratch' = [lowScratch EXCEPT ![mover][c] = @ \/ (r >= RowSS /\ s = 0)]
  BY DEF Place, ApplyPlacement
<1>3. /\ upper \in [Players -> [Columns -> Nat]]
      /\ lowScratch \in [Players -> [Columns -> BOOLEAN]]
  BY DEF Counted
<1> HIDE DEF s
<1>4. /\ upper' \in [Players -> [Columns -> Nat]]
      /\ \A o \in Players, d \in Columns : upper'[o][d] =
           upper[o][d] + (IF o = mover /\ d = c /\ r <= Row6s THEN s ELSE 0)
  <2>1. \A o \in Players, d \in Columns : upper[o][d] \in Nat
    BY <1>3
  <2>2. \A o \in Players, d \in Columns : upper'[o][d] =
          IF o = mover /\ d = c /\ r <= Row6s THEN upper[o][d] + s ELSE upper[o][d]
    BY <1>1, <1>2, <1>3
  <2>3. \A o \in Players, d \in Columns : upper'[o][d] =
           upper[o][d] + (IF o = mover /\ d = c /\ r <= Row6s THEN s ELSE 0)
    BY <2>1, <2>2
  <2>4. upper[mover][c] + s \in Nat
    BY <1>1, <2>1
  <2> QED BY <1>1, <1>2, <1>3, <2>3, <2>4
<1>5. /\ lowScratch' \in [Players -> [Columns -> BOOLEAN]]
      /\ \A o \in Players, d \in Columns : lowScratch'[o][d] <=>
           lowScratch[o][d] \/ (o = mover /\ d = c /\ r >= RowSS /\ s = 0)
  BY <1>1, <1>2, <1>3
<1>6. ASSUME NEW o \in Players, NEW d \in Columns
      PROVE  upper'[o][d] = SumFunction(UpperOf(cells', o, d))
  BY <1>4, UpperAfter DEF Counted, s
<1>7. ASSUME NEW o \in Players, NEW d \in Columns
      PROVE  lowScratch'[o][d] <=> \E q \in LowerRows : cells'[o][d][q] = 0
  <2>1. lowScratch[o][d] <=> \E q \in LowerRows : cells[o][d][q] = 0
    BY DEF Counted
  <2>2. \A q \in LowerRows : q \in Rows /\ cells'[o][d][q] =
          IF o = mover /\ d = c
          THEN IF q = r THEN s
               ELSE IF q = Partner(r) /\ Destroys(mover, c, r, s) THEN 0
               ELSE cells[mover][c][q]
          ELSE cells[o][d][q]
    BY PlaceWrites, UpperAreRows DEF s
  <2>3. cells[mover][c][r] = -1
    BY PlaceWrites
  <2>4. r >= RowSS <=> r \in LowerRows
    BY UpperAreRows
  <2>5. Destroys(mover, c, r, s) => s = 0 /\ r \in LowerRows
    <3>1. RowSS \in LowerRows /\ RowLS \in LowerRows
      BY SheetAssumption DEF LowerRows, RowSS, RowLS
    <3> QED BY <3>1 DEF Destroys
  <2>6. CASE ~(o = mover /\ d = c)
    BY <1>5, <2>1, <2>2, <2>6
  <2>7. CASE o = mover /\ d = c /\ s = 0 /\ r \in LowerRows
    BY <1>5, <2>2, <2>4, <2>7
  <2>8. CASE o = mover /\ d = c /\ ~(s = 0 /\ r \in LowerRows)
    <3>1. \A q \in LowerRows : cells'[o][d][q] = 0 <=> cells[o][d][q] = 0
      BY <2>2, <2>3, <2>5, <2>8
    <3> QED BY <1>5, <2>1, <2>4, <2>8, <3>1
  <2> QED BY <2>6, <2>7, <2>8
<1> QED BY <1>4, <1>5, <1>6, <1>7 DEF Counted

LEMMA CountedInvariant == Spec => [](IInv /\ TInv /\ Counted)
<1>1. IInv /\ Counted /\ [Next]_vars => Counted'
  <2> SUFFICES ASSUME IInv, Counted, [Next]_vars PROVE Counted'
    OBVIOUS
  <2>1. CASE UNCHANGED <<cells, upper, lowScratch>>
    BY <2>1 DEF Counted
  <2>2. CASE Reroll
    BY <2>1, <2>2 DEF Reroll, boardVars, ctxVars
  <2>3. CASE \E c \in Columns, r \in Rows : Place(c, r)
    BY <2>3, PlaceCounted DEF IInv
  <2>4. CASE UNCHANGED vars
    BY <2>1, <2>4 DEF vars, boardVars, ctxVars
  <2> QED BY <2>2, <2>3, <2>4 DEF Next
<1> QED BY <1>1, InitCounted, TurnsInvariant, PTL DEF Spec

LEMMA ScratchIs ==
  ASSUME NEW rows, NEW f \in [Players -> [Columns -> BOOLEAN]],
         \A p \in Players, c \in Columns : f[p][c] <=> \E r \in rows : cells[p][c][r] = 0
  PROVE  f = RebuiltScratch(cells, rows)
<1> DEFINE g == RebuiltScratch(cells, rows)
<1>1. /\ g \in [Players -> [Columns -> BOOLEAN]]
      /\ \A p \in Players, c \in Columns : g[p][c] <=> \E r \in rows : cells[p][c][r] = 0
  BY DEF RebuiltScratch
<1> HIDE DEF g
<1>2. ASSUME NEW p \in Players
      PROVE  f[p] = g[p]
  <2>1. f[p] \in [Columns -> BOOLEAN] /\ g[p] \in [Columns -> BOOLEAN]
    BY <1>1
  <2>2. \A c \in Columns : f[p][c] <=> g[p][c]
    BY <1>1
  <2>3. \A c \in Columns : f[p][c] = g[p][c]
    BY <2>1, <2>2
  <2> QED BY <2>1, <2>3
<1>3. f = g
  BY <1>1, <1>2
<1> QED BY <1>3 DEF g

\* Boards, counters and caches keep their types (board.h, game_context.h).
THEOREM TypeCorrect == Spec => []TypeOK
<1>1. IInv /\ TInv /\ Counted => TypeOK
  <2> SUFFICES ASSUME IInv, TInv, Counted PROVE TypeOK
    OBVIOUS
  <2>1. Typed /\ Tallied
    BY DEF IInv, TInv
  <2>2. cellsFilled \in 0..TotalCells /\ nonTurbo \in [Players -> Nat]
    BY <2>1, CountsAreFinite DEF Tallied
  <2> QED BY <2>1, <2>2 DEF Typed, Counted, TypeOK
<1> QED BY <1>1, CountedInvariant, PTL

\* The sums, flags and counters that placements keep by adding are what a rebuild
\* of the context, or a count of the board, would give, also after a scratch took
\* another score away (apply_placement against rebuild_context_from_board).
THEOREM TalliesStayRebuilt == Spec => []TalliesAreRebuilt
<1>1. IInv /\ TInv /\ Counted => TalliesAreRebuilt
  <2> SUFFICES ASSUME IInv, TInv, Counted PROVE TalliesAreRebuilt
    OBVIOUS
  <2>1. /\ ssScratched \in [Players -> [Columns -> BOOLEAN]]
        /\ lsScratched \in [Players -> [Columns -> BOOLEAN]]
        /\ \A p \in Players, c \in Columns :
             /\ ssScratched[p][c] <=> cells[p][c][RowSS] = 0
             /\ lsScratched[p][c] <=> cells[p][c][RowLS] = 0
    BY DEF IInv, Typed, Sums
  <2>2. ssScratched = RebuiltScratch(cells, {RowSS})
    <3> DEFINE rows == {RowSS}
    <3>1. \A p \in Players, c \in Columns :
            ssScratched[p][c] <=> \E r \in rows : cells[p][c][r] = 0
      BY <2>1
    <3> HIDE DEF rows
    <3>2. ssScratched = RebuiltScratch(cells, rows)
      BY <2>1, <3>1, ScratchIs
    <3> QED BY <3>2 DEF rows
  <2>3. lsScratched = RebuiltScratch(cells, {RowLS})
    <3> DEFINE rows == {RowLS}
    <3>1. \A p \in Players, c \in Columns :
            lsScratched[p][c] <=> \E r \in rows : cells[p][c][r] = 0
      BY <2>1
    <3> HIDE DEF rows
    <3>2. lsScratched = RebuiltScratch(cells, rows)
      BY <2>1, <3>1, ScratchIs
    <3> QED BY <3>2 DEF rows
  <2>4. lowScratch = RebuiltScratch(cells, LowerRows)
    BY ScratchIs DEF Counted
  <2>5. upper = RebuiltUpper(cells)
    <3>1. RebuiltUpper(cells) =
            [p \in Players |-> [c \in Columns |-> SumFunction(UpperOf(cells, p, c))]]
      BY DEF RebuiltUpper, UpperOf, UpperRows
    <3>2. /\ upper \in [Players -> [Columns -> Nat]]
          /\ \A p \in Players, c \in Columns : upper[p][c] = SumFunction(UpperOf(cells, p, c))
      BY DEF Counted
    <3> QED BY <3>1, <3>2
  <2>6. nonTurbo = RebuiltNonTurbo(cells)
    <3>1. RebuiltNonTurbo(cells) = [p \in Players |-> Cardinality(EmptyNoTurbo(p))]
      BY DEF RebuiltNonTurbo, EmptyNoTurbo
    <3> QED BY <3>1 DEF TInv, Tallied
  <2>7. cellsFilled = Cardinality({x \in (Players \X Columns) \X Rows :
                                      IsFilled(cells, x[1][1], x[1][2], x[2])})
    BY DEF TInv, Tallied, AllFilled
  <2> QED BY <2>2, <2>3, <2>4, <2>5, <2>6, <2>7 DEF TalliesAreRebuilt
<1> QED BY <1>1, CountedInvariant, PTL

LEMMA BonusGrows ==
  ASSUME NEW u \in Nat, NEW s \in Nat
  PROVE  /\ UpperSectionBonus(u) \in Nat
         /\ UpperSectionBonus(u) <= UpperSectionBonus(u + s)
         /\ u >= CleanFrom => u + UpperSectionBonus(u) >= 90
<1>1. \A v \in Nat : UpperSectionBonus(v) =
         IF v >= 100 THEN 500 ELSE IF v >= 90 THEN 200 ELSE IF v >= 80 THEN 100
         ELSE IF v >= 70 THEN 50 ELSE IF v >= 60 THEN 30 ELSE 0
  BY DEF UpperSectionBonus
<1> QED BY <1>1 DEF CleanFrom

\* A clean column has at least the 60 points of its number rows and their bonus.
LEMMA ColumnIs ==
  ASSUME Typed, Counted, NEW p \in Players, NEW c \in Columns
  PROVE  /\ RawColumn(p, c) \in Nat
         /\ IsClean(p, c) \in BOOLEAN
         /\ IsClean(p, c) => RawColumn(p, c) >= 90
<1> DEFINE u == upper[p][c]
           all == SumFunction(PointsOf(cells, p, c))
<1>1. cells \in Boards
  BY DEF Typed, Boards
<1>2. /\ UpperOf(cells, p, c) \in [UpperRows -> Nat]
      /\ PointsOf(cells, p, c) \in [Rows -> Nat]
      /\ \A r \in UpperRows : UpperOf(cells, p, c)[r] = PointsOf(cells, p, c)[r]
  BY <1>1, WorthOfCells
<1>3. SumFunction(UpperOf(cells, p, c)) <= all
  BY <1>2, UpperAreRows, PartAtMostWhole
<1>4. all \in Nat
  BY <1>2, UpperAreRows, SumIsNat
<1>5. u \in Nat /\ u <= all
  BY <1>3 DEF Counted
<1>6. RawColumn(p, c) = all + UpperSectionBonus(u)
  BY DEF RawColumn, PointsOf
<1>7. IsClean(p, c) <=> u >= CleanFrom /\ ~lowScratch[p][c]
  BY DEF IsClean
<1> HIDE DEF u, all
<1>8. UpperSectionBonus(u) \in Nat /\ (u >= CleanFrom => u + UpperSectionBonus(u) >= 90)
  BY <1>5, BonusGrows
<1>9. RawColumn(p, c) \in Nat
  BY <1>4, <1>6, <1>8
<1>10. u >= CleanFrom => RawColumn(p, c) >= 90
  BY <1>4, <1>5, <1>6, <1>8
<1>11. IsClean(p, c) \in BOOLEAN
  BY DEF IsClean
<1> QED BY <1>7, <1>9, <1>10, <1>11

\* What a score above 0 makes of the mover's column, and of no other.
LEMMA ColumnAfterScore ==
  ASSUME Typed, Opening, Counted, NEW c \in Columns, NEW r \in Rows, Place(c, r),
         PlacedScore(c, r) > 0, NEW p \in Players
  PROVE  /\ p # mover => RawColumn(p, c)' = RawColumn(p, c) /\ IsClean(p, c)' = IsClean(p, c)
         /\ p = mover => /\ RawColumn(p, c)' \in Nat /\ RawColumn(p, c) < RawColumn(p, c)'
                         /\ IsClean(p, c)' \in BOOLEAN
                         /\ IsClean(p, c) => IsClean(p, c)'
<1> DEFINE s == PlacedScore(c, r)
           f == PointsOf(cells, p, c)
           g == PointsOf(cells', p, c)
<1>1. cells \in Boards /\ cells' \in Boards
  BY PlaceWrites DEF Typed, Boards
<1>2. s \in 1..100 /\ ~Destroys(mover, c, r, s)
  BY PlacedCounts DEF Destroys
<1>3. /\ f \in [Rows -> Nat] /\ g \in [Rows -> Nat]
      /\ \A q \in Rows : /\ f[q] = IF cells[p][c][q] > 0 THEN cells[p][c][q] ELSE 0
                         /\ g[q] = IF cells'[p][c][q] > 0 THEN cells'[p][c][q] ELSE 0
  BY <1>1, WorthOfCells
<1>4. /\ \A q \in Rows : cells'[p][c][q] = IF p = mover /\ q = r THEN s ELSE cells[p][c][q]
      /\ cells[mover][c][r] = -1
  BY <1>2, PlaceWrites
<1>5. /\ RawColumn(p, c) = SumFunction(f) + UpperSectionBonus(upper[p][c])
      /\ RawColumn(p, c)' = SumFunction(g) + UpperSectionBonus(upper'[p][c])
  BY DEF RawColumn, PointsOf
<1>6. /\ IsClean(p, c) <=> upper[p][c] >= CleanFrom /\ ~lowScratch[p][c]
      /\ IsClean(p, c)' <=> upper'[p][c] >= CleanFrom /\ ~lowScratch'[p][c]
      /\ IsClean(p, c) \in BOOLEAN /\ IsClean(p, c)' \in BOOLEAN
  BY DEF IsClean
<1>7. /\ upper[p][c] \in Nat
      /\ upper'[p][c] = upper[p][c] + (IF p = mover /\ r <= Row6s THEN s ELSE 0)
      /\ lowScratch'[p][c] <=> lowScratch[p][c]
  <2>1. Counted'
    BY PlaceCounted
  <2>2. /\ upper[p][c] = SumFunction(UpperOf(cells, p, c)) /\ upper[p][c] \in Nat
        /\ upper'[p][c] = SumFunction(UpperOf(cells', p, c))
    BY <2>1 DEF Counted
  <2>3. upper'[p][c] = upper[p][c] + (IF p = mover /\ r <= Row6s THEN s ELSE 0)
    BY <2>2, UpperAfter
  <2>4. lowScratch' = [lowScratch EXCEPT ![mover][c] = @ \/ (r >= RowSS /\ s = 0)]
    BY DEF Place, ApplyPlacement
  <2>5. lowScratch \in [Players -> [Columns -> BOOLEAN]] /\ mover \in Players
    BY DEF Counted, Typed
  <2> HIDE DEF s
  <2>6. lowScratch'[p][c] <=> lowScratch[p][c]
    BY <1>2, <2>4, <2>5
  <2> QED BY <2>2, <2>3, <2>6
<1> HIDE DEF f, g, s
<1>8. CASE p # mover
  <2>1. g = f
    BY <1>3, <1>4, <1>8
  <2>2. upper'[p][c] = upper[p][c]
    BY <1>7, <1>8
  <2> QED BY <1>5, <1>6, <1>7, <1>8, <2>1, <2>2
<1>9. CASE p = mover
  <2>1. \A q \in Rows : q # r => g[q] = f[q]
    BY <1>3, <1>4, <1>9
  <2>2. g[r] = s /\ f[r] = 0
    BY <1>2, <1>3, <1>4, <1>9
  <2>3. f \in [Rows -> Int] /\ g \in [Rows -> Int]
    BY <1>3
  <2>4. SumFunction(g) = SumFunction(f) + (g[r] - f[r])
    BY <2>1, <2>3, UpperAreRows, SumChanges
  <2>5. SumFunction(f) \in Nat /\ SumFunction(g) = SumFunction(f) + s
    BY <1>2, <1>3, <2>2, <2>4, UpperAreRows, SumIsNat
  <2> DEFINE more == IF r <= Row6s THEN s ELSE 0
             u == upper[p][c]
  <2>6. more \in Nat /\ u \in Nat /\ upper'[p][c] = u + more
    BY <1>2, <1>7, <1>9
  <2> HIDE DEF more, u
  <2>7. /\ UpperSectionBonus(u) \in Nat /\ UpperSectionBonus(u + more) \in Nat
        /\ UpperSectionBonus(u) <= UpperSectionBonus(u + more)
    <3>1. u + more \in Nat
      BY <2>6
    <3> QED BY <2>6, <3>1, BonusGrows
  <2>8. /\ RawColumn(p, c) = SumFunction(f) + UpperSectionBonus(u)
        /\ RawColumn(p, c)' = (SumFunction(f) + s) + UpperSectionBonus(u + more)
    BY <1>5, <2>5, <2>6 DEF u
  <2>9. RawColumn(p, c)' \in Nat /\ RawColumn(p, c) < RawColumn(p, c)'
    BY <1>2, <2>5, <2>7, <2>8
  <2>10. IsClean(p, c) => IsClean(p, c)'
    BY <1>6, <1>7, <2>6 DEF u, CleanFrom
  <2> QED BY <1>6, <1>9, <2>9, <2>10
<1> QED BY <1>8, <1>9

LEMMA TeamsAreFinite ==
  /\ IsFiniteSet(Team(0) \X Team(1))
  /\ Team(0) \subseteq Players /\ Team(1) \subseteq Players
  /\ Team(0) \cap Team(1) = {}
  /\ Players = Team(0) \union Team(1)
<1>1. Team(0) \subseteq Players /\ Team(1) \subseteq Players /\ Team(0) \cap Team(1) = {}
  BY DEF Team
<1>2. \A p \in Players : p % 2 = 0 \/ p % 2 = 1
  BY DEF Players
<1>3. Players = Team(0) \union Team(1)
  BY <1>2 DEF Team
<1>4. IsFiniteSet(Team(0)) /\ IsFiniteSet(Team(1))
  BY <1>1, SheetIsFinite, FS_Subset
<1> QED BY <1>1, <1>3, <1>4, FS_Product

Pairing(x, c) == PairingPoints(RawColumn(x[1], c), IsClean(x[1], c),
                               RawColumn(x[2], c), IsClean(x[2], c))

LEMMA PointsAreInt ==
  ASSUME NEW a \in Nat, NEW ca \in BOOLEAN, NEW b \in Nat, NEW cb \in BOOLEAN
  PROVE  PairingPoints(a, ca, b, cb) \in Int
<1>1. ActiveCrush(a, b) \in 1..5
  BY ActiveCrushSymmetric
<1>2. ActiveCrush(a, b) = 1 \/ ActiveCrush(a, b) = 2 \/ ActiveCrush(a, b) = 3
        \/ ActiveCrush(a, b) = 4 \/ ActiveCrush(a, b) = 5
  BY <1>1
<1> QED BY <1>2, PointsAre

\* One pairing of the column a score was written in.
LEMMA PairingAfterScore ==
  ASSUME Typed, Opening, Counted, NEW c \in Columns, NEW r \in Rows, Place(c, r),
         PlacedScore(c, r) > 0, NEW p \in Team(0), NEW q \in Team(1)
  PROVE  LET x == <<p, q>>
         IN  /\ Pairing(x, c) \in Int /\ Pairing(x, c)' \in Int
             /\ mover \in Team(0) => Pairing(x, c) <= Pairing(x, c)'
             /\ mover \notin Team(0) => Pairing(x, c)' <= Pairing(x, c)
<1> DEFINE a == RawColumn(p, c)
           ca == IsClean(p, c)
           b == RawColumn(q, c)
           cb == IsClean(q, c)
           a2 == RawColumn(p, c)'
           ca2 == IsClean(p, c)'
           b2 == RawColumn(q, c)'
           cb2 == IsClean(q, c)'
<1>1. p \in Players /\ q \in Players /\ mover \in Players
  BY TeamsAreFinite DEF Typed
<1>2. /\ a \in Nat /\ ca \in BOOLEAN /\ (ca => a >= 90)
      /\ b \in Nat /\ cb \in BOOLEAN /\ (cb => b >= 90)
  BY <1>1, ColumnIs
<1>3. /\ p # mover => a2 = a /\ ca2 = ca
      /\ p = mover => a2 \in Nat /\ a < a2 /\ ca2 \in BOOLEAN /\ (ca => ca2)
  BY <1>1, ColumnAfterScore
<1>4. /\ q # mover => b2 = b /\ cb2 = cb
      /\ q = mover => b2 \in Nat /\ b < b2 /\ cb2 \in BOOLEAN /\ (cb => cb2)
  BY <1>1, ColumnAfterScore
<1>5. /\ Pairing(<<p, q>>, c) = PairingPoints(a, ca, b, cb)
      /\ Pairing(<<p, q>>, c)' = PairingPoints(a2, ca2, b2, cb2)
  BY DEF Pairing
<1>6. p # q /\ (mover \in Team(0) <=> mover \notin Team(1))
  BY <1>1, TeamsAreFinite
<1> HIDE DEF a, ca, b, cb, a2, ca2, b2, cb2
<1>7. CASE p = mover
  <2>1. b2 = b /\ cb2 = cb /\ mover \in Team(0)
    BY <1>4, <1>6, <1>7
  <2>2. a2 \in Nat /\ a < a2 /\ ca2 \in BOOLEAN /\ (ca => ca2)
    BY <1>3, <1>7
  <2>3. PairingPoints(a, ca, b, cb) <= PairingPoints(a2, ca2, b, cb)
    BY <1>2, <2>2, PointsNeverDrop
  <2>4. PairingPoints(a, ca, b, cb) \in Int /\ PairingPoints(a2, ca2, b, cb) \in Int
    BY <1>2, <2>2, PointsAreInt
  <2> QED BY <1>5, <2>1, <2>3, <2>4
<1>8. CASE q = mover
  <2>1. a2 = a /\ ca2 = ca /\ mover \notin Team(0)
    BY <1>3, <1>6, <1>8
  <2>2. b2 \in Nat /\ b < b2 /\ cb2 \in BOOLEAN /\ (cb => cb2)
    BY <1>4, <1>8
  <2>3. PairingPoints(b, cb, a, ca) <= PairingPoints(b2, cb2, a, ca)
    BY <1>2, <2>2, PointsNeverDrop
  <2>4. /\ PairingPoints(a, ca, b, cb) = -PairingPoints(b, cb, a, ca)
        /\ PairingPoints(a, ca, b2, cb2) = -PairingPoints(b2, cb2, a, ca)
    BY <1>2, <2>2, PairingIsZeroSum
  <2>5. PairingPoints(b, cb, a, ca) \in Int /\ PairingPoints(b2, cb2, a, ca) \in Int
    BY <1>2, <2>2, PointsAreInt
  <2>6. /\ PairingPoints(a, ca, b, cb) \in Int /\ PairingPoints(a, ca, b2, cb2) \in Int
        /\ PairingPoints(a, ca, b2, cb2) <= PairingPoints(a, ca, b, cb)
    BY <2>3, <2>4, <2>5
  <2> QED BY <1>5, <2>1, <2>6
<1>9. CASE p # mover /\ q # mover
  <2>1. a2 = a /\ ca2 = ca /\ b2 = b /\ cb2 = cb
    BY <1>3, <1>4, <1>9
  <2>2. PairingPoints(a, ca, b, cb) \in Int
    BY <1>2, PointsAreInt
  <2> QED BY <1>5, <2>1, <2>2
<1> QED BY <1>7, <1>8, <1>9

\* A score above 0 is never a loss to the team that writes it, on any sheet and
\* for any number of players: in every pairing of its column it raises the raw
\* score and keeps the column clean, and whatever this does to the crush of
\* either side and to the value of the clean bonus, the margin does not drop
\* (compute_duel_columns, duel.cc:63-97).
THEOREM ScoreNeverHurtsHolds == Spec => ScoreNeverHurts
<1>1. IInv /\ TInv /\ Counted /\ [Next]_vars =>
        [\A c \in Columns :
           (\E r \in Rows : cells'[mover][c][r] > 0 /\ cells'[mover][c][r] > cells[mover][c][r])
             => IF mover \in Team(0) THEN ColumnMargin(c)' >= ColumnMargin(c)
                                      ELSE ColumnMargin(c)' <= ColumnMargin(c)]_vars
  <2> SUFFICES ASSUME IInv, Counted, [Next]_vars, NEW c \in Columns, NEW w \in Rows,
                      cells'[mover][c][w] > 0, cells'[mover][c][w] > cells[mover][c][w]
               PROVE  IF mover \in Team(0) THEN ColumnMargin(c)' >= ColumnMargin(c)
                                            ELSE ColumnMargin(c)' <= ColumnMargin(c)
    OBVIOUS
  <2>1. Typed /\ Opening
    BY DEF IInv
  <2>2. cells[mover][c][w] \in -1..100 /\ cells' # cells
    <3>1. cells[mover][c][w] \in -1..100
      BY <2>1 DEF Typed
    <3> QED BY <3>1
  <2>3. PICK d \in Columns, r \in Rows : Place(d, r)
    BY <2>2 DEF Next, Reroll, vars, boardVars
  <2>4. d = c /\ PlacedScore(c, r) > 0
    <3>1. mover \in Players
      BY <2>1 DEF Typed
    <3>2. cells'[mover][c][w] =
            IF c = d
            THEN IF w = r THEN PlacedScore(d, r)
                 ELSE IF w = Partner(r) /\ Destroys(mover, d, r, PlacedScore(d, r)) THEN 0
                 ELSE cells[mover][d][w]
            ELSE cells[mover][c][w]
      BY <2>1, <2>3, <3>1, PlaceWrites
    <3>3. cells'[mover][c][w] # cells[mover][c][w] /\ cells'[mover][c][w] # 0
      BY <2>2
    <3>4. c = d /\ w = r /\ cells'[mover][c][w] = PlacedScore(d, r)
      BY <3>2, <3>3
    <3> QED BY <3>4
  <2> DEFINE pairs == Team(0) \X Team(1)
             f == [x \in pairs |-> Pairing(x, c)]
             g == [x \in pairs |-> Pairing(x, c)']
  <2>5. ASSUME NEW x \in pairs
        PROVE  /\ Pairing(x, c) \in Int /\ Pairing(x, c)' \in Int
               /\ mover \in Team(0) => Pairing(x, c) <= Pairing(x, c)'
               /\ mover \notin Team(0) => Pairing(x, c)' <= Pairing(x, c)
    <3>1. PICK p \in Team(0), q \in Team(1) : x = <<p, q>>
      OBVIOUS
    <3>2. Place(c, r)
      BY <2>3, <2>4
    <3> QED BY <2>1, <2>4, <3>1, <3>2, PairingAfterScore
  <2>6. ColumnMargin(c) = SumFunction(f) /\ ColumnMargin(c)' = SumFunction(g)
    BY DEF ColumnMargin, Pairing, Team, Players
  <2>7. /\ f \in [pairs -> Int] /\ g \in [pairs -> Int]
        /\ mover \in Team(0) => \A x \in pairs : f[x] <= g[x]
        /\ mover \notin Team(0) => \A x \in pairs : g[x] <= f[x]
    BY <2>5
  <2>8. IsFiniteSet(pairs)
    BY TeamsAreFinite
  <2> HIDE DEF pairs, f, g
  <2>9. /\ mover \in Team(0) => SumFunction(f) <= SumFunction(g)
        /\ mover \notin Team(0) => SumFunction(g) <= SumFunction(f)
    BY <2>7, <2>8, SumGrows
  <2> QED BY <2>6, <2>9
<1> QED BY <1>1, CountedInvariant, PTL DEF Spec, ScoreNeverHurts


-----------------------------------------------------------------------------
(* Mid and UpDown columns: the filled cells are one run around the sheet.    *)

\* The filled cells run from u down to v, over the sheet's end when v is above u.
RunsFromTo(b, p, c, u, v) ==
  \A q \in Rows :
    IsFilled(b, p, c, q) <=> IF u <= v THEN u <= q /\ q <= v ELSE u <= q \/ q <= v

IsOneRun(b, p, c) ==
  c \in {"Mid", "UpDown"} =>
    IsUntouched(b, p, c) \/ \E u, v \in Rows : RunsFromTo(b, p, c, u, v)

OneRuns == \A p \in Players, c \in Columns : IsOneRun(cells, p, c)

\* A cell next to the run makes it longer at one end.
LEMMA RunGrows ==
  ASSUME NEW a, NEW b, NEW p, NEW c, NEW r \in Rows, NEW u \in Rows, NEW v \in Rows,
         FillsOne(a, b, p, c, r), RunsFromTo(a, p, c, u, v), HasFilledNeighbor(a, p, c, r)
  PROVE  RunsFromTo(b, p, c, r, v) \/ RunsFromTo(b, p, c, u, r)
<1>1. NumRows \in Nat /\ Rows = 0..(NumRows - 1) /\ Before(r) \in Rows /\ After(r) \in Rows
  BY SheetFacts DEF Rows, Before, After
<1>2. CASE IsFilled(a, p, c, After(r))
  <2>1. CASE r = NumRows - 1
    BY <1>1, <1>2, <2>1 DEF RunsFromTo, FillsOne, After
  <2>2. CASE r # NumRows - 1
    BY <1>1, <1>2, <2>2 DEF RunsFromTo, FillsOne, After
  <2> QED BY <2>1, <2>2
<1>3. CASE IsFilled(a, p, c, Before(r))
  <2>1. CASE r = 0
    BY <1>1, <1>3, <2>1 DEF RunsFromTo, FillsOne, Before
  <2>2. CASE r # 0
    BY <1>1, <1>3, <2>2 DEF RunsFromTo, FillsOne, Before
  <2> QED BY <2>1, <2>2
<1> QED BY <1>2, <1>3 DEF HasFilledNeighbor

LEMMA OneRunAfter ==
  ASSUME NEW a, NEW b, NEW p, NEW c \in Columns, NEW r \in Rows,
         FillsOne(a, b, p, c, r), IsOneRun(a, p, c), IsColumnLegal(a, p, c, r)
  PROVE  IsOneRun(b, p, c)
<1> SUFFICES ASSUME c \in {"Mid", "UpDown"}
             PROVE  \E u, v \in Rows : RunsFromTo(b, p, c, u, v)
  BY DEF IsOneRun
<1>1. CASE IsUntouched(a, p, c)
  <2>1. RunsFromTo(b, p, c, r, r)
    BY <1>1, SheetFacts DEF RunsFromTo, IsUntouched, FillsOne, Rows
  <2> QED BY <2>1
<1>2. CASE ~IsUntouched(a, p, c)
  <2>1. HasFilledNeighbor(a, p, c, r)
    BY <1>2 DEF IsColumnLegal
  <2>2. PICK u \in Rows, v \in Rows : RunsFromTo(a, p, c, u, v)
    BY <1>2 DEF IsOneRun
  <2> QED BY <2>1, <2>2, RunGrows
<1> QED BY <1>1, <1>2

LEMMA OneRunsStay ==
  ASSUME Typed, Opening, OneRuns, NEW c \in Columns, NEW r \in Rows, Place(c, r)
  PROVE  OneRuns'
<1> SUFFICES ASSUME NEW o \in Players, NEW d \in Columns PROVE IsOneRun(cells', o, d)
  BY DEF OneRuns, IsOneRun, RunsFromTo, IsUntouched, IsFilled
<1>1. CASE o = mover /\ d = c
  BY <1>1, PlaceFills, OneRunAfter DEF OneRuns, IsOpen
<1>2. CASE o # mover \/ d # c
  <2>1. \A q \in Rows : IsFilled(cells', o, d, q) <=> IsFilled(cells, o, d, q)
    BY <1>2, PlaceFills
  <2> QED BY <2>1 DEF OneRuns, IsOneRun, RunsFromTo, IsUntouched
<1> QED BY <1>1, <1>2

\* At most one cell is open at each end of a run.
LEMMA RunEnds ==
  ASSUME NEW b, NEW p, NEW c, NEW q \in Rows, NEW u \in Rows, NEW v \in Rows,
         RunsFromTo(b, p, c, u, v), ~IsFilled(b, p, c, q), HasFilledNeighbor(b, p, c, q)
  PROVE  q \in {Before(u), After(v)}
<1>1. NumRows \in Nat /\ Rows = 0..(NumRows - 1) /\ Before(q) \in Rows /\ After(q) \in Rows
  BY SheetFacts DEF Rows, Before, After
<1>2. CASE IsFilled(b, p, c, After(q))
  BY <1>1, <1>2 DEF RunsFromTo, After, Before
<1>3. CASE IsFilled(b, p, c, Before(q))
  BY <1>1, <1>3 DEF RunsFromTo, After, Before
<1> QED BY <1>2, <1>3 DEF HasFilledNeighbor

LEMMA TwoOfAny ==
  ASSUME NEW S, NEW x, NEW y, S \subseteq {x, y}
  PROVE  Cardinality(S) <= 2
<1>1. IsFiniteSet({x}) /\ Cardinality({x}) = 1
  BY FS_Singleton
<1>2. IsFiniteSet({x} \cup {y}) /\ Cardinality({x} \cup {y}) \in {1, 2}
  BY <1>1, FS_AddElement
<1>3. S \in SUBSET ({x} \cup {y})
  OBVIOUS
<1>4. IsFiniteSet(S) /\ Cardinality(S) <= Cardinality({x} \cup {y})
  BY <1>2, <1>3, FS_Subset
<1>5. Cardinality(S) \in Nat
  BY <1>4, FS_CardinalityType
<1> DEFINE n == Cardinality({x} \cup {y})
<1>6. n \in {1, 2} /\ Cardinality(S) <= n
  BY <1>2, <1>4
<1> HIDE DEF n
<1> QED BY <1>5, <1>6

\* However long the game, a Mid column, and an UpDown column once begun
\* (is_column_legal, legal_moves.cc), has at most two open cells: the ends of the
\* one run around the sheet that its filled cells form.
THEOREM AtMostTwoStayOpen == Spec => []AtMostTwoOpen
<1>1. Init => OneRuns
  BY DEF Init, OneRuns, IsOneRun, IsUntouched, IsFilled
<1>2. IInv /\ OneRuns /\ [Next]_vars => OneRuns'
  <2> SUFFICES ASSUME IInv, OneRuns, [Next]_vars PROVE OneRuns'
    OBVIOUS
  <2>1. CASE UNCHANGED cells
    BY <2>1 DEF OneRuns, IsOneRun, RunsFromTo, IsUntouched, IsFilled
  <2>2. CASE \E c \in Columns, r \in Rows : Place(c, r)
    BY <2>2, OneRunsStay DEF IInv
  <2> QED BY <2>1, <2>2 DEF Next, Reroll, vars, boardVars
<1>3. IInv /\ OneRuns => AtMostTwoOpen
  <2> SUFFICES ASSUME IInv, OneRuns, NEW p \in Players,
                      NEW c \in Columns \cap {"Mid", "UpDown"},
                      c = "Mid" \/ ~IsUntouched(cells, p, c)
               PROVE  Cardinality({x \in legalAll[p] : x[1] = c}) <= 2
    BY DEF AtMostTwoOpen
  <2> DEFINE open == {x \in legalAll[p] : x[1] = c}
  <2>1. \A x \in open : /\ x = <<c, x[2]>> /\ x[2] \in Rows
                        /\ IsOpen(cells, p, c, x[2])
    <3> SUFFICES ASSUME NEW x \in open
                 PROVE  x = <<c, x[2]>> /\ x[2] \in Rows /\ IsOpen(cells, p, c, x[2])
      OBVIOUS
    <3>1. x \in RebuiltLegal(cells, p) /\ x[1] = c
      BY DEF IInv, Opening, LegalIsRebuilt
    <3>2. x = <<c, x[2]>> /\ x[2] \in Rows
      BY <3>1 DEF RebuiltLegal
    <3> QED BY <3>1, <3>2, RebuiltLegalAt
  <2> HIDE DEF open
  <2>2. CASE IsUntouched(cells, p, c)
    <3>1. \A x \in open : x[2] \in {Row6s, RowSS}
      BY <2>1, <2>2 DEF IsOpen, IsColumnLegal
    <3>2. open \subseteq {<<c, Row6s>>, <<c, RowSS>>}
      BY <2>1, <3>1
    <3> QED BY <3>2, TwoOfAny DEF open
  <2>3. CASE ~IsUntouched(cells, p, c)
    <3>1. PICK u \in Rows, v \in Rows : RunsFromTo(cells, p, c, u, v)
      BY <2>3 DEF OneRuns, IsOneRun
    <3>2. \A x \in open : x[2] \in {Before(u), After(v)}
      <4> SUFFICES ASSUME NEW x \in open PROVE x[2] \in {Before(u), After(v)}
        OBVIOUS
      <4>1. HasFilledNeighbor(cells, p, c, x[2]) /\ ~IsFilled(cells, p, c, x[2])
        BY <2>1, <2>3 DEF IsOpen, IsColumnLegal
      <4> QED BY <2>1, <3>1, <4>1, RunEnds
    <3>3. open \subseteq {<<c, Before(u)>>, <<c, After(v)>>}
      BY <2>1, <3>2
    <3> QED BY <3>3, TwoOfAny DEF open
  <2> QED BY <2>2, <2>3
<1> QED BY <1>1, <1>2, <1>3, IInvHolds, PTL DEF Spec
=============================================================================
