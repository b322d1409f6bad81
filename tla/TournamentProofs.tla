--------------------------- MODULE TournamentProofs ---------------------------
(***************************************************************************)
(* Theorems about the tournament manager, for any handlers, any crew, any  *)
(* requests and any number of tournaments, as long as no two starts        *)
(* overlap: the table is that of the games played, a tournament that       *)
(* nobody stopped plays to its end, and no start ends the server.          *)
(***************************************************************************)
EXTENDS Tournament, FiniteSetTheorems, NaturalsInduction, WellFoundedInduction, TLAPS

-----------------------------------------------------------------------------
(* Least elements.                                                         *)

NatLess == {x \in Nat \X Nat : x[1] < x[2]}

LEMMA NatLessWF == IsWellFoundedOn(NatLess, Nat)
  BY NatLessThanWellFounded DEF OpToRel, NatLess

LEMMA LeastNatural ==
  ASSUME NEW T, T \subseteq Nat, T # {}
  PROVE  \E t \in T : \A u \in T : t <= u
<1>1. PICK t \in T : \A u \in T : ~(<<u, t>> \in NatLess)
  BY NatLessWF, WFMin
<1>2. \A u \in T : t <= u
  <2> SUFFICES ASSUME NEW u \in T PROVE t <= u
    OBVIOUS
  <2>1. u \in Nat /\ t \in Nat /\ ~(<<u, t>> \in NatLess)
    BY <1>1
  <2>2. ~(u < t)
    BY <2>1 DEF NatLess
  <2> QED BY <2>1, <2>2
<1> QED BY <1>2

-----------------------------------------------------------------------------
(* Flat sequences: the task list.                                          *)

\* f is the sequence of what is flat of seqs after its first i parts.
Flattens(f, seqs, n) ==
  f = [i \in 1 .. n |-> IF i = 1 THEN seqs[i] ELSE f[i - 1] \o seqs[i]]

LEMMA FlatExists ==
  ASSUME NEW seqs, NEW n \in Nat \ {0}
  PROVE  \E f : Flattens(f, seqs, n)
<1> DEFINE Bad == {k \in Nat : k > 0 /\ ~ \E f : Flattens(f, seqs, k)}
<1>1. CASE Bad # {}
  <2> DEFINE S == Bad
  <2>1. S \subseteq Nat /\ S # {}
    BY <1>1
  <2> HIDE DEF S
  <2>2. PICK k \in S : \A u \in S : k <= u
    BY <2>1, LeastNatural
  <2>3. k \in Nat \ {0} /\ ~ \E f : Flattens(f, seqs, k)
    BY <2>2 DEF S
  <2>4. CASE k = 1
    <3> DEFINE f == [i \in 1 .. 1 |-> seqs[i]]
    <3>1. Flattens(f, seqs, 1)
      BY DEF Flattens
    <3> QED BY <2>3, <2>4, <3>1
  <2>5. CASE k # 1
    <3>1. k - 1 \in Nat \ {0} /\ k - 1 \notin S
      BY <2>2, <2>3, <2>5
    <3>2. PICK f : Flattens(f, seqs, k - 1)
      BY <3>1 DEF S
    <3> DEFINE h == [i \in 1 .. k |-> IF i = k THEN f[k - 1] \o seqs[k] ELSE f[i]]
    <3>3. ASSUME NEW i \in 1 .. k
          PROVE  h[i] = IF i = 1 THEN seqs[i] ELSE h[i - 1] \o seqs[i]
      <4>1. CASE i = k
        <5>1. k - 1 \in 1 .. k /\ k - 1 # k
          BY <2>3, <3>1
        <5>2. h[k - 1] = f[k - 1]
          BY <5>1
        <5> QED BY <2>5, <4>1, <5>2
      <4>2. CASE i # k
        <5>1. i \in 1 .. k - 1 /\ h[i] = f[i]
          BY <2>3, <4>2
        <5>2. f[i] = IF i = 1 THEN seqs[i] ELSE f[i - 1] \o seqs[i]
          BY <3>2, <5>1 DEF Flattens
        <5>3. i # 1 => i - 1 \in 1 .. k /\ i - 1 # k
          BY <2>3, <5>1
        <5>4. i # 1 => h[i - 1] = f[i - 1]
          BY <5>3
        <5> QED BY <5>1, <5>2, <5>4
      <4> QED BY <4>1, <4>2
    <3> DEFINE e == [i \in 1 .. k |-> IF i = 1 THEN seqs[i] ELSE h[i - 1] \o seqs[i]]
    <3>4. DOMAIN h = 1 .. k /\ DOMAIN e = 1 .. k /\ \A i \in 1 .. k : h[i] = e[i]
      BY <3>3
    <3>5. h = e
      BY <3>4
    <3>6. Flattens(h, seqs, k)
      BY <3>5 DEF Flattens
    <3> QED BY <2>3, <3>6
  <2> QED BY <2>4, <2>5
<1>2. CASE Bad = {}
  BY <1>2
<1> QED BY <1>1, <1>2

LEMMA FlatIs ==
  ASSUME NEW seqs, Len(seqs) \in Nat \ {0}
  PROVE  \E f : Flattens(f, seqs, Len(seqs)) /\ FlattenSeq(seqs) = f[Len(seqs)]
<1> DEFINE n == Len(seqs)
           h == CHOOSE flatten : flatten =
                  [i \in 1 .. n |-> IF i = 1 THEN seqs[i] ELSE flatten[i - 1] \o seqs[i]]
<1>1. \E f : f = [i \in 1 .. n |-> IF i = 1 THEN seqs[i] ELSE f[i - 1] \o seqs[i]]
  BY FlatExists DEF Flattens
<1>2. h = [i \in 1 .. n |-> IF i = 1 THEN seqs[i] ELSE h[i - 1] \o seqs[i]]
  BY <1>1
<1>3. FlattenSeq(seqs) = h[n]
  BY DEF FlattenSeq
<1> QED BY <1>2, <1>3 DEF Flattens

\* What is flat of pairwise disjoint sequences without repetition is one of
\* their elements, without repetition, as long as they are together.
Apart(seqs, T, len) ==
  /\ Len(seqs) \in Nat \ {0}
  /\ \A i \in 1 .. Len(seqs) : seqs[i] \in Seq(T)
  /\ \A i \in 1 .. Len(seqs) : \A x, y \in 1 .. Len(seqs[i]) :
       seqs[i][x] = seqs[i][y] => x = y
  /\ \A i, j \in 1 .. Len(seqs) : i # j =>
       \A x \in 1 .. Len(seqs[i]), y \in 1 .. Len(seqs[j]) : seqs[i][x] # seqs[j][y]
  /\ len[0] = 0
  /\ \A i \in 1 .. Len(seqs) : len[i] = len[i - 1] + Len(seqs[i])

Flat(s, seqs, T, len) ==
  /\ s \in Seq(T) /\ Len(s) = len[Len(seqs)]
  /\ \A x \in 1 .. Len(s) :
       \E i \in 1 .. Len(seqs) : \E y \in 1 .. Len(seqs[i]) : s[x] = seqs[i][y]
  /\ \A x, y \in 1 .. Len(s) : s[x] = s[y] => x = y

LEMMA FlatOfApart ==
  ASSUME NEW seqs, NEW T, NEW len, Apart(seqs, T, len)
  PROVE  Flat(FlattenSeq(seqs), seqs, T, len)
<1>0. /\ Len(seqs) \in Nat \ {0}
      /\ \A i \in 1 .. Len(seqs) : seqs[i] \in Seq(T)
      /\ \A i \in 1 .. Len(seqs) : \A x, y \in 1 .. Len(seqs[i]) :
            seqs[i][x] = seqs[i][y] => x = y
      /\ \A i, j \in 1 .. Len(seqs) : i # j =>
            \A x \in 1 .. Len(seqs[i]), y \in 1 .. Len(seqs[j]) : seqs[i][x] # seqs[j][y]
      /\ len[0] = 0
      /\ \A i \in 1 .. Len(seqs) : len[i] = len[i - 1] + Len(seqs[i])
  BY DEF Apart
<1> DEFINE n == Len(seqs)
<1>1. PICK f : Flattens(f, seqs, n) /\ FlattenSeq(seqs) = f[n]
  BY <1>0, FlatIs
<1> DEFINE Good(k) ==
      /\ f[k] \in Seq(T) /\ Len(f[k]) = len[k]
      /\ \A x \in 1 .. Len(f[k]) :
           \E i \in 1 .. k : \E y \in 1 .. Len(seqs[i]) : f[k][x] = seqs[i][y]
      /\ \A x, y \in 1 .. Len(f[k]) : f[k][x] = f[k][y] => x = y
    Bad == {k \in 1 .. n : ~Good(k)}
<1> HIDE DEF Good
<1>2. n \in Nat \ {0}
  BY <1>0
<1>3. \A i \in 1 .. n : f[i] = IF i = 1 THEN seqs[i] ELSE f[i - 1] \o seqs[i]
  BY <1>1 DEF Flattens
<1>4. CASE Bad # {}
  <2> DEFINE S == Bad
  <2>1. S \subseteq Nat /\ S # {}
    BY <1>4
  <2> HIDE DEF S
  <2>2. PICK k \in S : \A u \in S : k <= u
    BY <2>1, LeastNatural
  <2>3. k \in 1 .. n /\ ~Good(k)
    BY <2>2 DEF S
  <2>4. CASE k = 1
    <3>1. f[1] = seqs[1] /\ 1 \in 1 .. n
      BY <1>2, <1>3
    <3>2. len[1] = len[0] + Len(seqs[1]) /\ Len(seqs[1]) \in Nat
      BY <1>0, <3>1
    <3>3. Len(f[1]) = len[1]
      BY <1>0, <3>1, <3>2
    <3>4. \A x \in 1 .. Len(f[1]) :
           \E i \in 1 .. 1 : \E y \in 1 .. Len(seqs[i]) : f[1][x] = seqs[i][y]
      BY <3>1
    <3>5. Good(1)
      BY <1>0, <3>1, <3>3, <3>4 DEF Good
    <3> QED BY <2>3, <2>4, <3>5
  <2>5. CASE k # 1
    <3>1. k - 1 \in 1 .. n /\ k - 1 \notin S
      BY <2>2, <2>3, <2>5
    <3>2. Good(k - 1)
      BY <3>1 DEF S
    <3>15. /\ f[k - 1] \in Seq(T) /\ Len(f[k - 1]) = len[k - 1]
           /\ \A x \in 1 .. Len(f[k - 1]) :
                \E i \in 1 .. k - 1 : \E y \in 1 .. Len(seqs[i]) : f[k - 1][x] = seqs[i][y]
           /\ \A x, y \in 1 .. Len(f[k - 1]) : f[k - 1][x] = f[k - 1][y] => x = y
      BY <3>2 DEF Good
    <3> DEFINE p == f[k - 1]
               q == seqs[k]
    <3>3. f[k] = p \o q /\ p \in Seq(T) /\ q \in Seq(T) /\ Len(p) = len[k - 1]
      BY <1>0, <1>3, <2>3, <2>5, <3>15
    <3>4. /\ \A x \in 1 .. Len(p) :
               \E i \in 1 .. k - 1 : \E y \in 1 .. Len(seqs[i]) : p[x] = seqs[i][y]
          /\ \A x, y \in 1 .. Len(p) : p[x] = p[y] => x = y
      BY <3>15
    <3>5. \A x, y \in 1 .. Len(q) : q[x] = q[y] => x = y
      BY <1>0, <2>3
    <3>6. \A x \in 1 .. Len(p), y \in 1 .. Len(q) : p[x] # q[y]
      <4> SUFFICES ASSUME NEW x \in 1 .. Len(p), NEW y \in 1 .. Len(q)
                   PROVE  p[x] # q[y]
        OBVIOUS
      <4>1. PICK i \in 1 .. k - 1 : \E z \in 1 .. Len(seqs[i]) : p[x] = seqs[i][z]
        BY <3>4
      <4>2. i \in 1 .. n /\ i # k /\ k \in 1 .. n
        BY <2>3, <4>1
      <4> QED BY <1>0, <4>1, <4>2
    <3>7. len[k] = len[k - 1] + Len(q)
      BY <1>0, <2>3
    <3>8. \A i \in 1 .. Len(p) : p[i] = f[k - 1][i]
      OBVIOUS
    <3>9. q = seqs[k] /\ k \in 1 .. k /\ 1 .. k - 1 \subseteq 1 .. k
      BY <2>3
    <3> HIDE DEF p, q
    <3>10. Len(p) \in Nat /\ Len(q) \in Nat /\ p \o q \in Seq(T)
           /\ Len(p \o q) = Len(p) + Len(q)
           /\ \A x \in 1 .. Len(p) + Len(q) :
                (p \o q)[x] = IF x <= Len(p) THEN p[x] ELSE q[x - Len(p)]
      BY <3>3, SMTT(30)
    <3>11. Len(p \o q) = len[k]
      BY <3>3, <3>7, <3>10
    <3>12. ASSUME NEW x \in 1 .. Len(p \o q)
           PROVE  \E i \in 1 .. k : \E y \in 1 .. Len(seqs[i]) : (p \o q)[x] = seqs[i][y]
      <4>1. CASE x <= Len(p)
        <5>1. x \in 1 .. Len(p) /\ (p \o q)[x] = p[x]
          BY <3>10, <4>1
        <5> QED BY <3>4, <3>9, <5>1, SMTT(30)
      <4>2. CASE ~(x <= Len(p))
        <5>1. x - Len(p) \in 1 .. Len(q) /\ (p \o q)[x] = q[x - Len(p)]
          BY <3>10, <4>2
        <5> QED BY <3>9, <5>1
      <4> QED BY <4>1, <4>2
    <3>13. ASSUME NEW x \in 1 .. Len(p \o q), NEW y \in 1 .. Len(p \o q),
                  (p \o q)[x] = (p \o q)[y]
           PROVE  x = y
      <4>1. /\ x <= Len(p) => x \in 1 .. Len(p) /\ (p \o q)[x] = p[x]
            /\ y <= Len(p) => y \in 1 .. Len(p) /\ (p \o q)[y] = p[y]
            /\ ~(x <= Len(p)) => x - Len(p) \in 1 .. Len(q) /\ (p \o q)[x] = q[x - Len(p)]
            /\ ~(y <= Len(p)) => y - Len(p) \in 1 .. Len(q) /\ (p \o q)[y] = q[y - Len(p)]
        BY <3>10
      <4>2. CASE x <= Len(p) /\ y <= Len(p)
        BY <3>4, <3>13, <4>1, <4>2
      <4>3. CASE ~(x <= Len(p)) /\ ~(y <= Len(p))
        <5>1. x - Len(p) = y - Len(p)
          BY <3>5, <3>13, <4>1, <4>3
        <5> QED BY <3>10, <5>1
      <4>4. CASE x <= Len(p) /\ ~(y <= Len(p))
        BY <3>6, <3>13, <4>1, <4>4
      <4>5. CASE ~(x <= Len(p)) /\ y <= Len(p)
        BY <3>6, <3>13, <4>1, <4>5
      <4> QED BY <4>2, <4>3, <4>4, <4>5
    <3> HIDE DEF Bad, S
    <3> DEFINE r == p \o q
    <3>16. /\ r \in Seq(T) /\ Len(r) = len[k] /\ r = f[k]
           /\ \A x \in 1 .. Len(r) :
                \E i \in 1 .. k : \E y \in 1 .. Len(seqs[i]) : r[x] = seqs[i][y]
           /\ \A x, y \in 1 .. Len(r) : r[x] = r[y] => x = y
      BY <3>3, <3>10, <3>11, <3>12, <3>13
    <3> HIDE DEF r
    <3>14. Good(k)
      BY <3>16 DEF Good
    <3> QED BY <2>3, <3>14
  <2> QED BY <2>4, <2>5
<1>5. CASE Bad = {}
  <2>1. Good(n)
    BY <1>2, <1>5
  <2> QED BY <1>1, <2>1 DEF Good, Flat
<1> QED BY <1>4, <1>5

\* The games of the m-th participant with the n-th after it, and with all of them.
Game(j, m, n, i) == [a |-> j.players[m], b |-> j.players[m + n], g |-> i - 1]

PairTasks(j, m) ==
  [n \in 1 .. Len(j.players) - m |-> [g \in 1 .. j.games |-> Game(j, m, n, g)]]

Wanted(j) ==
  /\ j.players \in Seq(Players(j)) /\ Len(j.players) >= 2 /\ IsInjective(j.players)
  /\ j.games \in Nat \ {0}

TaskSet(j) == [a : Players(j), b : Players(j), g : Int]

LEMMA ListIsSeq ==
  ASSUME NEW n \in Nat, NEW T, NEW s, s = [i \in 1 .. n |-> s[i]],
         \A i \in 1 .. n : s[i] \in T
  PROVE  s \in Seq(T) /\ Len(s) = n
OBVIOUS

LEMMA GameIsTask ==
  ASSUME NEW j, Wanted(j), NEW m \in 1 .. Len(j.players),
         NEW n \in 1 .. Len(j.players) - m, NEW i \in 1 .. j.games
  PROVE  /\ Game(j, m, n, i) \in TaskSet(j)
         /\ Game(j, m, n, i).a = j.players[m] /\ Game(j, m, n, i).b = j.players[m + n]
         /\ Game(j, m, n, i).g = i - 1 /\ j.players[m] # j.players[m + n]
<1>1. m \in DOMAIN j.players /\ m + n \in DOMAIN j.players /\ m # m + n
  BY DEF Wanted
<1>2. j.players[m] \in Players(j) /\ j.players[m + n] \in Players(j) /\ i - 1 \in Int
  BY <1>1 DEF Players
<1>3. j.players[m] # j.players[m + n]
  BY <1>1 DEF Wanted, IsInjective
<1> QED BY <1>2, <1>3 DEF Game, TaskSet

LEMMA GamesDiffer ==
  ASSUME NEW j, Wanted(j), NEW m \in 1 .. Len(j.players), NEW k \in 1 .. Len(j.players),
         NEW n \in 1 .. Len(j.players) - m, NEW i \in 1 .. j.games,
         NEW o \in 1 .. Len(j.players) - k, NEW h \in 1 .. j.games,
         Game(j, m, n, i) = Game(j, k, o, h)
  PROVE  m = k /\ n = o /\ i = h
<1>1. j.players[m] = j.players[k] /\ j.players[m + n] = j.players[k + o] /\ i - 1 = h - 1
  <2>1. /\ Game(j, m, n, i).a = j.players[m] /\ Game(j, m, n, i).b = j.players[m + n]
        /\ Game(j, m, n, i).g = i - 1
    BY GameIsTask
  <2>2. /\ Game(j, k, o, h).a = j.players[k] /\ Game(j, k, o, h).b = j.players[k + o]
        /\ Game(j, k, o, h).g = h - 1
    BY GameIsTask
  <2> QED BY <2>1, <2>2
<1>2. \A x, y \in 1 .. Len(j.players) : j.players[x] = j.players[y] => x = y
  BY SMTT(30) DEF Wanted, IsInjective
<1>3. m + n \in 1 .. Len(j.players) /\ k + o \in 1 .. Len(j.players)
  BY DEF Wanted
<1>4. m = k /\ m + n = k + o
  BY <1>1, <1>2, <1>3
<1> QED BY <1>1, <1>4

LEMMA PairTasksAre ==
  ASSUME NEW j, Wanted(j), NEW m \in 1 .. Len(j.players)
  PROVE  LET s == FlattenSeq(PairTasks(j, m))
         IN /\ s \in Seq(TaskSet(j)) /\ Len(s) = (Len(j.players) - m) * j.games
            /\ \A x \in 1 .. Len(s) :
                 \E n \in 1 .. Len(j.players) - m : \E i \in 1 .. j.games :
                    s[x] = Game(j, m, n, i)
            /\ \A x, y \in 1 .. Len(s) : s[x] = s[y] => x = y
<1> DEFINE N == Len(j.players) - m
           q == PairTasks(j, m)
           len == [n \in 0 .. N |-> n * j.games]
<1>1. N \in Nat /\ j.games \in Nat
  BY DEF Wanted
<1>2. q = [n \in 1 .. N |-> [g \in 1 .. j.games |-> Game(j, m, n, g)]]
  BY DEF PairTasks
<1> HIDE DEF N
<1>3. Len(q) = N
  BY <1>1, <1>2
<1>4. CASE N = 0
  <2>1. Len(q) = 0 /\ q \in Seq(TaskSet(j))
    BY <1>2, <1>3, <1>4
  <2>2. FlattenSeq(q) = q
    BY <2>1 DEF FlattenSeq
  <2>3. N * j.games = 0
    BY <1>1, <1>4
  <2> QED BY <2>1, <2>2, <2>3 DEF N
<1>5. CASE N # 0
  <2>1. \A n \in 1 .. N : q[n] = [g \in 1 .. j.games |-> Game(j, m, n, g)]
    BY <1>2
  <2> HIDE DEF q
  <2>2. \A n \in 1 .. N : q[n] \in Seq(TaskSet(j)) /\ Len(q[n]) = j.games
                          /\ \A i \in 1 .. j.games : q[n][i] = Game(j, m, n, i)
    <3> SUFFICES ASSUME NEW n \in 1 .. N
                 PROVE  q[n] \in Seq(TaskSet(j)) /\ Len(q[n]) = j.games
                        /\ \A i \in 1 .. j.games : q[n][i] = Game(j, m, n, i)
      OBVIOUS
    <3>1. \A i \in 1 .. j.games : Game(j, m, n, i) \in TaskSet(j)
      BY GameIsTask DEF N
    <3> DEFINE e == [i \in 1 .. j.games |-> Game(j, m, n, i)]
    <3>2. e \in Seq(TaskSet(j)) /\ Len(e) = j.games
      BY <1>1, <3>1, ListIsSeq
    <3> QED BY <2>1, <3>2
  <2>3. \A n, o \in 1 .. N : \A i, h \in 1 .. j.games :
          Game(j, m, n, i) = Game(j, m, o, h) => n = o /\ i = h
    BY GamesDiffer DEF N
  <2>4. \A n \in 1 .. N : \A x, y \in 1 .. Len(q[n]) : q[n][x] = q[n][y] => x = y
    BY <2>2, <2>3
  <2>5. \A n, o \in 1 .. N : n # o =>
          \A x \in 1 .. Len(q[n]), y \in 1 .. Len(q[o]) : q[n][x] # q[o][y]
    BY <2>2, <2>3
  <2>6. len[0] = 0 /\ \A n \in 1 .. N : len[n] = len[n - 1] + Len(q[n])
    <3>1. ASSUME NEW n \in 1 .. N
          PROVE  len[n] = len[n - 1] + Len(q[n])
      <4>1. n \in 0 .. N /\ n - 1 \in 0 .. N
        BY <1>1
      <4>2. n * j.games = (n - 1) * j.games + j.games
        BY <1>1
      <4> QED BY <2>2, <4>1, <4>2
    <3>2. len[0] = 0
      BY <1>1
    <3> QED BY <3>1, <3>2
  <2>7. len[N] = N * j.games
    BY <1>1
  <2> HIDE DEF len
  <2>8. Len(q) \in Nat \ {0}
    BY <1>1, <1>3, <1>5
  <2> DEFINE s == FlattenSeq(q)
  <2>11. Apart(q, TaskSet(j), len)
    BY <1>3, <2>2, <2>4, <2>5, <2>6, <2>8 DEF Apart
  <2>12. Flat(s, q, TaskSet(j), len)
    BY <2>11, FlatOfApart
  <2> HIDE DEF s
  <2>9. /\ s \in Seq(TaskSet(j)) /\ Len(s) = len[N]
        /\ \A x \in 1 .. Len(s) : \E n \in 1 .. N : \E y \in 1 .. Len(q[n]) : s[x] = q[n][y]
        /\ \A x, y \in 1 .. Len(s) : s[x] = s[y] => x = y
    BY <1>3, <2>12 DEF Flat
  <2>10. \A x \in 1 .. Len(s) :
            \E n \in 1 .. N : \E i \in 1 .. j.games : s[x] = Game(j, m, n, i)
    <3> SUFFICES ASSUME NEW x \in 1 .. Len(s)
                 PROVE  \E n \in 1 .. N : \E i \in 1 .. j.games : s[x] = Game(j, m, n, i)
      OBVIOUS
    <3>1. PICK n \in 1 .. N : \E y \in 1 .. Len(q[n]) : s[x] = q[n][y]
      BY <2>9
    <3>2. PICK y \in 1 .. Len(q[n]) : s[x] = q[n][y]
      BY <3>1
    <3>3. y \in 1 .. j.games /\ q[n][y] = Game(j, m, n, y)
      BY <2>2, <3>1, <3>2
    <3> QED BY <3>1, <3>2, <3>3
  <2>13. /\ s \in Seq(TaskSet(j)) /\ Len(s) = N * j.games
         /\ \A x \in 1 .. Len(s) :
              \E n \in 1 .. N : \E i \in 1 .. j.games : s[x] = Game(j, m, n, i)
         /\ \A x, y \in 1 .. Len(s) : s[x] = s[y] => x = y
    BY <2>7, <2>9, <2>10
  <2> QED BY <2>13 DEF N, q, s
<1> QED BY <1>4, <1>5

\* Half of k * (k - 1): the number of pairs of k.
Half(k) == (k * (k - 1)) \div 2

LEMMA HalfSteps ==
  ASSUME NEW k \in Nat
  PROVE  Half(k) \in Int /\ Half(k + 1) = Half(k) + k
<1>1. k * (k - 1) \in Int /\ (k + 1) * k = k * (k - 1) + 2 * k
  OBVIOUS
<1>2. \A x \in Int : (x + 2 * k) \div 2 = (x \div 2) + k /\ x \div 2 \in Int
  OBVIOUS
<1>3. (k + 1) * ((k + 1) - 1) = (k + 1) * k
  OBVIOUS
<1> QED BY <1>1, <1>2, <1>3 DEF Half

\* Every pair of participants plays each of its games once.
LEMMA TasksAre ==
  ASSUME NEW j, Wanted(j)
  PROVE  LET s == Tasks(j)
         IN /\ s \in Seq(TaskSet(j)) /\ Len(s) = TotalGames(j)
            /\ \A x \in 1 .. Len(s) : s[x].a # s[x].b
            /\ \A x, y \in 1 .. Len(s) : s[x] = s[y] => x = y
<1> DEFINE N == Len(j.players)
           q == [m \in 1 .. N |-> FlattenSeq(PairTasks(j, m))]
           len == [k \in 0 .. N |-> (Half(N) - Half(N - k)) * j.games]
           s == FlattenSeq(q)
<1>1. N \in Nat \ {0} /\ j.games \in Nat /\ DOMAIN j.players = 1 .. N
  BY DEF Wanted
<1>2. Tasks(j) = s
  BY <1>1 DEF Tasks, PairTasks, Game
<1>3. TotalGames(j) = Half(N) * j.games
  BY DEF TotalGames, Half
<1>4. \A m \in 1 .. N : q[m] = FlattenSeq(PairTasks(j, m))
  OBVIOUS
<1>5. Len(q) = N
  BY <1>1
<1> HIDE DEF N, q
<1>13. ASSUME NEW m \in 1 .. N, NEW r, r = FlattenSeq(PairTasks(j, m))
       PROVE  /\ r \in Seq(TaskSet(j)) /\ Len(r) = (N - m) * j.games
              /\ \A x \in 1 .. Len(r) :
                   \E n \in 1 .. N - m : \E i \in 1 .. j.games : r[x] = Game(j, m, n, i)
              /\ \A x, y \in 1 .. Len(r) : r[x] = r[y] => x = y
  BY <1>13, PairTasksAre, SMTT(30) DEF N
<1>6. \A m \in 1 .. N :
         /\ q[m] \in Seq(TaskSet(j)) /\ Len(q[m]) = (N - m) * j.games
         /\ \A x \in 1 .. Len(q[m]) :
              \E n \in 1 .. N - m : \E i \in 1 .. j.games : q[m][x] = Game(j, m, n, i)
         /\ \A x, y \in 1 .. Len(q[m]) : q[m][x] = q[m][y] => x = y
  BY <1>4, <1>13, SMTT(30)
<1>7. \A m, k \in 1 .. N : m # k =>
         \A x \in 1 .. Len(q[m]), y \in 1 .. Len(q[k]) : q[m][x] # q[k][y]
  <2> SUFFICES ASSUME NEW m \in 1 .. N, NEW k \in 1 .. N, m # k,
                      NEW x \in 1 .. Len(q[m]), NEW y \in 1 .. Len(q[k])
               PROVE  q[m][x] # q[k][y]
    OBVIOUS
  <2>1. PICK n \in 1 .. N - m, i \in 1 .. j.games : q[m][x] = Game(j, m, n, i)
    BY <1>6
  <2>2. PICK o \in 1 .. N - k, h \in 1 .. j.games : q[k][y] = Game(j, k, o, h)
    BY <1>6
  <2> QED BY <2>1, <2>2, GamesDiffer DEF N
<1>8. len[0] = 0
  <2>1. len[0] = (Half(N) - Half(N - 0)) * j.games
    BY <1>1
  <2>2. N - 0 = N /\ Half(N) \in Int
    BY <1>1, HalfSteps
  <2> QED BY <1>1, <2>1, <2>2
<1>9. len[N] = Half(N) * j.games
  <2>1. len[N] = (Half(N) - Half(N - N)) * j.games
    BY <1>1
  <2>2. N - N = 0 /\ Half(0) = 0 /\ Half(N) \in Int
    BY <1>1, HalfSteps DEF Half
  <2> QED BY <1>1, <2>1, <2>2
<1>10. \A k \in 1 .. N : len[k] = len[k - 1] + Len(q[k])
  <2> SUFFICES ASSUME NEW k \in 1 .. N
               PROVE  len[k] = len[k - 1] + Len(q[k])
    OBVIOUS
  <2>1. len[k] = (Half(N) - Half(N - k)) * j.games
        /\ len[k - 1] = (Half(N) - Half(N - (k - 1))) * j.games
    BY <1>1
  <2>2. N - k \in Nat /\ N - (k - 1) = (N - k) + 1
    BY <1>1
  <2>3. Half(N - (k - 1)) = Half(N - k) + (N - k) /\ Half(N - k) \in Int /\ Half(N) \in Int
    BY <1>1, <2>2, HalfSteps
  <2>4. \A x, y, d \in Int : (x - y) * d = (x - (y + (N - k))) * d + (N - k) * d
    BY <1>1
  <2> QED BY <1>1, <1>6, <2>1, <2>3, <2>4
<1> HIDE DEF len
<1>14. Apart(q, TaskSet(j), len)
  BY <1>1, <1>5, <1>6, <1>7, <1>8, <1>10 DEF Apart
<1>15. Flat(s, q, TaskSet(j), len)
  BY <1>14, FlatOfApart
<1> HIDE DEF s
<1>11. /\ s \in Seq(TaskSet(j)) /\ Len(s) = len[N]
       /\ \A x \in 1 .. Len(s) : \E m \in 1 .. N : \E y \in 1 .. Len(q[m]) : s[x] = q[m][y]
       /\ \A x, y \in 1 .. Len(s) : s[x] = s[y] => x = y
  BY <1>5, <1>15 DEF Flat
<1>12. ASSUME NEW x \in 1 .. Len(s)
       PROVE  s[x].a # s[x].b
  <2>1. PICK m \in 1 .. N : \E y \in 1 .. Len(q[m]) : s[x] = q[m][y]
    BY <1>11
  <2>2. PICK n \in 1 .. N - m, i \in 1 .. j.games : s[x] = Game(j, m, n, i)
    BY <1>6, <2>1
  <2>3. /\ Game(j, m, n, i).a = j.players[m] /\ Game(j, m, n, i).b = j.players[m + n]
        /\ j.players[m] # j.players[m + n]
    BY GameIsTask DEF N
  <2> QED BY <2>2, <2>3
<1> QED BY <1>2, <1>3, <1>9, <1>11, <1>12

-----------------------------------------------------------------------------
(* The invariant.                                                           *)

Starts   == {"join to start", "joins to start", "load", "reset", "spawn"}
Joins    == {"joins to start", "joins to stop"}
PCs      == Starts \cup {"idle", "join to stop", "joins to stop"}

Rows == [games : Nat, winsA : Nat, winsB : Nat, draws : Nat, margin : Int]

Duels == {-1, 0, 1}

Typed ==
  /\ table = [running |-> table.running, completed |-> table.completed,
              total |-> table.total, grid |-> table.grid, error |-> table.error]
  /\ table.running \in BOOLEAN /\ table.error \in BOOLEAN
  /\ stop \in BOOLEAN /\ asked \in BOOLEAN /\ halted \in BOOLEAN /\ abort \in BOOLEAN
  /\ handle \in {"none", "joinable"}
  /\ thread \in {"none", "runs", "returns", "gone"}
  /\ pc \in [Handlers -> PCs] /\ request \in [Handlers -> Requests \cup {NoJob}]
  /\ worker \in [Crew -> {"off", "ready", "plays", "out"}]
  /\ playing \in [Crew -> Nat] /\ next \in Nat \ {0}

\* Each participant has a row for each of the others.
GridOK ==
  LET P == DOMAIN table.grid
  IN  /\ table.grid = [p \in P |-> table.grid[p]]
      /\ \A p \in P : table.grid[p] \in [P \ {p} -> Rows]

LogOK ==
  /\ IsFiniteSet(log)
  /\ \A l \in log : /\ l = [task |-> l.task, duel |-> l.duel]
                    /\ l.duel \in Duels /\ l.task.g \in Int
                    /\ l.task.a # l.task.b
  /\ \A l, k \in log : l.task = k.task => l = k

\* A tournament that is about to be given to its thread.
Ready(j) ==
  /\ table.running /\ ~table.error /\ table.total = TotalGames(j)
  /\ DOMAIN table.grid = Players(j) /\ log = {}

HandlersOK ==
  /\ ~dead /\ (handle = "none") = (thread = "none")
  /\ \A h \in Handlers : joiner = h <=> pc[h] \in Joins
  /\ joiner \in Handlers \cup {Nobody} /\ (joiner # Nobody => handle = "joinable")
  /\ \A h, k \in Handlers : pc[h] \in Starts /\ pc[k] \in Starts => h = k
  /\ \A h \in Handlers :
       /\ pc[h] \in Starts => request[h] \in Requests
       /\ pc[h] \in {"reset", "spawn"} => Valid(request[h])
       /\ pc[h] \in {"load", "reset", "spawn"} => handle = "none"
       /\ pc[h] \in Starts \ {"spawn"} => ~table.running
       /\ pc[h] = "spawn" => Ready(request[h])
  /\ thread = "runs" => table.running

FlagsOK ==
  /\ (stop => asked) /\ (asked => halted)
  /\ abort => table.error /\ thread \in {"runs", "returns"}

\* What the crew has done of the tasks handed out.
JobOK ==
  /\ job \in Seq([a : DOMAIN table.grid, b : DOMAIN table.grid, g : Int])
  /\ Len(job) = table.total
  /\ \A i \in 1 .. Len(job) : job[i].a # job[i].b
  /\ \A i, k \in 1 .. Len(job) : job[i] = job[k] => i = k

Taken(i) == i \in 1 .. Len(job) /\ i < next

PlayedOK ==
  /\ \A w \in Crew : worker[w] = "plays" =>
       /\ Taken(playing[w])
       /\ \A l \in log : l.task # job[playing[w]]
       /\ \A v \in Crew : worker[v] = "plays" /\ playing[v] = playing[w] => v = w
  /\ \A l \in log : \E i \in 1 .. Len(job) : i < next /\ l.task = job[i]

\* Unless it is halted, what was handed out is played, and the crew's first
\* worker stays until all is handed out.
GoingOn ==
  ~halted /\ ~table.error =>
    /\ \A i \in 1 .. Len(job) : i < next =>
         \/ \E l \in log : l.task = job[i]
         \/ \E w \in Crew : worker[w] = "plays" /\ playing[w] = i
    /\ worker[0] = "out" => next > Len(job)

CrewOK ==
  /\ thread = "runs" => JobOK /\ PlayedOK /\ GoingOn
  /\ thread # "runs" => \A w \in Crew : worker[w] # "plays"

IInv ==
  /\ Typed /\ GridOK /\ LogOK /\ HandlersOK /\ FlagsOK /\ CrewOK
  /\ TalliesAgree /\ CompleteUnlessStopped

-----------------------------------------------------------------------------
(* Rows of the table.                                                       *)

PairOf(S, p, q) == {l \in S : {l.task.a, l.task.b} = {p, q}}

RowIs(row, S, p, q) ==
  /\ row.games = Cardinality(PairOf(S, p, q))
  /\ row.winsA = Cardinality({l \in PairOf(S, p, q) : Won(p, l)})
  /\ row.winsB = Cardinality({l \in PairOf(S, p, q) : Won(q, l)})
  /\ row.draws = Cardinality({l \in PairOf(S, p, q) : l.duel = 0})

LEMMA TalliesAre ==
  TalliesAgree <=>
    /\ table.completed = Cardinality(log)
    /\ \A p \in DOMAIN table.grid : \A q \in DOMAIN table.grid[p] :
         /\ RowIs(table.grid[p][q], log, p, q)
         /\ table.grid[p][q].margin = -table.grid[q][p].margin
BY DEF TalliesAgree, RowIs, PairOf, Between

LEMMA TalliesAreNext ==
  TalliesAgree' <=>
    /\ table'.completed = Cardinality(log')
    /\ \A p \in DOMAIN table'.grid : \A q \in DOMAIN table'.grid[p] :
         /\ RowIs(table'.grid[p][q], log', p, q)
         /\ table'.grid[p][q].margin = -table'.grid[q][p].margin
BY DEF TalliesAgree, RowIs, PairOf, Between, Won

LEMMA RowSame ==
  ASSUME NEW row, NEW S, NEW x, NEW p, NEW q, {x.task.a, x.task.b} # {p, q},
         RowIs(row, S, p, q)
  PROVE  RowIs(row, S \cup {x}, p, q)
<1>1. PairOf(S \cup {x}, p, q) = PairOf(S, p, q)
  BY DEF PairOf
<1> QED BY <1>1 DEF RowIs

\* One element more among those with a property, if it has the property.
LEMMA OneMore ==
  ASSUME NEW S, IsFiniteSet(S), NEW x, x \notin S, NEW T, NEW U,
         T \subseteq S, U = T \/ U = T \cup {x}
  PROVE  /\ Cardinality(T) \in Nat
         /\ Cardinality(U) = IF x \in U THEN Cardinality(T) + 1 ELSE Cardinality(T)
<1>1. IsFiniteSet(T) /\ x \notin T
  BY FS_Subset
<1>2. Cardinality(T) \in Nat
  BY <1>1, FS_CardinalityType
<1>3. CASE U = T
  BY <1>1, <1>2, <1>3
<1>4. CASE U = T \cup {x}
  BY <1>1, <1>2, <1>4, FS_AddElement
<1> QED BY <1>3, <1>4

\* The margin of a game from the side of p.
MarginFor(p, x) ==
  IF p = x.task.a THEN MarginOfA(x.duel, x.task.g) ELSE -MarginOfA(x.duel, x.task.g)

LEMMA SideWins ==
  ASSUME NEW x, NEW p, NEW q, {x.task.a, x.task.b} = {p, q}, p # q,
         x.task.g \in Int, x.duel \in Duels
  PROVE  /\ MarginFor(p, x) \in Int
         /\ (MarginFor(p, x) > 0 <=> Won(p, x)) /\ (MarginFor(p, x) < 0 <=> Won(q, x))
         /\ (MarginFor(p, x) = 0 <=> x.duel = 0)
<1>1. x.task.g % 2 \in {0, 1} /\ x.duel \in {-1, 0, 1}
  BY DEF Duels
<1>2. \/ x.task.a = p /\ x.task.b = q
      \/ x.task.a = q /\ x.task.b = p
  OBVIOUS
<1> QED BY <1>1, <1>2 DEF Won, MarginOfA, MarginFor

LEMMA RowAdds ==
  ASSUME NEW row \in Rows, NEW S, IsFiniteSet(S), NEW x, x \notin S, NEW p, NEW q, p # q,
         {x.task.a, x.task.b} = {p, q}, x.task.g \in Int, x.duel \in Duels,
         NEW m, m = MarginFor(p, x), RowIs(row, S, p, q)
  PROVE  /\ Counted(row, m) \in Rows /\ Counted(row, m).margin = row.margin + m
         /\ RowIs(Counted(row, m), S \cup {x}, p, q)
<1> DEFINE old == PairOf(S, p, q)
           new == PairOf(S \cup {x}, p, q)
           c == Counted(row, m)
<1>0. /\ m \in Int
      /\ (m > 0 <=> Won(p, x)) /\ (m < 0 <=> Won(q, x)) /\ (m = 0 <=> x.duel = 0)
  BY SideWins
<1>1. /\ row.games \in Nat /\ row.winsA \in Nat /\ row.winsB \in Nat
      /\ row.draws \in Nat /\ row.margin \in Int
  BY DEF Rows
<1>2. c = [games |-> row.games + 1, margin |-> row.margin + m,
           winsA |-> IF m > 0 THEN row.winsA + 1 ELSE row.winsA,
           winsB |-> IF m < 0 THEN row.winsB + 1 ELSE row.winsB,
           draws |-> IF m = 0 THEN row.draws + 1 ELSE row.draws]
  <2>1. c = [row EXCEPT !.games = row.games + 1, !.margin = row.margin + m,
                        !.winsA = IF m > 0 THEN row.winsA + 1 ELSE row.winsA,
                        !.winsB = IF m < 0 THEN row.winsB + 1 ELSE row.winsB,
                        !.draws = IF m = 0 THEN row.draws + 1 ELSE row.draws]
    BY DEF Counted
  <2> HIDE DEF c
  <2> QED BY <2>1 DEF Rows
<1>3. new = old \cup {x} /\ old \subseteq S
  BY DEF PairOf
<1>4. (m > 0 <=> Won(p, x)) /\ (m < 0 <=> Won(q, x)) /\ (m = 0 <=> x.duel = 0)
  BY <1>0
<1> HIDE DEF old, new, c
<1>5. Cardinality(new) = Cardinality(old) + 1
  BY <1>3, OneMore
<1>6. Cardinality({l \in new : Won(p, l)}) =
        IF m > 0 THEN Cardinality({l \in old : Won(p, l)}) + 1
        ELSE Cardinality({l \in old : Won(p, l)})
  <2> DEFINE T == {l \in old : Won(p, l)}
             U == {l \in new : Won(p, l)}
  <2>1. T \subseteq S /\ (x \in U <=> m > 0) /\ (U = T \/ U = T \cup {x})
    BY <1>3, <1>4
  <2> HIDE DEF T, U
  <2>2. Cardinality(U) = IF x \in U THEN Cardinality(T) + 1 ELSE Cardinality(T)
    BY <2>1, OneMore
  <2> QED BY <2>1, <2>2 DEF T, U
<1>7. Cardinality({l \in new : Won(q, l)}) =
        IF m < 0 THEN Cardinality({l \in old : Won(q, l)}) + 1
        ELSE Cardinality({l \in old : Won(q, l)})
  <2> DEFINE T == {l \in old : Won(q, l)}
             U == {l \in new : Won(q, l)}
  <2>1. T \subseteq S /\ (x \in U <=> m < 0) /\ (U = T \/ U = T \cup {x})
    BY <1>3, <1>4
  <2> HIDE DEF T, U
  <2>2. Cardinality(U) = IF x \in U THEN Cardinality(T) + 1 ELSE Cardinality(T)
    BY <2>1, OneMore
  <2> QED BY <2>1, <2>2 DEF T, U
<1>8. Cardinality({l \in new : l.duel = 0}) =
        IF m = 0 THEN Cardinality({l \in old : l.duel = 0}) + 1
        ELSE Cardinality({l \in old : l.duel = 0})
  <2> DEFINE T == {l \in old : l.duel = 0}
             U == {l \in new : l.duel = 0}
  <2>1. T \subseteq S /\ (x \in U <=> m = 0) /\ (U = T \/ U = T \cup {x})
    BY <1>3, <1>4
  <2> HIDE DEF T, U
  <2>2. Cardinality(U) = IF x \in U THEN Cardinality(T) + 1 ELSE Cardinality(T)
    BY <2>1, OneMore
  <2> QED BY <2>1, <2>2 DEF T, U
<1>9. /\ row.games = Cardinality(old)
      /\ row.winsA = Cardinality({l \in old : Won(p, l)})
      /\ row.winsB = Cardinality({l \in old : Won(q, l)})
      /\ row.draws = Cardinality({l \in old : l.duel = 0})
  BY DEF RowIs, old
<1>10. c \in Rows /\ c.margin = row.margin + m
  BY <1>0, <1>1, <1>2 DEF Rows
<1>11. /\ c.games = Cardinality(new)
       /\ c.winsA = Cardinality({l \in new : Won(p, l)})
       /\ c.winsB = Cardinality({l \in new : Won(q, l)})
       /\ c.draws = Cardinality({l \in new : l.duel = 0})
  BY <1>2, <1>5, <1>6, <1>7, <1>8, <1>9
<1>12. RowIs(c, S \cup {x}, p, q)
  BY <1>11 DEF RowIs, new
<1> QED BY <1>10, <1>12 DEF c

\* Both rows of a game.
BothRows(G, a, b, c, d) == [G EXCEPT ![a][b] = c, ![b][a] = d]

GridOf(G, P) ==
  /\ G = [p \in P |-> G[p]]
  /\ \A p \in P : G[p] \in [P \ {p} -> Rows]

OtherRows(G, H, P, a, b) ==
  \A p \in P : \A q \in P \ {p} : {p, q} # {a, b} => H[p][q] = G[p][q]

LEMMA TwoRows ==
  ASSUME NEW P, NEW G, GridOf(G, P), NEW a \in P, NEW b \in P, a # b,
         NEW c \in Rows, NEW d \in Rows, NEW H, H = BothRows(G, a, b, c, d)
  PROVE  GridOf(H, P) /\ H[a][b] = c /\ H[b][a] = d /\ OtherRows(G, H, P, a, b)
<1> DEFINE x == [G[a] EXCEPT ![b] = c]
           y == [G[b] EXCEPT ![a] = d]
<1>1. /\ x \in [P \ {a} -> Rows] /\ x[b] = c /\ (\A q \in P \ {a} : q # b => x[q] = G[a][q])
      /\ y \in [P \ {b} -> Rows] /\ y[a] = d /\ (\A q \in P \ {b} : q # a => y[q] = G[b][q])
  BY DEF GridOf
<1>2. H = [[G EXCEPT ![a] = x] EXCEPT ![b] = y]
  BY DEF BothRows, GridOf
<1> HIDE DEF x, y
<1>3. /\ H = [p \in P |-> H[p]] /\ H[a] = x /\ H[b] = y
      /\ \A p \in P : p # a /\ p # b => H[p] = G[p]
  BY <1>2 DEF GridOf
<1>4. \A p \in P : H[p] \in [P \ {p} -> Rows]
  BY <1>1, <1>3, ZenonT(40) DEF GridOf
<1>5. OtherRows(G, H, P, a, b)
  BY <1>1, <1>3 DEF OtherRows
<1> QED BY <1>1, <1>3, <1>4, <1>5 DEF GridOf

-----------------------------------------------------------------------------
(* The handlers.                                                            *)

LEMMA RestStays ==
  ASSUME IInv, UNCHANGED <<table, log, crew>>, halted => halted',
         (thread = "runs") = (thread' = "runs")
  PROVE  GridOK' /\ LogOK' /\ TalliesAgree' /\ CompleteUnlessStopped' /\ CrewOK'
<1>1. /\ UNCHANGED <<table, log, job, next, abort, worker, playing>>
      /\ GridOK /\ LogOK /\ TalliesAgree /\ CompleteUnlessStopped /\ CrewOK
  BY DEF IInv, crew
<1>2. GridOK'
  BY <1>1 DEF GridOK
<1>3. LogOK'
  BY <1>1 DEF LogOK
<1>4. TalliesAgree'
  BY <1>1, TalliesAre, TalliesAreNext
<1>5. CompleteUnlessStopped'
  BY <1>1 DEF CompleteUnlessStopped
<1>6. JobOK => JobOK'
  BY <1>1 DEF JobOK
<1>7. PlayedOK => PlayedOK'
  BY <1>1 DEF PlayedOK, Taken
<1>8. GoingOn => GoingOn'
  BY <1>1 DEF GoingOn
<1>9. CrewOK'
  BY <1>1, <1>6, <1>7, <1>8 DEF CrewOK
<1> QED BY <1>2, <1>3, <1>4, <1>5, <1>9

LEMMA StartAskedKeeps ==
  ASSUME IInv, ~StartsOverlap, NEW h \in Handlers, StartAsked(h)
  PROVE  IInv'
<1>1. /\ Typed /\ HandlersOK /\ FlagsOK
      /\ UNCHANGED <<table, stop, handle, thread, joiner, asked, halted, log, dead>>
      /\ UNCHANGED crew /\ pc[h] = "idle" /\ Starting = {}
  BY DEF IInv, StartAsked
<1>2. \A k \in Handlers : pc[k] \notin Starts
  BY <1>1 DEF Starting, Starts
<1>3. GridOK' /\ LogOK' /\ TalliesAgree' /\ CompleteUnlessStopped' /\ CrewOK'
  BY <1>1, RestStays
<1>4. abort' = abort /\ UNCHANGED <<next, worker, playing>>
  BY <1>1 DEF crew
<1>5. FlagsOK'
  BY <1>1, <1>4 DEF FlagsOK
<1>6. \/ UNCHANGED <<pc, request>>
      \/ /\ ~table.running /\ pc' = [pc EXCEPT ![h] = "join to start"]
         /\ \E r \in Requests : request' = [request EXCEPT ![h] = r]
  BY DEF StartAsked
<1>7. CASE UNCHANGED <<pc, request>>
  <2>1. Typed'
    BY <1>1, <1>4, <1>7 DEF Typed
  <2>2. HandlersOK'
    BY <1>1, <1>7 DEF HandlersOK, Ready
  <2> QED BY <1>3, <1>5, <2>1, <2>2 DEF IInv
<1>8. CASE /\ ~table.running /\ pc' = [pc EXCEPT ![h] = "join to start"]
           /\ \E r \in Requests : request' = [request EXCEPT ![h] = r]
  <2>1. PICK r \in Requests : request' = [request EXCEPT ![h] = r]
    BY <1>8
  <2>2. pc' \in [Handlers -> PCs] /\ request' \in [Handlers -> Requests \cup {NoJob}]
    BY <1>1, <1>8, <2>1 DEF Typed, PCs, Starts
  <2>3. /\ pc'[h] = "join to start" /\ request'[h] = r
        /\ \A k \in Handlers : k # h => pc'[k] = pc[k] /\ request'[k] = request[k]
    BY <1>1, <1>8, <2>1 DEF Typed
  <2>4. Typed'
    BY <1>1, <1>4, <2>2 DEF Typed
  <2>5. \A k \in Handlers : k # h => pc'[k] \notin Starts
    BY <1>2, <2>3
  <2>6. \A k \in Handlers : joiner' = k <=> pc'[k] \in Joins
    BY <1>1, <2>3 DEF HandlersOK, Joins
  <2>7. HandlersOK'
    BY <1>1, <1>8, <2>3, <2>5, <2>6 DEF HandlersOK, Starts
  <2> QED BY <1>3, <1>5, <2>4, <2>7 DEF IInv
<1> QED BY <1>6, <1>7, <1>8

\* A handler answers, or goes to another place of its own.
LEMMA AnsweredIs ==
  ASSUME Typed, NEW h \in Handlers, Answered(h)
  PROVE  /\ pc' \in [Handlers -> PCs] /\ request' \in [Handlers -> Requests \cup {NoJob}]
         /\ pc'[h] = "idle"
         /\ \A k \in Handlers : k # h => pc'[k] = pc[k] /\ request'[k] = request[k]
BY DEF Answered, Typed, PCs

LEMMA GoesIs ==
  ASSUME Typed, NEW h \in Handlers, NEW to \in PCs, pc' = [pc EXCEPT ![h] = to],
         UNCHANGED request
  PROVE  /\ pc' \in [Handlers -> PCs] /\ request' \in [Handlers -> Requests \cup {NoJob}]
         /\ pc'[h] = to /\ request'[h] = request[h]
         /\ \A k \in Handlers : k # h => pc'[k] = pc[k] /\ request'[k] = request[k]
BY DEF Typed

LEMMA JoinBeginsIs ==
  ASSUME Typed, HandlersOK, NEW h \in Handlers, NEW waits \in Joins, JoinBegins(h, waits),
         pc[h] \notin Joins
  PROVE  /\ pc' \in [Handlers -> PCs] /\ request' \in [Handlers -> Requests \cup {NoJob}]
         /\ \A k \in Handlers : k # h => pc'[k] = pc[k] /\ request'[k] = request[k]
         /\ joiner' \in Handlers \cup {Nobody}
         /\ \A k \in Handlers : joiner' = k <=> pc'[k] \in Joins
         /\ \/ pc'[h] = "idle"
            \/ pc'[h] = waits /\ request'[h] = request[h]
<1>1. Nobody \notin Handlers /\ waits \in PCs
  BY TournamentAssumption DEF Joins, PCs, Starts
<1>2. CASE joiner # Nobody
  <2>1. Answered(h) /\ joiner' = joiner
    BY <1>2 DEF JoinBegins
  <2>2. \A k \in Handlers : joiner' = k <=> pc'[k] \in Joins
    BY <2>1, AnsweredIs DEF HandlersOK, Joins
  <2> QED BY <2>1, <2>2, AnsweredIs DEF HandlersOK
<1>3. CASE joiner = Nobody
  <2>1. pc' = [pc EXCEPT ![h] = waits] /\ joiner' = h /\ UNCHANGED request
    BY <1>3 DEF JoinBegins
  <2>2. \A k \in Handlers : pc[k] \notin Joins
    BY <1>1, <1>3 DEF HandlersOK
  <2>3. \A k \in Handlers : joiner' = k <=> pc'[k] \in Joins
    BY <1>1, <2>1, <2>2, GoesIs
  <2> QED BY <1>1, <2>1, <2>3, GoesIs
<1> QED BY <1>2, <1>3

\* Most steps of a handler are of this kind: nothing is about to be spawned or
\* reset by them, and the starting handler stays the only one.
LEMMA HandlerKeeps ==
  ASSUME IInv, NEW h \in Handlers,
         UNCHANGED <<table, log, crew, dead>>, halted => halted',
         (thread = "runs") = (thread' = "runs"), FlagsOK',
         stop' \in BOOLEAN, asked' \in BOOLEAN, halted' \in BOOLEAN,
         handle' \in {"none", "joinable"}, thread' \in {"none", "runs", "returns", "gone"},
         (handle' = "none") = (thread' = "none"), handle = "none" => handle' = "none",
         pc' \in [Handlers -> PCs], request' \in [Handlers -> Requests \cup {NoJob}],
         \A k \in Handlers : k # h => pc'[k] = pc[k] /\ request'[k] = request[k],
         joiner' \in Handlers \cup {Nobody}, joiner' # Nobody => handle' = "joinable",
         \A k \in Handlers : joiner' = k <=> pc'[k] \in Joins,
         pc'[h] \in Starts => /\ pc[h] \in Starts \ {"spawn"} /\ request'[h] = request[h]
                              /\ pc'[h] # "spawn" /\ (pc'[h] = "reset" => Valid(request[h])),
         pc'[h] \in {"load", "reset"} => handle' = "none"
  PROVE  IInv'
<1>1. Typed /\ HandlersOK /\ GridOK' /\ LogOK' /\ TalliesAgree' /\ CompleteUnlessStopped' /\ CrewOK'
  BY RestStays DEF IInv
<1>2. Typed'
  BY <1>1 DEF Typed, crew
<1>3. \A k \in Handlers : pc'[k] \in Starts => pc[k] \in Starts /\ request'[k] = request[k]
  OBVIOUS
<1>4. \A k, m \in Handlers : pc'[k] \in Starts /\ pc'[m] \in Starts => k = m
  BY <1>1, <1>3 DEF HandlersOK
<1>5. ASSUME NEW k \in Handlers
      PROVE  /\ pc'[k] \in Starts => request'[k] \in Requests
             /\ pc'[k] \in {"reset", "spawn"} => Valid(request'[k])
             /\ pc'[k] \in {"load", "reset", "spawn"} => handle' = "none"
             /\ pc'[k] \in Starts \ {"spawn"} => ~table.running
             /\ pc'[k] = "spawn" => Ready(request[k]) /\ request'[k] = request[k]
  BY <1>1, <1>3 DEF HandlersOK, Starts
<1>6. \A j : Ready(j)' <=> Ready(j)
  BY DEF Ready
<1>7. ~dead' /\ (thread' = "runs" => table'.running)
  BY <1>1 DEF HandlersOK
<1>8. ASSUME NEW k \in Handlers, pc'[k] = "spawn"
      PROVE  Ready(request[k])' 
  BY <1>5, <1>6, <1>8 DEF Ready
<1>9. HandlersOK'
  BY <1>4, <1>5, <1>7, <1>8 DEF HandlersOK
<1> QED BY <1>1, <1>2, <1>9 DEF IInv

LEMMA StartJoinsKeeps ==
  ASSUME IInv, NEW h \in Handlers, StartJoins(h)
  PROVE  IInv'
<1>1. /\ Typed /\ HandlersOK /\ FlagsOK /\ pc[h] = "join to start"
      /\ UNCHANGED <<table, handle, thread, halted, log, dead>> /\ UNCHANGED crew
      /\ abort' = abort
  BY DEF IInv, StartJoins, crew
<1>2. /\ handle \in {"none", "joinable"} /\ thread \in {"none", "runs", "returns", "gone"}
      /\ halted \in BOOLEAN /\ stop \in BOOLEAN /\ asked \in BOOLEAN
      /\ (handle = "none") = (thread = "none")
      /\ joiner \in Handlers \cup {Nobody} /\ (joiner # Nobody => handle = "joinable")
      /\ \A k \in Handlers : joiner = k <=> pc[k] \in Joins
      /\ pc[h] \in Starts \ {"spawn"}
  BY <1>1 DEF Typed, HandlersOK, Starts
<1>3. CASE handle = "none"
  <2>1. /\ stop' = FALSE /\ asked' = FALSE /\ pc' = [pc EXCEPT ![h] = "load"]
        /\ UNCHANGED <<joiner, request>>
    BY <1>3 DEF StartJoins, FlagCleared
  <2>2. "load" \in PCs /\ "load" \notin Joins /\ pc[h] \notin Joins
    BY <1>1 DEF PCs, Starts, Joins
  <2>3. /\ pc' \in [Handlers -> PCs] /\ request' \in [Handlers -> Requests \cup {NoJob}]
        /\ pc'[h] = "load" /\ request'[h] = request[h]
        /\ \A k \in Handlers : k # h => pc'[k] = pc[k] /\ request'[k] = request[k]
    BY <1>1, <2>1, <2>2, GoesIs
  <2>4. \A k \in Handlers : joiner' = k <=> pc'[k] \in Joins
    BY <1>2, <2>1, <2>2, <2>3
  <2>5. FlagsOK'
    BY <1>1, <2>1 DEF FlagsOK
  <2> QED BY <1>1, <1>2, <1>3, <2>1, <2>3, <2>4, <2>5, HandlerKeeps
<1>4. CASE handle # "none"
  <2>1. JoinBegins(h, "joins to start") /\ UNCHANGED <<stop, asked>>
    BY <1>4 DEF StartJoins
  <2>2. "joins to start" \in Joins /\ pc[h] \notin Joins /\ "idle" \notin Starts
    BY <1>1 DEF Starts, Joins
  <2>3. /\ pc' \in [Handlers -> PCs] /\ request' \in [Handlers -> Requests \cup {NoJob}]
        /\ \A k \in Handlers : k # h => pc'[k] = pc[k] /\ request'[k] = request[k]
        /\ joiner' \in Handlers \cup {Nobody}
        /\ \A k \in Handlers : joiner' = k <=> pc'[k] \in Joins
        /\ \/ pc'[h] = "idle"
           \/ pc'[h] = "joins to start" /\ request'[h] = request[h]
    BY <1>1, <2>1, <2>2, JoinBeginsIs
  <2>5. FlagsOK'
    BY <1>1, <2>1 DEF FlagsOK
  <2>6. handle' = "joinable" /\ handle # "none"
    BY <1>1, <1>2, <1>4
  <2>7. pc'[h] \in Starts => /\ request'[h] = request[h]
                             /\ pc'[h] # "spawn" /\ pc'[h] # "reset"
    BY <2>2, <2>3
  <2>8. pc'[h] \notin {"load", "reset"}
    BY <2>3
  <2> QED BY <1>1, <1>2, <2>1, <2>3, <2>5, <2>6, <2>7, <2>8, HandlerKeeps
<1> QED BY <1>3, <1>4

\* A join that ends.
LEMMA JoinedIs ==
  ASSUME Typed, HandlersOK, NEW h \in Handlers, Joined(h)
  PROVE  /\ handle' = "none" /\ thread' = "none" /\ joiner' = Nobody
         /\ thread = "gone" /\ handle # "none"
         /\ \A k \in Handlers : k # h => pc[k] \notin Joins
         /\ Nobody \notin Handlers
<1>1. joiner = h /\ thread = "gone" /\ handle' = "none" /\ thread' = "none" /\ joiner' = Nobody
  BY DEF Joined
<1> QED BY <1>1, TournamentAssumption DEF HandlersOK

LEMMA StartJoinedKeeps ==
  ASSUME IInv, NEW h \in Handlers, StartJoined(h)
  PROVE  IInv'
<1>1. /\ Typed /\ HandlersOK /\ FlagsOK /\ pc[h] = "joins to start" /\ Joined(h)
      /\ stop' = FALSE /\ asked' = FALSE /\ pc' = [pc EXCEPT ![h] = "load"]
      /\ UNCHANGED <<table, request, halted, log, dead>> /\ UNCHANGED crew
      /\ abort' = abort
  BY DEF IInv, StartJoined, FlagCleared, crew
<1>2. /\ handle' = "none" /\ thread' = "none" /\ joiner' = Nobody /\ thread = "gone"
      /\ handle # "none" /\ Nobody \notin Handlers
      /\ \A k \in Handlers : k # h => pc[k] \notin Joins
  BY <1>1, JoinedIs
<1>3. "load" \in PCs /\ "load" \notin Joins /\ pc[h] \in Starts \ {"spawn"}
  BY <1>1 DEF PCs, Starts, Joins
<1>4. /\ pc' \in [Handlers -> PCs] /\ request' \in [Handlers -> Requests \cup {NoJob}]
      /\ pc'[h] = "load" /\ request'[h] = request[h]
      /\ \A k \in Handlers : k # h => pc'[k] = pc[k] /\ request'[k] = request[k]
  BY <1>1, <1>3, GoesIs
<1>5. \A k \in Handlers : joiner' = k <=> pc'[k] \in Joins
  BY <1>2, <1>3, <1>4
<1>6. FlagsOK' /\ halted' \in BOOLEAN
  BY <1>1, <1>2 DEF FlagsOK, Typed
<1> QED BY <1>1, <1>2, <1>3, <1>4, <1>5, <1>6, HandlerKeeps

LEMMA StopJoinedKeeps ==
  ASSUME IInv, NEW h \in Handlers, StopJoined(h)
  PROVE  IInv'
<1>1. /\ Typed /\ HandlersOK /\ FlagsOK /\ pc[h] = "joins to stop" /\ Joined(h)
      /\ stop' = FALSE /\ asked' = asked /\ pc' = [pc EXCEPT ![h] = "idle"]
      /\ UNCHANGED <<table, request, halted, log, dead>> /\ UNCHANGED crew
      /\ abort' = abort
  BY DEF IInv, StopJoined, crew
<1>2. /\ handle' = "none" /\ thread' = "none" /\ joiner' = Nobody /\ thread = "gone"
      /\ handle # "none" /\ Nobody \notin Handlers
      /\ \A k \in Handlers : k # h => pc[k] \notin Joins
  BY <1>1, JoinedIs
<1>3. "idle" \in PCs /\ "idle" \notin Joins /\ "idle" \notin Starts
  BY <1>1 DEF PCs, Starts, Joins
<1>4. /\ pc' \in [Handlers -> PCs] /\ request' \in [Handlers -> Requests \cup {NoJob}]
      /\ pc'[h] = "idle"
      /\ \A k \in Handlers : k # h => pc'[k] = pc[k] /\ request'[k] = request[k]
  BY <1>1, <1>3, GoesIs
<1>5. \A k \in Handlers : joiner' = k <=> pc'[k] \in Joins
  BY <1>2, <1>3, <1>4
<1>6. FlagsOK' /\ halted' \in BOOLEAN /\ asked' \in BOOLEAN
  BY <1>1, <1>2 DEF FlagsOK, Typed
<1> QED BY <1>1, <1>2, <1>3, <1>4, <1>5, <1>6, HandlerKeeps

LEMMA StartLoadsKeeps ==
  ASSUME IInv, NEW h \in Handlers, StartLoads(h)
  PROVE  IInv'
<1>1. /\ Typed /\ HandlersOK /\ FlagsOK /\ pc[h] = "load"
      /\ UNCHANGED <<table, stop, handle, thread, joiner, asked, halted, log, dead>>
      /\ UNCHANGED crew /\ abort' = abort
  BY DEF IInv, StartLoads, crew
<1>2. /\ handle \in {"none", "joinable"} /\ thread \in {"none", "runs", "returns", "gone"}
      /\ halted \in BOOLEAN /\ stop \in BOOLEAN /\ asked \in BOOLEAN
      /\ (handle = "none") = (thread = "none") /\ handle = "none"
      /\ joiner \in Handlers \cup {Nobody} /\ (joiner # Nobody => handle = "joinable")
      /\ \A k \in Handlers : joiner = k <=> pc[k] \in Joins
      /\ pc[h] \in Starts \ {"spawn"} /\ pc[h] \notin Joins
  BY <1>1 DEF Typed, HandlersOK, Starts, Joins
<1>3. FlagsOK'
  BY <1>1 DEF FlagsOK
<1>4. "idle" \notin Joins /\ "idle" \notin Starts /\ "reset" \notin Joins /\ "reset" \in PCs
  BY DEF Joins, Starts, PCs
<1>5. CASE Valid(request[h])
  <2>1. pc' = [pc EXCEPT ![h] = "reset"] /\ UNCHANGED request
    BY <1>5 DEF StartLoads
  <2>2. /\ pc' \in [Handlers -> PCs] /\ request' \in [Handlers -> Requests \cup {NoJob}]
        /\ pc'[h] = "reset" /\ request'[h] = request[h]
        /\ \A k \in Handlers : k # h => pc'[k] = pc[k] /\ request'[k] = request[k]
    BY <1>1, <1>4, <2>1, GoesIs
  <2>3. \A k \in Handlers : joiner' = k <=> pc'[k] \in Joins
    BY <1>1, <1>2, <1>4, <2>2
  <2> QED BY <1>1, <1>2, <1>3, <1>5, <2>2, <2>3, HandlerKeeps
<1>6. CASE ~Valid(request[h])
  <2>1. Answered(h)
    BY <1>6 DEF StartLoads
  <2>2. /\ pc' \in [Handlers -> PCs] /\ request' \in [Handlers -> Requests \cup {NoJob}]
        /\ pc'[h] = "idle"
        /\ \A k \in Handlers : k # h => pc'[k] = pc[k] /\ request'[k] = request[k]
    BY <1>1, <2>1, AnsweredIs
  <2>3. \A k \in Handlers : joiner' = k <=> pc'[k] \in Joins
    BY <1>1, <1>2, <1>4, <2>2
  <2> QED BY <1>1, <1>2, <1>3, <1>4, <2>2, <2>3, HandlerKeeps
<1> QED BY <1>5, <1>6

LEMMA StopAskedKeeps ==
  ASSUME IInv, NEW h \in Handlers, StopAsked(h)
  PROVE  IInv'
<1>1. /\ Typed /\ HandlersOK /\ FlagsOK /\ pc[h] = "idle"
      /\ stop' = TRUE /\ asked' = TRUE /\ halted' = TRUE
      /\ pc' = [pc EXCEPT ![h] = "join to stop"]
      /\ UNCHANGED <<table, handle, thread, joiner, request, log, dead>>
      /\ UNCHANGED crew /\ abort' = abort
  BY DEF IInv, StopAsked, crew
<1>2. /\ handle \in {"none", "joinable"} /\ thread \in {"none", "runs", "returns", "gone"}
      /\ (handle = "none") = (thread = "none")
      /\ joiner \in Handlers \cup {Nobody} /\ (joiner # Nobody => handle = "joinable")
      /\ \A k \in Handlers : joiner = k <=> pc[k] \in Joins
      /\ pc[h] \notin Joins
  BY <1>1 DEF Typed, HandlersOK, Joins
<1>3. FlagsOK'
  BY <1>1 DEF FlagsOK
<1>4. "join to stop" \notin Joins /\ "join to stop" \notin Starts /\ "join to stop" \in PCs
  BY DEF Joins, Starts, PCs
<1>5. /\ pc' \in [Handlers -> PCs] /\ request' \in [Handlers -> Requests \cup {NoJob}]
      /\ pc'[h] = "join to stop"
      /\ \A k \in Handlers : k # h => pc'[k] = pc[k] /\ request'[k] = request[k]
  BY <1>1, <1>4, GoesIs
<1>6. \A k \in Handlers : joiner' = k <=> pc'[k] \in Joins
  BY <1>1, <1>2, <1>4, <1>5
<1> QED BY <1>1, <1>2, <1>3, <1>4, <1>5, <1>6, HandlerKeeps

LEMMA StopJoinsKeeps ==
  ASSUME IInv, NEW h \in Handlers, StopJoins(h)
  PROVE  IInv'
<1>1. /\ Typed /\ HandlersOK /\ FlagsOK /\ pc[h] = "join to stop"
      /\ UNCHANGED <<table, handle, thread, asked, halted, log, dead>>
      /\ UNCHANGED crew /\ abort' = abort
  BY DEF IInv, StopJoins, crew
<1>2. /\ handle \in {"none", "joinable"} /\ thread \in {"none", "runs", "returns", "gone"}
      /\ halted \in BOOLEAN /\ stop \in BOOLEAN /\ asked \in BOOLEAN
      /\ (handle = "none") = (thread = "none")
      /\ joiner \in Handlers \cup {Nobody} /\ (joiner # Nobody => handle = "joinable")
      /\ \A k \in Handlers : joiner = k <=> pc[k] \in Joins
      /\ pc[h] \notin Joins
  BY <1>1 DEF Typed, HandlersOK, Joins
<1>3. "idle" \notin Joins /\ "idle" \notin Starts /\ "joins to stop" \in Joins
      /\ "joins to stop" \notin Starts
  BY DEF Joins, Starts
<1>4. CASE handle = "none"
  <2>1. stop' = FALSE /\ Answered(h) /\ UNCHANGED joiner
    BY <1>4 DEF StopJoins
  <2>2. /\ pc' \in [Handlers -> PCs] /\ request' \in [Handlers -> Requests \cup {NoJob}]
        /\ pc'[h] = "idle"
        /\ \A k \in Handlers : k # h => pc'[k] = pc[k] /\ request'[k] = request[k]
    BY <1>1, <2>1, AnsweredIs
  <2>3. \A k \in Handlers : joiner' = k <=> pc'[k] \in Joins
    BY <1>2, <1>3, <2>1, <2>2
  <2>4. FlagsOK'
    BY <1>1, <2>1 DEF FlagsOK
  <2> QED BY <1>1, <1>2, <1>3, <2>1, <2>2, <2>3, <2>4, HandlerKeeps
<1>5. CASE handle # "none"
  <2>1. JoinBegins(h, "joins to stop") /\ UNCHANGED stop
    BY <1>5 DEF StopJoins
  <2>2. /\ pc' \in [Handlers -> PCs] /\ request' \in [Handlers -> Requests \cup {NoJob}]
        /\ \A k \in Handlers : k # h => pc'[k] = pc[k] /\ request'[k] = request[k]
        /\ joiner' \in Handlers \cup {Nobody}
        /\ \A k \in Handlers : joiner' = k <=> pc'[k] \in Joins
        /\ \/ pc'[h] = "idle"
           \/ pc'[h] = "joins to stop" /\ request'[h] = request[h]
    BY <1>1, <1>2, <1>3, <2>1, JoinBeginsIs
  <2>3. FlagsOK'
    BY <1>1, <2>1 DEF FlagsOK
  <2>4. handle' = "joinable" /\ pc'[h] \notin Starts /\ pc'[h] \notin {"load", "reset"}
    BY <1>1, <1>2, <1>3, <1>5, <2>2
  <2> QED BY <1>1, <1>2, <2>1, <2>2, <2>3, <2>4, HandlerKeeps
<1> QED BY <1>4, <1>5

\* Nobody is reset or spawned while a tournament is on its thread.
LEMMA ThreadKeepsHandlers ==
  ASSUME HandlersOK, thread # "none", thread' # "none",
         UNCHANGED <<handle, joiner, pc, request, dead>>,
         table'.running => table.running, thread' = "runs" => table'.running
  PROVE  HandlersOK'
<1>1. \A h \in Handlers : pc[h] # "spawn"
  BY DEF HandlersOK
<1> QED BY <1>1 DEF HandlersOK

LEMMA StartResetsKeeps ==
  ASSUME IInv, NEW h \in Handlers, StartResets(h)
  PROVE  IInv'
<1> DEFINE j == request[h]
           P == Players(j)
<1>1. /\ Typed /\ HandlersOK /\ FlagsOK /\ CrewOK /\ pc[h] = "reset"
      /\ table' = [running |-> TRUE, completed |-> 0, total |-> TotalGames(j),
                   grid |-> EmptyGrid(j), error |-> FALSE]
      /\ log' = {} /\ halted' = asked /\ pc' = [pc EXCEPT ![h] = "spawn"]
      /\ UNCHANGED <<stop, handle, thread, joiner, request, asked, dead>>
      /\ UNCHANGED <<job, next, abort, worker, playing>>
  BY DEF IInv, StartResets, crew
<1> HIDE DEF j
<1>2. /\ handle = "none" /\ thread = "none" /\ Valid(request[h]) /\ request[h] \in Requests
      /\ \A k \in Handlers : k # h => pc[k] \notin Starts
  BY <1>1 DEF HandlersOK, Starts
<1>3. /\ pc' \in [Handlers -> PCs] /\ pc'[h] = "spawn" /\ request' = request
      /\ \A k \in Handlers : k # h => pc'[k] = pc[k]
  BY <1>1 DEF Typed, PCs, Starts
<1>4. /\ table'.running = TRUE /\ table'.completed = 0 /\ table'.total = TotalGames(j)
      /\ table'.grid = EmptyGrid(j) /\ table'.error = FALSE
  BY <1>1
<1>5. /\ EmptyGrid(j) = [p \in P |-> EmptyGrid(j)[p]] /\ DOMAIN EmptyGrid(j) = P
      /\ \A p \in P : EmptyGrid(j)[p] = [q \in P \ {p} |-> NoGames]
  BY DEF EmptyGrid
<1> HIDE DEF P
<1>6. Typed'
  <2>1. /\ table' = [running |-> table'.running, completed |-> table'.completed,
                     total |-> table'.total, grid |-> table'.grid, error |-> table'.error]
        /\ table'.running \in BOOLEAN /\ table'.error \in BOOLEAN
    BY <1>1, <1>4
  <2>2. /\ stop' \in BOOLEAN /\ asked' \in BOOLEAN /\ halted' \in BOOLEAN /\ abort' \in BOOLEAN
    BY <1>1 DEF Typed
  <2> QED BY <1>1, <1>3, <2>1, <2>2 DEF Typed
<1>7. GridOK'
  <2>1. NoGames \in Rows
    BY DEF NoGames, Rows
  <2>2. \A p \in P : EmptyGrid(j)[p] \in [P \ {p} -> Rows]
    BY <1>5, <2>1
  <2> QED BY <1>4, <1>5, <2>2 DEF GridOK
<1>8. LogOK'
  BY <1>1, FS_EmptySet DEF LogOK
<1>9. HandlersOK'
  <2>1. Ready(request[h])'
    BY <1>1, <1>3, <1>4, <1>5 DEF Ready, j, P
  <2>2. \A k \in Handlers : joiner' = k <=> pc'[k] \in Joins
    BY <1>1, <1>3 DEF HandlersOK, Joins
  <2>3. \A k \in Handlers : k # h => pc'[k] \notin Starts
    BY <1>2, <1>3
  <2>4. ASSUME NEW k \in Handlers
        PROVE  /\ pc'[k] \in Starts => request'[k] \in Requests
               /\ pc'[k] \in {"reset", "spawn"} => Valid(request'[k])
               /\ pc'[k] \in {"load", "reset", "spawn"} => handle' = "none"
               /\ pc'[k] \in Starts \ {"spawn"} => ~table'.running
               /\ (pc[k] = "spawn" => Ready(request[k]))'
    <3>1. CASE k = h
      BY <1>1, <1>2, <1>3, <2>1, <3>1
    <3>2. CASE k # h
      BY <2>3, <3>2 DEF Starts
    <3> QED BY <3>1, <3>2
  <2> QED BY <1>1, <1>2, <1>3, <2>2, <2>3, <2>4 DEF HandlersOK
<1>10. FlagsOK'
  BY <1>1, <1>2 DEF FlagsOK
<1>11. CrewOK'
  BY <1>1, <1>2 DEF CrewOK
<1>12. TalliesAgree'
  <2>1. \A p, q : RowIs(NoGames, {}, p, q)
    <3> SUFFICES ASSUME NEW p, NEW q PROVE RowIs(NoGames, {}, p, q)
      OBVIOUS
    <3>1. /\ PairOf({}, p, q) = {}
          /\ {l \in {} : Won(p, l)} = {} /\ {l \in {} : Won(q, l)} = {}
          /\ {l \in {} : l.duel = 0} = {}
      BY DEF PairOf
    <3> QED BY <3>1, FS_EmptySet DEF RowIs, NoGames
  <2>2. NoGames.margin = -NoGames.margin
    <3>1. 0 = NoGames.margin /\ NoGames.margin \in Int
      BY DEF NoGames
    <3>2. \A i \in Int : 0 = i => i = -i
      OBVIOUS
    <3> QED BY <3>1, <3>2, Zenon
  <2>3. \A p \in P : \A q \in P \ {p} :
           EmptyGrid(j)[p][q] = NoGames /\ EmptyGrid(j)[q][p] = NoGames
    <3> SUFFICES ASSUME NEW p \in P, NEW q \in P \ {p}
                 PROVE  EmptyGrid(j)[p][q] = NoGames /\ EmptyGrid(j)[q][p] = NoGames
      OBVIOUS
    <3>1. /\ EmptyGrid(j)[p] = [r \in P \ {p} |-> NoGames]
          /\ EmptyGrid(j)[q] = [r \in P \ {q} |-> NoGames]
      BY <1>5
    <3> QED BY <3>1
  <2>4. \A p \in P : DOMAIN EmptyGrid(j)[p] = P \ {p}
    BY <1>5
  <2>5. \A p \in DOMAIN EmptyGrid(j) : \A q \in DOMAIN EmptyGrid(j)[p] :
           /\ RowIs(EmptyGrid(j)[p][q], {}, p, q)
           /\ EmptyGrid(j)[p][q].margin = -EmptyGrid(j)[q][p].margin
    BY <1>5, <2>1, <2>2, <2>3, <2>4
  <2> QED BY <1>1, <1>4, <2>5, TalliesAreNext, FS_EmptySet
<1>13. CompleteUnlessStopped'
  BY <1>4 DEF CompleteUnlessStopped
<1> QED BY <1>6, <1>7, <1>8, <1>9, <1>10, <1>11, <1>12, <1>13 DEF IInv

\* The crew that is spawned has its first worker.
LEMMA FirstWorker ==
  ASSUME NEW n \in Nat
  PROVE  0 \in Crew /\ 0 < Max({1, Min({Cardinality(Crew), n})})
<1> DEFINE c == Cardinality(Crew)
           m == Min({c, n})
           x == Max({1, m})
<1>1. c \in Nat /\ Crew = 0 .. c - 1 /\ Crew # {}
  BY TournamentAssumption, FS_CardinalityType
<1> HIDE DEF c
<1>2. m \in {c, n}
  <2>1. \E y \in {c, n} : \A z \in {c, n} : y =< z
    BY <1>1
  <2> QED BY <2>1 DEF Min
<1> HIDE DEF m
<1>3. x \in {1, m} /\ \A y \in {1, m} : x >= y
  <2>1. m \in Nat
    BY <1>1, <1>2
  <2>2. \E y \in {1, m} : \A z \in {1, m} : y >= z
    BY <2>1
  <2> QED BY <2>2 DEF Max
<1> HIDE DEF x
<1>4. 0 \in Crew
  BY <1>1
<1>5. 0 < x
  BY <1>1, <1>2, <1>3
<1> QED BY <1>4, <1>5 DEF x, m, c

LEMMA StartSpawnsKeeps ==
  ASSUME IInv, NEW h \in Handlers, StartSpawns(h)
  PROVE  IInv'
<1> DEFINE j == request[h]
<1>1. /\ Typed /\ GridOK /\ LogOK /\ HandlersOK /\ FlagsOK /\ CrewOK /\ TalliesAgree
      /\ CompleteUnlessStopped /\ pc[h] = "spawn" /\ Answered(h)
      /\ UNCHANGED <<table, stop, joiner, asked, halted, log>>
  BY DEF IInv, StartSpawns
<1>2. /\ handle = "none" /\ thread = "none" /\ joiner = Nobody /\ Valid(j) /\ j \in Requests
      /\ Ready(j) /\ ~dead /\ \A k \in Handlers : k # h => pc[k] \notin Starts
  BY <1>1 DEF HandlersOK, Starts
<1>3. /\ handle' = "joinable" /\ thread' = "runs" /\ job' = Tasks(j) /\ next' = 1
      /\ abort' = FALSE /\ playing' = [w \in Crew |-> 0] /\ dead' = dead
      /\ worker' = [w \in Crew |->
                       IF w < Max({1, Min({Cardinality(Crew), Len(job')})})
                       THEN "ready" ELSE "out"]
  BY <1>2 DEF StartSpawns
<1> HIDE DEF j
<1>4. Wanted(j)
  <2>1. j.games \in Int /\ j.players \in Seq(Players(j))
    BY <1>2, TournamentAssumption DEF Players
  <2> QED BY <1>2, <2>1 DEF Valid, Wanted
<1>5. /\ job' \in Seq(TaskSet(j)) /\ Len(job') = TotalGames(j)
      /\ \A x \in 1 .. Len(job') : job'[x].a # job'[x].b
      /\ \A x, y \in 1 .. Len(job') : job'[x] = job'[y] => x = y
  BY <1>3, <1>4, TasksAre
<1>6. 0 \in Crew /\ worker'[0] = "ready"
  <2>1. Len(job') \in Nat
    BY <1>5
  <2> QED BY <1>3, <2>1, FirstWorker
<1>7. /\ worker' \in [Crew -> {"off", "ready", "plays", "out"}]
      /\ \A w \in Crew : worker'[w] # "plays"
  BY <1>3
<1>8. /\ pc' \in [Handlers -> PCs] /\ request' \in [Handlers -> Requests \cup {NoJob}]
      /\ pc'[h] = "idle" /\ \A k \in Handlers : k # h => pc'[k] = pc[k]
  BY <1>1, AnsweredIs
<1>9. Typed'
  <2>1. playing' \in [Crew -> Nat] /\ next' \in Nat \ {0}
    BY <1>3
  <2>2. /\ handle' \in {"none", "joinable"}
        /\ thread' \in {"none", "runs", "returns", "gone"}
    BY <1>3
  <2>3. abort' \in BOOLEAN
    BY <1>3
  <2> QED BY <1>1, <1>7, <1>8, <2>1, <2>2, <2>3 DEF Typed
<1>10. GridOK' /\ LogOK' /\ TalliesAgree' /\ CompleteUnlessStopped'
  <2>1. GridOK'
    BY <1>1 DEF GridOK
  <2>2. LogOK'
    BY <1>1 DEF LogOK
  <2>3. TalliesAgree'
    BY <1>1, TalliesAre, TalliesAreNext
  <2>4. CompleteUnlessStopped'
    BY <1>1 DEF CompleteUnlessStopped
  <2> QED BY <2>1, <2>2, <2>3, <2>4
<1>11. HandlersOK'
  <2>1. \A k \in Handlers : pc'[k] \notin Starts
    BY <1>2, <1>8 DEF Starts
  <2>2. \A k \in Handlers : joiner' = k <=> pc'[k] \in Joins
    BY <1>1, <1>8 DEF HandlersOK, Joins
  <2>3. table'.running
    BY <1>1, <1>2 DEF Ready
  <2> QED BY <1>1, <1>2, <1>3, <2>1, <2>2, <2>3 DEF HandlersOK, Starts
<1>12. FlagsOK'
  BY <1>1, <1>3 DEF FlagsOK
<1>13. CrewOK'
  <2>1. log' = {} /\ DOMAIN table'.grid = Players(j) /\ table'.total = TotalGames(j)
    BY <1>1, <1>2 DEF Ready
  <2>2. JobOK'
    BY <1>5, <2>1 DEF JobOK, TaskSet
  <2>3. PlayedOK'
    BY <1>7, <2>1 DEF PlayedOK
  <2>4. GoingOn'
    <3>1. \A i \in 1 .. Len(job') : ~(i < next')
      BY <1>3
    <3> QED BY <1>6, <3>1 DEF GoingOn
  <2> QED BY <1>3, <2>2, <2>3, <2>4 DEF CrewOK
<1> QED BY <1>9, <1>10, <1>11, <1>12, <1>13 DEF IInv

-----------------------------------------------------------------------------
(* The thread and its crew.                                                 *)

LEMMA TakeKeeps ==
  ASSUME IInv, NEW w \in Crew, Take(w)
  PROVE  IInv'
<1>1. /\ Typed /\ GridOK /\ LogOK /\ HandlersOK /\ FlagsOK /\ CrewOK /\ TalliesAgree
      /\ CompleteUnlessStopped /\ thread = "runs" /\ worker[w] = "ready" /\ next' = next + 1
      /\ UNCHANGED <<table, stop, handle, thread, joiner, pc, request, job, abort, asked,
                     halted, log, dead>>
  BY DEF IInv, Take
<1>2. JobOK /\ PlayedOK /\ GoingOn
  BY <1>1 DEF CrewOK
<1>3. next \in Nat \ {0} /\ worker \in [Crew -> {"off", "ready", "plays", "out"}]
      /\ playing \in [Crew -> Nat]
  BY <1>1 DEF Typed
<1>4. JobOK'
  BY <1>1, <1>2 DEF JobOK
<1>5. Len(job) \in Nat
  BY <1>2 DEF JobOK
<1>6. ASSUME next > Len(job) \/ stop \/ abort
      PROVE  /\ worker' \in [Crew -> {"off", "ready", "plays", "out"}]
             /\ playing' \in [Crew -> Nat] /\ next' \in Nat \ {0} /\ PlayedOK' /\ GoingOn'
  <2>1. worker' = [worker EXCEPT ![w] = "out"] /\ playing' = playing
    BY <1>6 DEF Take, Goes
  <2>2. /\ worker' \in [Crew -> {"off", "ready", "plays", "out"}]
        /\ playing' \in [Crew -> Nat] /\ next' \in Nat \ {0}
        /\ \A v \in Crew : worker'[v] = "plays" <=> worker[v] = "plays"
    BY <1>1, <1>3, <2>1
  <2>3. PlayedOK'
    <3>1. \A i : Taken(i) => Taken(i)'
      BY <1>1, <1>3 DEF Taken
    <3>2. \A v \in Crew : worker'[v] = "plays" =>
            /\ Taken(playing[v])'
            /\ \A l \in log : l.task # job[playing[v]]
            /\ \A u \in Crew : worker'[u] = "plays" /\ playing[u] = playing[v] => u = v
      BY <1>2, <2>1, <2>2, <3>1 DEF PlayedOK, Taken
    <3>3. \A l \in log : \E i \in 1 .. Len(job) : i < next' /\ l.task = job[i]
      BY <1>1, <1>2, <1>3 DEF PlayedOK
    <3> QED BY <1>1, <2>1, <3>2, <3>3 DEF PlayedOK, Taken
  <2>4. GoingOn'
    <3> SUFFICES ASSUME ~halted, ~table.error
                 PROVE  /\ \A i \in 1 .. Len(job) : i < next' =>
                             \/ \E l \in log : l.task = job[i]
                             \/ \E v \in Crew : worker'[v] = "plays" /\ playing'[v] = i
                        /\ worker'[0] = "out" => next' > Len(job)
      BY <1>1 DEF GoingOn
    <3>1. next > Len(job)
      BY <1>1, <1>6 DEF FlagsOK
    <3>2. \A i \in 1 .. Len(job) : i < next
      BY <1>3, <1>5, <3>1
    <3>3. next' > Len(job)
      BY <1>1, <1>3, <1>5, <3>1
    <3> QED BY <1>2, <2>1, <2>2, <3>2, <3>3 DEF GoingOn
  <2> QED BY <2>2, <2>3, <2>4
<1>7. ASSUME ~(next > Len(job) \/ stop \/ abort)
      PROVE  /\ worker' \in [Crew -> {"off", "ready", "plays", "out"}]
             /\ playing' \in [Crew -> Nat] /\ next' \in Nat \ {0} /\ PlayedOK' /\ GoingOn'
  <2>1. /\ worker' = [worker EXCEPT ![w] = "plays"] /\ playing' = [playing EXCEPT ![w] = next]
        /\ next \in 1 .. Len(job)
    BY <1>3, <1>5, <1>7 DEF Take, Goes
  <2>2. /\ worker' \in [Crew -> {"off", "ready", "plays", "out"}]
        /\ playing' \in [Crew -> Nat] /\ next' \in Nat \ {0}
        /\ worker'[w] = "plays" /\ playing'[w] = next
        /\ \A v \in Crew : v # w => worker'[v] = worker[v] /\ playing'[v] = playing[v]
    BY <1>1, <1>3, <2>1
  <2>3. PlayedOK'
    <3>1. \A v \in Crew : worker[v] = "plays" => Taken(playing[v]) /\ playing[v] # next
      BY <1>2, <1>3 DEF PlayedOK, Taken
    <3>2. \A i : Taken(i) => Taken(i)'
      BY <1>1, <1>3 DEF Taken
    <3>3. next \in 1 .. Len(job) /\ next < next'
      BY <1>1, <1>3, <2>1
    <3>4. \A l \in log : l.task # job[next]
      <4> SUFFICES ASSUME NEW l \in log, l.task = job[next] PROVE FALSE
        OBVIOUS
      <4>1. PICK i \in 1 .. Len(job) : i < next /\ l.task = job[i]
        BY <1>2 DEF PlayedOK
      <4>2. i = next
        BY <1>2, <2>1, <4>1 DEF JobOK
      <4> QED BY <1>3, <4>1, <4>2
    <3>5. ASSUME NEW v \in Crew, worker'[v] = "plays"
          PROVE  /\ (playing'[v] \in 1 .. Len(job') /\ playing'[v] < next')
                 /\ \A l \in log : l.task # job[playing'[v]]
                 /\ \A u \in Crew : worker'[u] = "plays" /\ playing'[u] = playing'[v] => u = v
      <4>1. CASE v = w
        BY <1>1, <2>2, <3>1, <3>3, <3>4, <4>1 DEF Taken
      <4>2. CASE v # w
        <5>1. worker[v] = "plays" /\ playing'[v] = playing[v]
          BY <2>2, <3>5, <4>2
        <5>2. playing'[v] \in 1 .. Len(job') /\ playing'[v] < next'
          BY <3>1, <3>2, <5>1 DEF Taken
        <5>3. \A l \in log : l.task # job[playing'[v]]
          BY <1>2, <5>1 DEF PlayedOK
        <5>4. \A u \in Crew : worker'[u] = "plays" /\ playing'[u] = playing'[v] => u = v
          BY <1>2, <2>2, <3>1, <5>1 DEF PlayedOK
        <5> QED BY <5>2, <5>3, <5>4
      <4> QED BY <4>1, <4>2
    <3>6. \A l \in log : \E i \in 1 .. Len(job) : i < next' /\ l.task = job[i]
      BY <1>1, <1>2, <1>3 DEF PlayedOK
    <3> QED BY <1>1, <3>5, <3>6 DEF PlayedOK, Taken
  <2>4. GoingOn'
    <3> SUFFICES ASSUME ~halted, ~table.error
                 PROVE  /\ \A i \in 1 .. Len(job) : i < next' =>
                             \/ \E l \in log : l.task = job[i]
                             \/ \E v \in Crew : worker'[v] = "plays" /\ playing'[v] = i
                        /\ worker'[0] = "out" => next' > Len(job)
      BY <1>1 DEF GoingOn
    <3>1. ASSUME NEW i \in 1 .. Len(job), i < next'
          PROVE  \/ \E l \in log : l.task = job[i]
                 \/ \E v \in Crew : worker'[v] = "plays" /\ playing'[v] = i
      <4>1. CASE i = next
        BY <2>2, <4>1
      <4>2. CASE i # next
        <5>1. i < next
          BY <1>1, <1>3, <3>1, <4>2
        <5>2. CASE \E l \in log : l.task = job[i]
          BY <5>2
        <5>3. CASE \E v \in Crew : worker[v] = "plays" /\ playing[v] = i
          BY <1>1, <2>2, <5>3
        <5> QED BY <1>2, <5>1, <5>2, <5>3 DEF GoingOn
      <4> QED BY <4>1, <4>2
    <3>2. ASSUME worker'[0] = "out"
          PROVE  FALSE
      <4>1. 0 \in Crew
        BY FirstWorker
      <4>2. worker[0] = "out"
        BY <2>2, <3>2, <4>1
      <4>3. next > Len(job)
        BY <1>2, <4>2 DEF GoingOn
      <4> QED BY <1>7, <4>3
    <3> QED BY <3>1, <3>2
  <2> QED BY <2>2, <2>3, <2>4
<1>8. /\ worker' \in [Crew -> {"off", "ready", "plays", "out"}]
      /\ playing' \in [Crew -> Nat] /\ next' \in Nat \ {0} /\ PlayedOK' /\ GoingOn'
  BY <1>6, <1>7
<1>9. Typed'
  BY <1>1, <1>8 DEF Typed
<1>10. GridOK' /\ LogOK' /\ FlagsOK' /\ CompleteUnlessStopped'
  <2>1. GridOK'
    BY <1>1 DEF GridOK
  <2>2. LogOK'
    BY <1>1 DEF LogOK
  <2>3. FlagsOK'
    BY <1>1 DEF FlagsOK
  <2>4. CompleteUnlessStopped'
    BY <1>1 DEF CompleteUnlessStopped
  <2> QED BY <2>1, <2>2, <2>3, <2>4
<1>11. TalliesAgree'
  BY <1>1, TalliesAre, TalliesAreNext
<1>12. HandlersOK'
  <2>1. table.running
    BY <1>1 DEF HandlersOK
  <2> QED BY <1>1, <2>1, ThreadKeepsHandlers
<1>13. CrewOK'
  BY <1>1, <1>4, <1>8 DEF CrewOK
<1> QED BY <1>9, <1>10, <1>11, <1>12, <1>13 DEF IInv

LEMMA GameEndsKeeps ==
  ASSUME IInv, NEW w \in Crew, GameEnds(w)
  PROVE  IInv'
<1> DEFINE task == job[playing[w]]
           D == DOMAIN table.grid
<1>1. /\ Typed /\ GridOK /\ LogOK /\ HandlersOK /\ FlagsOK /\ CrewOK /\ TalliesAgree
      /\ worker[w] = "plays" /\ worker' = [worker EXCEPT ![w] = "ready"]
      /\ UNCHANGED <<stop, handle, thread, joiner, pc, request, job, next, abort, playing,
                     asked, halted, dead>>
  BY DEF IInv, GameEnds, Goes
<1>2. thread = "runs" /\ JobOK /\ PlayedOK /\ GoingOn /\ table.running
  BY <1>1 DEF CrewOK, HandlersOK
<1>3. PICK duel \in Duels :
        /\ table' = [table EXCEPT
              !.grid[task.a][task.b] = Counted(@, MarginOfA(duel, task.g)),
              !.grid[task.b][task.a] = Counted(@, -MarginOfA(duel, task.g)),
              !.completed = @ + 1]
        /\ log' = log \cup {[task |-> task, duel |-> duel]}
  BY DEF GameEnds, Duels
<1> DEFINE x == [task |-> task, duel |-> duel]
           m == MarginOfA(duel, task.g)
           c == Counted(table.grid[task.a][task.b], m)
           d == Counted(table.grid[task.b][task.a], -m)
           G == [table.grid EXCEPT ![task.a][task.b] = c, ![task.b][task.a] = d]
<1>4. /\ playing[w] \in 1 .. Len(job) /\ playing[w] < next
      /\ \A l \in log : l.task # task
      /\ \A v \in Crew : worker[v] = "plays" /\ playing[v] = playing[w] => v = w
  BY <1>1, <1>2 DEF PlayedOK, Taken
<1>5. task.a \in D /\ task.b \in D /\ task.g \in Int /\ task.a # task.b
  <2>1. task \in [a : D, b : D, g : Int] /\ task.a # task.b
    <3>1. job \in Seq([a : D, b : D, g : Int]) /\ job[playing[w]].a # job[playing[w]].b
      BY <1>2, <1>4 DEF JobOK
    <3> DEFINE T == [a : D, b : D, g : Int]
    <3> HIDE DEF D, T
    <3>2. job \in Seq(T)
      BY <3>1 DEF T
    <3>3. job[playing[w]] \in T
      BY <1>4, <3>2
    <3> QED BY <3>1, <3>3 DEF T
  <2> HIDE DEF task, D
  <2> QED BY <2>1
<1>6. x.task = task /\ x.duel = duel /\ x = [task |-> x.task, duel |-> x.duel]
  OBVIOUS
<1>7. x \notin log
  BY <1>4, <1>6
<1>8. /\ IsFiniteSet(log) /\ IsFiniteSet(log') /\ log' = log \cup {x}
      /\ Cardinality(log') = Cardinality(log) + 1 /\ Cardinality(log) \in Nat
  BY <1>1, <1>3, <1>7, FS_AddElement, FS_CardinalityType DEF LogOK
<1>9. /\ table.grid = [p \in D |-> table.grid[p]]
      /\ \A p \in D : table.grid[p] \in [D \ {p} -> Rows]
  BY <1>1 DEF GridOK
<1>10. table.grid[task.a][task.b] \in Rows /\ table.grid[task.b][task.a] \in Rows
  BY <1>5, <1>9
<1>11. G = [[table.grid EXCEPT ![task.a][task.b] = c] EXCEPT ![task.b][task.a] = d]
  OBVIOUS
<1>12. table' = [running |-> table.running, completed |-> table.completed + 1,
                 total |-> table.total, grid |-> G, error |-> table.error]
  <2>1. table = [running |-> table.running, completed |-> table.completed,
                 total |-> table.total, grid |-> table.grid, error |-> table.error]
    BY <1>1 DEF Typed
  <2>2. [table.grid EXCEPT ![task.a][task.b] = c][task.b][task.a] = table.grid[task.b][task.a]
    BY <1>5, <1>9
  <2> QED BY <1>3, <2>1, <2>2
<1>13. /\ table'.running = table.running /\ table'.completed = table.completed + 1
       /\ table'.total = table.total /\ table'.grid = G /\ table'.error = table.error
  BY <1>12
<1> HIDE DEF task, D, x, m, c, d, G
<1>14. /\ x.task.a = task.a /\ x.task.b = task.b /\ x.task.g = task.g /\ x.duel = duel
       /\ {x.task.a, x.task.b} = {task.a, task.b}
  BY <1>6
<1>15. m = MarginFor(task.a, x) /\ -m = MarginFor(task.b, x)
  BY <1>5, <1>14 DEF MarginFor, m
<1>16. /\ table.completed = Cardinality(log)
       /\ \A p \in D : \A q \in D \ {p} :
            /\ RowIs(table.grid[p][q], log, p, q)
            /\ table.grid[p][q].margin = -table.grid[q][p].margin
  <2>1. \A p \in D : DOMAIN table.grid[p] = D \ {p}
    BY <1>9
  <2> QED BY <1>1, <2>1, TalliesAre DEF D
<1>17. /\ c \in Rows /\ c.margin = table.grid[task.a][task.b].margin + m
       /\ RowIs(c, log \cup {x}, task.a, task.b)
  <2>1. RowIs(table.grid[task.a][task.b], log, task.a, task.b)
    BY <1>5, <1>16
  <2> QED BY <1>5, <1>7, <1>8, <1>10, <1>14, <1>15, <2>1, RowAdds DEF c
<1>18. /\ d \in Rows /\ d.margin = table.grid[task.b][task.a].margin + (-m)
       /\ RowIs(d, log \cup {x}, task.b, task.a)
  <2>1. RowIs(table.grid[task.b][task.a], log, task.b, task.a)
    BY <1>5, <1>16
  <2>2. {x.task.a, x.task.b} = {task.b, task.a}
    BY <1>14
  <2> QED BY <1>5, <1>7, <1>8, <1>10, <1>14, <1>15, <2>1, <2>2, RowAdds DEF d
<1>19. /\ G = [p \in D |-> G[p]] /\ \A p \in D : G[p] \in [D \ {p} -> Rows]
       /\ G[task.a][task.b] = c /\ G[task.b][task.a] = d
       /\ \A p \in D : \A q \in D \ {p} :
            {p, q} # {task.a, task.b} => G[p][q] = table.grid[p][q]
  <2>1. G = BothRows(table.grid, task.a, task.b, c, d)
    BY DEF G, BothRows
  <2>2. GridOf(table.grid, D)
    BY <1>9 DEF GridOf
  <2>3. /\ GridOf(G, D) /\ G[task.a][task.b] = c /\ G[task.b][task.a] = d
        /\ OtherRows(table.grid, G, D, task.a, task.b)
    BY <1>5, <1>17, <1>18, <2>1, <2>2, TwoRows
  <2> QED BY <2>3 DEF GridOf, OtherRows
<1>20. DOMAIN G = D /\ \A p \in D : DOMAIN G[p] = D \ {p}
  BY <1>19
<1>21. c.margin = -d.margin /\ d.margin = -c.margin
  <2>1. /\ table.grid[task.a][task.b].margin = -table.grid[task.b][task.a].margin
        /\ table.grid[task.a][task.b].margin \in Int
        /\ table.grid[task.b][task.a].margin \in Int
    BY <1>5, <1>10, <1>16 DEF Rows
  <2>2. m \in Int
    BY <1>5 DEF m, MarginOfA, Duels
  <2> QED BY <1>17, <1>18, <2>1, <2>2
<1>22. TalliesAgree'
  <2>1. ASSUME NEW p \in D, NEW q \in D \ {p}
        PROVE  /\ RowIs(G[p][q], log', p, q)
               /\ G[p][q].margin = -G[q][p].margin
    <3>1. CASE p = task.a /\ q = task.b
      BY <1>8, <1>17, <1>19, <1>21, <3>1
    <3>2. CASE p = task.b /\ q = task.a
      BY <1>8, <1>18, <1>19, <1>21, <3>2
    <3>3. CASE {p, q} # {task.a, task.b}
      <4>1. G[p][q] = table.grid[p][q] /\ G[q][p] = table.grid[q][p]
        <5>1. {q, p} # {task.a, task.b} /\ q \in D /\ p \in D \ {q}
          BY <3>3
        <5> QED BY <1>19, <3>3, <5>1
      <4>2. {x.task.a, x.task.b} # {p, q}
        BY <1>14, <3>3
      <4> QED BY <1>8, <1>16, <4>1, <4>2, RowSame
    <3> QED BY <3>1, <3>2, <3>3
  <2>2. table'.completed = Cardinality(log')
    BY <1>8, <1>13, <1>16
  <2> QED BY <1>13, <1>20, <2>1, <2>2, TalliesAreNext
<1>23. Typed'
  <2>1. /\ table' = [running |-> table'.running, completed |-> table'.completed,
                     total |-> table'.total, grid |-> table'.grid, error |-> table'.error]
        /\ table'.running \in BOOLEAN /\ table'.error \in BOOLEAN
    <3>1. table.running \in BOOLEAN /\ table.error \in BOOLEAN
      BY <1>1 DEF Typed
    <3> QED BY <1>12, <1>13, <3>1
  <2>2. worker' \in [Crew -> {"off", "ready", "plays", "out"}]
    BY <1>1 DEF Typed
  <2> QED BY <1>1, <2>1, <2>2 DEF Typed
<1>24. GridOK'
  BY <1>13, <1>19, <1>20 DEF GridOK
<1>25. LogOK'
  <2>1. \A l \in log' : /\ l = [task |-> l.task, duel |-> l.duel]
                        /\ l.duel \in Duels /\ l.task.g \in Int
                        /\ l.task.a # l.task.b
    <3>1. /\ x = [task |-> x.task, duel |-> x.duel] /\ x.duel \in Duels
          /\ x.task.g \in Int /\ x.task.a # x.task.b
      BY <1>3, <1>5, <1>6, <1>14
    <3> QED BY <1>1, <1>8, <3>1 DEF LogOK
  <2>2. \A l, k \in log' : l.task = k.task => l = k
    BY <1>1, <1>4, <1>6, <1>8 DEF LogOK
  <2> QED BY <1>8, <2>1, <2>2 DEF LogOK
<1>26. HandlersOK'
  BY <1>1, <1>2, <1>13, ThreadKeepsHandlers
<1>27. FlagsOK' /\ CompleteUnlessStopped'
  <2>1. FlagsOK'
    BY <1>1, <1>13 DEF FlagsOK
  <2>2. CompleteUnlessStopped'
    BY <1>2, <1>13 DEF CompleteUnlessStopped
  <2> QED BY <2>1, <2>2
<1>28. JobOK'
  BY <1>1, <1>2, <1>13, <1>20 DEF JobOK, D
<1>29. worker'[w] = "ready" /\ \A v \in Crew : v # w => worker'[v] = worker[v]
  BY <1>1 DEF Typed
<1>30. PlayedOK'
  <2>1. \A v \in Crew : worker'[v] = "plays" => v # w /\ worker[v] = "plays"
    BY <1>29
  <2>2. ASSUME NEW v \in Crew, worker'[v] = "plays", NEW l \in log'
        PROVE  l.task # job[playing[v]]
    <3>1. v # w /\ worker[v] = "plays"
      BY <2>1, <2>2
    <3>2. CASE l \in log
      BY <1>2, <3>1, <3>2 DEF PlayedOK
    <3>3. CASE l = x
      <4>1. playing[v] \in 1 .. Len(job) /\ playing[v] # playing[w]
        BY <1>2, <1>4, <3>1 DEF PlayedOK, Taken
      <4>2. job[playing[v]] # task
        BY <1>2, <1>4, <4>1 DEF JobOK, task
      <4> QED BY <1>6, <3>3, <4>2
    <3> QED BY <1>8, <3>2, <3>3
  <2>3. \A l \in log' : \E i \in 1 .. Len(job) : i < next /\ l.task = job[i]
    <3>1. \E i \in 1 .. Len(job) : i < next /\ x.task = job[i]
      BY <1>4, <1>6 DEF task
    <3> QED BY <1>2, <1>8, <3>1 DEF PlayedOK
  <2>4. \A v \in Crew : worker'[v] = "plays" =>
          /\ playing[v] \in 1 .. Len(job) /\ playing[v] < next
          /\ \A u \in Crew : worker'[u] = "plays" /\ playing[u] = playing[v] => u = v
    BY <1>2, <2>1 DEF PlayedOK, Taken
  <2> QED BY <1>1, <2>2, <2>3, <2>4 DEF PlayedOK, Taken
<1>31. GoingOn'
  <2> SUFFICES ASSUME ~halted, ~table.error
               PROVE  /\ \A i \in 1 .. Len(job) : i < next =>
                           \/ \E l \in log' : l.task = job[i]
                           \/ \E v \in Crew : worker'[v] = "plays" /\ playing[v] = i
                      /\ worker'[0] = "out" => next > Len(job)
    BY <1>1, <1>13 DEF GoingOn
  <2>1. ASSUME NEW i \in 1 .. Len(job), i < next
        PROVE  \/ \E l \in log' : l.task = job[i]
               \/ \E v \in Crew : worker'[v] = "plays" /\ playing[v] = i
    <3>1. CASE \E l \in log : l.task = job[i]
      BY <1>8, <3>1
    <3>2. CASE \E v \in Crew : worker[v] = "plays" /\ playing[v] = i
      <4>1. PICK v \in Crew : worker[v] = "plays" /\ playing[v] = i
        BY <3>2
      <4>2. CASE v = w
        <5>1. x \in log' /\ x.task = job[i]
          BY <1>6, <1>8, <4>1, <4>2 DEF task
        <5> QED BY <5>1
      <4>3. CASE v # w
        BY <1>29, <4>1, <4>3
      <4> QED BY <4>2, <4>3
    <3> QED BY <1>2, <2>1, <3>1, <3>2 DEF GoingOn
  <2>2. worker'[0] = "out" => next > Len(job)
    <3>1. 0 \in Crew
      BY FirstWorker
    <3> QED BY <1>2, <1>29, <3>1 DEF GoingOn
  <2> QED BY <2>1, <2>2
<1>32. CrewOK'
  BY <1>1, <1>2, <1>28, <1>30, <1>31 DEF CrewOK
<1> QED BY <1>22, <1>23, <1>24, <1>25, <1>26, <1>27, <1>32 DEF IInv

LEMMA GameThrowsKeeps ==
  ASSUME IInv, NEW w \in Crew, GameThrows(w)
  PROVE  IInv'
<1>1. /\ Typed /\ GridOK /\ LogOK /\ HandlersOK /\ FlagsOK /\ CrewOK /\ TalliesAgree
      /\ worker[w] = "plays" /\ worker' = [worker EXCEPT ![w] = "out"] /\ abort' = TRUE
      /\ table' = [table EXCEPT !.error = TRUE]
      /\ UNCHANGED <<stop, handle, thread, joiner, pc, request, job, next, playing,
                     asked, halted, log, dead>>
  BY DEF IInv, GameThrows, Goes
<1>2. thread = "runs" /\ JobOK /\ PlayedOK /\ table.running
  BY <1>1 DEF CrewOK, HandlersOK
<1>3. table' = [running |-> table.running, completed |-> table.completed,
                total |-> table.total, grid |-> table.grid, error |-> TRUE]
  BY <1>1 DEF Typed
<1>4. /\ table'.running = table.running /\ table'.completed = table.completed
      /\ table'.total = table.total /\ table'.grid = table.grid /\ table'.error = TRUE
  BY <1>3
<1>5. Typed'
  <2>1. /\ table' = [running |-> table'.running, completed |-> table'.completed,
                     total |-> table'.total, grid |-> table'.grid, error |-> table'.error]
        /\ table'.running \in BOOLEAN /\ table'.error \in BOOLEAN
    <3>1. table.running \in BOOLEAN
      BY <1>1 DEF Typed
    <3> QED BY <1>3, <1>4, <3>1
  <2>2. worker' \in [Crew -> {"off", "ready", "plays", "out"}] /\ abort' \in BOOLEAN
    BY <1>1 DEF Typed
  <2> QED BY <1>1, <2>1, <2>2 DEF Typed
<1>6. GridOK'
  BY <1>1, <1>4 DEF GridOK
<1>7. LogOK'
  BY <1>1 DEF LogOK
<1>8. HandlersOK'
  BY <1>1, <1>2, <1>4, ThreadKeepsHandlers
<1>9. FlagsOK'
  BY <1>1, <1>2, <1>4 DEF FlagsOK
<1>10. TalliesAgree'
  BY <1>1, <1>4, TalliesAre, TalliesAreNext
<1>11. CompleteUnlessStopped'
  BY <1>4 DEF CompleteUnlessStopped
<1>12. CrewOK'
  <2>1. JobOK'
    BY <1>1, <1>2, <1>4 DEF JobOK
  <2>2. \A v \in Crew : worker'[v] = "plays" => worker[v] = "plays"
    BY <1>1 DEF Typed
  <2>3. PlayedOK'
    BY <1>1, <1>2, <2>2 DEF PlayedOK, Taken
  <2>4. GoingOn'
    BY <1>4 DEF GoingOn
  <2> QED BY <1>1, <1>2, <2>1, <2>3, <2>4 DEF CrewOK
<1> QED BY <1>5, <1>6, <1>7, <1>8, <1>9, <1>10, <1>11, <1>12 DEF IInv

\* When every task has its game in the log, there are as many games as tasks.
LEMMA AllPlayed ==
  ASSUME LogOK, JobOK, PlayedOK, \A i \in 1 .. Len(job) : \E l \in log : l.task = job[i]
  PROVE  Cardinality(log) = Len(job)
<1> DEFINE f == [i \in 1 .. Len(job) |-> CHOOSE l \in log : l.task = job[i]]
<1>1. Len(job) \in Nat
  BY DEF JobOK
<1>2. \A i \in 1 .. Len(job) : f[i] \in log /\ f[i].task = job[i]
  OBVIOUS
<1>3. \A i, k \in 1 .. Len(job) : f[i] = f[k] => i = k
  BY <1>2 DEF JobOK
<1>4. ASSUME NEW l \in log
      PROVE  \E i \in 1 .. Len(job) : f[i] = l
  <2>1. PICK i \in 1 .. Len(job) : l.task = job[i]
    BY DEF PlayedOK
  <2>2. f[i] = l
    BY <1>2, <2>1 DEF LogOK
  <2> QED BY <2>2
<1>5. f \in [1 .. Len(job) -> log] /\ DOMAIN f = 1 .. Len(job)
  BY <1>2
<1> HIDE DEF f
<1>6. f \in Bijection(1 .. Len(job), log)
  BY <1>3, <1>4, <1>5 DEF Bijection, Injection, Surjection, IsInjective
<1>7. IsFiniteSet(1 .. Len(job)) /\ Cardinality(1 .. Len(job)) = Len(job)
  <2> SUFFICES ASSUME NEW n \in Nat
               PROVE  IsFiniteSet(1 .. n) /\ Cardinality(1 .. n) = n
    BY <1>1
  <2>1. /\ IsFiniteSet(1 .. n)
        /\ Cardinality(1 .. n) = IF 1 > n THEN 0 ELSE n - 1 + 1
    BY FS_Interval
  <2> QED BY <2>1
<1> QED BY <1>6, <1>7, FS_Bijection DEF ExistsBijection

LEMMA PoolJoinsKeeps ==
  ASSUME IInv, PoolJoins
  PROVE  IInv'
<1>1. /\ Typed /\ GridOK /\ LogOK /\ HandlersOK /\ FlagsOK /\ CrewOK /\ TalliesAgree
      /\ thread = "runs" /\ (\A w \in Crew : worker[w] = "out")
      /\ table' = [table EXCEPT !.running = FALSE] /\ thread' = "returns"
      /\ UNCHANGED <<stop, handle, joiner, pc, request, job, next, abort, worker, playing,
                     asked, halted, log, dead>>
  BY DEF IInv, PoolJoins, crew
<1>2. JobOK /\ PlayedOK /\ GoingOn
  BY <1>1 DEF CrewOK
<1>3. table' = [running |-> FALSE, completed |-> table.completed,
                total |-> table.total, grid |-> table.grid, error |-> table.error]
  BY <1>1 DEF Typed
<1>4. /\ table'.running = FALSE /\ table'.completed = table.completed
      /\ table'.total = table.total /\ table'.grid = table.grid
      /\ table'.error = table.error
  BY <1>3
<1>5. Typed'
  <2>1. /\ table' = [running |-> table'.running, completed |-> table'.completed,
                     total |-> table'.total, grid |-> table'.grid, error |-> table'.error]
        /\ table'.running \in BOOLEAN /\ table'.error \in BOOLEAN
    <3>1. table.error \in BOOLEAN
      BY <1>1 DEF Typed
    <3> QED BY <1>3, <1>4, <3>1
  <2>2. thread' \in {"none", "runs", "returns", "gone"}
    BY <1>1
  <2> QED BY <1>1, <2>1, <2>2 DEF Typed
<1>6. GridOK'
  BY <1>1, <1>4 DEF GridOK
<1>7. LogOK'
  BY <1>1 DEF LogOK
<1>8. HandlersOK'
  BY <1>1, <1>4, ThreadKeepsHandlers
<1>9. FlagsOK'
  BY <1>1, <1>4 DEF FlagsOK
<1>10. TalliesAgree'
  BY <1>1, <1>4, TalliesAre, TalliesAreNext
<1>11. CompleteUnlessStopped'
  <2> SUFFICES ASSUME ~table.error, ~halted
               PROVE  table.completed = table.total
    BY <1>1, <1>4 DEF CompleteUnlessStopped
  <2>1. next > Len(job)
    BY <1>1, <1>2, FirstWorker DEF GoingOn
  <2>2. Len(job) \in Nat /\ next \in Nat
    BY <1>1, <1>2 DEF JobOK, Typed
  <2>3. \A i \in 1 .. Len(job) : i < next
    BY <2>1, <2>2
  <2>4. \A w \in Crew : worker[w] # "plays"
    BY <1>1
  <2>5. \A i \in 1 .. Len(job) : \E l \in log : l.task = job[i]
    BY <1>2, <2>3, <2>4 DEF GoingOn
  <2>6. Cardinality(log) = Len(job)
    BY <1>1, <1>2, <2>5, AllPlayed
  <2> QED BY <1>1, <1>2, <2>6 DEF TalliesAgree, JobOK
<1>12. CrewOK'
  BY <1>1 DEF CrewOK
<1> QED BY <1>5, <1>6, <1>7, <1>8, <1>9, <1>10, <1>11, <1>12 DEF IInv

LEMMA ThreadReturnsKeeps ==
  ASSUME IInv, ThreadReturns
  PROVE  IInv'
<1>1. /\ Typed /\ GridOK /\ LogOK /\ HandlersOK /\ FlagsOK /\ TalliesAgree
      /\ CompleteUnlessStopped /\ thread = "returns" /\ thread' = "gone"
      /\ next' = 1 /\ abort' = FALSE
      /\ worker' = [w \in Crew |-> "off"] /\ playing' = [w \in Crew |-> 0]
      /\ UNCHANGED <<table, stop, handle, joiner, pc, request, asked, halted, log, dead>>
  BY DEF IInv, ThreadReturns
<1>2. Typed'
  <2>1. /\ worker' \in [Crew -> {"off", "ready", "plays", "out"}]
        /\ playing' \in [Crew -> Nat] /\ next' \in Nat \ {0}
        /\ thread' \in {"none", "runs", "returns", "gone"}
    BY <1>1
  <2>2. abort' \in BOOLEAN
    BY <1>1
  <2> QED BY <1>1, <2>1, <2>2 DEF Typed
<1>3. GridOK'
  BY <1>1 DEF GridOK
<1>4. LogOK'
  BY <1>1 DEF LogOK
<1>5. HandlersOK'
  BY <1>1, ThreadKeepsHandlers
<1>6. FlagsOK'
  BY <1>1 DEF FlagsOK
<1>7. TalliesAgree'
  BY <1>1, TalliesAre, TalliesAreNext
<1>8. CompleteUnlessStopped'
  BY <1>1 DEF CompleteUnlessStopped
<1>9. CrewOK'
  BY <1>1 DEF CrewOK
<1> QED BY <1>2, <1>3, <1>4, <1>5, <1>6, <1>7, <1>8, <1>9 DEF IInv

LEMMA StutterKeeps ==
  ASSUME IInv, UNCHANGED vars
  PROVE  IInv'
<1>1. /\ UNCHANGED <<table, stop, handle, thread, joiner, pc, request, asked, halted, log, dead>>
      /\ UNCHANGED crew /\ abort' = abort /\ UNCHANGED <<next, worker, playing>>
      /\ Typed /\ HandlersOK /\ FlagsOK
  BY DEF vars, crew, IInv
<1>2. GridOK' /\ LogOK' /\ TalliesAgree' /\ CompleteUnlessStopped' /\ CrewOK'
  BY <1>1, RestStays
<1>3. Typed'
  BY <1>1 DEF Typed
<1>4. HandlersOK'
  BY <1>1 DEF HandlersOK, Ready
<1>5. FlagsOK'
  BY <1>1 DEF FlagsOK
<1> QED BY <1>2, <1>3, <1>4, <1>5 DEF IInv

LEMMA InitIs ==
  ASSUME Init
  PROVE  IInv
<1>1. Players(NoJob) = {}
  <2>1. NoJob.players = <<>>
    BY DEF NoJob
  <2> QED BY <2>1 DEF Players
<1>2. /\ table = [running |-> FALSE, completed |-> 0, total |-> 0,
                  grid |-> EmptyGrid(NoJob), error |-> FALSE]
      /\ DOMAIN EmptyGrid(NoJob) = {}
      /\ EmptyGrid(NoJob) = [p \in {} |-> EmptyGrid(NoJob)[p]]
  BY <1>1 DEF Init, NoTable, EmptyGrid
<1>3. /\ table.running = FALSE /\ table.completed = 0 /\ table.total = 0
      /\ table.grid = EmptyGrid(NoJob) /\ table.error = FALSE
  BY <1>2
<1>4. /\ stop = FALSE /\ asked = FALSE /\ halted = FALSE /\ abort = FALSE
      /\ handle = "none" /\ thread = "none" /\ joiner = Nobody /\ next = 1
      /\ pc = [h \in Handlers |-> "idle"] /\ request = [h \in Handlers |-> NoJob]
      /\ worker = [w \in Crew |-> "off"] /\ playing = [w \in Crew |-> 0]
      /\ log = {} /\ dead = FALSE
  BY DEF Init
<1>5. Typed
  <2>1. /\ table = [running |-> table.running, completed |-> table.completed,
                    total |-> table.total, grid |-> table.grid, error |-> table.error]
    BY <1>2, <1>3
  <2>2. pc \in [Handlers -> PCs] /\ request \in [Handlers -> Requests \cup {NoJob}]
    BY <1>4 DEF PCs
  <2>3. worker \in [Crew -> {"off", "ready", "plays", "out"}] /\ playing \in [Crew -> Nat]
    BY <1>4
  <2>4. /\ table.running \in BOOLEAN /\ table.error \in BOOLEAN
        /\ stop \in BOOLEAN /\ asked \in BOOLEAN /\ halted \in BOOLEAN /\ abort \in BOOLEAN
    BY <1>3, <1>4
  <2>5. handle \in {"none", "joinable"} /\ thread \in {"none", "runs", "returns", "gone"}
        /\ next \in Nat \ {0}
    BY <1>4
  <2> QED BY <2>1, <2>2, <2>3, <2>4, <2>5 DEF Typed
<1>6. GridOK
  BY <1>2, <1>3 DEF GridOK
<1>7. LogOK
  BY <1>4, FS_EmptySet DEF LogOK
<1>8. HandlersOK
  <2>1. \A h \in Handlers : pc[h] = "idle" /\ pc[h] \notin Starts /\ pc[h] \notin Joins
    BY <1>4 DEF Starts, Joins
  <2>2. Nobody \notin Handlers
    BY TournamentAssumption
  <2> QED BY <1>4, <2>1, <2>2 DEF HandlersOK, Starts
<1>9. FlagsOK
  BY <1>4 DEF FlagsOK
<1>10. CrewOK
  BY <1>4 DEF CrewOK
<1>11. TalliesAgree
  BY <1>2, <1>3, <1>4, FS_EmptySet, TalliesAre
<1>12. CompleteUnlessStopped
  BY <1>3 DEF CompleteUnlessStopped
<1> QED BY <1>5, <1>6, <1>7, <1>8, <1>9, <1>10, <1>11, <1>12 DEF IInv

-----------------------------------------------------------------------------
(* The theorems.  That no two starts overlap is what the server relies on:  *)
(* with starts that overlap, OneAtATime is violated (see the run).          *)

\* Every step of the handlers and of the crew keeps the invariant.
THEOREM TournamentInvariant == ~StartsOverlap => (Spec => []IInv)
<1> SUFFICES ASSUME ~StartsOverlap
             PROVE  Spec => []IInv
  OBVIOUS
<1>1. Init => IInv
  BY InitIs
<1>2. IInv /\ [Next]_vars => IInv'
  <2> SUFFICES ASSUME IInv, [Next]_vars
               PROVE  IInv'
    OBVIOUS
  <2>1. ASSUME NEW h \in Handlers, StartAsked(h)
        PROVE  IInv'
    BY <2>1, StartAskedKeeps
  <2>2. ASSUME NEW h \in Handlers, StopAsked(h)
        PROVE  IInv'
    BY <2>2, StopAskedKeeps
  <2>3. ASSUME NEW h \in Handlers, HandlerSteps(h)
        PROVE  IInv'
    BY <2>3, StartJoinsKeeps, StartJoinedKeeps, StartLoadsKeeps, StartResetsKeeps,
       StartSpawnsKeeps, StopJoinsKeeps, StopJoinedKeeps DEF HandlerSteps
  <2>4. ASSUME NEW w \in Crew, CrewSteps(w)
        PROVE  IInv'
    BY <2>4, TakeKeeps, GameEndsKeeps, GameThrowsKeeps DEF CrewSteps
  <2> QED BY <2>1, <2>2, <2>3, <2>4, PoolJoinsKeeps, ThreadReturnsKeeps, StutterKeeps DEF Next
<1> QED BY <1>1, <1>2, PTL DEF Spec

\* The table always shows the games the crew played, each once and for both of its
\* players, and none of an earlier tournament.
THEOREM TableIsOfTheGames == ~StartsOverlap => (Spec => []TalliesAgree)
<1>1. IInv => TalliesAgree
  BY DEF IInv
<1> QED BY <1>1, TournamentInvariant, PTL

\* A tournament that nobody stopped and that had no error plays all its games,
\* whatever the order its workers take, play and leave in.
THEOREM PlaysToTheEnd == ~StartsOverlap => (Spec => []CompleteUnlessStopped)
<1>1. IInv => CompleteUnlessStopped
  BY DEF IInv
<1> QED BY <1>1, TournamentInvariant, PTL

\* A start never assigns to a handle that holds a thread, whatever the stops between.
THEOREM NoStartEndsTheServer == ~StartsOverlap => (Spec => []OneAtATime)
<1>1. IInv => OneAtATime
  BY DEF IInv, HandlersOK, OneAtATime
<1> QED BY <1>1, TournamentInvariant, PTL
=============================================================================
