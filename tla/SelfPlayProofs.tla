--------------------------- MODULE SelfPlayProofs ---------------------------
(***************************************************************************)
(* For any number of games, workers, turns and players, and with           *)
(* heuristic_weight steady or not: a game has one holder, decisions are    *)
(* made on answers about the position at hand, and a trajectory has the    *)
(* value of its own turn for each placement.                               *)
(***************************************************************************)
EXTENDS SelfPlay, SequenceTheorems, FiniteSetTheorems, TLAPS

Items == Games \union {NoGame}

-----------------------------------------------------------------------------
(* Queues of games: what is in one, and that no game is in it twice.         *)

In(s, g) == \E i \in DOMAIN s : s[i] = g

Once(s) == \A i, j \in DOMAIN s : s[i] \in Games /\ s[i] = s[j] => i = j

LEMMA PushIsIn ==
  ASSUME NEW S, NEW s \in Seq(S), NEW x \in S
  PROVE  /\ Append(s, x) \in Seq(S)
         /\ \A g : In(Append(s, x), g) <=> In(s, g) \/ g = x
         /\ Once(s) /\ (x \in Games => ~In(s, x)) => Once(Append(s, x))
<1> DEFINE t == Append(s, x)
<1>1. /\ t \in Seq(S)
      /\ Len(s) \in Nat /\ DOMAIN s = 1..Len(s)
      /\ DOMAIN t = 1..(Len(s) + 1)
      /\ t[Len(s) + 1] = x
      /\ \A i \in DOMAIN s : t[i] = s[i]
  BY LenProperties
<1> HIDE DEF t
<1>2. DOMAIN t = DOMAIN s \union {Len(s) + 1} /\ Len(s) + 1 \notin DOMAIN s
  BY <1>1
<1>3. \A g : In(t, g) <=> In(s, g) \/ g = x
  BY <1>1, <1>2 DEF In
<1>4. Once(s) /\ (x \in Games => ~In(s, x)) => Once(t)
  BY <1>1, <1>2 DEF In, Once
<1> QED BY <1>1, <1>3, <1>4 DEF t

LEMMA PopIsOut ==
  ASSUME NEW S, NEW s \in Seq(S), s # << >>
  PROVE  /\ Head(s) \in S /\ Tail(s) \in Seq(S)
         /\ In(s, Head(s))
         /\ \A g : In(s, g) <=> In(Tail(s), g) \/ g = Head(s)
         /\ Once(s) => Once(Tail(s)) /\ (Head(s) \in Games => ~In(Tail(s), Head(s)))
<1> DEFINE t == Tail(s)
<1>1. /\ Len(s) \in Nat /\ Len(s) > 0 /\ DOMAIN s = 1..Len(s)
      /\ Head(s) = s[1] /\ Head(s) \in S
      /\ t \in Seq(S) /\ DOMAIN t = 1..(Len(s) - 1)
      /\ \A i \in DOMAIN t : t[i] = s[i + 1]
  BY LenProperties, EmptySeq, HeadTailProperties
<1> HIDE DEF t
<1>2. \A g : In(t, g) => In(s, g)
  BY <1>1 DEF In
<1>3. \A g : In(s, g) => In(t, g) \/ g = Head(s)
  <2> SUFFICES ASSUME NEW g, NEW i \in DOMAIN s, s[i] = g, i # 1 PROVE In(t, g)
    BY <1>1 DEF In
  <2>1. i - 1 \in DOMAIN t /\ t[i - 1] = g
    BY <1>1
  <2> QED BY <2>1 DEF In
<1>4. Once(s) => Once(t)
  BY <1>1 DEF Once
<1>5. Once(s) /\ Head(s) \in Games => ~In(t, Head(s))
  BY <1>1 DEF Once, In
<1>6. In(s, Head(s))
  BY <1>1 DEF In
<1> QED BY <1>1, <1>2, <1>3, <1>4, <1>5, <1>6 DEF t

LEMMA OrderHasAll ==
  ASSUME NEW S, IsFiniteSet(S), NEW o \in Orders(S)
  PROVE  /\ o \in Seq(S) /\ Once(o)
         /\ \A g : In(o, g) <=> g \in S
<1>1. Cardinality(S) \in Nat
  BY FS_CardinalityType
<1>2. /\ o \in [1..Cardinality(S) -> S]
      /\ DOMAIN o = 1..Cardinality(S)
      /\ \A i, j \in DOMAIN o : o[i] = o[j] => i = j
  BY DEF Orders
<1>3. o \in Seq(S)
  BY <1>1, <1>2, SeqDef
<1>4. o \in Injection(1..Cardinality(S), S)
  BY <1>2 DEF Injection, IsInjective
<1>5. Cardinality(1..Cardinality(S)) = Cardinality(S)
  BY <1>1, FS_Interval
<1>6. o \in Surjection(1..Cardinality(S), S)
  BY <1>4, <1>5, FS_Injection
<1>7. \A g : In(o, g) <=> g \in S
  BY <1>2, <1>6 DEF In, Surjection
<1> QED BY <1>2, <1>3, <1>7 DEF Once

LEMMA JoinIsBoth ==
  ASSUME NEW S, NEW s \in Seq(S), NEW o \in Seq(S)
  PROVE  /\ s \o o \in Seq(S)
         /\ \A g : In(s \o o, g) <=> In(s, g) \/ In(o, g)
         /\ Once(s) /\ Once(o) /\ (\A g : In(o, g) => ~In(s, g)) => Once(s \o o)
<1> DEFINE t == s \o o
<1>1. /\ Len(s) \in Nat /\ DOMAIN s = 1..Len(s)
      /\ Len(o) \in Nat /\ DOMAIN o = 1..Len(o)
      /\ t \in Seq(S) /\ DOMAIN t = 1..(Len(s) + Len(o))
      /\ \A i \in DOMAIN t : t[i] = IF i <= Len(s) THEN s[i] ELSE o[i - Len(s)]
  BY LenProperties, ConcatProperties
<1> HIDE DEF t
<1>2. \A i \in DOMAIN s : i \in DOMAIN t /\ t[i] = s[i]
  BY <1>1
<1>3. \A i \in DOMAIN o : i + Len(s) \in DOMAIN t /\ t[i + Len(s)] = o[i]
  BY <1>1
<1>4. \A i \in DOMAIN t : i \in DOMAIN s \/ i - Len(s) \in DOMAIN o
  BY <1>1
<1>5. \A g : In(t, g) <=> In(s, g) \/ In(o, g)
  BY <1>1, <1>2, <1>3, <1>4 DEF In
<1>6. ASSUME Once(s), Once(o), \A g : In(o, g) => ~In(s, g) PROVE Once(t)
  <2> SUFFICES ASSUME NEW i \in DOMAIN t, NEW j \in DOMAIN t, t[i] \in Games, t[i] = t[j]
               PROVE  i = j
    BY DEF Once
  <2>1. CASE i <= Len(s) /\ j <= Len(s)
    BY <1>1, <1>6, <2>1 DEF Once
  <2>2. CASE i > Len(s) /\ j > Len(s)
    <3>1. i - Len(s) = j - Len(s)
      BY <1>1, <1>6, <2>2 DEF Once
    <3> QED BY <3>1, <1>1
  <2>3. CASE i <= Len(s) /\ j > Len(s)
    <3>1. i \in DOMAIN s /\ s[i] = t[i]
      BY <1>1, <2>3
    <3>2. j - Len(s) \in DOMAIN o /\ o[j - Len(s)] = t[j]
      BY <1>1, <2>3
    <3> QED BY <3>1, <3>2, <1>6 DEF In
  <2>4. CASE i > Len(s) /\ j <= Len(s)
    <3>1. j \in DOMAIN s /\ s[j] = t[j]
      BY <1>1, <2>4
    <3>2. i - Len(s) \in DOMAIN o /\ o[i - Len(s)] = t[i]
      BY <1>1, <2>4
    <3> QED BY <3>1, <3>2, <1>6 DEF In
  <2> QED BY <1>1, <2>1, <2>2, <2>3, <2>4
<1> QED BY <1>1, <1>5, <1>6 DEF t

-----------------------------------------------------------------------------
(* Where a game is.                                                          *)

Held(g) == \E w \in Workers : cur[w] = g

\* A game is in one queue, in a batch or with a worker, and nowhere else.
OnePlace(g) ==
  /\ In(queue, g) \/ In(completed, g) \/ In(hand, g) \/ Held(g) \/ g \in submitted
  /\ In(queue, g) => ~In(completed, g) /\ ~In(hand, g) /\ ~Held(g) /\ g \notin submitted
  /\ In(completed, g) => ~In(hand, g) /\ ~Held(g) /\ g \notin submitted
  /\ In(hand, g) => ~Held(g) /\ g \notin submitted
  /\ Held(g) => g \notin submitted

PlaceTypes ==
  /\ queue \in Seq(Items)
  /\ completed \in Seq(Games) /\ hand \in Seq(Games)
  /\ submitted \in SUBSET Games
  /\ cur \in [Workers -> Items]

Unshared ==
  /\ Once(queue) /\ Once(completed) /\ Once(hand)
  /\ \A v, w \in Workers : cur[v] \in Games /\ cur[v] = cur[w] => v = w

PlaceInv == PlaceTypes /\ Unshared /\ \A g \in Games : OnePlace(g)

LEMMA PlaceInit == Init => PlaceInv
<1> SUFFICES ASSUME Init PROVE PlaceInv
  OBVIOUS
<1>1. queue \in Seq(Games) /\ Once(queue) /\ \A g : In(queue, g) <=> g \in Games
  BY OrderHasAll, SelfPlayAssumption DEF Init
<1>2. queue \in Seq(Items)
  BY <1>1, SeqMonotonic, Games \subseteq Items DEF Items
<1>3. << >> \in Seq(Games) /\ Once(<< >>) /\ \A g : ~In(<< >>, g)
  BY EmptySeq DEF Once, In
<1>4. cur \in [Workers -> Items] /\ \A w \in Workers : cur[w] \notin Games
  BY SelfPlayAssumption DEF Init, Items
<1>5. PlaceTypes /\ Unshared
  BY <1>1, <1>2, <1>3, <1>4 DEF Init, PlaceTypes, Unshared
<1>6. \A g \in Games : OnePlace(g)
  BY <1>1, <1>3, <1>4 DEF Init, OnePlace, Held
<1> QED BY <1>5, <1>6 DEF PlaceInv

LEMMA NothingMoves ==
  ASSUME PlaceInv, UNCHANGED <<queue, completed, hand, submitted, cur>>
  PROVE  PlaceInv'
  BY DEF PlaceInv, PlaceTypes, Unshared, OnePlace, Held

\* A worker takes the first game of the queue.
LEMMA GameIsTaken ==
  ASSUME PlaceInv, NEW w \in Workers, cur[w] = NoGame, queue # << >>, Head(queue) \in Games,
         queue' = Tail(queue), cur' = [cur EXCEPT ![w] = Head(queue)],
         UNCHANGED <<completed, hand, submitted>>
  PROVE  PlaceInv'
<1> DEFINE x == Head(queue)
<1>1. /\ queue' \in Seq(Items) /\ In(queue, x) /\ Once(queue') /\ ~In(queue', x)
      /\ \A g : In(queue, g) <=> In(queue', g) \/ g = x
  BY PopIsOut DEF PlaceInv, PlaceTypes, Unshared
<1>2. \A v \in Workers : cur'[v] = IF v = w THEN x ELSE cur[v]
  BY DEF PlaceInv, PlaceTypes
<1>3. \A g \in Games : Held(g)' <=> Held(g) \/ g = x
  BY <1>2, SelfPlayAssumption DEF Held
<1>4. ~Held(x) /\ ~In(completed, x) /\ ~In(hand, x) /\ x \notin submitted
  BY <1>1 DEF PlaceInv, OnePlace
<1> HIDE DEF x
<1>5. PlaceTypes'
  BY <1>1, <1>2 DEF PlaceInv, PlaceTypes, Items, x
<1>6. Unshared'
  BY <1>1, <1>2, <1>4 DEF PlaceInv, Unshared, Held
<1>7. ASSUME NEW g \in Games PROVE OnePlace(g)'
  BY <1>1, <1>3, <1>4 DEF PlaceInv, OnePlace
<1> QED BY <1>5, <1>6, <1>7 DEF PlaceInv

\* A worker hands its game to the queue, to the completed queue or to a batch.
LEMMA GameIsHandedOn ==
  ASSUME PlaceInv, NEW w \in Workers, cur[w] \in Games, hand' = hand,
         cur' = [cur EXCEPT ![w] = NoGame],
         \/ /\ queue' = Append(queue, cur[w]) /\ UNCHANGED <<completed, submitted>>
         \/ /\ completed' = Append(completed, cur[w]) /\ UNCHANGED <<queue, submitted>>
         \/ /\ submitted' = submitted \union {cur[w]} /\ UNCHANGED <<queue, completed>>
  PROVE  PlaceInv'
<1>0. PICK x \in Games : x = cur[w]
  OBVIOUS
<1>1. \A v \in Workers : cur'[v] = IF v = w THEN NoGame ELSE cur[v]
  BY DEF PlaceInv, PlaceTypes
<1>2. \A g \in Games : Held(g) <=> Held(g)' \/ g = x
  BY <1>0, <1>1, SelfPlayAssumption DEF Held
<1>3. ~Held(x)'
  BY <1>0, <1>1, SelfPlayAssumption DEF Held, PlaceInv, Unshared
<1>4. ~In(queue, x) /\ ~In(completed, x) /\ ~In(hand, x) /\ x \notin submitted
  BY <1>0, <1>2 DEF PlaceInv, OnePlace, Held
<1>5. cur' \in [Workers -> Items]
  BY DEF PlaceInv, PlaceTypes, Items
<1>6. \A u, v \in Workers : cur'[u] \in Games /\ cur'[u] = cur'[v] => u = v
  BY <1>1, SelfPlayAssumption DEF PlaceInv, Unshared
<1>7. CASE queue' = Append(queue, x) /\ UNCHANGED <<completed, submitted>>
  <2>1. /\ queue' \in Seq(Items) /\ Once(queue')
        /\ \A g : In(queue', g) <=> In(queue, g) \/ g = x
    BY <1>4, <1>7, PushIsIn DEF PlaceInv, PlaceTypes, Unshared, Items
  <2>2. PlaceTypes' /\ Unshared'
    BY <1>5, <1>6, <1>7, <2>1 DEF PlaceInv, PlaceTypes, Unshared
  <2>3. ASSUME NEW g \in Games PROVE OnePlace(g)'
    BY <1>2, <1>3, <1>4, <1>7, <2>1 DEF PlaceInv, OnePlace
  <2> QED BY <2>2, <2>3 DEF PlaceInv
<1>8. CASE completed' = Append(completed, x) /\ UNCHANGED <<queue, submitted>>
  <2>1. /\ completed' \in Seq(Games) /\ Once(completed')
        /\ \A g : In(completed', g) <=> In(completed, g) \/ g = x
    BY <1>4, <1>8, PushIsIn DEF PlaceInv, PlaceTypes, Unshared
  <2>2. PlaceTypes' /\ Unshared'
    BY <1>5, <1>6, <1>8, <2>1 DEF PlaceInv, PlaceTypes, Unshared
  <2>3. ASSUME NEW g \in Games PROVE OnePlace(g)'
    BY <1>2, <1>3, <1>4, <1>8, <2>1 DEF PlaceInv, OnePlace
  <2> QED BY <2>2, <2>3 DEF PlaceInv
<1>9. CASE submitted' = submitted \union {x} /\ UNCHANGED <<queue, completed>>
  <2>1. PlaceTypes' /\ Unshared'
    BY <1>5, <1>6, <1>9 DEF PlaceInv, PlaceTypes, Unshared
  <2>2. ASSUME NEW g \in Games PROVE OnePlace(g)'
    BY <1>2, <1>3, <1>4, <1>9 DEF PlaceInv, OnePlace
  <2> QED BY <2>1, <2>2 DEF PlaceInv
<1> QED BY <1>7, <1>8, <1>9, <1>0

\* Answered games leave their batch for the end of the queue.
LEMMA GamesAreAnswered ==
  ASSUME PlaceInv, NEW S \in SUBSET submitted, NEW o \in Orders(S),
         submitted' = submitted \ S, queue' = queue \o o,
         UNCHANGED <<completed, hand, cur>>
  PROVE  PlaceInv'
<1>1. S \subseteq Games /\ IsFiniteSet(S)
  BY FS_Subset, SelfPlayAssumption DEF PlaceInv, PlaceTypes
<1>2. o \in Seq(S) /\ Once(o) /\ \A g : In(o, g) <=> g \in S
  BY <1>1, OrderHasAll
<1>3. o \in Seq(Items)
  BY <1>1, <1>2, SeqMonotonic, S \subseteq Items DEF Items
<1>4. \A g : In(o, g) => ~In(queue, g)
  BY <1>1, <1>2 DEF PlaceInv, OnePlace
<1>5. /\ queue' \in Seq(Items) /\ Once(queue')
      /\ \A g : In(queue', g) <=> In(queue, g) \/ g \in S
  BY <1>2, <1>3, <1>4, JoinIsBoth DEF PlaceInv, PlaceTypes, Unshared
<1>6. PlaceTypes' /\ Unshared'
  BY <1>5 DEF PlaceInv, PlaceTypes, Unshared
<1>7. ASSUME NEW g \in Games PROVE OnePlace(g)'
  BY <1>5 DEF PlaceInv, OnePlace, Held
<1> QED BY <1>6, <1>7 DEF PlaceInv

\* The training loop takes a completed game.
LEMMA GameIsCollected ==
  ASSUME PlaceInv, completed # << >>,
         hand' = Append(hand, Head(completed)), completed' = Tail(completed),
         UNCHANGED <<queue, submitted, cur>>
  PROVE  PlaceInv'
<1> DEFINE x == Head(completed)
<1>1. /\ x \in Games /\ completed' \in Seq(Games) /\ In(completed, x)
      /\ Once(completed') /\ ~In(completed', x)
      /\ \A g : In(completed, g) <=> In(completed', g) \/ g = x
  BY PopIsOut DEF PlaceInv, PlaceTypes, Unshared
<1>2. ~In(queue, x) /\ ~Held(x) /\ ~In(hand, x) /\ x \notin submitted
  BY <1>1 DEF PlaceInv, OnePlace
<1> HIDE DEF x
<1>3. /\ hand' \in Seq(Games) /\ Once(hand')
      /\ \A g : In(hand', g) <=> In(hand, g) \/ g = x
  BY <1>1, <1>2, PushIsIn DEF PlaceInv, PlaceTypes, Unshared, x
<1>4. PlaceTypes' /\ Unshared'
  BY <1>1, <1>3 DEF PlaceInv, PlaceTypes, Unshared
<1>5. ASSUME NEW g \in Games PROVE OnePlace(g)'
  BY <1>1, <1>2, <1>3 DEF PlaceInv, OnePlace, Held
<1> QED BY <1>4, <1>5 DEF PlaceInv

LEMMA GameIsReturned ==
  ASSUME PlaceInv, hand # << >>,
         queue' = Append(queue, Head(hand)), hand' = Tail(hand),
         UNCHANGED <<completed, submitted, cur>>
  PROVE  PlaceInv'
<1> DEFINE x == Head(hand)
<1>1. /\ x \in Games /\ hand' \in Seq(Games) /\ In(hand, x)
      /\ Once(hand') /\ ~In(hand', x)
      /\ \A g : In(hand, g) <=> In(hand', g) \/ g = x
  BY PopIsOut DEF PlaceInv, PlaceTypes, Unshared
<1>2. ~In(queue, x) /\ ~Held(x) /\ ~In(completed, x) /\ x \notin submitted
  BY <1>1 DEF PlaceInv, OnePlace
<1> HIDE DEF x
<1>3. /\ queue' \in Seq(Items) /\ Once(queue')
      /\ \A g : In(queue', g) <=> In(queue, g) \/ g = x
  BY <1>1, <1>2, PushIsIn DEF PlaceInv, PlaceTypes, Unshared, Items, x
<1>4. PlaceTypes' /\ Unshared'
  BY <1>1, <1>3 DEF PlaceInv, PlaceTypes, Unshared
<1>5. ASSUME NEW g \in Games PROVE OnePlace(g)'
  BY <1>1, <1>2, <1>3 DEF PlaceInv, OnePlace, Held
<1> QED BY <1>4, <1>5 DEF PlaceInv

\* Sentinels come and go without touching a game.
LEMMA SentinelMoves ==
  ASSUME PlaceInv, UNCHANGED <<completed, hand, submitted, cur>>,
         \/ queue' = Append(queue, NoGame)
         \/ queue # << >> /\ Head(queue) = NoGame /\ queue' = Tail(queue)
  PROVE  PlaceInv'
<1>1. /\ queue' \in Seq(Items) /\ Once(queue')
      /\ \A g \in Games : In(queue', g) <=> In(queue, g)
  <2>1. CASE queue' = Append(queue, NoGame)
    BY <2>1, PushIsIn, SelfPlayAssumption DEF PlaceInv, PlaceTypes, Unshared, Items
  <2>2. CASE queue # << >> /\ Head(queue) = NoGame /\ queue' = Tail(queue)
    BY <2>2, PopIsOut, SelfPlayAssumption DEF PlaceInv, PlaceTypes, Unshared, Items
  <2> QED BY <2>1, <2>2
<1>2. PlaceTypes' /\ Unshared'
  BY <1>1 DEF PlaceInv, PlaceTypes, Unshared
<1>3. ASSUME NEW g \in Games PROVE OnePlace(g)'
  BY <1>1 DEF PlaceInv, OnePlace, Held
<1> QED BY <1>2, <1>3 DEF PlaceInv

-----------------------------------------------------------------------------
(* A game by itself.                                                         *)

\* The network of the turn after n placements.
NetAt(past, n) == IF past # None /\ Teammates(n % NumPlayers, past) THEN "past" ELSE "current"

\* v is about the turn that i is at, by the network that plays it.
Own(i, v) == v.turn = i.placed /\ v.net = NetAt(i.past, i.placed)

\* The trajectory of i has an entry of its own for each placement.
TrajOwn(i) ==
  /\ i.traj \in Seq(Value) /\ Len(i.traj) = i.placed
  /\ \A k \in 1..i.placed : i.traj[k].turn = k - 1 /\ i.traj[k].net = NetAt(i.past, k - 1)

GameOK(i) ==
  /\ i \in Instance
  /\ TrajOwn(i)
  /\ i.phase = "Completed" <=> i.placed = Turns
  /\ i.phase = "NeedResolve" => Own(i, i.evs)

LEMMA NetIsNetAt ==
  ASSUME NEW i \in Instance
  PROVE  /\ NetOf(i) = NetAt(i.past, i.placed)
         /\ \A n : NetOf([i EXCEPT !.placed = n]) = NetAt(i.past, n)
         /\ NetAt(i.past, i.placed) \in Nets
  BY DEF NetOf, NetAt, Mover, Instance, Nets

NewGame(past, evs, startEv, dp, blends) ==
  [phase |-> "NeedRequests", placed |-> 0, rolls |-> 2, dp |-> dp, blends |-> blends,
   evs |-> evs, startEv |-> startEv, traj |-> << >>, past |-> past]

LEMMA ResetIsNew ==
  ASSUME NEW past, NEW evs, NEW startEv, NEW dp, NEW blends
  PROVE  [Fresh(past, evs, startEv) EXCEPT !.dp = dp, !.blends = blends]
           = NewGame(past, evs, startEv, dp, blends)
<1>1. PICK n : n = [Fresh(past, evs, startEv) EXCEPT !.dp = dp, !.blends = blends]
  OBVIOUS
<1>2. n = NewGame(past, evs, startEv, dp, blends)
  BY <1>1 DEF Fresh, NewGame
<1> QED BY <1>1, <1>2

\* A new game has nothing of the last one that anyone will read.
LEMMA FreshIsOK ==
  ASSUME NEW past \in Players \union {None}, NEW evs \in Evs, NEW startEv \in Value,
         NEW dp \in BOOLEAN, NEW blends \in 0..1
  PROVE  /\ GameOK(NewGame(past, evs, startEv, dp, blends))
         /\ NewGame(past, evs, startEv, dp, blends).phase = "NeedRequests"
<1> DEFINE i == NewGame(past, evs, startEv, dp, blends)
<1>1. /\ i.phase = "NeedRequests" /\ i.placed = 0 /\ i.traj = << >>
      /\ i.past = past /\ i.evs = evs /\ i.startEv = startEv
  BY DEF NewGame
<1>2. << >> \in [1..0 -> Value] /\ << >> \in Seq(Value) /\ Len(<< >>) = 0
  BY EmptySeq, LenProperties
<1>3. << >> \in Trajectories
  <2>1. 0 \in 0..Turns
    BY SelfPlayAssumption
  <2> QED BY <1>2, <2>1 DEF Trajectories
<1>4. i \in Instance
  BY <1>3, SelfPlayAssumption DEF Instance, Phases, NewGame
<1> HIDE DEF i
<1>5. TrajOwn(i)
  <2>1. i.traj \in Seq(Value) /\ Len(i.traj) = i.placed
    BY <1>1, <1>2
  <2>2. 1..i.placed = {}
    BY <1>1
  <2> QED BY <2>1, <2>2 DEF TrajOwn
<1> QED BY <1>1, <1>4, <1>5, SelfPlayAssumption DEF GameOK, i

\* A placement appends the value of the turn that it ends.
LEMMA PlacedIsOwn ==
  ASSUME NEW i \in Instance, TrajOwn(i), i.placed < Turns, Own(i, i.startEv)
  PROVE  /\ TrajOwn(Placed(i))
         /\ Placed(i) \in Instance
         /\ Placed(i).placed = i.placed + 1
<1> DEFINE j == Placed(i)
           t == Append(i.traj, i.startEv)
<1>1. i.startEv \in Value /\ i.placed \in Nat
  BY DEF Instance
<1>2. /\ j.placed = i.placed + 1 /\ j.traj = t /\ j.past = i.past
      /\ j = [i EXCEPT !.placed = i.placed + 1, !.traj = t]
  BY DEF Placed, Instance
<1>3. /\ t \in Seq(Value) /\ Len(t) = i.placed + 1
      /\ \A k \in 1..i.placed : t[k] = i.traj[k]
      /\ t[i.placed + 1] = i.startEv
  BY <1>1, LenProperties DEF TrajOwn
<1>4. i.placed + 1 \in 0..Turns
  BY <1>1, SelfPlayAssumption
<1>5. t \in Trajectories
  <2>1. t \in [1..(i.placed + 1) -> Value]
    BY <1>3, LenProperties
  <2> QED BY <2>1, <1>4 DEF Trajectories
<1> HIDE DEF t
<1>6. j \in Instance
  BY <1>2, <1>4, <1>5 DEF Instance
<1>7. TrajOwn(j)
  BY <1>1, <1>2, <1>3 DEF TrajOwn, Own
<1> QED BY <1>2, <1>6, <1>7

\* A step that leaves board and trajectory alone.
LEMMA EditedIsOK ==
  ASSUME NEW i, GameOK(i), NEW j \in Instance,
         j.placed = i.placed, j.past = i.past, j.traj = i.traj,
         j.phase = "Completed" <=> i.phase = "Completed",
         j.phase = "NeedResolve" => Own(j, j.evs)
  PROVE  GameOK(j)
  BY DEF GameOK, TrajOwn

-----------------------------------------------------------------------------
(* The invariant.                                                            *)

\* The phase fits the place; a game that comes back from a roll or from the
\* network with its layers computed has the value of its turn already.
Settled(g) ==
  /\ In(queue, g) => inst[g].phase \in {"NeedRequests", "NeedResolve"}
  /\ g \in submitted => inst[g].phase = "WaitingInference"
  /\ In(completed, g) \/ In(hand, g) => inst[g].phase = "Completed"
  /\ (In(queue, g) \/ g \in submitted) /\ inst[g].phase # "NeedRequests" /\ inst[g].dp
       => Own(inst[g], inst[g].startEv)

Deciding == {"pure", "blend", "solve", "act"}

\* What a worker knows of its game.  The value of the turn is taken either at
\* once or, when the heuristic has no weight, from the solver's result.
WorkerOK(w) ==
  LET i == inst[cur[w]]
      late == loc[w].first /\ weight = "zero"
  IN  /\ pc[w] = "pop" => cur[w] = NoGame
      /\ pc[w] \notin {"pop", "exited"} => cur[w] \in Games
      /\ pc[w] \in {"request", "submit"} => i.phase = "NeedRequests"
      /\ pc[w] = "commit" => i.phase = "WaitingInference"
      /\ pc[w] \in {"submit", "commit"} => ~i.dp
      /\ pc[w] \in Deciding => i.phase = "NeedResolve"
      /\ pc[w] = "pure" => (i.dp => Own(i, i.startEv))
      /\ pc[w] \in {"blend", "solve"} =>
           loc[w].first = ~i.dp /\ (late \/ Own(i, i.startEv))
      /\ pc[w] = "act" =>
           /\ loc[w].lucky \/ i.dp
           /\ loc[w].first => Own(i, loc[w].ev)
           /\ late \/ Own(i, i.startEv)

DataTypes ==
  /\ inst \in [Games -> Instance]
  /\ weight \in {"positive", "zero"}
  /\ pc \in [Workers -> WorkerPCs]
  /\ loc \in [Workers -> [first : BOOLEAN, ev : Value, lucky : BOOLEAN]]
  /\ trainer \in {"collect", "recycle", "stop"}
  /\ sentinels \in 0..Cardinality(Workers) /\ drained \in BOOLEAN

IInv ==
  /\ PlaceInv /\ DataTypes
  /\ \A g \in Games : GameOK(inst[g]) /\ Settled(g)
  /\ \A w \in Workers : WorkerOK(w)

LEMMA InitHolds == Init => IInv
<1> SUFFICES ASSUME Init PROVE IInv
  OBVIOUS
<1>1. PlaceInv
  BY PlaceInit
<1>2. NoValue \in Value /\ [turn |-> -1, net |-> "current"] \in Evs
  BY SelfPlayAssumption DEF NoValue, Value, Evs, Nets
<1>3. ASSUME NEW g \in Games PROVE GameOK(inst[g]) /\ inst[g].phase = "NeedRequests"
  <2>1. inst[g] = NewGame(None, [turn |-> -1, net |-> "current"], NoValue, FALSE, 0)
    BY DEF Init, Fresh, NewGame
  <2>2. None \in Players \union {None} /\ 0 \in 0..1
    OBVIOUS
  <2> QED BY <1>2, <2>1, <2>2, FreshIsOK
<1>4. ASSUME NEW g \in Games PROVE Settled(g)
  <2>1. ~In(completed, g) /\ ~In(hand, g) /\ g \notin submitted
    BY DEF Init, In
  <2> QED BY <1>3, <2>1 DEF Settled
<1>5. DataTypes
  <2>1. inst \in [Games -> Instance]
    BY <1>3 DEF Init, GameOK
  <2>2. NoLocals \in [first : BOOLEAN, ev : Value, lucky : BOOLEAN]
    BY <1>2 DEF NoLocals
  <2>3. Cardinality(Workers) \in Nat
    BY FS_CardinalityType, SelfPlayAssumption
  <2>4. /\ pc \in [Workers -> WorkerPCs]
        /\ loc \in [Workers -> [first : BOOLEAN, ev : Value, lucky : BOOLEAN]]
    BY <2>2 DEF Init, WorkerPCs
  <2>5. /\ weight \in {"positive", "zero"} /\ trainer \in {"collect", "recycle", "stop"}
        /\ sentinels = 0 /\ drained \in BOOLEAN
    BY DEF Init
  <2>6. sentinels \in 0..Cardinality(Workers)
    BY <2>3, <2>5
  <2> QED BY <2>1, <2>4, <2>5, <2>6 DEF DataTypes
<1>6. ASSUME NEW w \in Workers PROVE WorkerOK(w)
  BY DEF Init, WorkerOK, Deciding
<1> QED BY <1>1, <1>3, <1>4, <1>5, <1>6 DEF IInv

\* A worker changes its own game and its own locals; the other games stay where
\* they are.
LEMMA WorkerTouchesOne ==
  ASSUME IInv, PlaceInv', DataTypes', weight' = weight,
         NEW w \in Workers, NEW x \in Games, cur[w] = x,
         \A g \in Games \ {x} : inst'[g] = inst[g],
         \A g \in Games \ {x} :
           /\ In(queue', g) <=> In(queue, g)
           /\ In(completed', g) <=> In(completed, g)
           /\ g \in submitted' <=> g \in submitted,
         hand' = hand,
         \A v \in Workers \ {w} : pc'[v] = pc[v] /\ cur'[v] = cur[v] /\ loc'[v] = loc[v],
         GameOK(inst'[x]), Settled(x)', WorkerOK(w)'
  PROVE  IInv'
<1>1. ASSUME NEW g \in Games PROVE GameOK(inst'[g]) /\ Settled(g)'
  <2>1. CASE g = x
    BY <2>1
  <2>2. CASE g # x
    BY <2>2 DEF IInv, Settled
  <2> QED BY <2>1, <2>2
<1>2. ASSUME NEW v \in Workers PROVE WorkerOK(v)'
  <2>1. CASE v = w
    BY <2>1
  <2>2. CASE v # w
    <3>1. pc'[v] = pc[v] /\ cur'[v] = cur[v] /\ loc'[v] = loc[v] /\ WorkerOK(v)
      BY <2>2 DEF IInv
    <3>2. CASE cur[v] \in Games
      <4>1. cur[v] # x
        BY <2>2, <3>2 DEF IInv, PlaceInv, Unshared
      <4>2. inst'[cur'[v]] = inst[cur[v]]
        BY <3>1, <3>2, <4>1
      <4> QED BY <3>1, <4>2 DEF WorkerOK
    <3>3. CASE cur[v] \notin Games
      <4>1. pc[v] \in {"pop", "exited"}
        BY <3>1, <3>3 DEF WorkerOK
      <4> QED BY <3>1, <4>1 DEF WorkerOK, Deciding
    <3> QED BY <3>2, <3>3
  <2> QED BY <2>1, <2>2
<1> QED BY <1>1, <1>2 DEF IInv

\* The training loop's steps that change no game: the weight may only fall.
LEMMA QuietStep ==
  ASSUME IInv, PlaceInv', DataTypes', weight' \in {weight, "zero"},
         UNCHANGED <<inst, submitted, workerVars>>,
         \A g \in Games :
           /\ In(queue', g) => In(queue, g)
           /\ In(completed', g) \/ In(hand', g) => In(completed, g) \/ In(hand, g)
  PROVE  IInv'
<1>1. ASSUME NEW g \in Games PROVE GameOK(inst'[g]) /\ Settled(g)'
  BY DEF IInv, Settled
<1>2. ASSUME NEW w \in Workers PROVE WorkerOK(w)'
  BY DEF IInv, WorkerOK, workerVars
<1> QED BY <1>1, <1>2 DEF IInv

-----------------------------------------------------------------------------
(* A worker's steps.                                                         *)

\* A worker with a game: the game, and what is known of it.
LEMMA HeldGame ==
  ASSUME IInv, NEW w \in Workers, pc[w] \notin {"pop", "exited"}
  PROVE  /\ cur[w] \in Games
         /\ GameOK(inst[cur[w]]) /\ inst[cur[w]] \in Instance
         /\ ~In(queue, cur[w]) /\ ~In(completed, cur[w]) /\ ~In(hand, cur[w])
         /\ cur[w] \notin submitted
<1>1. cur[w] \in Games
  BY DEF IInv, WorkerOK
<1>2. Held(cur[w])
  BY DEF Held
<1> QED BY <1>1, <1>2 DEF IInv, PlaceInv, OnePlace, GameOK

LEMMA PopPreserves ==
  ASSUME IInv, NEW w \in Workers, Pop(w)
  PROVE  IInv'
<1>1. cur[w] = NoGame
  BY DEF IInv, WorkerOK, Pop
<1>2. CASE Head(queue) = NoGame
  <2>1. PlaceInv'
    BY <1>2, SentinelMoves DEF IInv, Pop, trainerVars
  <2>2. DataTypes'
    BY <1>2 DEF IInv, DataTypes, Pop, Goto, trainerVars, WorkerPCs
  <2>3. \A g \in Games : In(queue', g) => In(queue, g)
    BY PopIsOut DEF IInv, PlaceInv, PlaceTypes, Pop
  <2>4. ASSUME NEW g \in Games PROVE GameOK(inst'[g]) /\ Settled(g)'
    BY <2>3 DEF IInv, Settled, Pop, trainerVars
  <2>5. ASSUME NEW v \in Workers PROVE WorkerOK(v)'
    <3>1. CASE v = w
      <4>1. pc'[v] = "exited"
        BY <1>2, <3>1 DEF Pop, Goto, IInv, DataTypes
      <4> QED BY <4>1 DEF WorkerOK, Deciding
    <3>2. CASE v # w
      <4>1. pc'[v] = pc[v] /\ UNCHANGED <<cur, inst, loc, weight>>
        BY <1>2, <3>2 DEF Pop, Goto, IInv, DataTypes
      <4> QED BY <4>1 DEF WorkerOK, IInv
    <3> QED BY <3>1, <3>2
  <2> QED BY <2>1, <2>2, <2>4, <2>5 DEF IInv
<1>3. CASE Head(queue) # NoGame
  <2>1. PICK x \in Games : x = Head(queue)
    BY <1>3, PopIsOut DEF IInv, PlaceInv, PlaceTypes, Pop, Items
  <2>2. /\ queue # << >> /\ queue' = Tail(queue)
        /\ cur' = [cur EXCEPT ![w] = x]
        /\ pc' = [pc EXCEPT ![w] = Branch[inst[x].phase]]
        /\ UNCHANGED <<completed, submitted, inst, weight, loc, trainerVars>>
    BY <1>3, <2>1 DEF Pop, Goto
  <2>3. /\ In(queue, x)
        /\ \A g \in Games : In(queue', g) => In(queue, g)
    BY <2>1, <2>2, PopIsOut DEF IInv, PlaceInv, PlaceTypes
  <2>4. PlaceInv'
    BY <1>1, <2>1, <2>2, GameIsTaken DEF IInv, trainerVars
  <2>5. inst[x].phase \in {"NeedRequests", "NeedResolve"}
    BY <2>3 DEF IInv, Settled
  <2>6. Branch[inst[x].phase] = IF inst[x].phase = "NeedRequests" THEN "request" ELSE "pure"
    BY <2>5 DEF Branch
  <2>7. DataTypes'
    BY <2>2, <2>6 DEF IInv, DataTypes, trainerVars, WorkerPCs
  <2>8. ASSUME NEW g \in Games PROVE GameOK(inst'[g]) /\ Settled(g)'
    BY <2>2, <2>3 DEF IInv, Settled, trainerVars
  <2>9. ASSUME NEW v \in Workers PROVE WorkerOK(v)'
    <3>1. CASE v = w
      <4>1. /\ cur'[v] = x /\ inst'[x] = inst[x]
            /\ pc'[v] = IF inst[x].phase = "NeedRequests" THEN "request" ELSE "pure"
        BY <2>2, <2>6, <3>1 DEF IInv, DataTypes, PlaceInv, PlaceTypes
      <4>2. inst[x].phase = "NeedResolve" /\ inst[x].dp => Own(inst[x], inst[x].startEv)
        BY <2>3 DEF IInv, Settled
      <4> QED BY <2>5, <4>1, <4>2 DEF WorkerOK, Deciding
    <3>2. CASE v # w
      <4>1. pc'[v] = pc[v] /\ cur'[v] = cur[v] /\ UNCHANGED <<inst, loc, weight>>
        BY <2>2, <3>2 DEF IInv, DataTypes, PlaceInv, PlaceTypes
      <4> QED BY <4>1 DEF WorkerOK, IInv
    <3> QED BY <3>1, <3>2
  <2> QED BY <2>4, <2>7, <2>8, <2>9 DEF IInv
<1> QED BY <1>2, <1>3

\* The steps between Pop and the hand-over: nothing moves, and one game and one
\* worker change.
LEMMA WorkerWorks ==
  ASSUME IInv, NEW w \in Workers, pc[w] \notin {"pop", "exited"},
         NEW j \in Instance, GameOK(j),
         inst' = [inst EXCEPT ![cur[w]] = j],
         NEW l \in WorkerPCs, pc' = [pc EXCEPT ![w] = l],
         NEW m \in [first : BOOLEAN, ev : Value, lucky : BOOLEAN], loc' = [loc EXCEPT ![w] = m],
         UNCHANGED <<queue, completed, submitted, weight, cur, trainerVars>>,
         inst'[cur[w]] = j /\ pc'[w] = l /\ loc'[w] = m /\ cur'[w] = cur[w] => WorkerOK(w)'
  PROVE  IInv'
<1>1. PICK x \in Games : x = cur[w]
  BY HeldGame
<1>2. PlaceInv'
  BY NothingMoves DEF IInv, trainerVars
<1>3. DataTypes'
  BY <1>1 DEF IInv, DataTypes, trainerVars
<1>4. /\ inst'[x] = j /\ \A g \in Games \ {x} : inst'[g] = inst[g]
      /\ pc'[w] = l /\ loc'[w] = m
      /\ \A v \in Workers \ {w} : pc'[v] = pc[v] /\ cur'[v] = cur[v] /\ loc'[v] = loc[v]
  BY <1>1 DEF IInv, DataTypes
<1>5. Settled(x)'
  BY <1>1, HeldGame DEF Settled, trainerVars
<1>6. WorkerOK(w)'
  BY <1>1, <1>4
<1> QED BY <1>1, <1>2, <1>3, <1>4, <1>5, <1>6, WorkerTouchesOne DEF trainerVars

LEMMA RequestPreserves ==
  ASSUME IInv, NEW w \in Workers, Request(w)
  PROVE  IInv'
<1> DEFINE i == inst[cur[w]]
<1>1. PICK j : j = [i EXCEPT !.dp = FALSE, !.blends = 0]
  OBVIOUS
<1>2. /\ pc[w] = "request" /\ cur[w] \in Games /\ i \in Instance /\ GameOK(i)
      /\ i.phase = "NeedRequests"
  BY HeldGame DEF Request, IInv, WorkerOK
<1>3. /\ j \in Instance
      /\ j.placed = i.placed /\ j.past = i.past /\ j.traj = i.traj /\ j.phase = i.phase
      /\ j.dp = FALSE
  <2>1. j = [[i EXCEPT !.dp = FALSE] EXCEPT !.blends = 0]
    BY <1>1, <1>2 DEF Instance
  <2>2. PICK k : k = [i EXCEPT !.dp = FALSE]
    OBVIOUS
  <2>3. /\ k \in Instance /\ k.dp = FALSE
        /\ k.placed = i.placed /\ k.past = i.past /\ k.traj = i.traj /\ k.phase = i.phase
    BY <1>2, <2>2 DEF Instance
  <2>4. j = [k EXCEPT !.blends = 0]
    BY <2>1, <2>2
  <2> QED BY <2>3, <2>4 DEF Instance
<1>4. GameOK(j)
  BY <1>2, <1>3, EditedIsOK
<1>5. inst' = [inst EXCEPT ![cur[w]] = j]
  BY <1>1, <1>2 DEF Request, IInv, DataTypes
<1>6. PICK l \in {"submit", "exited"} : pc' = [pc EXCEPT ![w] = l]
  BY DEF Request, Goto
<1>7. loc' = [loc EXCEPT ![w] = loc[w]] /\ loc[w] \in [first : BOOLEAN, ev : Value, lucky : BOOLEAN]
  BY DEF Request, IInv, DataTypes
<1>8. inst'[cur[w]] = j /\ pc'[w] = l /\ cur'[w] = cur[w] => WorkerOK(w)'
  BY <1>2, <1>3, <1>6 DEF WorkerOK, Deciding
<1>9. l \in WorkerPCs /\ pc[w] \notin {"pop", "exited"}
  BY <1>2, <1>6 DEF WorkerPCs
<1>10. UNCHANGED <<queue, completed, submitted, weight, cur, trainerVars>>
  BY DEF Request
<1> QED BY <1>3, <1>4, <1>5, <1>6, <1>7, <1>8, <1>9, <1>10, WorkerWorks

LEMMA SetWaitingPreserves ==
  ASSUME IInv, NEW w \in Workers, SetWaiting(w)
  PROVE  IInv'
<1> DEFINE i == inst[cur[w]]
<1>1. PICK j : j = [i EXCEPT !.phase = "WaitingInference"]
  OBVIOUS
<1>2. /\ pc[w] = "submit" /\ cur[w] \in Games /\ i \in Instance /\ GameOK(i)
      /\ i.phase = "NeedRequests" /\ ~i.dp
  BY HeldGame DEF SetWaiting, IInv, WorkerOK
<1>3. /\ j \in Instance
      /\ j.placed = i.placed /\ j.past = i.past /\ j.traj = i.traj
      /\ j.phase = "WaitingInference" /\ j.dp = i.dp
  BY <1>1, <1>2 DEF Instance, Phases
<1>4. GameOK(j)
  BY <1>2, <1>3, EditedIsOK
<1>5. inst' = [inst EXCEPT ![cur[w]] = j]
  BY <1>1, <1>2 DEF SetWaiting, IInv, DataTypes
<1>6. pc' = [pc EXCEPT ![w] = "commit"]
  BY DEF SetWaiting, Goto
<1>7. loc' = [loc EXCEPT ![w] = loc[w]] /\ loc[w] \in [first : BOOLEAN, ev : Value, lucky : BOOLEAN]
  BY DEF SetWaiting, IInv, DataTypes
<1>8. inst'[cur[w]] = j /\ pc'[w] = "commit" /\ cur'[w] = cur[w] => WorkerOK(w)'
  BY <1>2, <1>3 DEF WorkerOK, Deciding
<1>9. "commit" \in WorkerPCs /\ pc[w] \notin {"pop", "exited"}
  BY <1>2 DEF WorkerPCs
<1>10. UNCHANGED <<queue, completed, submitted, weight, cur, trainerVars>>
  BY DEF SetWaiting
<1> QED BY <1>3, <1>4, <1>5, <1>6, <1>7, <1>8, <1>9, <1>10, WorkerWorks

\* The value of the turn, if it is taken here, is of the answers to this turn.
LEMMA PurePreserves ==
  ASSUME IInv, NEW w \in Workers, Pure(w)
  PROVE  IInv'
<1> DEFINE i == inst[cur[w]]
           starts == ~i.dp /\ weight = "positive"
<1>1. PICK j : j = IF starts THEN [i EXCEPT !.startEv = ValueOf(i, "pure")] ELSE i
  OBVIOUS
<1>2. /\ pc[w] = "pure" /\ cur[w] \in Games /\ i \in Instance /\ GameOK(i)
      /\ i.phase = "NeedResolve" /\ (i.dp => Own(i, i.startEv)) /\ Own(i, i.evs)
  BY HeldGame DEF Pure, IInv, WorkerOK, GameOK, Deciding
<1>3. /\ ValueOf(i, "pure") \in Value
      /\ ValueOf(i, "pure").turn = i.evs.turn /\ ValueOf(i, "pure").net = i.evs.net
  BY <1>2 DEF ValueOf, Value, Instance, Evs
<1>4. /\ j \in Instance
      /\ j.placed = i.placed /\ j.past = i.past /\ j.traj = i.traj
      /\ j.phase = i.phase /\ j.dp = i.dp /\ j.evs = i.evs
      /\ j.startEv = IF starts THEN ValueOf(i, "pure") ELSE i.startEv
  BY <1>1, <1>2, <1>3 DEF Instance
<1>5. GameOK(j)
  BY <1>2, <1>4, EditedIsOK DEF Own
<1>6. inst' = [inst EXCEPT ![cur[w]] = j]
  BY <1>1, <1>2 DEF Pure, IInv, DataTypes
<1>7. pc' = [pc EXCEPT ![w] = "blend"]
  BY DEF Pure, Goto
<1>8. PICK m \in [first : BOOLEAN, ev : Value, lucky : BOOLEAN] :
        m.first = ~i.dp /\ loc' = [loc EXCEPT ![w] = m]
  <2>1. loc[w] \in [first : BOOLEAN, ev : Value, lucky : BOOLEAN]
    BY DEF IInv, DataTypes
  <2>2. i.dp \in BOOLEAN
    BY <1>2 DEF Instance
  <2>3. PICK m : m = [loc[w] EXCEPT !.first = ~i.dp]
    OBVIOUS
  <2>4. m \in [first : BOOLEAN, ev : Value, lucky : BOOLEAN] /\ m.first = ~i.dp
    BY <2>1, <2>2, <2>3
  <2>5. loc' = [loc EXCEPT ![w] = m]
    BY <2>3 DEF Pure
  <2> QED BY <2>4, <2>5
<1>9. Own(j, j.startEv) \/ (~i.dp /\ weight = "zero")
  <2>1. CASE starts
    BY <1>2, <1>3, <1>4, <2>1 DEF Own
  <2>2. CASE ~starts
    <3>1. i.dp \/ weight = "zero"
      BY <2>2 DEF IInv, DataTypes
    <3> QED BY <1>2, <1>4, <2>2, <3>1 DEF Own
  <2> QED BY <2>1, <2>2
<1>10. UNCHANGED <<queue, completed, submitted, weight, cur, trainerVars>>
  BY DEF Pure
<1>11. inst'[cur[w]] = j /\ pc'[w] = "blend" /\ loc'[w] = m /\ cur'[w] = cur[w] => WorkerOK(w)'
  BY <1>2, <1>4, <1>8, <1>9, <1>10 DEF WorkerOK, Deciding
<1>12. "blend" \in WorkerPCs /\ pc[w] \notin {"pop", "exited"}
  BY <1>2 DEF WorkerPCs
<1> QED BY <1>4, <1>5, <1>6, <1>7, <1>8, <1>10, <1>11, <1>12, WorkerWorks

LEMMA BlendPreserves ==
  ASSUME IInv, NEW w \in Workers, Blend(w)
  PROVE  IInv'
<1> DEFINE i == inst[cur[w]]
           mixes == weight = "positive" /\ i.blends = 0
<1>1. PICK j : j = IF mixes THEN [i EXCEPT !.blends = i.blends + 1] ELSE i
  OBVIOUS
<1>2. /\ pc[w] = "blend" /\ cur[w] \in Games /\ i \in Instance /\ GameOK(i)
      /\ i.phase = "NeedResolve" /\ WorkerOK(w)
  BY HeldGame DEF Blend, IInv, WorkerOK, Deciding
<1>3. /\ j \in Instance
      /\ j.placed = i.placed /\ j.past = i.past /\ j.traj = i.traj
      /\ j.phase = i.phase /\ j.dp = i.dp /\ j.evs = i.evs /\ j.startEv = i.startEv
  <2>1. mixes => i.blends + 1 \in 0..1
    OBVIOUS
  <2> QED BY <1>1, <1>2, <2>1 DEF Instance
<1>4. GameOK(j)
  BY <1>2, <1>3, EditedIsOK DEF GameOK, Own
<1>5. inst' = [inst EXCEPT ![cur[w]] = j]
  BY <1>1, <1>2 DEF Blend, IInv, DataTypes
<1>6. pc' = [pc EXCEPT ![w] = "solve"]
  BY DEF Blend, Goto
<1>7. loc' = [loc EXCEPT ![w] = loc[w]] /\ loc[w] \in [first : BOOLEAN, ev : Value, lucky : BOOLEAN]
  BY DEF Blend, IInv, DataTypes
<1>8. UNCHANGED <<queue, completed, submitted, weight, cur, trainerVars>>
  BY DEF Blend
<1>9. inst'[cur[w]] = j /\ pc'[w] = "solve" /\ loc'[w] = loc[w] /\ cur'[w] = cur[w] => WorkerOK(w)'
  BY <1>2, <1>3, <1>8 DEF WorkerOK, Deciding, Own
<1>10. "solve" \in WorkerPCs /\ pc[w] \notin {"pop", "exited"}
  BY <1>2 DEF WorkerPCs
<1> QED BY <1>3, <1>4, <1>5, <1>6, <1>7, <1>8, <1>9, <1>10, WorkerWorks

\* The solver computes its layers, unless a lucky yams is to be placed anyway.
LEMMA SolvePreserves ==
  ASSUME IInv, NEW w \in Workers, Solve(w)
  PROVE  IInv'
<1> DEFINE i == inst[cur[w]]
           Kinds == {"pure", "blended", "zero"}
<1>1. PICK lucky \in BOOLEAN, kind \in Kinds :
        /\ loc' = [loc EXCEPT ![w].lucky = lucky, ![w].ev = ValueOf(i, kind)]
        /\ inst' = [inst EXCEPT ![cur[w]].dp = @ \/ ~lucky]
  <2>1. ASSUME NEW b \in BOOLEAN
        PROVE  (IF b THEN IF i.blends > 0 THEN "blended" ELSE "pure" ELSE "zero") \in Kinds
    OBVIOUS
  <2> QED BY <2>1 DEF Solve
<1>2. PICK j : j = [i EXCEPT !.dp = i.dp \/ ~lucky]
  OBVIOUS
<1>3. /\ pc[w] = "solve" /\ cur[w] \in Games /\ i \in Instance /\ GameOK(i)
      /\ i.phase = "NeedResolve" /\ WorkerOK(w) /\ Own(i, i.evs)
  BY HeldGame DEF Solve, IInv, WorkerOK, GameOK, Deciding
<1>4. /\ j \in Instance
      /\ j.placed = i.placed /\ j.past = i.past /\ j.traj = i.traj
      /\ j.phase = i.phase /\ j.evs = i.evs /\ j.startEv = i.startEv
      /\ j.dp = (i.dp \/ ~lucky)
  BY <1>2, <1>3 DEF Instance
<1>5. GameOK(j)
  BY <1>3, <1>4, EditedIsOK DEF GameOK, Own
<1>6. inst' = [inst EXCEPT ![cur[w]] = j]
  BY <1>1, <1>2, <1>3 DEF IInv, DataTypes
<1>7. pc' = [pc EXCEPT ![w] = "act"]
  BY DEF Solve, Goto
<1>8. /\ ValueOf(i, kind) \in Value
      /\ ValueOf(i, kind).turn = i.evs.turn /\ ValueOf(i, kind).net = i.evs.net
  BY <1>3 DEF ValueOf, Value, Instance, Evs
<1>9. PICK m \in [first : BOOLEAN, ev : Value, lucky : BOOLEAN] :
        /\ m.first = loc[w].first /\ m.lucky = lucky /\ m.ev = ValueOf(i, kind)
        /\ loc' = [loc EXCEPT ![w] = m]
  <2>1. loc[w] \in [first : BOOLEAN, ev : Value, lucky : BOOLEAN]
    BY DEF IInv, DataTypes
  <2>2. PICK m : m = [loc[w] EXCEPT !.lucky = lucky, !.ev = ValueOf(i, kind)]
    OBVIOUS
  <2>3. /\ m \in [first : BOOLEAN, ev : Value, lucky : BOOLEAN]
        /\ m.first = loc[w].first /\ m.lucky = lucky /\ m.ev = ValueOf(i, kind)
    BY <1>8, <2>1, <2>2
  <2>4. loc' = [loc EXCEPT ![w] = m]
    BY <1>1, <2>2 DEF IInv, DataTypes
  <2> QED BY <2>3, <2>4
<1>10. UNCHANGED <<queue, completed, submitted, weight, cur, trainerVars>>
  BY DEF Solve
<1>11. inst'[cur[w]] = j /\ pc'[w] = "act" /\ loc'[w] = m /\ cur'[w] = cur[w] => WorkerOK(w)'
  <2>1. m.lucky \/ j.dp
    BY <1>4, <1>9
  <2>2. Own(j, m.ev)
    BY <1>3, <1>4, <1>8, <1>9 DEF Own
  <2>3. (m.first /\ weight = "zero") \/ Own(j, j.startEv)
    BY <1>3, <1>4, <1>9 DEF WorkerOK, Own
  <2>4. j.phase = "NeedResolve" /\ weight' = weight
    BY <1>3, <1>4, <1>10
  <2> QED BY <1>3, <2>1, <2>2, <2>3, <2>4 DEF WorkerOK, Deciding
<1>12. "act" \in WorkerPCs /\ pc[w] \notin {"pop", "exited"}
  BY <1>3 DEF WorkerPCs
<1> QED BY <1>4, <1>5, <1>6, <1>7, <1>9, <1>10, <1>11, <1>12, WorkerWorks

\* The hand-over: the game, as j, is in the place it was put and in no other.
LEMMA WorkerHandsOver ==
  ASSUME IInv, NEW w \in Workers, pc[w] \in {"commit", "act"},
         NEW j \in Instance, GameOK(j),
         inst' = [inst EXCEPT ![cur[w]] = j],
         pc' = [pc EXCEPT ![w] = "pop"], cur' = [cur EXCEPT ![w] = NoGame],
         NEW m \in [first : BOOLEAN, ev : Value, lucky : BOOLEAN], loc' = [loc EXCEPT ![w] = m],
         UNCHANGED <<weight, trainerVars>>,
         \/ /\ queue' = Append(queue, cur[w]) /\ UNCHANGED <<completed, submitted>>
            /\ j.phase \in {"NeedRequests", "NeedResolve"}
            /\ j.phase = "NeedResolve" => Own(j, j.startEv)
         \/ /\ completed' = Append(completed, cur[w]) /\ UNCHANGED <<queue, submitted>>
            /\ j.phase = "Completed"
         \/ /\ submitted' = submitted \union {cur[w]} /\ UNCHANGED <<queue, completed>>
            /\ j.phase = "WaitingInference" /\ ~j.dp
  PROVE  IInv'
<1>1. PICK x \in Games : x = cur[w]
  BY HeldGame
<1>2. PlaceInv'
  BY <1>1, GameIsHandedOn DEF IInv, trainerVars
<1>3. DataTypes'
  BY <1>1 DEF IInv, DataTypes, trainerVars, WorkerPCs
<1>4. /\ inst'[x] = j /\ \A g \in Games \ {x} : inst'[g] = inst[g]
      /\ pc'[w] = "pop" /\ cur'[w] = NoGame
      /\ \A v \in Workers \ {w} : pc'[v] = pc[v] /\ cur'[v] = cur[v] /\ loc'[v] = loc[v]
  BY <1>1 DEF IInv, DataTypes, PlaceInv, PlaceTypes
<1>5. WorkerOK(w)'
  BY <1>4 DEF WorkerOK, Deciding
<1>6. ~In(queue, x) /\ ~In(completed, x) /\ ~In(hand, x) /\ x \notin submitted
  BY <1>1, HeldGame
<1>7. queue \in Seq(Items) /\ completed \in Seq(Games) /\ x \in Items
  BY <1>1 DEF IInv, PlaceInv, PlaceTypes, Items
<1>8. CASE queue' = Append(queue, x)
  <2>1. \A g : In(queue', g) <=> In(queue, g) \/ g = x
    BY <1>7, <1>8, PushIsIn
  <2>2. queue' # queue
    BY <1>6, <2>1
  <2>3. /\ UNCHANGED <<completed, submitted>>
        /\ j.phase \in {"NeedRequests", "NeedResolve"}
        /\ j.phase = "NeedResolve" => Own(j, j.startEv)
    BY <2>2
  <2>4. Settled(x)'
    BY <1>4, <1>6, <2>3 DEF Settled, trainerVars
  <2> QED BY <1>1, <1>2, <1>3, <1>4, <1>5, <2>1, <2>3, <2>4, WorkerTouchesOne DEF trainerVars
<1>9. CASE completed' = Append(completed, x)
  <2>1. \A g : In(completed', g) <=> In(completed, g) \/ g = x
    BY <1>1, <1>7, <1>9, PushIsIn
  <2>2. completed' # completed
    BY <1>6, <2>1
  <2>3. UNCHANGED <<queue, submitted>> /\ j.phase = "Completed"
    BY <2>2
  <2>4. Settled(x)'
    BY <1>4, <1>6, <2>3 DEF Settled, trainerVars
  <2> QED BY <1>1, <1>2, <1>3, <1>4, <1>5, <2>1, <2>3, <2>4, WorkerTouchesOne DEF trainerVars
<1>10. CASE submitted' = submitted \union {x}
  <2>1. submitted' # submitted
    BY <1>6, <1>10
  <2>2. UNCHANGED <<queue, completed>> /\ j.phase = "WaitingInference" /\ ~j.dp
    BY <2>1
  <2>3. Settled(x)'
    BY <1>4, <1>6, <2>2 DEF Settled, trainerVars
  <2> QED BY <1>1, <1>2, <1>3, <1>4, <1>5, <1>10, <2>2, <2>3, WorkerTouchesOne DEF trainerVars
<1> QED BY <1>1, <1>8, <1>9, <1>10

LEMMA CommitPreserves ==
  ASSUME IInv, NEW w \in Workers, Commit(w)
  PROVE  IInv'
<1>1. /\ pc[w] = "commit" /\ cur[w] \in Games
      /\ inst[cur[w]] \in Instance /\ GameOK(inst[cur[w]])
      /\ inst[cur[w]].phase = "WaitingInference" /\ ~inst[cur[w]].dp
  BY HeldGame DEF Commit, IInv, WorkerOK
<1>2. inst' = [inst EXCEPT ![cur[w]] = inst[cur[w]]]
  BY <1>1 DEF Commit, IInv, DataTypes
<1>3. loc' = [loc EXCEPT ![w] = loc[w]] /\ loc[w] \in [first : BOOLEAN, ev : Value, lucky : BOOLEAN]
  BY DEF Commit, IInv, DataTypes
<1>4. /\ pc' = [pc EXCEPT ![w] = "pop"] /\ cur' = [cur EXCEPT ![w] = NoGame]
      /\ submitted' = submitted \union {cur[w]}
      /\ UNCHANGED <<queue, completed, weight, trainerVars>>
  BY DEF Commit, Goto
<1> QED BY <1>1, <1>2, <1>3, <1>4, WorkerHandsOver

\* Before the worker acts the value of the turn is in place.
LEMMA StartedIsOwn ==
  ASSUME IInv, NEW w \in Workers, pc[w] = "act"
  PROVE  /\ Started(w) \in Instance /\ GameOK(Started(w))
         /\ Started(w).phase = "NeedResolve"
         /\ Started(w).placed < Turns
         /\ Own(Started(w), Started(w).startEv)
         /\ Own(Started(w), Started(w).evs)
<1> DEFINE i == inst[cur[w]]
           late == loc[w].first /\ weight = "zero"
<1>1. PICK j : j = IF late THEN [i EXCEPT !.startEv = loc[w].ev] ELSE i
  OBVIOUS
<1>2. /\ cur[w] \in Games /\ i \in Instance /\ GameOK(i) /\ WorkerOK(w)
      /\ i.phase = "NeedResolve"
      /\ loc[w].first => Own(i, loc[w].ev)
      /\ late \/ Own(i, i.startEv)
  BY HeldGame DEF IInv, WorkerOK, Deciding
<1>3. loc[w].ev \in Value
  BY DEF IInv, DataTypes
<1>4. /\ j \in Instance
      /\ j.placed = i.placed /\ j.past = i.past /\ j.traj = i.traj
      /\ j.phase = i.phase /\ j.evs = i.evs
      /\ j.startEv = IF late THEN loc[w].ev ELSE i.startEv
  BY <1>1, <1>2, <1>3 DEF Instance
<1>5. GameOK(j) /\ Own(j, j.evs)
  <2>1. Own(j, j.evs)
    BY <1>2, <1>4 DEF GameOK, Own
  <2> QED BY <1>2, <1>4, <2>1, EditedIsOK
<1>6. Own(j, j.startEv)
  BY <1>2, <1>4 DEF Own
<1>7. j.placed < Turns
  BY <1>2, <1>4, SelfPlayAssumption DEF GameOK, Instance
<1>8. j = Started(w)
  BY <1>1 DEF Started
<1> QED BY <1>2, <1>4, <1>5, <1>6, <1>7, <1>8

\* What a placement makes of a game, in the phase that fits its count.
LEMMA PlacedIsOK ==
  ASSUME NEW i \in Instance, TrajOwn(i), i.placed < Turns, Own(i, i.startEv),
         NEW j \in Instance, j.placed = Placed(i).placed, j.past = i.past,
         j.traj = Placed(i).traj, j.phase \in {"NeedRequests", "Completed"},
         j.phase = "Completed" <=> i.placed + 1 = Turns
  PROVE  GameOK(j)
<1>1. TrajOwn(Placed(i)) /\ Placed(i).placed = i.placed + 1 /\ Placed(i).past = i.past
  BY PlacedIsOwn DEF Placed, Instance
<1>2. TrajOwn(j)
  BY <1>1 DEF TrajOwn
<1> QED BY <1>1, <1>2 DEF GameOK

LEMMA LocalsType == NoLocals \in [first : BOOLEAN, ev : Value, lucky : BOOLEAN]
  BY SelfPlayAssumption DEF NoLocals, NoValue, Value, Nets

LEMMA PlaceAndGoOnPreserves ==
  ASSUME IInv, NEW w \in Workers, PlaceAndGoOn(w)
  PROVE  IInv'
<1> DEFINE i == Started(w)
<1>1. PICK p : p = Placed(i)
  OBVIOUS
<1>2. PICK j : j = [p EXCEPT !.rolls = 2, !.phase = "NeedRequests"]
  OBVIOUS
<1>3. /\ pc[w] = "act" /\ i \in Instance /\ GameOK(i) /\ i.placed < Turns
      /\ Own(i, i.startEv) /\ cur[w] \in Games
  BY StartedIsOwn, HeldGame DEF PlaceAndGoOn
<1>4. p \in Instance /\ p.past = i.past
  BY <1>1, <1>3, PlacedIsOwn DEF GameOK, Placed, Instance
<1>5. /\ j \in Instance /\ j.phase = "NeedRequests"
      /\ j.placed = p.placed /\ j.past = p.past /\ j.traj = p.traj
  <2>1. PICK k : k = [p EXCEPT !.rolls = 2]
    OBVIOUS
  <2>2. k \in Instance /\ k.placed = p.placed /\ k.past = p.past /\ k.traj = p.traj
    BY <1>4, <2>1 DEF Instance
  <2>3. j = [k EXCEPT !.phase = "NeedRequests"]
    BY <1>2, <1>4, <2>1 DEF Instance
  <2> QED BY <2>2, <2>3 DEF Instance, Phases
<1>6. i.placed + 1 # Turns
  BY <1>3 DEF PlaceAndGoOn, Instance
<1>7. GameOK(j)
  BY <1>1, <1>3, <1>4, <1>5, <1>6, PlacedIsOK DEF GameOK
<1>8. inst' = [inst EXCEPT ![cur[w]] = j]
  BY <1>1, <1>2 DEF PlaceAndGoOn
<1>9. /\ pc' = [pc EXCEPT ![w] = "pop"] /\ cur' = [cur EXCEPT ![w] = NoGame]
      /\ loc' = [loc EXCEPT ![w] = NoLocals]
      /\ queue' = Append(queue, cur[w])
      /\ UNCHANGED <<completed, submitted, weight, trainerVars>>
  BY DEF PlaceAndGoOn, Release, Goto
<1> QED BY <1>3, <1>5, <1>7, <1>8, <1>9, LocalsType, WorkerHandsOver

LEMMA PlaceLastPreserves ==
  ASSUME IInv, NEW w \in Workers, PlaceLast(w)
  PROVE  IInv'
<1> DEFINE i == Started(w)
<1>1. PICK p : p = Placed(i)
  OBVIOUS
<1>2. PICK j : j = [p EXCEPT !.phase = "Completed"]
  OBVIOUS
<1>3. /\ pc[w] = "act" /\ i \in Instance /\ GameOK(i) /\ i.placed < Turns
      /\ Own(i, i.startEv) /\ cur[w] \in Games
  BY StartedIsOwn, HeldGame DEF PlaceLast
<1>4. p \in Instance /\ p.past = i.past
  BY <1>1, <1>3, PlacedIsOwn DEF GameOK, Placed, Instance
<1>5. /\ j \in Instance /\ j.phase = "Completed"
      /\ j.placed = p.placed /\ j.past = p.past /\ j.traj = p.traj
  BY <1>2, <1>4 DEF Instance, Phases
<1>6. i.placed + 1 = Turns
  BY DEF PlaceLast
<1>7. GameOK(j)
  BY <1>1, <1>3, <1>4, <1>5, <1>6, PlacedIsOK DEF GameOK
<1>8. inst' = [inst EXCEPT ![cur[w]] = j]
  BY <1>1, <1>2 DEF PlaceLast
<1>9. /\ pc' = [pc EXCEPT ![w] = "pop"] /\ cur' = [cur EXCEPT ![w] = NoGame]
      /\ loc' = [loc EXCEPT ![w] = NoLocals]
      /\ completed' = Append(completed, cur[w])
      /\ UNCHANGED <<queue, submitted, weight, trainerVars>>
  BY DEF PlaceLast, Release, Goto
<1> QED BY <1>3, <1>5, <1>7, <1>8, <1>9, LocalsType, WorkerHandsOver

LEMMA RerollPreserves ==
  ASSUME IInv, NEW w \in Workers, Reroll(w)
  PROVE  IInv'
<1> DEFINE i == Started(w)
<1>1. PICK j : j = [i EXCEPT !.rolls = @ - 1, !.phase = "NeedResolve"]
  OBVIOUS
<1>2. /\ pc[w] = "act" /\ i \in Instance /\ GameOK(i) /\ cur[w] \in Games
      /\ i.phase = "NeedResolve" /\ Own(i, i.startEv) /\ Own(i, i.evs)
  BY StartedIsOwn, HeldGame DEF Reroll
<1>3. /\ j \in Instance /\ j.phase = "NeedResolve"
      /\ j.placed = i.placed /\ j.past = i.past /\ j.traj = i.traj
      /\ j.evs = i.evs /\ j.startEv = i.startEv
  <2>1. PICK k : k = [i EXCEPT !.rolls = i.rolls - 1]
    OBVIOUS
  <2>2. i.rolls - 1 \in 0..2
    BY <1>2 DEF Instance, Reroll
  <2>3. /\ k \in Instance /\ k.placed = i.placed /\ k.past = i.past /\ k.traj = i.traj
        /\ k.evs = i.evs /\ k.startEv = i.startEv
    BY <1>2, <2>1, <2>2 DEF Instance
  <2>4. j = [k EXCEPT !.phase = "NeedResolve"]
    BY <1>1, <1>2, <2>1 DEF Instance
  <2> QED BY <2>3, <2>4 DEF Instance, Phases
<1>4. Own(j, j.startEv) /\ Own(j, j.evs)
  BY <1>2, <1>3 DEF Own
<1>5. GameOK(j)
  BY <1>2, <1>3, <1>4, EditedIsOK
<1>6. inst' = [inst EXCEPT ![cur[w]] = j]
  BY <1>1 DEF Reroll
<1>7. /\ pc' = [pc EXCEPT ![w] = "pop"] /\ cur' = [cur EXCEPT ![w] = NoGame]
      /\ loc' = [loc EXCEPT ![w] = NoLocals]
      /\ queue' = Append(queue, cur[w])
      /\ UNCHANGED <<completed, submitted, weight, trainerVars>>
  BY DEF Reroll, Release, Goto
<1> QED BY <1>2, <1>3, <1>4, <1>5, <1>6, <1>7, LocalsType, WorkerHandsOver

-----------------------------------------------------------------------------
(* The coordinators and the training loop.                                   *)

LEMMA AnswerPreserves ==
  ASSUME IInv, NEW net \in Nets, NEW S \in SUBSET submitted, Answer(net, S)
  PROVE  IInv'
<1>1. PICK o \in Orders(S) : queue' = queue \o o
  BY DEF Answer
<1>2. /\ submitted' = submitted \ S
      /\ UNCHANGED <<completed, weight, workerVars, trainerVars>>
      /\ \A g \in S : NetOf(inst[g]) = net
  BY DEF Answer
<1>3. PlaceInv'
  BY <1>1, <1>2, GamesAreAnswered DEF IInv, workerVars, trainerVars
<1>4. S \subseteq Games /\ IsFiniteSet(S)
  BY FS_Subset, SelfPlayAssumption DEF IInv, PlaceInv, PlaceTypes
<1>5. \A g : In(queue', g) <=> In(queue, g) \/ g \in S
  <2>1. o \in Seq(S) /\ \A g : In(o, g) <=> g \in S
    BY <1>4, OrderHasAll
  <2>2. o \in Seq(Items)
    BY <1>4, <2>1, SeqMonotonic, S \subseteq Items DEF Items
  <2>3. queue \in Seq(Items)
    BY DEF IInv, PlaceInv, PlaceTypes
  <2> QED BY <1>1, <2>1, <2>2, <2>3, JoinIsBoth
<1>6. ASSUME NEW g \in S
      PROVE  inst'[g] \in Instance /\ GameOK(inst'[g]) /\ Settled(g)'
  <2> DEFINE i == inst[g]
             evs == [turn |-> i.placed, net |-> net]
  <2>1. PICK j : j = [i EXCEPT !.phase = "NeedResolve", !.evs = evs]
    OBVIOUS
  <2>2. inst'[g] = j
    BY <1>4, <2>1 DEF Answer
  <2>3. /\ i \in Instance /\ GameOK(i) /\ i.phase = "WaitingInference"
        /\ i.dp => Own(i, i.startEv)
        /\ net = NetAt(i.past, i.placed)
    BY <1>2, <1>4, NetIsNetAt DEF IInv, Settled, GameOK
  <2>4. evs \in Evs /\ evs.turn = i.placed /\ evs.net = net
    BY <2>3, SelfPlayAssumption DEF GameOK, Instance, Evs
  <2>5. /\ j \in Instance /\ j.phase = "NeedResolve" /\ j.evs = evs
        /\ j.placed = i.placed /\ j.past = i.past /\ j.traj = i.traj
        /\ j.startEv = i.startEv /\ j.dp = i.dp
    <3>1. PICK k : k = [i EXCEPT !.phase = "NeedResolve"]
      OBVIOUS
    <3>2. /\ k \in Instance /\ k.phase = "NeedResolve"
          /\ k.placed = i.placed /\ k.past = i.past /\ k.traj = i.traj
          /\ k.startEv = i.startEv /\ k.dp = i.dp
      BY <2>3, <3>1 DEF Instance, Phases
    <3>3. j = [k EXCEPT !.evs = evs]
      BY <2>1, <2>3, <3>1 DEF Instance
    <3> HIDE DEF evs
    <3> QED BY <2>4, <3>2, <3>3 DEF Instance
  <2>6. Own(j, j.evs)
    BY <2>3, <2>4, <2>5 DEF Own
  <2>7. GameOK(j)
    BY <2>3, <2>5, <2>6, EditedIsOK
  <2>8. /\ ~In(completed, g) /\ ~In(hand, g) /\ g \notin submitted'
    BY <1>2, <1>4 DEF IInv, PlaceInv, OnePlace
  <2>9. j.dp => Own(j, j.startEv)
    BY <2>3, <2>5 DEF Own
  <2>10. Settled(g)'
    BY <1>2, <2>2, <2>5, <2>8, <2>9 DEF Settled, trainerVars
  <2> QED BY <2>2, <2>5, <2>7, <2>10
<1>7. \A g \in Games \ S : inst'[g] = inst[g]
  BY DEF Answer
<1>8. ASSUME NEW g \in Games PROVE GameOK(inst'[g]) /\ Settled(g)'
  <2>1. CASE g \in S
    BY <1>6, <2>1
  <2>2. CASE g \notin S
    <3>1. /\ inst'[g] = inst[g] /\ GameOK(inst[g]) /\ Settled(g)
          /\ In(queue', g) <=> In(queue, g)
          /\ g \in submitted' <=> g \in submitted
      BY <1>2, <1>5, <1>7, <2>2 DEF IInv
    <3> QED BY <1>2, <3>1 DEF Settled, trainerVars
  <2> QED BY <2>1, <2>2
<1>9. DataTypes'
  <2>1. inst' \in [Games -> Instance]
    <3>1. \A g \in Games : inst'[g] \in Instance
      BY <1>6, <1>7 DEF IInv, DataTypes
    <3> QED BY <3>1 DEF Answer
  <2> QED BY <1>2, <2>1 DEF IInv, DataTypes, workerVars, trainerVars
<1>10. ASSUME NEW w \in Workers PROVE WorkerOK(w)'
  <2>1. UNCHANGED <<pc, cur, loc, weight>> /\ WorkerOK(w)
    BY <1>2 DEF IInv, workerVars
  <2>2. CASE cur[w] \in Games
    <3>1. cur[w] \notin S
      BY <1>4, <2>2 DEF IInv, PlaceInv, OnePlace, Held
    <3>2. inst'[cur[w]] = inst[cur[w]]
      BY <1>7, <2>2, <3>1
    <3> QED BY <2>1, <3>2 DEF WorkerOK
  <2>3. CASE cur[w] \notin Games
    BY <2>1, <2>3 DEF WorkerOK, Deciding
  <2> QED BY <2>2, <2>3
<1> QED BY <1>3, <1>8, <1>9, <1>10 DEF IInv

LEMMA CollectPreserves ==
  ASSUME IInv, Collect
  PROVE  IInv'
<1>1. /\ completed # << >> /\ hand' = Append(hand, Head(completed))
      /\ completed' = Tail(completed)
      /\ UNCHANGED <<queue, submitted, inst, weight, workerVars, trainer, sentinels, drained>>
  BY DEF Collect
<1>2. PlaceInv'
  BY <1>1, GameIsCollected DEF IInv, workerVars
<1>3. DataTypes'
  BY <1>1 DEF IInv, DataTypes, workerVars
<1>4. \A g : In(completed', g) \/ In(hand', g) => In(completed, g) \/ In(hand, g)
  BY <1>1, PopIsOut, PushIsIn DEF IInv, PlaceInv, PlaceTypes
<1> QED BY <1>1, <1>2, <1>3, <1>4, QuietStep

LEMMA RecyclePreserves ==
  ASSUME IInv, Recycle
  PROVE  IInv'
<1>1. PICK x : x = Head(hand)
  OBVIOUS
<1>2. /\ hand # << >> /\ queue' = Append(queue, x) /\ hand' = Tail(hand)
      /\ UNCHANGED <<completed, submitted, weight, workerVars, trainer, sentinels, drained>>
  BY <1>1 DEF Recycle
<1>3. /\ x \in Games /\ In(hand, x)
      /\ \A g : In(queue', g) <=> In(queue, g) \/ g = x
      /\ \A g : In(hand', g) => In(hand, g)
  <2>1. x \in Games /\ In(hand, x) /\ \A g : In(hand', g) => In(hand, g)
    BY <1>1, <1>2, PopIsOut DEF IInv, PlaceInv, PlaceTypes
  <2> QED BY <1>2, <2>1, PushIsIn DEF IInv, PlaceInv, PlaceTypes, Items
<1>4. PlaceInv'
  BY <1>1, <1>2, GameIsReturned DEF IInv, workerVars
<1> DEFINE i == inst[x]
<1>5. i \in Instance
  BY <1>3 DEF IInv, DataTypes
<1>6. PICK e, v : e = [i.evs EXCEPT !.turn = -1] /\ v = [i.startEv EXCEPT !.turn = -1]
  OBVIOUS
<1>7. PICK past \in PastSeats[x] :
        inst' = [inst EXCEPT ![x] = NewGame(past, e, v, i.dp, i.blends)]
  <2>1. PICK past \in PastSeats[x] :
          inst' = [inst EXCEPT ![x] = [Fresh(past, [@.evs EXCEPT !.turn = -1],
                                                   [@.startEv EXCEPT !.turn = -1])
                                         EXCEPT !.dp = i.dp, !.blends = i.blends]]
    BY <1>1 DEF Recycle
  <2>2. inst' = [inst EXCEPT ![x] = [Fresh(past, e, v) EXCEPT !.dp = i.dp, !.blends = i.blends]]
    BY <1>3, <1>6, <2>1 DEF IInv, DataTypes
  <2>3. [Fresh(past, e, v) EXCEPT !.dp = i.dp, !.blends = i.blends]
          = NewGame(past, e, v, i.dp, i.blends)
    BY ResetIsNew
  <2> QED BY <2>2, <2>3
<1>8. e \in Evs /\ v \in Value
  BY <1>5, <1>6, SelfPlayAssumption DEF Instance, Evs, Value
<1>9. past \in Players \union {None} /\ i.dp \in BOOLEAN /\ i.blends \in 0..1
  BY <1>3, <1>5, SelfPlayAssumption DEF Players, Instance
<1>10. /\ inst'[x] = NewGame(past, e, v, i.dp, i.blends)
       /\ \A g \in Games \ {x} : inst'[g] = inst[g]
       /\ inst' \in [Games -> Instance]
       /\ GameOK(inst'[x]) /\ inst'[x].phase = "NeedRequests"
  <2>1. PICK n : n = NewGame(past, e, v, i.dp, i.blends)
    OBVIOUS
  <2>2. GameOK(n) /\ n.phase = "NeedRequests"
    BY <1>8, <1>9, <2>1, FreshIsOK
  <2>3. inst' = [inst EXCEPT ![x] = n]
    BY <1>7, <2>1
  <2> QED BY <1>3, <2>1, <2>2, <2>3 DEF IInv, DataTypes, GameOK
<1>11. ASSUME NEW g \in Games PROVE GameOK(inst'[g]) /\ Settled(g)'
  <2>1. CASE g = x
    <3>1. ~In(completed', g) /\ ~In(hand', g) /\ g \notin submitted'
      BY <1>3, <1>4, <2>1 DEF PlaceInv, OnePlace
    <3> QED BY <1>10, <2>1, <3>1 DEF Settled
  <2>2. CASE g # x
    BY <1>2, <1>3, <1>10, <2>2 DEF IInv, Settled
  <2> QED BY <2>1, <2>2
<1>12. DataTypes'
  BY <1>2, <1>10 DEF IInv, DataTypes, workerVars
<1>13. ASSUME NEW w \in Workers PROVE WorkerOK(w)'
  <2>1. UNCHANGED <<pc, cur, loc, weight>> /\ WorkerOK(w)
    BY <1>2 DEF IInv, workerVars
  <2>2. CASE cur[w] \in Games
    <3>1. cur[w] # x
      BY <1>3, <2>2 DEF IInv, PlaceInv, OnePlace, Held
    <3>2. inst'[cur[w]] = inst[cur[w]]
      BY <1>10, <2>2, <3>1
    <3> QED BY <2>1, <3>2 DEF WorkerOK
  <2>3. CASE cur[w] \notin Games
    BY <2>1, <2>3 DEF WorkerOK, Deciding
  <2> QED BY <2>2, <2>3
<1> QED BY <1>4, <1>11, <1>12, <1>13 DEF IInv

LEMMA PushSentinelPreserves ==
  ASSUME IInv, PushSentinel
  PROVE  IInv'
<1>1. /\ queue' = Append(queue, NoGame) /\ sentinels < Cardinality(Workers)
      /\ sentinels' = sentinels + 1
      /\ UNCHANGED <<completed, submitted, inst, weight, workerVars, hand, trainer, drained>>
  BY DEF PushSentinel
<1>2. PlaceInv'
  BY <1>1, SentinelMoves DEF IInv, workerVars
<1>3. sentinels' \in 0..Cardinality(Workers)
  BY <1>1, FS_CardinalityType, SelfPlayAssumption DEF IInv, DataTypes
<1>4. DataTypes'
  BY <1>1, <1>3 DEF IInv, DataTypes, workerVars
<1>5. \A g \in Games : In(queue', g) => In(queue, g)
  BY <1>1, PushIsIn, SelfPlayAssumption DEF IInv, PlaceInv, PlaceTypes, Items
<1> QED BY <1>1, <1>2, <1>4, <1>5, QuietStep

\* The end of a round, training and the rest of stop().
LEMMA IdlePreserves ==
  ASSUME IInv, CollectEnds \/ Train \/ StopBegins \/ ShutBatchers
  PROVE  IInv'
<1>1. /\ weight' \in {weight, "zero"}
      /\ UNCHANGED <<queue, completed, hand, submitted, inst, workerVars, sentinels>>
      /\ trainer' \in {"collect", "recycle", "stop"} /\ drained' \in BOOLEAN
  BY DEF CollectEnds, Train, StopBegins, ShutBatchers, IInv, DataTypes
<1>2. PlaceInv'
  BY <1>1, NothingMoves DEF IInv, workerVars
<1>3. DataTypes'
  BY <1>1 DEF IInv, DataTypes, workerVars
<1> QED BY <1>1, <1>2, <1>3, QuietStep

LEMMA StepPreserves == IInv /\ [Next]_vars => IInv'
<1> SUFFICES ASSUME IInv, [Next]_vars PROVE IInv'
  OBVIOUS
<1>1. ASSUME NEW w \in Workers, WorkerStep(w) PROVE IInv'
  BY <1>1, PopPreserves, RequestPreserves, SetWaitingPreserves, CommitPreserves, PurePreserves,
     BlendPreserves, SolvePreserves, PlaceAndGoOnPreserves, PlaceLastPreserves, RerollPreserves
     DEF WorkerStep
<1>2. ASSUME NEW net \in Nets, NEW S \in SUBSET submitted, Answer(net, S) PROVE IInv'
  BY <1>2, AnswerPreserves
<1>3. CASE Collect \/ Recycle \/ PushSentinel
  BY <1>3, CollectPreserves, RecyclePreserves, PushSentinelPreserves
<1>4. CASE CollectEnds \/ Train \/ StopBegins \/ ShutBatchers
  BY <1>4, IdlePreserves
<1>5. CASE UNCHANGED vars
  <2>1. PlaceInv'
    BY <1>5, NothingMoves DEF IInv, vars, workerVars, trainerVars
  <2>2. DataTypes'
    BY <1>5 DEF IInv, DataTypes, vars, workerVars, trainerVars
  <2> QED BY <1>5, <2>1, <2>2, QuietStep DEF vars, workerVars, trainerVars
<1> QED BY <1>1, <1>2, <1>3, <1>4, <1>5 DEF Next, Play, Stop

LEMMA Invariance == Spec => []IInv
  BY InitHolds, StepPreserves, PTL DEF Spec

-----------------------------------------------------------------------------
(* What follows.                                                             *)

LEMMA OnePosition ==
  ASSUME NEW s, Once(s), NEW g \in Games
  PROVE  /\ In(s, g) => \E i : Positions(s, g) = {i}
         /\ ~In(s, g) => Positions(s, g) = {}
<1>1. ASSUME In(s, g) PROVE \E i : Positions(s, g) = {i}
  <2>1. PICK i \in DOMAIN s : s[i] = g
    BY <1>1 DEF In
  <2>2. Positions(s, g) = {i}
    BY <2>1 DEF Once, Positions
  <2> QED BY <2>2
<1>2. ASSUME ~In(s, g) PROVE Positions(s, g) = {}
  BY <1>2 DEF In, Positions
<1> QED BY <1>1, <1>2

LEMMA HolderIsOne ==
  ASSUME PlaceInv, NEW g \in Games
  PROVE  Cardinality(Holders(g)) = 1
<1> DEFINE Q == {<<"queue", i>> : i \in Positions(queue, g)}
           C == {<<"completed", i>> : i \in Positions(completed, g)}
           H == {<<"hand", i>> : i \in Positions(hand, g)}
           W == {<<"worker", w>> : w \in {v \in Workers : cur[v] = g}}
           B == {<<"batch", h>> : h \in submitted \cap {g}}
<1>1. Holders(g) = Q \union C \union H \union W \union B
  BY DEF Holders
<1>2. OnePlace(g) /\ Once(queue) /\ Once(completed) /\ Once(hand)
  BY DEF PlaceInv, Unshared
<1>3. (In(queue, g) => \E h : Q = {h}) /\ (~In(queue, g) => Q = {})
  <2>1. ASSUME NEW i, Positions(queue, g) = {i} PROVE Q = {<<"queue", i>>}
    BY <2>1
  <2> QED BY <1>2, <2>1, OnePosition
<1>4. (In(completed, g) => \E h : C = {h}) /\ (~In(completed, g) => C = {})
  <2>1. ASSUME NEW i, Positions(completed, g) = {i} PROVE C = {<<"completed", i>>}
    BY <2>1
  <2> QED BY <1>2, <2>1, OnePosition
<1>5. (In(hand, g) => \E h : H = {h}) /\ (~In(hand, g) => H = {})
  <2>1. ASSUME NEW i, Positions(hand, g) = {i} PROVE H = {<<"hand", i>>}
    BY <2>1
  <2> QED BY <1>2, <2>1, OnePosition
<1>6. (Held(g) => \E h : W = {h}) /\ (~Held(g) => W = {})
  <2>1. ASSUME NEW w \in Workers, cur[w] = g PROVE W = {<<"worker", w>>}
    <3>1. {v \in Workers : cur[v] = g} = {w}
      BY <2>1 DEF PlaceInv, Unshared
    <3> QED BY <3>1
  <2>2. ~Held(g) => W = {}
    BY DEF Held
  <2> QED BY <2>1, <2>2 DEF Held
<1>7. (g \in submitted => \E h : B = {h}) /\ (g \notin submitted => B = {})
  <2>1. ASSUME g \in submitted PROVE B = {<<"batch", g>>}
    BY <2>1
  <2> QED BY <2>1
<1> HIDE DEF Q, C, H, W, B
<1>8. \E h : Holders(g) = {h}
  BY <1>1, <1>2, <1>3, <1>4, <1>5, <1>6, <1>7 DEF OnePlace
<1> QED BY <1>8, FS_Singleton

\* All variables keep their types: in particular a trajectory never outgrows the
\* turns of a game, and the answers are blended at most once per position.
THEOREM TypeCorrect == Spec => []TypeOK
<1>1. IInv => TypeOK
  BY DEF IInv, PlaceInv, PlaceTypes, DataTypes, TypeOK, Items
<1> QED BY <1>1, Invariance, PTL

\* No game is lost and none is held twice, whatever the order in which workers,
\* coordinators and the training loop pass it on.
THEOREM GamesHaveOneHolder == Spec => []OneHolder
<1>1. IInv => OneHolder
  BY HolderIsOne DEF IInv, OneHolder
<1> QED BY <1>1, Invariance, PTL

\* Whoever takes a game finds it in a phase it handles, so that no worker ever
\* drops one.
THEOREM PhasesFitHolders == Spec => []PhaseFitsHolder
<1>1. ASSUME NEW s, NEW g \in Games PROVE Positions(s, g) # {} <=> In(s, g)
  BY DEF Positions, In
<1>2. IInv => PhaseFitsHolder
  BY <1>1 DEF IInv, Settled, PhaseFitsHolder
<1> QED BY <1>2, Invariance, PTL

\* Every decision is made on the network's answers about the very position at
\* hand, by the network that plays the turn.
THEOREM DecisionsAreOwn == Spec => []DecidesOnOwnPosition
<1>1. IInv => DecidesOnOwnPosition
  <2> SUFFICES ASSUME IInv, NEW w \in Workers, pc[w] \in {"pure", "blend", "solve"}
               PROVE  /\ inst[cur[w]].evs.turn = inst[cur[w]].placed
                      /\ inst[cur[w]].evs.net = NetOf(inst[cur[w]])
    BY DEF DecidesOnOwnPosition
  <2>1. /\ GameOK(inst[cur[w]]) /\ inst[cur[w]] \in Instance
        /\ inst[cur[w]].phase = "NeedResolve"
    BY HeldGame DEF IInv, WorkerOK, Deciding
  <2> QED BY <2>1, NetIsNetAt DEF GameOK, Own
<1> QED BY <1>1, Invariance, PTL

\* Each placement of each game is recorded with the value of its own turn, by the
\* network of its own mover, even while heuristic_weight decays.
THEOREM TrajectoriesAreOwn == Spec => []TrajectoryIsOwn
<1>1. IInv => TrajectoryIsOwn
  <2> SUFFICES ASSUME IInv, NEW g \in Games
               PROVE  LET i == inst[g]
                      IN  /\ Len(i.traj) = i.placed
                          /\ i.phase = "Completed" => i.placed = Turns
                          /\ \A k \in 1..Len(i.traj) :
                               /\ i.traj[k].turn = k - 1
                               /\ i.traj[k].net = NetOf([i EXCEPT !.placed = k - 1])
    BY DEF TrajectoryIsOwn
  <2>1. GameOK(inst[g]) /\ inst[g] \in Instance
    BY DEF IInv, GameOK
  <2>2. \A n : NetOf([inst[g] EXCEPT !.placed = n]) = NetAt(inst[g].past, n)
    BY <2>1, NetIsNetAt
  <2> QED BY <2>1, <2>2 DEF GameOK, TrajOwn
<1> QED BY <1>1, Invariance, PTL

=============================================================================
