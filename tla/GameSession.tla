---------------------------- MODULE GameSession ----------------------------
(***************************************************************************)
(* One game of the web interface (src/ui/game_session.h) and what the      *)
(* critical sections of SessionManagerT (src/ui/session_manager.h) make of *)
(* it.  Every operator maps the session, a record, to the session that the *)
(* section leaves when it releases the session's mutex; the interleaving   *)
(* of the sections is PlayServer's.                                        *)
(*                                                                         *)
(* A sheet is the number of its empty cells, a throw is the number of      *)
(* rerolls left, and the dice a turn started from are known by the turn    *)
(* they were thrown for.                                                   *)
(***************************************************************************)
EXTENDS Integers, Sequences, FiniteSets

CONSTANTS NumPlayers,   \* Traits::kNumPlayers
          Turns,        \* cells of a sheet: turns that each seat has
          Rerolls       \* rolls_left at the start of a turn (2 in the code)

ASSUME SessionAssumption ==
  /\ NumPlayers \in Nat \ {0}
  /\ Turns \in Nat \ {0}
  /\ Rerolls \in Nat

Seats == 0..(NumPlayers - 1)
NoSeat == -1
NoTurn == -1

\* The initial value of TurnRecord: player 0, zeroed dice, no holds.
EmptyTurn == [player |-> 0, of |-> NoTurn, holds |-> 0]

\* A finished turn.  `seat' is the sheet it was written on and `by' who asked
\* for it (a client, or NoOne for a bot): both are read by properties only.
Entries(By) == [player : Seats, seat : Seats, forced : BOOLEAN, by : By]

Sessions(By) ==
  [ human : SUBSET Seats, left : [Seats -> 0..Turns], cur : Seats,
    rolls : 0..Rerolls, over : BOOLEAN, waiting : BOOLEAN,
    turn : [player : Seats, of : Int, holds : 0..Rerolls],
    history : Seq(Entries(By)),
    preview : [seat : Seats \cup {NoSeat}, of : Int], rolling : BOOLEAN,
    shared : BOOLEAN, seen : [Seats -> {"never", "fresh", "stale"}],
    takenOver : SUBSET Seats, disconnected : SUBSET Seats ]

Thrown(g) == Len(g.history)

\* The current turn is shown from its first throw on.  Two of the places that
\* hand the move to a human reset current_turn first, the others do not.
Open(g) ==
  [g EXCEPT !.waiting = TRUE,
            !.turn = [@ EXCEPT !.player = g.cur, !.of = Thrown(g)]]

OpenAfresh(g) == Open([g EXCEPT !.turn = EmptyTurn])

Deal(humans, board, first, open) ==
  [ human |-> humans, left |-> board, cur |-> first,
    rolls |-> Rerolls, over |-> open, waiting |-> FALSE,
    turn |-> EmptyTurn, history |-> <<>>,
    preview |-> [seat |-> NoSeat, of |-> NoTurn], rolling |-> FALSE,
    shared |-> FALSE, seen |-> [s \in Seats |-> "never"],
    takenOver |-> {}, disconnected |-> {} ]

Dealt(g) == IF ~g.over /\ g.cur \in g.human THEN Open(g) ELSE g

\* create_session()
NewGame(humans) == Dealt(Deal(humans, [s \in Seats |-> Turns], 0, FALSE))

IsTerminal(left) == \A s \in Seats : left[s] = 0

\* create_session_from_board(): the sheets and the seat on move are given.
NewGameFromBoard(humans, board, first) ==
  Dealt(Deal(humans, board, first, IsTerminal(board)))

\* mark_shared()
MarkShared(g, seats) ==
  [g EXCEPT !.shared = TRUE,
            !.seen = [s \in Seats |-> IF s \in seats THEN "fresh" ELSE @[s]]]

\* perform_placement(): the move passes on and the next turn is thrown, unless
\* the last cell was filled.
Placed(g) ==
  LET left == [g.left EXCEPT ![g.cur] = @ - 1]
  IN IF IsTerminal(left)
     THEN [g EXCEPT !.left = left, !.over = TRUE]
     ELSE [g EXCEPT !.left = left, !.cur = (g.cur + 1) % NumPlayers,
                    !.rolls = Rerolls]

Note(g, who, forced, by) ==
  [g EXCEPT !.history = Append(@, [player |-> who, seat |-> g.cur,
                                   forced |-> forced, by |-> by])]

CanHold(g) == ~g.over /\ g.waiting /\ g.rolls > 0

\* human_hold(): the preview becomes the dice that were kept.
Held(g) ==
  [g EXCEPT !.turn.holds = @ + 1, !.rolls = @ - 1, !.rolling = FALSE,
            !.preview = [seat |-> g.cur, of |-> Thrown(g)]]

CanPlace(g) == ~g.over /\ g.waiting

\* Mutant of HumanPlaced: the turn that was recorded is not cleared.
HumanPlacedKeepsTurn(g, by) ==
  [Placed(Note(g, g.turn.player, FALSE, by)) EXCEPT
     !.waiting = FALSE, !.rolling = FALSE, !.preview = [@ EXCEPT !.seat = NoSeat]]

\* human_place(), its first section
HumanPlaced(g, by) ==
  [Placed(Note(g, g.turn.player, FALSE, by)) EXCEPT
     !.waiting = FALSE, !.rolling = FALSE, !.turn = EmptyTurn,
     !.preview = [@ EXCEPT !.seat = NoSeat]]

\* play_one_bot_turn(): a network, roll-out or heuristic player rerolls as it
\* likes and places; the record starts from the dice it found.
BotPlayed(g, forced, by) == Placed(Note(g, g.cur, forced, by))

BotsTurn(g) == ~g.over /\ ~g.waiting /\ g.cur \notin g.human

ReplyEnds(g) == g.over \/ g.waiting

\* One round of human_place()'s loop after the placement.
ReplyPlayed(g, by) ==
  IF ReplyEnds(g) THEN g
  ELSE IF g.cur \in g.human THEN Open(g) ELSE BotPlayed(g, FALSE, by)

AfterBot(g) == IF ~g.over /\ g.cur \in g.human THEN OpenAfresh(g) ELSE g

\* advance_turn()
Advanced(g, by) ==
  IF g.over \/ g.waiting THEN g
  ELSE IF g.cur \in g.human THEN Open(g) ELSE AfterBot(BotPlayed(g, FALSE, by))

\* advance_turn_bot_override(): the seat counts as a bot's for this turn.
Overridden(g, by) ==
  IF g.over THEN g
  ELSE AfterBot(BotPlayed([g EXCEPT !.waiting = FALSE], g.cur \in g.human, by))

\* One round of play_to_completion(): a human's turn that nobody has opened
\* yet is opened without its player and its dice.
RoundPlayed(g, by) ==
  IF g.over \/ g.waiting THEN g
  ELSE IF g.cur \in g.human THEN [g EXCEPT !.waiting = TRUE]
  ELSE AfterBot(BotPlayed(g, FALSE, by))

IsOnMove(g, s) == ~g.over /\ g.waiting /\ g.cur = s

\* set_hold_preview() and set_rolling()
Previewed(g, s, spins) ==
  [g EXCEPT !.preview = [seat |-> s, of |-> Thrown(g)], !.rolling = spins]

\* heartbeat()
Beaten(g, s) == [g EXCEPT !.seen[s] = "fresh"]

Silent(g, s) == g.seen[s] = "stale"

\* refresh_disconnects()
Refreshed(g) ==
  IF ~g.shared \/ g.over THEN g
  ELSE [g EXCEPT !.disconnected =
          {s \in Seats : s \in g.human /\ s \notin g.takenOver /\ Silent(g, s)}]

CanTakeOver(g, s) == g.shared /\ ~g.over /\ s \in g.human /\ Silent(g, s)

\* takeover_seat(): a turn in progress is left to the network.
TakenOver(g, s) ==
  LET flipped == [g EXCEPT !.human = @ \ {s}, !.takenOver = @ \cup {s},
                           !.disconnected = @ \ {s}]
  IN IF s = g.cur /\ g.waiting
     THEN [flipped EXCEPT !.waiting = FALSE, !.turn = EmptyTurn] ELSE flipped

\* game_state_to_json(): what a client is shown.  The turn in progress is
\* shown while a human is waited for, the preview if it is the mover's.
LiveTurn(g) ==
  IF g.waiting
  THEN [turn |-> g.turn, preview |-> IF g.preview.seat = g.cur THEN g.preview.of ELSE NoTurn,
        rolling |-> g.preview.seat = g.cur /\ g.rolling]
  ELSE [turn |-> EmptyTurn, preview |-> NoTurn, rolling |-> FALSE]

Shown(g) ==
  [ over |-> g.over, cur |-> g.cur, rolls |-> g.rolls, waiting |-> g.waiting,
    takenOver |-> g.takenOver, disconnected |-> g.disconnected,
    left |-> g.left, history |-> g.history, live |-> LiveTurn(g),
    human |-> g.human ]

\* record_if_finished(): the team of the first seat that is still human.
HumanTeam(g) ==
  IF g.human = {} THEN -1
  ELSE (CHOOSE s \in g.human : \A t \in g.human : s <= t) % 2
=============================================================================
