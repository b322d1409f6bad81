---------------------------- MODULE GameRecorder ----------------------------
(***************************************************************************)
(* What the play server keeps of one game: GameRecorder's memory and files *)
(* (src/ui/game_recorder.cc), and what the admin pages read from the files *)
(* (src/ui/server.h).  The operators are the steps of start_game(),        *)
(* finish_game(), flag_game() and forget() between which other requests,   *)
(* or a crash, may come; PlayServer puts them in order.                    *)
(***************************************************************************)
EXTENDS Integers, Sequences, FiniteSets

\* What is in games/<uuid>.json: nothing, the game, or the game with its flag;
\* "torn" after it was opened with O_TRUNC and before its text is written.
FileTexts == {"none", "torn", "game", "flagged"}

\* The human_team field of a finished line: -1 when no seat is human.
Records(flags) ==
  [ active : BOOLEAN,     \* active_ holds the session
    known : BOOLEAN,      \* session_uuid_ holds the session
    started : 0..1,       \* lines of started.jsonl
    finished : Seq({-1, 0, 1}),  \* lines of finished.jsonl
    marked : flags,       \* lines of flagged.jsonl
    file : FileTexts ]

NoRecord == [active |-> FALSE, known |-> FALSE, started |-> 0,
             finished |-> <<>>, marked |-> 0, file |-> "none"]

\* Mutant of Claimed: the metadata is left for the next caller.
ClaimedByAll(r) == r

\* start_game()
GameStarted(r) ==
  [r EXCEPT !.active = TRUE, !.known = TRUE, !.started = @ + 1]

\* finish_game(): the first caller takes the metadata, under the lock ...
MayFinish(r) == r.active
Claimed(r) == [r EXCEPT !.active = FALSE]

\* ... then writes the file, and then its line in the index.
FileOpened(r) == [r EXCEPT !.file = "torn"]
FileWritten(r, text) == [r EXCEPT !.file = text]
LineAppended(r, team) == [r EXCEPT !.finished = Append(@, team)]

\* flag_game(): known under the lock, the line, then the file is read and, if
\* it was a whole record, written again.
MayFlag(r) == r.known
Flagged(r) == [r EXCEPT !.marked = @ + 1]
IsRecord(text) == text \in {"game", "flagged"}

\* forget()
Forgotten(r) == [r EXCEPT !.active = FALSE, !.known = FALSE]

\* The process ends: the maps are gone, the files are as they were.
RecorderRestarted(r) == Forgotten(r)

-----------------------------------------------------------------------------
(* The admin pages. *)

\* human_result(): with no human seat at the end the game counts as a draw.
HumanResult(team, winner) ==
  IF team < 0 \/ winner < 0 THEN "draw"
  ELSE IF team = winner THEN "win" ELSE "loss"

\* handle_games_stats(): a started game without a finished line was dropped.
Dropped(r) == IF r.started > Len(r.finished) THEN r.started - Len(r.finished) ELSE 0

\* handle_games_list(): the finished games, or the flagged ones of them.
Listed(r, onlyFlagged) ==
  IF onlyFlagged /\ r.marked = 0 THEN 0 ELSE Len(r.finished)

\* handle_game_record(): the file as it is, with the flag merged in.
Served(r) ==
  IF r.file = "game" /\ r.marked > 0 THEN "flagged" ELSE r.file
=============================================================================
