----------------------------- MODULE PlayServer -----------------------------
(***************************************************************************)
(* One game on the play server: the HTTP handlers of src/ui/server.h run   *)
(* on a pool of threads and call SessionManagerT, whose critical sections  *)
(* (GameSession) are the steps of a request here; the browsers' page       *)
(* (src/ui/play_static/js/play.js) watches the game through a stream of    *)
(* pushed states and sends requests.  Games start from the matchmaking     *)
(* (Matchmaking) or from one browser, and finished ones go to the recorder *)
(* (GameRecorder).                                                         *)
(***************************************************************************)
EXTENDS GameSession, Matchmaking, GameRecorder

CONSTANTS Steady,      \* clients that keep their page open and its timers running
          LongPollers, \* clients without EventSource: they poll with a timeout
          Loose,       \* a request that its page has given up
          NoOne,       \* who asks for a bot's turn
          SoloPlayers, \* bound: clients that start games of their own
          SoloGames,   \* the human seats of games played from one browser
          HumanTeams,  \* outcomes of the matchmaker's coin
          Positions    \* positions that a game may be started from

ASSUME ServerAssumption ==
  /\ Steady \subseteq Clients
  /\ LongPollers \subseteq Clients
  /\ SoloPlayers \subseteq Clients
  /\ HumanTeams \subseteq Teams
  /\ \A team \in HumanTeams : {team[1], team[2]} \subseteq Seats
  /\ SoloGames \subseteq SUBSET Seats
  /\ Positions \subseteq [left : [Seats -> 0..Turns], first : Seats]
  /\ Sleepers = Clients \ Steady
  /\ Loose \notin Clients /\ NoOne \notin Clients

VARIABLES
  live,     \* the session is in the manager's map
  g,        \* the session
  behind,   \* watching clients whose version is not the session's
  missed,   \* ghost: watching clients shown something that is no longer so
  view,     \* what each page takes the game for: see Views
  prompt,   \* pages that offer to hand the partner's seat to the network
  req,      \* the request of each page, and the one given up
  rec       \* the recorder

gameVars == <<live, g, behind, missed, view, prompt, req, rec>>
vars == <<gameVars, matchVars>>

\* "out": no game; "watch": its stream is open; "pending": a bot is on move and
\* the page will ask for its turn; "mine": the user is on move and the stream
\* is closed; "blind": a request failed, the page will fetch the game; "stuck":
\* nothing is awaited; "over"; "gone": the session is.
Views == {"out", "watch", "pending", "mine", "blind", "stuck", "over", "gone"}

Slots == Clients \cup {Loose}

\* Mutant of Sections: a takeover wakes nobody.
SectionsQuietTakeover(op) ==
  CASE op = "get"      -> <<"refresh", "copy">>
    [] op = "hold"     -> <<"refresh", "hold", "notify", "copy">>
    [] op = "place"    -> <<"refresh", "place", "reply", "notify", "copy">>
    [] op = "step"     -> <<"refresh", "advance", "notify", "copy">>
    [] op = "play_all" -> <<"refresh", "play", "notify", "copy">>
    [] op = "bot_step" -> <<"override", "notify", "copy">>
    [] op = "takeover" -> <<"takeover", "refresh", "copy">>
    [] op = "delete"   -> <<"remove", "forget">>
    [] op = "flag"     -> <<"look", "mark", "read">>

\* The critical sections that the handlers go through, in their order.
Sections(op) ==
  CASE op = "get"      -> <<"refresh", "copy">>
    [] op = "hold"     -> <<"refresh", "hold", "notify", "copy">>
    [] op = "place"    -> <<"refresh", "place", "reply", "notify", "copy">>
    [] op = "step"     -> <<"refresh", "advance", "notify", "copy">>
    [] op = "play_all" -> <<"refresh", "play", "notify", "copy">>
    [] op = "bot_step" -> <<"override", "notify", "copy">>
    [] op = "takeover" -> <<"takeover", "refresh", "notify", "copy">>
    [] op = "delete"   -> <<"remove", "forget">>
    [] op = "flag"     -> <<"look", "mark", "read">>

\* Mutant of Recording: a game that a bot ended is not recorded.
RecordingOfPlacements == {"place", "step", "bot_step"}

\* record_if_finished() is part of these handlers only.
Recording == {"place", "step", "play_all", "bot_step"}

NoGame == NewGame({})

Idle == [op |-> "none", by |-> NoOne, seat |-> NoSeat, at |-> <<>>, team |-> -1]

IsIdle(x) == req[x].op = "none"
At_(x, section) == ~IsIdle(x) /\ Head(req[x].at) = section
Then(x) == [req EXCEPT ![x].at = Tail(@)]

Seat(c) == page[c].seat
Shares(c) == Seat(c) # NoSeat
Partner(s) == (s + 2) % NumPlayers

Watchers == {c \in Clients : view[c] \in {"watch", "pending"} /\ Shares(c)}

\* The views change; streams open and close with them, and the first frame of
\* a new stream is always sent.
SetViews(v) ==
  LET after == {c \in Clients : v[c] \in {"watch", "pending"} /\ Shares(c)}
  IN /\ view' = v
     /\ behind' = (behind \cap after) \cup (after \ Watchers)
     /\ missed' = missed \cap after

KeepViews == UNCHANGED <<view, behind, missed>>

\* The session becomes h: with `bump' the version changes in the same section.
Change(h, bump) ==
  /\ g' = h
  /\ missed' = IF Shown(h) # Shown(g) THEN Watchers ELSE missed
  /\ behind' = IF bump THEN Watchers ELSE behind
  /\ UNCHANGED view

KeepGame == UNCHANGED <<live, g>>
KeepMatch == UNCHANGED <<queue, resolved, nextTicket, expired, page>>
KeepRest == UNCHANGED <<prompt, rec, matchVars>>

\* Mutant of Seen: the page takes any player's turn for its user's.
SeenWithoutSeat(h, s) ==
  IF h.over THEN "over" ELSE IF h.waiting THEN "mine" ELSE "pending"

\* What a state shows to the page of a seat.
Seen(h, s) ==
  IF h.over THEN "over"
  ELSE IF ~h.waiting THEN "pending"
  ELSE IF s \in {h.cur, NoSeat} THEN "mine" ELSE "watch"

-----------------------------------------------------------------------------
(* The game starts. *)

FreshGame(h) ==
  /\ live' = TRUE
  /\ g' = h
  /\ rec' = GameStarted(rec)

\* handle_matchmake_join() creates the session; both pages then enter it.
Pair(c, team) ==
  /\ ~live /\ rec.started = 0
  /\ JoinPairs(c, team)
  /\ FreshGame(MarkShared(NewGame({team[1], team[2]}), {team[1], team[2]}))
  /\ UNCHANGED <<behind, missed, view, prompt, req>>

Match ==
  /\ \/ \E c \in Clients : JoinWaits(c) \/ Poll(c) \/ Cancel(c)
     \/ \E t \in Tickets : Expire(t)
 
  /\ UNCHANGED gameVars

\* enterSharedGame()
Enter(c) ==
  /\ At(c, "playing") /\ view[c] = "out"
  /\ view' = [view EXCEPT ![c] = "watch"]
  /\ behind' = behind \cup {c}
  /\ UNCHANGED <<live, g, missed, req>> /\ KeepRest

\* handle_new_game(), from one browser
PlayAlone(c, h) ==
  /\ ~live /\ rec.started = 0 /\ nextTicket = 1
  /\ At(c, "splash") /\ view[c] = "out"
  /\ FreshGame(h)
  /\ view' = [view EXCEPT ![c] = Seen(h, NoSeat)]
  /\ UNCHANGED <<behind, missed, prompt, req, matchVars>>

SoloStart(c) ==
  /\ c \in SoloPlayers
  /\ \/ \E humans \in SoloGames : PlayAlone(c, NewGame(humans))
     \/ \E humans \in SoloGames, p \in Positions :
          PlayAlone(c, NewGameFromBoard(humans, p.left, p.first))

-----------------------------------------------------------------------------
(* The page. *)

\* The requests that a page makes by itself.
Driven(c, op) ==
  \/ op = "play_all" /\ view[c] = "pending" /\ Shares(c)
  \/ op = "step" /\ view[c] = "pending" /\ ~Shares(c)
  \/ op = "get" /\ view[c] = "blind"

\* The requests of its user.
Chosen(c, op) ==
  \/ op \in {"hold", "place"} /\ view[c] = "mine"
  \/ op = "bot_step" /\ view[c] = "mine" /\ ~Shares(c)
  \/ op = "takeover" /\ c \in prompt /\ view[c] \in {"watch", "mine"}
  \/ op = "delete" /\ view[c] \in {"mine", "over"} /\ ~Shares(c)

Asked(c, op) ==
  [Idle EXCEPT !.op = op, !.by = c, !.at = Sections(op),
               !.seat = IF op = "takeover" THEN Partner(Seat(c)) ELSE Seat(c)]

Ask(c, op) ==
  /\ IsIdle(c)
  /\ req' = [req EXCEPT ![c] = Asked(c, op)]
  /\ UNCHANGED <<live, g, behind, missed, view>> /\ KeepRest

Drive(c) == \E op \in {"play_all", "step", "get"} : Driven(c, op) /\ Ask(c, op)

Use(c) ==
  \E op \in {"hold", "place", "bot_step", "takeover", "delete"} :
    Chosen(c, op) /\ Ask(c, op)

Flag(c) ==
  /\ view[c] = "over" /\ IsIdle(c)
  /\ req' = [req EXCEPT ![c] = Asked(c, "flag")]
  /\ Fault("flagged")
  /\ UNCHANGED <<live, g, behind, missed, view, prompt, rec>> /\ KeepMatch

\* handle_hold_preview() and handle_rolling(): set, then wake the watchers.
Tell(c, spins) ==
  /\ view[c] = "mine" /\ Shares(c)
  /\ live /\ IsOnMove(g, Seat(c)) /\ g.rolls > 0
  /\ Change(Previewed(g, Seat(c), spins), TRUE)
  /\ UNCHANGED <<live, req>> /\ KeepRest

\* The page's time for the answer to its placement runs out; the handler knows
\* nothing of it.
GiveUp(c) ==
  /\ c \notin Steady /\ ~IsIdle(c) /\ IsIdle(Loose)
  /\ req[c].op = "place"
  /\ req' = [req EXCEPT ![Loose] = req[c], ![c] = Idle]
  /\ SetViews([view EXCEPT ![c] = "blind"])
  /\ Fault("gave up")
  /\ UNCHANGED <<live, g, prompt, rec>> /\ KeepMatch

Offered(c, h) ==
  IF Partner(Seat(c)) \in h.disconnected THEN prompt \cup {c} ELSE prompt \ {c}

\* A frame of handle_events(), or the answer of handle_longpoll(), reaches a
\* page that is ready for it.
Deliver(c) ==
  /\ view[c] = "watch" /\ Shares(c) /\ IsIdle(c)
  /\ ~live \/ c \in behind \/ c \in LongPollers
  /\ LET sees == IF live THEN Seen(g, Seat(c)) ELSE "gone"
     IN /\ view' = [view EXCEPT ![c] = sees]
        /\ prompt' = IF live THEN Offered(c, g) ELSE prompt
        /\ behind' = behind \ {c}
        /\ missed' = missed \ {c}
  /\ UNCHANGED <<live, g, req, rec, matchVars>>

\* The same loops look for silent seats before they wait.
Sweep(c) ==
  /\ c \in Watchers /\ live
  /\ Refreshed(g) # g
  /\ Change(Refreshed(g), TRUE)
  /\ UNCHANGED <<live, req>> /\ KeepRest

\* handle_heartbeat()
Heartbeat(c) ==
  /\ At(c, "playing") /\ view[c] \notin {"out", "gone"}
  /\ live /\ Silent(g, Seat(c))
  /\ LET h == Refreshed(Beaten(g, Seat(c)))
     IN Change(h, h.disconnected # g.disconnected)
  /\ UNCHANGED <<live, req>> /\ KeepRest

\* A steady page beats for its seat, and is soon told which seat it has.
AttendedSeats ==
  {Seat(c) : c \in {d \in Steady : At(d, "playing")}} \cup
  {resolved[t] : t \in {page[d].ticket : d \in Steady} \cap DOMAIN resolved}

\* kSharedTimeoutMs passes without a heartbeat of the seat.
Silence(s) ==
  /\ live /\ g.shared /\ g.seen[s] = "fresh"
  /\ s \notin AttendedSeats
  /\ g' = [g EXCEPT !.seen[s] = "stale"]
  /\ Fault("seat silent")
  /\ KeepViews /\ UNCHANGED <<live, prompt, req, rec>> /\ KeepMatch

-----------------------------------------------------------------------------
(* The handlers.  A request ends with its answer, which its page takes in; *)
(* nobody takes in the answer to the loose one.                            *)

\* What the page does with an answer that shows `saw'.  startSharedEvents()
\* opens the stream again after a placement, whatever the answer shows.
AfterAnswer(c, op, saw) ==
  CASE op \in {"flag", "takeover"} -> view[c]
    [] op = "delete" -> "out"
    [] op = "hold" -> IF saw = "mine" THEN "mine" ELSE "stuck"
    [] op = "play_all" -> IF c \in LongPollers THEN saw ELSE "watch"
    [] op = "place" /\ Shares(c) -> IF saw = "over" THEN "over" ELSE "watch"
    [] op = "get" /\ Shares(c) /\ saw = "pending" -> "watch"
    [] OTHER -> saw

\* An error is shown in the turn line; a failed fetch ends the game here.
AfterError(c, op) ==
  CASE op = "get" -> "gone"
    [] op = "play_all" -> "watch"
    [] op = "step" -> "stuck"
    [] op = "delete" -> "out"
    [] OTHER -> view[c]

Close(x, to) ==
  /\ req' = [req EXCEPT ![x] = Idle]
  /\ IF x \in Clients THEN SetViews([view EXCEPT ![x] = to]) ELSE KeepViews

Answer(x, saw) ==
  Close(x, IF x \in Clients THEN AfterAnswer(x, req[x].op, saw) ELSE "out")

Refuse(x) == Close(x, IF x \in Clients THEN AfterError(x, req[x].op) ELSE "out")

Next_(x) == req' = Then(x)
Stay == UNCHANGED req

Refresh(x) ==
  /\ At_(x, "refresh")
  /\ IF live /\ Refreshed(g) # g THEN Change(Refreshed(g), TRUE)
     ELSE UNCHANGED g /\ KeepViews
  /\ Next_(x)
  /\ UNCHANGED live /\ KeepRest

Hold(x) ==
  /\ At_(x, "hold")
  /\ IF live /\ CanHold(g)
     THEN Change(Held(g), FALSE) /\ Next_(x)
     ELSE UNCHANGED g /\ Refuse(x)
  /\ UNCHANGED live /\ KeepRest

Place(x) ==
  /\ At_(x, "place")
  /\ IF live /\ CanPlace(g)
     THEN Change(HumanPlaced(g, req[x].by), FALSE) /\ Next_(x)
     ELSE UNCHANGED g /\ Refuse(x)
  /\ UNCHANGED live /\ KeepRest

\* One round of human_place()'s loop; it goes on after a bot's turn.
Reply(x) ==
  /\ At_(x, "reply")
  /\ IF live /\ ~ReplyEnds(g)
     THEN LET h == ReplyPlayed(g, NoOne)
          IN Change(h, FALSE) /\ IF ReplyEnds(h) THEN Next_(x) ELSE Stay
     ELSE UNCHANGED g /\ KeepViews /\ Next_(x)
  /\ UNCHANGED live /\ KeepRest

\* One round of play_to_completion()
PlayRound(x) ==
  /\ At_(x, "play")
  /\ IF live /\ ~g.over /\ ~g.waiting
     THEN LET h == RoundPlayed(g, NoOne)
          IN Change(h, FALSE) /\ IF ReplyEnds(h) THEN Next_(x) ELSE Stay
     ELSE UNCHANGED g /\ KeepViews /\ Next_(x)
  /\ UNCHANGED live /\ KeepRest

Advance(x) ==
  /\ At_(x, "advance")
  /\ IF live THEN Change(Advanced(g, NoOne), FALSE) ELSE UNCHANGED g /\ KeepViews
  /\ Next_(x)
  /\ UNCHANGED live /\ KeepRest

Override(x) ==
  /\ At_(x, "override")
  /\ IF live THEN Change(Overridden(g, NoOne), FALSE) ELSE UNCHANGED g /\ KeepViews
  /\ Next_(x)
  /\ UNCHANGED live /\ KeepRest

TakeOver(x) ==
  /\ At_(x, "takeover")
  /\ IF live /\ CanTakeOver(g, req[x].seat)
     THEN Change(TakenOver(g, req[x].seat), FALSE) /\ Next_(x)
     ELSE UNCHANGED g /\ Refuse(x)
  /\ prompt' = prompt \ {x}
  /\ UNCHANGED <<live, rec, matchVars>>

\* Mutant of Notify: the version is not changed.
NotifyNobody(x) ==
  /\ At_(x, "notify")
  /\ Next_(x)
  /\ UNCHANGED <<live, g, behind, missed, view>> /\ KeepRest

\* notify_changed()
Notify(x) ==
  /\ At_(x, "notify")
  /\ Next_(x)
  /\ behind' = IF live THEN Watchers ELSE behind
  /\ UNCHANGED <<live, g, missed, view>> /\ KeepRest

\* get_session_copy(), and the game goes to the recorder if it is over.
Copy(x) ==
  /\ At_(x, "copy")
  /\ CASE ~live -> Refuse(x)
       [] live /\ g.over /\ req[x].op \in Recording ->
            /\ req' = [req EXCEPT ![x].at = <<"claim">>, ![x].team = HumanTeam(g)]
            /\ KeepViews
       [] OTHER -> Answer(x, Seen(g, Seat(req[x].by)))
  /\ prompt' = IF live /\ x \in Clients /\ Shares(x) /\ req[x].op = "place"
               THEN Offered(x, g) ELSE prompt
  /\ KeepGame /\ UNCHANGED <<rec, matchVars>>

Record(x, r) ==
  /\ rec' = r
  /\ KeepGame /\ UNCHANGED <<prompt, matchVars>>

Claim(x) ==
  /\ At_(x, "claim")
  /\ IF MayFinish(rec)
     THEN /\ Record(x, Claimed(rec))
          /\ req' = [req EXCEPT ![x].at = <<"open", "write", "line">>]
          /\ KeepViews
     ELSE Record(x, rec) /\ Answer(x, "over")

Open_(x) ==
  /\ At_(x, "open")
  /\ Record(x, FileOpened(rec)) /\ Next_(x) /\ KeepViews

Write(x) ==
  /\ At_(x, "write")
  /\ Record(x, FileWritten(rec, IF req[x].op = "flag" THEN "flagged" ELSE "game"))
  /\ IF Tail(req[x].at) = <<>> THEN Answer(x, "over") ELSE Next_(x) /\ KeepViews

Line(x) ==
  /\ At_(x, "line")
  /\ Record(x, LineAppended(rec, req[x].team)) /\ Answer(x, "over")

Remove(x) ==
  /\ At_(x, "remove")
  /\ live' = FALSE /\ g' = NoGame
  /\ Next_(x)
  /\ KeepViews /\ KeepRest

Forget(x) ==
  /\ At_(x, "forget")
  /\ Record(x, Forgotten(rec)) /\ Answer(x, "out")

Look(x) ==
  /\ At_(x, "look")
  /\ Record(x, rec)
  /\ IF MayFlag(rec) THEN Next_(x) /\ KeepViews ELSE Refuse(x)

Mark(x) ==
  /\ At_(x, "mark")
  /\ Record(x, Flagged(rec)) /\ Next_(x) /\ KeepViews

\* A text that is no record, or none, is left alone.
Read(x) ==
  /\ At_(x, "read")
  /\ Record(x, rec)
  /\ IF IsRecord(rec.file)
     THEN req' = [req EXCEPT ![x].at = <<"open", "write">>] /\ KeepViews
     ELSE Answer(x, "over")

\* The process ends and comes back: sessions, tickets and requests are lost.
Crash ==
  /\ rec.started = 1
  /\ Fault("restarted")
  /\ live' = FALSE /\ g' = NoGame
  /\ rec' = RecorderRestarted(rec)
  /\ req' = [x \in Slots |-> Idle]
  /\ queue' = {} /\ resolved' = <<>> /\ nextTicket' = 1 /\ expired' = {}
  /\ SetViews([c \in Clients |->
       IF ~IsIdle(c) \/ view[c] = "watch" THEN "blind" ELSE view[c]])
  /\ prompt' = {}
  /\ UNCHANGED page

-----------------------------------------------------------------------------
Init ==
  /\ InitMatch
  /\ live = FALSE
  /\ g = NoGame
  /\ behind = {} /\ missed = {} /\ prompt = {}
  /\ view = [c \in Clients |-> "out"]
  /\ req = [x \in Slots |-> Idle]
  /\ rec = NoRecord

Handle(x) ==
  /\ ~IsIdle(x)
  /\ \/ Refresh(x) \/ Hold(x) \/ Place(x) \/ Reply(x) \/ PlayRound(x)
     \/ Advance(x) \/ Override(x) \/ TakeOver(x) \/ Notify(x)
     \/ Copy(x) \/ Claim(x) \/ Open_(x) \/ Write(x) \/ Line(x)
     \/ Remove(x) \/ Forget(x) \/ Look(x) \/ Mark(x) \/ Read(x)

Next ==
  \/ Match
  \/ \E c \in Clients :
       \/ \E team \in HumanTeams : Pair(c, team)
       \/ Enter(c) \/ SoloStart(c) \/ Drive(c) \/ Use(c) \/ Flag(c)
       \/ \E spins \in BOOLEAN : Tell(c, spins)
       \/ GiveUp(c) \/ Deliver(c) \/ Sweep(c) \/ Heartbeat(c)
  \/ \E s \in Seats : Silence(s)
  \/ \E x \in Slots : Handle(x)
  \/ Crash

\* A handler that was called goes on, a frame that is due is sent, and the
\* page of a steady client does what it does by itself.
Fairness ==
  /\ \A x \in Slots : WF_vars(Handle(x))
  /\ \A c \in Steady : WF_vars(Enter(c)) /\ WF_vars(Drive(c)) /\ WF_vars(Deliver(c))

Spec == Init /\ [][Next]_vars
FairSpec == Spec /\ Fairness

-----------------------------------------------------------------------------
(* Properties. *)

TypeOK ==
  /\ MatchTypeOK
  /\ live \in BOOLEAN
  /\ g \in Sessions(Clients \cup {NoOne})
  /\ behind \subseteq Watchers /\ missed \subseteq Watchers
  /\ prompt \subseteq Clients
  /\ view \in [Clients -> Views]
  /\ \A x \in Slots : IsIdle(x) <=> req[x] = Idle
  /\ rec \in Records(0..1)

CutShort(h) == \E i \in DOMAIN h.history : h.history[i].forced

\* While a player is waited for, what is shown and later recorded of the turn
\* is of this turn: its throw, its player, as many holds as rolls were used,
\* and a preview of these dice (live_hold_player is "reset ... so a stale mask
\* is never shown").  Requests of two pages, time-outs and takeovers come
\* between the sections that set these fields one by one.  A turn that
\* play_to_completion() found unopened is blank; bot_step leaves the preview
\* of the turn it cuts short, and its holds, which the next turn shows if a
\* placement that was given up opens it.
LiveTurnIsOfThisTurn ==
  live /\ g.waiting =>
    /\ g.turn.of # NoTurn =>
         /\ g.turn.player = g.cur /\ g.turn.of = Thrown(g)
         /\ \/ g.turn.holds = Rerolls - g.rolls
            \/ "gave up" \in faults /\ CutShort(g)
    /\ g.preview.seat = g.cur => g.preview.of = Thrown(g) \/ CutShort(g)

\* A page's placement is written on its own sheet, though human_place() does
\* not ask whose it is: only the page's view of the game keeps the players
\* apart, and it may be old.  It fails to when the page's seat was handed to
\* the network while it was away, or a placement it gave up arrives late.
SheetsStayApart ==
  \A i \in DOMAIN g.history :
    LET e == g.history[i]
    IN e.by \in Clients /\ Shares(e.by) /\ e.seat # Seat(e.by) =>
         "gave up" \in faults \/ Seat(e.by) \in g.takenOver

\* No change stays unseen: once the handlers that made changes have woken the
\* watchers, a stream that is not about to send a new state has sent the
\* present one, however the sections of changing, waking and waiting mix.
NoChangeUnseen ==
  live /\ (\A x \in Slots : \A i \in DOMAIN req[x].at : req[x].at[i] # "notify")
    => missed \subseteq behind

\* Two requests may see the game over, and a flag may rewrite its file while
\* it is read: the game gets one line in the index, with the team of its
\* humans, and a listed game has its file, whole but for the moments of a
\* flag's rewriting, or forever if the server stopped in one of them.
RecordedOnce ==
  /\ Len(rec.finished) <= rec.started
  /\ live => \A i \in DOMAIN rec.finished : rec.finished[i] = HumanTeam(g)
  /\ Listed(rec, FALSE) > 0 =>
       \/ Served(rec) \in {"game", "flagged"}
       \/ "flagged" \in faults /\ Served(rec) = "torn"

\* The record names the player whose sheet the turn was written on: it is
\* replayed by the review pages (`player' of a TurnRecord).
NamesTheMover ==
  \A i \in DOMAIN g.history : g.history[i].player = g.history[i].seat

\* A shared game with a steady page does not stop at a bot's turn: whoever
\* left, gave up or was replaced, some page asks for the turn.  (A page that
\* plays goes on playing, so to stop at a turn is to be in it for ever.)
BotTurnsArePlayed ==
  \A c \in Steady :
    []<>(live /\ g.shared /\ At(c, "playing") => ~BotsTurn(g))

\* A game that was played to its end gets its line, or is counted as dropped
\* because the player deleted it or the server stopped.
FinishedIsRecorded ==
  []<>(live /\ g.over /\ g.history # <<>> => Len(rec.finished) = 1)
=============================================================================
