--------------------------- MODULE PlayServerProofs ---------------------------
(***************************************************************************)
(* Theorems about one game on the play server (PlayServer), for any pages, *)
(* any seats that they play, any positions to start from and any number of *)
(* turns and rerolls: what is shown of the turn in progress is of this     *)
(* turn, each page's placements are on its own sheet, no change stays      *)
(* unseen, and the recorder keeps one line for the game.                   *)
(*                                                                         *)
(* Most of the invariant says where a request can be when something is so: *)
(* the sections of several requests mix, and what keeps them apart is what *)
(* the pages take the game for.                                            *)
(***************************************************************************)
EXTENDS PlayServer, NaturalsInduction, WellFoundedInduction, TLAPS

(* The sections that are left of a request, by its operation.               *)

Claiming == {<<"claim">>, <<"open", "write", "line">>, <<"write", "line">>, <<"line">>}

Stages(op) ==
  CASE op = "get" -> {<<"refresh", "copy">>, <<"copy">>}
    [] op = "hold" -> {<<"refresh", "hold", "notify", "copy">>,
                       <<"hold", "notify", "copy">>, <<"notify", "copy">>, <<"copy">>}
    [] op = "place" -> {<<"refresh", "place", "reply", "notify", "copy">>,
                        <<"place", "reply", "notify", "copy">>,
                        <<"reply", "notify", "copy">>, <<"notify", "copy">>,
                        <<"copy">>} \cup Claiming
    [] op = "step" -> {<<"refresh", "advance", "notify", "copy">>,
                       <<"advance", "notify", "copy">>, <<"notify", "copy">>,
                       <<"copy">>} \cup Claiming
    [] op = "play_all" -> {<<"refresh", "play", "notify", "copy">>,
                           <<"play", "notify", "copy">>, <<"notify", "copy">>,
                           <<"copy">>} \cup Claiming
    [] op = "bot_step" -> {<<"override", "notify", "copy">>, <<"notify", "copy">>,
                           <<"copy">>} \cup Claiming
    [] op = "takeover" -> {<<"takeover", "refresh", "notify", "copy">>,
                           <<"refresh", "notify", "copy">>, <<"notify", "copy">>,
                           <<"copy">>}
    [] op = "delete" -> {<<"remove", "forget">>, <<"forget">>}
    [] op = "flag" -> {<<"look", "mark", "read">>, <<"mark", "read">>, <<"read">>,
                       <<"open", "write">>, <<"write">>}

AtOneOf(x, sections) == ~IsIdle(x) /\ Head(req[x].at) \in sections

Ops == {"get", "hold", "place", "step", "play_all", "bot_step", "takeover", "delete",
        "flag"}

Requests == [op : Ops \cup {"none"}, by : Clients \cup {NoOne},
             seat : Int, at : {<<>>} \cup UNION {Stages(op) : op \in Ops}, team : Int]

RequestOK(x) ==
  /\ req[x] \in Requests
  /\ IsIdle(x) => req[x] = Idle
  /\ ~IsIdle(x) => req[x].by \in Clients /\ req[x].at \in Stages(req[x].op)
  /\ x \in Clients /\ ~IsIdle(x) =>
       /\ req[x].by = x
       /\ view[x] # "out"
       /\ req[x].op \in {"hold", "place"} => view[x] = "mine"
       /\ req[x].op = "play_all" => Shares(x)
       /\ req[x].op \in {"step", "bot_step", "delete"} => ~Shares(x)
  /\ x = Loose /\ ~IsIdle(x) => req[x].op = "place" /\ "gave up" \in faults
  /\ req[x].op = "flag" => "flagged" \in faults

RequestsOK == req \in [Slots -> Requests] /\ \A x \in Slots : RequestOK(x)

-----------------------------------------------------------------------------
(* Who plays: two pages by the matchmaker, or one.                          *)

Solo == DOMAIN resolved = {} /\ \A c \in Clients : ~At(c, "playing")

PagesTyped ==
  /\ page \in [Clients -> [at : {"splash", "asks", "queued", "playing"},
                           ticket : Nat, seat : Int]]
  /\ view \in [Clients -> Views]
  /\ nextTicket \in Nat \ {0}
  /\ queue \subseteq 1 .. (nextTicket - 1)
  /\ DOMAIN resolved \subseteq 1 .. (nextTicket - 1)
  /\ resolved = [t \in DOMAIN resolved |-> resolved[t]]

SeatsOK ==
  /\ \A c \in Clients : IF At(c, "playing") THEN Seat(c) \in Seats ELSE Seat(c) = NoSeat
  /\ \A t \in DOMAIN resolved : resolved[t] \in Seats
  /\ \A c, d \in Clients :
       c # d /\ At(c, "playing") /\ At(d, "playing") => Seat(c) # Seat(d)

TicketsOK ==
  /\ \A t, u \in DOMAIN resolved : t = u
  /\ \A t \in DOMAIN resolved : \A c, d \in Clients :
       At(c, "queued") /\ page[c].ticket = t /\ At(d, "playing") => Seat(d) # resolved[t]
  /\ DOMAIN resolved # {} \/ rec.started = 0 =>
       /\ \A c \in Clients : At(c, "queued") => page[c].ticket < nextTicket
       /\ \A c, d \in Clients :
            c # d /\ At(c, "queued") /\ At(d, "queued") => page[c].ticket # page[d].ticket

NotBegun ==
  rec.started = 0 =>
    /\ ~live /\ rec = NoRecord /\ missed = {} /\ Solo
    /\ \A c \in Clients : view[c] = "out"
    /\ \A x \in Slots : IsIdle(x)

PlayersOK ==
  /\ Solo \/ \A c \in Clients : view[c] # "out" => At(c, "playing")
  /\ Solo => \A c, d \in Clients : view[c] # "out" /\ view[d] # "out" => c = d

MatchOK == PagesTyped /\ SeatsOK /\ TicketsOK /\ NotBegun /\ PlayersOK

\* The two seats of a shared game are played by their pages or were taken over.
TeamIs(a, b) ==
  /\ g.human \cup g.takenOver = {a, b} /\ g.human \cap g.takenOver = {}
  /\ \A c \in Clients : At(c, "playing") => Seat(c) \in {a, b}
  /\ \A t \in DOMAIN resolved : resolved[t] \in {a, b}

TeamOK == live /\ ~Solo => \E a, b \in Seats : TeamIs(a, b)

-----------------------------------------------------------------------------
(* The session. *)

Games ==
  [ human : SUBSET Seats, left : [Seats -> Int], cur : Seats,
    rolls : Int, over : BOOLEAN, waiting : BOOLEAN,
    turn : [player : Seats, of : Int, holds : Int],
    history : Seq(Entries(Clients \cup {NoOne})),
    preview : [seat : Seats \cup {NoSeat}, of : Int], rolling : BOOLEAN,
    shared : BOOLEAN, seen : [Seats -> {"never", "fresh", "stale"}],
    takenOver : SUBSET Seats, disconnected : SUBSET Seats ]

Late == "gave up" \in faults

MoverIsHuman(h) == h.waiting => h.cur \in h.human /\ ~h.over

TurnIsNow(h, late) ==
  h.waiting /\ h.turn.of # NoTurn =>
    /\ h.turn.player = h.cur /\ h.turn.of = Thrown(h)
    /\ h.turn.holds = Rerolls - h.rolls \/ (late /\ CutShort(h))

\* Between two human turns the record of the last one is gone, unless bot_step
\* cut it short and a bot is on move.
RecordIsClear(h, late) ==
  ~h.waiting /\ ~h.over =>
    /\ h.cur \in h.human => h.rolls = Rerolls
    /\ h.turn # EmptyTurn => CutShort(h) /\ (late \/ h.cur \notin h.human)

PreviewIsNow(h) ==
  \/ CutShort(h)
  \/ h.preview.seat \notin h.human
  \/ h.preview.seat = h.cur /\ h.preview.of = Thrown(h)

TurnOK(h, late) ==
  MoverIsHuman(h) /\ TurnIsNow(h, late) /\ RecordIsClear(h, late) /\ PreviewIsNow(h)

\* A turn's record that the next turn would inherit: then no page is between
\* its placement and the reply.
Stale(h) == ~h.waiting /\ ~h.over /\ h.turn # EmptyTurn

NoReplyToStale == Stale(g) => Late \/ \A c \in Clients : ~At_(c, "reply")

GameOK ==
  /\ g \in Games /\ TurnOK(g, Late)
  /\ CutShort(g) => Solo
  /\ NoReplyToStale

-----------------------------------------------------------------------------
(* Whose sheet: a page that may still write has the move. *)

Unwritten(c) == req[c].op = "place" => AtOneOf(c, {"refresh", "place"})

HasTheMove(c) ==
  \/ Late \/ Seat(c) \in g.takenOver \/ g.over
  \/ g.waiting /\ g.cur = Seat(c)
  \/ g.human \subseteq {Seat(c)}

MadeByPlayers ==
  ~Solo =>
    /\ \A i \in DOMAIN g.history :
         g.history[i].by \in Clients => At(g.history[i].by, "playing")
    /\ ~IsIdle(Loose) => At(req[Loose].by, "playing")

SheetsOK ==
  /\ SheetsStayApart /\ MadeByPlayers
  /\ live => \A c \in Clients :
       Shares(c) /\ view[c] = "mine" /\ Unwritten(c) => HasTheMove(c)

-----------------------------------------------------------------------------
(* The watchers. *)

Waking(x) ==
  \/ AtOneOf(x, {"reply", "play", "notify"})
  \/ At_(x, "refresh") /\ req[x].op = "takeover"

NoticesOK ==
  /\ missed \subseteq Watchers
  /\ live => missed \subseteq behind \/ \E x \in Slots : Waking(x)

-----------------------------------------------------------------------------
(* The recorder. *)

Writing(x) == req[x].op # "flag" /\ AtOneOf(x, {"open", "write", "line"})

Flagging(x) == req[x].op = "flag" /\ AtOneOf(x, {"open", "write"})

Whole(file) ==
  \/ file \in {"game", "flagged"}
  \/ file = "torn" /\ "flagged" \in faults

RecTyped ==
  rec \in [active : BOOLEAN, known : BOOLEAN, started : {0, 1}, finished : Seq(Int),
           marked : Nat, file : FileTexts]

Unrecorded ==
  rec.active => /\ rec.started = 1 /\ rec.finished = <<>> /\ rec.file = "none"
                /\ \A x \in Slots : ~Writing(x)

OneWriter ==
  \A x \in Slots : Writing(x) =>
    /\ rec.started = 1 /\ rec.finished = <<>> /\ ~rec.active
    /\ \A y \in Slots : Writing(y) => y = x
    /\ At_(x, "open") => rec.file = "none"
    /\ At_(x, "write") => rec.file = "torn"
    /\ At_(x, "line") => Whole(rec.file)

FlagsLater ==
  \A x \in Slots : Flagging(x) =>
    /\ rec.file # "none"
    /\ \A y \in Slots : Writing(y) => At_(y, "line")

OneLine ==
  rec.finished # <<>> =>
    Len(rec.finished) = 1 /\ rec.started = 1 /\ Whole(rec.file)

TeamOfGame ==
  live => /\ \A x \in Slots : Writing(x) \/ At_(x, "claim") =>
               g.over /\ req[x].team = HumanTeam(g)
          /\ \A i \in DOMAIN rec.finished : g.over /\ rec.finished[i] = HumanTeam(g)

RecorderOK ==
  RecTyped /\ Unrecorded /\ OneWriter /\ FlagsLater /\ OneLine /\ TeamOfGame

-----------------------------------------------------------------------------
IInv ==
  RequestsOK /\ MatchOK /\ TeamOK /\ GameOK /\ SheetsOK /\ NoticesOK /\ RecorderOK

-----------------------------------------------------------------------------
(* Least elements.                                                         *)

NatLess == {x \in Nat \X Nat : x[1] < x[2]}

LEMMA NatLessWF == IsWellFoundedOn(NatLess, Nat)
  BY NatLessThanWellFounded DEF OpToRel, NatLess

LEMMA LeastNatural ==
  ASSUME NEW T, T \subseteq Nat, T # {}
  PROVE  \E t \in T : \A u \in T : t <= u
<1>1. PICK t \in T : \A u \in T : ~(<<u, t>> \in NatLess)
  BY NatLessWF, WFMin
<1>2. \A u \in T : t <= u
  <2> SUFFICES ASSUME NEW u \in T PROVE t <= u
    OBVIOUS
  <2>1. u \in Nat /\ t \in Nat /\ ~(<<u, t>> \in NatLess)
    BY <1>1
  <2>2. ~(u < t)
    BY <2>1 DEF NatLess
  <2> QED BY <2>1, <2>2
<1> QED BY <1>2

-----------------------------------------------------------------------------
(* Sections: what is first and what is left.                                *)

LEMMA Constants ==
  /\ NumPlayers \in Nat \ {0} /\ Turns \in Nat \ {0} /\ Rerolls \in Nat
  /\ MaxTickets \in Nat
  /\ Loose \notin Clients /\ NoOne \notin Clients
  /\ \A team \in HumanTeams : team[1] \in Seats /\ team[2] \in Seats /\ team[1] # team[2]
  /\ Seats \subseteq Nat /\ NoSeat \notin Seats /\ 0 \in Seats
BY SessionAssumption, MatchAssumption, ServerAssumption DEF Seats, NoSeat, Teams

LEMMA StagesAre ==
  /\ Stages("get") =
          {<<"refresh", "copy">>, <<"copy">>}
  /\ Stages("hold") =
          {<<"refresh", "hold", "notify", "copy">>, <<"hold", "notify", "copy">>,
           <<"notify", "copy">>, <<"copy">>}
  /\ Stages("place") =
          {<<"refresh", "place", "reply", "notify", "copy">>,
           <<"place", "reply", "notify", "copy">>, <<"reply", "notify", "copy">>,
           <<"notify", "copy">>, <<"copy">>} \cup Claiming
  /\ Stages("step") =
          {<<"refresh", "advance", "notify", "copy">>,
           <<"advance", "notify", "copy">>, <<"notify", "copy">>, <<"copy">>}
          \cup Claiming
  /\ Stages("play_all") =
          {<<"refresh", "play", "notify", "copy">>, <<"play", "notify", "copy">>,
           <<"notify", "copy">>, <<"copy">>} \cup Claiming
  /\ Stages("bot_step") =
          {<<"override", "notify", "copy">>, <<"notify", "copy">>, <<"copy">>}
          \cup Claiming
  /\ Stages("takeover") =
          {<<"takeover", "refresh", "notify", "copy">>,
           <<"refresh", "notify", "copy">>, <<"notify", "copy">>, <<"copy">>}
  /\ Stages("delete") =
          {<<"remove", "forget">>, <<"forget">>}
  /\ Stages("flag") =
          {<<"look", "mark", "read">>, <<"mark", "read">>, <<"read">>,
           <<"open", "write">>, <<"write">>}
BY DEF Stages

LEMMA SectionsAreStages ==
  ASSUME NEW op \in Ops
  PROVE  Sections(op) \in Stages(op)
BY StagesAre DEF Ops, Sections

\* What is first and what is left.
LEMMA Table ==
  /\ Head(<<"claim">>) = "claim" /\ Tail(<<"claim">>) = <<>>
  /\ Head(<<"copy">>) = "copy" /\ Tail(<<"copy">>) = <<>>
  /\ Head(<<"forget">>) = "forget" /\ Tail(<<"forget">>) = <<>>
  /\ Head(<<"line">>) = "line" /\ Tail(<<"line">>) = <<>>
  /\ Head(<<"read">>) = "read" /\ Tail(<<"read">>) = <<>>
  /\ Head(<<"write">>) = "write" /\ Tail(<<"write">>) = <<>>
  /\ Head(<<"mark", "read">>) = "mark" /\ Tail(<<"mark", "read">>) = <<"read">>
  /\ Head(<<"notify", "copy">>) = "notify" /\ Tail(<<"notify", "copy">>) = <<"copy">>
  /\ Head(<<"open", "write">>) = "open" /\ Tail(<<"open", "write">>) = <<"write">>
  /\ Head(<<"refresh", "copy">>) = "refresh" /\ Tail(<<"refresh", "copy">>) = <<"copy">>
  /\ Head(<<"remove", "forget">>) = "remove"
  /\ Tail(<<"remove", "forget">>) = <<"forget">>
  /\ Head(<<"write", "line">>) = "write" /\ Tail(<<"write", "line">>) = <<"line">>
  /\ Head(<<"advance", "notify", "copy">>) = "advance"
  /\ Tail(<<"advance", "notify", "copy">>) = <<"notify", "copy">>
  /\ Head(<<"hold", "notify", "copy">>) = "hold"
  /\ Tail(<<"hold", "notify", "copy">>) = <<"notify", "copy">>
  /\ Head(<<"look", "mark", "read">>) = "look"
  /\ Tail(<<"look", "mark", "read">>) = <<"mark", "read">>
  /\ Head(<<"open", "write", "line">>) = "open"
  /\ Tail(<<"open", "write", "line">>) = <<"write", "line">>
  /\ Head(<<"override", "notify", "copy">>) = "override"
  /\ Tail(<<"override", "notify", "copy">>) = <<"notify", "copy">>
  /\ Head(<<"play", "notify", "copy">>) = "play"
  /\ Tail(<<"play", "notify", "copy">>) = <<"notify", "copy">>
  /\ Head(<<"refresh", "notify", "copy">>) = "refresh"
  /\ Tail(<<"refresh", "notify", "copy">>) = <<"notify", "copy">>
  /\ Head(<<"reply", "notify", "copy">>) = "reply"
  /\ Tail(<<"reply", "notify", "copy">>) = <<"notify", "copy">>
  /\ Head(<<"place", "reply", "notify", "copy">>) = "place"
  /\ Tail(<<"place", "reply", "notify", "copy">>) = <<"reply", "notify", "copy">>
  /\ Head(<<"refresh", "advance", "notify", "copy">>) = "refresh"
  /\ Tail(<<"refresh", "advance", "notify", "copy">>) = <<"advance", "notify", "copy">>
  /\ Head(<<"refresh", "hold", "notify", "copy">>) = "refresh"
  /\ Tail(<<"refresh", "hold", "notify", "copy">>) = <<"hold", "notify", "copy">>
  /\ Head(<<"refresh", "play", "notify", "copy">>) = "refresh"
  /\ Tail(<<"refresh", "play", "notify", "copy">>) = <<"play", "notify", "copy">>
  /\ Head(<<"takeover", "refresh", "notify", "copy">>) = "takeover"
  /\ Tail(<<"takeover", "refresh", "notify", "copy">>) = <<"refresh", "notify", "copy">>
  /\ Head(<<"refresh", "place", "reply", "notify", "copy">>) = "refresh"
  /\ Tail(<<"refresh", "place", "reply", "notify", "copy">>) = <<"place", "reply", "notify", "copy">>
OBVIOUS

LEMMA SectionsStart ==
  ASSUME NEW op \in Ops
  PROVE  /\ op \notin {"bot_step", "takeover", "delete", "flag"} =>
              Head(Sections(op)) = "refresh"
         /\ op = "bot_step" => Head(Sections(op)) = "override"
         /\ op = "takeover" => Head(Sections(op)) = "takeover"
         /\ op = "delete" => Head(Sections(op)) = "remove"
         /\ op = "flag" => Head(Sections(op)) = "look"
BY Table DEF Ops, Sections

\* From one section a request goes to the next, or it was the last one.
Follows(op, s, t) ==
  \/ op = "get" /\ s = "refresh" /\ t = "copy"
  \/ op = "hold" /\ s = "refresh" /\ t = "hold"
  \/ op = "hold" /\ s = "hold" /\ t = "notify"
  \/ op = "place" /\ s = "refresh" /\ t = "place"
  \/ op = "place" /\ s = "place" /\ t = "reply"
  \/ op = "place" /\ s = "reply" /\ t = "notify"
  \/ op = "step" /\ s = "refresh" /\ t = "advance"
  \/ op = "step" /\ s = "advance" /\ t = "notify"
  \/ op = "play_all" /\ s = "refresh" /\ t = "play"
  \/ op = "play_all" /\ s = "play" /\ t = "notify"
  \/ op = "bot_step" /\ s = "override" /\ t = "notify"
  \/ op = "takeover" /\ s = "takeover" /\ t = "refresh"
  \/ op = "takeover" /\ s = "refresh" /\ t = "notify"
  \/ op \in Recording \cup {"hold", "takeover"} /\ s = "notify" /\ t = "copy"
  \/ op \in Recording /\ s = "open" /\ t = "write"
  \/ op \in Recording /\ s = "write" /\ t = "line"
  \/ op = "delete" /\ s = "remove" /\ t = "forget"
  \/ op = "flag" /\ s = "look" /\ t = "mark"
  \/ op = "flag" /\ s = "mark" /\ t = "read"
  \/ op = "flag" /\ s = "open" /\ t = "write"

IsLast(op, s) ==
  \/ op \notin {"delete", "flag"} /\ s = "copy"
  \/ op \in Recording /\ s \in {"claim", "line"}
  \/ op = "delete" /\ s = "forget"
  \/ op = "flag" /\ s \in {"read", "write"}

LEMMA ClaimSections ==
  ASSUME NEW at \in Claiming, NEW op \in Recording
  PROVE  \/ IsLast(op, Head(at)) /\ Tail(at) = <<>>
         \/ Follows(op, Head(at), Head(Tail(at))) /\ Tail(at) \in Claiming
<1>1. CASE at = <<"claim">>
  BY <1>1, Table DEF IsLast
<1>2. CASE at = <<"line">>
  BY <1>2, Table DEF IsLast
<1>3. CASE at = <<"open", "write", "line">>
  BY <1>3, Table DEF Follows, Claiming
<1>4. CASE at = <<"write", "line">>
  BY <1>4, Table DEF Follows, Claiming
<1> QED BY <1>1, <1>2, <1>3, <1>4 DEF Claiming

LEMMA NextSection ==
  ASSUME NEW op \in Ops, NEW at \in Stages(op)
  PROVE  \/ IsLast(op, Head(at)) /\ Tail(at) = <<>>
         \/ Follows(op, Head(at), Head(Tail(at))) /\ Tail(at) \in Stages(op)
<1>1. CASE op = "get"
  BY <1>1, StagesAre, Table, ZenonT(40) DEF Follows, IsLast, Recording
<1>2. CASE op = "hold"
  BY <1>2, StagesAre, Table, ZenonT(40) DEF Follows, IsLast, Recording
<1>3. CASE op = "place"
  <2>1. CASE at = <<"refresh", "place", "reply", "notify", "copy">>
    BY <1>3, <2>1, StagesAre, Table DEF Follows
  <2>2. CASE at = <<"place", "reply", "notify", "copy">>
    BY <1>3, <2>2, StagesAre, Table DEF Follows
  <2>3. CASE at = <<"reply", "notify", "copy">>
    BY <1>3, <2>3, StagesAre, Table DEF Follows
  <2>4. CASE at = <<"notify", "copy">>
    BY <1>3, <2>4, StagesAre, Table DEF Follows, Recording
  <2>5. CASE at = <<"copy">>
    BY <1>3, <2>5, StagesAre, Table DEF IsLast
  <2>6. CASE at \in Claiming
    BY <1>3, <2>6, StagesAre, ClaimSections DEF Recording
  <2> QED BY <2>1, <2>2, <2>3, <2>4, <2>5, <2>6, <1>3, StagesAre
<1>4. CASE op = "step"
  <2>1. CASE at = <<"refresh", "advance", "notify", "copy">>
    BY <1>4, <2>1, StagesAre, Table DEF Follows
  <2>2. CASE at = <<"advance", "notify", "copy">>
    BY <1>4, <2>2, StagesAre, Table DEF Follows
  <2>3. CASE at = <<"notify", "copy">>
    BY <1>4, <2>3, StagesAre, Table DEF Follows, Recording
  <2>4. CASE at = <<"copy">>
    BY <1>4, <2>4, StagesAre, Table DEF IsLast
  <2>5. CASE at \in Claiming
    BY <1>4, <2>5, StagesAre, ClaimSections DEF Recording
  <2> QED BY <2>1, <2>2, <2>3, <2>4, <2>5, <1>4, StagesAre
<1>5. CASE op = "play_all"
  <2>1. CASE at = <<"refresh", "play", "notify", "copy">>
    BY <1>5, <2>1, StagesAre, Table DEF Follows
  <2>2. CASE at = <<"play", "notify", "copy">>
    BY <1>5, <2>2, StagesAre, Table DEF Follows
  <2>3. CASE at = <<"notify", "copy">>
    BY <1>5, <2>3, StagesAre, Table DEF Follows, Recording
  <2>4. CASE at = <<"copy">>
    BY <1>5, <2>4, StagesAre, Table DEF IsLast
  <2>5. CASE at \in Claiming
    BY <1>5, <2>5, StagesAre, ClaimSections DEF Recording
  <2> QED BY <2>1, <2>2, <2>3, <2>4, <2>5, <1>5, StagesAre
<1>6. CASE op = "bot_step"
  <2>1. CASE at = <<"override", "notify", "copy">>
    BY <1>6, <2>1, StagesAre, Table DEF Follows
  <2>2. CASE at = <<"notify", "copy">>
    BY <1>6, <2>2, StagesAre, Table DEF Follows, Recording
  <2>3. CASE at = <<"copy">>
    BY <1>6, <2>3, StagesAre, Table DEF IsLast
  <2>4. CASE at \in Claiming
    BY <1>6, <2>4, StagesAre, ClaimSections DEF Recording
  <2> QED BY <2>1, <2>2, <2>3, <2>4, <1>6, StagesAre
<1>7. CASE op = "takeover"
  <2>1. CASE at = <<"takeover", "refresh", "notify", "copy">>
    BY <1>7, <2>1, StagesAre, Table DEF Follows
  <2>2. CASE at = <<"refresh", "notify", "copy">>
    BY <1>7, <2>2, StagesAre, Table DEF Follows
  <2>3. CASE at = <<"notify", "copy">>
    BY <1>7, <2>3, StagesAre, Table DEF Follows, Recording
  <2>4. CASE at = <<"copy">>
    BY <1>7, <2>4, StagesAre, Table DEF IsLast
  <2> QED BY <2>1, <2>2, <2>3, <2>4, <1>7, StagesAre
<1>8. CASE op = "delete"
  BY <1>8, StagesAre, Table, ZenonT(40) DEF Follows, IsLast, Recording
<1>9. CASE op = "flag"
  <2>1. CASE at = <<"look", "mark", "read">>
    BY <1>9, <2>1, StagesAre, Table DEF Follows
  <2>2. CASE at = <<"mark", "read">>
    BY <1>9, <2>2, StagesAre, Table DEF Follows
  <2>3. CASE at = <<"read">>
    BY <1>9, <2>3, StagesAre, Table DEF IsLast
  <2>4. CASE at = <<"open", "write">>
    BY <1>9, <2>4, StagesAre, Table DEF Follows
  <2>5. CASE at = <<"write">>
    BY <1>9, <2>5, StagesAre, Table DEF IsLast
  <2> QED BY <2>1, <2>2, <2>3, <2>4, <2>5, <1>9, StagesAre
<1> QED BY <1>1, <1>2, <1>3, <1>4, <1>5, <1>6, <1>7, <1>8, <1>9 DEF Ops

-----------------------------------------------------------------------------
(* What a handler's step does to the requests and the pages.                *)

LEMMA Asking ==
  ASSUME RequestsOK, NEW x \in Slots
  PROVE  /\ req[x] \in Requests /\ req[x].op \in Ops \cup {"none"}
         /\ IsIdle(x) => req[x] = Idle
         /\ ~IsIdle(x) => /\ req[x].op \in Ops /\ req[x].at \in Stages(req[x].op)
                          /\ req[x].by \in Clients
BY DEF RequestsOK, RequestOK, Requests, IsIdle

LEMMA IdleIsRequest == Idle \in Requests /\ Idle.op = "none"
<1>1. NoSeat \in Int /\ -1 \in Int
  BY DEF NoSeat
<1> QED BY <1>1 DEF Idle, Requests

\* The request goes on to its next section.
LEMMA GoesOn ==
  ASSUME RequestsOK, NEW x \in Slots, ~IsIdle(x), Next_(x),
         ~(IsLast(req[x].op, Head(req[x].at)) /\ Tail(req[x].at) = <<>>)
  PROVE  /\ req' \in [Slots -> Requests]
         /\ \A y \in Slots : y # x => req'[y] = req[y]
         /\ req'[x].op = req[x].op /\ req'[x].by = req[x].by
         /\ req'[x].team = req[x].team
         /\ req'[x].at \in Stages(req[x].op)
         /\ Follows(req[x].op, Head(req[x].at), Head(req'[x].at))
<1>1. req \in [Slots -> Requests] /\ req' = [req EXCEPT ![x].at = Tail(@)]
  BY DEF RequestsOK, Next_, Then
<1>2. /\ req[x].op \in Ops /\ Tail(req[x].at) \in Stages(req[x].op)
      /\ Follows(req[x].op, Head(req[x].at), Head(Tail(req[x].at)))
  BY Asking, NextSection
<1>3. Tail(req[x].at) \in {<<>>} \cup UNION {Stages(op) : op \in Ops}
  BY <1>2
<1>4. req' = [req EXCEPT ![x] = [req[x] EXCEPT !.at = Tail(req[x].at)]]
  BY <1>1
<1>5. req'[x] = [req[x] EXCEPT !.at = Tail(req[x].at)] /\ req[x] \in Requests
  BY <1>1, <1>4
<1>6. req'[x] \in Requests
  BY <1>3, <1>5 DEF Requests
<1>7. /\ req'[x].op = req[x].op /\ req'[x].by = req[x].by
      /\ req'[x].team = req[x].team /\ req'[x].at = Tail(req[x].at)
  BY <1>5 DEF Requests
<1> QED BY <1>1, <1>2, <1>4, <1>6, <1>7

LEMMA Closes ==
  ASSUME RequestsOK, MatchOK, NEW x \in Slots, NEW to \in Views, Close(x, to)
  PROVE  /\ req' \in [Slots -> Requests] /\ req'[x] = Idle
         /\ \A y \in Slots : y # x => req'[y] = req[y]
         /\ view' \in [Clients -> Views]
         /\ \A c \in Clients : c # x => view'[c] = view[c]
         /\ x \in Clients => view'[x] = to
<1>1. req' = [req EXCEPT ![x] = Idle] /\ req \in [Slots -> Requests]
  BY DEF Close, RequestsOK
<1>2. view \in [Clients -> Views]
  BY DEF MatchOK, PagesTyped
<1>3. IF x \in Clients THEN view' = [view EXCEPT ![x] = to] ELSE view' = view
  BY DEF Close, SetViews, KeepViews
<1> QED BY <1>1, <1>2, <1>3, IdleIsRequest

\* Streams open and close with the views.
LEMMA ViewsSet ==
  ASSUME NEW v, SetViews(v), missed \subseteq Watchers, UNCHANGED page
  PROVE  /\ view' = v /\ missed' \subseteq Watchers'
         /\ missed \subseteq behind => missed' \subseteq behind'
<1> DEFINE after == {c \in Clients : v[c] \in {"watch", "pending"} /\ Shares(c)}
<1>1. /\ view' = v /\ behind' = (behind \cap after) \cup (after \ Watchers)
      /\ missed' = missed \cap after
  BY DEF SetViews
<1>2. Watchers' = after
  BY <1>1 DEF Watchers, Shares, Seat
<1> QED BY <1>1, <1>2

LEMMA SeenIsView ==
  ASSUME NEW h, NEW s
  PROVE  /\ Seen(h, s) \in Views \ {"out", "gone"}
         /\ Seen(h, s) = "mine" => ~h.over /\ h.waiting /\ s \in {h.cur, NoSeat}
BY DEF Seen, Views

LEMMA AnswersAreViews ==
  ASSUME NEW c \in Clients, NEW op \in Ops, MatchOK, view[c] # "out",
         NEW saw \in Views \ {"out"}
  PROVE  /\ AfterAnswer(c, op, saw) \in Views /\ AfterError(c, op) \in Views
         /\ op # "delete" => AfterAnswer(c, op, saw) # "out" /\ AfterError(c, op) # "out"
         /\ AfterError(c, op) = "mine" => view[c] = "mine"
         /\ AfterAnswer(c, op, saw) = "mine" =>
              \/ saw = "mine" /\ (op = "place" => ~Shares(c))
              \/ view[c] = "mine" /\ op \in {"flag", "takeover"}
<1>1. view[c] \in Views
  BY DEF MatchOK, PagesTyped
<1> QED BY <1>1 DEF AfterAnswer, AfterError, Views, Ops

\* A handler's step leaves the matchmaker, the other requests and their pages.
Framed(x) ==
  /\ UNCHANGED matchVars
  /\ req' \in [Slots -> Requests] /\ view' \in [Clients -> Views]
  /\ \A y \in Slots : y # x => req'[y] = req[y]
  /\ \A c \in Clients : c # x => view'[c] = view[c]
  /\ live' \in {live, FALSE} /\ rec'.started = rec.started

\* The request has its answer, or it goes on while its page waits.
Ends(x) == req'[x] = Idle
Continues(x) ==
  /\ view' = view
  /\ req'[x].op = req[x].op /\ req'[x].by = req[x].by
  /\ req'[x].at \in Stages(req[x].op)

Steps(x) ==
  /\ Continues(x) /\ req'[x].team = req[x].team
  /\ Follows(req[x].op, Head(req[x].at), Head(req'[x].at))

LEMMA Answered ==
  ASSUME RequestsOK, MatchOK, NEW x \in Slots, ~IsIdle(x), NEW saw, Answer(x, saw),
         saw \in Views \ {"out"} \/ req[x].op = "delete"
  PROVE  /\ req' \in [Slots -> Requests] /\ view' \in [Clients -> Views]
         /\ \A y \in Slots : y # x => req'[y] = req[y]
         /\ \A c \in Clients : c # x => view'[c] = view[c]
         /\ Ends(x)
         /\ x \in Clients => view'[x] = AfterAnswer(x, req[x].op, saw)
<1>1. CASE x \in Clients
  <2>1. Close(x, AfterAnswer(x, req[x].op, saw))
    BY <1>1 DEF Answer
  <2>2. req[x].op \in Ops /\ view[x] # "out"
    BY <1>1, Asking DEF RequestsOK, RequestOK
  <2>3. AfterAnswer(x, req[x].op, saw) \in Views
    BY <1>1, <2>2, AnswersAreViews DEF AfterAnswer, Views
  <2> QED BY <1>1, <2>1, <2>3, Closes DEF Ends
<1>2. CASE x \notin Clients
  <2>1. Close(x, "out") /\ "out" \in Views
    BY <1>2 DEF Answer, Views
  <2> QED BY <1>2, <2>1, Closes DEF Ends
<1> QED BY <1>1, <1>2

LEMMA Refused ==
  ASSUME RequestsOK, MatchOK, NEW x \in Slots, ~IsIdle(x), Refuse(x)
  PROVE  /\ req' \in [Slots -> Requests] /\ view' \in [Clients -> Views]
         /\ \A y \in Slots : y # x => req'[y] = req[y]
         /\ \A c \in Clients : c # x => view'[c] = view[c]
         /\ Ends(x)
         /\ x \in Clients => view'[x] = AfterError(x, req[x].op)
<1>1. CASE x \in Clients
  <2>1. Close(x, AfterError(x, req[x].op))
    BY <1>1 DEF Refuse
  <2>2. req[x].op \in Ops /\ view[x] # "out" /\ "over" \in Views \ {"out"}
    BY <1>1, Asking DEF RequestsOK, RequestOK, Views
  <2>3. AfterError(x, req[x].op) \in Views
    BY <1>1, <2>2, AnswersAreViews
  <2> QED BY <1>1, <2>1, <2>3, Closes DEF Ends
<1>2. CASE x \notin Clients
  <2>1. Close(x, "out") /\ "out" \in Views
    BY <1>2 DEF Refuse, Views
  <2> QED BY <1>2, <2>1, Closes DEF Ends
<1> QED BY <1>1, <1>2

LEMMA Stepped ==
  ASSUME RequestsOK, MatchOK, NEW x \in Slots, ~IsIdle(x), Next_(x), UNCHANGED view,
         ~(IsLast(req[x].op, Head(req[x].at)) /\ Tail(req[x].at) = <<>>)
  PROVE  /\ req' \in [Slots -> Requests] /\ view' \in [Clients -> Views]
         /\ \A y \in Slots : y # x => req'[y] = req[y]
         /\ \A c \in Clients : c # x => view'[c] = view[c]
         /\ Steps(x)
BY GoesOn DEF Steps, Continues, MatchOK, PagesTyped

-----------------------------------------------------------------------------
(* Section by section: how the request goes on.                             *)

LEMMA RefreshSteps ==
  ASSUME RequestsOK, MatchOK, NEW x \in Slots, Refresh(x)
  PROVE  Framed(x) /\ Steps(x)
<1>1. ~IsIdle(x) /\ req[x].op \in Ops /\ Head(req[x].at) = "refresh"
  BY Asking DEF Refresh, At_
<1>2. ~IsLast(req[x].op, Head(req[x].at))
  BY <1>1 DEF IsLast, Recording, Ops
<1>3. Next_(x) /\ UNCHANGED view /\ UNCHANGED matchVars
      /\ live' \in {live, FALSE} /\ rec'.started = rec.started
  BY DEF Refresh, KeepRest, KeepViews, KeepGame, Change, Record, FileOpened, Flagged
<1> QED BY <1>1, <1>2, <1>3, Stepped DEF Framed

LEMMA AdvanceSteps ==
  ASSUME RequestsOK, MatchOK, NEW x \in Slots, Advance(x)
  PROVE  Framed(x) /\ Steps(x)
<1>1. ~IsIdle(x) /\ req[x].op \in Ops /\ Head(req[x].at) = "advance"
  BY Asking DEF Advance, At_
<1>2. ~IsLast(req[x].op, Head(req[x].at))
  BY <1>1 DEF IsLast, Recording, Ops
<1>3. Next_(x) /\ UNCHANGED view /\ UNCHANGED matchVars
      /\ live' \in {live, FALSE} /\ rec'.started = rec.started
  BY DEF Advance, KeepRest, KeepViews, KeepGame, Change, Record, FileOpened, Flagged
<1> QED BY <1>1, <1>2, <1>3, Stepped DEF Framed

LEMMA OverrideSteps ==
  ASSUME RequestsOK, MatchOK, NEW x \in Slots, Override(x)
  PROVE  Framed(x) /\ Steps(x)
<1>1. ~IsIdle(x) /\ req[x].op \in Ops /\ Head(req[x].at) = "override"
  BY Asking DEF Override, At_
<1>2. ~IsLast(req[x].op, Head(req[x].at))
  BY <1>1 DEF IsLast, Recording, Ops
<1>3. Next_(x) /\ UNCHANGED view /\ UNCHANGED matchVars
      /\ live' \in {live, FALSE} /\ rec'.started = rec.started
  BY DEF Override, KeepRest, KeepViews, KeepGame, Change, Record, FileOpened, Flagged
<1> QED BY <1>1, <1>2, <1>3, Stepped DEF Framed

LEMMA NotifySteps ==
  ASSUME RequestsOK, MatchOK, NEW x \in Slots, Notify(x)
  PROVE  Framed(x) /\ Steps(x)
<1>1. ~IsIdle(x) /\ req[x].op \in Ops /\ Head(req[x].at) = "notify"
  BY Asking DEF Notify, At_
<1>2. ~IsLast(req[x].op, Head(req[x].at))
  BY <1>1 DEF IsLast, Recording, Ops
<1>3. Next_(x) /\ UNCHANGED view /\ UNCHANGED matchVars
      /\ live' \in {live, FALSE} /\ rec'.started = rec.started
  BY DEF Notify, KeepRest, KeepViews, KeepGame, Change, Record, FileOpened, Flagged
<1> QED BY <1>1, <1>2, <1>3, Stepped DEF Framed

LEMMA OpenSteps ==
  ASSUME RequestsOK, MatchOK, NEW x \in Slots, Open_(x)
  PROVE  Framed(x) /\ Steps(x)
<1>1. ~IsIdle(x) /\ req[x].op \in Ops /\ Head(req[x].at) = "open"
  BY Asking DEF Open_, At_
<1>2. ~IsLast(req[x].op, Head(req[x].at))
  BY <1>1 DEF IsLast, Recording, Ops
<1>3. Next_(x) /\ UNCHANGED view /\ UNCHANGED matchVars
      /\ live' \in {live, FALSE} /\ rec'.started = rec.started
  BY DEF Open_, KeepRest, KeepViews, KeepGame, Change, Record, FileOpened, Flagged
<1> QED BY <1>1, <1>2, <1>3, Stepped DEF Framed

LEMMA RemoveSteps ==
  ASSUME RequestsOK, MatchOK, NEW x \in Slots, Remove(x)
  PROVE  Framed(x) /\ Steps(x)
<1>1. ~IsIdle(x) /\ req[x].op \in Ops /\ Head(req[x].at) = "remove"
  BY Asking DEF Remove, At_
<1>2. ~IsLast(req[x].op, Head(req[x].at))
  BY <1>1 DEF IsLast, Recording, Ops
<1>3. Next_(x) /\ UNCHANGED view /\ UNCHANGED matchVars
      /\ live' \in {live, FALSE} /\ rec'.started = rec.started
  BY DEF Remove, KeepRest, KeepViews, KeepGame, Change, Record, FileOpened, Flagged
<1> QED BY <1>1, <1>2, <1>3, Stepped DEF Framed

LEMMA MarkSteps ==
  ASSUME RequestsOK, MatchOK, NEW x \in Slots, Mark(x)
  PROVE  Framed(x) /\ Steps(x)
<1>1. ~IsIdle(x) /\ req[x].op \in Ops /\ Head(req[x].at) = "mark"
  BY Asking DEF Mark, At_
<1>2. ~IsLast(req[x].op, Head(req[x].at))
  BY <1>1 DEF IsLast, Recording, Ops
<1>3. Next_(x) /\ UNCHANGED view /\ UNCHANGED matchVars
      /\ live' \in {live, FALSE} /\ rec'.started = rec.started
  BY DEF Mark, KeepRest, KeepViews, KeepGame, Change, Record, FileOpened, Flagged
<1> QED BY <1>1, <1>2, <1>3, Stepped DEF Framed


LEMMA ClaimsAreStages ==
  ASSUME NEW op \in Recording
  PROVE  op \in Ops /\ Claiming \subseteq Stages(op)
BY StagesAre DEF Recording, Ops

LEMMA TeamIsANumber ==
  ASSUME g \in Games
  PROVE  HumanTeam(g) \in Int
<1>1. g.human \subseteq Nat
  BY Constants DEF Games
<1>2. CASE g.human = {}
  BY <1>2 DEF HumanTeam
<1>3. CASE g.human # {}
  <2> DEFINE first == CHOOSE s \in g.human : \A t \in g.human : s <= t
  <2>1. \E s \in g.human : \A t \in g.human : s <= t
    BY <1>1, <1>3, LeastNatural
  <2>2. first \in Nat
    BY <1>1, <2>1
  <2>3. HumanTeam(g) = first % 2
    BY <1>3 DEF HumanTeam
  <2> HIDE DEF first
  <2> QED BY <2>2, <2>3
<1> QED BY <1>2, <1>3

LEMMA HoldSteps ==
  ASSUME RequestsOK, MatchOK, NEW x \in Slots, Hold(x)
  PROVE  /\ Framed(x) /\ UNCHANGED <<live, rec>>
         /\ \/ live /\ CanHold(g) /\ Change(Held(g), FALSE) /\ Steps(x)
            \/ ~(live /\ CanHold(g)) /\ g' = g /\ Ends(x) /\ Refuse(x)
<1>1. ~IsIdle(x) /\ req[x].op \in Ops /\ Head(req[x].at) = "hold"
  BY Asking DEF Hold, At_
<1>2. ~IsLast(req[x].op, Head(req[x].at))
  BY <1>1 DEF IsLast, Recording
<1>3. UNCHANGED <<live, rec>> /\ UNCHANGED matchVars
  BY DEF Hold, KeepRest
<1>4. CASE live /\ CanHold(g)
  <2>1. Change(Held(g), FALSE) /\ Next_(x) /\ UNCHANGED view
    BY <1>4 DEF Hold, Change
  <2> QED BY <1>1, <1>2, <1>3, <1>4, <2>1, Stepped DEF Framed
<1>5. CASE ~(live /\ CanHold(g))
  <2>1. UNCHANGED g /\ Refuse(x)
    BY <1>5 DEF Hold
  <2> QED BY <1>1, <1>3, <1>5, <2>1, Refused DEF Framed
<1> QED BY <1>4, <1>5

LEMMA PlaceSteps ==
  ASSUME RequestsOK, MatchOK, NEW x \in Slots, Place(x)
  PROVE  /\ Framed(x) /\ UNCHANGED <<live, rec>>
         /\ \/ live /\ CanPlace(g) /\ Change(HumanPlaced(g, req[x].by), FALSE) /\ Steps(x)
            \/ ~(live /\ CanPlace(g)) /\ g' = g /\ Ends(x) /\ Refuse(x)
<1>1. ~IsIdle(x) /\ req[x].op \in Ops /\ Head(req[x].at) = "place"
  BY Asking DEF Place, At_
<1>2. ~IsLast(req[x].op, Head(req[x].at))
  BY <1>1 DEF IsLast, Recording
<1>3. UNCHANGED <<live, rec>> /\ UNCHANGED matchVars
  BY DEF Place, KeepRest
<1>4. CASE live /\ CanPlace(g)
  <2>1. Change(HumanPlaced(g, req[x].by), FALSE) /\ Next_(x) /\ UNCHANGED view
    BY <1>4 DEF Place, Change
  <2> QED BY <1>1, <1>2, <1>3, <1>4, <2>1, Stepped DEF Framed
<1>5. CASE ~(live /\ CanPlace(g))
  <2>1. UNCHANGED g /\ Refuse(x)
    BY <1>5 DEF Place
  <2> QED BY <1>1, <1>3, <1>5, <2>1, Refused DEF Framed
<1> QED BY <1>4, <1>5

LEMMA TakeOverSteps ==
  ASSUME RequestsOK, MatchOK, NEW x \in Slots, TakeOver(x)
  PROVE  /\ Framed(x) /\ UNCHANGED <<live, rec>>
         /\ \/ live /\ CanTakeOver(g, req[x].seat) /\ Change(TakenOver(g, req[x].seat), FALSE) /\ Steps(x)
            \/ ~(live /\ CanTakeOver(g, req[x].seat)) /\ g' = g /\ Ends(x) /\ Refuse(x)
<1>1. ~IsIdle(x) /\ req[x].op \in Ops /\ Head(req[x].at) = "takeover"
  BY Asking DEF TakeOver, At_
<1>2. ~IsLast(req[x].op, Head(req[x].at))
  BY <1>1 DEF IsLast, Recording
<1>3. UNCHANGED <<live, rec>> /\ UNCHANGED matchVars
  BY DEF TakeOver, KeepRest
<1>4. CASE live /\ CanTakeOver(g, req[x].seat)
  <2>1. Change(TakenOver(g, req[x].seat), FALSE) /\ Next_(x) /\ UNCHANGED view
    BY <1>4 DEF TakeOver, Change
  <2> QED BY <1>1, <1>2, <1>3, <1>4, <2>1, Stepped DEF Framed
<1>5. CASE ~(live /\ CanTakeOver(g, req[x].seat))
  <2>1. UNCHANGED g /\ Refuse(x)
    BY <1>5 DEF TakeOver
  <2> QED BY <1>1, <1>3, <1>5, <2>1, Refused DEF Framed
<1> QED BY <1>4, <1>5

LEMMA ReplySteps ==
  ASSUME RequestsOK, MatchOK, NEW x \in Slots, Reply(x)
  PROVE  /\ Framed(x) /\ UNCHANGED <<live, rec>>
         /\ \/ /\ live /\ ~ReplyEnds(g) /\ Change(ReplyPlayed(g, NoOne), FALSE)
               /\ Steps(x) \/ UNCHANGED req
            \/ ~(live /\ ~ReplyEnds(g)) /\ UNCHANGED g /\ KeepViews /\ Steps(x)
<1>1. ~IsIdle(x) /\ req[x].op \in Ops /\ Head(req[x].at) = "reply"
  BY Asking DEF Reply, At_
<1>2. ~IsLast(req[x].op, Head(req[x].at)) /\ req \in [Slots -> Requests]
  BY <1>1 DEF IsLast, Recording, RequestsOK
<1>3. UNCHANGED <<live, rec>> /\ UNCHANGED matchVars /\ view \in [Clients -> Views]
  BY DEF Reply, KeepRest, MatchOK, PagesTyped
<1>4. CASE live /\ ~ReplyEnds(g)
  <2>1. Change(ReplyPlayed(g, NoOne), FALSE) /\ (Next_(x) \/ Stay) /\ UNCHANGED view
    BY <1>4 DEF Reply, Change
  <2>2. CASE Next_(x)
    BY <1>1, <1>2, <1>3, <1>4, <2>1, <2>2, Stepped DEF Framed
  <2>3. CASE Stay
    BY <1>2, <1>3, <1>4, <2>1, <2>3 DEF Framed, Stay
  <2> QED BY <2>1, <2>2, <2>3
<1>5. CASE ~(live /\ ~ReplyEnds(g))
  <2>1. UNCHANGED g /\ KeepViews /\ Next_(x)
    BY <1>5 DEF Reply
  <2>2. UNCHANGED view
    BY <2>1 DEF KeepViews
  <2> QED BY <1>1, <1>2, <1>3, <1>5, <2>1, <2>2, Stepped DEF Framed
<1> QED BY <1>4, <1>5

LEMMA PlayRoundSteps ==
  ASSUME RequestsOK, MatchOK, NEW x \in Slots, PlayRound(x)
  PROVE  /\ Framed(x) /\ UNCHANGED <<live, rec>>
         /\ \/ /\ live /\ ~g.over /\ ~g.waiting /\ Change(RoundPlayed(g, NoOne), FALSE)
               /\ Steps(x) \/ UNCHANGED req
            \/ ~(live /\ ~g.over /\ ~g.waiting) /\ UNCHANGED g /\ KeepViews /\ Steps(x)
<1>1. ~IsIdle(x) /\ req[x].op \in Ops /\ Head(req[x].at) = "play"
  BY Asking DEF PlayRound, At_
<1>2. ~IsLast(req[x].op, Head(req[x].at)) /\ req \in [Slots -> Requests]
  BY <1>1 DEF IsLast, Recording, RequestsOK
<1>3. UNCHANGED <<live, rec>> /\ UNCHANGED matchVars /\ view \in [Clients -> Views]
  BY DEF PlayRound, KeepRest, MatchOK, PagesTyped
<1>4. CASE live /\ ~g.over /\ ~g.waiting
  <2>1. Change(RoundPlayed(g, NoOne), FALSE) /\ (Next_(x) \/ Stay) /\ UNCHANGED view
    BY <1>4 DEF PlayRound, Change
  <2>2. CASE Next_(x)
    BY <1>1, <1>2, <1>3, <1>4, <2>1, <2>2, Stepped DEF Framed
  <2>3. CASE Stay
    BY <1>2, <1>3, <1>4, <2>1, <2>3 DEF Framed, Stay
  <2> QED BY <2>1, <2>2, <2>3
<1>5. CASE ~(live /\ ~g.over /\ ~g.waiting)
  <2>1. UNCHANGED g /\ KeepViews /\ Next_(x)
    BY <1>5 DEF PlayRound
  <2>2. UNCHANGED view
    BY <2>1 DEF KeepViews
  <2> QED BY <1>1, <1>2, <1>3, <1>5, <2>1, <2>2, Stepped DEF Framed
<1> QED BY <1>4, <1>5

LEMMA StagesAreFilled ==
  ASSUME NEW op \in Recording, NEW at \in Stages(op)
  PROVE  at # <<>>
<1>1. \A s \in Claiming : s # <<>>
  BY DEF Claiming
<1>2. CASE op = "place"
  BY <1>1, <1>2, StagesAre
<1>3. CASE op = "step"
  BY <1>1, <1>3, StagesAre
<1>4. CASE op = "play_all"
  BY <1>1, <1>4, StagesAre
<1>5. CASE op = "bot_step"
  BY <1>1, <1>5, StagesAre
<1> QED BY <1>2, <1>3, <1>4, <1>5 DEF Recording

\* A request that turns to the recorder's sections.
LEMMA Turned ==
  ASSUME RequestsOK, MatchOK, NEW x \in Slots, ~IsIdle(x), UNCHANGED view,
         req' = [req EXCEPT ![x] = req'[x]], req'[x] \in Requests,
         req'[x].op = req[x].op, req'[x].by = req[x].by,
         req'[x].at \in Stages(req[x].op)
  PROVE  /\ req' \in [Slots -> Requests] /\ view' \in [Clients -> Views]
         /\ \A y \in Slots : y # x => req'[y] = req[y]
         /\ \A c \in Clients : c # x => view'[c] = view[c]
         /\ Continues(x)
<1>1. req \in [Slots -> Requests] /\ view \in [Clients -> Views]
  BY DEF RequestsOK, MatchOK, PagesTyped
<1> QED BY <1>1 DEF Continues

LEMMA CopySteps ==
  ASSUME RequestsOK, MatchOK, g \in Games, NEW x \in Slots, Copy(x)
  PROVE  /\ Framed(x) /\ UNCHANGED <<live, g, rec>>
         /\ \/ ~live /\ Refuse(x) /\ Ends(x)
            \/ /\ live /\ g.over /\ req[x].op \in Recording /\ KeepViews
               /\ Continues(x) /\ req'[x].at = <<"claim">> /\ req'[x].team = HumanTeam(g)
            \/ live /\ Answer(x, Seen(g, Seat(req[x].by))) /\ Ends(x)
<1>1. ~IsIdle(x) /\ req[x].op \in Ops /\ Head(req[x].at) = "copy"
      /\ req \in [Slots -> Requests] /\ req[x] \in Requests
  BY Asking DEF Copy, At_, RequestsOK
<1>2. UNCHANGED <<live, g, rec>> /\ UNCHANGED matchVars
  BY DEF Copy, KeepGame
<1>3. CASE ~live
  <2>1. Refuse(x)
    BY <1>3 DEF Copy
  <2> QED BY <1>1, <1>2, <1>3, <2>1, Refused DEF Framed
<1>4. CASE live /\ g.over /\ req[x].op \in Recording
  <2>1. /\ req' = [req EXCEPT ![x].at = <<"claim">>, ![x].team = HumanTeam(g)]
        /\ KeepViews /\ UNCHANGED view
    BY <1>4 DEF Copy, KeepViews
  <2>2. req' = [req EXCEPT ![x] = [req[x] EXCEPT !.at = <<"claim">>, !.team = HumanTeam(g)]]
    BY <1>1, <2>1
  <2>3. <<"claim">> \in Stages(req[x].op) /\ HumanTeam(g) \in Int
    BY <1>4, ClaimsAreStages, TeamIsANumber DEF Claiming
  <2>8. req' = [req EXCEPT ![x] = req'[x]]
        /\ req'[x] = [req[x] EXCEPT !.at = <<"claim">>, !.team = HumanTeam(g)]
    BY <1>1, <2>2
  <2>7. <<"claim">> \in {<<>>} \cup UNION {Stages(op) : op \in Ops}
    BY <1>1, <2>3
  <2>9. /\ req'[x] \in Requests /\ req'[x].op = req[x].op /\ req'[x].by = req[x].by
        /\ req'[x].at = <<"claim">> /\ req'[x].team = HumanTeam(g)
    BY <1>1, <2>7, <2>8, <2>3 DEF Requests
  <2>10. Framed(x) /\ Continues(x)
    BY <1>1, <1>2, <2>1, <2>3, <2>8, <2>9, Turned DEF Framed
  <2> QED BY <1>2, <1>4, <2>1, <2>9, <2>10
<1>5. CASE live /\ ~(g.over /\ req[x].op \in Recording)
  <2>1. Answer(x, Seen(g, Seat(req[x].by)))
    BY <1>5 DEF Copy
  <2>2. Seen(g, Seat(req[x].by)) \in Views \ {"out"}
    BY SeenIsView
  <2> QED BY <1>1, <1>2, <1>5, <2>1, <2>2, Answered DEF Framed
<1> QED BY <1>3, <1>4, <1>5

LEMMA ClaimSteps ==
  ASSUME RequestsOK, MatchOK, NEW x \in Slots, Claim(x)
  PROVE  /\ Framed(x) /\ UNCHANGED <<live, g>>
         /\ \/ /\ rec.active /\ rec' = Claimed(rec) /\ KeepViews /\ req[x].op # "flag"
               /\ Continues(x) /\ Head(req'[x].at) = "open" /\ req'[x].team = req[x].team
            \/ rec' = rec /\ Answer(x, "over") /\ Ends(x)
<1>1. ~IsIdle(x) /\ req[x].op \in Ops /\ Head(req[x].at) = "claim"
      /\ req \in [Slots -> Requests] /\ req[x] \in Requests
      /\ req[x].at \in Stages(req[x].op)
  BY Asking DEF Claim, At_, RequestsOK
<1>2. UNCHANGED <<live, g>> /\ UNCHANGED matchVars /\ rec' \in {rec, Claimed(rec)}
  BY DEF Claim, Record, KeepGame
<1>3. rec'.started = rec.started
  <2>1. CASE rec' = Claimed(rec)
    BY <2>1 DEF Claimed
  <2> QED BY <1>2, <2>1
<1>4. CASE MayFinish(rec)
  <2>1. /\ req' = [req EXCEPT ![x].at = <<"open", "write", "line">>]
        /\ KeepViews /\ UNCHANGED view /\ rec' = Claimed(rec)
    BY <1>4 DEF Claim, KeepViews, Record
  <2>2. req' = [req EXCEPT ![x] = [req[x] EXCEPT !.at = <<"open", "write", "line">>,
                                                 !.team = req[x].team]]
    BY <1>1, <2>1 DEF Requests
  <2>3. req[x].op \in Recording
    BY <1>1, NextSection DEF IsLast, Follows
  <2>4. <<"open", "write", "line">> \in Stages(req[x].op) /\ req[x].team \in Int
    BY <1>1, <2>3, ClaimsAreStages DEF Claiming, Requests
  <2>5. Head(<<"open", "write", "line">>) = "open" /\ rec.active
    BY <1>4 DEF MayFinish
  <2>6. req[x].op # "flag"
    BY <2>3 DEF Recording
  <2>8. req' = [req EXCEPT ![x] = req'[x]]
        /\ req'[x] = [req[x] EXCEPT !.at = <<"open", "write", "line">>, !.team = req[x].team]
    BY <1>1, <2>2
  <2>7. <<"open", "write", "line">> \in {<<>>} \cup UNION {Stages(op) : op \in Ops}
    BY <1>1, <2>4
  <2>9. /\ req'[x] \in Requests /\ req'[x].op = req[x].op /\ req'[x].by = req[x].by
        /\ req'[x].at = <<"open", "write", "line">> /\ req'[x].team = req[x].team
    BY <1>1, <2>7, <2>8, <2>4 DEF Requests
  <2> QED BY <1>1, <1>2, <1>3, <2>1, <2>4, <2>5, <2>6, <2>8, <2>9, Turned DEF Framed
<1>5. CASE ~MayFinish(rec)
  <2>1. Answer(x, "over") /\ rec' = rec
    BY <1>5 DEF Claim, Record
  <2>2. "over" \in Views \ {"out"}
    BY DEF Views
  <2> QED BY <1>1, <1>2, <1>3, <2>1, <2>2, Answered DEF Framed
<1> QED BY <1>4, <1>5

LEMMA WriteSteps ==
  ASSUME RequestsOK, MatchOK, NEW x \in Slots, Write(x)
  PROVE  /\ Framed(x) /\ UNCHANGED <<live, g>>
         /\ rec' = FileWritten(rec, IF req[x].op = "flag" THEN "flagged" ELSE "game")
         /\ \/ req[x].op = "flag" /\ Answer(x, "over") /\ Ends(x)
            \/ req[x].op # "flag" /\ Steps(x) /\ KeepViews
<1>1. ~IsIdle(x) /\ req[x].op \in Ops /\ Head(req[x].at) = "write"
      /\ req[x].at \in Stages(req[x].op)
  BY Asking DEF Write, At_
<1>2. /\ UNCHANGED <<live, g>> /\ UNCHANGED matchVars
      /\ rec' = FileWritten(rec, IF req[x].op = "flag" THEN "flagged" ELSE "game")
  BY DEF Write, Record, KeepGame
<1>3. rec'.started = rec.started
  BY <1>2 DEF FileWritten
<1>4. \/ IsLast(req[x].op, "write") /\ Tail(req[x].at) = <<>>
      \/ /\ Follows(req[x].op, "write", Head(Tail(req[x].at)))
         /\ Tail(req[x].at) \in Stages(req[x].op)
  BY <1>1, NextSection
<1>5. CASE req[x].op = "flag"
  <2>1. Tail(req[x].at) = <<>>
    BY <1>4, <1>5 DEF Follows, Recording
  <2>2. Answer(x, "over") /\ "over" \in Views \ {"out"}
    BY <2>1 DEF Write, Views
  <2> QED BY <1>1, <1>2, <1>3, <1>5, <2>2, Answered DEF Framed
<1>6. CASE req[x].op # "flag"
  <2>1. ~IsLast(req[x].op, "write")
    BY <1>6 DEF IsLast
  <2>2. Tail(req[x].at) # <<>>
    BY <1>4, <2>1, <1>6, StagesAreFilled DEF Follows, Recording
  <2>3. Next_(x) /\ KeepViews /\ UNCHANGED view
    BY <2>2 DEF Write, KeepViews
  <2> QED BY <1>1, <1>2, <1>3, <1>6, <2>2, <2>3, Stepped DEF Framed
<1> QED BY <1>5, <1>6

LEMMA LineSteps ==
  ASSUME RequestsOK, MatchOK, NEW x \in Slots, Line(x)
  PROVE  /\ Framed(x) /\ UNCHANGED <<live, g>> /\ Answer(x, "over") /\ Ends(x)
         /\ rec' = LineAppended(rec, req[x].team)
<1>1. ~IsIdle(x)
  BY DEF Line, At_
<1>2. /\ UNCHANGED <<live, g>> /\ UNCHANGED matchVars /\ Answer(x, "over")
      /\ rec' = LineAppended(rec, req[x].team) /\ "over" \in Views \ {"out"}
  BY DEF Line, Record, KeepGame, Views
<1>3. rec'.started = rec.started
  BY <1>2 DEF LineAppended
<1> QED BY <1>1, <1>2, <1>3, Answered DEF Framed

LEMMA ForgetSteps ==
  ASSUME RequestsOK, MatchOK, NEW x \in Slots, Forget(x)
  PROVE  /\ Framed(x) /\ UNCHANGED <<live, g>> /\ Answer(x, "out") /\ Ends(x)
         /\ rec' = Forgotten(rec) /\ req[x].op = "delete"
<1>1. ~IsIdle(x) /\ req[x].op \in Ops /\ Head(req[x].at) = "forget"
      /\ req[x].at \in Stages(req[x].op)
  BY Asking DEF Forget, At_
<1>2. /\ UNCHANGED <<live, g>> /\ UNCHANGED matchVars /\ Answer(x, "out")
      /\ rec' = Forgotten(rec)
  BY DEF Forget, Record, KeepGame
<1>3. rec'.started = rec.started /\ req[x].op = "delete"
  BY <1>1, <1>2, NextSection DEF Forgotten, IsLast, Follows
<1> QED BY <1>1, <1>2, <1>3, Answered DEF Framed

LEMMA LookSteps ==
  ASSUME RequestsOK, MatchOK, NEW x \in Slots, Look(x)
  PROVE  /\ Framed(x) /\ UNCHANGED <<live, g, rec>>
         /\ \/ Steps(x) /\ KeepViews
            \/ Refuse(x) /\ Ends(x)
<1>1. ~IsIdle(x) /\ req[x].op \in Ops /\ Head(req[x].at) = "look"
  BY Asking DEF Look, At_
<1>2. UNCHANGED <<live, g, rec>> /\ UNCHANGED matchVars
  BY DEF Look, Record, KeepGame
<1>3. CASE MayFlag(rec)
  <2>1. Next_(x) /\ KeepViews /\ UNCHANGED view
    BY <1>3 DEF Look, KeepViews
  <2>2. ~IsLast(req[x].op, Head(req[x].at))
    BY <1>1 DEF IsLast
  <2> QED BY <1>1, <1>2, <2>1, <2>2, Stepped DEF Framed
<1>4. CASE ~MayFlag(rec)
  <2>1. Refuse(x)
    BY <1>4 DEF Look
  <2> QED BY <1>1, <1>2, <2>1, Refused DEF Framed
<1> QED BY <1>3, <1>4

LEMMA ReadSteps ==
  ASSUME RequestsOK, MatchOK, NEW x \in Slots, Read(x)
  PROVE  /\ Framed(x) /\ UNCHANGED <<live, g, rec>> /\ req[x].op = "flag"
         /\ \/ /\ IsRecord(rec.file) /\ KeepViews
               /\ Continues(x) /\ Head(req'[x].at) = "open"
            \/ Answer(x, "over") /\ Ends(x)
<1>1. ~IsIdle(x) /\ req[x].op \in Ops /\ Head(req[x].at) = "read"
      /\ req[x].at \in Stages(req[x].op)
      /\ req \in [Slots -> Requests] /\ req[x] \in Requests
  BY Asking DEF Read, At_, RequestsOK
<1>2. UNCHANGED <<live, g, rec>> /\ UNCHANGED matchVars
  BY DEF Read, Record, KeepGame
<1>3. req[x].op = "flag"
  BY <1>1, NextSection DEF IsLast, Follows
<1>4. CASE IsRecord(rec.file)
  <2>1. /\ req' = [req EXCEPT ![x].at = <<"open", "write">>]
        /\ KeepViews /\ UNCHANGED view
    BY <1>4 DEF Read, KeepViews
  <2>2. req' = [req EXCEPT ![x] = [req[x] EXCEPT !.at = <<"open", "write">>,
                                                 !.team = req[x].team]]
    BY <1>1, <2>1 DEF Requests
  <2>3. <<"open", "write">> \in Stages(req[x].op) /\ req[x].team \in Int
    BY <1>1, <1>3, StagesAre DEF Requests
  <2>4. Head(<<"open", "write">>) = "open"
    OBVIOUS
  <2>8. req' = [req EXCEPT ![x] = req'[x]]
        /\ req'[x] = [req[x] EXCEPT !.at = <<"open", "write">>, !.team = req[x].team]
    BY <1>1, <2>2
  <2>7. <<"open", "write">> \in {<<>>} \cup UNION {Stages(op) : op \in Ops}
    BY <1>1, <2>3
  <2>9. /\ req'[x] \in Requests /\ req'[x].op = req[x].op /\ req'[x].by = req[x].by
        /\ req'[x].at = <<"open", "write">> /\ req'[x].team = req[x].team
    BY <1>1, <2>7, <2>8, <2>3 DEF Requests
  <2> QED BY <1>1, <1>2, <1>3, <1>4, <2>1, <2>3, <2>4, <2>8, <2>9, Turned DEF Framed
<1>5. CASE ~IsRecord(rec.file)
  <2>1. Answer(x, "over") /\ "over" \in Views \ {"out"}
    BY <1>5 DEF Read, Views
  <2> QED BY <1>1, <1>2, <1>3, <2>1, Answered DEF Framed
<1> QED BY <1>4, <1>5

LEMMA HandleFrames ==
  ASSUME RequestsOK, MatchOK, g \in Games, NEW x \in Slots, Handle(x)
  PROVE  Framed(x) /\ (Ends(x) \/ Continues(x))
<1>1. CASE Refresh(x)
  BY <1>1, RefreshSteps DEF Steps
<1>2. CASE Hold(x)
  BY <1>2, HoldSteps DEF Steps
<1>3. CASE Place(x)
  BY <1>3, PlaceSteps DEF Steps
<1>4. CASE Reply(x) \/ PlayRound(x)
  <2>1. Framed(x) /\ (Steps(x) \/ UNCHANGED req) /\ UNCHANGED view
    BY <1>4, ReplySteps, PlayRoundSteps DEF Change, KeepViews
  <2>2. req[x].at \in Stages(req[x].op)
    BY Asking DEF Handle
  <2> QED BY <2>1, <2>2 DEF Steps, Continues
<1>5. CASE Advance(x) \/ Override(x) \/ Notify(x) \/ Open_(x) \/ Remove(x) \/ Mark(x)
  BY <1>5, AdvanceSteps, OverrideSteps, NotifySteps, OpenSteps, RemoveSteps, MarkSteps
     DEF Steps
<1>6. CASE TakeOver(x)
  BY <1>6, TakeOverSteps DEF Steps
<1>7. CASE Copy(x)
  BY <1>7, CopySteps
<1>8. CASE Claim(x)
  BY <1>8, ClaimSteps
<1>9. CASE Write(x)
  BY <1>9, WriteSteps DEF Steps
<1>10. CASE Line(x) \/ Forget(x)
  BY <1>10, LineSteps, ForgetSteps
<1>11. CASE Look(x)
  BY <1>11, LookSteps DEF Steps
<1>12. CASE Read(x)
  BY <1>12, ReadSteps
<1> QED BY <1>1, <1>2, <1>3, <1>4, <1>5, <1>6, <1>7, <1>8, <1>9, <1>10, <1>11, <1>12
        DEF Handle

\* A request that is left alone, with the view of its page.
LEMMA StillRequest ==
  ASSUME NEW y \in Slots, RequestOK(y), req'[y] = req[y],
         y \in Clients /\ ~IsIdle(y) => view'[y] = view[y], UNCHANGED page,
         faults \subseteq faults'
  PROVE  RequestOK(y)'
<1>1. IsIdle(y)' <=> IsIdle(y)
  BY DEF IsIdle
<1>2. Shares(y)' <=> Shares(y)
  BY DEF Shares, Seat
<1>3. ASSUME y \in Clients, ~IsIdle(y)
      PROVE  /\ req'[y].by = y
             /\ view'[y] # "out"
             /\ req'[y].op \in {"hold", "place"} => view'[y] = "mine"
             /\ req'[y].op = "play_all" => Shares(y)
             /\ req'[y].op \in {"step", "bot_step", "delete"} => ~Shares(y)
  BY <1>3 DEF RequestOK
<1>4. y = Loose /\ ~IsIdle(y) => req'[y].op = "place" /\ "gave up" \in faults'
  BY DEF RequestOK
<1>5. /\ req'[y] \in Requests
      /\ IsIdle(y) => req'[y] = Idle
      /\ ~IsIdle(y) => req'[y].by \in Clients /\ req'[y].at \in Stages(req'[y].op)
      /\ req'[y].op = "flag" => "flagged" \in faults'
  BY DEF RequestOK
<1> QED BY <1>1, <1>2, <1>3, <1>4, <1>5 DEF RequestOK

LEMMA ClientsAreSlots ==
  /\ Clients \subseteq Slots /\ Loose \in Slots
  /\ \A x \in Slots : x \in Clients \/ x = Loose
BY Constants DEF Slots

LEMMA HandleKeepsRequests ==
  ASSUME RequestsOK, MatchOK, g \in Games, NEW x \in Slots, Handle(x)
  PROVE  RequestsOK'
<1>1. Framed(x) /\ (Ends(x) \/ Continues(x))
  BY HandleFrames
<1>2. UNCHANGED <<page, faults>> /\ ~IsIdle(x)
  BY <1>1 DEF Framed, matchVars, Handle
<1>3. \A y \in Slots : y # x => RequestOK(y)'
  BY <1>1, <1>2, StillRequest DEF Framed, RequestsOK
<1>4. CASE Ends(x)
  <2>1. RequestOK(x)'
    BY <1>4, IdleIsRequest DEF Ends, RequestOK, IsIdle
  <2> QED BY <1>1, <1>3, <2>1 DEF Framed, RequestsOK
<1>5. CASE Continues(x)
  <2>1. RequestOK(x)' 
    BY <1>1, <1>2, <1>5, ZenonT(40) DEF Framed, Continues, RequestsOK, RequestOK, IsIdle, Shares, Seat
  <2> QED BY <1>1, <1>3, <2>1 DEF Framed, RequestsOK
<1> QED BY <1>1, <1>4, <1>5

LEMMA HandleKeepsPlayers ==
  ASSUME RequestsOK, MatchOK, g \in Games, NEW x \in Slots, Handle(x)
  PROVE  MatchOK'
<1>1. Framed(x) /\ (Ends(x) \/ Continues(x))
  BY HandleFrames
<1>2. /\ UNCHANGED <<queue, resolved, nextTicket, page>> /\ ~IsIdle(x)
      /\ rec'.started = rec.started
  BY <1>1 DEF Framed, matchVars, Handle
<1>3. PagesTyped' /\ SeatsOK' /\ TicketsOK'
  BY <1>1, <1>2 DEF Framed, MatchOK, PagesTyped, SeatsOK, TicketsOK, At, Seat
<1>4. NotBegun'
  BY <1>2 DEF MatchOK, NotBegun
<1>5. \A c \in Clients : view'[c] # "out" => view[c] # "out"
  BY <1>1, <1>2, ZenonT(40) DEF Framed, RequestsOK, RequestOK
<1>6. PlayersOK'
  BY <1>2, <1>5 DEF MatchOK, PlayersOK, Solo, At
<1> QED BY <1>3, <1>4, <1>6 DEF MatchOK

-----------------------------------------------------------------------------
(* The pages.                                                               *)

\* What changes the session or the streams only.
LEMMA StillPlayers ==
  ASSUME RequestsOK, MatchOK, live, live' = live, UNCHANGED <<req, rec>>,
         UNCHANGED view, UNCHANGED <<queue, resolved, nextTicket, page>>,
         faults \subseteq faults'
  PROVE  RequestsOK' /\ MatchOK'
<1>1. rec.started # 0
  BY DEF MatchOK, NotBegun
<1>2. RequestsOK'
  BY DEF RequestsOK, RequestOK, IsIdle, Shares, Seat
<1>3. PagesTyped' /\ SeatsOK' /\ TicketsOK'
  BY DEF MatchOK, PagesTyped, SeatsOK, TicketsOK, At, Seat
<1>4. NotBegun'
  BY <1>1 DEF NotBegun
<1>5. PlayersOK'
  BY DEF MatchOK, PlayersOK, Solo, At
<1> QED BY <1>2, <1>3, <1>4, <1>5 DEF MatchOK

\* A page's view changes from one inside the game to another.
LEMMA ViewMoves ==
  ASSUME MatchOK, NEW c \in Clients, view[c] # "out" \/ At(c, "playing"),
         rec.started # 0, rec'.started = rec.started,
         NEW to \in Views, view' = [view EXCEPT ![c] = to],
         UNCHANGED <<queue, resolved, nextTicket, page>>
  PROVE  MatchOK'
<1>1. PagesTyped' /\ SeatsOK' /\ TicketsOK'
  BY DEF MatchOK, PagesTyped, SeatsOK, TicketsOK, At, Seat
<1>2. NotBegun'
  BY DEF NotBegun
<1>3. \A d \in Clients : view'[d] # "out" => view[d] # "out" \/ At(d, "playing")
  BY DEF MatchOK, PagesTyped
<1>4. PlayersOK'
  BY <1>3 DEF MatchOK, PlayersOK, Solo, At
<1> QED BY <1>1, <1>2, <1>4 DEF MatchOK

LEMMA EnterKeepsPlayers ==
  ASSUME RequestsOK, MatchOK, NEW c \in Clients, Enter(c)
  PROVE  RequestsOK' /\ MatchOK'
<1>1. /\ At(c, "playing") /\ view[c] = "out" /\ view' = [view EXCEPT ![c] = "watch"]
      /\ UNCHANGED <<req, rec>> /\ UNCHANGED <<queue, resolved, nextTicket, page, faults>>
  BY DEF Enter, KeepRest, matchVars
<1>2. rec.started # 0 /\ "watch" \in Views /\ IsIdle(c) /\ view \in [Clients -> Views]
  BY <1>1, ClientsAreSlots DEF MatchOK, PagesTyped, NotBegun, Solo, Views, RequestsOK, RequestOK
<1>3. MatchOK'
  BY <1>1, <1>2, ViewMoves
<1>4. RequestsOK'
  BY <1>1, <1>2 DEF RequestsOK, RequestOK, IsIdle, Shares, Seat
<1> QED BY <1>3, <1>4

LEMMA AskedIsRequest ==
  ASSUME MatchOK, NEW c \in Clients, NEW op \in Ops
  PROVE  /\ Asked(c, op) \in Requests /\ Asked(c, op).op = op /\ Asked(c, op).by = c
         /\ Asked(c, op).at = Sections(op)
<1>1. Sections(op) \in {<<>>} \cup UNION {Stages(o) : o \in Ops}
  BY SectionsAreStages
<1>2. Seat(c) \in Int /\ Partner(Seat(c)) \in Int
  BY Constants DEF MatchOK, PagesTyped, Seat, Partner
<1>3. Asked(c, op) = [Idle EXCEPT !.op = op, !.by = c, !.at = Sections(op),
        !.seat = IF op = "takeover" THEN Partner(Seat(c)) ELSE Seat(c)]
  BY DEF Asked
<1>4. (IF op = "takeover" THEN Partner(Seat(c)) ELSE Seat(c)) \in Int
  BY <1>2
<1> QED BY <1>1, <1>3, <1>4, IdleIsRequest, ZenonT(40) DEF Requests

\* A page sends a request that suits its view.
LEMMA AskKeepsPlayers ==
  ASSUME RequestsOK, MatchOK, NEW c \in Clients, NEW op \in Ops,
         IsIdle(c), req' = [req EXCEPT ![c] = Asked(c, op)], view[c] # "out",
         UNCHANGED <<live, view, rec>>, UNCHANGED <<queue, resolved, nextTicket, page>>,
         op \in {"hold", "place"} => view[c] = "mine",
         op = "play_all" => Shares(c), op \in {"step", "bot_step", "delete"} => ~Shares(c),
         faults \subseteq faults', op = "flag" => "flagged" \in faults'
  PROVE  RequestsOK' /\ MatchOK'
<1>1. /\ c \in Slots /\ c # Loose /\ req \in [Slots -> Requests]
      /\ op # "none"
  BY ClientsAreSlots, Constants DEF RequestsOK, Ops
<1>2. /\ req' \in [Slots -> Requests] /\ req'[c] = Asked(c, op)
      /\ \A x \in Slots : x # c => req'[x] = req[x]
  BY <1>1, AskedIsRequest
<1>3. ASSUME NEW x \in Slots, x # c PROVE RequestOK(x)'
  <2>1. view'[x] = view[x] /\ page' = page /\ req'[x] = req[x]
    BY <1>2, <1>3
  <2>2. RequestOK(x)
    BY DEF RequestsOK
  <2> QED BY <2>1, <2>2, StillRequest
<1>4. RequestOK(c)'
  <2>1. /\ req'[c] \in Requests /\ req'[c].op = op /\ req'[c].by = c
        /\ req'[c].at \in Stages(op)
    BY <1>2, AskedIsRequest, SectionsAreStages
  <2>2. ~(IsIdle(c)')
    BY <1>1, <2>1 DEF IsIdle
  <2>3. view'[c] = view[c] /\ (Shares(c)' <=> Shares(c))
    BY DEF Shares, Seat
  <2>4. /\ view'[c] # "out"
        /\ req'[c].op \in {"hold", "place"} => view'[c] = "mine"
        /\ req'[c].op = "play_all" => Shares(c)'
        /\ req'[c].op \in {"step", "bot_step", "delete"} => ~(Shares(c)')
        /\ req'[c].op = "flag" => "flagged" \in faults'
    BY <2>1, <2>3
  <2> QED BY <1>1, <2>1, <2>2, <2>4 DEF RequestOK
<1>5. RequestsOK'
  BY <1>2, <1>3, <1>4 DEF RequestsOK
<1>6. rec.started # 0
  BY DEF MatchOK, NotBegun
<1>7. PagesTyped' /\ SeatsOK' /\ TicketsOK'
  BY DEF MatchOK, PagesTyped, SeatsOK, TicketsOK, At, Seat
<1>8. NotBegun' /\ PlayersOK'
  BY <1>6 DEF NotBegun, MatchOK, PlayersOK, Solo, At
<1> QED BY <1>5, <1>7, <1>8 DEF MatchOK

\* Players stay, and who comes to play had a seat waiting.
LEMMA PlayersStay ==
  ASSUME PlayersOK,
         \A c \in Clients : view'[c] # "out" => view[c] # "out",
         \A c \in Clients : At(c, "playing") => At(c, "playing")',
         \A c \in Clients : At(c, "playing")' => At(c, "playing") \/ DOMAIN resolved # {},
         DOMAIN resolved' \subseteq DOMAIN resolved
  PROVE  PlayersOK' /\ (Solo => Solo')
<1>1. Solo => Solo'
  BY DEF Solo
<1>2. CASE Solo
  BY <1>1, <1>2 DEF PlayersOK
<1>3. CASE ~Solo
  <2>1. \A c \in Clients : view'[c] # "out" => At(c, "playing")'
    BY <1>3 DEF PlayersOK
  <2> QED BY <2>1 DEF PlayersOK, Solo
<1> QED BY <1>1, <1>2, <1>3

LEMMA KeptIs ==
  ASSUME PagesTyped, resolved' = Kept
  PROVE  /\ DOMAIN resolved' = DOMAIN resolved \ expired
         /\ \A t \in DOMAIN resolved' : resolved'[t] = resolved[t]
         /\ resolved' = [t \in DOMAIN resolved' |-> resolved'[t]]
BY DEF PagesTyped, Kept

\* The page of who leaves, or comes back to, the queue.
LEMMA QueuePage ==
  ASSUME MatchOK, NEW c \in Clients, NEW p, page' = [page EXCEPT ![c] = p],
         p \in [at : {"splash", "asks", "queued", "playing"}, ticket : Nat, seat : Int]
  PROVE  /\ page' \in [Clients -> [at : {"splash", "asks", "queued", "playing"},
                                   ticket : Nat, seat : Int]]
         /\ page'[c] = p
         /\ \A d \in Clients : d # c => page'[d] = page[d]
BY DEF MatchOK, PagesTyped

\* What the matchmaker does to one page, that is not in a game.
LEMMA MatchStep ==
  ASSUME RequestsOK, MatchOK, NEW c \in Clients, ~At(c, "playing"),
         \A d \in Clients : d # c => page'[d] = page[d],
         page' \in [Clients -> [at : {"splash", "asks", "queued", "playing"},
                                ticket : Nat, seat : Int]],
         UNCHANGED <<view, req, rec, live, missed>>, faults \subseteq faults',
         nextTicket' \in {nextTicket, nextTicket + 1},
         queue' \subseteq 1 .. (nextTicket' - 1),
         DOMAIN resolved' \subseteq DOMAIN resolved,
         \A t \in DOMAIN resolved' : resolved'[t] = resolved[t],
         resolved' = [t \in DOMAIN resolved' |-> resolved'[t]],
         ~At(c, "playing")' => page'[c].seat = NoSeat,
         At(c, "playing")' =>
           /\ At(c, "queued") /\ page[c].ticket \in DOMAIN resolved
           /\ page'[c].seat = resolved[page[c].ticket],
         At(c, "queued")' =>
           \/ At(c, "queued") /\ page'[c].ticket = page[c].ticket
           \/ page'[c].ticket = nextTicket /\ nextTicket' = nextTicket + 1
  PROVE  RequestsOK' /\ MatchOK'
<1> USE DEF MatchOK
<1>1. /\ nextTicket \in Nat \ {0} /\ DOMAIN resolved \subseteq 1 .. (nextTicket - 1)
      /\ nextTicket' >= nextTicket
  BY DEF PagesTyped
<1>2. PagesTyped'
  BY <1>1 DEF PagesTyped
<1>3. SeatsOK'
  <2>1. \A d \in Clients : IF At(d, "playing")' THEN page'[d].seat \in Seats
                           ELSE page'[d].seat = NoSeat
    BY DEF SeatsOK, At, Seat
  <2>2. \A d \in Clients : d # c /\ At(c, "playing")' /\ At(d, "playing")' =>
          page'[d].seat # page'[c].seat
    BY DEF TicketsOK, At, Seat
  <2>3. \A t \in DOMAIN resolved' : resolved'[t] \in Seats
    BY DEF SeatsOK
  <2>4. \A d, e \in Clients : d # e /\ At(d, "playing")' /\ At(e, "playing")' =>
          page'[d].seat # page'[e].seat
    <3> SUFFICES ASSUME NEW d \in Clients, NEW e \in Clients, d # e,
                        At(d, "playing")', At(e, "playing")'
                 PROVE  page'[d].seat # page'[e].seat
      OBVIOUS
    <3>1. CASE d = c
      BY <3>1, <2>2
    <3>2. CASE e = c
      BY <3>2, <2>2
    <3>3. CASE d # c /\ e # c
      BY <3>3 DEF SeatsOK, At, Seat
    <3> QED BY <3>1, <3>2, <3>3
  <2> QED BY <2>1, <2>3, <2>4 DEF SeatsOK, At, Seat
<1>4. TicketsOK'
  <2>1. \A t, u \in DOMAIN resolved' : t = u
    BY DEF TicketsOK
  <2>2. ASSUME NEW t \in DOMAIN resolved', NEW d \in Clients, NEW e \in Clients,
               At(d, "queued")', page'[d].ticket = t, At(e, "playing")'
        PROVE  page'[e].seat # resolved'[t]
    <3>1. t \in DOMAIN resolved /\ resolved'[t] = resolved[t] /\ t # nextTicket
      BY <1>1, <2>2
    <3>2. At(d, "queued") /\ page[d].ticket = t
      BY <3>1, <2>2 DEF At
    <3>3. CASE e = c
      <4>1. t = page[c].ticket /\ d = c
        <5>1. page[c].ticket = t /\ At(c, "queued")
          BY <3>1, <3>3, <2>2 DEF TicketsOK
        <5> QED BY <3>1, <3>2, <5>1 DEF TicketsOK
      <4> QED BY <4>1, <3>3, <2>2 DEF At
    <3>4. CASE e # c
      BY <3>1, <3>2, <3>4, <2>2 DEF TicketsOK, At, Seat
    <3> QED BY <3>3, <3>4
  <2>3. ASSUME DOMAIN resolved' # {} \/ rec'.started = 0
        PROVE  /\ \A d \in Clients : At(d, "queued")' => page'[d].ticket < nextTicket'
               /\ \A d, e \in Clients : d # e /\ At(d, "queued")' /\ At(e, "queued")' =>
                    page'[d].ticket # page'[e].ticket
    <3>1. /\ \A d \in Clients : At(d, "queued") => page[d].ticket < nextTicket
          /\ \A d, e \in Clients : d # e /\ At(d, "queued") /\ At(e, "queued") =>
               page[d].ticket # page[e].ticket
      BY <2>3 DEF TicketsOK
    <3>2. \A d \in Clients : page[d].ticket \in Nat
      BY DEF PagesTyped
    <3>3. \A d \in Clients : d # c /\ At(d, "queued")' =>
            At(d, "queued") /\ page'[d].ticket = page[d].ticket
      BY DEF At
    <3>4. \A d \in Clients : At(d, "queued")' => page'[d].ticket < nextTicket'
      BY <1>1, <3>1, <3>2, <3>3
    <3>5. \A d \in Clients : d # c /\ At(c, "queued")' /\ At(d, "queued")' =>
            page'[d].ticket # page'[c].ticket
      BY <1>1, <3>1, <3>2, <3>3
    <3>6. \A d, e \in Clients : d # e /\ At(d, "queued")' /\ At(e, "queued")' =>
            page'[d].ticket # page'[e].ticket
      BY <3>1, <3>3, <3>5
    <3> QED BY <3>4, <3>6
  <2> QED BY <2>1, <2>2, <2>3 DEF TicketsOK, At, Seat
<1>5. PlayersOK' /\ (Solo => Solo')
  <2>1. \A d \in Clients : At(d, "playing")' => At(d, "playing") \/ DOMAIN resolved # {}
    BY DEF At
  <2>2. \A d \in Clients : At(d, "playing") => At(d, "playing")'
    BY DEF At
  <2> QED BY <2>1, <2>2, PlayersStay
<1>6. NotBegun'
  BY <1>5 DEF NotBegun, IsIdle
<1>7. RequestsOK'
  <2>1. ASSUME NEW y \in Slots PROVE RequestOK(y)'
    <3>1. RequestOK(y) /\ req'[y] = req[y] /\ (IsIdle(y)' <=> IsIdle(y)) /\ view' = view
      BY DEF RequestsOK, IsIdle
    <3>2. y \in Clients /\ ~IsIdle(y) => (Shares(y)' <=> Shares(y))
      <4>1. CASE y # c
        BY <4>1 DEF Shares, Seat
      <4>2. CASE y = c /\ ~IsIdle(y)
        <5>1. view[c] # "out" /\ Solo
          BY <4>2, <3>1 DEF RequestOK, PlayersOK
        <5>2. ~(At(c, "playing")')
          BY <5>1 DEF Solo
        <5> QED BY <4>2, <5>2 DEF SeatsOK, Shares, Seat
      <4> QED BY <4>1, <4>2
    <3>3. ASSUME y \in Clients, ~IsIdle(y)
          PROVE  /\ req'[y].by = y
                 /\ view'[y] # "out"
                 /\ req'[y].op \in {"hold", "place"} => view'[y] = "mine"
                 /\ req'[y].op = "play_all" => Shares(y)'
                 /\ req'[y].op \in {"step", "bot_step", "delete"} => ~(Shares(y)')
      BY <3>1, <3>2, <3>3 DEF RequestOK
    <3>4. /\ req'[y] \in Requests
          /\ IsIdle(y) => req'[y] = Idle
          /\ ~IsIdle(y) => req'[y].by \in Clients /\ req'[y].at \in Stages(req'[y].op)
          /\ req'[y].op = "flag" => "flagged" \in faults'
          /\ y = Loose /\ ~IsIdle(y) => req'[y].op = "place" /\ "gave up" \in faults'
      BY <3>1 DEF RequestOK
    <3> QED BY <3>1, <3>3, <3>4 DEF RequestOK
  <2> QED BY <2>1 DEF RequestsOK
<1> QED BY <1>2, <1>3, <1>4, <1>5, <1>6, <1>7

LEMMA MatchKeepsPlayers ==
  ASSUME RequestsOK, MatchOK, Match
  PROVE  /\ RequestsOK' /\ MatchOK' /\ UNCHANGED gameVars /\ faults \subseteq faults'
         /\ DOMAIN resolved' \subseteq DOMAIN resolved
         /\ \A t \in DOMAIN resolved' : resolved'[t] = resolved[t]
         /\ Solo => Solo'
         /\ \A c \in Clients : At(c, "playing") => At(c, "playing")' /\ page'[c] = page[c]
         /\ \A c \in Clients : At(c, "playing")' /\ ~At(c, "playing") =>
              \E t \in DOMAIN resolved : page'[c].seat = resolved[t]
<1> DEFINE Result ==
      /\ RequestsOK' /\ MatchOK' /\ UNCHANGED gameVars /\ faults \subseteq faults'
      /\ DOMAIN resolved' \subseteq DOMAIN resolved
      /\ \A t \in DOMAIN resolved' : resolved'[t] = resolved[t]
      /\ Solo => Solo'
      /\ \A c \in Clients : At(c, "playing") => At(c, "playing")' /\ page'[c] = page[c]
      /\ \A c \in Clients : At(c, "playing")' /\ ~At(c, "playing") =>
           \E t \in DOMAIN resolved : page'[c].seat = resolved[t]
<1>a. UNCHANGED gameVars /\ UNCHANGED <<view, req, rec, live, missed>>
  BY DEF Match, gameVars
<1>b. /\ PagesTyped /\ SeatsOK /\ nextTicket \in Nat \ {0}
      /\ queue \subseteq 1 .. (nextTicket - 1)
      /\ resolved = [t \in DOMAIN resolved |-> resolved[t]]
      /\ page \in [Clients -> [at : {"splash", "asks", "queued", "playing"},
                               ticket : Nat, seat : Int]]
  BY DEF MatchOK, PagesTyped
<1>c. KeptQueue \subseteq 1 .. (nextTicket - 1)
  BY <1>b DEF KeptQueue
<1>1. ASSUME NEW c \in Clients, JoinWaits(c) PROVE Result
  <2>1. /\ MayJoin(c) /\ queue' = {nextTicket} /\ nextTicket' = nextTicket + 1
        /\ resolved' = Kept
        /\ Told(c, [at |-> "queued", ticket |-> nextTicket, seat |-> -1])
    BY <1>1 DEF JoinWaits
  <2>2. ~At(c, "playing") /\ page[c].seat = NoSeat
    BY <1>b, <2>1 DEF MayJoin, At, SeatsOK, Seat
  <2>3. queue' \subseteq 1 .. (nextTicket' - 1)
    BY <1>b, <2>1
  <2>4. \E p \in [at : {"queued", "asks"}, ticket : Nat, seat : {NoSeat}] :
          /\ page' = [page EXCEPT ![c] = p]
          /\ p.at = "queued" => p.ticket = nextTicket
    <3>1. CASE page' = [page EXCEPT ![c] = [at |-> "queued", ticket |-> nextTicket, seat |-> -1]]
      <4> DEFINE q == [at |-> "queued", ticket |-> nextTicket, seat |-> -1]
      <4>1. q \in [at : {"queued", "asks"}, ticket : Nat, seat : {NoSeat}]
            /\ q.ticket = nextTicket
        BY <1>b DEF NoSeat
      <4>2. page' = [page EXCEPT ![c] = q]
        BY <3>1
      <4> HIDE DEF q
      <4> QED BY <4>1, <4>2
    <3>2. CASE page' = [page EXCEPT ![c].at = "asks"]
      <4>1. page' = [page EXCEPT ![c] = [page[c] EXCEPT !.at = "asks"]]
        BY <1>b, <3>2
      <4>2. [page[c] EXCEPT !.at = "asks"] \in [at : {"queued", "asks"}, ticket : Nat, seat : {NoSeat}]
        BY <1>b, <2>2
      <4> QED BY <1>b, <4>1, <4>2
    <3> QED BY <2>1, <3>1, <3>2 DEF Told
  <2>5. faults \subseteq faults'
    BY <2>1 DEF Told, Fault
  <2>6. PICK p \in [at : {"queued", "asks"}, ticket : Nat, seat : {NoSeat}] :
          /\ page' = [page EXCEPT ![c] = p]
          /\ p.at = "queued" => p.ticket = nextTicket
    BY <2>4
  <2>7. p \in [at : {"splash", "asks", "queued", "playing"}, ticket : Nat, seat : Int]
    BY <2>6 DEF NoSeat
  <2>8. /\ page' \in [Clients -> [at : {"splash", "asks", "queued", "playing"},
                                   ticket : Nat, seat : Int]]
        /\ page'[c] = p /\ \A d \in Clients : d # c => page'[d] = page[d]
    BY <2>6, <2>7, QueuePage
  <2>9. ~(At(c, "playing")') /\ page'[c].seat = NoSeat
        /\ (At(c, "queued")' => page'[c].ticket = nextTicket)
    BY <2>6, <2>8 DEF At
  <2>10. /\ DOMAIN resolved' \subseteq DOMAIN resolved
         /\ \A t \in DOMAIN resolved' : resolved'[t] = resolved[t]
         /\ resolved' = [t \in DOMAIN resolved' |-> resolved'[t]]
    BY <1>b, <2>1, KeptIs
  <2>11. RequestsOK' /\ MatchOK'
    BY <1>a, <2>1, <2>2, <2>3, <2>5, <2>8, <2>9, <2>10, MatchStep
  <2> QED BY <1>a, <2>2, <2>5, <2>8, <2>9, <2>10, <2>11 DEF Solo, At
<1>2. ASSUME NEW c \in Clients, Poll(c) PROVE Result
  <2> DEFINE t == page[c].ticket
             p == IF t \in DOMAIN Kept
                  THEN [at |-> "playing", ticket |-> NoTicket, seat |-> Kept[t]]
                  ELSE IF t \in KeptQueue THEN page[c]
                  ELSE [page[c] EXCEPT !.at = "splash", !.ticket = NoTicket]
  <2>1. /\ At(c, "queued") /\ queue' = KeptQueue /\ nextTicket' = nextTicket
        /\ resolved' = Kept /\ faults' = faults /\ page' = [page EXCEPT ![c] = p]
    BY <1>2 DEF Poll
  <2>2. ~At(c, "playing") /\ page[c].seat = NoSeat
    BY <1>b, <2>1 DEF At, SeatsOK, Seat
  <2>10. /\ DOMAIN resolved' \subseteq DOMAIN resolved
         /\ \A u \in DOMAIN resolved' : resolved'[u] = resolved[u]
         /\ resolved' = [u \in DOMAIN resolved' |-> resolved'[u]]
    BY <1>b, <2>1, KeptIs
  <2>3. /\ p \in [at : {"splash", "asks", "queued", "playing"}, ticket : Nat, seat : Int]
        /\ p.at # "playing" => p.seat = NoSeat
        /\ p.at = "queued" => p.ticket = t
        /\ p.at = "playing" => t \in DOMAIN resolved /\ p.seat = resolved[t]
    <3>1. CASE t \in DOMAIN Kept
      <4>1. p = [at |-> "playing", ticket |-> 0, seat |-> Kept[t]]
        BY <3>1 DEF NoTicket
      <4> HIDE DEF p
      <4>2. t \in DOMAIN resolved /\ Kept[t] = resolved[t]
        BY <2>1, <2>10, <3>1
      <4>3. resolved[t] \in Seats
        BY <1>b, <4>2 DEF SeatsOK
      <4>4. Seats \subseteq Int
        BY Constants
      <4>5. p = [at |-> "playing", ticket |-> 0, seat |-> resolved[t]]
        BY <4>1, <4>2
      <4> HIDE DEF t
      <4> QED BY <4>2, <4>3, <4>4, <4>5
    <3>2. CASE t \notin DOMAIN Kept /\ t \in KeptQueue
      <4>1. p = page[c]
        BY <3>2
      <4> HIDE DEF p
      <4> QED BY <1>b, <2>1, <2>2, <4>1 DEF At
    <3>3. CASE t \notin DOMAIN Kept /\ t \notin KeptQueue
      <4>1. p = [page[c] EXCEPT !.at = "splash", !.ticket = 0]
        BY <3>3 DEF NoTicket
      <4> HIDE DEF p
      <4> QED BY <1>b, <2>2, <4>1
    <3> QED BY <3>1, <3>2, <3>3
  <2> HIDE DEF p
  <2>8. /\ page' \in [Clients -> [at : {"splash", "asks", "queued", "playing"},
                                   ticket : Nat, seat : Int]]
        /\ page'[c] = p /\ \A d \in Clients : d # c => page'[d] = page[d]
    BY <2>1, <2>3, QueuePage
  <2>9. /\ ~(At(c, "playing")') => page'[c].seat = NoSeat
        /\ At(c, "queued")' => page'[c].ticket = t
        /\ At(c, "playing")' => t \in DOMAIN resolved /\ page'[c].seat = resolved[t]
    BY <2>3, <2>8 DEF At
  <2>11. RequestsOK' /\ MatchOK'
    BY <1>a, <1>c, <2>1, <2>2, <2>8, <2>9, <2>10, MatchStep
  <2> QED BY <1>a, <2>1, <2>2, <2>8, <2>9, <2>10, <2>11 DEF Solo, At
<1>3. ASSUME NEW c \in Clients, Cancel(c) PROVE Result
  <2> DEFINE p == [at |-> "splash", ticket |-> 0, seat |-> -1]
  <2>1. /\ At(c, "queued") /\ queue' = queue \ {page[c].ticket}
        /\ page' = [page EXCEPT ![c] = p]
        /\ resolved' = resolved /\ nextTicket' = nextTicket /\ faults' = faults
    BY <1>3 DEF Cancel, NoTicket
  <2>2. p \in [at : {"splash", "asks", "queued", "playing"}, ticket : Nat, seat : Int]
        /\ p.at = "splash" /\ p.seat = NoSeat
    BY DEF NoSeat
  <2> HIDE DEF p
  <2>8. /\ page' \in [Clients -> [at : {"splash", "asks", "queued", "playing"},
                                   ticket : Nat, seat : Int]]
        /\ page'[c] = p /\ \A d \in Clients : d # c => page'[d] = page[d]
    BY <2>1, <2>2, QueuePage
  <2>9. ~At(c, "playing") /\ ~(At(c, "playing")') /\ ~(At(c, "queued")')
        /\ page'[c].seat = NoSeat
    BY <2>1, <2>2, <2>8 DEF At
  <2>11. RequestsOK' /\ MatchOK'
    BY <1>a, <1>b, <2>1, <2>8, <2>9, MatchStep
  <2> QED BY <1>a, <2>1, <2>8, <2>9, <2>11 DEF Solo, At
<1>4. ASSUME NEW t \in Tickets, Expire(t) PROVE Result
  <2>1. UNCHANGED <<queue, resolved, nextTicket, page, faults>>
    BY <1>4 DEF Expire
  <2>2. RequestsOK' /\ MatchOK'
    <3>1. RequestsOK'
      BY <1>a, <2>1 DEF RequestsOK, RequestOK, IsIdle, Shares, Seat
    <3>2. PagesTyped' /\ SeatsOK' /\ TicketsOK'
      BY <1>a, <2>1 DEF MatchOK, PagesTyped, SeatsOK, TicketsOK, At, Seat
    <3>3. NotBegun' /\ PlayersOK'
      BY <1>a, <2>1 DEF MatchOK, NotBegun, PlayersOK, Solo, At, IsIdle
    <3> QED BY <3>1, <3>2, <3>3 DEF MatchOK
  <2> QED BY <1>a, <2>1, <2>2 DEF Solo, At
<1> QED BY <1>1, <1>2, <1>3, <1>4 DEF Match

-----------------------------------------------------------------------------
(* The session, section by section.                                         *)

People == Clients \cup {NoOne}

LEMMA PlacedIs ==
  ASSUME NEW h \in Games
  PROVE  /\ Placed(h) \in Games
         /\ Placed(h).human = h.human /\ Placed(h).takenOver = h.takenOver
         /\ Placed(h).history = h.history /\ Placed(h).waiting = h.waiting
         /\ Placed(h).turn = h.turn /\ Placed(h).preview = h.preview
         /\ h.over => Placed(h).over
         /\ ~Placed(h).over => Placed(h).rolls = Rerolls
<1> DEFINE left == [h.left EXCEPT ![h.cur] = @ - 1]
<1>1. left \in [Seats -> Int]
  BY DEF Games
<1>2. (h.cur + 1) % NumPlayers \in Seats /\ Rerolls \in Int
  BY Constants, SMTT(20) DEF Games, Seats
<1> HIDE DEF left
<1>3. CASE IsTerminal(left)
  <2>1. Placed(h) = [h EXCEPT !.left = left, !.over = TRUE]
    BY <1>3 DEF Placed, left
  <2> QED BY <1>1, <2>1 DEF Games
<1>4. CASE ~IsTerminal(left)
  <2>1. Placed(h) = [h EXCEPT !.left = left, !.cur = (h.cur + 1) % NumPlayers,
                              !.rolls = Rerolls]
    BY <1>4 DEF Placed, left
  <2> QED BY <1>1, <1>2, <2>1, ZenonT(40) DEF Games
<1> QED BY <1>3, <1>4

LEMMA NoteIs ==
  ASSUME NEW h \in Games, NEW who \in Seats, NEW forced \in BOOLEAN, NEW by \in People
  PROVE  /\ Note(h, who, forced, by) \in Games
         /\ Note(h, who, forced, by).history =
              Append(h.history, [player |-> who, seat |-> h.cur, forced |-> forced, by |-> by])
         /\ \A f \in {Note(h, who, forced, by)} :
              /\ f.human = h.human /\ f.takenOver = h.takenOver /\ f.cur = h.cur
              /\ f.waiting = h.waiting /\ f.turn = h.turn /\ f.preview = h.preview
              /\ f.over = h.over
<1> DEFINE e == [player |-> who, seat |-> h.cur, forced |-> forced, by |-> by]
           f == [h EXCEPT !.history = Append(h.history, e)]
<1>1. e \in Entries(People) /\ h.history \in Seq(Entries(People))
  BY DEF Games, Entries, People
<1>2. Append(h.history, e) \in Seq(Entries(People))
  BY <1>1
<1>3. Note(h, who, forced, by) = f
  BY DEF Note
<1> HIDE DEF e
<1>4. f \in Games
  BY <1>2 DEF Games, People
<1>5. f.history = Append(h.history, e)
  BY DEF Games
<1>6. /\ f.human = h.human /\ f.takenOver = h.takenOver /\ f.cur = h.cur
      /\ f.waiting = h.waiting /\ f.turn = h.turn /\ f.preview = h.preview
      /\ f.over = h.over
  BY DEF Games
<1> HIDE DEF f
<1> QED BY <1>3, <1>4, <1>5, <1>6 DEF e

LEMMA CutByEntry ==
  ASSUME NEW h \in Games, NEW f \in Games, NEW e \in Entries(People),
         f.history = Append(h.history, e)
  PROVE  /\ CutShort(f) <=> CutShort(h) \/ e.forced
         /\ Thrown(f) = Thrown(h) + 1
         /\ \A i \in DOMAIN f.history :
              \/ i \in DOMAIN h.history /\ f.history[i] = h.history[i]
              \/ f.history[i] = e
<1>1. h.history \in Seq(Entries(People))
  BY DEF Games, People
<1>2. /\ Len(f.history) = Len(h.history) + 1
      /\ DOMAIN f.history = 1 .. (Len(h.history) + 1)
      /\ DOMAIN h.history = 1 .. Len(h.history)
      /\ \A i \in 1 .. Len(h.history) : f.history[i] = h.history[i]
      /\ f.history[Len(h.history) + 1] = e
      /\ Len(h.history) \in Nat
  BY <1>1
<1>3. \A i \in DOMAIN f.history :
        \/ i \in DOMAIN h.history /\ f.history[i] = h.history[i]
        \/ f.history[i] = e
  BY <1>2
<1>4. CutShort(f) => CutShort(h) \/ e.forced
  BY <1>3 DEF CutShort
<1>5. CutShort(h) => CutShort(f)
  <2> SUFFICES ASSUME NEW i \in DOMAIN h.history, h.history[i].forced PROVE CutShort(f)
    BY DEF CutShort
  <2>1. i \in DOMAIN f.history /\ f.history[i] = h.history[i]
    BY <1>2
  <2> QED BY <2>1 DEF CutShort
<1>6. e.forced => CutShort(f)
  <2>1. Len(h.history) + 1 \in DOMAIN f.history
    BY <1>2
  <2> QED BY <1>2, <2>1 DEF CutShort
<1> QED BY <1>2, <1>3, <1>4, <1>5, <1>6 DEF Thrown

\* A bot's turn, or one that bot_step plays for a human.
LEMMA BotPlayedIs ==
  ASSUME NEW h \in Games, NEW forced \in BOOLEAN
  PROVE  LET f == BotPlayed(h, forced, NoOne)
         IN /\ f \in Games
            /\ f.human = h.human /\ f.takenOver = h.takenOver
            /\ f.waiting = h.waiting /\ f.turn = h.turn /\ f.preview = h.preview
            /\ h.over => f.over
            /\ ~f.over => f.rolls = Rerolls
            /\ CutShort(f) <=> CutShort(h) \/ forced
            /\ \A i \in DOMAIN f.history :
                 \/ i \in DOMAIN h.history /\ f.history[i] = h.history[i]
                 \/ f.history[i].by = NoOne
<1> DEFINE e == [player |-> h.cur, seat |-> h.cur, forced |-> forced, by |-> NoOne]
           n == Note(h, h.cur, forced, NoOne)
           f == Placed(n)
<1>1. h.cur \in Seats /\ NoOne \in People
  BY DEF Games, People
<1>2. /\ n \in Games /\ n.history = Append(h.history, e)
      /\ n.human = h.human /\ n.takenOver = h.takenOver
      /\ n.waiting = h.waiting /\ n.turn = h.turn /\ n.preview = h.preview
      /\ n.over = h.over
  BY <1>1, NoteIs
<1>3. e \in Entries(People) /\ e.by = NoOne /\ e.forced = forced
  BY <1>1 DEF Entries
<1>4. f = BotPlayed(h, forced, NoOne)
  BY DEF BotPlayed
<1> HIDE DEF n, e
<1>5. /\ f \in Games /\ f.human = n.human /\ f.takenOver = n.takenOver
      /\ f.history = n.history /\ f.waiting = n.waiting
      /\ f.turn = n.turn /\ f.preview = n.preview
      /\ (n.over => f.over) /\ (~f.over => f.rolls = Rerolls)
  BY <1>2, PlacedIs
<1> HIDE DEF f
<1>6. /\ CutShort(f) <=> CutShort(h) \/ e.forced
      /\ \A i \in DOMAIN f.history :
              \/ i \in DOMAIN h.history /\ f.history[i] = h.history[i]
              \/ f.history[i] = e
  BY <1>2, <1>3, <1>5, CutByEntry
<1> QED BY <1>2, <1>3, <1>4, <1>5, <1>6

\* What every section keeps.
Later(h, f) ==
  /\ h.over => f.over /\ f.human = h.human
  /\ f.human \subseteq h.human /\ h.takenOver \subseteq f.takenOver
  /\ f.human \cup f.takenOver = h.human \cup h.takenOver
  /\ h.human \cap h.takenOver = {} => f.human \cap f.takenOver = {}

\* What every section keeps but a placement's and bot_step's.
Keeps(h, f) ==
  /\ Later(h, f)
  /\ Stale(f) => Stale(h)
  /\ CutShort(f) => CutShort(h)
  /\ \A i \in DOMAIN f.history :
       \/ i \in DOMAIN h.history /\ f.history[i] = h.history[i]
       \/ f.history[i].by = NoOne
  /\ h.waiting => (f.waiting /\ f.cur = h.cur) \/ h.cur \in f.takenOver

\* Sections that leave the turn alone.
LEMMA SameTurn ==
  ASSUME NEW h \in Games, NEW late \in BOOLEAN, TurnOK(h, late), NEW f \in Games,
         f.human = h.human, f.takenOver = h.takenOver, f.cur = h.cur,
         f.rolls = h.rolls, f.over = h.over, f.waiting = h.waiting, f.turn = h.turn,
         f.history = h.history, f.preview = h.preview
  PROVE  TurnOK(f, late) /\ Keeps(h, f)
<1>1. (CutShort(f) <=> CutShort(h)) /\ Thrown(f) = Thrown(h)
  BY DEF CutShort, Thrown
<1>2. MoverIsHuman(f) /\ PreviewIsNow(f) /\ TurnIsNow(f, late) /\ RecordIsClear(f, late)
  BY <1>1 DEF TurnOK, MoverIsHuman, PreviewIsNow, TurnIsNow, RecordIsClear
<1>3. Keeps(h, f)
  BY <1>1 DEF Keeps, Later, Stale
<1> QED BY <1>2, <1>3 DEF TurnOK

LEMMA RefreshedKeeps ==
  ASSUME NEW h \in Games, NEW late \in BOOLEAN, TurnOK(h, late)
  PROVE  /\ Refreshed(h) \in Games /\ TurnOK(Refreshed(h), late)
         /\ Keeps(h, Refreshed(h))
<1>1. CASE ~h.shared \/ h.over
  <2>1. Refreshed(h) = h
    BY <1>1 DEF Refreshed
  <2> QED BY <2>1, SameTurn
<1>2. CASE ~(~h.shared \/ h.over)
  <2> DEFINE lost == {s \in Seats : s \in h.human /\ s \notin h.takenOver /\ Silent(h, s)}
             f == [h EXCEPT !.disconnected = lost]
  <2>1. Refreshed(h) = f /\ lost \subseteq Seats
    BY <1>2 DEF Refreshed
  <2> HIDE DEF lost
  <2>2. f \in Games
    BY <2>1 DEF Games
  <2>3. /\ f.human = h.human /\ f.takenOver = h.takenOver /\ f.cur = h.cur
        /\ f.rolls = h.rolls /\ f.over = h.over /\ f.waiting = h.waiting
        /\ f.turn = h.turn /\ f.history = h.history /\ f.preview = h.preview
    BY DEF Games
  <2> HIDE DEF f
  <2> QED BY <2>1, <2>2, <2>3, SameTurn
<1> QED BY <1>1, <1>2

LEMMA SeenKeeps ==
  ASSUME NEW h \in Games, NEW late \in BOOLEAN, TurnOK(h, late), NEW s \in Seats,
         NEW how \in {"never", "fresh", "stale"}
  PROVE  LET f == [h EXCEPT !.seen[s] = how]
         IN f \in Games /\ TurnOK(f, late) /\ Keeps(h, f)
<1> DEFINE f == [h EXCEPT !.seen[s] = how]
           after == [h.seen EXCEPT ![s] = how]
<1>1. after \in [Seats -> {"never", "fresh", "stale"}]
  BY DEF Games
<1>2. f = [h EXCEPT !.seen = after]
  OBVIOUS
<1> HIDE DEF after, f
<1>3. f \in Games
  BY <1>1, <1>2 DEF Games
<1>4. /\ f.human = h.human /\ f.takenOver = h.takenOver /\ f.cur = h.cur
      /\ f.rolls = h.rolls /\ f.over = h.over /\ f.waiting = h.waiting
      /\ f.turn = h.turn /\ f.history = h.history /\ f.preview = h.preview
  BY <1>2 DEF Games
<1>5. TurnOK(f, late) /\ Keeps(h, f)
  BY <1>3, <1>4, SameTurn
<1> QED BY <1>3, <1>5 DEF f

LEMMA KeepsOn ==
  ASSUME NEW h \in Games, NEW f \in Games, NEW e \in Games, Keeps(h, f), Keeps(f, e),
         f.waiting = h.waiting, f.cur = h.cur
  PROVE  Keeps(h, e)
<1>1. Later(h, e)
  BY DEF Keeps, Later
<1>2. \A i \in DOMAIN e.history :
       \/ i \in DOMAIN h.history /\ e.history[i] = h.history[i]
       \/ e.history[i].by = NoOne
  BY DEF Keeps
<1> QED BY <1>1, <1>2 DEF Keeps

LEMMA BeatenKeeps ==
  ASSUME NEW h \in Games, NEW late \in BOOLEAN, TurnOK(h, late), NEW s \in Seats
  PROVE  LET f == Refreshed(Beaten(h, s))
         IN f \in Games /\ TurnOK(f, late) /\ Keeps(h, f)
<1> DEFINE b == Beaten(h, s)
<1>1. b \in Games /\ TurnOK(b, late) /\ Keeps(h, b)
  BY SeenKeeps DEF Beaten
<1>2. b.waiting = h.waiting /\ b.cur = h.cur
  BY DEF Beaten, Games
<1> HIDE DEF b
<1>3. Refreshed(b) \in Games /\ TurnOK(Refreshed(b), late) /\ Keeps(b, Refreshed(b))
  BY <1>1, RefreshedKeeps
<1>4. Keeps(h, Refreshed(b))
  BY <1>1, <1>2, <1>3, KeepsOn
<1> QED BY <1>3, <1>4 DEF b

LEMMA PreviewedKeeps ==
  ASSUME NEW h \in Games, NEW late \in BOOLEAN, TurnOK(h, late), NEW s \in Seats,
         NEW spins \in BOOLEAN, IsOnMove(h, s)
  PROVE  /\ Previewed(h, s, spins) \in Games /\ TurnOK(Previewed(h, s, spins), late)
         /\ Keeps(h, Previewed(h, s, spins))
<1> DEFINE shown == [seat |-> s, of |-> Thrown(h)]
           f == [h EXCEPT !.preview = shown, !.rolling = spins]
<1>1. Thrown(h) \in Int /\ shown \in [seat : Seats \cup {NoSeat}, of : Int]
      /\ shown.seat = s /\ shown.of = Thrown(h)
  BY DEF Games, Thrown
<1>2. Previewed(h, s, spins) = f
  BY DEF Previewed
<1> HIDE DEF shown
<1>3. f \in Games
  BY <1>1 DEF Games
<1>4. /\ f.human = h.human /\ f.takenOver = h.takenOver /\ f.cur = h.cur
      /\ f.rolls = h.rolls /\ f.over = h.over /\ f.waiting = h.waiting
      /\ f.turn = h.turn /\ f.history = h.history /\ f.preview = shown
  BY DEF Games
<1> HIDE DEF f
<1>5. (CutShort(f) <=> CutShort(h)) /\ Thrown(f) = Thrown(h)
  BY <1>4 DEF CutShort, Thrown
<1>6. MoverIsHuman(f) /\ PreviewIsNow(f) /\ TurnIsNow(f, late) /\ RecordIsClear(f, late)
  BY <1>1, <1>4, <1>5
     DEF TurnOK, MoverIsHuman, PreviewIsNow, TurnIsNow, RecordIsClear, IsOnMove
<1>7. Keeps(h, f)
  BY <1>4, <1>5 DEF Keeps, Later, Stale
<1> QED BY <1>2, <1>3, <1>6, <1>7 DEF TurnOK

LEMMA HeldKeeps ==
  ASSUME NEW h \in Games, NEW late \in BOOLEAN, TurnOK(h, late), CanHold(h)
  PROVE  Held(h) \in Games /\ TurnOK(Held(h), late) /\ Keeps(h, Held(h))
<1> DEFINE shown == [seat |-> h.cur, of |-> Thrown(h)]
           turn == [h.turn EXCEPT !.holds = h.turn.holds + 1]
           left == h.rolls - 1
           f == [h EXCEPT !.turn = turn, !.rolls = left, !.rolling = FALSE,
                          !.preview = shown]
<1>1. Thrown(h) \in Int /\ shown \in [seat : Seats \cup {NoSeat}, of : Int]
      /\ shown.seat = h.cur /\ shown.of = Thrown(h)
  BY DEF Games, Thrown
<1>2. /\ turn \in [player : Seats, of : Int, holds : Int] /\ turn.holds = h.turn.holds + 1
      /\ turn.of = h.turn.of /\ turn.player = h.turn.player
      /\ h.rolls \in Int /\ h.turn.holds \in Int
  BY SMTT(20) DEF Games
<1>3. Held(h) = f
  BY DEF Held, Games
<1>a. left = h.rolls - 1 /\ left \in Int
  BY <1>2
<1> HIDE DEF shown, turn, left
<1>4. f \in Games
  BY <1>1, <1>2, <1>a DEF Games
<1>5. /\ f.human = h.human /\ f.takenOver = h.takenOver /\ f.cur = h.cur
      /\ f.rolls = left /\ f.over = h.over /\ f.waiting = h.waiting
      /\ f.turn = turn /\ f.history = h.history /\ f.preview = shown
  BY DEF Games
<1> HIDE DEF f
<1>6. (CutShort(f) <=> CutShort(h)) /\ Thrown(f) = Thrown(h)
  BY <1>5 DEF CutShort, Thrown
<1>7. h.waiting /\ ~h.over
  BY DEF CanHold
<1>8. MoverIsHuman(f) /\ PreviewIsNow(f) /\ RecordIsClear(f, late)
  BY <1>1, <1>5, <1>6, <1>7 DEF TurnOK, MoverIsHuman, PreviewIsNow, RecordIsClear
<1>9. TurnIsNow(f, late)
  BY <1>2, <1>a, <1>5, <1>6, <1>7, Constants DEF TurnOK, TurnIsNow
<1>10. Keeps(h, f)
  BY <1>5, <1>6, <1>7 DEF Keeps, Later, Stale
<1> QED BY <1>3, <1>4, <1>8, <1>9, <1>10 DEF TurnOK

LEMMA OpenKeeps ==
  ASSUME NEW h \in Games, NEW late \in BOOLEAN, TurnOK(h, late),
         ~h.over, ~h.waiting, h.cur \in h.human
  PROVE  Open(h) \in Games /\ TurnOK(Open(h), late) /\ Keeps(h, Open(h))
<1> DEFINE turn == [h.turn EXCEPT !.player = h.cur, !.of = Thrown(h)]
           f == [h EXCEPT !.waiting = TRUE, !.turn = turn]
<1>1. Thrown(h) \in Int
  BY DEF Games, Thrown
<1>2. /\ turn \in [player : Seats, of : Int, holds : Int] /\ turn.holds = h.turn.holds
      /\ turn.of = Thrown(h) /\ turn.player = h.cur
  BY <1>1 DEF Games
<1>3. Open(h) = f
  BY DEF Open
<1> HIDE DEF turn
<1>4. f \in Games
  BY <1>2 DEF Games
<1>5. /\ f.human = h.human /\ f.takenOver = h.takenOver /\ f.cur = h.cur
      /\ f.rolls = h.rolls /\ f.over = h.over /\ f.waiting = TRUE
      /\ f.turn = turn /\ f.history = h.history /\ f.preview = h.preview
  BY DEF Games
<1> HIDE DEF f
<1>6. (CutShort(f) <=> CutShort(h)) /\ Thrown(f) = Thrown(h)
  BY <1>5 DEF CutShort, Thrown
<1>7. MoverIsHuman(f) /\ PreviewIsNow(f) /\ RecordIsClear(f, late)
  BY <1>5, <1>6 DEF TurnOK, MoverIsHuman, PreviewIsNow, RecordIsClear
<1>8. TurnIsNow(f, late)
  <2>1. h.rolls = Rerolls /\ (h.turn # EmptyTurn => late /\ CutShort(h))
    BY DEF TurnOK, RecordIsClear
  <2>2. h.turn = EmptyTurn => h.turn.holds = 0
    BY DEF EmptyTurn
  <2>3. Rerolls - Rerolls = 0
    BY Constants
  <2> QED BY <1>2, <1>5, <1>6, <2>1, <2>2, <2>3 DEF TurnIsNow
<1>9. Keeps(h, f)
  BY <1>5, <1>6 DEF Keeps, Later, Stale
<1> QED BY <1>3, <1>4, <1>7, <1>8, <1>9 DEF TurnOK

\* The record of the turn is reset first.
LEMMA OpenAfreshIs ==
  ASSUME NEW h \in Games, NEW late \in BOOLEAN, ~h.over, h.cur \in h.human,
         h.rolls = Rerolls, PreviewIsNow(h)
  PROVE  LET f == OpenAfresh(h)
         IN /\ f \in Games /\ TurnOK(f, late)
            /\ f.human = h.human /\ f.takenOver = h.takenOver /\ f.cur = h.cur
            /\ f.over = h.over /\ f.waiting /\ f.history = h.history
<1> DEFINE b == [h EXCEPT !.turn = EmptyTurn]
           turn == [EmptyTurn EXCEPT !.player = h.cur, !.of = Thrown(h)]
           f == [h EXCEPT !.waiting = TRUE, !.turn = turn]
<1>1. Thrown(h) \in Int
  BY DEF Games, Thrown
<1>2. /\ turn \in [player : Seats, of : Int, holds : Int] /\ turn.holds = 0
      /\ turn.of = Thrown(h) /\ turn.player = h.cur
  <2>1. EmptyTurn \in [player : Seats, of : Int, holds : Int] /\ EmptyTurn.holds = 0
    BY Constants DEF EmptyTurn, NoTurn
  <2>2. h.cur \in Seats
    BY DEF Games
  <2> QED BY <1>1, <2>1, <2>2
<1>3. OpenAfresh(h) = f
  <2>1. /\ b.turn = EmptyTurn /\ b.cur = h.cur /\ b.history = h.history
        /\ Thrown(b) = Thrown(h)
    BY DEF Games, Thrown
  <2>2. Open(b) = [b EXCEPT !.waiting = TRUE, !.turn = turn]
    BY <2>1 DEF Open
  <2>3. [b EXCEPT !.waiting = TRUE, !.turn = turn] = f
    BY DEF Games
  <2> QED BY <2>2, <2>3 DEF OpenAfresh
<1> HIDE DEF turn
<1>4. f \in Games
  BY <1>2 DEF Games
<1>5. /\ f.human = h.human /\ f.takenOver = h.takenOver /\ f.cur = h.cur
      /\ f.rolls = h.rolls /\ f.over = h.over /\ f.waiting = TRUE
      /\ f.turn = turn /\ f.history = h.history /\ f.preview = h.preview
  BY DEF Games
<1> HIDE DEF f
<1>6. (CutShort(f) <=> CutShort(h)) /\ Thrown(f) = Thrown(h)
  BY <1>5 DEF CutShort, Thrown
<1>7. MoverIsHuman(f) /\ PreviewIsNow(f) /\ RecordIsClear(f, late)
  BY <1>5, <1>6 DEF MoverIsHuman, PreviewIsNow, RecordIsClear
<1>8. TurnIsNow(f, late)
  <2>1. Rerolls - Rerolls = 0
    BY Constants
  <2> QED BY <1>2, <1>5, <1>6, <2>1 DEF TurnIsNow
<1> QED BY <1>3, <1>4, <1>5, <1>7, <1>8 DEF TurnOK

\* A bot's turn, not forced: what it leaves to the next one.
LEMMA BotTurnKeeps ==
  ASSUME NEW h \in Games, NEW late \in BOOLEAN, TurnOK(h, late),
         ~h.over, ~h.waiting, h.cur \notin h.human
  PROVE  LET f == BotPlayed(h, FALSE, NoOne)
         IN f \in Games /\ PreviewIsNow(f) /\ Keeps(h, f)
            /\ f.waiting = FALSE /\ (~f.over => f.rolls = Rerolls)
            /\ ((late \/ ~Stale(h) \/ f.cur \notin f.human) => TurnOK(f, late))
<1> DEFINE f == BotPlayed(h, FALSE, NoOne)
<1>1. /\ f \in Games
      /\ f.human = h.human /\ f.takenOver = h.takenOver
      /\ f.waiting = h.waiting /\ f.turn = h.turn /\ f.preview = h.preview
      /\ h.over => f.over
      /\ ~f.over => f.rolls = Rerolls
      /\ CutShort(f) <=> CutShort(h)
      /\ \A i \in DOMAIN f.history :
                 \/ i \in DOMAIN h.history /\ f.history[i] = h.history[i]
                 \/ f.history[i].by = NoOne
  BY BotPlayedIs
<1> HIDE DEF f
<1>2. PreviewIsNow(f)
  BY <1>1 DEF TurnOK, PreviewIsNow
<1>3. Keeps(h, f)
  BY <1>1 DEF Keeps, Later, Stale
<1>4. f.waiting = FALSE
  BY <1>1 DEF Games
<1>5. ASSUME late \/ ~Stale(h) \/ f.cur \notin f.human PROVE TurnOK(f, late)
  <2>1. MoverIsHuman(f) /\ TurnIsNow(f, late)
    BY <1>4 DEF MoverIsHuman, TurnIsNow
  <2>2. RecordIsClear(f, late)
    BY <1>1, <1>5 DEF RecordIsClear, TurnOK, Stale
  <2> QED BY <1>2, <2>1, <2>2 DEF TurnOK
<1> QED BY <1>1, <1>2, <1>3, <1>4, <1>5 DEF f

LEMMA ReplyKeeps ==
  ASSUME NEW h \in Games, NEW late \in BOOLEAN, TurnOK(h, late), late \/ ~Stale(h)
  PROVE  LET f == ReplyPlayed(h, NoOne)
         IN f \in Games /\ TurnOK(f, late) /\ Keeps(h, f)
<1>1. CASE h.over \/ h.waiting
  <2>1. ReplyPlayed(h, NoOne) = h
    BY <1>1 DEF ReplyPlayed, ReplyEnds
  <2> QED BY <2>1, SameTurn
<1>2. CASE ~(h.over \/ h.waiting) /\ h.cur \in h.human
  <2>1. ReplyPlayed(h, NoOne) = Open(h)
    BY <1>2 DEF ReplyPlayed, ReplyEnds
  <2> QED BY <1>2, <2>1, OpenKeeps
<1>3. CASE ~(h.over \/ h.waiting) /\ h.cur \notin h.human
  <2>1. ReplyPlayed(h, NoOne) = BotPlayed(h, FALSE, NoOne)
    BY <1>3 DEF ReplyPlayed, ReplyEnds
  <2> QED BY <1>3, <2>1, BotTurnKeeps
<1> QED BY <1>1, <1>2, <1>3

LEMMA BotThenKeeps ==
  ASSUME NEW h \in Games, NEW late \in BOOLEAN, TurnOK(h, late),
         ~h.over, ~h.waiting, h.cur \notin h.human
  PROVE  LET f == AfterBot(BotPlayed(h, FALSE, NoOne))
         IN f \in Games /\ TurnOK(f, late) /\ Keeps(h, f)
<1> DEFINE b == BotPlayed(h, FALSE, NoOne)
<1>1. /\ b \in Games /\ PreviewIsNow(b) /\ Keeps(h, b) /\ b.waiting = FALSE
      /\ ~b.over => b.rolls = Rerolls
      /\ (late \/ ~Stale(h) \/ b.cur \notin b.human) => TurnOK(b, late)
  BY BotTurnKeeps
<1> HIDE DEF b
<1>2. CASE ~b.over /\ b.cur \in b.human
  <2> DEFINE f == OpenAfresh(b)
  <2>1. /\ f \in Games /\ TurnOK(f, late)
        /\ f.human = b.human /\ f.takenOver = b.takenOver /\ f.cur = b.cur
        /\ f.over = b.over /\ f.waiting /\ f.history = b.history
    BY <1>1, <1>2, OpenAfreshIs
  <2> HIDE DEF f
  <2>2. CutShort(f) <=> CutShort(b)
    BY <2>1 DEF CutShort
  <2>3. Keeps(h, f)
    BY <1>1, <2>1, <2>2 DEF Keeps, Later, Stale
  <2>4. AfterBot(b) = f
    BY <1>2 DEF AfterBot, f
  <2> QED BY <2>1, <2>3, <2>4 DEF b
<1>3. CASE b.over \/ b.cur \notin b.human
  <2>1. AfterBot(b) = b
    BY <1>3 DEF AfterBot
  <2>2. TurnOK(b, late)
    <3>1. CASE b.over
      BY <1>1, <3>1 DEF TurnOK, MoverIsHuman, TurnIsNow, RecordIsClear
    <3> QED BY <1>1, <1>3, <3>1
  <2> QED BY <1>1, <2>1, <2>2 DEF b
<1> QED BY <1>2, <1>3

LEMMA AdvancedKeeps ==
  ASSUME NEW h \in Games, NEW late \in BOOLEAN, TurnOK(h, late)
  PROVE  LET f == Advanced(h, NoOne)
         IN f \in Games /\ TurnOK(f, late) /\ Keeps(h, f)
<1>1. CASE h.over \/ h.waiting
  <2>1. Advanced(h, NoOne) = h
    BY <1>1 DEF Advanced
  <2> QED BY <2>1, SameTurn
<1>2. CASE ~(h.over \/ h.waiting) /\ h.cur \in h.human
  <2>1. Advanced(h, NoOne) = Open(h)
    BY <1>2 DEF Advanced
  <2> QED BY <1>2, <2>1, OpenKeeps
<1>3. CASE ~(h.over \/ h.waiting) /\ h.cur \notin h.human
  <2>1. Advanced(h, NoOne) = AfterBot(BotPlayed(h, FALSE, NoOne))
    BY <1>3 DEF Advanced
  <2> QED BY <1>3, <2>1, BotThenKeeps
<1> QED BY <1>1, <1>2, <1>3

LEMMA RoundKeeps ==
  ASSUME NEW h \in Games, NEW late \in BOOLEAN, TurnOK(h, late), ~CutShort(h)
  PROVE  LET f == RoundPlayed(h, NoOne)
         IN f \in Games /\ TurnOK(f, late) /\ Keeps(h, f)
<1>1. CASE h.over \/ h.waiting
  <2>1. RoundPlayed(h, NoOne) = h
    BY <1>1 DEF RoundPlayed
  <2> QED BY <2>1, SameTurn
<1>2. CASE ~(h.over \/ h.waiting) /\ h.cur \in h.human
  <2> DEFINE f == [h EXCEPT !.waiting = TRUE]
  <2>1. RoundPlayed(h, NoOne) = f
    BY <1>2 DEF RoundPlayed
  <2>2. f \in Games
    BY DEF Games
  <2>3. /\ f.human = h.human /\ f.takenOver = h.takenOver /\ f.cur = h.cur
        /\ f.rolls = h.rolls /\ f.over = h.over /\ f.waiting = TRUE
        /\ f.turn = h.turn /\ f.history = h.history /\ f.preview = h.preview
    BY DEF Games
  <2> HIDE DEF f
  <2>4. h.turn = EmptyTurn /\ EmptyTurn.of = NoTurn
    BY <1>2 DEF TurnOK, RecordIsClear, EmptyTurn
  <2>5. (CutShort(f) <=> CutShort(h)) /\ Thrown(f) = Thrown(h)
    BY <2>3 DEF CutShort, Thrown
  <2>6. MoverIsHuman(f) /\ PreviewIsNow(f) /\ RecordIsClear(f, late) /\ TurnIsNow(f, late)
    BY <1>2, <2>3, <2>4, <2>5
       DEF TurnOK, MoverIsHuman, PreviewIsNow, RecordIsClear, TurnIsNow
  <2>7. Keeps(h, f)
    BY <1>2, <2>3, <2>5 DEF Keeps, Later, Stale
  <2> QED BY <2>1, <2>2, <2>6, <2>7 DEF TurnOK
<1>3. CASE ~(h.over \/ h.waiting) /\ h.cur \notin h.human
  <2>1. RoundPlayed(h, NoOne) = AfterBot(BotPlayed(h, FALSE, NoOne))
    BY <1>3 DEF RoundPlayed
  <2> QED BY <1>3, <2>1, BotThenKeeps
<1> QED BY <1>1, <1>2, <1>3

LEMMA TakenOverKeeps ==
  ASSUME NEW h \in Games, NEW late \in BOOLEAN, TurnOK(h, late), NEW s, CanTakeOver(h, s)
  PROVE  LET f == TakenOver(h, s)
         IN f \in Games /\ TurnOK(f, late) /\ Keeps(h, f)
<1> DEFINE human == h.human \ {s}
           taken == h.takenOver \cup {s}
           off == h.disconnected \ {s}
           f == [h EXCEPT !.human = human, !.takenOver = taken, !.disconnected = off]
<1>1. /\ human \in SUBSET Seats /\ taken \in SUBSET Seats /\ off \in SUBSET Seats
      /\ s \in h.human /\ ~h.over
  BY DEF CanTakeOver, Games
<1>2. human = h.human \ {s} /\ taken = h.takenOver \cup {s}
  OBVIOUS
<1>a. TakenOver(h, s) = IF s = h.cur /\ h.waiting
                        THEN [f EXCEPT !.waiting = FALSE, !.turn = EmptyTurn] ELSE f
  BY DEF TakenOver
<1> HIDE DEF human, taken, off
<1>3. f \in Games
  BY <1>1 DEF Games
<1>4. /\ f.human = human /\ f.takenOver = taken /\ f.cur = h.cur
      /\ f.rolls = h.rolls /\ f.over = h.over /\ f.waiting = h.waiting
      /\ f.turn = h.turn /\ f.history = h.history /\ f.preview = h.preview
  BY DEF Games
<1> HIDE DEF f
<1>5. CASE ~(s = h.cur /\ h.waiting)
  <2>1. TakenOver(h, s) = f
    BY <1>5, <1>a
  <2>2. (CutShort(f) <=> CutShort(h)) /\ Thrown(f) = Thrown(h)
    BY <1>4 DEF CutShort, Thrown
  <2>3. MoverIsHuman(f) /\ PreviewIsNow(f) /\ RecordIsClear(f, late) /\ TurnIsNow(f, late)
    BY <1>2, <1>4, <1>5, <2>2
       DEF TurnOK, MoverIsHuman, PreviewIsNow, RecordIsClear, TurnIsNow
  <2>4. Keeps(h, f)
    BY <1>1, <1>2, <1>4, <2>2 DEF Keeps, Later, Stale
  <2> QED BY <1>3, <2>1, <2>3, <2>4 DEF TurnOK
<1>6. CASE s = h.cur /\ h.waiting
  <2> DEFINE e == [f EXCEPT !.waiting = FALSE, !.turn = EmptyTurn]
  <2>1. TakenOver(h, s) = e
    BY <1>6, <1>a
  <2>2. EmptyTurn \in [player : Seats, of : Int, holds : Int]
    BY Constants DEF EmptyTurn, NoTurn
  <2>3. e \in Games
    BY <1>3, <2>2 DEF Games
  <2>4. /\ e.human = human /\ e.takenOver = taken /\ e.cur = h.cur
        /\ e.rolls = h.rolls /\ e.over = h.over /\ e.waiting = FALSE
        /\ e.turn = EmptyTurn /\ e.history = h.history /\ e.preview = h.preview
    BY <1>3, <1>4 DEF Games
  <2> HIDE DEF e
  <2>5. (CutShort(e) <=> CutShort(h)) /\ Thrown(e) = Thrown(h)
    BY <2>4 DEF CutShort, Thrown
  <2>6. MoverIsHuman(e) /\ PreviewIsNow(e) /\ RecordIsClear(e, late) /\ TurnIsNow(e, late)
    BY <1>2, <1>6, <2>4, <2>5
       DEF TurnOK, MoverIsHuman, PreviewIsNow, RecordIsClear, TurnIsNow
  <2>7. Keeps(h, e)
    BY <1>1, <1>2, <1>6, <2>4, <2>5 DEF Keeps, Later, Stale
  <2> QED BY <2>1, <2>3, <2>6, <2>7 DEF TurnOK
<1> QED BY <1>5, <1>6

\* A placement of a player.
LEMMA HumanPlacedIs ==
  ASSUME NEW h \in Games, NEW late \in BOOLEAN, TurnOK(h, late), NEW by \in Clients,
         CanPlace(h)
  PROVE  LET f == HumanPlaced(h, by)
         IN /\ f \in Games /\ TurnOK(f, late) /\ Later(h, f)
            /\ f.turn = EmptyTurn /\ f.human = h.human /\ f.takenOver = h.takenOver
            /\ CutShort(f) => CutShort(h)
            /\ \A i \in DOMAIN f.history :
                 \/ i \in DOMAIN h.history /\ f.history[i] = h.history[i]
                 \/ f.history[i].by = by /\ f.history[i].seat = h.cur
<1> DEFINE e == [player |-> h.turn.player, seat |-> h.cur, forced |-> FALSE, by |-> by]
           n == Note(h, h.turn.player, FALSE, by)
           p == Placed(n)
           shown == [p.preview EXCEPT !.seat = NoSeat]
           f == [p EXCEPT !.waiting = FALSE, !.rolling = FALSE, !.turn = EmptyTurn,
                          !.preview = shown]
<1>1. h.turn.player \in Seats /\ by \in People /\ h.cur \in Seats
  BY DEF Games, People
<1>2. /\ n \in Games /\ n.history = Append(h.history, e)
      /\ n.human = h.human /\ n.takenOver = h.takenOver /\ n.over = h.over
  BY <1>1, NoteIs
<1>3. e \in Entries(People) /\ e.by = by /\ e.forced = FALSE /\ e.seat = h.cur
  BY <1>1 DEF Entries
<1>a. HumanPlaced(h, by) = f
  BY DEF HumanPlaced
<1> HIDE DEF n, e
<1>4. /\ p \in Games /\ p.human = n.human /\ p.takenOver = n.takenOver
      /\ p.history = n.history /\ (n.over => p.over) /\ (~p.over => p.rolls = Rerolls)
  BY <1>2, PlacedIs
<1> HIDE DEF p
<1>5. shown \in [seat : Seats \cup {NoSeat}, of : Int] /\ shown.seat = NoSeat
  BY <1>4 DEF Games
<1>6. EmptyTurn \in [player : Seats, of : Int, holds : Int]
  BY Constants DEF EmptyTurn, NoTurn
<1> HIDE DEF shown
<1>7. f \in Games
  BY <1>4, <1>5, <1>6 DEF Games
<1>8. /\ f.human = h.human /\ f.takenOver = h.takenOver /\ f.rolls = p.rolls
      /\ f.over = p.over /\ f.waiting = FALSE
      /\ f.turn = EmptyTurn /\ f.history = Append(h.history, e) /\ f.preview = shown
  BY <1>2, <1>4 DEF Games
<1> HIDE DEF f
<1>9. /\ CutShort(f) <=> CutShort(h) \/ e.forced
      /\ \A i \in DOMAIN f.history :
              \/ i \in DOMAIN h.history /\ f.history[i] = h.history[i]
              \/ f.history[i] = e
  BY <1>3, <1>7, <1>8, CutByEntry
<1>10. f.preview.seat \notin f.human
  BY <1>5, <1>7, <1>8, Constants DEF Games
<1>11. MoverIsHuman(f) /\ PreviewIsNow(f) /\ RecordIsClear(f, late) /\ TurnIsNow(f, late)
  BY <1>4, <1>8, <1>10 DEF MoverIsHuman, PreviewIsNow, RecordIsClear, TurnIsNow
<1>12. Later(h, f)
  BY <1>2, <1>4, <1>8 DEF Later
<1> QED BY <1>a, <1>3, <1>7, <1>8, <1>9, <1>11, <1>12 DEF TurnOK

\* bot_step's turn
LEMMA OverriddenIs ==
  ASSUME NEW h \in Games, NEW late \in BOOLEAN, TurnOK(h, late)
  PROVE  LET f == Overridden(h, NoOne)
         IN /\ f \in Games /\ TurnOK(f, late) /\ Later(h, f)
            /\ \A i \in DOMAIN f.history :
                 \/ i \in DOMAIN h.history /\ f.history[i] = h.history[i]
                 \/ f.history[i].by = NoOne
<1>1. CASE h.over
  <2>1. Overridden(h, NoOne) = h
    BY <1>1 DEF Overridden
  <2> QED BY <2>1, SameTurn DEF Keeps
<1>2. CASE ~h.over
  <2> DEFINE w == [h EXCEPT !.waiting = FALSE]
             forced == h.cur \in h.human
             b == BotPlayed(w, forced, NoOne)
  <2>1. Overridden(h, NoOne) = AfterBot(b)
    BY <1>2 DEF Overridden
  <2>2. /\ w \in Games /\ w.human = h.human /\ w.takenOver = h.takenOver /\ w.cur = h.cur
        /\ w.over = h.over /\ w.waiting = FALSE /\ w.turn = h.turn
        /\ w.history = h.history /\ w.preview = h.preview
    BY DEF Games
  <2>3. CutShort(w) <=> CutShort(h)
    BY <2>2 DEF CutShort
  <2>4. forced \in BOOLEAN /\ (forced <=> h.cur \in h.human)
    OBVIOUS
  <2> HIDE DEF w, forced
  <2>5. /\ b \in Games
        /\ b.human = w.human /\ b.takenOver = w.takenOver
        /\ b.waiting = w.waiting /\ b.turn = w.turn /\ b.preview = w.preview
        /\ w.over => b.over
        /\ ~b.over => b.rolls = Rerolls
        /\ CutShort(b) <=> CutShort(w) \/ forced
        /\ \A i \in DOMAIN b.history :
                 \/ i \in DOMAIN w.history /\ b.history[i] = w.history[i]
                 \/ b.history[i].by = NoOne
    BY <2>2, <2>4, BotPlayedIs
  <2> HIDE DEF b
  <2>6. PreviewIsNow(b)
    BY <2>2, <2>3, <2>4, <2>5 DEF TurnOK, PreviewIsNow
  <2>7. Later(h, b)
    BY <1>2, <2>2, <2>5 DEF Later
  <2>8. CASE ~b.over /\ b.cur \in b.human
    <3> DEFINE f == OpenAfresh(b)
    <3>1. /\ f \in Games /\ TurnOK(f, late)
          /\ f.human = b.human /\ f.takenOver = b.takenOver /\ f.cur = b.cur
          /\ f.over = b.over /\ f.waiting /\ f.history = b.history
      BY <2>5, <2>6, <2>8, OpenAfreshIs
    <3> HIDE DEF f
    <3>2. Later(h, f)
      BY <2>7, <3>1 DEF Later
    <3>3. AfterBot(b) = f
      BY <2>8 DEF AfterBot, f
    <3> QED BY <2>1, <2>2, <2>5, <3>1, <3>2, <3>3
  <2>9. CASE b.over \/ b.cur \notin b.human
    <3>1. AfterBot(b) = b
      BY <2>9 DEF AfterBot
    <3>2. MoverIsHuman(b) /\ TurnIsNow(b, late)
      BY <2>2, <2>5 DEF MoverIsHuman, TurnIsNow
    <3>3. RecordIsClear(b, late)
      BY <1>2, <2>2, <2>3, <2>4, <2>5, <2>9 DEF RecordIsClear, TurnOK, MoverIsHuman
    <3> QED BY <2>1, <2>2, <2>5, <2>6, <2>7, <3>1, <3>2, <3>3 DEF TurnOK
  <2> QED BY <2>8, <2>9
<1> QED BY <1>1, <1>2

LEMMA DealtIs ==
  ASSUME NEW h, NEW late \in BOOLEAN, NEW humans \in SUBSET Seats,
         NEW board \in [Seats -> 0..Turns], NEW first \in Seats, NEW open \in BOOLEAN,
         h = Dealt(Deal(humans, board, first, open))
  PROVE  /\ h \in Games /\ TurnOK(h, late) /\ ~CutShort(h) /\ ~Stale(h)
         /\ h.history = <<>> /\ h.human = humans /\ h.takenOver = {}
<1> DEFINE d == Deal(humans, board, first, open)
<1>1. /\ Rerolls \in Int /\ NoTurn \in Int
      /\ EmptyTurn \in [player : Seats, of : Int, holds : Int]
      /\ board \in [Seats -> Int] /\ <<>> \in Seq(Entries(People))
      /\ [s \in Seats |-> "never"] \in [Seats -> {"never", "fresh", "stale"}]
  BY Constants DEF EmptyTurn, NoTurn
<1>2. d = [ human |-> humans, left |-> board, cur |-> first,
    rolls |-> Rerolls, over |-> open, waiting |-> FALSE,
    turn |-> EmptyTurn, history |-> <<>>,
    preview |-> [seat |-> NoSeat, of |-> NoTurn], rolling |-> FALSE,
    shared |-> FALSE, seen |-> [s \in Seats |-> "never"],
    takenOver |-> {}, disconnected |-> {} ]
  BY DEF Deal
<1>3. d \in Games
  BY <1>1, <1>2 DEF Games, People
<1>4. /\ d.human = humans /\ d.cur = first /\ d.rolls = Rerolls /\ d.over = open
      /\ d.waiting = FALSE /\ d.turn = EmptyTurn /\ d.history = <<>>
      /\ d.preview.seat = NoSeat /\ d.takenOver = {}
  BY <1>2
<1> HIDE DEF d
<1>5. ~CutShort(d)
  BY <1>4 DEF CutShort
<1>6. MoverIsHuman(d) /\ PreviewIsNow(d) /\ RecordIsClear(d, late) /\ TurnIsNow(d, late)
  BY <1>4, Constants DEF MoverIsHuman, PreviewIsNow, RecordIsClear, TurnIsNow
<1>7. CASE ~d.over /\ d.cur \in d.human
  <2> DEFINE f == Open(d)
  <2>1. f \in Games /\ TurnOK(f, late) /\ Keeps(d, f)
    BY <1>3, <1>4, <1>6, <1>7, OpenKeeps DEF TurnOK
  <2>2. f.history = <<>> /\ f.human = humans /\ f.takenOver = {} /\ f.waiting = TRUE
    BY <1>3, <1>4 DEF Open, Games
  <2>3. h = f
    BY <1>7 DEF Dealt, d
  <2> HIDE DEF f
  <2> QED BY <1>5, <2>1, <2>2, <2>3 DEF Keeps, Stale
<1>8. CASE ~(~d.over /\ d.cur \in d.human)
  <2>1. h = d
    BY <1>8 DEF Dealt, d
  <2> QED BY <1>3, <1>4, <1>5, <1>6, <2>1 DEF TurnOK, Stale
<1> QED BY <1>7, <1>8

LEMMA NewGameIs ==
  ASSUME NEW humans \in SUBSET Seats, NEW late \in BOOLEAN
  PROVE  LET h == NewGame(humans)
         IN /\ h \in Games /\ TurnOK(h, late) /\ ~CutShort(h) /\ ~Stale(h)
            /\ h.history = <<>> /\ h.human = humans /\ h.takenOver = {}
<1>1. 0 \in Seats /\ [s \in Seats |-> Turns] \in [Seats -> 0..Turns]
  BY Constants
<1> QED BY <1>1, DealtIs DEF NewGame

LEMMA BoardGameIs ==
  ASSUME NEW humans \in SUBSET Seats, NEW late \in BOOLEAN, NEW p \in Positions
  PROVE  LET h == NewGameFromBoard(humans, p.left, p.first)
         IN /\ h \in Games /\ TurnOK(h, late) /\ ~CutShort(h) /\ ~Stale(h)
            /\ h.history = <<>> /\ h.human = humans /\ h.takenOver = {}
<1>1. p.left \in [Seats -> 0..Turns] /\ p.first \in Seats
  BY ServerAssumption
<1>2. IsTerminal(p.left) \in BOOLEAN
  BY DEF IsTerminal
<1> DEFINE left == p.left
           first == p.first
           open == IsTerminal(left)
<1>3. NewGameFromBoard(humans, p.left, p.first) = Dealt(Deal(humans, left, first, open))
  BY DEF NewGameFromBoard
<1>4. left \in [Seats -> 0..Turns] /\ first \in Seats /\ open \in BOOLEAN
  BY <1>1, <1>2
<1> HIDE DEF left, first, open
<1> QED BY <1>3, <1>4, DealtIs

LEMMA SharedGameIs ==
  ASSUME NEW humans \in SUBSET Seats, NEW late \in BOOLEAN
  PROVE  LET h == MarkShared(NewGame(humans), humans)
         IN /\ h \in Games /\ TurnOK(h, late) /\ ~CutShort(h) /\ ~Stale(h)
            /\ h.history = <<>> /\ h.human = humans /\ h.takenOver = {}
<1> DEFINE n == NewGame(humans)
           seen == [s \in Seats |-> IF s \in humans THEN "fresh" ELSE n.seen[s]]
           h == [n EXCEPT !.shared = TRUE, !.seen = seen]
<1>1. /\ n \in Games /\ TurnOK(n, late) /\ ~CutShort(n) /\ ~Stale(n)
      /\ n.history = <<>> /\ n.human = humans /\ n.takenOver = {}
  BY NewGameIs
<1> HIDE DEF n
<1>2. seen \in [Seats -> {"never", "fresh", "stale"}]
  BY <1>1 DEF Games
<1>3. MarkShared(n, humans) = h
  BY DEF MarkShared
<1> HIDE DEF seen
<1>4. h \in Games
  BY <1>1, <1>2 DEF Games
<1>5. /\ h.human = n.human /\ h.takenOver = n.takenOver /\ h.cur = n.cur
      /\ h.rolls = n.rolls /\ h.over = n.over /\ h.waiting = n.waiting
      /\ h.turn = n.turn /\ h.history = n.history /\ h.preview = n.preview
  BY <1>1 DEF Games
<1> HIDE DEF h
<1>6. TurnOK(h, late) /\ Keeps(n, h)
  BY <1>1, <1>4, <1>5, SameTurn
<1> QED BY <1>1, <1>3, <1>4, <1>5, <1>6 DEF Keeps, n

-----------------------------------------------------------------------------
(* What a handler's step does to the session.                               *)

LEMMA WhichOp ==
  ASSUME RequestsOK, NEW x \in Slots, ~IsIdle(x)
  PROVE  LET s == Head(req[x].at)
             op == req[x].op
         IN /\ s = "hold" => op = "hold"
            /\ s \in {"place", "reply"} => op = "place"
            /\ s = "advance" => op = "step"
            /\ s = "play" => op = "play_all"
            /\ s = "override" => op = "bot_step"
            /\ s = "takeover" => op = "takeover"
            /\ s = "notify" => op \in Recording \cup {"hold", "takeover"}
            /\ s \in {"claim", "line"} => op \in Recording
            /\ s \in {"open", "write"} => op \in Recording \cup {"flag"}
            /\ s \in {"look", "mark", "read"} => op = "flag"
            /\ s \in {"remove", "forget"} => op = "delete"
<1>1. \/ IsLast(req[x].op, Head(req[x].at)) /\ Tail(req[x].at) = <<>>
      \/ Follows(req[x].op, Head(req[x].at), Head(Tail(req[x].at)))
  BY Asking, NextSection
<1> QED BY <1>1 DEF IsLast, Follows

LEMMA SoloOrShared ==
  ASSUME MatchOK, NEW c \in Clients
  PROVE  /\ Solo => ~Shares(c)
         /\ ~Solo /\ view[c] # "out" => Shares(c) /\ At(c, "playing")
         /\ Shares(c) <=> At(c, "playing")
         /\ Shares(c) => Seat(c) \in Seats
<1>1. /\ At(c, "playing") => Seat(c) \in Seats
      /\ ~At(c, "playing") => Seat(c) = NoSeat
  BY DEF MatchOK, SeatsOK
<1>2. Shares(c) <=> At(c, "playing")
  BY <1>1, Constants DEF Shares
<1> QED BY <1>1, <1>2 DEF Solo, MatchOK, PlayersOK

\* The requests that are not of a game with one page.
LEMMA OfPages ==
  ASSUME RequestsOK, MatchOK, NEW x \in Slots, ~IsIdle(x)
  PROVE  /\ req[x].op # "place" => x \in Clients
         /\ x \in Clients => req[x].by = x /\ view[x] # "out"
         /\ req[x].op = "play_all" => ~Solo
         /\ req[x].op \in {"step", "bot_step", "delete"} => Solo
<1>1. RequestOK(x) /\ (x \in Clients \/ x = Loose)
  BY ClientsAreSlots DEF RequestsOK
<1>2. req[x].op # "place" => x \in Clients
  BY <1>1 DEF RequestOK
<1>3. x \in Clients =>
       /\ req[x].by = x
       /\ view[x] # "out"
       /\ req[x].op = "play_all" => Shares(x)
       /\ req[x].op \in {"step", "bot_step", "delete"} => ~Shares(x)
  BY <1>1 DEF RequestOK
<1> QED BY <1>2, <1>3, SoloOrShared

LEMMA SameKeeps ==
  ASSUME NEW h \in Games
  PROVE  Keeps(h, h)
BY DEF Keeps, Later, Stale

\* A step that leaves the session's shape, in any section but three.
KeepsGame(x) ==
  g' \in Games /\ TurnOK(g', Late) /\ Keeps(g, g')

Places(x) ==
  /\ At_(x, "place") /\ live /\ CanPlace(g)
  /\ Change(HumanPlaced(g, req[x].by), FALSE) /\ Steps(x)

LEMMA SessionMoves ==
  ASSUME RequestsOK, MatchOK, GameOK, NEW x \in Slots, Handle(x)
  PROVE  \/ live' = live /\ KeepsGame(x) /\ ~Override(x)
         \/ live' = live /\ Places(x)
         \/ live' = live /\ Override(x)
         \/ Remove(x)
<1> DEFINE late == Late
<1>b. late \in BOOLEAN
  BY DEF Late
<1>1. g \in Games /\ TurnOK(g, late) /\ Keeps(g, g) /\ late \in BOOLEAN /\ ~IsIdle(x)
  BY <1>b, SameKeeps DEF GameOK, Handle
<1>2. g' = g => KeepsGame(x)
  BY <1>1 DEF KeepsGame
<1>a. late = Late
  OBVIOUS
<1> HIDE DEF late
<1>3. CASE Refresh(x)
  <2>1. (g' = g \/ g' = Refreshed(g)) /\ live' = live
    BY <1>3 DEF Refresh, Change
  <2>2. ASSUME g' = Refreshed(g) PROVE KeepsGame(x)
    BY <1>1, <1>a, <2>1, <2>2, RefreshedKeeps DEF KeepsGame
  <2>3. ~Override(x)
    BY <1>3 DEF Refresh, Override, At_
  <2> QED BY <1>2, <2>1, <2>2, <2>3
<1>4. CASE Hold(x)
  <2>1. (g' = g \/ (g' = Held(g) /\ CanHold(g))) /\ live' = live
    BY <1>4, HoldSteps DEF Change
  <2>2. ASSUME g' = Held(g) /\ CanHold(g) PROVE KeepsGame(x)
    BY <1>1, <1>a, <2>1, <2>2, HeldKeeps DEF KeepsGame
  <2>3. ~Override(x)
    BY <1>4 DEF Hold, Override, At_
  <2> QED BY <1>2, <2>1, <2>2, <2>3
<1>5. CASE Place(x)
  <2>1. (g' = g \/ Places(x)) /\ live' = live
    BY <1>5, PlaceSteps DEF Places, Place
  <2>3. ~Override(x)
    BY <1>5 DEF Place, Override, At_
  <2> QED BY <1>2, <2>1, <2>3
<1>6. CASE Reply(x)
  <2>1. (g' = g \/ g' = ReplyPlayed(g, NoOne)) /\ live' = live
    BY <1>6, ReplySteps DEF Change
  <2>2. late \/ ~Stale(g)
    <3>1. CASE x \in Clients
      BY <1>6, <1>a, <3>1 DEF GameOK, NoReplyToStale, Reply
    <3>2. CASE x = Loose
      BY <1>1, <1>a, <3>2 DEF RequestsOK, RequestOK, Late
    <3> QED BY <3>1, <3>2, ClientsAreSlots
  <2>3. ASSUME g' = ReplyPlayed(g, NoOne) PROVE KeepsGame(x)
    <3> DEFINE f == ReplyPlayed(g, NoOne)
    <3>1. f \in Games /\ TurnOK(f, late) /\ Keeps(g, f)
      BY <1>1, <2>2, <2>3, ReplyKeeps
    <3> HIDE DEF f
    <3>2. g' = f
      BY <2>2, <2>3 DEF f
    <3> QED BY <1>a, <3>1, <3>2 DEF KeepsGame
  <2>4. ~Override(x)
    BY <1>6 DEF Reply, Override, At_
  <2> QED BY <1>2, <2>1, <2>3, <2>4
<1>7. CASE PlayRound(x)
  <2>1. (g' = g \/ g' = RoundPlayed(g, NoOne)) /\ live' = live
    BY <1>7, PlayRoundSteps DEF Change
  <2>2. ~CutShort(g)
    <3>1. ~Solo
      BY <1>1, <1>7, WhichOp, OfPages DEF PlayRound, At_
    <3> QED BY <3>1 DEF GameOK
  <2>3. ASSUME g' = RoundPlayed(g, NoOne) PROVE KeepsGame(x)
    <3> DEFINE f == RoundPlayed(g, NoOne)
    <3>1. f \in Games /\ TurnOK(f, late) /\ Keeps(g, f)
      BY <1>1, <2>2, <2>3, RoundKeeps
    <3> HIDE DEF f
    <3>2. g' = f
      BY <2>2, <2>3 DEF f
    <3> QED BY <1>a, <3>1, <3>2 DEF KeepsGame
  <2>4. ~Override(x)
    BY <1>7 DEF PlayRound, Override, At_
  <2> QED BY <1>2, <2>1, <2>3, <2>4
<1>8. CASE Advance(x)
  <2>1. (g' = g \/ g' = Advanced(g, NoOne)) /\ live' = live
    BY <1>8 DEF Advance, Change
  <2>2. ASSUME g' = Advanced(g, NoOne) PROVE KeepsGame(x)
    <3> DEFINE f == Advanced(g, NoOne)
    <3>1. f \in Games /\ TurnOK(f, late) /\ Keeps(g, f)
      BY <1>1, <2>2, AdvancedKeeps
    <3> HIDE DEF f
    <3>2. g' = f
      BY <2>2 DEF f
    <3> QED BY <1>a, <3>1, <3>2 DEF KeepsGame
  <2>3. ~Override(x)
    BY <1>8 DEF Advance, Override, At_
  <2> QED BY <1>2, <2>1, <2>2, <2>3
<1>9. CASE TakeOver(x)
  <2>1. \/ g' = g
        \/ CanTakeOver(g, req[x].seat) /\ g' = TakenOver(g, req[x].seat)
    BY <1>9, TakeOverSteps DEF Change
  <2>2. live' = live /\ ~Override(x)
    BY <1>9, TakeOverSteps DEF TakeOver, Override, At_
  <2>3. ASSUME CanTakeOver(g, req[x].seat) /\ g' = TakenOver(g, req[x].seat) PROVE KeepsGame(x)
    <3> DEFINE f == TakenOver(g, req[x].seat)
    <3>1. f \in Games /\ TurnOK(f, late) /\ Keeps(g, f)
      BY <1>1, <2>3, TakenOverKeeps
    <3> HIDE DEF f
    <3>2. g' = f
      BY <2>3 DEF f
    <3> QED BY <1>a, <3>1, <3>2 DEF KeepsGame
  <2> QED BY <1>2, <2>1, <2>2, <2>3
<1>10. CASE Notify(x) \/ Copy(x) \/ Look(x) \/ Mark(x) \/ Read(x)
  <2>1. g' = g /\ live' = live
    BY <1>10 DEF Notify, Copy, Look, Mark, Read, Record, KeepGame
  <2>2. ~Override(x)
    BY <1>10 DEF Notify, Copy, Look, Mark, Read, Override, At_
  <2> QED BY <1>2, <2>1, <2>2
<1>11. CASE Claim(x) \/ Open_(x) \/ Write(x) \/ Line(x) \/ Forget(x)
  <2>1. g' = g /\ live' = live
    BY <1>11 DEF Claim, Open_, Write, Line, Forget, Record, KeepGame
  <2>2. ~Override(x)
    BY <1>11 DEF Claim, Open_, Write, Line, Forget, Override, At_
  <2> QED BY <1>2, <2>1, <2>2
<1>12. CASE Override(x)
  BY <1>12 DEF Override
<1> QED BY <1>3, <1>4, <1>5, <1>6, <1>7, <1>8, <1>9, <1>10, <1>11, <1>12 DEF Handle

\* How the request of a handler's step goes on.
LEMMA HandleGoes ==
  ASSUME RequestsOK, MatchOK, GameOK, NEW x \in Slots, Handle(x)
  PROVE  /\ Framed(x) /\ ~IsIdle(x)
         /\ \/ Ends(x) \/ Steps(x) \/ UNCHANGED <<req, view>>
            \/ Continues(x) /\ Head(req'[x].at) \in {"claim", "open"}
<1>1. ~IsIdle(x) /\ g \in Games
  BY DEF Handle, GameOK
<1>2. CASE Refresh(x)
  BY <1>1, <1>2, RefreshSteps
<1>3. CASE Hold(x)
  BY <1>1, <1>3, HoldSteps
<1>4. CASE Place(x)
  BY <1>1, <1>4, PlaceSteps
<1>5. CASE Reply(x) \/ PlayRound(x)
  BY <1>1, <1>5, ReplySteps, PlayRoundSteps DEF Change, KeepViews
<1>6. CASE Advance(x) \/ Override(x) \/ Notify(x) \/ Open_(x) \/ Remove(x) \/ Mark(x)
  BY <1>1, <1>6, AdvanceSteps, OverrideSteps, NotifySteps, OpenSteps, RemoveSteps, MarkSteps
<1>7. CASE TakeOver(x)
  BY <1>1, <1>7, TakeOverSteps
<1>8. CASE Copy(x)
  <2>1. Head(<<"claim">>) = "claim"
    OBVIOUS
  <2> QED BY <1>1, <1>8, <2>1, CopySteps
<1>9. CASE Claim(x)
  BY <1>1, <1>9, ClaimSteps
<1>10. CASE Write(x)
  BY <1>1, <1>10, WriteSteps
<1>11. CASE Line(x) \/ Forget(x)
  BY <1>1, <1>11, LineSteps, ForgetSteps
<1>12. CASE Look(x)
  BY <1>1, <1>12, LookSteps
<1>13. CASE Read(x)
  BY <1>1, <1>13, ReadSteps
<1> QED BY <1>2, <1>3, <1>4, <1>5, <1>6, <1>7, <1>8, <1>9, <1>10, <1>11, <1>12, <1>13
        DEF Handle

LEMMA NoNewReply ==
  ASSUME RequestsOK, MatchOK, GameOK, NEW x \in Slots, Handle(x), NEW y \in Slots,
         At_(y, "reply")'
  PROVE  At_(y, "reply") \/ (y = x /\ At_(x, "place") /\ Steps(x))
<1>1. /\ Framed(x) /\ ~IsIdle(x)
      /\ \/ Ends(x) \/ Steps(x) \/ UNCHANGED <<req, view>>
         \/ Continues(x) /\ Head(req'[x].at) \in {"claim", "open"}
  BY HandleGoes
<1>2. req'[y].op # "none" /\ Head(req'[y].at) = "reply"
  BY DEF At_, IsIdle
<1>3. CASE y # x
  BY <1>1, <1>2, <1>3 DEF Framed, At_, IsIdle
<1>4. CASE y = x
  <2>1. ~Ends(x)
    BY <1>2, <1>4, IdleIsRequest DEF Ends
  <2>2. CASE Steps(x)
    BY <1>1, <1>2, <1>4, <2>2 DEF Steps, Follows, At_
  <2>3. CASE UNCHANGED <<req, view>>
    BY <1>2, <2>3 DEF At_, IsIdle
  <2> QED BY <1>1, <1>2, <1>4, <2>1, <2>2, <2>3
<1> QED BY <1>3, <1>4

LEMMA TurnLater ==
  ASSUME NEW h, NEW late \in BOOLEAN, NEW later \in BOOLEAN, TurnOK(h, late), late => later
  PROVE  TurnOK(h, later)
BY DEF TurnOK, TurnIsNow, RecordIsClear

\* A request of bot_step or step is the only one.
LEMMA SoloAlone ==
  ASSUME RequestsOK, MatchOK, Solo, NEW c \in Clients, view[c] # "out",
         NEW d \in Clients, d # c
  PROVE  IsIdle(d)
<1>1. view[d] = "out"
  BY DEF MatchOK, PlayersOK
<1> QED BY <1>1, ClientsAreSlots DEF RequestsOK, RequestOK

LEMMA LateIs == Late \in BOOLEAN /\ Late' \in BOOLEAN
BY DEF Late

LEMMA GameStays ==
  ASSUME GameOK, g' \in Games, TurnOK(g', Late), Stale(g') => Stale(g),
         CutShort(g') => CutShort(g), Solo => Solo', Late => Late',
         \A c \in Clients : At_(c, "reply")' => At_(c, "reply") \/ ~Stale(g')
  PROVE  GameOK'
<1>1. TurnOK(g', Late')
  BY LateIs, TurnLater
<1>2. NoReplyToStale'
  BY DEF GameOK, NoReplyToStale
<1> QED BY <1>1, <1>2 DEF GameOK

LEMMA HandleKeepsGame ==
  ASSUME RequestsOK, MatchOK, GameOK, NEW x \in Slots, Handle(x)
  PROVE  GameOK'
<1>1. Framed(x) /\ ~IsIdle(x)
  BY HandleGoes
<1>2. (Solo <=> Solo') /\ (Late <=> Late')
  BY <1>1 DEF Framed, matchVars, Solo, At, Late
<1>a. Late \in BOOLEAN
  BY LateIs
<1>3. CASE KeepsGame(x) /\ ~Places(x)
  <2>1. \A c \in Clients : At_(c, "reply")' => At_(c, "reply") \/ ~Stale(g')
    <3> SUFFICES ASSUME NEW c \in Clients, At_(c, "reply")', ~At_(c, "reply")
                 PROVE  FALSE
      OBVIOUS
    <3>1. c = x /\ At_(x, "place") /\ Steps(x)
      BY NoNewReply, ClientsAreSlots
    <3>2. Place(x)
      BY <3>1 DEF Handle, At_, Refresh, Hold, Place, Reply, PlayRound, Advance, Override, TakeOver,
         Notify, Copy, Claim, Open_, Write, Line, Remove, Forget, Look, Mark, Read
    <3>3. \/ Places(x)
          \/ Ends(x)
      BY <3>1, <3>2, PlaceSteps DEF Places
    <3>4. ~Ends(x)
      BY <1>1, <3>1, IdleIsRequest DEF Ends, Steps, Continues, IsIdle
    <3> QED BY <1>3, <3>3, <3>4
  <2> QED BY <1>2, <1>3, <2>1, GameStays DEF KeepsGame, Keeps
<1>4. CASE Places(x)
  <2> DEFINE by == req[x].by
             f == HumanPlaced(g, by)
  <2>1. by \in Clients /\ g \in Games /\ TurnOK(g, Late) /\ CanPlace(g) /\ g' = f
    BY <1>1, <1>4, Asking DEF Places, Change, GameOK
  <2>2. f \in Games /\ TurnOK(f, Late) /\ f.turn = EmptyTurn /\ (CutShort(f) => CutShort(g))
    BY <1>a, <2>1, HumanPlacedIs
  <2> HIDE DEF f
  <2>3. ~Stale(g')
    BY <2>1, <2>2 DEF Stale
  <2> QED BY <1>2, <2>1, <2>2, <2>3, GameStays
<1>5. CASE Override(x)
  <2>1. Steps(x) /\ req[x].op = "bot_step" /\ Head(req[x].at) = "override"
    BY <1>5, OverrideSteps, WhichOp DEF Override, At_
  <2>2. x \in Clients /\ view[x] # "out" /\ Solo
    BY <1>1, <2>1, OfPages
  <2>3. g \in Games /\ TurnOK(g, Late)
    BY DEF GameOK
  <2>4. g' = g \/ g' = Overridden(g, NoOne)
    BY <1>5 DEF Override, Change
  <2>5. g' \in Games /\ TurnOK(g', Late)
    <3> DEFINE f == Overridden(g, NoOne)
    <3>1. f \in Games /\ TurnOK(f, Late)
      BY <1>a, <2>3, OverriddenIs
    <3> HIDE DEF f
    <3>2. g' = g \/ g' = f
      BY <2>4 DEF f
    <3> QED BY <2>3, <3>1, <3>2
  <2>6. \A c \in Clients : ~(At_(c, "reply")')
    <3> SUFFICES ASSUME NEW c \in Clients, At_(c, "reply")' PROVE FALSE
      OBVIOUS
    <3>1. At_(c, "reply")
      BY <2>1, NoNewReply, ClientsAreSlots DEF At_
    <3>2. c = x
      BY <2>2, <3>1, SoloAlone DEF At_
    <3> QED BY <2>1, <3>1, <3>2 DEF At_
  <2>7. TurnOK(g', Late')
    BY <1>2, <2>5, LateIs, TurnLater
  <2> QED BY <1>2, <2>2, <2>5, <2>6, <2>7 DEF GameOK, NoReplyToStale
<1>6. CASE Remove(x)
  <2>1. g' = NoGame /\ Steps(x) /\ Head(req[x].at) = "remove"
    BY <1>6, RemoveSteps DEF Remove, At_
  <2>2. /\ NoGame \in Games /\ TurnOK(NoGame, Late) /\ ~CutShort(NoGame) /\ ~Stale(NoGame)
    <3>1. {} \in SUBSET Seats
      OBVIOUS
    <3> QED BY <1>a, <3>1, NewGameIs DEF NoGame
  <2> QED BY <1>2, <2>1, <2>2, GameStays
<1> QED BY <1>3, <1>4, <1>5, <1>6, SessionMoves DEF KeepsGame, Places

\* Who has the two seats of a shared game.
LEMMA TeamStays ==
  ASSUME TeamOK, live' => live /\ Later(g, g'), UNCHANGED <<resolved, page>>
  PROVE  TeamOK'
<1> SUFFICES ASSUME live', ~(Solo') PROVE \E a, b \in Seats : TeamIs(a, b)'
  BY DEF TeamOK
<1>1. ~Solo /\ live /\ Later(g, g')
  BY DEF Solo, At
<1>2. PICK a \in Seats, b \in Seats : TeamIs(a, b)
  BY <1>1 DEF TeamOK
<1>3. TeamIs(a, b)'
  BY <1>1, <1>2 DEF TeamIs, Later, At, Seat
<1> QED BY <1>3

\* A handler keeps what the session must keep, if the session goes on.
LEMMA HandleIsLater ==
  ASSUME RequestsOK, MatchOK, GameOK, NEW x \in Slots, Handle(x)
  PROVE  live' => live /\ Later(g, g')
<1>1. ~IsIdle(x) /\ g \in Games /\ TurnOK(g, Late) /\ Late \in BOOLEAN /\ Later(g, g)
  BY LateIs, SameKeeps DEF Handle, GameOK, Keeps
<1>2. CASE live' = live /\ KeepsGame(x)
  <2>1. Later(g, g')
    BY <1>2 DEF KeepsGame, Keeps
  <2> QED BY <1>2, <2>1
<1>3. CASE live' = live /\ Places(x)
  <2> DEFINE f == HumanPlaced(g, req[x].by)
  <2>1. req[x].by \in Clients /\ CanPlace(g) /\ g' = f
    BY <1>1, <1>3, Asking DEF Places, Change
  <2>2. Later(g, f)
    BY <1>1, <2>1, HumanPlacedIs
  <2> HIDE DEF f
  <2> QED BY <1>3, <2>1, <2>2
<1>4. CASE live' = live /\ Override(x)
  <2> DEFINE f == Overridden(g, NoOne)
  <2>1. Later(g, f)
    BY <1>1, OverriddenIs
  <2>2. g' = g \/ g' = f
    BY <1>4 DEF Override, Change
  <2> HIDE DEF f
  <2> QED BY <1>1, <1>4, <2>1, <2>2
<1>5. CASE Remove(x)
  BY <1>5 DEF Remove
<1> QED BY <1>2, <1>3, <1>4, <1>5, SessionMoves

-----------------------------------------------------------------------------
(* Whose sheet.                                                             *)

LEMMA ApartStays ==
  ASSUME SheetsStayApart, g.takenOver \subseteq g'.takenOver, UNCHANGED page,
         faults \subseteq faults',
         \A i \in DOMAIN g'.history :
           \/ i \in DOMAIN g.history /\ g'.history[i] = g.history[i]
           \/ g'.history[i].by = NoOne
           \/ /\ Shares(g'.history[i].by)
              /\ g'.history[i].seat # Seat(g'.history[i].by)
              => Late \/ Seat(g'.history[i].by) \in g'.takenOver
  PROVE  SheetsStayApart'
<1> DEFINE Apart(i) ==
      LET e == g'.history[i]
      IN e.by \in Clients /\ page'[e.by].seat # NoSeat /\ e.seat # page'[e.by].seat =>
           "gave up" \in faults' \/ page'[e.by].seat \in g'.takenOver
<1>1. ASSUME NEW i \in DOMAIN g'.history PROVE Apart(i)
  <2> DEFINE e == g'.history[i]
  <2>1. e.by \in Clients => e.by # NoOne
    BY Constants
  <2>2. CASE i \in DOMAIN g.history /\ g'.history[i] = g.history[i]
    BY <2>2 DEF SheetsStayApart, Seat, Shares
  <2>3. CASE /\ Shares(e.by) /\ e.seat # Seat(e.by)
             => Late \/ Seat(e.by) \in g'.takenOver
    BY <2>3 DEF Late, Seat, Shares
  <2> QED BY <2>1, <2>2, <2>3
<1>2. SheetsStayApart' <=> \A i \in DOMAIN g'.history : Apart(i)
  BY DEF SheetsStayApart, Seat, Shares
<1> QED BY <1>1, <1>2

LEMMA MadeStays ==
  ASSUME MadeByPlayers, Solo => Solo', \A c \in Clients : At(c, "playing") => At(c, "playing")',
         ~Solo => \A i \in DOMAIN g'.history :
           \/ i \in DOMAIN g.history /\ g'.history[i] = g.history[i]
           \/ g'.history[i].by = NoOne
           \/ At(g'.history[i].by, "playing"),
         ~Solo /\ ~(IsIdle(Loose)') =>
           /\ req'[Loose].by \in Clients
           /\ At(req'[Loose].by, "playing") \/ (~IsIdle(Loose) /\ req'[Loose].by = req[Loose].by)
  PROVE  MadeByPlayers'
<1> SUFFICES ASSUME ~(Solo')
             PROVE  /\ \A i \in DOMAIN g'.history :
                         g'.history[i].by \in Clients => page'[g'.history[i].by].at = "playing"
                    /\ ~(IsIdle(Loose)') => page'[req'[Loose].by].at = "playing"
  BY DEF MadeByPlayers, At
<1>a. ~Solo /\ \A c \in Clients : page[c].at = "playing" => page'[c].at = "playing"
  BY DEF At
<1>1. \A i \in DOMAIN g.history :
         g.history[i].by \in Clients => page[g.history[i].by].at = "playing"
  BY <1>a DEF MadeByPlayers, At
<1>2. ASSUME NEW i \in DOMAIN g'.history, g'.history[i].by \in Clients
      PROVE  page'[g'.history[i].by].at = "playing"
  <2>1. g'.history[i].by # NoOne
    BY <1>2, Constants
  <2>2. page[g'.history[i].by].at = "playing"
    BY <1>a, <1>1, <1>2, <2>1 DEF At
  <2> QED BY <1>a, <1>2, <2>2
<1>3. ~(IsIdle(Loose)') => page'[req'[Loose].by].at = "playing"
  BY <1>a DEF MadeByPlayers, At
<1> QED BY <1>2, <1>3

\* Who may still write keeps the move while the session only goes on.
LEMMA MoveStays ==
  ASSUME NEW c \in Clients, HasTheMove(c), Keeps(g, g'), UNCHANGED page, Late => Late'
  PROVE  HasTheMove(c)'
<1>1. Seat(c)' = Seat(c)
  BY DEF Seat
<1>2. Later(g, g') /\ (g.waiting => (g'.waiting /\ g'.cur = g.cur) \/ g.cur \in g'.takenOver)
  BY DEF Keeps
<1> QED BY <1>1, <1>2 DEF HasTheMove, Later

LEMMA SeenMine ==
  ASSUME NEW c \in Clients, MatchOK, Shares(c), Seen(g, Seat(c)) = "mine"
  PROVE  HasTheMove(c)
<1>1. g.waiting /\ Seat(c) \in {g.cur, NoSeat} /\ ~g.over
  BY SeenIsView
<1> QED BY <1>1 DEF HasTheMove, Shares

\* A page that is told that it has the move, has it.
LEMMA ToldMine ==
  ASSUME RequestsOK, MatchOK, GameOK, SheetsOK, NEW x \in Clients, Handle(x), live, live',
         Ends(x), Shares(x), view'[x] = "mine"
  PROVE  HasTheMove(x)
<1>1. /\ x \in Slots /\ ~IsIdle(x) /\ req[x].op \in Ops /\ g \in Games
      /\ req[x].by = x /\ view[x] # "out"
  BY ClientsAreSlots, Asking, OfPages DEF Handle, GameOK
<1>2. view[x] = "mine" /\ Unwritten(x) => HasTheMove(x)
  BY DEF SheetsOK
<1>3. ~Steps(x) /\ ~UNCHANGED req /\ ~Continues(x)
  BY <1>1, IdleIsRequest DEF Ends, Steps, Continues, IsIdle
<1>4. ASSUME Refuse(x), Unwritten(x) PROVE HasTheMove(x)
  <2>1. view'[x] = AfterError(x, req[x].op)
    BY <1>1, <1>4, Refused
  <2>2. "over" \in Views \ {"out"}
    BY DEF Views
  <2> QED BY <1>1, <1>2, <1>4, <2>1, <2>2, AnswersAreViews
<1>5. ASSUME NEW saw \in Views \ {"out"}, Answer(x, saw), saw # "mine" PROVE HasTheMove(x)
  <2>1. view'[x] = AfterAnswer(x, req[x].op, saw)
    BY <1>1, <1>5, Answered
  <2>2. view[x] = "mine" /\ req[x].op \in {"flag", "takeover"}
    BY <1>1, <1>5, <2>1, AnswersAreViews
  <2> QED BY <1>2, <2>2 DEF Unwritten
<1>6. CASE Refresh(x) \/ Reply(x) \/ PlayRound(x) \/ Advance(x) \/ Override(x)
           \/ Notify(x) \/ Open_(x) \/ Remove(x) \/ Mark(x)
  BY <1>1, <1>3, <1>6, RefreshSteps, ReplySteps, PlayRoundSteps, AdvanceSteps, OverrideSteps,
     NotifySteps, OpenSteps, RemoveSteps, MarkSteps
<1>7. CASE Hold(x)
  BY <1>1, <1>3, <1>4, <1>7, HoldSteps, WhichOp DEF Unwritten, Hold, At_
<1>8. CASE Place(x)
  BY <1>1, <1>3, <1>4, <1>8, PlaceSteps DEF Unwritten, Place, At_, AtOneOf
<1>9. CASE TakeOver(x)
  BY <1>1, <1>3, <1>4, <1>9, TakeOverSteps, WhichOp DEF Unwritten, TakeOver, At_
<1>10. CASE Copy(x)
  <2>1. Answer(x, Seen(g, Seat(x)))
    BY <1>1, <1>3, <1>10, CopySteps
  <2>2. Seen(g, Seat(x)) \in Views \ {"out"}
    BY SeenIsView
  <2> QED BY <1>5, <2>1, <2>2, SeenMine
<1>11. CASE Claim(x) \/ Line(x) \/ Write(x) \/ Read(x)
  <2>1. Answer(x, "over")
    BY <1>1, <1>3, <1>11, ClaimSteps, LineSteps, WriteSteps, ReadSteps
  <2>2. "over" \in Views \ {"out"}
    BY DEF Views
  <2> QED BY <1>5, <2>1, <2>2
<1>12. CASE Forget(x)
  BY <1>1, <1>12, ForgetSteps, OfPages, SoloOrShared
<1>13. CASE Look(x)
  BY <1>1, <1>3, <1>4, <1>13, LookSteps, WhichOp DEF Unwritten, Look, At_
<1> QED BY <1>6, <1>7, <1>8, <1>9, <1>10, <1>11, <1>12, <1>13 DEF Handle

\* While a request goes on its page may write as long as it could before.
LEMMA StillUnwritten ==
  ASSUME RequestsOK, MatchOK, GameOK, SheetsOK, NEW x \in Slots, Handle(x), live, live',
         NEW c \in Clients, Shares(c), view'[c] = "mine", Unwritten(c)'
  PROVE  HasTheMove(c)
<1>1. /\ Framed(x) /\ ~IsIdle(x) /\ c \in Slots
      /\ \/ Ends(x) \/ Steps(x) \/ UNCHANGED <<req, view>>
         \/ Continues(x) /\ Head(req'[x].at) \in {"claim", "open"}
  BY HandleGoes, ClientsAreSlots
<1>2. view[c] = "mine" /\ Unwritten(c) => HasTheMove(c)
  BY DEF SheetsOK
<1>3. CASE c # x
  <2>1. view'[c] = view[c] /\ req'[c] = req[c]
    BY <1>1, <1>3 DEF Framed
  <2> QED BY <1>2, <2>1 DEF Unwritten, AtOneOf, IsIdle
<1>4. CASE c = x /\ Ends(x)
  BY <1>4, ToldMine
<1>5. CASE c = x /\ Steps(x)
  <2>1. view[c] = "mine" /\ req'[c].op = req[c].op
        /\ Follows(req[c].op, Head(req[c].at), Head(req'[c].at))
    BY <1>5 DEF Steps, Continues
  <2>2. Unwritten(c)
    <3> SUFFICES ASSUME req[c].op = "place" PROVE AtOneOf(c, {"refresh", "place"})
      BY DEF Unwritten
    <3>1. Head(req'[c].at) \in {"refresh", "place"}
      BY <2>1 DEF Unwritten, AtOneOf
    <3>2. Head(req[c].at) = "refresh"
      BY <2>1, <3>1 DEF Follows, Recording
    <3> QED BY <3>2 DEF AtOneOf, IsIdle
  <2> QED BY <1>2, <2>1, <2>2
<1>6. CASE c = x /\ UNCHANGED <<req, view>>
  BY <1>2, <1>6 DEF Unwritten, AtOneOf, IsIdle
<1>7. CASE c = x /\ Continues(x) /\ Head(req'[x].at) \in {"claim", "open"}
  <2>1. view[c] = "mine" /\ req'[c].op = req[c].op
    BY <1>7 DEF Continues
  <2>2. req[c].op # "place"
    BY <1>7, <2>1 DEF Unwritten, AtOneOf
  <2> QED BY <1>2, <2>1, <2>2 DEF Unwritten
<1> QED BY <1>1, <1>3, <1>4, <1>5, <1>6, <1>7

\* A placement is on the sheet of its page, or of one that was replaced.
LEMMA PlacesOnOwn ==
  ASSUME RequestsOK, MatchOK, GameOK, SheetsOK, NEW x \in Slots, Places(x)
  PROVE  LET c == req[x].by
         IN Shares(c) /\ g.cur # Seat(c) => Late \/ (x = c /\ Seat(c) \in g.takenOver)
<1> DEFINE c == req[x].by
<1>1. ~IsIdle(x) /\ live /\ ~g.over /\ g.waiting /\ Head(req[x].at) = "place"
      /\ req[x].op = "place"
  BY WhichOp DEF Places, At_, CanPlace
<1>2. CASE x \in Clients
  <2>1. c = x /\ view[x] = "mine"
    BY <1>1, <1>2, ClientsAreSlots DEF RequestsOK, RequestOK
  <2>2. Unwritten(x)
    BY <1>1 DEF Unwritten, AtOneOf
  <2>3. Shares(x) => HasTheMove(x)
    BY <1>1, <1>2, <2>1, <2>2 DEF SheetsOK
  <2>4. g.cur \in g.human
    BY <1>1 DEF GameOK, TurnOK, MoverIsHuman
  <2> QED BY <1>1, <2>1, <2>3, <2>4 DEF HasTheMove
<1>3. CASE x = Loose
  BY <1>1, <1>3 DEF RequestsOK, RequestOK, Late
<1> QED BY <1>2, <1>3, ClientsAreSlots

\* After it the others have the move as before.
LEMMA PlacesKeepsMoves ==
  ASSUME RequestsOK, MatchOK, GameOK, TeamOK, SheetsOK, NEW x \in Slots, Places(x),
         UNCHANGED <<page, faults>>,
         NEW c \in Clients, c # x, Shares(c), HasTheMove(c)
  PROVE  HasTheMove(c)'
<1> DEFINE by == req[x].by
           f == HumanPlaced(g, by)
<1>1. ~IsIdle(x) /\ live /\ g' = f /\ g \in Games /\ TurnOK(g, Late) /\ CanPlace(g)
      /\ by \in Clients
  BY Asking DEF Places, At_, Change, GameOK
<1>2. Later(g, f) /\ f.human = g.human /\ f.takenOver = g.takenOver
  BY <1>1, LateIs, HumanPlacedIs
<1> HIDE DEF f
<1>3. Seat(c)' = Seat(c) /\ (Late' <=> Late)
  BY DEF Seat, Late
<1>4. CASE Late \/ Seat(c) \in g.takenOver \/ g.over \/ g.human \subseteq {Seat(c)}
  BY <1>1, <1>2, <1>3, <1>4 DEF HasTheMove, Later
<1>5. CASE ~Late /\ g.waiting /\ g.cur = Seat(c)
  <2>1. x \in Clients /\ by = x /\ view[x] # "out"
    BY <1>1, <1>5, OfPages, ClientsAreSlots DEF RequestsOK, RequestOK, Late
  <2>2. ~Solo
    BY SoloOrShared
  <2>3. Shares(x) /\ At(x, "playing") /\ At(c, "playing")
    BY <2>1, <2>2, SoloOrShared
  <2>4. Seat(x) # Seat(c)
    BY <2>1, <2>3 DEF MatchOK, SeatsOK
  <2>5. Seat(x) \in g.takenOver
    BY <1>5, <2>1, <2>3, <2>4, PlacesOnOwn
  <2>6. PICK a \in Seats, b \in Seats : TeamIs(a, b)
    BY <1>1, <2>2 DEF TeamOK
  <2>7. g.human \subseteq {Seat(c)}
    BY <2>1, <2>3, <2>4, <2>5, <2>6 DEF TeamIs
  <2> QED BY <1>4, <2>7
<1> QED BY <1>4, <1>5 DEF HasTheMove

LEMMA HandleKeepsSheets ==
  ASSUME RequestsOK, MatchOK, GameOK, TeamOK, SheetsOK, NEW x \in Slots, Handle(x)
  PROVE  SheetsOK'
<1>1. /\ Framed(x) /\ ~IsIdle(x)
      /\ Ends(x) \/ Continues(x)
      /\ UNCHANGED <<page, faults>> /\ (Solo' <=> Solo)
  <2>1. UNCHANGED <<page, faults, resolved>> 
    BY HandleGoes DEF Framed, matchVars
  <2> QED BY <2>1, HandleFrames, HandleGoes DEF GameOK, Solo, At
<1>2. g \in Games /\ TurnOK(g, Late) /\ SheetsStayApart /\ MadeByPlayers
  BY DEF GameOK, SheetsOK
<1>3. ~Solo /\ ~(IsIdle(Loose)') =>
        /\ req'[Loose].by \in Clients
        /\ ~IsIdle(Loose) /\ req'[Loose].by = req[Loose].by
  <2> SUFFICES ASSUME ~(IsIdle(Loose)')
               PROVE  /\ req'[Loose].by \in Clients
                      /\ ~IsIdle(Loose) /\ req'[Loose].by = req[Loose].by
    OBVIOUS
  <2>1. Loose \in Slots /\ (~IsIdle(Loose) => req[Loose].by \in Clients)
    BY ClientsAreSlots, Asking
  <2>2. CASE x # Loose
    BY <1>1, <2>1, <2>2 DEF Framed, IsIdle
  <2>3. CASE x = Loose
    BY <1>1, <2>1, <2>3, IdleIsRequest DEF Ends, Continues, IsIdle
  <2> QED BY <2>2, <2>3
<1>4. \A c \in Clients : At(c, "playing") => At(c, "playing")'
  BY <1>1 DEF At
<1>5. CASE live' = live /\ (KeepsGame(x) \/ Override(x))
  <2>1. /\ Later(g, g')
        /\ \A i \in DOMAIN g'.history :
             \/ i \in DOMAIN g.history /\ g'.history[i] = g.history[i]
             \/ g'.history[i].by = NoOne
    <3>1. CASE KeepsGame(x)
      BY <3>1 DEF KeepsGame, Keeps
    <3>2. CASE Override(x)
      <4> DEFINE f == Overridden(g, NoOne)
      <4>1. /\ Later(g, f)
            /\ \A i \in DOMAIN f.history :
                 \/ i \in DOMAIN g.history /\ f.history[i] = g.history[i]
                 \/ f.history[i].by = NoOne
        BY <1>2, LateIs, OverriddenIs
      <4>2. g' = g \/ g' = f
        BY <3>2 DEF Override, Change
      <4> HIDE DEF f
      <4>3. CASE g' = g
        BY <1>2, <4>3, SameKeeps DEF Keeps
      <4> QED BY <4>1, <4>2, <4>3
    <3> QED BY <1>5, <3>1, <3>2
  <2>2. SheetsStayApart'
    BY <1>1, <1>2, <2>1, ApartStays DEF Later
  <2>3. MadeByPlayers'
    BY <1>1, <1>2, <1>3, <1>4, <2>1, MadeStays
  <2>4. ASSUME live', NEW c \in Clients, Shares(c)', view'[c] = "mine", Unwritten(c)'
        PROVE  HasTheMove(c)'
    <3>1. Shares(c) /\ ~Solo
      BY <1>1, <2>4, SoloOrShared DEF Shares, Seat
    <3>2. HasTheMove(c)
      BY <1>5, <2>4, <3>1, StillUnwritten
    <3>3. ~Override(x)
      BY <1>1, <3>1, WhichOp, OfPages DEF Override, At_
    <3> QED BY <1>1, <1>5, <3>2, <3>3, MoveStays DEF KeepsGame, Late
  <2> QED BY <2>2, <2>3, <2>4 DEF SheetsOK
<1>6. CASE live' = live /\ Places(x)
  <2> DEFINE by == req[x].by
             f == HumanPlaced(g, by)
  <2>1. by \in Clients /\ CanPlace(g) /\ g' = f /\ live
    BY <1>1, <1>6, Asking DEF Places, Change
  <2>2. /\ f.takenOver = g.takenOver
        /\ \A i \in DOMAIN f.history :
                 \/ i \in DOMAIN g.history /\ f.history[i] = g.history[i]
                 \/ f.history[i].by = by /\ f.history[i].seat = g.cur
    BY <1>2, <2>1, LateIs, HumanPlacedIs
  <2> HIDE DEF f
  <2>3. Shares(by) /\ g.cur # Seat(by) => Late \/ Seat(by) \in g.takenOver
    BY <1>6, PlacesOnOwn
  <2>4. ~Solo => At(by, "playing")
    <3>1. CASE x \in Clients
      BY <1>1, <3>1, OfPages, SoloOrShared
    <3>2. CASE x = Loose
      BY <1>1, <1>2, <3>2 DEF MadeByPlayers
    <3> QED BY <3>1, <3>2, ClientsAreSlots
  <2> HIDE DEF by
  <2>5. SheetsStayApart'
    BY <1>1, <1>2, <2>1, <2>2, <2>3, ApartStays
  <2>6. MadeByPlayers'
    BY <1>1, <1>2, <1>3, <1>4, <2>1, <2>2, <2>4, MadeStays
  <2>7. ASSUME live', NEW c \in Clients, Shares(c)', view'[c] = "mine", Unwritten(c)'
        PROVE  HasTheMove(c)'
    <3>1. Shares(c)
      BY <1>1, <2>7 DEF Shares, Seat
    <3>2. HasTheMove(c)
      BY <2>1, <2>7, <3>1, StillUnwritten
    <3>3. c # x
      <4> SUFFICES ASSUME c = x PROVE FALSE
        OBVIOUS
      <4>1. req'[c].op = "place" /\ Head(req'[c].at) = "reply"
        BY <1>1, <1>6, WhichOp DEF Places, At_, Steps, Continues, Follows, Recording
      <4> QED BY <2>7, <4>1 DEF Unwritten, AtOneOf
    <3> QED BY <1>1, <1>6, <3>1, <3>2, <3>3, PlacesKeepsMoves
  <2> QED BY <2>5, <2>6, <2>7 DEF SheetsOK
<1>7. CASE Remove(x)
  <2>1. g' = NoGame /\ live' = FALSE
    BY <1>7 DEF Remove
  <2>2. NoGame.history = <<>>
    <3>1. {} \in SUBSET Seats
      OBVIOUS
    <3> QED BY <3>1, LateIs, NewGameIs DEF NoGame
  <2>3. DOMAIN g'.history = {}
    BY <2>1, <2>2
  <2>4. SheetsStayApart'
    BY <2>3 DEF SheetsStayApart
  <2>5. MadeByPlayers'
    BY <1>1, <1>2, <1>3, <1>4, <2>3, MadeStays
  <2> QED BY <2>1, <2>4, <2>5 DEF SheetsOK
<1> QED BY <1>5, <1>6, <1>7, SessionMoves

-----------------------------------------------------------------------------
(* The watchers.                                                            *)

LEMMA ChangeWakes ==
  ASSUME NoticesOK, NEW h, NEW bump \in BOOLEAN, Change(h, bump), UNCHANGED page,
         bump \/ \E y \in Slots : Waking(y)'
  PROVE  NoticesOK'
<1>1. /\ missed' \in {Watchers, missed}
      /\ behind' = IF bump THEN Watchers ELSE behind
      /\ UNCHANGED view
  BY DEF Change
<1>2. Watchers' = Watchers
  BY <1>1 DEF Watchers, Shares, Seat
<1>3. missed \subseteq Watchers
  BY DEF NoticesOK
<1> QED BY <1>1, <1>2, <1>3 DEF NoticesOK

LEMMA ViewsWake ==
  ASSUME NoticesOK, KeepViews \/ (\E v : SetViews(v)), UNCHANGED page, live' => live,
         (\E y \in Slots : Waking(y)) => \E y \in Slots : Waking(y)'
  PROVE  NoticesOK'
<1>1. missed \subseteq Watchers
  BY DEF NoticesOK
<1>2. /\ missed' \subseteq Watchers'
      /\ missed \subseteq behind => missed' \subseteq behind'
  <2>1. CASE KeepViews
    <3>1. UNCHANGED <<view, behind, missed>>
      BY <2>1 DEF KeepViews
    <3> QED BY <1>1, <3>1 DEF Watchers, Shares, Seat
  <2>2. CASE \E v : SetViews(v)
    BY <1>1, <2>2, ViewsSet
  <2> QED BY <2>1, <2>2
<1> QED BY <1>2 DEF NoticesOK

\* An answer wakes nobody, and who gets one was not about to.
LEMMA AnswerWakes ==
  ASSUME NoticesOK, NEW x \in Slots, NEW to, Close(x, to), UNCHANGED page, live' => live,
         \A y \in Slots : y # x => req'[y] = req[y], ~Waking(x)
  PROVE  NoticesOK'
<1>1. KeepViews \/ (\E v : SetViews(v))
  BY DEF Close
<1>2. (\E y \in Slots : Waking(y)) => \E y \in Slots : Waking(y)'
  BY DEF Waking, AtOneOf, At_, IsIdle
<1> QED BY <1>1, <1>2, ViewsWake

\* Who was about to wake still is, or has woken the watchers.
LEMMA StepWakes ==
  ASSUME NoticesOK, NEW x \in Slots, KeepViews, UNCHANGED page, live' => live,
         \A y \in Slots : y # x => req'[y] = req[y], Waking(x) => Waking(x)'
  PROVE  NoticesOK'
<1>2. (\E y \in Slots : Waking(y)) => \E y \in Slots : Waking(y)'
  BY DEF Waking, AtOneOf, At_, IsIdle
<1> QED BY <1>2, ViewsWake

LEMMA HandleKeepsNotices ==
  ASSUME RequestsOK, MatchOK, GameOK, NoticesOK, NEW x \in Slots, Handle(x)
  PROVE  NoticesOK'
<1>1. /\ Framed(x) /\ ~IsIdle(x) /\ UNCHANGED page /\ req[x].op \in Ops /\ g \in Games
      /\ \A y \in Slots : y # x => req'[y] = req[y]
  BY HandleGoes, Asking DEF Framed, matchVars, GameOK
<1>2. live' => live
  BY HandleIsLater
<1>3. ASSUME Refuse(x), ~Waking(x) PROVE NoticesOK'
  BY <1>1, <1>2, <1>3, AnswerWakes DEF Refuse
<1>4. ASSUME NEW saw, Answer(x, saw), ~Waking(x) PROVE NoticesOK'
  BY <1>1, <1>2, <1>4, AnswerWakes DEF Answer
<1>5. ASSUME Steps(x), Head(req'[x].at) \in {"reply", "play", "notify"}
      PROVE  Waking(x)'
  <2>1. req'[x].op = req[x].op /\ req[x].op # "none"
    BY <1>1, <1>5 DEF Steps, Continues, IsIdle
  <2> QED BY <1>5, <2>1 DEF Waking, AtOneOf, IsIdle
<1>6. ASSUME Waking(x), UNCHANGED req PROVE Waking(x)'
  BY <1>6 DEF Waking, AtOneOf, At_, IsIdle
<1>7. CASE Refresh(x)
  <2>1. Framed(x) /\ Steps(x) /\ Head(req[x].at) = "refresh"
    BY <1>7, RefreshSteps DEF Refresh, At_
  <2>2. CASE Change(Refreshed(g), TRUE)
    BY <1>1, <2>2, ChangeWakes
  <2>3. CASE KeepViews
    <3>1. ASSUME Waking(x) PROVE Waking(x)'
      <4>1. req[x].op = "takeover"
        BY <2>1, <3>1 DEF Waking, AtOneOf
      <4>2. Head(req'[x].at) = "notify"
        BY <2>1, <4>1 DEF Steps, Follows, Recording
      <4> QED BY <1>5, <2>1, <4>2
    <3> QED BY <1>1, <1>2, <2>3, <3>1, StepWakes
  <2> QED BY <1>7, <2>2, <2>3 DEF Refresh
<1>8. CASE Hold(x)
  <2>1. Head(req[x].at) = "hold" /\ req[x].op = "hold"
    BY <1>1, <1>8, WhichOp DEF Hold, At_
  <2>2. CASE Change(Held(g), FALSE) /\ Steps(x)
    <3>1. Waking(x)'
      BY <1>5, <2>1, <2>2 DEF Steps, Follows, Recording
    <3> QED BY <1>1, <2>2, <3>1, ChangeWakes
  <2>3. CASE Refuse(x)
    BY <1>3, <2>1, <2>3 DEF Waking, AtOneOf, At_
  <2> QED BY <1>8, <2>2, <2>3, HoldSteps
<1>9. CASE Place(x)
  <2>1. Head(req[x].at) = "place" /\ req[x].op = "place"
    BY <1>1, <1>9, WhichOp DEF Place, At_
  <2>2. CASE Change(HumanPlaced(g, req[x].by), FALSE) /\ Steps(x)
    <3>1. Waking(x)'
      BY <1>5, <2>1, <2>2 DEF Steps, Follows, Recording
    <3> QED BY <1>1, <2>2, <3>1, ChangeWakes
  <2>3. CASE Refuse(x)
    BY <1>3, <2>1, <2>3 DEF Waking, AtOneOf, At_
  <2> QED BY <1>9, <2>2, <2>3, PlaceSteps
<1>10. CASE Reply(x) \/ PlayRound(x)
  <2>1. \/ Head(req[x].at) = "reply" /\ req[x].op = "place"
        \/ Head(req[x].at) = "play" /\ req[x].op = "play_all"
    BY <1>1, <1>10, WhichOp DEF Reply, PlayRound, At_
  <2>2. Waking(x)
    BY <1>1, <2>1 DEF Waking, AtOneOf
  <2>3. Steps(x) \/ UNCHANGED req
    BY <1>10, ReplySteps, PlayRoundSteps
  <2>4. Waking(x)'
    <3>1. CASE Steps(x)
      BY <1>5, <2>1, <3>1 DEF Steps, Follows, Recording
    <3> QED BY <1>6, <2>2, <2>3, <3>1
  <2>5. KeepViews \/ (\E h : Change(h, FALSE))
    BY <1>10, ReplySteps, PlayRoundSteps
  <2>6. CASE KeepViews
    BY <1>1, <1>2, <2>4, <2>6, StepWakes
  <2>7. CASE \E h : Change(h, FALSE)
    BY <1>1, <2>4, <2>7, ChangeWakes
  <2> QED BY <2>5, <2>6, <2>7
<1>11. CASE Advance(x) \/ Override(x)
  <2>1. \/ Head(req[x].at) = "advance" /\ req[x].op = "step"
        \/ Head(req[x].at) = "override" /\ req[x].op = "bot_step"
    BY <1>1, <1>11, WhichOp DEF Advance, Override, At_
  <2>2. Steps(x)
    BY <1>11, AdvanceSteps, OverrideSteps
  <2>3. Waking(x)'
    BY <1>5, <2>1, <2>2 DEF Steps, Follows, Recording
  <2>4. CASE KeepViews
    BY <1>1, <1>2, <2>3, <2>4, StepWakes
  <2>5. CASE \E h : Change(h, FALSE)
    BY <1>1, <2>3, <2>5, ChangeWakes
  <2> QED BY <1>11, <2>4, <2>5 DEF Advance, Override
<1>12. CASE TakeOver(x)
  <2>1. Head(req[x].at) = "takeover" /\ req[x].op = "takeover"
    BY <1>1, <1>12, WhichOp DEF TakeOver, At_
  <2>2. CASE Change(TakenOver(g, req[x].seat), FALSE) /\ Steps(x)
    <3>1. req'[x].op = "takeover" /\ Head(req'[x].at) = "refresh"
      BY <2>1, <2>2 DEF Steps, Continues, Follows, Recording
    <3>2. Waking(x)'
      BY <3>1 DEF Waking, At_, IsIdle
    <3> QED BY <1>1, <2>2, <3>2, ChangeWakes
  <2>3. CASE Refuse(x)
    BY <1>3, <2>1, <2>3 DEF Waking, AtOneOf, At_
  <2> QED BY <1>12, <2>2, <2>3, TakeOverSteps
<1>13. CASE Notify(x)
  <2>1. /\ behind' = IF live THEN Watchers ELSE behind
        /\ UNCHANGED <<live, missed, view>>
    BY <1>13 DEF Notify
  <2>2. Watchers' = Watchers
    BY <1>1, <2>1 DEF Watchers, Shares, Seat
  <2> QED BY <2>1, <2>2 DEF NoticesOK
<1>14. CASE Copy(x)
  <2>1. ~Waking(x)
    BY <1>14 DEF Copy, Waking, AtOneOf, At_
  <2>2. CASE KeepViews
    BY <1>1, <1>2, <2>1, <2>2, StepWakes
  <2> QED BY <1>3, <1>4, <1>14, <2>1, <2>2, <1>1, CopySteps
<1>15. CASE Claim(x) \/ Write(x) \/ Look(x) \/ Read(x)
  <2>1. ~Waking(x)
    BY <1>15 DEF Claim, Write, Look, Read, Waking, AtOneOf, At_
  <2>2. CASE KeepViews
    BY <1>1, <1>2, <2>1, <2>2, StepWakes
  <2>3. KeepViews \/ Refuse(x) \/ Answer(x, "over")
    BY <1>15, ClaimSteps, WriteSteps, LookSteps, ReadSteps
  <2> QED BY <1>3, <1>4, <2>1, <2>2, <2>3
<1>16. CASE Line(x) \/ Forget(x)
  <2>1. ~Waking(x)
    BY <1>16 DEF Line, Forget, Waking, AtOneOf, At_
  <2>2. Answer(x, "over") \/ Answer(x, "out")
    BY <1>16, LineSteps, ForgetSteps
  <2> QED BY <1>4, <2>1, <2>2
<1>17. CASE Open_(x) \/ Mark(x) \/ Remove(x)
  <2>1. ~Waking(x)
    BY <1>17 DEF Open_, Mark, Remove, Waking, AtOneOf, At_
  <2>2. KeepViews
    BY <1>17 DEF Open_, Mark, Remove
  <2> QED BY <1>1, <1>2, <2>1, <2>2, StepWakes
<1> QED BY <1>7, <1>8, <1>9, <1>10, <1>11, <1>12, <1>13, <1>14, <1>15, <1>16, <1>17 DEF Handle

-----------------------------------------------------------------------------
(* The recorder.                                                            *)

LEMMA SameTeam ==
  ASSUME NEW h, NEW f, f.human = h.human
  PROVE  HumanTeam(f) = HumanTeam(h)
BY DEF HumanTeam

\* A request that is at one of the recorder's sections.
Recorders(x) == Writing(x) \/ Flagging(x) \/ At_(x, "claim")

\* What leaves the recorder and the requests that are at its sections alone.
LEMMA RecorderStays ==
  ASSUME RecorderOK, UNCHANGED rec, faults \subseteq faults', live' => live /\ Later(g, g'),
         \A y \in Slots : Recorders(y)' => \E z \in Slots : req'[y] = req[z],
         \A y, z \in Slots : Writing(y)' /\ Writing(z)' => y = z
  PROVE  RecorderOK'
<1>1. ASSUME NEW y \in Slots, Recorders(y)'
      PROVE  \E z \in Slots : /\ req'[y] = req[z]
                              /\ Writing(y)' <=> Writing(z)
                              /\ Flagging(y)' <=> Flagging(z)
                              /\ \A s : At_(y, s)' <=> At_(z, s)
  <2>1. PICK z \in Slots : req'[y] = req[z]
    BY <1>1
  <2> QED BY <2>1 DEF Writing, Flagging, AtOneOf, At_, IsIdle
<1>2. \A file : Whole(file) => Whole(file)'
  BY DEF Whole
<1>3. RecTyped' /\ Unrecorded' /\ OneLine'
  BY <1>1, <1>2 DEF RecorderOK, RecTyped, Unrecorded, OneLine, Recorders
<1>4. OneWriter'
  BY <1>1, <1>2 DEF RecorderOK, OneWriter, Recorders
<1>5. FlagsLater'
  <2> SUFFICES ASSUME NEW x \in Slots, Flagging(x)'
               PROVE  /\ rec'.file # "none"
                      /\ \A y \in Slots : Writing(y)' => At_(y, "line")'
    BY DEF FlagsLater
  <2>1. \E z \in Slots : Flagging(z)
    BY <1>1 DEF Recorders
  <2>2. rec.file # "none" /\ \A y \in Slots : Writing(y) => At_(y, "line")
    BY <2>1 DEF RecorderOK, FlagsLater
  <2> QED BY <1>1, <2>2 DEF Recorders
<1>6. TeamOfGame'
  <2> SUFFICES ASSUME live' PROVE TeamOfGame'
    BY DEF TeamOfGame
  <2>1. /\ \A x \in Slots : Writing(x) \/ At_(x, "claim") =>
             g.over /\ req[x].team = HumanTeam(g)
        /\ \A i \in DOMAIN rec.finished : g.over /\ rec.finished[i] = HumanTeam(g)
    BY DEF RecorderOK, TeamOfGame
  <2>2. g.over => g'.over /\ HumanTeam(g') = HumanTeam(g)
    BY SameTeam DEF Later
  <2>3. \A x \in Slots : Writing(x)' \/ At_(x, "claim")' =>
          g'.over /\ req'[x].team = HumanTeam(g')
    BY <1>1, <2>1, <2>2 DEF Recorders
  <2>4. \A i \in DOMAIN rec'.finished : g'.over /\ rec'.finished[i] = HumanTeam(g')
    BY <2>1, <2>2
  <2> QED BY <2>3, <2>4 DEF TeamOfGame
<1> QED BY <1>3, <1>4, <1>5, <1>6 DEF RecorderOK

\* A handler's step among the other sections.
LEMMA OthersRecord ==
  ASSUME RequestsOK, RecorderOK, NEW x \in Slots, UNCHANGED <<rec, faults>>,
         live' => live /\ Later(g, g'), \A y \in Slots : y # x => req'[y] = req[y],
         ~Recorders(x)' \/ req'[x] = req[x]
  PROVE  RecorderOK'
<1>1. \A y \in Slots : Recorders(y)' => req'[y] = req[y]
  OBVIOUS
<1>2. \A y \in Slots : Writing(y)' => Writing(y)
  BY <1>1 DEF Recorders, Writing, AtOneOf, IsIdle
<1>3. \A y, z \in Slots : Writing(y) /\ Writing(z) => y = z
  BY DEF RecorderOK, OneWriter
<1> QED BY <1>1, <1>2, <1>3, RecorderStays

LEMMA IdleRecordsNot ==
  ASSUME NEW x \in Slots, req'[x] = Idle
  PROVE  ~Recorders(x)' /\ ~Writing(x)' /\ ~Flagging(x)' /\ \A s : ~At_(x, s)'
BY IdleIsRequest DEF Recorders, Writing, Flagging, AtOneOf, At_, IsIdle

LEMMA StepRecordsNot ==
  ASSUME RequestsOK, NEW x \in Slots, ~IsIdle(x), Steps(x),
         Head(req[x].at) \notin {"open", "write"}
  PROVE  ~Recorders(x)'
<1>1. Follows(req[x].op, Head(req[x].at), Head(req'[x].at))
  BY DEF Steps
<1>2. Head(req'[x].at) \notin {"claim", "open", "write", "line"}
  BY <1>1 DEF Follows
<1> QED BY <1>2 DEF Recorders, Writing, Flagging, AtOneOf, At_

\* Where x goes when it goes on, and that the others stay where they are.
LEMMA RecordersStep ==
  ASSUME RequestsOK, NEW x \in Slots, ~IsIdle(x), Continues(x),
         \A y \in Slots : y # x => req'[y] = req[y]
  PROVE  /\ \A s : At_(x, s)' <=> Head(req'[x].at) = s
         /\ Writing(x)' <=> req[x].op # "flag" /\ Head(req'[x].at) \in {"open", "write", "line"}
         /\ Flagging(x)' <=> req[x].op = "flag" /\ Head(req'[x].at) \in {"open", "write"}
         /\ \A y \in Slots : y # x =>
              /\ Writing(y)' <=> Writing(y)
              /\ Flagging(y)' <=> Flagging(y)
              /\ \A s : At_(y, s)' <=> At_(y, s)
BY DEF Continues, Writing, Flagging, AtOneOf, At_, IsIdle

LEMMA ClaimRecords ==
  ASSUME RequestsOK, MatchOK, GameOK, RecorderOK, NEW x \in Slots, Claim(x)
  PROVE  RecorderOK'
<1>1. /\ Framed(x) /\ UNCHANGED <<live, g>> /\ ~IsIdle(x) /\ UNCHANGED faults
      /\ \A y \in Slots : y # x => req'[y] = req[y]
      /\ Later(g, g)
  BY ClaimSteps, SameKeeps DEF Framed, matchVars, Claim, At_, GameOK, Keeps
<1>2. CASE rec' = rec /\ Ends(x)
  BY <1>1, <1>2, OthersRecord, IdleRecordsNot DEF Ends
<1>3. CASE /\ rec.active /\ rec' = Claimed(rec) /\ req[x].op # "flag"
           /\ Continues(x) /\ Head(req'[x].at) = "open" /\ req'[x].team = req[x].team
  <2>1. /\ rec.started = 1 /\ rec.finished = <<>> /\ rec.file = "none"
        /\ \A y \in Slots : ~Writing(y) /\ ~Flagging(y)
        /\ rec \in [active : BOOLEAN, known : BOOLEAN, started : {0, 1},
                    finished : Seq(Int), marked : Nat, file : FileTexts]
    BY <1>3 DEF RecorderOK, RecTyped, Unrecorded, FlagsLater
  <2>2. /\ rec'.active = FALSE /\ rec'.started = 1 /\ rec'.finished = <<>>
        /\ rec'.file = "none"
        /\ rec' \in [active : BOOLEAN, known : BOOLEAN, started : {0, 1},
                     finished : Seq(Int), marked : Nat, file : FileTexts]
    BY <1>3, <2>1 DEF Claimed
  <2>3. /\ \A s : At_(x, s)' <=> s = "open"
        /\ \A y \in Slots : Writing(y)' => y = x
        /\ \A y \in Slots : ~Flagging(y)'
        /\ \A y \in Slots : y # x => \A s : At_(y, s)' <=> At_(y, s)
    <3>1. ~Flagging(x)'
      BY <1>1, <1>3, RecordersStep
    <3> QED BY <1>1, <1>3, <2>1, <3>1, RecordersStep
  <2>4. live' => /\ \A y \in Slots : Writing(y)' \/ At_(y, "claim")' =>
                      g.over /\ req'[y].team = HumanTeam(g)
    <3>1. live => /\ g.over /\ req[x].team = HumanTeam(g)
                  /\ \A y \in Slots : At_(y, "claim") => g.over /\ req[y].team = HumanTeam(g)
      BY DEF RecorderOK, TeamOfGame, Claim
    <3>2. ASSUME live', NEW y \in Slots, Writing(y)' \/ At_(y, "claim")'
          PROVE  g.over /\ req'[y].team = HumanTeam(g)
      <4>1. CASE y = x
        BY <1>1, <1>3, <3>1, <3>2, <4>1
      <4>2. CASE y # x
        BY <1>1, <2>3, <3>1, <3>2, <4>2
      <4> QED BY <4>1, <4>2
    <3> QED BY <3>2
  <2>5. RecTyped' /\ Unrecorded' /\ OneLine' /\ FlagsLater'
    BY <2>2, <2>3 DEF RecTyped, Unrecorded, OneLine, FlagsLater
  <2>6. OneWriter'
    BY <2>2, <2>3 DEF OneWriter
  <2>7. TeamOfGame'
    <3>1. DOMAIN rec'.finished = {}
      BY <2>2
    <3> QED BY <1>1, <2>4, <3>1 DEF TeamOfGame
  <2> QED BY <2>5, <2>6, <2>7 DEF RecorderOK
<1> QED BY <1>2, <1>3, ClaimSteps

LEMMA OpenRecords ==
  ASSUME RequestsOK, MatchOK, GameOK, RecorderOK, NEW x \in Slots, Open_(x)
  PROVE  RecorderOK'
<1>1. /\ Framed(x) /\ Steps(x) /\ UNCHANGED <<live, g, faults>> /\ ~IsIdle(x)
      /\ \A y \in Slots : y # x => req'[y] = req[y]
      /\ rec' = FileOpened(rec) /\ Head(req[x].at) = "open"
  BY OpenSteps DEF Framed, matchVars, Open_, At_, Record, KeepGame
<1>2. /\ rec \in [active : BOOLEAN, known : BOOLEAN, started : {0, 1},
                  finished : Seq(Int), marked : Nat, file : FileTexts]
      /\ \A y \in Slots : Writing(y) => \A z \in Slots : Writing(z) => z = y
  BY DEF RecorderOK, RecTyped, OneWriter
<1>3. /\ rec'.active = rec.active /\ rec'.started = rec.started
      /\ rec'.finished = rec.finished /\ rec'.file = "torn"
      /\ rec' \in [active : BOOLEAN, known : BOOLEAN, started : {0, 1},
                   finished : Seq(Int), marked : Nat, file : FileTexts]
  BY <1>1, <1>2 DEF FileOpened, FileTexts
<1>4. Head(req'[x].at) = "write" /\ Continues(x) /\ req'[x].team = req[x].team
  BY <1>1 DEF Steps, Follows
<1>5. /\ \A s : At_(x, s)' <=> s = "write"
      /\ Writing(x)' <=> Writing(x)
      /\ Flagging(x)' <=> Flagging(x)
      /\ Writing(x) <=> req[x].op # "flag"
      /\ Flagging(x) <=> req[x].op = "flag"
      /\ \A y \in Slots : y # x =>
              /\ Writing(y)' <=> Writing(y)
              /\ Flagging(y)' <=> Flagging(y)
              /\ \A s : At_(y, s)' <=> At_(y, s)
  <2>1. /\ Writing(x) <=> req[x].op # "flag"
        /\ Flagging(x) <=> req[x].op = "flag"
    BY <1>1 DEF Writing, Flagging, AtOneOf
  <2> QED BY <1>1, <1>4, <2>1, RecordersStep
<1>6. /\ \A y \in Slots : Writing(y)' <=> Writing(y)
      /\ \A y \in Slots : Flagging(y)' <=> Flagging(y)
      /\ \A y \in Slots : At_(y, "claim")' => At_(y, "claim")
  BY <1>5
<1>7. ~rec.active /\ (rec.finished # <<>> => "flagged" \in faults)
  <2>1. CASE req[x].op = "flag"
    <3>1. rec.file # "none" /\ "flagged" \in faults
      BY <1>5, <2>1 DEF RecorderOK, FlagsLater, RequestsOK, RequestOK
    <3> QED BY <3>1 DEF RecorderOK, Unrecorded
  <2>2. CASE req[x].op # "flag"
    BY <1>5, <2>2 DEF RecorderOK, OneWriter
  <2> QED BY <2>1, <2>2
<1>8. RecTyped' /\ Unrecorded'
  BY <1>3, <1>7 DEF RecTyped, Unrecorded
<1>9. OneLine'
  BY <1>1, <1>3, <1>7 DEF RecorderOK, OneLine, Whole
<1>10. TeamOfGame'
  <2>1. \A y \in Slots : req'[y].team = req[y].team
    BY <1>1, <1>4
  <2> QED BY <1>1, <1>3, <1>6, <2>1 DEF RecorderOK, TeamOfGame
<1>11. OneWriter' /\ FlagsLater'
  <2>1. CASE req[x].op = "flag"
    <3>1. /\ \A y \in Slots : Writing(y) => At_(y, "line") /\ y # x
          /\ "flagged" \in faults
      BY <1>5, <2>1 DEF RecorderOK, FlagsLater, RequestsOK, RequestOK
    <3>2. Whole(rec.file)'
      BY <1>1, <1>3, <3>1 DEF Whole
    <3>3. \A y \in Slots : Writing(y)' => At_(y, "line")'
      BY <1>5, <1>6, <3>1
    <3>4. OneWriter'
      <4> SUFFICES ASSUME NEW y \in Slots, Writing(y)'
                   PROVE  /\ rec'.started = 1 /\ rec'.finished = <<>> /\ ~rec'.active
                          /\ \A z \in Slots : Writing(z)' => z = y
                          /\ ~At_(y, "open")' /\ ~At_(y, "write")'
        BY <3>2 DEF OneWriter
      <4>1. rec.started = 1 /\ rec.finished = <<>>
        BY <1>6 DEF RecorderOK, OneWriter
      <4> QED BY <1>2, <1>3, <1>6, <1>7, <3>3, <4>1 DEF At_
    <3> QED BY <1>3, <3>3, <3>4 DEF FlagsLater
  <2>2. CASE req[x].op # "flag"
    <3>1. /\ rec.file = "none" /\ rec.started = 1 /\ rec.finished = <<>>
          /\ \A y \in Slots : Writing(y) => y = x
      BY <1>1, <1>5, <2>2 DEF RecorderOK, OneWriter, Open_
    <3>2. \A y \in Slots : ~Flagging(y)
      BY <3>1 DEF RecorderOK, FlagsLater
    <3>3. OneWriter'
      BY <1>3, <1>5, <1>6, <1>7, <3>1 DEF OneWriter
    <3> QED BY <1>6, <3>2, <3>3 DEF FlagsLater
  <2> QED BY <2>1, <2>2
<1> QED BY <1>8, <1>9, <1>10, <1>11 DEF RecorderOK

LEMMA WriteRecords ==
  ASSUME RequestsOK, MatchOK, GameOK, RecorderOK, NEW x \in Slots, Write(x)
  PROVE  RecorderOK'
<1>1. /\ Framed(x) /\ UNCHANGED <<live, g, faults>> /\ ~IsIdle(x)
      /\ \A y \in Slots : y # x => req'[y] = req[y]
      /\ rec' = FileWritten(rec, IF req[x].op = "flag" THEN "flagged" ELSE "game")
      /\ Head(req[x].at) = "write"
  BY WriteSteps DEF Framed, matchVars, Write, At_
<1>2. rec \in [active : BOOLEAN, known : BOOLEAN, started : {0, 1},
               finished : Seq(Int), marked : Nat, file : FileTexts]
  BY DEF RecorderOK, RecTyped
<1>3. /\ rec'.active = rec.active /\ rec'.started = rec.started
      /\ rec'.finished = rec.finished /\ rec'.file \in {"game", "flagged"}
      /\ rec' \in [active : BOOLEAN, known : BOOLEAN, started : {0, 1},
                   finished : Seq(Int), marked : Nat, file : FileTexts]
  BY <1>1, <1>2 DEF FileWritten, FileTexts
<1>4. /\ Writing(x) <=> req[x].op # "flag"
      /\ Flagging(x) <=> req[x].op = "flag"
  BY <1>1 DEF Writing, Flagging, AtOneOf
<1>5. Whole(rec.file)'
  BY <1>3 DEF Whole
<1>6. RecTyped' /\ OneLine'
  BY <1>3, <1>5 DEF RecTyped, RecorderOK, OneLine
<1>7. ~rec.active
  BY <1>1, <1>4 DEF RecorderOK, OneWriter, FlagsLater, Unrecorded
<1>8. Unrecorded'
  BY <1>3, <1>7 DEF Unrecorded
<1>9. CASE req[x].op = "flag" /\ Ends(x)
  <2>1. /\ \A y \in Slots : Writing(y) => At_(y, "line") /\ y # x
        /\ \A y \in Slots : y # x =>
             /\ Writing(y)' <=> Writing(y)
             /\ \A s : At_(y, s)' <=> At_(y, s)
        /\ ~Writing(x)' /\ ~Flagging(x)' /\ \A s : ~At_(x, s)'
    <3>1. ~Writing(x)' /\ ~Flagging(x)' /\ \A s : ~At_(x, s)'
      BY <1>9, IdleRecordsNot DEF Ends
    <3>2. \A y \in Slots : y # x =>
             /\ Writing(y)' <=> Writing(y)
             /\ \A s : At_(y, s)' <=> At_(y, s)
      BY <1>1 DEF Writing, AtOneOf, At_, IsIdle
    <3> QED BY <1>4, <1>9, <3>1, <3>2 DEF RecorderOK, FlagsLater
  <2>2. \A y \in Slots : Writing(y)' => Writing(y) /\ At_(y, "line")' /\ y # x
    BY <2>1
  <2>3. OneWriter'
    <3> SUFFICES ASSUME NEW y \in Slots, Writing(y)'
                 PROVE  /\ rec'.started = 1 /\ rec'.finished = <<>> /\ ~rec'.active
                        /\ \A z \in Slots : Writing(z)' => z = y
                        /\ ~At_(y, "open")' /\ ~At_(y, "write")'
      BY <1>5 DEF OneWriter
    <3>1. rec.started = 1 /\ rec.finished = <<>> /\ \A z \in Slots : Writing(z) => z = y
      BY <2>2 DEF RecorderOK, OneWriter
    <3> QED BY <1>3, <1>7, <2>2, <3>1 DEF At_
  <2>4. FlagsLater'
    BY <1>3, <2>2 DEF FlagsLater
  <2>5. TeamOfGame'
    <3>1. \A y \in Slots : Writing(y)' \/ At_(y, "claim")' =>
            /\ Writing(y) \/ At_(y, "claim")
            /\ req'[y] = req[y]
      BY <1>1, <2>1
    <3> QED BY <1>1, <1>3, <3>1 DEF RecorderOK, TeamOfGame
  <2> QED BY <1>6, <1>8, <2>3, <2>4, <2>5 DEF RecorderOK
<1>10. CASE req[x].op # "flag" /\ Steps(x)
  <2>1. Head(req'[x].at) = "line" /\ Continues(x) /\ req'[x].team = req[x].team
    BY <1>1, <1>10 DEF Steps, Follows
  <2>2. /\ rec.started = 1 /\ rec.finished = <<>>
        /\ \A y \in Slots : Writing(y) => y = x
        /\ \A y \in Slots : ~Flagging(y)
    BY <1>1, <1>4, <1>10 DEF RecorderOK, OneWriter, FlagsLater, At_
  <2>3. /\ \A s : At_(x, s)' <=> s = "line"
        /\ \A y \in Slots : y # x => \A s : At_(y, s)' <=> At_(y, s)
        /\ \A y \in Slots : (Writing(y)' => y = x) /\ ~Flagging(y)'
    <3>1. ~Flagging(x)'
      BY <1>1, <1>10, <2>1, RecordersStep
    <3> QED BY <1>1, <2>1, <2>2, <3>1, RecordersStep
  <2>4. OneWriter' /\ FlagsLater'
    BY <1>3, <1>5, <1>7, <2>2, <2>3 DEF OneWriter, FlagsLater
  <2>5. TeamOfGame'
    <3>1. \A y \in Slots : Writing(y)' \/ At_(y, "claim")' =>
            /\ Writing(y) \/ At_(y, "claim")
            /\ req'[y].team = req[y].team
      BY <1>1, <1>4, <1>10, <2>1, <2>3
    <3> QED BY <1>1, <1>3, <3>1 DEF RecorderOK, TeamOfGame
  <2> QED BY <1>6, <1>8, <2>4, <2>5 DEF RecorderOK
<1> QED BY <1>9, <1>10, WriteSteps

LEMMA LineRecords ==
  ASSUME RequestsOK, MatchOK, GameOK, RecorderOK, NEW x \in Slots, Line(x)
  PROVE  RecorderOK'
<1>1. /\ Framed(x) /\ UNCHANGED <<live, g, faults>> /\ ~IsIdle(x) /\ Ends(x)
      /\ \A y \in Slots : y # x => req'[y] = req[y]
      /\ rec' = LineAppended(rec, req[x].team) /\ Head(req[x].at) = "line"
  BY LineSteps DEF Framed, matchVars, Line, At_
<1>2. Writing(x) /\ At_(x, "line") /\ req[x].team \in Int
  BY <1>1, WhichOp, Asking DEF Writing, AtOneOf, At_, Recording, Requests
<1>3. /\ rec \in [active : BOOLEAN, known : BOOLEAN, started : {0, 1},
                  finished : Seq(Int), marked : Nat, file : FileTexts]
      /\ rec.started = 1 /\ rec.finished = <<>> /\ ~rec.active /\ Whole(rec.file)
      /\ \A y \in Slots : Writing(y) => y = x
  BY <1>2 DEF RecorderOK, RecTyped, OneWriter
<1>4. /\ rec'.finished = <<req[x].team>> /\ rec'.started = 1 /\ rec'.active = FALSE
      /\ rec'.file = rec.file
      /\ rec' \in [active : BOOLEAN, known : BOOLEAN, started : {0, 1},
                   finished : Seq(Int), marked : Nat, file : FileTexts]
  <2> DEFINE all == Append(rec.finished, req[x].team)
  <2>1. all = <<req[x].team>> /\ all \in Seq(Int)
    BY <1>2, <1>3
  <2>2. rec' = [rec EXCEPT !.finished = all]
    BY <1>1 DEF LineAppended
  <2> HIDE DEF all
  <2> QED BY <1>3, <2>1, <2>2
<1>5. /\ \A y \in Slots : ~Writing(y)'
      /\ \A y \in Slots : Flagging(y)' => Flagging(y)
      /\ \A y \in Slots : At_(y, "claim")' => At_(y, "claim") /\ req'[y] = req[y]
  <2>1. ~Writing(x)' /\ ~Flagging(x)' /\ \A s : ~At_(x, s)'
    BY <1>1, IdleRecordsNot DEF Ends
  <2>2. \A y \in Slots : y # x =>
           /\ Writing(y)' <=> Writing(y)
           /\ Flagging(y)' <=> Flagging(y)
           /\ \A s : At_(y, s)' <=> At_(y, s)
    BY <1>1 DEF Writing, Flagging, AtOneOf, At_, IsIdle
  <2> QED BY <1>1, <1>3, <2>1, <2>2
<1>6. Whole(rec.file)'
  BY <1>1, <1>3, <1>4 DEF Whole
<1>7. RecTyped' /\ Unrecorded' /\ OneWriter'
  BY <1>4, <1>5 DEF RecTyped, Unrecorded, OneWriter
<1>8. FlagsLater'
  BY <1>4, <1>5 DEF RecorderOK, FlagsLater
<1>9. OneLine'
  <2>1. Len(rec'.finished) = 1
    BY <1>4
  <2> QED BY <1>4, <1>6, <2>1 DEF OneLine
<1>10. TeamOfGame'
  <2>1. DOMAIN rec'.finished = {1} /\ rec'.finished[1] = req[x].team
    BY <1>4
  <2>2. live => g.over /\ req[x].team = HumanTeam(g)
    BY <1>2 DEF RecorderOK, TeamOfGame
  <2> QED BY <1>1, <1>5, <2>1, <2>2 DEF RecorderOK, TeamOfGame
<1> QED BY <1>7, <1>8, <1>9, <1>10 DEF RecorderOK

\* Forgetting the game, or marking it, changes nothing that is kept of it.
LEMMA ForgetRecords ==
  ASSUME RequestsOK, MatchOK, GameOK, RecorderOK, NEW x \in Slots, Forget(x) \/ Mark(x)
  PROVE  RecorderOK'
<1>1. /\ Framed(x) /\ UNCHANGED <<live, g, faults>> /\ ~IsIdle(x)
      /\ \A y \in Slots : y # x => req'[y] = req[y]
      /\ rec' \in {Forgotten(rec), Flagged(rec)}
      /\ Head(req[x].at) \in {"forget", "mark"}
      /\ Ends(x) \/ Steps(x)
  <2>1. CASE Forget(x)
    BY <2>1, ForgetSteps DEF Framed, matchVars, Forget, At_
  <2>2. CASE Mark(x)
    BY <2>2, MarkSteps DEF Framed, matchVars, Mark, At_, Record, KeepGame
  <2> QED BY <2>1, <2>2
<1>2. rec \in [active : BOOLEAN, known : BOOLEAN, started : {0, 1},
               finished : Seq(Int), marked : Nat, file : FileTexts]
  BY DEF RecorderOK, RecTyped
<1>3. /\ rec'.active => rec.active
      /\ rec'.started = rec.started /\ rec'.finished = rec.finished
      /\ rec'.file = rec.file
      /\ rec' \in [active : BOOLEAN, known : BOOLEAN, started : {0, 1},
                   finished : Seq(Int), marked : Nat, file : FileTexts]
  <2>1. CASE rec' = Forgotten(rec)
    BY <1>2, <2>1 DEF Forgotten
  <2>2. CASE rec' = Flagged(rec)
    <3> DEFINE more == rec.marked + 1
    <3>1. rec' = [rec EXCEPT !.marked = more] /\ more \in Nat
      BY <1>2, <2>2 DEF Flagged
    <3> HIDE DEF more
    <3> QED BY <1>2, <3>1
  <2> QED BY <1>1, <2>1, <2>2
<1>4. ~Recorders(x)'
  BY <1>1, IdleRecordsNot, StepRecordsNot DEF Ends
<1>5. \A y \in Slots : y # x =>
           /\ Writing(y)' <=> Writing(y)
           /\ Flagging(y)' <=> Flagging(y)
           /\ \A s : At_(y, s)' <=> At_(y, s)
  BY <1>1 DEF Writing, Flagging, AtOneOf, At_, IsIdle
<1>6. \A y \in Slots : Recorders(y)' => y # x
  BY <1>4
<1>7. Whole(rec.file)' <=> Whole(rec.file)
  BY <1>1, <1>3 DEF Whole
<1>8. RecTyped' /\ Unrecorded' /\ OneLine'
  BY <1>3, <1>5, <1>6, <1>7 DEF RecorderOK, RecTyped, Unrecorded, OneLine, Recorders
<1>9. OneWriter'
  BY <1>3, <1>5, <1>6, <1>7 DEF RecorderOK, OneWriter, Recorders
<1>10. FlagsLater'
  BY <1>3, <1>5, <1>6 DEF RecorderOK, FlagsLater, Recorders
<1>11. TeamOfGame'
  BY <1>1, <1>3, <1>5, <1>6 DEF RecorderOK, TeamOfGame, Recorders
<1> QED BY <1>8, <1>9, <1>10, <1>11 DEF RecorderOK

LEMMA ReadRecords ==
  ASSUME RequestsOK, MatchOK, GameOK, RecorderOK, NEW x \in Slots, Read(x)
  PROVE  RecorderOK'
<1>1. /\ Framed(x) /\ UNCHANGED <<live, g, faults, rec>> /\ ~IsIdle(x)
      /\ \A y \in Slots : y # x => req'[y] = req[y]
      /\ Later(g, g) /\ req[x].op = "flag"
  BY ReadSteps, SameKeeps DEF Framed, matchVars, Read, At_, GameOK, Keeps
<1>2. CASE Ends(x)
  BY <1>1, <1>2, OthersRecord, IdleRecordsNot DEF Ends
<1>3. CASE IsRecord(rec.file) /\ Continues(x) /\ Head(req'[x].at) = "open"
  <2>1. rec.file # "none" /\ \A y \in Slots : Writing(y) => At_(y, "line")
    <3>1. rec.file \notin {"none", "torn"}
      BY <1>3 DEF IsRecord
    <3>2. \A y \in Slots : Writing(y) => Head(req[y].at) \in {"open", "write", "line"} /\ ~IsIdle(y)
      BY DEF Writing, AtOneOf
    <3> QED BY <3>1, <3>2 DEF RecorderOK, OneWriter, At_
  <2>2. /\ ~Writing(x) /\ ~Writing(x)' /\ \A s : At_(x, s)' <=> s = "open"
        /\ \A y \in Slots : y # x =>
             /\ Writing(y)' <=> Writing(y)
             /\ \A s : At_(y, s)' <=> At_(y, s)
    <3>1. ~Writing(x)
      BY <1>1 DEF Writing
    <3>2. ~Writing(x)'
      BY <1>1, <1>3, RecordersStep
    <3> QED BY <1>1, <1>3, <3>1, <3>2, RecordersStep
  <2>3. \A y \in Slots : Writing(y)' => Writing(y) /\ y # x
    BY <2>2
  <2>4. Whole(rec.file)' <=> Whole(rec.file)
    BY <1>1 DEF Whole
  <2>5. RecTyped' /\ Unrecorded' /\ OneLine'
    BY <1>1, <2>3, <2>4 DEF RecorderOK, RecTyped, Unrecorded, OneLine
  <2>6. OneWriter'
    BY <1>1, <2>2, <2>3, <2>4 DEF RecorderOK, OneWriter
  <2>7. FlagsLater'
    BY <1>1, <2>1, <2>2, <2>3 DEF FlagsLater
  <2>8. TeamOfGame'
    BY <1>1, <2>2, <2>3 DEF RecorderOK, TeamOfGame
  <2> QED BY <2>5, <2>6, <2>7, <2>8 DEF RecorderOK
<1> QED BY <1>2, <1>3, ReadSteps

LEMMA CopyRecords ==
  ASSUME RequestsOK, MatchOK, GameOK, RecorderOK, NEW x \in Slots, Copy(x)
  PROVE  RecorderOK'
<1>1. /\ Framed(x) /\ UNCHANGED <<live, g, faults, rec>> /\ ~IsIdle(x)
      /\ \A y \in Slots : y # x => req'[y] = req[y]
      /\ Later(g, g)
  BY CopySteps, SameKeeps DEF Framed, matchVars, Copy, At_, GameOK, Keeps
<1>2. CASE Ends(x)
  BY <1>1, <1>2, OthersRecord, IdleRecordsNot DEF Ends
<1>3. CASE /\ live /\ g.over /\ req[x].op \in Recording
           /\ Continues(x) /\ req'[x].at = <<"claim">> /\ req'[x].team = HumanTeam(g)
  <2>1. Head(req'[x].at) = "claim" /\ req[x].op # "flag"
    BY <1>3 DEF Recording
  <2>2. /\ ~Writing(x)' /\ ~Flagging(x)'
        /\ \A s : At_(x, s)' <=> s = "claim"
        /\ \A y \in Slots : y # x =>
             /\ Writing(y)' <=> Writing(y)
             /\ Flagging(y)' <=> Flagging(y)
             /\ \A s : At_(y, s)' <=> At_(y, s)
    <3>1. ~Writing(x)' /\ ~Flagging(x)'
      BY <1>1, <1>3, <2>1, RecordersStep
    <3> QED BY <1>1, <1>3, <2>1, <3>1, RecordersStep
  <2>3. /\ \A y \in Slots : Writing(y)' => Writing(y) /\ y # x
        /\ \A y \in Slots : Flagging(y)' => Flagging(y)
    BY <2>2
  <2>4. Whole(rec.file)' <=> Whole(rec.file)
    BY <1>1 DEF Whole
  <2>5. RecTyped' /\ Unrecorded' /\ OneLine'
    BY <1>1, <2>3, <2>4 DEF RecorderOK, RecTyped, Unrecorded, OneLine
  <2>6. OneWriter'
    BY <1>1, <2>2, <2>3, <2>4 DEF RecorderOK, OneWriter
  <2>7. FlagsLater'
    BY <1>1, <2>2, <2>3 DEF RecorderOK, FlagsLater
  <2>8. TeamOfGame'
    BY <1>1, <1>3, <2>2, <2>3 DEF RecorderOK, TeamOfGame
  <2> QED BY <2>5, <2>6, <2>7, <2>8 DEF RecorderOK
<1> QED BY <1>2, <1>3, CopySteps DEF GameOK

LEMMA HandleKeepsRecorder ==
  ASSUME RequestsOK, MatchOK, GameOK, RecorderOK, NEW x \in Slots, Handle(x)
  PROVE  RecorderOK'
<1>1. /\ Framed(x) /\ ~IsIdle(x) /\ UNCHANGED faults
      /\ \A y \in Slots : y # x => req'[y] = req[y]
      /\ live' => live /\ Later(g, g')
  BY HandleGoes, HandleIsLater DEF Framed, matchVars
<1>2. ASSUME rec' = rec, Head(req[x].at) \notin {"open", "write"},
             Ends(x) \/ Steps(x) \/ UNCHANGED req
      PROVE  RecorderOK'
  <2>1. ~Recorders(x)' \/ req'[x] = req[x]
    BY <1>1, <1>2, IdleRecordsNot, StepRecordsNot DEF Ends
  <2> QED BY <1>1, <1>2, <2>1, OthersRecord
<1>3. CASE Refresh(x) \/ Hold(x) \/ Place(x) \/ TakeOver(x) \/ Look(x)
  <2>1. rec' = rec /\ Head(req[x].at) \notin {"open", "write"}
    BY <1>3 DEF Refresh, Hold, Place, TakeOver, Look, At_, KeepRest, Record
  <2>2. Ends(x) \/ Steps(x)
    BY <1>3, RefreshSteps, HoldSteps, PlaceSteps, TakeOverSteps, LookSteps
  <2> QED BY <1>2, <2>1, <2>2
<1>4. CASE Reply(x) \/ PlayRound(x) \/ Advance(x) \/ Override(x) \/ Notify(x) \/ Remove(x)
  <2>1. rec' = rec /\ Head(req[x].at) \notin {"open", "write"}
    BY <1>4 DEF Reply, PlayRound, Advance, Override, Notify, Remove, At_, KeepRest
  <2>2. Steps(x) \/ UNCHANGED req
    BY <1>4, ReplySteps, PlayRoundSteps, AdvanceSteps, OverrideSteps, NotifySteps, RemoveSteps
  <2> QED BY <1>2, <2>1, <2>2
<1> QED BY <1>3, <1>4, CopyRecords, ClaimRecords, OpenRecords, WriteRecords, LineRecords,
           ForgetRecords, ReadRecords DEF Handle

-----------------------------------------------------------------------------
(* What the pages do.                                                       *)

\* A page's step that leaves the requests at the other sections alone.
LEMMA PageStep ==
  ASSUME IInv, RequestsOK', MatchOK', NoticesOK', live' = live,
         UNCHANGED <<rec, page, resolved>>, faults \subseteq faults',
         g' \in Games, TurnOK(g', Late), Keeps(g, g'), req'[Loose] = req[Loose],
         \A y \in Slots : Recorders(y)' \/ At_(y, "reply")' => req'[y] = req[y],
         \A c \in Clients : live /\ Shares(c) /\ view'[c] = "mine" /\ Unwritten(c)' =>
           HasTheMove(c)
  PROVE  IInv'
<1>1. /\ RequestsOK /\ MatchOK /\ TeamOK /\ GameOK /\ SheetsOK /\ RecorderOK
      /\ Later(g, g')
  BY DEF IInv, Keeps
<1>2. (Solo' <=> Solo) /\ (Late => Late')
  BY DEF Solo, At, Late
<1>3. TeamOK'
  BY <1>1, TeamStays
<1>4. GameOK'
  <2>1. \A c \in Clients : At_(c, "reply")' => At_(c, "reply")
    BY ClientsAreSlots DEF At_, IsIdle
  <2> QED BY <1>1, <1>2, <2>1, GameStays DEF Keeps
<1>5. RecorderOK'
  <2>1. \A y \in Slots : Recorders(y)' => \E z \in Slots : req'[y] = req[z]
    OBVIOUS
  <2>2. \A y \in Slots : Writing(y)' => Writing(y)
    BY DEF Recorders, Writing, AtOneOf, IsIdle
  <2>3. \A y, z \in Slots : Writing(y) /\ Writing(z) => y = z
    BY <1>1 DEF RecorderOK, OneWriter
  <2>4. \A y, z \in Slots : Writing(y)' /\ Writing(z)' => y = z
    BY <2>2, <2>3
  <2> QED BY <1>1, <2>1, <2>4, RecorderStays
<1>6. SheetsOK'
  <2>1. SheetsStayApart'
    <3>1. SheetsStayApart /\ g.takenOver \subseteq g'.takenOver
      BY <1>1 DEF SheetsOK, Later
    <3>2. \A i \in DOMAIN g'.history :
           \/ i \in DOMAIN g.history /\ g'.history[i] = g.history[i]
           \/ g'.history[i].by = NoOne
      BY DEF Keeps
    <3> QED BY <3>1, <3>2, ApartStays
  <2>2. MadeByPlayers'
    <3>1. MadeByPlayers /\ (Solo => Solo')
          /\ \A c \in Clients : At(c, "playing") => At(c, "playing")'
      BY <1>1, <1>2 DEF SheetsOK, At
    <3>2. \A i \in DOMAIN g'.history :
           \/ i \in DOMAIN g.history /\ g'.history[i] = g.history[i]
           \/ g'.history[i].by = NoOne
      BY DEF Keeps
    <3>3. ~(IsIdle(Loose)') => /\ req'[Loose].by \in Clients
                               /\ ~IsIdle(Loose) /\ req'[Loose].by = req[Loose].by
      BY <1>1, ClientsAreSlots, Asking DEF IsIdle
    <3> QED BY <3>1, <3>2, <3>3, MadeStays
  <2>3. ASSUME live', NEW c \in Clients, Shares(c)', view'[c] = "mine", Unwritten(c)'
        PROVE  HasTheMove(c)'
    <3>1. Shares(c)
      BY <2>3 DEF Shares, Seat
    <3> QED BY <1>2, <2>3, <3>1, MoveStays
  <2> QED BY <2>1, <2>2, <2>3 DEF SheetsOK
<1> QED BY <1>3, <1>4, <1>5, <1>6 DEF IInv

\* Steps of the watchers' streams and of the clock: they change the session.
LEMMA StreamStep ==
  ASSUME IInv, live, NoticesOK', UNCHANGED <<live, req, rec, view>>,
         UNCHANGED <<queue, resolved, nextTicket, page>>, faults \subseteq faults',
         g' \in Games, TurnOK(g', Late), Keeps(g, g')
  PROVE  IInv'
<1>1. RequestsOK /\ MatchOK /\ SheetsOK
  BY DEF IInv
<1>2. RequestsOK' /\ MatchOK'
  BY <1>1, StillPlayers
<1>3. \A c \in Clients : live /\ Shares(c) /\ view'[c] = "mine" /\ Unwritten(c)' =>
           HasTheMove(c)
  BY <1>1 DEF SheetsOK, Unwritten, AtOneOf, IsIdle
<1> QED BY <1>2, <1>3, PageStep

LEMMA TellKeeps ==
  ASSUME IInv, NEW c \in Clients, NEW spins \in BOOLEAN, Tell(c, spins)
  PROVE  IInv'
<1> DEFINE f == Previewed(g, Seat(c), spins)
<1>1. /\ live /\ IsOnMove(g, Seat(c)) /\ Change(f, TRUE) /\ Shares(c)
      /\ UNCHANGED <<live, req, rec>> /\ UNCHANGED matchVars
  BY DEF Tell, KeepRest
<1>2. g \in Games /\ TurnOK(g, Late) /\ Seat(c) \in Seats /\ NoticesOK
  BY <1>1, SoloOrShared DEF IInv, GameOK
<1>3. f \in Games /\ TurnOK(f, Late) /\ Keeps(g, f)
  BY <1>1, <1>2, LateIs, PreviewedKeeps
<1> HIDE DEF f
<1>4. g' = f /\ UNCHANGED <<view, page, faults>>
  BY <1>1 DEF Change, matchVars
<1>5. NoticesOK'
  BY <1>1, <1>2, <1>4, ChangeWakes
<1> QED BY <1>1, <1>3, <1>4, <1>5, StreamStep DEF matchVars

LEMMA SweepKeeps ==
  ASSUME IInv, NEW c \in Clients, Sweep(c)
  PROVE  IInv'
<1> DEFINE f == Refreshed(g)
<1>1. /\ live /\ Change(f, TRUE)
      /\ UNCHANGED <<live, req, rec>> /\ UNCHANGED matchVars
  BY DEF Sweep, KeepRest
<1>2. g \in Games /\ TurnOK(g, Late) /\ NoticesOK
  BY DEF IInv, GameOK
<1>3. f \in Games /\ TurnOK(f, Late) /\ Keeps(g, f)
  BY <1>2, LateIs, RefreshedKeeps
<1> HIDE DEF f
<1>4. g' = f /\ UNCHANGED <<view, page, faults>>
  BY <1>1 DEF Change, matchVars
<1>5. NoticesOK'
  BY <1>1, <1>2, <1>4, ChangeWakes
<1> QED BY <1>1, <1>3, <1>4, <1>5, StreamStep DEF matchVars

\* A heartbeat that brings nobody back shows nothing new.
LEMMA BeatShows ==
  ASSUME NEW h \in Games, NEW s \in Seats,
         Refreshed(Beaten(h, s)).disconnected = h.disconnected
  PROVE  Shown(Refreshed(Beaten(h, s))) = Shown(h)
<1> DEFINE b == Beaten(h, s)
           f == Refreshed(b)
           lost == {t \in Seats : t \in b.human /\ t \notin b.takenOver /\ Silent(b, t)}
<1>1. /\ b \in Games /\ b.over = h.over /\ b.cur = h.cur /\ b.rolls = h.rolls
      /\ b.waiting = h.waiting /\ b.takenOver = h.takenOver /\ b.left = h.left
      /\ b.history = h.history /\ b.human = h.human /\ b.turn = h.turn
      /\ b.preview = h.preview /\ b.rolling = h.rolling /\ b.disconnected = h.disconnected
  <2> DEFINE after == [h.seen EXCEPT ![s] = "fresh"]
  <2>1. b = [h EXCEPT !.seen = after] /\ after \in [Seats -> {"never", "fresh", "stale"}]
    BY DEF Beaten, Games
  <2> HIDE DEF after, b
  <2> QED BY <2>1 DEF Games
<1>2. f = b \/ f = [b EXCEPT !.disconnected = lost]
  BY DEF Refreshed
<1> HIDE DEF b, lost
<1>3. /\ f.over = b.over /\ f.cur = b.cur /\ f.rolls = b.rolls
      /\ f.waiting = b.waiting /\ f.takenOver = b.takenOver /\ f.left = b.left
      /\ f.history = b.history /\ f.human = b.human /\ f.turn = b.turn
      /\ f.preview = b.preview /\ f.rolling = b.rolling
  BY <1>1, <1>2 DEF Games
<1>4. f.disconnected = h.disconnected
  BY DEF b
<1> HIDE DEF f
<1>5. LiveTurn(f) = LiveTurn(h)
  BY <1>1, <1>3 DEF LiveTurn
<1>6. Shown(f) = Shown(h)
  BY <1>1, <1>3, <1>4, <1>5 DEF Shown
<1> QED BY <1>6 DEF f, b

LEMMA HeartbeatKeeps ==
  ASSUME IInv, NEW c \in Clients, Heartbeat(c)
  PROVE  IInv'
<1> DEFINE f == Refreshed(Beaten(g, Seat(c)))
           bump == f.disconnected # g.disconnected
<1>1. /\ live /\ Change(f, bump) /\ At(c, "playing")
      /\ UNCHANGED <<live, req, rec>> /\ UNCHANGED matchVars
  BY DEF Heartbeat, KeepRest
<1>2. g \in Games /\ TurnOK(g, Late) /\ Seat(c) \in Seats /\ NoticesOK
  BY <1>1, SoloOrShared DEF IInv, GameOK
<1>3. f \in Games /\ TurnOK(f, Late) /\ Keeps(g, f)
  BY <1>2, LateIs, BeatenKeeps
<1>a. bump \/ Shown(f) = Shown(g)
  BY <1>2, BeatShows
<1> HIDE DEF f
<1>4. g' = f /\ UNCHANGED <<view, page, faults>>
  BY <1>1 DEF Change, matchVars
<1>5. NoticesOK'
  <2>1. CASE bump
    BY <1>1, <1>2, <1>4, <2>1, ChangeWakes
  <2>2. CASE ~bump
    <3>1. UNCHANGED <<missed, behind>>
      BY <1>1, <1>a, <2>2 DEF Change
    <3>2. UNCHANGED <<view, page, req, live>>
      BY <1>1, <1>4
    <3> QED BY <1>2, <3>1, <3>2
            DEF NoticesOK, Watchers, Shares, Seat, Waking, AtOneOf, At_, IsIdle
  <2> QED BY <2>1, <2>2
<1> QED BY <1>1, <1>3, <1>4, <1>5, StreamStep DEF matchVars

LEMMA SilenceKeeps ==
  ASSUME IInv, NEW s \in Seats, Silence(s)
  PROVE  IInv'
<1> DEFINE f == [g EXCEPT !.seen[s] = "stale"]
<1>1. /\ live /\ g' = f /\ KeepViews /\ UNCHANGED <<live, req, rec>>
      /\ UNCHANGED <<queue, resolved, nextTicket, page>> /\ faults \subseteq faults'
  BY DEF Silence, KeepMatch, Fault
<1>2. g \in Games /\ TurnOK(g, Late) /\ NoticesOK
  BY DEF IInv, GameOK
<1>3. f \in Games /\ TurnOK(f, Late) /\ Keeps(g, f)
  BY <1>2, LateIs, SeenKeeps
<1> HIDE DEF f
<1>4. UNCHANGED <<view, behind, missed>>
  BY <1>1 DEF KeepViews
<1>5. NoticesOK'
  BY <1>1, <1>2, <1>4 DEF NoticesOK, Watchers, Shares, Seat, Waking, AtOneOf, At_, IsIdle
<1> QED BY <1>1, <1>3, <1>4, <1>5, StreamStep

LEMMA EnterKeeps ==
  ASSUME IInv, NEW c \in Clients, Enter(c)
  PROVE  IInv'
<1>1. /\ view' = [view EXCEPT ![c] = "watch"] /\ behind' = behind \cup {c}
      /\ UNCHANGED <<live, g, missed, req, rec>> /\ UNCHANGED matchVars
  BY DEF Enter, KeepRest
<1>2. /\ RequestsOK /\ MatchOK /\ SheetsOK /\ NoticesOK
      /\ g \in Games /\ TurnOK(g, Late) /\ Keeps(g, g) /\ view \in [Clients -> Views]
  BY SameKeeps DEF IInv, GameOK, MatchOK, PagesTyped
<1>3. RequestsOK' /\ MatchOK'
  BY <1>2, EnterKeepsPlayers
<1>4. NoticesOK'
  <2>1. Watchers \subseteq Watchers'
    BY <1>1, <1>2 DEF Watchers, Shares, Seat, matchVars
  <2> QED BY <1>1, <1>2, <2>1 DEF NoticesOK, Waking, AtOneOf, At_, IsIdle
<1>5. \A d \in Clients : live /\ Shares(d) /\ view'[d] = "mine" /\ Unwritten(d)' =>
           HasTheMove(d)
  BY <1>1, <1>2 DEF SheetsOK, Unwritten, AtOneOf, IsIdle
<1> QED BY <1>1, <1>2, <1>3, <1>4, <1>5, PageStep DEF matchVars

LEMMA AskKeeps ==
  ASSUME IInv, NEW c \in Clients, NEW op \in Ops, IsIdle(c),
         req' = [req EXCEPT ![c] = Asked(c, op)], view[c] # "out",
         UNCHANGED <<live, g, behind, missed, view, rec>>,
         UNCHANGED <<queue, resolved, nextTicket, page>>,
         op \in {"hold", "place"} => view[c] = "mine",
         op = "play_all" => Shares(c), op \in {"step", "bot_step", "delete"} => ~Shares(c),
         faults \subseteq faults', op = "flag" => "flagged" \in faults'
  PROVE  IInv'
<1>1. /\ RequestsOK /\ MatchOK /\ SheetsOK /\ NoticesOK /\ c \in Slots /\ c # Loose
      /\ g \in Games /\ TurnOK(g, Late) /\ Keeps(g, g) /\ req \in [Slots -> Requests]
  BY SameKeeps, ClientsAreSlots, Constants DEF IInv, GameOK, RequestsOK
<1>2. RequestsOK' /\ MatchOK'
  BY <1>1, AskKeepsPlayers
<1>3. /\ req'[c] = Asked(c, op) /\ req'[c].at = Sections(op)
      /\ \A x \in Slots : x # c => req'[x] = req[x]
  BY <1>1, AskedIsRequest
<1>4. Head(req'[c].at) \in {"refresh", "override", "takeover", "remove", "look"}
  BY <1>3, SectionsStart DEF Ops
<1>5. /\ ~Recorders(c)' /\ ~At_(c, "reply")'
  BY <1>4 DEF Recorders, Writing, Flagging, AtOneOf, At_
<1>6. NoticesOK'
  <2>1. ~Waking(c)
    BY <1>1 DEF Waking, AtOneOf, At_
  <2>2. \A x \in Slots : Waking(x) => Waking(x)'
    BY <1>3, <2>1 DEF Waking, AtOneOf, At_, IsIdle
  <2>3. Watchers' = Watchers
    BY DEF Watchers, Shares, Seat
  <2> QED BY <1>1, <2>2, <2>3 DEF NoticesOK
<1>7. ASSUME NEW d \in Clients, live, Shares(d), view'[d] = "mine", Unwritten(d)'
      PROVE  HasTheMove(d)
  <2>1. CASE d = c
    <3>1. Unwritten(c)
      BY DEF Unwritten, IsIdle
    <3> QED BY <1>1, <1>7, <2>1, <3>1 DEF SheetsOK
  <2>2. CASE d # c
    <3>1. req'[d] = req[d]
      BY <1>3, <2>2, ClientsAreSlots
    <3>2. Unwritten(d)
      BY <1>7, <3>1 DEF Unwritten, AtOneOf, IsIdle
    <3> QED BY <1>1, <1>7, <3>2 DEF SheetsOK
  <2> QED BY <2>1, <2>2
<1>8. req'[Loose] = req[Loose]
  BY <1>1, <1>3, ClientsAreSlots
<1>9. \A y \in Slots : Recorders(y)' \/ At_(y, "reply")' => req'[y] = req[y]
  BY <1>3, <1>5
<1> QED BY <1>1, <1>2, <1>6, <1>7, <1>8, <1>9, PageStep

LEMMA DriveKeeps ==
  ASSUME IInv, NEW c \in Clients, Drive(c)
  PROVE  IInv'
<1>1. PICK op \in {"play_all", "step", "get"} : Driven(c, op) /\ Ask(c, op)
  BY DEF Drive
<1>2. /\ op \in Ops /\ view[c] # "out" /\ (op = "play_all" => Shares(c))
      /\ op = "step" => ~Shares(c)
  BY <1>1 DEF Driven, Ops
<1>3. /\ IsIdle(c) /\ req' = [req EXCEPT ![c] = Asked(c, op)]
      /\ UNCHANGED <<live, g, behind, missed, view, rec>>
      /\ UNCHANGED <<queue, resolved, nextTicket, page>> /\ faults \subseteq faults'
  BY <1>1 DEF Ask, KeepRest, matchVars
<1> QED BY <1>1, <1>2, <1>3, AskKeeps

LEMMA UseKeeps ==
  ASSUME IInv, NEW c \in Clients, Use(c)
  PROVE  IInv'
<1>1. PICK op \in {"hold", "place", "bot_step", "takeover", "delete"} :
        Chosen(c, op) /\ Ask(c, op)
  BY DEF Use
<1>2. /\ op \in Ops /\ view[c] # "out" /\ (op \in {"hold", "place"} => view[c] = "mine")
      /\ op \in {"bot_step", "delete"} => ~Shares(c)
  BY <1>1 DEF Chosen, Ops
<1>3. /\ IsIdle(c) /\ req' = [req EXCEPT ![c] = Asked(c, op)]
      /\ UNCHANGED <<live, g, behind, missed, view, rec>>
      /\ UNCHANGED <<queue, resolved, nextTicket, page>> /\ faults \subseteq faults'
  BY <1>1 DEF Ask, KeepRest, matchVars
<1> QED BY <1>1, <1>2, <1>3, AskKeeps

LEMMA FlagKeeps ==
  ASSUME IInv, NEW c \in Clients, Flag(c)
  PROVE  IInv'
<1>1. /\ view[c] # "out" /\ IsIdle(c) /\ req' = [req EXCEPT ![c] = Asked(c, "flag")]
      /\ UNCHANGED <<live, g, behind, missed, view, rec>>
      /\ UNCHANGED <<queue, resolved, nextTicket, page>>
      /\ faults \subseteq faults' /\ "flagged" \in faults' /\ "flag" \in Ops
  BY DEF Flag, KeepMatch, Fault, Ops
<1> QED BY <1>1, AskKeeps

LEMMA DeliverKeeps ==
  ASSUME IInv, NEW c \in Clients, Deliver(c)
  PROVE  IInv'
<1> DEFINE sees == IF live THEN Seen(g, Seat(c)) ELSE "gone"
<1>1. /\ view[c] = "watch" /\ Shares(c) /\ IsIdle(c)
      /\ view' = [view EXCEPT ![c] = sees]
      /\ behind' = behind \ {c} /\ missed' = missed \ {c}
      /\ UNCHANGED <<live, g, req, rec>> /\ UNCHANGED matchVars
  BY DEF Deliver
<1>2. /\ RequestsOK /\ MatchOK /\ SheetsOK /\ NoticesOK /\ c \in Slots
      /\ g \in Games /\ TurnOK(g, Late) /\ Keeps(g, g) /\ view \in [Clients -> Views]
      /\ req \in [Slots -> Requests]
  BY SameKeeps, ClientsAreSlots DEF IInv, GameOK, RequestsOK, MatchOK, PagesTyped
<1>3. sees \in Views
  BY SeenIsView DEF Views
<1>4. live /\ sees = "mine" => HasTheMove(c)
  BY <1>1, <1>2, SeenMine
<1> HIDE DEF sees
<1>5. rec.started # 0
  BY <1>1, <1>2 DEF MatchOK, NotBegun
<1>6. MatchOK'
  BY <1>1, <1>2, <1>3, <1>5, ViewMoves DEF matchVars
<1>7. RequestsOK'
  <2>1. ASSUME NEW y \in Slots PROVE RequestOK(y)'
    <3>1. RequestOK(y) /\ req'[y] = req[y] /\ (y \in Clients /\ ~IsIdle(y) => view'[y] = view[y])
      BY <1>1, <1>2 DEF RequestsOK
    <3>2. UNCHANGED page /\ faults \subseteq faults'
      BY <1>1 DEF matchVars
    <3> QED BY <3>1, <3>2, StillRequest
  <2> QED BY <1>1, <1>2, <2>1 DEF RequestsOK
<1>8. NoticesOK'
  <2>1. \A d \in Watchers : d # c => d \in Watchers'
    BY <1>1, <1>2 DEF Watchers, Shares, Seat, matchVars
  <2> QED BY <1>1, <1>2, <2>1 DEF NoticesOK, Waking, AtOneOf, At_, IsIdle
<1>9. ASSUME NEW d \in Clients, live, Shares(d), view'[d] = "mine", Unwritten(d)'
      PROVE  HasTheMove(d)
  <2>1. CASE d = c
    BY <1>1, <1>2, <1>4, <1>9, <2>1
  <2>2. CASE d # c
    <3>1. view[d] = "mine" /\ Unwritten(d)
      BY <1>1, <1>2, <1>9, <2>2 DEF Unwritten, AtOneOf, IsIdle
    <3> QED BY <1>2, <1>9, <3>1 DEF SheetsOK
  <2> QED BY <2>1, <2>2
<1> QED BY <1>1, <1>2, <1>6, <1>7, <1>8, <1>9, PageStep DEF matchVars

LEMMA GiveUpKeeps ==
  ASSUME IInv, NEW c \in Clients, GiveUp(c)
  PROVE  IInv'
<1> DEFINE v == [view EXCEPT ![c] = "blind"]
<1>1. /\ ~IsIdle(c) /\ IsIdle(Loose) /\ req[c].op = "place"
      /\ req' = [req EXCEPT ![Loose] = req[c], ![c] = Idle]
      /\ SetViews(v) /\ "gave up" \in faults' /\ faults \subseteq faults'
      /\ UNCHANGED <<live, g, rec>> /\ UNCHANGED <<queue, resolved, nextTicket, page>>
  BY DEF GiveUp, Fault, KeepMatch
<1>2. /\ RequestsOK /\ MatchOK /\ TeamOK /\ GameOK /\ SheetsOK /\ NoticesOK /\ RecorderOK
      /\ view \in [Clients -> Views] /\ req \in [Slots -> Requests]
      /\ c \in Slots /\ Loose \in Slots /\ c # Loose
  BY ClientsAreSlots, Constants DEF IInv, MatchOK, PagesTyped, RequestsOK
<1>3. /\ req'[Loose] = req[c] /\ req'[c] = Idle
      /\ \A y \in Slots : y # c /\ y # Loose => req'[y] = req[y]
      /\ req' \in [Slots -> Requests]
  BY <1>1, <1>2, IdleIsRequest
<1>4. view' = v /\ view'[c] = "blind" /\ (\A d \in Clients : d # c => view'[d] = view[d])
  BY <1>1, <1>2 DEF SetViews
<1>5. /\ req[c].by = c /\ view[c] # "out" /\ req[c] \in Requests
      /\ req[c].at \in Stages(req[c].op) /\ req[c].op # "flag"
  BY <1>1, <1>2 DEF RequestsOK, RequestOK
<1>6. MatchOK'
  <2>1. rec.started # 0 /\ "blind" \in Views
    BY <1>2, <1>5 DEF MatchOK, NotBegun, Views
  <2> QED BY <1>1, <1>2, <1>4, <1>5, <2>1, ViewMoves
<1>7. RequestsOK'
  <2>1. RequestOK(c)'
    BY <1>3, IdleIsRequest DEF RequestOK, IsIdle
  <2>2. RequestOK(Loose)'
    BY <1>1, <1>2, <1>3, <1>5, Constants DEF RequestOK, IsIdle
  <2>3. ASSUME NEW y \in Slots, y # c, y # Loose PROVE RequestOK(y)'
    <3>1. RequestOK(y) /\ req'[y] = req[y] /\ (y \in Clients /\ ~IsIdle(y) => view'[y] = view[y])
      BY <1>2, <1>3, <1>4, <2>3 DEF RequestsOK
    <3> QED BY <1>1, <3>1, StillRequest
  <2> QED BY <1>3, <2>1, <2>2, <2>3 DEF RequestsOK
<1>8. g \in Games /\ Keeps(g, g) /\ Later(g, g) /\ Late' /\ (Solo' <=> Solo)
  BY <1>1, <1>2, SameKeeps DEF GameOK, Keeps, Late, Solo, At
<1>9. TeamOK'
  BY <1>1, <1>2, <1>8, TeamStays
<1>10. GameOK'
  <2>1. TurnOK(g', Late')
    BY <1>1, <1>2, <1>8, LateIs, TurnLater DEF GameOK
  <2> QED BY <1>1, <1>2, <1>8, <2>1 DEF GameOK, NoReplyToStale
<1>11. NoticesOK'
  <2>1. Waking(c) => Waking(Loose)'
    BY <1>3 DEF Waking, AtOneOf, At_, IsIdle
  <2>2. \A y \in Slots : y # c /\ Waking(y) => Waking(y)'
    <3>1. ~Waking(Loose)
      BY <1>1 DEF Waking, AtOneOf, At_
    <3> QED BY <1>3, <3>1 DEF Waking, AtOneOf, At_, IsIdle
  <2> QED BY <1>1, <1>2, <2>1, <2>2, ViewsWake
<1>12. RecorderOK'
  <2>1. \A y \in Slots : \E z \in Slots : req'[y] = req[z]
    <3>1. req[Loose] = Idle
      BY <1>1, <1>2, Asking
    <3> QED BY <1>2, <1>3, <3>1
  <2>2. ~Writing(c)' /\ (Writing(Loose)' => Writing(c)) /\ ~Writing(Loose)
        /\ \A y \in Slots : y # c /\ y # Loose => (Writing(y)' <=> Writing(y))
    BY <1>1, <1>3, IdleIsRequest DEF Writing, AtOneOf, IsIdle
  <2>3. \A y, z \in Slots : Writing(y) /\ Writing(z) => y = z
    BY <1>2 DEF RecorderOK, OneWriter
  <2>4. \A y, z \in Slots : Writing(y)' /\ Writing(z)' => y = z
    BY <1>2, <2>2, <2>3
  <2> QED BY <1>1, <1>2, <1>8, <2>1, <2>4, RecorderStays
<1>13. SheetsOK'
  <2>1. SheetsStayApart'
    BY <1>1 DEF SheetsStayApart
  <2>2. MadeByPlayers'
    <3>1. ~Solo => At(c, "playing")
      BY <1>2, <1>5, SoloOrShared
    <3>2. MadeByPlayers
      BY <1>2 DEF SheetsOK
    <3> QED BY <1>1, <1>3, <1>5, <1>8, <3>1, <3>2 DEF MadeByPlayers, At
  <2> QED BY <1>8, <2>1, <2>2 DEF SheetsOK, HasTheMove
<1> QED BY <1>6, <1>7, <1>9, <1>10, <1>11, <1>12, <1>13 DEF IInv

LEMMA MatchKeeps ==
  ASSUME IInv, Match
  PROVE  IInv'
<1>1. /\ RequestsOK' /\ MatchOK' /\ UNCHANGED gameVars /\ faults \subseteq faults'
      /\ DOMAIN resolved' \subseteq DOMAIN resolved
      /\ \A t \in DOMAIN resolved' : resolved'[t] = resolved[t]
      /\ Solo => Solo'
      /\ \A c \in Clients : At(c, "playing") => At(c, "playing")' /\ page'[c] = page[c]
      /\ \A c \in Clients : At(c, "playing")' /\ ~At(c, "playing") =>
           \E t \in DOMAIN resolved : page'[c].seat = resolved[t]
  BY MatchKeepsPlayers DEF IInv
<1>2. /\ RequestsOK /\ MatchOK /\ TeamOK /\ GameOK /\ SheetsOK /\ NoticesOK /\ RecorderOK
      /\ UNCHANGED <<live, g, behind, missed, view, req, rec>>
  BY <1>1 DEF IInv, gameVars
<1>3. \A c \in Clients : /\ Shares(c) <=> At(c, "playing")
                         /\ Shares(c)' <=> At(c, "playing")'
  <2>1. \A c \in Clients :
          IF At(c, "playing")' THEN Seat(c)' \in Seats ELSE Seat(c)' = NoSeat
    BY <1>1 DEF MatchOK, SeatsOK
  <2> QED BY <1>2, <2>1, SoloOrShared, Constants DEF Shares
<1>4. \A c \in Clients : Shares(c) => Shares(c)' /\ Seat(c)' = Seat(c)
  BY <1>1, <1>3 DEF Seat
<1>5. \A c \in Clients : Shares(c)' /\ view[c] # "out" => Shares(c)
  <2> SUFFICES ASSUME NEW c \in Clients, Shares(c)', view[c] # "out", ~Shares(c)
               PROVE  FALSE
    OBVIOUS
  <2>1. At(c, "playing")' /\ ~At(c, "playing")
    BY <1>3
  <2>2. ~Solo
    BY <1>1, <2>1 DEF Solo
  <2> QED BY <1>2, <2>2, SoloOrShared
<1>6. g \in Games /\ TurnOK(g, Late) /\ Keeps(g, g) /\ Later(g, g) /\ (Late => Late')
  BY <1>1, <1>2, SameKeeps DEF GameOK, Keeps, Late
<1>7. TeamOK'
  <2> SUFFICES ASSUME live', ~(Solo')
               PROVE  \E a, b \in Seats : TeamIs(a, b)'
    BY DEF TeamOK
  <2>1. PICK a \in Seats, b \in Seats : TeamIs(a, b)
    BY <1>1, <1>2 DEF TeamOK
  <2>2. \A c \in Clients : At(c, "playing")' => page'[c].seat \in {a, b}
    BY <1>1, <2>1 DEF TeamIs, Seat
  <2>3. TeamIs(a, b)'
    BY <1>1, <1>2, <2>1, <2>2 DEF TeamIs, Seat
  <2> QED BY <2>3
<1>8. GameOK'
  BY <1>1, <1>2, <1>6, LateIs, GameStays DEF At_, IsIdle
<1>9. NoticesOK'
  <2>1. Watchers \subseteq Watchers'
    BY <1>2, <1>4 DEF Watchers
  <2> QED BY <1>2, <2>1 DEF NoticesOK, Waking, AtOneOf, At_, IsIdle
<1>10. RecorderOK'
  <2>1. \A y, z \in Slots : Writing(y)' /\ Writing(z)' => y = z
    BY <1>2 DEF RecorderOK, OneWriter, Writing, AtOneOf, IsIdle
  <2> QED BY <1>1, <1>2, <1>6, <2>1, RecorderStays
<1>11. SheetsOK'
  <2>1. MadeByPlayers'
    <3>1. MadeByPlayers /\ (Solo => Solo')
          /\ \A c \in Clients : At(c, "playing") => At(c, "playing")'
      BY <1>1, <1>2 DEF SheetsOK
    <3>2. g' = g /\ (~(IsIdle(Loose)') => /\ req'[Loose].by \in Clients
                               /\ ~IsIdle(Loose) /\ req'[Loose].by = req[Loose].by)
      BY <1>2, ClientsAreSlots, Asking DEF IsIdle
    <3> QED BY <3>1, <3>2, MadeStays
  <2>2. SheetsStayApart'
    <3>1. ASSUME NEW i \in DOMAIN g.history, NEW c \in Clients, g.history[i].by = c,
                 Shares(c)', g.history[i].seat # Seat(c)'
          PROVE  "gave up" \in faults' \/ Seat(c)' \in g.takenOver
      <4>1. CASE Shares(c)
        <5>1. Seat(c)' = Seat(c)
          BY <1>4, <4>1
        <5>2. "gave up" \in faults \/ Seat(c) \in g.takenOver
          BY <1>2, <3>1, <4>1, <5>1 DEF SheetsOK, SheetsStayApart
        <5> QED BY <1>1, <5>1, <5>2
      <4>2. CASE ~Shares(c)
        <5>1. At(c, "playing")' /\ ~At(c, "playing")
          BY <1>3, <3>1, <4>2
        <5>2. ~Solo
          BY <1>1, <5>1 DEF Solo
        <5> QED BY <1>2, <3>1, <5>1, <5>2 DEF SheetsOK, MadeByPlayers
      <4> QED BY <4>1, <4>2
    <3> QED BY <1>2, <3>1 DEF SheetsStayApart
  <2>3. ASSUME live', NEW c \in Clients, Shares(c)', view'[c] = "mine", Unwritten(c)'
        PROVE  HasTheMove(c)'
    <3>1. Shares(c) /\ Seat(c)' = Seat(c)
      BY <1>2, <1>4, <1>5, <2>3
    <3>2. HasTheMove(c)
      BY <1>2, <2>3, <3>1 DEF SheetsOK, Unwritten, AtOneOf, IsIdle
    <3> QED BY <1>2, <1>6, <3>1, <3>2 DEF HasTheMove
  <2> QED BY <2>1, <2>2, <2>3 DEF SheetsOK
<1> QED BY <1>1, <1>7, <1>8, <1>9, <1>10, <1>11 DEF IInv

-----------------------------------------------------------------------------
(* The game starts.                                                         *)

\* A game that nobody has played yet.
Fresh(h) ==
  /\ h \in Games /\ (\A late \in BOOLEAN : TurnOK(h, late)) /\ ~CutShort(h) /\ ~Stale(h)
  /\ h.history = <<>>

LEMMA BeginningIs ==
  ASSUME MatchOK, rec.started = 0
  PROVE  /\ ~live /\ rec = NoRecord /\ missed = {} /\ Solo
         /\ \A c \in Clients : view[c] = "out"
         /\ \A x \in Slots : IsIdle(x)
BY DEF MatchOK, NotBegun

LEMMA StartedGame ==
  ASSUME IInv, rec.started = 0, NEW h, Fresh(h), FreshGame(h), RequestsOK', MatchOK',
         TeamOK', UNCHANGED <<behind, missed, req>>,
         \A c \in Clients : Shares(c)' => view'[c] # "mine"
  PROVE  IInv'
<1>1. /\ rec = NoRecord /\ missed = {} /\ \A x \in Slots : IsIdle(x)
  BY BeginningIs DEF IInv
<1>2. /\ live' = TRUE /\ g' = h
      /\ rec' = [active |-> TRUE, known |-> TRUE, started |-> 1,
                 finished |-> <<>>, marked |-> 0, file |-> "none"]
  <2>1. rec' = [rec EXCEPT !.active = TRUE, !.known = TRUE, !.started = rec.started + 1]
    BY DEF FreshGame, GameStarted
  <2>2. rec.started + 1 = 1
    OBVIOUS
  <2>3. rec' = [NoRecord EXCEPT !.active = TRUE, !.known = TRUE, !.started = 1]
    BY <1>1, <2>1, <2>2
  <2>4. rec' = [active |-> TRUE, known |-> TRUE, started |-> 1,
                finished |-> <<>>, marked |-> 0, file |-> "none"]
    BY <2>3 DEF NoRecord
  <2> QED BY <2>4 DEF FreshGame
<1>3. \A x \in Slots : IsIdle(x)' /\ \A s : ~At_(x, s)'
  BY <1>1 DEF IsIdle, At_
<1>4. GameOK'
  <2>1. TurnOK(h, Late') /\ ~CutShort(h) /\ ~Stale(h) /\ h \in Games
    BY LateIs DEF Fresh
  <2> QED BY <1>2, <2>1 DEF GameOK, NoReplyToStale
<1>5. SheetsOK'
  <2>1. DOMAIN g'.history = {}
    BY <1>2 DEF Fresh
  <2> QED BY <1>3, <2>1, ClientsAreSlots DEF SheetsOK, SheetsStayApart, MadeByPlayers
<1>6. NoticesOK'
  BY <1>1 DEF NoticesOK
<1>7. RecorderOK'
  <2>1. \A x \in Slots : ~Writing(x)' /\ ~Flagging(x)' /\ ~At_(x, "claim")'
    BY <1>3 DEF Writing, Flagging, AtOneOf
  <2>2. /\ rec'.active /\ rec'.started = 1 /\ rec'.finished = <<>> /\ rec'.file = "none"
        /\ DOMAIN rec'.finished = {}
    BY <1>2
  <2>3. RecTyped'
    BY <1>2 DEF RecTyped, FileTexts
  <2>4. Unrecorded' /\ OneWriter' /\ FlagsLater' /\ OneLine' /\ TeamOfGame'
    BY <2>1, <2>2 DEF Unrecorded, OneWriter, FlagsLater, OneLine, TeamOfGame
  <2> QED BY <2>3, <2>4 DEF RecorderOK
<1> QED BY <1>4, <1>5, <1>6, <1>7 DEF IInv

LEMMA AloneKeeps ==
  ASSUME IInv, NEW c \in Clients, NEW h, Fresh(h), PlayAlone(c, h)
  PROVE  IInv'
<1>1. /\ rec.started = 0 /\ FreshGame(h)
      /\ view' = [view EXCEPT ![c] = Seen(h, NoSeat)]
      /\ UNCHANGED <<behind, missed, prompt, req>> /\ UNCHANGED matchVars
  BY DEF PlayAlone
<1>2. /\ rec = NoRecord /\ Solo /\ (\A d \in Clients : view[d] = "out")
      /\ (\A x \in Slots : IsIdle(x)) /\ RequestsOK /\ MatchOK
  BY <1>1, BeginningIs DEF IInv
<1>3. Solo' /\ (\A d \in Clients : ~Shares(d)')
  <2>1. Solo'
    BY <1>1, <1>2 DEF Solo, At, matchVars
  <2>2. \A d \in Clients : ~Shares(d)
    BY <1>2, SoloOrShared
  <2> QED BY <1>1, <2>1, <2>2 DEF Shares, Seat, matchVars
<1>4. RequestsOK'
  BY <1>1, <1>2 DEF RequestsOK, RequestOK, IsIdle, matchVars
<1>5. MatchOK'
  <2>1. view \in [Clients -> Views] /\ Seen(h, NoSeat) \in Views
    BY <1>2, SeenIsView DEF MatchOK, PagesTyped
  <2>2. PagesTyped' /\ SeatsOK'
    BY <1>1, <1>2, <2>1 DEF MatchOK, PagesTyped, SeatsOK, At, Seat, matchVars
  <2>3. rec'.started = 1
    BY <1>1, <1>2 DEF FreshGame, GameStarted, NoRecord
  <2>4. TicketsOK'
    BY <1>1, <1>2, <2>3 DEF MatchOK, TicketsOK, At, Seat, matchVars
  <2>5. NotBegun'
    BY <2>3 DEF NotBegun
  <2>6. PlayersOK'
    BY <1>1, <1>2, <1>3, <2>1 DEF PlayersOK
  <2> QED BY <2>2, <2>4, <2>5, <2>6 DEF MatchOK
<1>6. TeamOK'
  BY <1>3 DEF TeamOK
<1> QED BY <1>1, <1>3, <1>4, <1>5, <1>6, StartedGame

LEMMA SoloKeeps ==
  ASSUME IInv, NEW c \in Clients, SoloStart(c)
  PROVE  IInv'
<1>1. CASE \E humans \in SoloGames : PlayAlone(c, NewGame(humans))
  <2>1. PICK humans \in SoloGames : PlayAlone(c, NewGame(humans))
    BY <1>1
  <2>2. humans \in SUBSET Seats
    BY ServerAssumption
  <2>3. Fresh(NewGame(humans))
    BY <2>2, NewGameIs DEF Fresh
  <2> QED BY <2>1, <2>3, AloneKeeps
<1>2. CASE \E humans \in SoloGames, p \in Positions :
             PlayAlone(c, NewGameFromBoard(humans, p.left, p.first))
  <2>1. PICK humans \in SoloGames, p \in Positions :
          PlayAlone(c, NewGameFromBoard(humans, p.left, p.first))
    BY <1>2
  <2>2. humans \in SUBSET Seats
    BY ServerAssumption
  <2>3. Fresh(NewGameFromBoard(humans, p.left, p.first))
    BY <2>2, BoardGameIs DEF Fresh
  <2> QED BY <2>1, <2>3, AloneKeeps
<1> QED BY <1>1, <1>2 DEF SoloStart

\* A record of a page that the matchmaker pairs.
LEMMA PairKeepsPlayers ==
  ASSUME IInv, NEW c \in Clients, NEW team \in HumanTeams, Pair(c, team)
  PROVE  RequestsOK' /\ MatchOK' /\ TeamOK'
<1> DEFINE p == [at |-> "playing", ticket |-> NoTicket, seat |-> team[2]]
           h == MarkShared(NewGame({team[1], team[2]}), {team[1], team[2]})
<1>1. /\ rec.started = 0 /\ FreshGame(h) /\ MayJoin(c) /\ KeptQueue # {}
      /\ queue' = KeptQueue \ {Oldest} /\ nextTicket' = nextTicket
      /\ resolved' = [t \in DOMAIN Kept \cup {Oldest} |->
                        IF t = Oldest THEN team[1] ELSE Kept[t]]
      /\ Told(c, p) /\ UNCHANGED <<behind, missed, view, prompt, req>>
  BY DEF Pair, JoinPairs
<1>2. /\ rec = NoRecord /\ Solo /\ (\A d \in Clients : view[d] = "out")
      /\ (\A x \in Slots : IsIdle(x)) /\ RequestsOK /\ MatchOK
      /\ DOMAIN resolved = {} /\ (\A d \in Clients : ~At(d, "playing"))
  BY <1>1, BeginningIs DEF IInv, Solo
<1>3. /\ team[1] \in Seats /\ team[2] \in Seats /\ team[1] # team[2]
      /\ Seats \subseteq Int /\ NoSeat \notin Seats
  BY Constants
<1>4. Oldest \in KeptQueue /\ KeptQueue \subseteq 1 .. (nextTicket - 1)
  <2>1. KeptQueue \subseteq 1 .. (nextTicket - 1) /\ nextTicket \in Nat
    BY <1>2 DEF KeptQueue, MatchOK, PagesTyped
  <2>2. KeptQueue \subseteq Nat
    BY <2>1
  <2>3. \E t \in KeptQueue : \A u \in KeptQueue : t <= u
    BY <1>1, <2>2, LeastNatural
  <2> QED BY <2>1, <2>3 DEF Oldest
<1>5. resolved' = [t \in {Oldest} |-> team[1]] /\ DOMAIN resolved' = {Oldest}
      /\ resolved'[Oldest] = team[1]
  <2>1. DOMAIN Kept = {}
    BY <1>2 DEF Kept
  <2> QED BY <1>1, <2>1
<1>6. page \in [Clients -> [at : {"splash", "asks", "queued", "playing"},
                            ticket : Nat, seat : Int]]
  BY <1>2 DEF MatchOK, PagesTyped
<1>7. page[c].seat = NoSeat /\ \A d \in Clients : page[d].seat = NoSeat
  BY <1>2 DEF MatchOK, SeatsOK, Seat
<1>8. \E q \in [at : {"playing", "asks"}, ticket : Nat, seat : Int] :
        /\ page' = [page EXCEPT ![c] = q]
        /\ q.seat = IF q.at = "playing" THEN team[2] ELSE NoSeat
  <2>1. CASE page' = [page EXCEPT ![c] = p]
    <3>1. p \in [at : {"playing", "asks"}, ticket : Nat, seat : Int]
          /\ p.at = "playing" /\ p.seat = team[2]
      BY <1>3 DEF NoTicket
    <3> HIDE DEF p
    <3> QED BY <2>1, <3>1
  <2>2. CASE page' = [page EXCEPT ![c].at = "asks"]
    <3>1. page' = [page EXCEPT ![c] = [page[c] EXCEPT !.at = "asks"]]
      BY <1>6, <2>2
    <3>2. /\ [page[c] EXCEPT !.at = "asks"] \in [at : {"playing", "asks"}, ticket : Nat, seat : Int]
          /\ [page[c] EXCEPT !.at = "asks"].seat = NoSeat
          /\ [page[c] EXCEPT !.at = "asks"].at = "asks"
      BY <1>6, <1>7
    <3> QED BY <3>1, <3>2
  <2> QED BY <1>1, <2>1, <2>2 DEF Told
<1>9. PICK q \in [at : {"playing", "asks"}, ticket : Nat, seat : Int] :
        /\ page' = [page EXCEPT ![c] = q]
        /\ q.seat = IF q.at = "playing" THEN team[2] ELSE NoSeat
  BY <1>8
<1>10. /\ page' \in [Clients -> [at : {"splash", "asks", "queued", "playing"},
                                 ticket : Nat, seat : Int]]
       /\ page'[c] = q /\ \A d \in Clients : d # c => page'[d] = page[d]
  BY <1>2, <1>9, QueuePage
<1>11. /\ \A d \in Clients : At(d, "playing")' => d = c /\ page'[d].seat = team[2]
       /\ \A d \in Clients : ~(At(d, "playing")') => page'[d].seat = NoSeat
       /\ \A d \in Clients : At(d, "queued")' => At(d, "queued") /\ page'[d] = page[d]
  BY <1>2, <1>7, <1>9, <1>10 DEF At
<1>12. faults \subseteq faults'
  BY <1>1 DEF Told, Fault
<1>13. RequestsOK'
  BY <1>1, <1>2, <1>12 DEF RequestsOK, RequestOK, IsIdle
<1>14. rec'.started = 1 /\ live' = TRUE /\ g' = h
  <2>1. rec' = [rec EXCEPT !.active = TRUE, !.known = TRUE, !.started = rec.started + 1]
    BY <1>1 DEF FreshGame, GameStarted
  <2>2. rec.started + 1 = 1
    BY <1>1
  <2> QED BY <1>1, <1>2, <2>1, <2>2 DEF FreshGame, NoRecord
<1>15. PagesTyped'
  <2>1. queue' \subseteq 1 .. (nextTicket' - 1) /\ DOMAIN resolved' \subseteq 1 .. (nextTicket' - 1)
    BY <1>1, <1>4, <1>5
  <2>2. resolved' = [t \in DOMAIN resolved' |-> resolved'[t]]
    BY <1>5
  <2> QED BY <1>1, <1>2, <1>10, <2>1, <2>2 DEF MatchOK, PagesTyped
<1>16. SeatsOK'
  <2>1. \A d \in Clients : IF At(d, "playing")' THEN page'[d].seat \in Seats
                           ELSE page'[d].seat = NoSeat
    BY <1>3, <1>11
  <2>2. \A d, e \in Clients :
       d # e /\ At(d, "playing")' /\ At(e, "playing")' => page'[d].seat # page'[e].seat
    BY <1>11
  <2>3. \A t \in DOMAIN resolved' : resolved'[t] \in Seats
    BY <1>3, <1>5
  <2> QED BY <2>1, <2>2, <2>3 DEF SeatsOK, Seat
<1>17. TicketsOK'
  <2>1. \A t, u \in DOMAIN resolved' : t = u
    BY <1>5
  <2>2. \A t \in DOMAIN resolved' : \A d, e \in Clients :
          At(d, "queued")' /\ page'[d].ticket = t /\ At(e, "playing")' =>
            page'[e].seat # resolved'[t]
    BY <1>3, <1>5, <1>11
  <2>3. /\ \A d \in Clients : At(d, "queued")' => page'[d].ticket < nextTicket'
        /\ \A d, e \in Clients :
             d # e /\ At(d, "queued")' /\ At(e, "queued")' =>
               page'[d].ticket # page'[e].ticket
    BY <1>1, <1>2, <1>11 DEF MatchOK, TicketsOK
  <2> QED BY <2>1, <2>2, <2>3 DEF TicketsOK, Seat
<1>18. NotBegun' /\ PlayersOK'
  BY <1>1, <1>2, <1>14 DEF NotBegun, PlayersOK
<1>19. TeamOK'
  <2>1. h.human = {team[1], team[2]} /\ h.takenOver = {}
    BY <1>3, LateIs, SharedGameIs
  <2> HIDE DEF h
  <2>2. \A d \in Clients : At(d, "playing")' => Seat(d)' \in {team[1], team[2]}
    BY <1>11 DEF Seat
  <2>3. \A t \in DOMAIN resolved' : resolved'[t] \in {team[1], team[2]}
    BY <1>5
  <2>4. g'.human \cup g'.takenOver = {team[1], team[2]} /\ g'.human \cap g'.takenOver = {}
    BY <1>14, <2>1
  <2>5. TeamIs(team[1], team[2])'
    BY <2>2, <2>3, <2>4 DEF TeamIs
  <2> QED BY <1>3, <2>5 DEF TeamOK
<1> QED BY <1>13, <1>15, <1>16, <1>17, <1>18, <1>19 DEF MatchOK

LEMMA PairKeeps ==
  ASSUME IInv, NEW c \in Clients, NEW team \in HumanTeams, Pair(c, team)
  PROVE  IInv'
<1> DEFINE h == MarkShared(NewGame({team[1], team[2]}), {team[1], team[2]})
<1>1. /\ rec.started = 0 /\ FreshGame(h) /\ UNCHANGED <<behind, missed, view, prompt, req>>
  BY DEF Pair
<1>2. RequestsOK' /\ MatchOK' /\ TeamOK'
  BY PairKeepsPlayers
<1>5. {team[1], team[2]} \in SUBSET Seats
  BY Constants
<1>6. h \in Games /\ ~CutShort(h) /\ ~Stale(h) /\ h.history = <<>>
  BY <1>5, LateIs, SharedGameIs
<1>7. ASSUME NEW late \in BOOLEAN
      PROVE  TurnOK(h, late)
  BY <1>5, SharedGameIs
<1> HIDE DEF h
<1>3. Fresh(h)
  BY <1>6, <1>7 DEF Fresh
<1>4. \A d \in Clients : view'[d] # "mine"
  BY <1>1, BeginningIs DEF IInv
<1> QED BY <1>1, <1>2, <1>3, <1>4, StartedGame

\* The server stops and comes back.
LEMMA CrashKeeps ==
  ASSUME IInv, Crash
  PROVE  IInv'
<1> DEFINE v == [c \in Clients |->
                   IF ~IsIdle(c) \/ view[c] = "watch" THEN "blind" ELSE view[c]]
<1>1. /\ rec.started = 1 /\ live' = FALSE /\ g' = NoGame /\ rec' = Forgotten(rec)
      /\ req' = [x \in Slots |-> Idle]
      /\ queue' = {} /\ resolved' = <<>> /\ nextTicket' = 1
      /\ SetViews(v) /\ page' = page /\ faults' = faults \cup {"restarted"}
  BY DEF Crash, Fault, RecorderRestarted
<1>2. /\ RequestsOK /\ MatchOK /\ NoticesOK /\ RecorderOK
      /\ rec \in [active : BOOLEAN, known : BOOLEAN, started : {0, 1},
                  finished : Seq(Int), marked : Nat, file : FileTexts]
  BY DEF IInv, RecorderOK, RecTyped
<1>3. \A x \in Slots : req'[x] = Idle /\ IsIdle(x)' /\ \A s : ~At_(x, s)'
  BY <1>1, IdleIsRequest DEF IsIdle, At_
<1>4. /\ view' = v /\ view' \in [Clients -> Views]
      /\ \A c \in Clients : view'[c] # "out" => view[c] # "out"
  <2>1. view \in [Clients -> Views]
    BY <1>2 DEF MatchOK, PagesTyped
  <2>2. \A c \in Clients : ~IsIdle(c) => view[c] # "out"
    BY <1>2, ClientsAreSlots DEF RequestsOK, RequestOK
  <2> QED BY <1>1, <2>1, <2>2 DEF SetViews, Views
<1>5. DOMAIN resolved' = {} /\ resolved' = [t \in DOMAIN resolved' |-> resolved'[t]]
  BY <1>1
<1>6. /\ rec'.active = FALSE /\ rec'.started = 1 /\ rec'.finished = rec.finished
      /\ rec'.file = rec.file
      /\ rec' \in [active : BOOLEAN, known : BOOLEAN, started : {0, 1},
                   finished : Seq(Int), marked : Nat, file : FileTexts]
  BY <1>1, <1>2 DEF Forgotten
<1>7. RequestsOK'
  <2>1. req' \in [Slots -> Requests]
    BY <1>1, IdleIsRequest
  <2>2. \A x \in Slots : RequestOK(x)'
    BY <1>3, IdleIsRequest DEF RequestOK, IsIdle
  <2> QED BY <2>1, <2>2 DEF RequestsOK
<1>8. MatchOK'
  <2>1. PagesTyped'
    BY <1>1, <1>2, <1>4, <1>5 DEF MatchOK, PagesTyped
  <2>2. SeatsOK'
    BY <1>1, <1>2, <1>5 DEF MatchOK, SeatsOK, At, Seat
  <2>3. TicketsOK' /\ NotBegun'
    BY <1>5, <1>6 DEF TicketsOK, NotBegun
  <2>4. PlayersOK'
    <3>1. (\A c \in Clients : At(c, "playing")' <=> At(c, "playing"))
      BY <1>1 DEF At
    <3>2. CASE Solo
      BY <1>2, <1>4, <1>5, <3>1, <3>2 DEF MatchOK, PlayersOK, Solo
    <3>3. CASE ~Solo
      <4>1. \A c \in Clients : view'[c] # "out" => At(c, "playing")'
        BY <1>2, <1>4, <3>1, <3>3 DEF MatchOK, PlayersOK
      <4> QED BY <4>1 DEF PlayersOK, Solo
    <3> QED BY <3>2, <3>3
  <2> QED BY <2>1, <2>2, <2>3, <2>4 DEF MatchOK
<1>9. NoGame \in Games /\ TurnOK(NoGame, Late') /\ ~CutShort(NoGame) /\ ~Stale(NoGame)
      /\ NoGame.history = <<>>
  <2>1. {} \in SUBSET Seats
    OBVIOUS
  <2> QED BY <2>1, LateIs, NewGameIs DEF NoGame
<1>10. TeamOK' /\ GameOK'
  BY <1>1, <1>9 DEF TeamOK, GameOK, NoReplyToStale
<1>11. SheetsOK'
  <2>1. DOMAIN g'.history = {}
    BY <1>1, <1>9
  <2> QED BY <1>1, <1>3, <2>1, ClientsAreSlots DEF SheetsOK, SheetsStayApart, MadeByPlayers
<1>12. NoticesOK'
  <2>1. missed' \subseteq Watchers'
    BY <1>1, <1>2, ViewsSet DEF NoticesOK
  <2> QED BY <1>1, <2>1 DEF NoticesOK
<1>13. RecorderOK'
  <2>1. \A x \in Slots : ~Writing(x)' /\ ~Flagging(x)' /\ ~At_(x, "claim")'
    BY <1>3 DEF Writing, Flagging, AtOneOf
  <2>2. Whole(rec.file) => Whole(rec.file)'
    BY <1>1, <1>6 DEF Whole
  <2> QED BY <1>1, <1>2, <1>6, <2>1, <2>2
          DEF RecorderOK, RecTyped, Unrecorded, OneWriter, FlagsLater, OneLine, TeamOfGame
<1> QED BY <1>7, <1>8, <1>10, <1>11, <1>12, <1>13 DEF IInv

LEMMA HandleKeeps ==
  ASSUME IInv, NEW x \in Slots, Handle(x)
  PROVE  IInv'
<1>1. /\ RequestsOK /\ MatchOK /\ TeamOK /\ GameOK /\ SheetsOK /\ NoticesOK /\ RecorderOK
      /\ g \in Games
  BY DEF IInv, GameOK
<1>2. RequestsOK' /\ MatchOK'
  BY <1>1, HandleKeepsRequests, HandleKeepsPlayers
<1>3. TeamOK'
  <2>1. UNCHANGED <<resolved, page>>
    BY <1>1, HandleGoes DEF Framed, matchVars
  <2> QED BY <1>1, <2>1, HandleIsLater, TeamStays
<1>4. GameOK' /\ SheetsOK'
  BY <1>1, HandleKeepsGame, HandleKeepsSheets
<1>5. NoticesOK' /\ RecorderOK'
  BY <1>1, HandleKeepsNotices, HandleKeepsRecorder
<1> QED BY <1>2, <1>3, <1>4, <1>5 DEF IInv

-----------------------------------------------------------------------------
(* The invariant.                                                           *)

LEMMA BeginsWell == Init => IInv
<1> SUFFICES ASSUME Init PROVE IInv
  OBVIOUS
<1> DEFINE p == [at |-> "splash", ticket |-> NoTicket, seat |-> -1]
<1>1. /\ queue = {} /\ resolved = <<>> /\ nextTicket = 1
      /\ page = [c \in Clients |-> p]
      /\ live = FALSE /\ g = NoGame /\ missed = {}
      /\ view = [c \in Clients |-> "out"] /\ req = [x \in Slots |-> Idle]
      /\ rec = NoRecord
  BY DEF Init, InitMatch
<1>2. \A x \in Slots : req[x] = Idle /\ IsIdle(x) /\ \A s : ~At_(x, s)
  BY <1>1, IdleIsRequest DEF IsIdle, At_
<1>3. p \in [at : {"splash", "asks", "queued", "playing"}, ticket : Nat, seat : Int]
      /\ p.at = "splash" /\ p.seat = NoSeat
  BY DEF NoTicket, NoSeat
<1> HIDE DEF p
<1>4. \A c \in Clients : page[c] = p /\ view[c] = "out" /\ Seat(c) = NoSeat
        /\ ~At(c, "playing") /\ ~At(c, "queued")
  BY <1>1, <1>3 DEF Seat, At
<1>5. DOMAIN resolved = {} /\ resolved = [t \in DOMAIN resolved |-> resolved[t]]
  BY <1>1
<1>6. RequestsOK
  <2>1. req \in [Slots -> Requests]
    BY <1>1, IdleIsRequest
  <2>2. \A x \in Slots : RequestOK(x)
    BY <1>2, IdleIsRequest DEF RequestOK, IsIdle
  <2> QED BY <2>1, <2>2 DEF RequestsOK
<1>7. MatchOK
  <2>1. PagesTyped
    BY <1>1, <1>3, <1>5 DEF PagesTyped, Views
  <2>2. Solo /\ SeatsOK /\ TicketsOK
    BY <1>4, <1>5 DEF Solo, SeatsOK, TicketsOK
  <2>3. NotBegun /\ PlayersOK
    BY <1>1, <1>2, <1>4, <2>2 DEF NotBegun, PlayersOK
  <2> QED BY <2>1, <2>2, <2>3 DEF MatchOK
<1>9. NoGame \in Games /\ TurnOK(NoGame, Late) /\ ~CutShort(NoGame) /\ ~Stale(NoGame)
      /\ NoGame.history = <<>>
  <2>1. {} \in SUBSET Seats
    OBVIOUS
  <2> QED BY <2>1, LateIs, NewGameIs DEF NoGame
<1>10. TeamOK /\ GameOK
  BY <1>1, <1>9 DEF TeamOK, GameOK, NoReplyToStale
<1>11. SheetsOK
  <2>1. DOMAIN g.history = {}
    BY <1>1, <1>9
  <2> QED BY <1>1, <1>2, <2>1, ClientsAreSlots DEF SheetsOK, SheetsStayApart, MadeByPlayers
<1>12. NoticesOK
  BY <1>1 DEF NoticesOK
<1>13. RecorderOK
  <2>1. \A x \in Slots : ~Writing(x) /\ ~Flagging(x) /\ ~At_(x, "claim")
    BY <1>2 DEF Writing, Flagging, AtOneOf
  <2>2. RecTyped /\ rec.active = FALSE /\ rec.finished = <<>>
    BY <1>1 DEF RecTyped, NoRecord, FileTexts
  <2> QED BY <1>1, <2>1, <2>2
          DEF RecorderOK, Unrecorded, OneWriter, FlagsLater, OneLine, TeamOfGame
<1> QED BY <1>6, <1>7, <1>10, <1>11, <1>12, <1>13 DEF IInv

LEMMA StepsKeep == IInv /\ [Next]_vars => IInv'
<1> SUFFICES ASSUME IInv, [Next]_vars PROVE IInv'
  OBVIOUS
<1>1. ASSUME NEW c \in Clients,
             \/ \E team \in HumanTeams : Pair(c, team)
             \/ Enter(c) \/ SoloStart(c) \/ Drive(c) \/ Use(c) \/ Flag(c)
             \/ \E spins \in BOOLEAN : Tell(c, spins)
             \/ GiveUp(c) \/ Deliver(c) \/ Sweep(c) \/ Heartbeat(c)
      PROVE  IInv'
  BY <1>1, PairKeeps, EnterKeeps, SoloKeeps, DriveKeeps, UseKeeps, FlagKeeps, TellKeeps,
     GiveUpKeeps, DeliverKeeps, SweepKeeps, HeartbeatKeeps
<1>2. CASE UNCHANGED vars
  <2>1. /\ UNCHANGED <<live, g, behind, missed, view, prompt, req, rec>>
        /\ UNCHANGED <<queue, resolved, nextTicket, expired, page, faults>>
    BY <1>2 DEF vars, gameVars, matchVars
  <2>2. RequestsOK' /\ TeamOK' /\ GameOK'
    BY <2>1 DEF IInv, RequestsOK, RequestOK, IsIdle, Shares, Seat, TeamOK, TeamIs, Solo, At,
                GameOK, NoReplyToStale, At_, Late
  <2>3. MatchOK'
    BY <2>1 DEF IInv, MatchOK, PagesTyped, SeatsOK, TicketsOK, NotBegun, PlayersOK, Solo, At,
                Seat, IsIdle
  <2>4. SheetsOK' /\ NoticesOK'
    BY <2>1 DEF IInv, SheetsOK, SheetsStayApart, MadeByPlayers, HasTheMove, Unwritten, Late,
                Solo, At, At_, AtOneOf, IsIdle, Shares, Seat, NoticesOK, Watchers, Waking
  <2>5. RecorderOK'
    BY <2>1 DEF IInv, RecorderOK, RecTyped, Unrecorded, OneWriter, FlagsLater, OneLine,
                TeamOfGame, Writing, Flagging, Whole, AtOneOf, At_, IsIdle
  <2> QED BY <2>2, <2>3, <2>4, <2>5 DEF IInv
<1>3. CASE Next
  BY <1>1, <1>3, MatchKeeps, SilenceKeeps, HandleKeeps, CrashKeeps DEF Next
<1> QED BY <1>2, <1>3

-----------------------------------------------------------------------------
(* The theorems.                                                            *)

\* The sections, reads, writes and answers of every handler, the pages and the
\* recorder keep the invariant.
THEOREM ServerInvariant == Spec => []IInv
BY BeginsWell, StepsKeep, PTL DEF Spec

LEMMA ShownTurn == IInv => LiveTurnIsOfThisTurn
<1> SUFFICES ASSUME IInv, live, g.waiting
             PROVE  /\ g.turn.of # NoTurn =>
                         /\ g.turn.player = g.cur /\ g.turn.of = Thrown(g)
                         /\ \/ g.turn.holds = Rerolls - g.rolls
                            \/ "gave up" \in faults /\ CutShort(g)
                    /\ g.preview.seat = g.cur => g.preview.of = Thrown(g) \/ CutShort(g)
  BY DEF LiveTurnIsOfThisTurn
<1>1. MoverIsHuman(g) /\ TurnIsNow(g, Late) /\ PreviewIsNow(g)
  BY DEF IInv, GameOK, TurnOK
<1>2. g.cur \in g.human
  BY <1>1 DEF MoverIsHuman
<1> QED BY <1>1, <1>2 DEF TurnIsNow, PreviewIsNow, Late

\* A request that is to wake the watchers has its notify section to come.
LEMMA WillNotify ==
  ASSUME RequestsOK, NEW x \in Slots, Waking(x)
  PROVE  \E i \in DOMAIN req[x].at : req[x].at[i] = "notify"
<1> DEFINE at == req[x].at
           op == req[x].op
<1>1. /\ op \in Ops /\ at \in Stages(op)
      /\ \/ Head(at) \in {"reply", "play", "notify"}
         \/ Head(at) = "refresh" /\ op = "takeover"
  <2>1. ~IsIdle(x)
    BY DEF Waking, AtOneOf, At_
  <2>2. \/ Head(at) \in {"reply", "play", "notify"}
        \/ Head(at) = "refresh" /\ op = "takeover"
    BY DEF Waking, AtOneOf, At_
  <2> QED BY <2>1, <2>2, Asking
<1> HIDE DEF at, op
<1>2. at \in {<<"reply", "notify", "copy">>, <<"play", "notify", "copy">>,
              <<"notify", "copy">>, <<"refresh", "notify", "copy">>}
  <2>1. \A s \in Claiming : Head(s) \notin {"reply", "play", "notify", "refresh"}
    BY Table DEF Claiming
  <2>2. CASE op = "get"
    BY <1>1, <2>2, StagesAre, Table
  <2>3. CASE op = "hold"
    BY <1>1, <2>3, StagesAre, Table
  <2>4. CASE op = "place"
    BY <1>1, <2>1, <2>4, StagesAre, Table
  <2>5. CASE op = "step"
    BY <1>1, <2>1, <2>5, StagesAre, Table
  <2>6. CASE op = "play_all"
    BY <1>1, <2>1, <2>6, StagesAre, Table
  <2>7. CASE op = "bot_step"
    BY <1>1, <2>1, <2>7, StagesAre, Table
  <2>8. CASE op = "takeover"
    BY <1>1, <2>8, StagesAre, Table
  <2>9. CASE op = "delete"
    BY <1>1, <2>9, StagesAre, Table
  <2>10. CASE op = "flag"
    BY <1>1, <2>10, StagesAre, Table
  <2> QED BY <1>1, <2>2, <2>3, <2>4, <2>5, <2>6, <2>7, <2>8, <2>9, <2>10 DEF Ops
<1>3. at[1] = "notify" \/ at[2] = "notify"
  BY <1>2
<1>4. 1 \in DOMAIN at /\ 2 \in DOMAIN at
  BY <1>2
<1>5. \E i \in DOMAIN at : at[i] = "notify"
  BY <1>3, <1>4
<1> QED BY <1>5 DEF at

LEMMA WatchersSee == IInv => NoChangeUnseen
BY WillNotify DEF IInv, NoticesOK, NoChangeUnseen

LEMMA Recorded == IInv => RecordedOnce
<1> SUFFICES ASSUME IInv
             PROVE  RecordedOnce
  OBVIOUS
<1>1. RecTyped /\ OneLine /\ TeamOfGame
  BY DEF IInv, RecorderOK
<1>2. Len(rec.finished) <= rec.started
  <2>1. CASE rec.finished = <<>>
    <3>1. Len(rec.finished) = 0 /\ rec.started \in {0, 1}
      BY <1>1, <2>1 DEF RecTyped
    <3> QED BY <3>1
  <2>2. CASE rec.finished # <<>>
    <3>1. Len(rec.finished) = 1 /\ rec.started = 1
      BY <1>1, <2>2 DEF OneLine
    <3> QED BY <3>1
  <2> QED BY <2>1, <2>2
<1>3. live => \A i \in DOMAIN rec.finished : rec.finished[i] = HumanTeam(g)
  BY <1>1 DEF TeamOfGame
<1>4. ASSUME Listed(rec, FALSE) > 0
      PROVE  \/ Served(rec) \in {"game", "flagged"}
             \/ "flagged" \in faults /\ Served(rec) = "torn"
  <2>1. rec.finished # <<>>
    <3>1. Len(rec.finished) > 0
      BY <1>4 DEF Listed
    <3> QED BY <3>1
  <2>2. Whole(rec.file)
    BY <1>1, <2>1 DEF OneLine
  <2> QED BY <2>2 DEF Whole, Served
<1> QED BY <1>2, <1>3, <1>4 DEF RecordedOnce

\* While a player is waited for, what is shown and recorded of the turn is of
\* this turn: its player, its throw, its holds and the preview of its dice.
THEOREM ShownTurnIsThisOne == Spec => []LiveTurnIsOfThisTurn
<1>1. IInv => LiveTurnIsOfThisTurn
  BY ShownTurn
<1> QED BY <1>1, ServerInvariant, PTL

\* A page writes on its own sheet, unless its seat was handed to the network or
\* a placement that was given up arrived late.
THEOREM PagesKeepToTheirSheets == Spec => []SheetsStayApart
<1>1. IInv => SheetsStayApart
  BY DEF IInv, SheetsOK
<1> QED BY <1>1, ServerInvariant, PTL

\* Once the handlers have woken the watchers, every stream is about to send what
\* its page has not seen of the game.
THEOREM ChangesReachTheStreams == Spec => []NoChangeUnseen
<1>1. IInv => NoChangeUnseen
  BY WatchersSee
<1> QED BY <1>1, ServerInvariant, PTL

\* The finished game has one line in the index, with the team of its humans, and
\* its file is whole but for the rewriting of a flag.
THEOREM GameIsRecordedOnce == Spec => []RecordedOnce
<1>1. IInv => RecordedOnce
  BY Recorded
<1> QED BY <1>1, ServerInvariant, PTL
=============================================================================
