---------------------------- MODULE Matchmaking ----------------------------
(***************************************************************************)
(* "Play with a friend" (src/ui/server.h): the handlers of join, poll and  *)
(* cancel, each one critical section of match_mutex_, and the page that    *)
(* calls them (src/ui/play_static/js), which retries a join whose answer   *)
(* did not arrive.  Two joiners become the two seats of one team.          *)
(***************************************************************************)
EXTENDS Integers, Sequences, FiniteSets

CONSTANTS Clients,     \* browsers
          Sleepers,    \* those whose page may sleep while it has a ticket
          MaxTickets,  \* bound: tickets that are given out
          MaxFaults    \* bound: kinds of faults that meet in one behaviour

ASSUME MatchAssumption == MaxTickets \in Nat /\ MaxFaults \in Nat

VARIABLES
  queue,       \* waiting_: the tickets in it; their numbers are their order
  resolved,    \* resolved_: ticket id -> seat, for the poll of its holder
  nextTicket,  \* next_ticket_id_
  expired,     \* tickets older than kMatchTtlMs that no prune has dropped yet
  page,        \* what each page believes: see Pages
  faults       \* the faults so far: each happens once at most

matchVars == <<queue, resolved, nextTicket, expired, page, faults>>

Tickets == 1..MaxTickets
NoTicket == 0

\* "splash": not in; "asks": its join was answered but the answer is lost;
\* "queued": polls its ticket; "playing": told its seat.
Pages == [at : {"splash", "asks", "queued", "playing"},
          ticket : Tickets \cup {NoTicket}, seat : Int]

Teams == {<<0, 2>>, <<1, 3>>}

Faults == {"answer lost", "seat silent", "gave up", "flagged", "restarted"}

\* Bound: a request that was given up, which may be handled at any later time,
\* meets no other fault.
Fault(kind) ==
  /\ kind \notin faults /\ Cardinality(faults) < MaxFaults
  /\ kind = "gave up" => faults = {}
  /\ "gave up" \notin faults
  /\ faults' = faults \cup {kind}

At(c, where) == page[c].at = where

InitMatch ==
  /\ queue = {}
  /\ resolved = <<>>
  /\ nextTicket = 1
  /\ expired = {}
  /\ page = [c \in Clients |-> [at |-> "splash", ticket |-> NoTicket, seat |-> -1]]
  /\ faults = {}

\* prune_matchmaking(): both kinds go by the time the ticket was made.
KeptQueue == queue \ expired
Kept == [t \in DOMAIN resolved \ expired |-> resolved[t]]

\* The answer to a join reaches the page or is lost on the way.
Told(c, answer) ==
  \/ /\ page' = [page EXCEPT ![c] = answer]
     /\ UNCHANGED faults
  \/ /\ Fault("answer lost")
     /\ page' = [page EXCEPT ![c].at = "asks"]

MayJoin(c) == At(c, "splash") \/ At(c, "asks")

\* handle_matchmake_join() with nobody waiting
JoinWaits(c) ==
  /\ MayJoin(c)
  /\ KeptQueue = {}
  /\ nextTicket <= MaxTickets
  /\ queue' = {nextTicket}
  /\ nextTicket' = nextTicket + 1
  /\ resolved' = Kept
  /\ expired' = {}
  /\ Told(c, [at |-> "queued", ticket |-> nextTicket, seat |-> -1])

\* The front of the queue.
Oldest == CHOOSE t \in KeptQueue : \A u \in KeptQueue : t <= u

\* handle_matchmake_join() with somebody waiting; the session is made here.
JoinPairs(c, team) ==
  /\ MayJoin(c)
  /\ KeptQueue # {}
  /\ queue' = KeptQueue \ {Oldest}
  /\ resolved' = [t \in DOMAIN Kept \cup {Oldest} |->
                    IF t = Oldest THEN team[1] ELSE Kept[t]]
  /\ expired' = {}
  /\ UNCHANGED nextTicket
  /\ Told(c, [at |-> "playing", ticket |-> NoTicket, seat |-> team[2]])

\* handle_matchmake_poll(): matched, still waiting, or expired; the page
\* leaves for its game, polls again, or joins again.
Poll(c) ==
  /\ At(c, "queued")
  /\ queue' = KeptQueue
  /\ resolved' = Kept
  /\ expired' = {}
  /\ LET t == page[c].ticket
     IN page' = [page EXCEPT ![c] =
          IF t \in DOMAIN Kept
          THEN [at |-> "playing", ticket |-> NoTicket, seat |-> Kept[t]]
          ELSE IF t \in KeptQueue THEN @
          ELSE [@ EXCEPT !.at = "splash", !.ticket = NoTicket]]
  /\ UNCHANGED <<nextTicket, faults>>

\* handle_matchmake_cancel(): a ticket that was matched meanwhile is not found.
Cancel(c) ==
  /\ At(c, "queued")
  /\ queue' = queue \ {page[c].ticket}
  /\ page' = [page EXCEPT ![c] = [at |-> "splash", ticket |-> NoTicket, seat |-> -1]]
  /\ UNCHANGED <<resolved, nextTicket, expired, faults>>

\* kMatchTtlMs passes for a ticket that is in the queue or has a page that has
\* not asked again since; tickets grow old in the order they were made.
Expire(t) ==
  /\ \/ t \in queue
     \/ t \in DOMAIN resolved /\ \E c \in Sleepers : page[c].ticket = t
  /\ t \notin expired
  /\ \A u \in queue : u < t => u \in expired
  /\ \A u \in DOMAIN resolved : u < t => u \in expired
  /\ expired' = expired \cup {t}
  /\ UNCHANGED <<queue, resolved, nextTicket, page, faults>>

MatchTypeOK ==
  /\ queue \subseteq Tickets
  /\ DOMAIN resolved \subseteq Tickets
  /\ nextTicket \in 1..(MaxTickets + 1)
  /\ expired \subseteq Tickets
  /\ page \in [Clients -> Pages]
  /\ faults \subseteq Faults /\ Cardinality(faults) <= MaxFaults
=============================================================================
