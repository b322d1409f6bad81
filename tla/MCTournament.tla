---------------------------- MODULE MCTournament ----------------------------
(* Instances of Tournament for TLC.                                          *)
EXTENDS Tournament

CONSTANTS a, b, c

MCRequests ==
    {[players |-> <<a, b>>, games |-> 3, loads |-> TRUE],
     [players |-> <<c, a, b>>, games |-> 1, loads |-> TRUE],
     [players |-> <<a, a>>, games |-> 1, loads |-> TRUE]}
=============================================================================
