--------------------------- MODULE MCPlayServer ---------------------------
EXTENDS PlayServer

CONSTANTS c1, c2

MCClients == {c1, c2}
MCTeams == {<<1, 3>>}
MCSolo == {{0, 2}}
\* The second seat is on move with one cell left for it and the two after it.
MCPositions == {[left |-> [s \in Seats |-> IF s = 0 THEN 0 ELSE 1], first |-> 1],
                [left |-> [s \in Seats |-> 0], first |-> 0]}
=============================================================================
