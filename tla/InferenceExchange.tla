------------------------- MODULE InferenceExchange -------------------------
(***************************************************************************)
(* What the batcher promises the self-play pipeline, without batches, rows, *)
(* locks or threads: a game a worker submits for inference is answered once, *)
(* in the company of the other games of its batch, and every submitted game *)
(* is answered in the end, as long as the exchange is open.                 *)
(***************************************************************************)
CONSTANT Games

VARIABLES idle,        \* games in the available queue
          taken,       \* games a worker has in hand
          submitted,   \* games whose tensors await inference
          open         \* nobody has called stop() yet

vars == <<idle, taken, submitted, open>>

Init == idle = Games /\ taken = {} /\ submitted = {} /\ open = TRUE

Take(g) ==
    /\ g \in idle
    /\ idle' = idle \ {g}
    /\ taken' = taken \cup {g}
    /\ UNCHANGED <<submitted, open>>

Submit(g) ==
    /\ g \in taken
    /\ taken' = taken \ {g}
    /\ submitted' = submitted \cup {g}
    /\ UNCHANGED <<idle, open>>

(* One inference answers the games of one batch.                            *)
Answer(S) ==
    /\ S \subseteq submitted
    /\ idle' = idle \cup S
    /\ submitted' = submitted \ S
    /\ UNCHANGED <<taken, open>>

(* What is submitted may still be answered afterwards.                      *)
Close == open /\ open' = FALSE /\ UNCHANGED <<idle, taken, submitted>>

Next == \/ \E g \in Games : Take(g) \/ Submit(g)
        \/ \E S \in SUBSET submitted : Answer(S)
        \/ Close

Safety == Init /\ [][Next]_vars

(* No submitted game is forgotten while the exchange is open.               *)
Answering == \A g \in Games :
    WF_vars(open /\ \E S \in SUBSET submitted : g \in S /\ Answer(S))

Spec == Safety /\ Answering
=============================================================================
