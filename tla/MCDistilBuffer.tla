--------------------------- MODULE MCDistilBuffer ---------------------------
(* Instances of DistilBuffer for TLC.                                        *)
EXTENDS DistilBuffer

CONSTANTS p1, p2

OneProducer  == {p1}
TwoProducers == {p1, p2}
=============================================================================
