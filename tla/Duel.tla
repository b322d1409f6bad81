-------------------------------- MODULE Duel --------------------------------
(***************************************************************************)
(* How two columns of opposing players are compared (src/engine/duel.cc).  *)
(* Pure definitions: a column enters by its raw score, bonus included, and *)
(* by whether it is clean.  The column's coefficient multiplies the result *)
(* and is left out.                                                        *)
(***************************************************************************)
EXTENDS Integers

UpperSectionBonus(sum) ==
  CASE sum >= 100           -> 500
    [] sum \in 90..99       -> 200
    [] sum \in 80..89       -> 100
    [] sum \in 70..79       -> 50
    [] sum \in 60..69       -> 30
    [] OTHER                -> 0

\* A column can be clean from 60 points in the number rows on.
CleanFrom == 60

CrushMultiplier(my, opp) ==
  IF opp = 0 THEN (IF my > 0 THEN 5 ELSE 1)
  ELSE IF my >= 5 * opp THEN 5
  ELSE IF my >= 4 * opp THEN 4
  ELSE IF my >= 3 * opp THEN 3
  ELSE IF my >= 2 * opp THEN 2
  ELSE 1

ActiveCrush(raw0, raw1) ==
  IF CrushMultiplier(raw0, raw1) > CrushMultiplier(raw1, raw0)
  THEN CrushMultiplier(raw0, raw1) ELSE CrushMultiplier(raw1, raw0)

\* Mutant of CleanBonus: a crush voids the bonus.
CleanBonusVoid(raw0, raw1) == IF ActiveCrush(raw0, raw1) > 1 THEN 0 ELSE 200

\* The bonus for a clean column is the same for both sides of a pairing.
CleanBonus(raw0, raw1) == IF ActiveCrush(raw0, raw1) > 1 THEN 100 ELSE 200

\* The margin of the first side over the second.
PairingPoints(raw0, clean0, raw1, clean1) ==
  LET adj0 == raw0 + IF clean0 THEN CleanBonus(raw0, raw1) ELSE 0
      adj1 == raw1 + IF clean1 THEN CleanBonus(raw0, raw1) ELSE 0
  IN  (adj0 - adj1) * ActiveCrush(raw0, raw1)

=============================================================================
