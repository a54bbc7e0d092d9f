--------------------------- MODULE MCPopulations ---------------------------
(* Small instances of Populations: three groups, named in no order.  Two   *)
(* moves at once have left two of them above each other and the third      *)
(* beneath; or the third is yet to be created.                             *)
EXTENDS Populations, TLC

CONSTANTS ward, cell, choir, overtaker

Ring == ward :> cell @@ cell :> ward @@ choir :> cell
Pair == ward :> NoParent @@ cell :> ward

Shapes == {Ring, Pair}

\* Bound: two moves race only in a tree without figures and reads.
MovesRaceAlone ==
  moves[overtaker] # Idle => records = << >> /\ \A r \in ReadCalls : reads[r] = Idle

MCPopulationsSpec ==
  /\ PopulationsInit /\ [][PopulationsNext /\ MovesRaceAlone']_populationVars
  /\ \A r \in ReadCalls : WF_populationVars(ReadGoesOn(r))
=============================================================================
