----------------------------- MODULE MCRecords -----------------------------
(* Names in languages, delegations, group types and the counter of codes   *)
(* share no row: in each run of this instance one of the four moves,       *)
(* beside the others at rest.                                              *)
EXTENDS Translations, Delegations, GroupTypes, Codes, TLC

\* Bound: beside others that move, the counter has given out nothing.
CodesAtRest == CodesInit /\ counter = 0 /\ codes = {}

RecordsAtRest == TranslationsInit /\ DelegationsInit /\ GroupTypesInit

MCRecordsInit == RecordsAtRest /\ CodesInit

\* Bound: whoever moves finds the others as they were at first.
MCRecordsNext ==
  \/ /\ TranslationsNext /\ DelegationsInit /\ GroupTypesInit /\ CodesAtRest
     /\ UNCHANGED <<delegationVars, groupTypeVars, codeVars>>
  \/ /\ DelegationsNext /\ TranslationsInit /\ GroupTypesInit /\ CodesAtRest
     /\ UNCHANGED <<translationVars, groupTypeVars, codeVars>>
  \/ /\ GroupTypesNext /\ TranslationsInit /\ DelegationsInit /\ CodesAtRest
     /\ UNCHANGED <<translationVars, delegationVars, codeVars>>
  \/ /\ CodesNext /\ RecordsAtRest
     /\ UNCHANGED <<translationVars, delegationVars, groupTypeVars>>

MCRecordsSpec ==
  MCRecordsInit /\
  [][MCRecordsNext]_<<translationVars, delegationVars, groupTypeVars, codeVars>>

Symmetry ==
  Permutations(Types) \cup Permutations(Groups) \cup Permutations(Hierarchies) \cup
  Permutations(NodeTypes) \cup Permutations(TypeCalls)
=============================================================================
