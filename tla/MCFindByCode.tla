---------------------------- MODULE MCFindByCode ---------------------------
(* Small instances of FindByCode: one actor at one group, with its leader. *)
EXTENDS FindByCode, TLC

CONSTANTS ann, lea, ward, chair, client

\* The leader's seat comes and goes, and so does an outsider seat of ann's.
LeaderAndClient == {<<lea, ward, chair>>, <<ann, ward, client>>}

\* Bound: nobody decides or looks up while the group is hidden or ann an outsider.
JoinsAlone ==
  hidden[ward] \/ <<ann, ward, client>> \in seats =>
    /\ \A d \in DecideCalls : decides[d] = Idle
    /\ \A f \in LookupCalls : lookups[f] = Idle

MCLookupSpec == LookupInit /\ [][LookupNext /\ JoinsAlone']_lookupVars

\* Joins, and decisions, that may be in flight are alike.
CallSymmetry == Permutations(JoinCalls) \cup Permutations(DecideCalls)
=============================================================================
