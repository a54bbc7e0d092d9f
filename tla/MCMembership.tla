---------------------------- MODULE MCMembership ---------------------------
(* Small instances of Membership: one actor at one group, with its leader. *)
EXTENDS Membership, FiniteSets, TLC

CONSTANTS ann, lea, ward, chair, client

\* The leader's seat comes and goes, and so does an outsider seat of ann's.
LeaderAndClient == {<<lea, ward, chair>>, <<ann, ward, client>>}

\* The leader's seat alone.
LeaderOnly == {<<lea, ward, chair>>}

AnnAtWard == {<<ann, ward>>}

(***************************************************************************)
(* Bound: while the group is open or hidden or nobody leads it, or a join  *)
(* is in flight or has left a request, one answer at a time is given and   *)
(* nobody is invited.  Answers read none of it but the request.            *)
(***************************************************************************)
JoinsMeetAnAnswer ==
  \/ ~LeadsIn(ward, lea)
  \/ open[ward]
  \/ hidden[ward]
  \/ \E c \in JoinCalls : joins[c] # Idle
  \/ \E p \in Pairs : request[p].state # "none"
  =>
    /\ \A i \in InviteCalls : invites[i] = Idle
    /\ \A b \in BatchCalls : batches[b] = Idle
    /\ Cardinality({x \in AnswerCalls : answers[x] # Idle}) <= 1

MCSpec == Init /\ [][Next /\ JoinsMeetAnAnswer']_vars

\* Answers that may be in flight are alike.
AnswerSymmetry == Permutations(AnswerCalls)
=============================================================================
