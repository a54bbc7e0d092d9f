----------------------------- MODULE Membership ----------------------------
(***************************************************************************)
(* Joining and inviting over the same registrations, requests and seats,   *)
(* with the host assigning, removing, granting and ending seats meanwhile. *)
(***************************************************************************)
EXTENDS Joining, Inviting

vars == <<registered, request, seats, joinVars, inviteVars>>

Init == RegistrationsInit /\ JoiningInit /\ InvitingInit

Next ==
  \/ RegistrationsNext /\ UNCHANGED <<joinVars, inviteVars>>
  \/ JoiningNext /\ UNCHANGED inviteVars
  \/ InvitingNext /\ UNCHANGED joinVars

Spec == Init /\ [][Next]_vars

TypeOK == RegistrationsTypeOK /\ JoiningTypeOK /\ InvitingTypeOK

-----------------------------------------------------------------------------
(***************************************************************************)
(* A request is decided at most once for each time it became pending, and  *)
(* never while the decision already taken stands, whatever decisions,      *)
(* asks, open joins and acceptances raced for it (decide's conditional     *)
(* write, join_impl.go).                                                   *)
(***************************************************************************)
DecidedOncePerAsk ==
  \A p \in Pairs :
    Len(decisions[p]) + (IF Pending(p) THEN 1 ELSE 0) <= asks[p]

(***************************************************************************)
(* A decided request shows the latest of its decision records; one settled *)
(* by the group's policy or by an acceptance names nobody, and a pending   *)
(* one carries nothing of the decision before.                             *)
(***************************************************************************)
LatestDecisionShown ==
  \A p \in Pairs :
    LET r == request[p] IN
    /\ r.state = "declined" => r.by # Nobody
    /\ r.state \in {"none", "pending"} => r.by = Nobody
    /\ r.by = Nobody => ~r.silent
    /\ r.by # Nobody =>
         /\ decisions[p] # << >>
         /\ decisions[p][Len(decisions[p])] =
              [state |-> r.state, silent |-> r.silent, by |-> r.by]

(***************************************************************************)
(* The single retry of askToJoin is enough: a join that lost the insert    *)
(* finds the row the second time, so no ask ends in a duplicate error.     *)
(***************************************************************************)
RetryFindsRequest ==
  \A c \in JoinCalls :
    joins[c].step = "write" /\ joins[c].retried => joins[c].seen.state # "none"

(***************************************************************************)
(* The same of issueInvitation, single or in a batch.                      *)
(***************************************************************************)
RetryFindsInvitation ==
  /\ \A i \in InviteCalls :
       invites[i].step = "write" /\ invites[i].retried => invites[i].found
  /\ \A b \in BatchCalls :
       batches[b].step = "write" /\ batches[b].retried => batches[b].found

(***************************************************************************)
(* An answered invitation was answered before it lapsed, even when it was  *)
(* renewed between the answer's read and its write.                        *)
(***************************************************************************)
AnsweredInTime ==
  \A p \in Pairs :
    LET inv == invitation[p] IN
    inv.state \in {"accepted", "declined"} /\ inv.expires # Unset =>
      inv.answered < inv.expires

(***************************************************************************)
(* An answer stands: only issuing the invitation anew replaces it, so of   *)
(* an accept and a decline racing exactly one is written.                  *)
(***************************************************************************)
AnswerStands ==
  [][\A p \in Pairs :
       invitation[p].state \in {"accepted", "declined"} =>
         invitation'[p] = invitation[p] \/ invitation'[p].state = "pending"]_vars

(***************************************************************************)
(* Whoever a request's approval is for is registered by the very step that *)
(* approves it, whether a decider, an open group or an acceptance did.     *)
(***************************************************************************)
ApprovalRegisters ==
  [][\A p \in Pairs :
       Pending(p) /\ request'[p].state = "approved" => p \in registered']_vars

(***************************************************************************)
(* Except by AssignGroup, nobody becomes registered and leaves a pending   *)
(* request behind in the same step.                                        *)
(***************************************************************************)
EntrySettlesRequest ==
  [][\A p \in Pairs :
       /\ p \notin registered /\ p \in registered'
       /\ ~(AssignGroup(p) /\ UNCHANGED <<joinVars, inviteVars>>)
       => request'[p].state # "pending"]_vars

(***************************************************************************)
(* The tables implement Admission: the ins are the registrations, the      *)
(* wishes the requests' states, the offers the invitations'.               *)
(***************************************************************************)
Admits == INSTANCE Admission WITH
  in     <- registered,
  wishes <- [p \in Pairs |-> request[p].state],
  offers <- [p \in Pairs |-> invitation[p].state]

ImplementsAdmission == Admits!AdmissionSpec

-----------------------------------------------------------------------------
(***************************************************************************)
(* What the documentation says of a request that is asked for again after  *)
(* a decline: it comes back as an appeal.                                  *)
(***************************************************************************)
DeclineBecomesAppeal ==
  [][\A p \in Pairs :
       request[p].state = "declined" /\ request'[p].state = "pending" =>
         request'[p].appeal]_vars
=============================================================================
