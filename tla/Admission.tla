----------------------------- MODULE Admission -----------------------------
(***************************************************************************)
(* What the membership operations promise together, without their calls,   *)
(* reads, retries or clocks.  An actor gets into a group by being placed   *)
(* there, by walking in, by a granted wish or by a taken offer.  A wish is *)
(* granted, together with the entry, or refused, without one, and only     *)
(* while it is pending; so are offers taken and turned down.  Only wishing *)
(* or offering anew undoes an answer, and whoever gets in by their own     *)
(* doing leaves no pending wish behind.                                    *)
(***************************************************************************)
CONSTANT Pairs

VARIABLES
  in,      \* the pairs that are in
  wishes,  \* how each pair's wish stands
  offers   \* how each pair's offer stands

admissionVars == <<in, wishes, offers>>

AdmissionInit ==
  /\ in = {}
  /\ wishes = [p \in Pairs |-> "none"]
  /\ offers \in [Pairs -> {"none", "pending"}]

Enter(p) == in' = in \cup {p}

Wish(p)  == wishes' = [wishes EXCEPT ![p] = "pending"] /\ UNCHANGED <<in, offers>>
Offer(p) == offers' = [offers EXCEPT ![p] = "pending"] /\ UNCHANGED <<in, wishes>>

\* The wishes once whoever had one has come in otherwise.
Fulfilled(p) == IF wishes[p] = "pending" THEN [wishes EXCEPT ![p] = "approved"] ELSE wishes

Refuse(p) ==
  /\ wishes[p] = "pending"
  /\ wishes' = [wishes EXCEPT ![p] = "declined"]
  /\ UNCHANGED <<in, offers>>

Grant(p) ==
  /\ wishes[p] = "pending"
  /\ wishes' = [wishes EXCEPT ![p] = "approved"]
  /\ Enter(p)
  /\ UNCHANGED offers

WalkIn(p) == Enter(p) /\ wishes' = Fulfilled(p) /\ UNCHANGED offers

Take(p) ==
  /\ offers[p] = "pending"
  /\ offers' = [offers EXCEPT ![p] = "accepted"]
  /\ Enter(p)
  /\ wishes' = Fulfilled(p)

TurnDown(p) ==
  /\ offers[p] = "pending"
  /\ offers' = [offers EXCEPT ![p] = "declined"]
  /\ UNCHANGED <<in, wishes>>

Place(p) == Enter(p) /\ UNCHANGED <<wishes, offers>>
Leave(p) == in' = in \ {p} /\ UNCHANGED <<wishes, offers>>

AdmissionNext ==
  \E p \in Pairs :
    \/ Wish(p) \/ Offer(p) \/ Refuse(p) \/ Grant(p) \/ WalkIn(p)
    \/ Take(p) \/ TurnDown(p) \/ Place(p) \/ Leave(p)

AdmissionSpec == AdmissionInit /\ [][AdmissionNext]_admissionVars
=============================================================================
