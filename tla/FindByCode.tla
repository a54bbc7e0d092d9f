----------------------------- MODULE FindByCode -----------------------------
(***************************************************************************)
(* FindGroupByCode beside everything that changes membership: what an      *)
(* actor who types a group's code is told of where they stand there, from  *)
(* a read of the registration and a later read of the request              *)
(* (join_by_code_impl.go).  JoinGroupByCode joins by the group so found;   *)
(* it is the byCode case of JoinGroup in Joining.                          *)
(***************************************************************************)
EXTENDS Membership

CONSTANTS LookupCalls  \* FindGroupByCode calls that may be in flight together

VARIABLES lookups      \* those calls

lookupVars == <<vars, lookups>>

CallerStates == {"member", "requested", "declined", "none"}

(***************************************************************************)
(* held is history: how the actor stood at the group, by the tables, at    *)
(* the states from the call's beginning to its answer.                     *)
(***************************************************************************)
LookupCall ==
  [step: {"assignment", "request"}, pair: Pairs, held: SUBSET CallerStates] \cup
  [step: {"answered"}, pair: Pairs, held: SUBSET CallerStates, state: CallerStates]

\* Mutant: a quiet decline is told as no request.
StateUnlessQuiet(r) ==
  CASE r.state = "pending" -> "requested"
    [] r.state = "declined" /\ ~r.silent -> "declined"
    [] OTHER -> "none"

\* What a request row says to an actor read as not registered.
StateOfRequest(r) ==
  CASE r.state = "pending" -> "requested"
    [] r.state = "declined" -> "declined"
    [] OTHER -> "none"

\* How the documentation has the actor stand, by both tables at once.
Standing(p) ==
  IF p \in registered THEN "member"
  ELSE CASE request[p].state = "pending" -> "requested"
         [] request[p].state = "declined" -> "declined"
         [] OTHER -> "none"

StandingNow == [p \in Pairs |-> Standing(p)]

Answer(f, state) == lookups' = [lookups EXCEPT ![f] =
  [step |-> "answered", pair |-> @.pair, held |-> @.held, state |-> state]]

-----------------------------------------------------------------------------
\* The group is found by its public code, hidden or not.
FindGroupByCode(f, p) ==
  /\ lookups[f] = Idle
  /\ lookups' = [lookups EXCEPT ![f] =
       [step |-> "assignment", pair |-> p, held |-> {Standing(p)}]]
  /\ UNCHANGED vars

LookForAssignment(f) ==
  /\ lookups[f].step = "assignment"
  /\ IF lookups[f].pair \in registered
     THEN Answer(f, "member")
     ELSE lookups' = [lookups EXCEPT ![f].step = "request"]
  /\ UNCHANGED vars

LookForRequest(f) ==
  /\ lookups[f].step = "request"
  /\ Answer(f, StateOfRequest(request[lookups[f].pair]))
  /\ UNCHANGED vars

LookupReturns(f) ==
  /\ lookups[f].step = "answered"
  /\ lookups' = [lookups EXCEPT ![f] = Idle]
  /\ UNCHANGED vars

\* Any other step, noted by the lookups still reading.
Meanwhile ==
  /\ Next
  /\ lookups' = [f \in LookupCalls |->
       IF lookups[f].step \in {"assignment", "request"}
       THEN [lookups[f] EXCEPT !.held = @ \cup {StandingNow'[lookups[f].pair]}]
       ELSE lookups[f]]

-----------------------------------------------------------------------------
LookupInit == Init /\ lookups = [f \in LookupCalls |-> Idle]

LookupNext ==
  \/ Meanwhile
  \/ \E f \in LookupCalls :
       \/ \E p \in Pairs : FindGroupByCode(f, p)
       \/ LookForAssignment(f) \/ LookForRequest(f) \/ LookupReturns(f)

LookupSpec == LookupInit /\ [][LookupNext]_lookupVars

-----------------------------------------------------------------------------
(***************************************************************************)
(* An answer is false of every moment of its call only where the actor was *)
(* registered at some moment of it: to an actor outside throughout, asking *)
(* and being declined meanwhile, it is always true of some moment.         *)
(***************************************************************************)
FalseOnlyToAMember ==
  \A f \in LookupCalls :
    lookups[f].step = "answered" =>
      lookups[f].state \in lookups[f].held \/ "member" \in lookups[f].held
=============================================================================
