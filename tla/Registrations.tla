--------------------------- MODULE Registrations ---------------------------
(***************************************************************************)
(* The rows every membership operation shares: who is registered at which  *)
(* group (actor_group_assignment), the one join request of an actor at a   *)
(* group (group_join_request) and the active role seats                    *)
(* (actor_role_assignment where active), with the reads made of them.      *)
(*                                                                         *)
(* A step is one SQL statement outside a transaction, one read inside it,  *)
(* or the writes of one transaction up to its commit: under READ COMMITTED *)
(* they appear together, and the rows written stay locked until then.  Two *)
(* windows that leaves out are Transactions' subject: the actor may be     *)
(* deregistered after an insert that did nothing, and an ask may commit    *)
(* after an entry found none to settle.                                    *)
(***************************************************************************)
EXTENDS Naturals, Sequences

CONSTANTS
  Members,        \* actors who join, are invited and are assigned
  Officers,       \* actors who decide requests and issue invitations
  Groups,
  Kinds,          \* role kinds
  LeadingKinds,   \* live kinds whose leads_group is set
  OutsiderKinds,  \* kinds created with outsider set
  Grantable,      \* the seats the bounded host grants
  Operator,       \* whoever the host vouches for as a decider
  Nobody          \* an empty decided_by

Actors == Members \cup Officers
Pairs  == Members \X Groups
Seats  == Actors \X Groups \X Kinds
Deciders == Officers \cup {Operator}

ASSUME KindsAssumption ==
  /\ LeadingKinds \subseteq Kinds
  /\ OutsiderKinds \subseteq Kinds
  /\ Grantable \subseteq Seats

ASSUME NobodyAssumption == Nobody \notin Deciders

VARIABLES
  registered,  \* the <<actor, group>> pairs holding an assignment row
  request,     \* each pair's join request row; NoRequest where none was inserted
  seats        \* the active <<actor, group, kind>> seats

RequestStates == {"none", "pending", "approved", "declined"}

RequestRow == [state: RequestStates, appeal: BOOLEAN, silent: BOOLEAN,
               by: Deciders \cup {Nobody}]

NoRequest == [state |-> "none", appeal |-> FALSE, silent |-> FALSE, by |-> Nobody]

\* A call slot with no call in flight.
Idle == [step |-> "idle"]

FirstAsk == [NoRequest EXCEPT !.state = "pending"]

Pending(p) == request[p].state = "pending"

(***************************************************************************)
(* An outsider holds at least one active outsider seat and no other kind.  *)
(***************************************************************************)
IsOutsider(a) ==
  LET held == {s \in seats : s[1] = a}
  IN  held # {} /\ \A s \in held : s[3] \in OutsiderKinds

LeadsIn(g, a) == \E k \in LeadingKinds : <<a, g, k>> \in seats

\* The request table once settlePendingJoinRequest has run for the pair.
SettlePendingJoinRequest(p) ==
  [request EXCEPT ![p] =
     IF @.state = "pending"
     THEN [@ EXCEPT !.state = "approved", !.silent = FALSE, !.by = Nobody]
     ELSE @]

Register(p) == registered' = registered \cup {p}

(***************************************************************************)
(* AssignGroup inserts the row after finding none.  On a row already there *)
(* it rewrites only the attributes, and an insert that lost to another is  *)
(* refused by the primary key: neither changes a row modelled here.  It    *)
(* leaves a pending request alone.                                         *)
(***************************************************************************)
AssignGroup(p) ==
  /\ p \notin registered
  /\ Register(p)
  /\ UNCHANGED <<request, seats>>

\* Deregister, which is also the first statement of RemoveFromGroup.
Deregister(p) ==
  /\ p \in registered
  /\ registered' = registered \ {p}
  /\ UNCHANGED <<request, seats>>

GrantSeat(s) ==
  /\ s \notin seats
  /\ seats' = seats \cup {s}
  /\ UNCHANGED <<registered, request>>

\* Revoke, step down, eviction, departure or a dropped definition role.
EndSeat(s) ==
  /\ s \in seats
  /\ seats' = seats \ {s}
  /\ UNCHANGED <<registered, request>>

RegistrationsInit ==
  /\ registered = {}
  /\ request = [p \in Pairs |-> NoRequest]
  /\ seats = {}

RegistrationsNext ==
  \/ \E p \in Pairs : AssignGroup(p) \/ Deregister(p)
  \/ \E s \in Grantable : GrantSeat(s) \/ EndSeat(s)

RegistrationsTypeOK ==
  /\ registered \subseteq Pairs
  /\ request \in [Pairs -> RequestRow]
  /\ seats \subseteq Seats
=============================================================================
