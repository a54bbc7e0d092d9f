------------------------------- MODULE Seats -------------------------------
(***************************************************************************)
(* Role seats row by row: granting and ending them, and retiring the kinds *)
(* they are of, by hand or because a definition drops the role             *)
(* (role_assignment_impl.go, role_kind_impl.go, definition_role_impl.go).  *)
(*                                                                         *)
(* The transactions run under READ COMMITTED: each statement sees what was *)
(* committed when it began, and a row a transaction wrote stays locked to  *)
(* the others until it commits.  Actors and groups are never deleted here, *)
(* so requireLive always finds them.                                       *)
(***************************************************************************)
EXTENDS Naturals, Sequences, FiniteSets

CONSTANTS
  Actors, Groups, Kinds,
  DefinitionKinds,  \* kinds created for a role of the agency's definition
  GrantCalls,       \* GrantRole calls that may be in flight together
  KindCalls,        \* RetireRoleKind and UnretireRoleKind calls, likewise
  SyncCalls,        \* SyncDefinitionRoles calls, likewise
  HeldOnce,         \* whether the database has the held_once index
  MaxSeats          \* bound on the seat rows ever inserted

ASSUME SeatsAssumption ==
  /\ DefinitionKinds \subseteq Kinds
  /\ HeldOnce \in BOOLEAN
  /\ MaxSeats \in Nat

VARIABLES
  seat,      \* the seat rows in the order inserted; an index stands for an id
  retired,   \* each kind's retired_at is set
  grants,    \* the grants in flight
  kindCalls, \* the hand retirements and revivals in flight
  syncs      \* the definition syncs in flight

seatVars == <<seat, retired, grants, kindCalls, syncs>>

Triples == Actors \X Groups \X Kinds
KindOf(t) == t[3]

EndReasons == {"revoked", "resigned", "evicted", "deregistered", "role_removed"}

\* A seat has an end reason exactly when it has ended.
SeatRow ==
  {r \in [of: Triples, active: BOOLEAN, reason: EndReasons \cup {"none"}] :
     r.active <=> r.reason = "none"}

Idle == [step |-> "idle"]
GrantCall == [step: {"count", "insert"}, of: Triples]
KindCall == [step: {"count", "retire", "unretire"}, kind: Kinds]

\* A sync keeps the dropped kinds still to do, and the rows it has locked.
NoSync == [step |-> "idle", todo |-> {}, ending |-> {}, retiring |-> {}]
SyncCall == [step: {"idle", "end"}, todo: SUBSET Kinds, ending: SUBSET Nat,
             retiring: SUBSET Kinds]

Rows == 1..Len(seat)
Live(i) == seat[i].active
LiveOf(t) == {i \in Rows : Live(i) /\ seat[i].of = t}
LiveOfKind(k) == {i \in Rows : Live(i) /\ KindOf(seat[i].of) = k}

SeatLocked(i) == \E y \in SyncCalls : i \in syncs[y].ending
KindLocked(k) == \E y \in SyncCalls : k \in syncs[y].retiring

\* Mutant: the update is not conditional on an active seat.
EndAnySeats(rows, reason) ==
  [i \in Rows |-> IF i \in rows
                  THEN [seat[i] EXCEPT !.active = FALSE, !.reason = reason]
                  ELSE seat[i]]

\* The seat table once an update has ended those of the rows that are active.
EndSeats(rows, reason) ==
  [i \in Rows |-> IF i \in rows /\ Live(i)
                  THEN [seat[i] EXCEPT !.active = FALSE, !.reason = reason]
                  ELSE seat[i]]

-----------------------------------------------------------------------------
\* GrantRole reads the kind, which must not be retired.
GrantRole(c, t) ==
  /\ grants[c] = Idle
  /\ Len(seat) + Cardinality({d \in GrantCalls : grants[d] # Idle}) < MaxSeats
  /\ ~retired[KindOf(t)]
  /\ grants' = [grants EXCEPT ![c] = [step |-> "count", of |-> t]]
  /\ UNCHANGED <<seat, retired, kindCalls, syncs>>

GrantReturns(c) == grants' = [grants EXCEPT ![c] = Idle]

\* Then it counts the actor's live seats of that kind at that group.
CountHeld(c) ==
  /\ grants[c].step = "count"
  /\ IF LiveOf(grants[c].of) # {}
     THEN GrantReturns(c)
     ELSE grants' = [grants EXCEPT ![c].step = "insert"]
  /\ UNCHANGED <<seat, retired, kindCalls, syncs>>

\* Mutant: the database does not hold the seat once.
NeverRefused(t) == FALSE

\* The unique index on live seats refuses a second one.
RefusedByIndex(t) == HeldOnce /\ LiveOf(t) # {}

(***************************************************************************)
(* The insert, which commits the grant.  With the index it waits for a     *)
(* transaction that is ending a seat of the same triple.                   *)
(***************************************************************************)
InsertSeat(c) ==
  LET t == grants[c].of IN
  /\ grants[c].step = "insert"
  /\ HeldOnce => \A i \in LiveOf(t) : ~SeatLocked(i)
  /\ seat' = IF RefusedByIndex(t) THEN seat
             ELSE Append(seat, [of |-> t, active |-> TRUE, reason |-> "none"])
  /\ GrantReturns(c)
  /\ UNCHANGED <<retired, kindCalls, syncs>>

(***************************************************************************)
(* RevokeRole, StepDownRole, EndRoleOnEviction and EndRoleOnDeparture are  *)
(* one statement; on a seat that has ended they change nothing.            *)
(***************************************************************************)
DeactivateRole(i, reason) ==
  /\ ~SeatLocked(i)
  /\ seat' = EndSeats({i}, reason)
  /\ UNCHANGED <<retired, grants, kindCalls, syncs>>

-----------------------------------------------------------------------------
KindCallReturns(c) == kindCalls' = [kindCalls EXCEPT ![c] = Idle]

\* RetireRoleKind reads a kind not yet retired; a retired one is the answer.
RetireRoleKind(c, k) ==
  /\ kindCalls[c] = Idle
  /\ ~retired[k]
  /\ kindCalls' = [kindCalls EXCEPT ![c] = [step |-> "count", kind |-> k]]
  /\ UNCHANGED <<seat, retired, grants, syncs>>

\* It refuses a kind with live seats.
CountLive(c) ==
  /\ kindCalls[c].step = "count"
  /\ IF LiveOfKind(kindCalls[c].kind) # {}
     THEN KindCallReturns(c)
     ELSE kindCalls' = [kindCalls EXCEPT ![c].step = "retire"]
  /\ UNCHANGED <<seat, retired, grants, syncs>>

\* UnretireRoleKind reads a kind that is retired.
UnretireRoleKind(c, k) ==
  /\ kindCalls[c] = Idle
  /\ retired[k]
  /\ kindCalls' = [kindCalls EXCEPT ![c] = [step |-> "unretire", kind |-> k]]
  /\ UNCHANGED <<seat, retired, grants, syncs>>

\* The update of the kind, by id alone.
WriteKind(c) ==
  /\ kindCalls[c].step \in {"retire", "unretire"}
  /\ ~KindLocked(kindCalls[c].kind)
  /\ retired' = [retired EXCEPT ![kindCalls[c].kind] = (kindCalls[c].step = "retire")]
  /\ KindCallReturns(c)
  /\ UNCHANGED <<seat, grants, syncs>>

-----------------------------------------------------------------------------
(***************************************************************************)
(* SyncDefinitionRoles reads the kinds of definition roles, then goes      *)
(* through those the definition no longer has.                             *)
(***************************************************************************)
SyncDefinitionRoles(y, kept) ==
  LET dropped == {k \in DefinitionKinds \ kept : ~retired[k]} IN
  /\ syncs[y] = NoSync
  /\ dropped # {}
  /\ syncs' = [syncs EXCEPT ![y].step = "end", ![y].todo = dropped]
  /\ UNCHANGED <<seat, retired, grants, kindCalls>>

(***************************************************************************)
(* retireDroppedKind ends the kind's live seats and retires it, waiting    *)
(* for other syncs; none of it is seen before the commit.  The kinds come  *)
(* in the order of their ids, which is left open here.                     *)
(***************************************************************************)
RetireDroppedKind(y, k) ==
  /\ k \in syncs[y].todo
  /\ \A i \in LiveOfKind(k) : ~SeatLocked(i)
  /\ ~KindLocked(k)
  /\ syncs' = [syncs EXCEPT ![y].todo = @ \ {k},
                            ![y].ending = @ \cup LiveOfKind(k),
                            ![y].retiring = @ \cup {k}]
  /\ UNCHANGED <<seat, retired, grants, kindCalls>>

\* Mutant: a dropped kind's seats end, the kind itself is not retired.
RetiredBySyncNot(y) == retired

RetiredBySync(y) == [k \in Kinds |-> retired[k] \/ k \in syncs[y].retiring]

SyncCommit(y) ==
  /\ syncs[y].step = "end"
  /\ syncs[y].todo = {}
  /\ seat' = EndSeats(syncs[y].ending, "role_removed")
  /\ retired' = RetiredBySync(y)
  /\ syncs' = [syncs EXCEPT ![y] = NoSync]
  /\ UNCHANGED <<grants, kindCalls>>

-----------------------------------------------------------------------------
SeatsInit ==
  /\ seat = << >>
  /\ retired = [k \in Kinds |-> FALSE]
  /\ grants = [c \in GrantCalls |-> Idle]
  /\ kindCalls = [c \in KindCalls |-> Idle]
  /\ syncs = [y \in SyncCalls |-> NoSync]

SeatsNext ==
  \/ \E c \in GrantCalls : CountHeld(c) \/ InsertSeat(c)
  \/ \E c \in GrantCalls, t \in Triples : GrantRole(c, t)
  \/ \E i \in Rows, reason \in EndReasons \ {"role_removed"} : DeactivateRole(i, reason)
  \/ \E c \in KindCalls : CountLive(c) \/ WriteKind(c)
  \/ \E c \in KindCalls, k \in Kinds : RetireRoleKind(c, k) \/ UnretireRoleKind(c, k)
  \/ \E y \in SyncCalls : SyncCommit(y)
  \/ \E y \in SyncCalls, k \in Kinds : RetireDroppedKind(y, k)
  \/ \E y \in SyncCalls, kept \in SUBSET DefinitionKinds : SyncDefinitionRoles(y, kept)

SeatsSpec == SeatsInit /\ [][SeatsNext]_seatVars

SeatsTypeOK ==
  /\ seat \in Seq(SeatRow)
  /\ retired \in [Kinds -> BOOLEAN]
  /\ grants \in [GrantCalls -> GrantCall \cup {Idle}]
  /\ kindCalls \in [KindCalls -> KindCall \cup {Idle}]
  /\ syncs \in [SyncCalls -> SyncCall]

-----------------------------------------------------------------------------
(***************************************************************************)
(* With the held_once index, whatever grants race past their counts, an    *)
(* actor holds at most one live seat of a kind at a group (GrantRole).     *)
(***************************************************************************)
OneLiveSeat ==
  HeldOnce => \A t \in Triples : \A i, j \in LiveOf(t) : i = j

(***************************************************************************)
(* History is kept: no row goes, an ended seat never comes back, and the   *)
(* reason it first ended for stays, whoever ends it a second time or at    *)
(* the same time (deactivateRole, retireDroppedKind).                      *)
(***************************************************************************)
EndedStays ==
  [][/\ Len(seat') >= Len(seat)
     /\ \A i \in Rows : ~Live(i) => seat'[i] = seat[i]]_seatVars

(***************************************************************************)
(* A seat that ends because its role was removed ends with its kind: the   *)
(* step that shows the one shows the other (SyncDefinitionRoles).          *)
(***************************************************************************)
RoleRemovedRetires ==
  [][\A i \in Rows :
       Live(i) /\ seat'[i].reason = "role_removed" =>
         retired'[KindOf(seat[i].of)]]_seatVars
=============================================================================
