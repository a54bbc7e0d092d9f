------------------------------ MODULE Removal ------------------------------
(***************************************************************************)
(* Removing an actor from a group beside the seats held there, and the     *)
(* record kept of it (removal_impl.go).  RemoveFromGroup is four           *)
(* statements, none of them in a transaction with another, so the process  *)
(* may stop between any two and other calls may come between them.         *)
(***************************************************************************)
EXTENDS Seats

CONSTANTS
  RemoveCalls,  \* RemoveFromGroup calls that may be in flight together
  MaxRejoins    \* bounds how often an actor is registered at each group

ASSUME RemovalAssumption ==
  /\ MaxRejoins \in [Groups -> Nat]
  /\ IsFiniteSet(RemoveCalls)

VARIABLES
  registered,   \* the <<actor, group>> pairs holding an assignment row
  records,      \* how many group_removal records each pair has
  rejoins,      \* history: how often each pair was registered
  cuts,         \* history: how many of its removals were cut with the row gone
  removers      \* the removals in flight

removalVars == <<registered, records, rejoins, cuts, removers>>
allVars == <<seatVars, removalVars>>

Pairs == Actors \X Groups
SeatIn(i, p) == seat[i].of[1] = p[1] /\ seat[i].of[2] = p[2]
LiveIn(p) == {i \in Rows : Live(i) /\ SeatIn(i, p)}

(***************************************************************************)
(* A removal at the pair it is at; todo are the actor's groups still to be *)
(* left, and held is history: the seats that were live when the row went.  *)
(***************************************************************************)
RemoveCall == [step: {"find", "delete", "end", "record", "next"}, of: Pairs,
               held: SUBSET Nat, todo: SUBSET Groups]

\* The removal has deleted the row and not yet recorded it.
RowGone(c) == removers[c].step \in {"end", "record"}

Removing(p, todo) == [step |-> "find", of |-> p, held |-> {}, todo |-> todo]

-----------------------------------------------------------------------------
\* A registration, by joining, an invitation or AssignGroup.
Register(p) ==
  /\ p \notin registered
  /\ rejoins[p] < MaxRejoins[p[2]]
  /\ registered' = registered \cup {p}
  /\ rejoins' = [rejoins EXCEPT ![p] = @ + 1]
  /\ UNCHANGED <<seatVars, records, cuts, removers>>

RemoveReturns(c) == removers' = [removers EXCEPT ![c] = Idle]

RemoveFromGroup(c, p) ==
  /\ removers[c] = Idle
  /\ removers' = [removers EXCEPT ![c] = Removing(p, {})]
  /\ UNCHANGED <<seatVars, registered, records, rejoins, cuts>>

\* RemoveFromAllGroups reads the groups the actor is registered at.
RemoveFromAllGroups(c, a) ==
  LET held == {g \in Groups : <<a, g>> \in registered} IN
  /\ removers[c] = Idle
  /\ \E g \in held :
       removers' = [removers EXCEPT ![c] = Removing(<<a, g>>, held \ {g})]
  /\ UNCHANGED <<seatVars, registered, records, rejoins, cuts>>

\* ErrNotInGroup ends the call, whatever groups are still to do.
FindRegistration(c) ==
  /\ removers[c].step = "find"
  /\ IF removers[c].of \in registered
     THEN removers' = [removers EXCEPT ![c].step = "delete"]
     ELSE RemoveReturns(c)
  /\ UNCHANGED <<seatVars, registered, records, rejoins, cuts>>

\* Deregister's delete, by the pair; that it deletes no row is not noticed.
Deregister(c) ==
  /\ removers[c].step = "delete"
  /\ registered' = registered \ {removers[c].of}
  /\ removers' = [removers EXCEPT ![c].step = "end", ![c].held = LiveIn(removers[c].of)]
  /\ UNCHANGED <<seatVars, records, rejoins, cuts>>

\* Mutant: one of the actor's seats in the group is ended, not all.
OneSeatIn(p) == {i \in LiveIn(p) : \A j \in LiveIn(p) : i <= j}

\* The seats the eviction ends.
SeatsToEvict(p) == LiveIn(p)

EndHeldSeats(c) ==
  LET p == removers[c].of IN
  /\ removers[c].step = "end"
  /\ \A i \in LiveIn(p) : ~SeatLocked(i)
  /\ seat' = EndSeats(SeatsToEvict(p), "evicted")
  /\ removers' = [removers EXCEPT ![c].step = "record"]
  /\ UNCHANGED <<retired, grants, kindCalls, syncs, registered, records, rejoins, cuts>>

\* Mutant: only a removal that evicts from a seat is recorded.
RecordedIfSeated(c) ==
  IF removers[c].held = {} THEN records
  ELSE [records EXCEPT ![removers[c].of] = @ + 1]

Recorded(c) == [records EXCEPT ![removers[c].of] = @ + 1]

\* The record, after which a removal from all groups goes on to the next.
RecordRemoval(c) ==
  /\ removers[c].step = "record"
  /\ records' = Recorded(c)
  /\ IF removers[c].todo = {}
     THEN RemoveReturns(c)
     ELSE removers' = [removers EXCEPT ![c].step = "next", ![c].held = {}]
  /\ UNCHANGED <<seatVars, registered, rejoins, cuts>>

\* The list is in the order of the registrations, which is left open here.
NextGroup(c) ==
  /\ removers[c].step = "next"
  /\ \E g \in removers[c].todo :
       removers' = [removers EXCEPT
         ![c] = Removing(<<removers[c].of[1], g>>, removers[c].todo \ {g})]
  /\ UNCHANGED <<seatVars, registered, records, rejoins, cuts>>

\* The process stops, or a statement fails: the call leaves what it did.
Crash(c) ==
  /\ removers[c] # Idle
  /\ cuts' = IF RowGone(c) THEN [cuts EXCEPT ![removers[c].of] = @ + 1] ELSE cuts
  /\ RemoveReturns(c)
  /\ UNCHANGED <<seatVars, registered, records, rejoins>>

-----------------------------------------------------------------------------
RemovalInit ==
  /\ SeatsInit
  /\ registered = {}
  /\ records = [p \in Pairs |-> 0]
  /\ rejoins = [p \in Pairs |-> 0]
  /\ cuts = [p \in Pairs |-> 0]
  /\ removers = [c \in RemoveCalls |-> Idle]

RemovalNext ==
  \/ SeatsNext /\ UNCHANGED removalVars
  \/ \E p \in Pairs : Register(p)
  \/ \E c \in RemoveCalls, p \in Pairs : RemoveFromGroup(c, p)
  \/ \E c \in RemoveCalls, a \in Actors : RemoveFromAllGroups(c, a)
  \/ \E c \in RemoveCalls :
       \/ FindRegistration(c) \/ Deregister(c) \/ EndHeldSeats(c)
       \/ RecordRemoval(c) \/ NextGroup(c) \/ Crash(c)

RemovalSpec == RemovalInit /\ [][RemovalNext]_allVars

RemovalTypeOK ==
  /\ SeatsTypeOK
  /\ registered \subseteq Pairs
  /\ records \in [Pairs -> Nat]
  /\ rejoins \in [Pairs -> Nat]
  /\ cuts \in [Pairs -> Nat]
  /\ removers \in [RemoveCalls -> RemoveCall \cup {Idle}]

-----------------------------------------------------------------------------
(***************************************************************************)
(* When a removal is recorded, every seat its actor held in the group at   *)
(* the moment of leaving has ended, even where duplicate live seats exist  *)
(* and others end and grant seats meanwhile (RemoveFromGroup).             *)
(***************************************************************************)
EvictedBeforeRecord ==
  \A c \in RemoveCalls :
    removers[c].step = "record" => \A i \in removers[c].held : ~Live(i)

(***************************************************************************)
(* No registration ends without a record of it: each one there was is held *)
(* still, recorded, being recorded, or was ended by a removal that was cut *)
(* short; though two removals may race for one registration, and the actor *)
(* may join again between their steps (RemoveFromGroup, Deregister).       *)
(***************************************************************************)
LeftIsRecorded ==
  \A p \in Pairs :
    rejoins[p] <= records[p] + cuts[p]
                  + Cardinality({c \in RemoveCalls : RowGone(c) /\ removers[c].of = p})
                  + Cardinality({p} \cap registered)
=============================================================================
