---------------------------- MODULE RemovalProofs ----------------------------
(***************************************************************************)
(* Theorems about the seats, and then about removals beside them, for any  *)
(* actors, groups, kinds, calls and bounds: the types; one live seat with  *)
(* the index, the history kept, and a sync showing its ended seats and its *)
(* retired kinds together; and, with or without the index, that a removal  *)
(* is recorded only once the seats held on leaving have ended, and that no *)
(* registration ends without a record.                                     *)
(***************************************************************************)
EXTENDS Removal, SequenceTheorems, FiniteSetTheorems, TLAPS

(***************************************************************************)
(* What an update that ends rows does to the table: the rows stay, live    *)
(* ones it names end for its reason, every other is as it was.             *)
(***************************************************************************)
LEMMA EndedRows ==
  ASSUME seat \in Seq(SeatRow), NEW rows, NEW reason \in EndReasons
  PROVE  LET s == EndSeats(rows, reason) IN
         /\ s \in Seq(SeatRow)
         /\ Len(s) = Len(seat)
         /\ \A i \in Rows :
              /\ s[i].of = seat[i].of
              /\ s[i].active => Live(i)
              /\ ~Live(i) => s[i] = seat[i]
              /\ Live(i) /\ i \in rows => ~s[i].active /\ s[i].reason = reason
              /\ i \notin rows => s[i] = seat[i]
<1> DEFINE s == EndSeats(rows, reason)
<1>1. Len(seat) \in Nat /\ \A i \in Rows : seat[i] \in SeatRow
  BY LenProperties, ElementOfSeq DEF Rows
<1>2. s = [i \in Rows |-> IF i \in rows /\ Live(i)
                         THEN [seat[i] EXCEPT !.active = FALSE, !.reason = reason]
                         ELSE seat[i]]
  BY DEF EndSeats
<1>3. ASSUME NEW i \in Rows
      PROVE  s[i] \in SeatRow
  <2>1. seat[i] \in [of: Triples, active: BOOLEAN, reason: EndReasons \cup {"none"}]
    BY <1>1 DEF SeatRow
  <2>2. reason # "none"
    BY DEF EndReasons
  <2> QED BY <1>1, <1>2, <2>1, <2>2 DEF SeatRow
<1>4. s \in [1..Len(seat) -> SeatRow]
  BY <1>2, <1>3 DEF Rows
<1>5. s \in Seq(SeatRow)
  BY <1>1, <1>4, SeqDef
<1>6. Len(s) = Len(seat)
  BY <1>1, <1>4, <1>5, LenProperties
<1>7. ASSUME NEW i \in Rows
      PROVE  /\ s[i].of = seat[i].of
             /\ s[i].active => Live(i)
             /\ ~Live(i) => s[i] = seat[i]
             /\ Live(i) /\ i \in rows => ~s[i].active /\ s[i].reason = reason
             /\ i \notin rows => s[i] = seat[i]
  <2>1. seat[i] \in [of: Triples, active: BOOLEAN, reason: EndReasons \cup {"none"}]
    BY <1>1 DEF SeatRow
  <2> DEFINE ended == [seat[i] EXCEPT !.active = FALSE, !.reason = reason]
  <2>2. s[i] = IF i \in rows /\ Live(i) THEN ended ELSE seat[i]
    BY <1>2
  <2>3. ended.of = seat[i].of /\ ended.active = FALSE /\ ended.reason = reason
    BY <2>1
  <2> HIDE DEF ended, s
  <2> QED BY <2>2, <2>3 DEF Live
<1> QED BY <1>5, <1>6, <1>7 DEF EndSeats

\* The row a grant inserts.
NewSeat(t) == [of |-> t, active |-> TRUE, reason |-> "none"]

(***************************************************************************)
(* The writers of the seat table: an insert of a live row the index does   *)
(* not refuse, one update ending rows, or a sync's commit.                 *)
(***************************************************************************)
LEMMA SeatWriters ==
  ASSUME SeatsTypeOK, [SeatsNext]_seatVars
  PROVE  \/ UNCHANGED seat
         \/ /\ UNCHANGED <<retired, syncs>>
            /\ \E t \in Triples : ~RefusedByIndex(t) /\ seat' = Append(seat, NewSeat(t))
         \/ /\ UNCHANGED <<retired, syncs>>
            /\ \E i \in Rows, reason \in EndReasons \ {"role_removed"} :
                 seat' = EndSeats({i}, reason)
         \/ \E y \in SyncCalls : SyncCommit(y)
<1>1. ASSUME NEW c \in GrantCalls, InsertSeat(c)
      PROVE  \/ UNCHANGED seat
             \/ /\ UNCHANGED <<retired, syncs>>
                /\ \E t \in Triples :
                     ~RefusedByIndex(t) /\ seat' = Append(seat, NewSeat(t))
  <2>1. grants[c].of \in Triples
    BY <1>1 DEF InsertSeat, SeatsTypeOK, GrantCall, Idle
  <2> QED BY <1>1, <2>1 DEF InsertSeat, NewSeat
<1>2. CASE \E c \in GrantCalls : CountHeld(c) \/ InsertSeat(c)
  BY <1>1, <1>2 DEF CountHeld
<1>3. CASE \E c \in GrantCalls, t \in Triples : GrantRole(c, t)
  BY <1>3 DEF GrantRole
<1>4. CASE \E i \in Rows, reason \in EndReasons \ {"role_removed"} :
             DeactivateRole(i, reason)
  BY <1>4 DEF DeactivateRole
<1>5. CASE \E c \in KindCalls : CountLive(c) \/ WriteKind(c)
  BY <1>5 DEF CountLive, WriteKind
<1>6. CASE \E c \in KindCalls, k \in Kinds : RetireRoleKind(c, k) \/ UnretireRoleKind(c, k)
  BY <1>6 DEF RetireRoleKind, UnretireRoleKind
<1>7. CASE \E y \in SyncCalls : SyncCommit(y)
  BY <1>7
<1>8. CASE \E y \in SyncCalls, k \in Kinds : RetireDroppedKind(y, k)
  BY <1>8 DEF RetireDroppedKind
<1>9. CASE \E y \in SyncCalls, kept \in SUBSET DefinitionKinds :
             SyncDefinitionRoles(y, kept)
  BY <1>9 DEF SyncDefinitionRoles
<1>10. CASE UNCHANGED seatVars
  BY <1>10 DEF seatVars
<1> QED BY <1>2, <1>3, <1>4, <1>5, <1>6, <1>7, <1>8, <1>9, <1>10 DEF SeatsNext

(***************************************************************************)
(* The table after a grant's insert.                                       *)
(***************************************************************************)
LEMMA SeatAdded ==
  ASSUME seat \in Seq(SeatRow), NEW t \in Triples
  PROVE  LET s == Append(seat, NewSeat(t)) IN
         /\ s \in Seq(SeatRow)
         /\ Len(s) = Len(seat) + 1
         /\ \A i \in Rows : s[i] = seat[i]
         /\ s[Len(seat) + 1] = NewSeat(t)
<1>1. NewSeat(t) \in SeatRow
  BY DEF NewSeat, SeatRow
<1>2. Len(seat) \in Nat
  BY LenProperties
<1> QED BY <1>1, <1>2, AppendProperties DEF Rows

(***************************************************************************)
(* A sync's slot after each of its steps is a sync again.                  *)
(***************************************************************************)
LEMMA SyncsKeepType ==
  ASSUME SeatsTypeOK, [SeatsNext]_seatVars
  PROVE  syncs' \in [SyncCalls -> SyncCall]
<1>0. NoSync \in SyncCall
  BY DEF NoSync, SyncCall
<1>1. ASSUME NEW y \in SyncCalls, NEW k \in Kinds, RetireDroppedKind(y, k)
      PROVE  syncs' \in [SyncCalls -> SyncCall]
  <2>1. syncs[y] \in SyncCall
    BY DEF SeatsTypeOK
  <2>2. LiveOfKind(k) \subseteq Nat
    BY LenProperties DEF SeatsTypeOK, LiveOfKind, Rows
  <2>3. [syncs[y] EXCEPT !.todo = @ \ {k}, !.ending = @ \cup LiveOfKind(k),
                         !.retiring = @ \cup {k}] \in SyncCall
    BY <2>1, <2>2 DEF SyncCall
  <2> QED BY <1>1, <2>3 DEF RetireDroppedKind, SeatsTypeOK
<1>2. ASSUME NEW y \in SyncCalls, NEW kept, SyncDefinitionRoles(y, kept)
      PROVE  syncs' \in [SyncCalls -> SyncCall]
  <2>1. {k \in DefinitionKinds \ kept : ~retired[k]} \subseteq Kinds
    BY SeatsAssumption
  <2>2. [syncs[y] EXCEPT !.step = "end",
                         !.todo = {k \in DefinitionKinds \ kept : ~retired[k]}]
          \in SyncCall
    BY <2>1 DEF SyncCall, SeatsTypeOK
  <2> QED BY <1>2, <2>2 DEF SyncDefinitionRoles, SeatsTypeOK
<1>3. ASSUME NEW y \in SyncCalls, SyncCommit(y)
      PROVE  syncs' \in [SyncCalls -> SyncCall]
  BY <1>0, <1>3 DEF SyncCommit, SeatsTypeOK
<1>4. ASSUME UNCHANGED syncs
      PROVE  syncs' \in [SyncCalls -> SyncCall]
  BY <1>4 DEF SeatsTypeOK
<1> QED BY <1>1, <1>2, <1>3, <1>4 DEF SeatsNext, seatVars, GrantRole, CountHeld,
      InsertSeat, DeactivateRole, RetireRoleKind, UnretireRoleKind, CountLive, WriteKind

(***************************************************************************)
(* So are the grants and the calls that retire and revive kinds.           *)
(***************************************************************************)
LEMMA CallsKeepType ==
  ASSUME SeatsTypeOK, [SeatsNext]_seatVars
  PROVE  /\ grants' \in [GrantCalls -> GrantCall \cup {Idle}]
         /\ kindCalls' \in [KindCalls -> KindCall \cup {Idle}]
<1>1. grants' \in [GrantCalls -> GrantCall \cup {Idle}]
  <2>1. ASSUME NEW c \in GrantCalls, NEW t \in Triples, GrantRole(c, t)
        PROVE  grants' \in [GrantCalls -> GrantCall \cup {Idle}]
    <3>1. [step |-> "count", of |-> t] \in GrantCall
      BY DEF GrantCall
    <3> QED BY <2>1, <3>1 DEF GrantRole, SeatsTypeOK
  <2>2. ASSUME NEW c \in GrantCalls, CountHeld(c)
        PROVE  grants' \in [GrantCalls -> GrantCall \cup {Idle}]
    <3>1. grants[c] \in GrantCall
      BY <2>2 DEF CountHeld, SeatsTypeOK, Idle
    <3>2. [grants[c] EXCEPT !.step = "insert"] \in GrantCall
      BY <3>1 DEF GrantCall
    <3> QED BY <2>2, <3>2 DEF CountHeld, GrantReturns, SeatsTypeOK
  <2>3. ASSUME NEW c \in GrantCalls, InsertSeat(c)
        PROVE  grants' \in [GrantCalls -> GrantCall \cup {Idle}]
    BY <2>3 DEF InsertSeat, GrantReturns, SeatsTypeOK
  <2>4. ASSUME UNCHANGED grants
        PROVE  grants' \in [GrantCalls -> GrantCall \cup {Idle}]
    BY <2>4 DEF SeatsTypeOK
  <2> QED BY <2>1, <2>2, <2>3, <2>4 DEF SeatsNext, seatVars, DeactivateRole,
        RetireRoleKind, UnretireRoleKind, CountLive, WriteKind, SyncDefinitionRoles,
        RetireDroppedKind, SyncCommit
<1>2. kindCalls' \in [KindCalls -> KindCall \cup {Idle}]
  <2>1. ASSUME NEW c \in KindCalls, NEW k \in Kinds,
               RetireRoleKind(c, k) \/ UnretireRoleKind(c, k)
        PROVE  kindCalls' \in [KindCalls -> KindCall \cup {Idle}]
    <3>1. \A step \in {"count", "unretire"} : [step |-> step, kind |-> k] \in KindCall
      BY DEF KindCall
    <3> QED BY <2>1, <3>1 DEF RetireRoleKind, UnretireRoleKind, SeatsTypeOK
  <2>2. ASSUME NEW c \in KindCalls, CountLive(c)
        PROVE  kindCalls' \in [KindCalls -> KindCall \cup {Idle}]
    <3>1. kindCalls[c] \in KindCall
      BY <2>2 DEF CountLive, SeatsTypeOK, Idle
    <3>2. [kindCalls[c] EXCEPT !.step = "retire"] \in KindCall
      BY <3>1 DEF KindCall
    <3> QED BY <2>2, <3>2 DEF CountLive, KindCallReturns, SeatsTypeOK
  <2>3. ASSUME NEW c \in KindCalls, WriteKind(c)
        PROVE  kindCalls' \in [KindCalls -> KindCall \cup {Idle}]
    BY <2>3 DEF WriteKind, KindCallReturns, SeatsTypeOK
  <2>4. ASSUME UNCHANGED kindCalls
        PROVE  kindCalls' \in [KindCalls -> KindCall \cup {Idle}]
    BY <2>4 DEF SeatsTypeOK
  <2> QED BY <2>1, <2>2, <2>3, <2>4 DEF SeatsNext, seatVars, DeactivateRole,
        GrantRole, CountHeld, InsertSeat, SyncDefinitionRoles, RetireDroppedKind,
        SyncCommit
<1> QED BY <1>1, <1>2

(***************************************************************************)
(* Every step keeps the rows, the retired kinds and the calls typed.       *)
(***************************************************************************)
LEMMA SeatsKeepType ==
  ASSUME SeatsTypeOK, [SeatsNext]_seatVars
  PROVE  SeatsTypeOK'
<1>1. seat' \in Seq(SeatRow)
  <2>1. \A reason \in EndReasons : \A rows : EndSeats(rows, reason) \in Seq(SeatRow)
    BY EndedRows DEF SeatsTypeOK
  <2>2. \A t \in Triples : Append(seat, NewSeat(t)) \in Seq(SeatRow)
    BY SeatAdded DEF SeatsTypeOK
  <2>3. "role_removed" \in EndReasons
    BY DEF EndReasons
  <2>4. CASE UNCHANGED seat
    BY <2>4 DEF SeatsTypeOK
  <2>5. CASE \E t \in Triples : seat' = Append(seat, NewSeat(t))
    BY <2>2, <2>5
  <2>6. CASE \E i \in Rows, reason \in EndReasons : seat' = EndSeats({i}, reason)
    BY <2>1, <2>6
  <2>7. CASE \E y \in SyncCalls : SyncCommit(y)
    BY <2>1, <2>3, <2>7 DEF SyncCommit
  <2> QED BY <2>4, <2>5, <2>6, <2>7, SeatWriters
<1>2. retired' \in [Kinds -> BOOLEAN]
  <2>1. ASSUME NEW c \in KindCalls, WriteKind(c)
        PROVE  retired' \in [Kinds -> BOOLEAN]
    BY <2>1 DEF WriteKind, SeatsTypeOK
  <2>2. ASSUME NEW y \in SyncCalls, SyncCommit(y)
        PROVE  retired' \in [Kinds -> BOOLEAN]
    <3>1. \A k \in Kinds : (retired[k] \/ k \in syncs[y].retiring) \in BOOLEAN
      OBVIOUS
    <3> QED BY <2>2, <3>1 DEF SyncCommit, RetiredBySync
  <2>3. ASSUME UNCHANGED retired
        PROVE  retired' \in [Kinds -> BOOLEAN]
    BY <2>3 DEF SeatsTypeOK
  <2> QED BY <2>1, <2>2, <2>3 DEF SeatsNext, seatVars, GrantRole, CountHeld, InsertSeat,
        DeactivateRole, RetireRoleKind, UnretireRoleKind, CountLive,
        SyncDefinitionRoles, RetireDroppedKind
<1> QED BY <1>1, <1>2, SyncsKeepType, CallsKeepType DEF SeatsTypeOK

(***************************************************************************)
(* Type correctness of the seats, whose rows say why they ended exactly    *)
(* when they have.                                                         *)
(***************************************************************************)
THEOREM SeatsTypeCorrect == SeatsSpec => []SeatsTypeOK
<1>1. SeatsInit => SeatsTypeOK
  <2>1. NoSync \in SyncCall
    BY DEF NoSync, SyncCall
  <2>2. << >> \in Seq(SeatRow)
    BY EmptySeq
  <2> QED BY <2>1, <2>2 DEF SeatsInit, SeatsTypeOK
<1>2. SeatsTypeOK /\ [SeatsNext]_seatVars => SeatsTypeOK'
  BY SeatsKeepType
<1> QED BY <1>1, <1>2, PTL DEF SeatsSpec

(***************************************************************************)
(* With the index no step leaves two live seats of a triple: an update     *)
(* only ends seats, and an insert of a second one is refused.              *)
(***************************************************************************)
LEMMA LiveSeatsStaySingle ==
  ASSUME SeatsTypeOK, OneLiveSeat, [SeatsNext]_seatVars
  PROVE  OneLiveSeat'
<1> SUFFICES ASSUME HeldOnce', NEW t \in Triples, NEW i \in LiveOf(t)', NEW j \in LiveOf(t)'
             PROVE  i = j
  BY DEF OneLiveSeat
<1>0. HeldOnce /\ \A a, b \in LiveOf(t) : a = b
  BY DEF OneLiveSeat
<1>1. Len(seat) \in Nat
  BY LenProperties DEF SeatsTypeOK
<1>2. ASSUME NEW rows, NEW reason \in EndReasons, seat' = EndSeats(rows, reason)
      PROVE  i = j
  <2>1. LiveOf(t)' \subseteq LiveOf(t)
    BY <1>2, EndedRows DEF LiveOf, Rows, Live, SeatsTypeOK
  <2> QED BY <1>0, <2>1
<1>3. ASSUME NEW u \in Triples, ~RefusedByIndex(u), seat' = Append(seat, NewSeat(u))
      PROVE  i = j
  <2>1. \A a \in LiveOf(t)' : a \in LiveOf(t) \/ (a = Len(seat) + 1 /\ t = u)
    <3>1. /\ Len(seat') = Len(seat) + 1
          /\ \A a \in 1..Len(seat) : seat'[a] = seat[a]
          /\ seat'[Len(seat) + 1].of = u
      BY <1>3, SeatAdded DEF Rows, NewSeat, SeatsTypeOK
    <3> QED BY <1>1, <3>1 DEF LiveOf, Rows, Live
  <2>2. LiveOf(u) = {}
    BY <1>0, <1>3 DEF RefusedByIndex
  <2> QED BY <1>0, <2>1, <2>2
<1>4. CASE UNCHANGED seat
  BY <1>0, <1>4 DEF LiveOf, Rows, Live
<1>5. CASE \E y \in SyncCalls : SyncCommit(y)
  <2>1. "role_removed" \in EndReasons
    BY DEF EndReasons
  <2> QED BY <1>2, <1>5, <2>1 DEF SyncCommit
<1> QED BY <1>2, <1>3, <1>4, <1>5, SeatWriters

(***************************************************************************)
(* OneLiveSeat for every instance: grants that all counted no seat still   *)
(* leave one, by the index alone.                                          *)
(***************************************************************************)
THEOREM SeatHeldOnce == SeatsSpec => []OneLiveSeat
<1>1. SeatsInit => OneLiveSeat
  BY EmptySeq DEF SeatsInit, OneLiveSeat, LiveOf, Rows
<1>2. SeatsTypeOK /\ OneLiveSeat /\ [SeatsNext]_seatVars => OneLiveSeat'
  BY LiveSeatsStaySingle
<1> QED BY <1>1, <1>2, SeatsTypeCorrect, PTL DEF SeatsSpec

-----------------------------------------------------------------------------
(***************************************************************************)
(* EndedStays for every instance: history is only added to.                *)
(***************************************************************************)
THEOREM HistoryKept == SeatsSpec => EndedStays
<1> DEFINE Kept == /\ Len(seat') >= Len(seat)
                   /\ \A i \in Rows : ~Live(i) => seat'[i] = seat[i]
<1>1. SeatsTypeOK /\ [SeatsNext]_seatVars => [Kept]_seatVars
  <2> SUFFICES ASSUME SeatsTypeOK, [SeatsNext]_seatVars
               PROVE  Kept
    OBVIOUS
  <2>1. Len(seat) \in Nat
    BY LenProperties DEF SeatsTypeOK
  <2>2. ASSUME NEW rows, NEW reason \in EndReasons, seat' = EndSeats(rows, reason)
        PROVE  Kept
    BY <2>1, <2>2, EndedRows DEF SeatsTypeOK
  <2>3. ASSUME NEW t \in Triples, seat' = Append(seat, NewSeat(t))
        PROVE  Kept
    <3>1. Len(seat') = Len(seat) + 1 /\ \A i \in Rows : seat'[i] = seat[i]
      BY <2>3, SeatAdded DEF SeatsTypeOK
    <3> QED BY <2>1, <3>1
  <2>4. CASE UNCHANGED seat
    BY <2>1, <2>4
  <2>5. CASE \E y \in SyncCalls : SyncCommit(y)
    <3>1. "role_removed" \in EndReasons
      BY DEF EndReasons
    <3> QED BY <2>2, <2>5, <3>1 DEF SyncCommit
  <2> HIDE DEF Kept
  <2> QED BY <2>2, <2>3, <2>4, <2>5, SeatWriters
<1> QED BY <1>1, SeatsTypeCorrect, PTL DEF SeatsSpec, EndedStays

-----------------------------------------------------------------------------
(***************************************************************************)
(* The strengthening RoleRemovedRetires needs: a sync ends only seats of   *)
(* the kinds it retires.                                                   *)
(***************************************************************************)
EndsWhatItRetires ==
  \A y \in SyncCalls : \A i \in syncs[y].ending :
    i \in Rows /\ KindOf(seat[i].of) \in syncs[y].retiring

(***************************************************************************)
(* No step of a sync or a grant makes a sync end a seat of another kind.   *)
(***************************************************************************)
LEMMA SyncsEndTheirKinds ==
  ASSUME SeatsTypeOK, EndsWhatItRetires, [SeatsNext]_seatVars
  PROVE  EndsWhatItRetires'
<1>1. Len(seat) \in Nat
  BY LenProperties DEF SeatsTypeOK
<1>2. \A i \in Rows : i \in Rows' /\ seat'[i].of = seat[i].of
  <2>1. ASSUME NEW rows, NEW reason \in EndReasons, seat' = EndSeats(rows, reason)
        PROVE  \A i \in Rows : i \in Rows' /\ seat'[i].of = seat[i].of
    BY <2>1, EndedRows DEF Rows, SeatsTypeOK
  <2>2. ASSUME NEW t \in Triples, seat' = Append(seat, NewSeat(t))
        PROVE  \A i \in Rows : i \in Rows' /\ seat'[i].of = seat[i].of
    BY <1>1, <2>2, SeatAdded DEF Rows, SeatsTypeOK
  <2>3. CASE UNCHANGED seat
    BY <2>3 DEF Rows
  <2>4. CASE \E y \in SyncCalls : SyncCommit(y)
    <3>1. "role_removed" \in EndReasons
      BY DEF EndReasons
    <3> QED BY <2>1, <2>4, <3>1 DEF SyncCommit
  <2> QED BY <2>1, <2>2, <2>3, <2>4, SeatWriters
<1>3. ASSUME UNCHANGED syncs
      PROVE  EndsWhatItRetires'
  BY <1>2, <1>3 DEF EndsWhatItRetires
<1>4. ASSUME NEW y \in SyncCalls, NEW k \in Kinds, RetireDroppedKind(y, k)
      PROVE  EndsWhatItRetires'
  <2>1. syncs[y] \in SyncCall
    BY DEF SeatsTypeOK
  <2>2. /\ syncs'[y].ending = syncs[y].ending \cup LiveOfKind(k)
        /\ syncs'[y].retiring = syncs[y].retiring \cup {k}
        /\ \A z \in SyncCalls \ {y} : syncs'[z] = syncs[z]
    BY <1>4, <2>1 DEF RetireDroppedKind, SeatsTypeOK, SyncCall
  <2>3. \A i \in LiveOfKind(k) : i \in Rows /\ KindOf(seat[i].of) = k
    BY DEF LiveOfKind
  <2> QED BY <1>2, <2>2, <2>3 DEF EndsWhatItRetires
<1>5. ASSUME NEW y \in SyncCalls, NEW kept, SyncDefinitionRoles(y, kept)
      PROVE  EndsWhatItRetires'
  <2>1. /\ syncs'[y].ending = {}
        /\ \A z \in SyncCalls \ {y} : syncs'[z] = syncs[z]
    BY <1>5 DEF SyncDefinitionRoles, SeatsTypeOK, SyncCall, NoSync
  <2> QED BY <1>2, <2>1 DEF EndsWhatItRetires
<1>6. ASSUME NEW y \in SyncCalls, SyncCommit(y)
      PROVE  EndsWhatItRetires'
  <2>1. syncs'[y].ending = {} /\ \A z \in SyncCalls \ {y} : syncs'[z] = syncs[z]
    BY <1>6 DEF SyncCommit, SeatsTypeOK, NoSync
  <2> QED BY <1>2, <2>1 DEF EndsWhatItRetires
<1> QED BY <1>3, <1>4, <1>5, <1>6 DEF SeatsNext, seatVars, GrantRole, CountHeld,
      InsertSeat, DeactivateRole, RetireRoleKind, UnretireRoleKind, CountLive, WriteKind

(***************************************************************************)
(* RoleRemovedRetires for every instance: no one sees a seat ended for a   *)
(* removed role whose kind is not retired by the same commit.              *)
(***************************************************************************)
THEOREM RemovedRolesRetire == SeatsSpec => RoleRemovedRetires
<1> DEFINE Together ==
      \A i \in Rows : Live(i) /\ seat'[i].reason = "role_removed" =>
                        retired'[KindOf(seat[i].of)]
<1>1. SeatsInit => EndsWhatItRetires
  BY DEF SeatsInit, EndsWhatItRetires, NoSync
<1>2. SeatsTypeOK /\ EndsWhatItRetires /\ [SeatsNext]_seatVars => EndsWhatItRetires'
  BY SyncsEndTheirKinds
<1>3. SeatsTypeOK /\ EndsWhatItRetires /\ [SeatsNext]_seatVars => [Together]_seatVars
  <2> SUFFICES ASSUME SeatsTypeOK, EndsWhatItRetires, [SeatsNext]_seatVars,
                      NEW i \in Rows, Live(i), seat'[i].reason = "role_removed"
               PROVE  retired'[KindOf(seat[i].of)]
    OBVIOUS
  <2>1. seat[i] \in SeatRow /\ seat[i].reason = "none"
    BY ElementOfSeq DEF SeatsTypeOK, Rows, SeatRow, Live
  <2>2. CASE UNCHANGED seat
    BY <2>1, <2>2
  <2>3. CASE \E t \in Triples : seat' = Append(seat, NewSeat(t))
    BY <2>1, <2>3, SeatAdded DEF SeatsTypeOK
  <2>4. CASE \E j \in Rows, reason \in EndReasons \ {"role_removed"} :
               seat' = EndSeats({j}, reason)
    <3>1. PICK j \in Rows, reason \in EndReasons \ {"role_removed"} :
            seat' = EndSeats({j}, reason)
      BY <2>4
    <3>2. seat'[i] = seat[i] \/ seat'[i].reason = reason
      BY <3>1, EndedRows DEF SeatsTypeOK
    <3> QED BY <2>1, <3>1, <3>2
  <2>5. ASSUME NEW y \in SyncCalls, SyncCommit(y)
        PROVE  retired'[KindOf(seat[i].of)]
    <3>1. "role_removed" \in EndReasons
      BY DEF EndReasons
    <3>2. i \in syncs[y].ending
      BY <2>1, <2>5, <3>1, EndedRows DEF SyncCommit, SeatsTypeOK
    <3>3. KindOf(seat[i].of) \in Kinds
      BY <2>1 DEF SeatRow, Triples, KindOf
    <3> QED BY <2>5, <3>2, <3>3 DEF EndsWhatItRetires, SyncCommit, RetiredBySync
  <2> QED BY <2>2, <2>3, <2>4, <2>5, SeatWriters
<1> QED BY <1>1, <1>2, <1>3, SeatsTypeCorrect, PTL DEF SeatsSpec, RoleRemovedRetires

-----------------------------------------------------------------------------
(***************************************************************************)
(* An update that ends rows keeps the table.                               *)
(***************************************************************************)
LEMMA EndingKeepsTable ==
  ASSUME SeatsTypeOK, NEW rows, NEW reason \in EndReasons,
         seat' = EndSeats(rows, reason)
  PROVE  \A i \in Rows : i \in Rows' /\ seat'[i].of = seat[i].of /\ (~Live(i) => ~Live(i)')
BY EndedRows DEF SeatsTypeOK, Rows, Live

(***************************************************************************)
(* Every step of the seats keeps it.                                       *)
(***************************************************************************)
LEMMA SeatStepsKeepTable ==
  ASSUME SeatsTypeOK, [SeatsNext]_seatVars
  PROVE  \A i \in Rows : i \in Rows' /\ seat'[i].of = seat[i].of /\ (~Live(i) => ~Live(i)')
<1>1. CASE UNCHANGED seat
  BY <1>1 DEF Rows, Live
<1>2. ASSUME NEW t \in Triples, seat' = Append(seat, NewSeat(t))
      PROVE  \A i \in Rows : i \in Rows' /\ seat'[i].of = seat[i].of
                             /\ (~Live(i) => ~Live(i)')
  <2>1. Len(seat) \in Nat
    BY LenProperties DEF SeatsTypeOK
  <2> QED BY <1>2, <2>1, SeatAdded DEF SeatsTypeOK, Rows, Live
<1>3. CASE \E i \in Rows, reason \in EndReasons \ {"role_removed"} :
             seat' = EndSeats({i}, reason)
  BY <1>3, EndingKeepsTable
<1>4. CASE \E y \in SyncCalls : SyncCommit(y)
  <2>1. "role_removed" \in EndReasons
    BY DEF EndReasons
  <2> QED BY <1>4, <2>1, EndingKeepsTable DEF SyncCommit
<1> QED BY <1>1, <1>2, <1>3, <1>4, SeatWriters

-----------------------------------------------------------------------------
(***************************************************************************)
(* A removal that moves on is a removal.                                   *)
(***************************************************************************)
LEMMA RemovalMovesOn ==
  ASSUME RemovalTypeOK, NEW c \in RemoveCalls, removers[c] # Idle
  PROVE  /\ removers[c] \in RemoveCall
         /\ removers[c].of \in Pairs
         /\ \A s \in {"delete", "record"} : [removers[c] EXCEPT !.step = s] \in RemoveCall
         /\ \A held \in SUBSET Nat :
              [removers[c] EXCEPT !.step = "end", !.held = held] \in RemoveCall
         /\ [removers[c] EXCEPT !.step = "next", !.held = {}] \in RemoveCall
BY DEF RemovalTypeOK, RemoveCall

(***************************************************************************)
(* A removal begins, and goes on, at a pair of an actor and a group.       *)
(***************************************************************************)
LEMMA RemovingType ==
  ASSUME NEW p \in Pairs, NEW todo \in SUBSET Groups
  PROVE  Removing(p, todo) \in RemoveCall
BY DEF Removing, RemoveCall

(***************************************************************************)
(* The live seats are rows.                                                *)
(***************************************************************************)
LEMMA LiveInRows ==
  ASSUME SeatsTypeOK, NEW p
  PROVE  LiveIn(p) \subseteq Rows /\ Rows \subseteq Nat
BY LenProperties DEF SeatsTypeOK, LiveIn, Rows

(***************************************************************************)
(* Every step keeps the removals in flight typed.                          *)
(***************************************************************************)
LEMMA RemoversKeepType ==
  ASSUME RemovalTypeOK, [RemovalNext]_allVars
  PROVE  removers' \in [RemoveCalls -> RemoveCall \cup {Idle}]
<1> DEFINE Typed == removers' \in [RemoveCalls -> RemoveCall \cup {Idle}]
<1>1. ASSUME UNCHANGED removers
      PROVE  Typed
  BY <1>1 DEF RemovalTypeOK
<1>2. ASSUME NEW c \in RemoveCalls, NEW call \in RemoveCall \cup {Idle},
             removers' = [removers EXCEPT ![c] = call]
      PROVE  Typed
  BY <1>2 DEF RemovalTypeOK
<1>3. ASSUME NEW c \in RemoveCalls, RemoveReturns(c)
      PROVE  Typed
  BY <1>3, <1>2 DEF RemoveReturns
<1> HIDE DEF Typed
<1>4. ASSUME NEW c \in RemoveCalls, NEW p \in Pairs, RemoveFromGroup(c, p)
      PROVE  Typed
  BY <1>2, <1>4, RemovingType DEF RemoveFromGroup
<1>5. ASSUME NEW c \in RemoveCalls, NEW a \in Actors, RemoveFromAllGroups(c, a)
      PROVE  Typed
  <2>1. PICK g \in Groups, todo \in SUBSET Groups :
          removers' = [removers EXCEPT ![c] = Removing(<<a, g>>, todo)]
    BY <1>5 DEF RemoveFromAllGroups
  <2>2. <<a, g>> \in Pairs
    BY DEF Pairs
  <2> QED BY <1>2, <2>1, <2>2, RemovingType
<1>6. ASSUME NEW c \in RemoveCalls, FindRegistration(c)
      PROVE  Typed
  <2>1. removers[c] # Idle
    BY <1>6 DEF FindRegistration, Idle
  <2> QED BY <1>2, <1>3, <1>6, <2>1, RemovalMovesOn DEF FindRegistration
<1>7. ASSUME NEW c \in RemoveCalls, Deregister(c)
      PROVE  Typed
  <2>1. removers[c] # Idle
    BY <1>7 DEF Deregister, Idle
  <2>2. LiveIn(removers[c].of) \in SUBSET Nat
    BY LiveInRows DEF RemovalTypeOK
  <2>3. removers' = [removers EXCEPT ![c] =
          [removers[c] EXCEPT !.step = "end", !.held = LiveIn(removers[c].of)]]
    BY <1>7 DEF Deregister, RemovalTypeOK
  <2> QED BY <1>2, <2>1, <2>2, <2>3, RemovalMovesOn
<1>8. ASSUME NEW c \in RemoveCalls, EndHeldSeats(c)
      PROVE  Typed
  <2>1. removers[c] # Idle
    BY <1>8 DEF EndHeldSeats, Idle
  <2> QED BY <1>2, <1>8, <2>1, RemovalMovesOn DEF EndHeldSeats
<1>9. ASSUME NEW c \in RemoveCalls, RecordRemoval(c)
      PROVE  Typed
  <2>1. removers[c] # Idle
    BY <1>9 DEF RecordRemoval, Idle
  <2>2. CASE removers[c].todo = {}
    BY <1>3, <1>9, <2>2 DEF RecordRemoval
  <2>3. CASE removers[c].todo # {}
    <3>1. removers' = [removers EXCEPT ![c] =
            [removers[c] EXCEPT !.step = "next", !.held = {}]]
      BY <1>9, <2>3 DEF RecordRemoval, RemovalTypeOK
    <3> QED BY <1>2, <2>1, <3>1, RemovalMovesOn
  <2> QED BY <2>2, <2>3
<1>10. ASSUME NEW c \in RemoveCalls, NextGroup(c)
       PROVE  Typed
  <2>0. removers[c] # Idle
    BY <1>10 DEF NextGroup, Idle
  <2>1. removers[c] \in RemoveCall
    BY <2>0, RemovalMovesOn
  <2>2. PICK g \in removers[c].todo :
          removers' = [removers EXCEPT
            ![c] = Removing(<<removers[c].of[1], g>>, removers[c].todo \ {g})]
    BY <1>10 DEF NextGroup
  <2>3. <<removers[c].of[1], g>> \in Pairs /\ removers[c].todo \ {g} \in SUBSET Groups
    BY <2>1 DEF RemoveCall, Pairs
  <2> QED BY <1>2, <2>2, <2>3, RemovingType
<1>11. ASSUME NEW c \in RemoveCalls, Crash(c)
       PROVE  Typed
  BY <1>3, <1>11 DEF Crash
<1>12. ASSUME NEW p \in Pairs, Register(p)
       PROVE  Typed
  BY <1>1, <1>12 DEF Register
<1>13. ASSUME (SeatsNext /\ UNCHANGED removalVars) \/ UNCHANGED allVars
       PROVE  Typed
  BY <1>1, <1>13 DEF removalVars, allVars
<1> QED BY <1>4, <1>5, <1>6, <1>7, <1>8, <1>9, <1>10, <1>11, <1>12, <1>13
        DEF RemovalNext, Typed

(***************************************************************************)
(* And the seats, which a removal writes as any other update would.        *)
(***************************************************************************)
LEMMA RemovalKeepsSeats ==
  ASSUME SeatsTypeOK, [RemovalNext]_allVars
  PROVE  /\ SeatsTypeOK'
         /\ \A i \in Rows : i \in Rows' /\ seat'[i].of = seat[i].of /\ (~Live(i) => ~Live(i)')
<1>1. CASE [SeatsNext]_seatVars
  BY <1>1, SeatsKeepType, SeatStepsKeepTable
<1>2. ASSUME NEW c \in RemoveCalls, EndHeldSeats(c)
      PROVE  /\ SeatsTypeOK'
             /\ \A i \in Rows : i \in Rows' /\ seat'[i].of = seat[i].of
                                /\ (~Live(i) => ~Live(i)')
  <2>1. "evicted" \in EndReasons
    BY DEF EndReasons
  <2>2. seat' \in Seq(SeatRow)
    BY <1>2, <2>1, EndedRows DEF EndHeldSeats, SeatsTypeOK
  <2>3. SeatsTypeOK'
    BY <1>2, <2>2 DEF EndHeldSeats, SeatsTypeOK
  <2> QED BY <1>2, <2>1, <2>3, EndingKeepsTable DEF EndHeldSeats
<1>3. ASSUME NEW c \in RemoveCalls,
             \/ FindRegistration(c) \/ Deregister(c) \/ RecordRemoval(c)
             \/ NextGroup(c) \/ Crash(c)
      PROVE  UNCHANGED seatVars
  BY <1>3 DEF FindRegistration, Deregister, RecordRemoval, NextGroup, Crash
<1>4. ASSUME NEW c \in RemoveCalls, NEW p \in Pairs, RemoveFromGroup(c, p)
      PROVE  UNCHANGED seatVars
  BY <1>4 DEF RemoveFromGroup
<1>5. ASSUME NEW c \in RemoveCalls, NEW a \in Actors, RemoveFromAllGroups(c, a)
      PROVE  UNCHANGED seatVars
  BY <1>5 DEF RemoveFromAllGroups
<1>6. ASSUME NEW p \in Pairs, Register(p)
      PROVE  UNCHANGED seatVars
  BY <1>6 DEF Register
<1>7. UNCHANGED allVars => UNCHANGED seatVars
  BY DEF allVars
<1> QED BY <1>1, <1>2, <1>3, <1>4, <1>5, <1>6, <1>7 DEF RemovalNext

(***************************************************************************)
(* The registrations, the records and the counts keep their types.         *)
(***************************************************************************)
LEMMA TablesKeepType ==
  ASSUME RemovalTypeOK, [RemovalNext]_allVars
  PROVE  /\ registered' \subseteq Pairs
         /\ records' \in [Pairs -> Nat]
         /\ rejoins' \in [Pairs -> Nat]
         /\ cuts' \in [Pairs -> Nat]
<1> USE DEF RemovalTypeOK
<1> DEFINE Typed == /\ registered' \subseteq Pairs
                    /\ records' \in [Pairs -> Nat]
                    /\ rejoins' \in [Pairs -> Nat]
                    /\ cuts' \in [Pairs -> Nat]
<1>1. ASSUME UNCHANGED <<registered, records, rejoins, cuts>>
      PROVE  Typed
  BY <1>1
<1>2. ASSUME NEW p \in Pairs, Register(p)
      PROVE  Typed
  BY <1>2 DEF Register
<1>3. ASSUME NEW c \in RemoveCalls, Deregister(c)
      PROVE  Typed
  BY <1>3 DEF Deregister
<1>4. ASSUME NEW c \in RemoveCalls, RecordRemoval(c)
      PROVE  Typed
  <2>1. removers[c] # Idle
    BY <1>4 DEF RecordRemoval, Idle
  <2>2. removers[c].of \in Pairs
    BY <2>1, RemovalMovesOn
  <2> QED BY <1>4, <2>2 DEF RecordRemoval, Recorded
<1>5. ASSUME NEW c \in RemoveCalls, Crash(c)
      PROVE  Typed
  <2>1. removers[c].of \in Pairs
    BY <1>5, RemovalMovesOn DEF Crash
  <2> QED BY <1>5, <2>1 DEF Crash
<1>6. ASSUME NEW c \in RemoveCalls, FindRegistration(c) \/ EndHeldSeats(c) \/ NextGroup(c)
      PROVE  Typed
  BY <1>1, <1>6 DEF FindRegistration, EndHeldSeats, NextGroup
<1>7. ASSUME NEW c \in RemoveCalls, NEW p \in Pairs, RemoveFromGroup(c, p)
      PROVE  Typed
  BY <1>1, <1>7 DEF RemoveFromGroup
<1>8. ASSUME NEW c \in RemoveCalls, NEW a \in Actors, RemoveFromAllGroups(c, a)
      PROVE  Typed
  BY <1>1, <1>8 DEF RemoveFromAllGroups
<1>9. ASSUME (SeatsNext /\ UNCHANGED removalVars) \/ UNCHANGED allVars
      PROVE  Typed
  BY <1>1, <1>9 DEF removalVars, allVars
<1> HIDE DEF Typed
<1>10. Typed
  BY <1>2, <1>3, <1>4, <1>5, <1>6, <1>7, <1>8, <1>9 DEF RemovalNext
<1> QED BY <1>10 DEF Typed

(***************************************************************************)
(* The tables, the counts and every removal in flight always have their    *)
(* type, beside seats, retirements and definition syncs (RemoveFromGroup,  *)
(* RemoveFromAllGroups).                                                   *)
(***************************************************************************)
THEOREM RemovalTypeCorrect == RemovalSpec => []RemovalTypeOK
<1>1. RemovalInit => RemovalTypeOK
  <2>1. NoSync \in SyncCall
    BY DEF NoSync, SyncCall
  <2>2. << >> \in Seq(SeatRow)
    BY EmptySeq
  <2> QED BY <2>1, <2>2 DEF RemovalInit, RemovalTypeOK, SeatsInit, SeatsTypeOK
<1>2. RemovalTypeOK /\ [RemovalNext]_allVars => RemovalTypeOK'
  BY RemoversKeepType, RemovalKeepsSeats, TablesKeepType DEF RemovalTypeOK
<1> QED BY <1>1, <1>2, PTL DEF RemovalSpec

-----------------------------------------------------------------------------
(***************************************************************************)
(* The strengthening EvictedBeforeRecord needs: from the moment its row    *)
(* went, the seats a removal has to end are rows of its actor there.       *)
(***************************************************************************)
HeldAreTheirs ==
  \A c \in RemoveCalls :
    RowGone(c) => \A i \in removers[c].held : i \in Rows /\ SeatIn(i, removers[c].of)

EvictionInv == HeldAreTheirs /\ EvictedBeforeRecord

(***************************************************************************)
(* A removal another step does not touch keeps what it has ended.          *)
(***************************************************************************)
LEMMA OthersKeepEvictions ==
  ASSUME SeatsTypeOK, EvictionInv, [RemovalNext]_allVars, NEW d \in RemoveCalls,
         removers'[d] = removers[d], RowGone(d)
  PROVE  /\ \A i \in removers'[d].held : i \in Rows' /\ SeatIn(i, removers[d].of)'
         /\ removers'[d].step = "record" => \A i \in removers'[d].held : ~Live(i)'
BY RemovalKeepsSeats DEF EvictionInv, HeldAreTheirs, EvictedBeforeRecord, SeatIn

(***************************************************************************)
(* A row comes to be gone only by Deregister, and its removal to be        *)
(* recorded only by ending the seats.                                      *)
(***************************************************************************)
LEMMA GoneBySteps ==
  ASSUME RemovalTypeOK, [RemovalNext]_allVars, NEW d \in RemoveCalls, RowGone(d)'
  PROVE  \/ removers'[d] = removers[d] /\ RowGone(d)
         \/ Deregister(d)
         \/ EndHeldSeats(d)
<1> DEFINE Goal == \/ removers'[d] = removers[d] /\ RowGone(d)
                   \/ Deregister(d) \/ EndHeldSeats(d)
<1>0. removers'[d].step \in {"end", "record"}
  BY DEF RowGone
<1>1. ASSUME removers'[d] = removers[d]
      PROVE  Goal
  BY <1>0, <1>1 DEF RowGone
<1>2. ASSUME NEW c \in RemoveCalls, NEW call, removers' = [removers EXCEPT ![c] = call],
             call.step \notin {"end", "record"}
      PROVE  Goal
  BY <1>0, <1>1, <1>2 DEF RemovalTypeOK
<1>3. Idle.step \notin {"end", "record"}
  BY DEF Idle
<1>4. \A p, todo : Removing(p, todo).step \notin {"end", "record"}
  BY DEF Removing
<1>5. ASSUME NEW c \in RemoveCalls, RemoveReturns(c)
      PROVE  Goal
  BY <1>2, <1>3, <1>5 DEF RemoveReturns
<1>6. ASSUME NEW c \in RemoveCalls, Deregister(c) \/ EndHeldSeats(c)
      PROVE  Goal
  <2>1. c = d \/ removers'[d] = removers[d]
    BY <1>6 DEF Deregister, EndHeldSeats, RemovalTypeOK
  <2> QED BY <1>1, <1>6, <2>1
<1> HIDE DEF Goal
<1>7. ASSUME NEW c \in RemoveCalls, FindRegistration(c)
      PROVE  Goal
  <2>0. removers[c] # Idle
    BY <1>7 DEF FindRegistration, Idle
  <2>1. removers[c] \in RemoveCall
    BY <2>0, RemovalMovesOn
  <2>2. [removers[c] EXCEPT !.step = "delete"].step \notin {"end", "record"}
    BY <2>1 DEF RemoveCall
  <2>3. CASE RemoveReturns(c)
    BY <1>5, <2>3
  <2>4. CASE removers' = [removers EXCEPT ![c].step = "delete"]
    BY <1>2, <2>2, <2>4
  <2> QED BY <1>7, <2>3, <2>4 DEF FindRegistration
<1>8. ASSUME NEW c \in RemoveCalls, RecordRemoval(c)
      PROVE  Goal
  <2>0. removers[c] # Idle
    BY <1>8 DEF RecordRemoval, Idle
  <2>1. removers[c] \in RemoveCall
    BY <2>0, RemovalMovesOn
  <2>2. [removers[c] EXCEPT !.step = "next", !.held = {}].step \notin {"end", "record"}
    BY <2>1 DEF RemoveCall
  <2>3. CASE RemoveReturns(c)
    BY <1>5, <2>3
  <2>4. CASE removers' = [removers EXCEPT ![c].step = "next", ![c].held = {}]
    <3>1. removers' = [removers EXCEPT ![c] =
            [removers[c] EXCEPT !.step = "next", !.held = {}]]
      BY <2>4 DEF RemovalTypeOK
    <3> QED BY <1>2, <2>2, <3>1
  <2> QED BY <1>8, <2>3, <2>4 DEF RecordRemoval
<1>9. ASSUME NEW c \in RemoveCalls, NextGroup(c)
      PROVE  Goal
  BY <1>2, <1>4, <1>9 DEF NextGroup
<1>10. ASSUME NEW c \in RemoveCalls, Crash(c)
       PROVE  Goal
  BY <1>5, <1>10 DEF Crash
<1>11. ASSUME NEW c \in RemoveCalls, NEW p \in Pairs, RemoveFromGroup(c, p)
       PROVE  Goal
  BY <1>2, <1>4, <1>11 DEF RemoveFromGroup
<1>12. ASSUME NEW c \in RemoveCalls, NEW a \in Actors, RemoveFromAllGroups(c, a)
       PROVE  Goal
  BY <1>2, <1>4, <1>12 DEF RemoveFromAllGroups
<1>13. ASSUME UNCHANGED removers
       PROVE  Goal
  BY <1>1, <1>13
<1>14. ASSUME NEW p \in Pairs, Register(p)
       PROVE  Goal
  BY <1>13, <1>14 DEF Register
<1>15. ASSUME (SeatsNext /\ UNCHANGED removalVars) \/ UNCHANGED allVars
       PROVE  Goal
  BY <1>13, <1>15 DEF removalVars, allVars
<1>16. Goal
  BY <1>6, <1>7, <1>8, <1>9, <1>10, <1>11, <1>12, <1>14, <1>15 DEF RemovalNext
<1> QED BY <1>16 DEF Goal

(***************************************************************************)
(* Leaving notes the seats held; ending ends each, or it had ended.        *)
(***************************************************************************)
LEMMA EvictionStep ==
  ASSUME RemovalTypeOK, EvictionInv, [RemovalNext]_allVars
  PROVE  EvictionInv'
<1>0. SeatsTypeOK
  BY DEF RemovalTypeOK
<1> SUFFICES ASSUME NEW d \in RemoveCalls, RowGone(d)'
             PROVE  /\ \A i \in removers'[d].held :
                         i \in Rows' /\ SeatIn(i, removers[d].of)'
                    /\ removers'[d].step = "record" =>
                         \A i \in removers'[d].held : ~Live(i)'
  BY DEF EvictionInv, HeldAreTheirs, EvictedBeforeRecord, RowGone
<1>1. CASE removers'[d] = removers[d] /\ RowGone(d)
  BY <1>0, <1>1, OthersKeepEvictions
<1>2. CASE Deregister(d)
  <2>0. removers[d] # Idle
    BY <1>2 DEF Deregister, Idle
  <2>1. removers[d] \in RemoveCall
    BY <2>0, RemovalMovesOn
  <2>2. removers'[d] = [removers[d] EXCEPT !.step = "end", !.held = LiveIn(removers[d].of)]
    BY <1>2 DEF Deregister, RemovalTypeOK
  <2>3. /\ removers'[d].step = "end" /\ removers'[d].of = removers[d].of
        /\ removers'[d].held = LiveIn(removers[d].of)
    BY <2>1, <2>2 DEF RemoveCall
  <2>4. UNCHANGED seat
    BY <1>2 DEF Deregister, seatVars
  <2> QED BY <2>3, <2>4 DEF LiveIn, Rows, SeatIn
<1>3. CASE EndHeldSeats(d)
  <2>0. removers[d] # Idle
    BY <1>3 DEF EndHeldSeats, Idle
  <2>1. removers[d] \in RemoveCall
    BY <2>0, RemovalMovesOn
  <2>2. removers'[d].of = removers[d].of /\ removers'[d].held = removers[d].held
    BY <1>3, <2>1 DEF EndHeldSeats, RemovalTypeOK, RemoveCall
  <2>3. ASSUME NEW i \in removers[d].held
        PROVE  i \in Rows' /\ SeatIn(i, removers[d].of)' /\ ~Live(i)'
    <3>1. i \in Rows /\ SeatIn(i, removers[d].of)
      BY <1>3, <2>3 DEF EvictionInv, HeldAreTheirs, RowGone, EndHeldSeats
    <3>2. i \in Rows' /\ seat'[i].of = seat[i].of /\ (~Live(i) => ~Live(i)')
      BY <1>0, <3>1, RemovalKeepsSeats
    <3>3. Live(i) => ~Live(i)'
      <4>1. "evicted" \in EndReasons
        BY DEF EndReasons
      <4>2. Live(i) => i \in SeatsToEvict(removers[d].of)
        BY <3>1 DEF SeatsToEvict, LiveIn
      <4> QED BY <1>0, <1>3, <3>1, <4>1, <4>2, EndedRows
              DEF EndHeldSeats, SeatsTypeOK, Live
    <3> QED BY <3>1, <3>2, <3>3, <2>2 DEF SeatIn
  <2> QED BY <2>2, <2>3
<1> QED BY <1>1, <1>2, <1>3, GoneBySteps

(***************************************************************************)
(* EvictedBeforeRecord for every instance: nothing others do between the   *)
(* row's deletion and the record leaves a seat held then, the index or no  *)
(* index (RemoveFromGroup).                                                *)
(***************************************************************************)
THEOREM EvictionsPrecedeRecords == RemovalSpec => []EvictedBeforeRecord
<1>1. RemovalInit => EvictionInv
  BY DEF RemovalInit, EvictionInv, HeldAreTheirs, EvictedBeforeRecord, RowGone, Idle
<1>2. RemovalTypeOK /\ EvictionInv /\ [RemovalNext]_allVars => EvictionInv'
  BY EvictionStep
<1>3. EvictionInv => EvictedBeforeRecord
  BY DEF EvictionInv
<1> QED BY <1>1, <1>2, <1>3, RemovalTypeCorrect, PTL DEF RemovalSpec

-----------------------------------------------------------------------------
(* The removals that have ended a registration of p and owe its record, and  *)
(* the registration itself.                                                  *)
Owing(p) == {c \in RemoveCalls : RowGone(c) /\ removers[c].of = p}
Held(p) == {p} \cap registered

(***************************************************************************)
(* They can be counted.                                                    *)
(***************************************************************************)
LEMMA Countable ==
  ASSUME NEW p
  PROVE  /\ IsFiniteSet(Owing(p)) /\ Cardinality(Owing(p)) \in Nat
         /\ IsFiniteSet(Owing(p)') /\ Cardinality(Owing(p)') \in Nat
         /\ Cardinality(Held(p)) = (IF p \in registered THEN 1 ELSE 0)
         /\ Cardinality(Held(p)') = (IF p \in registered' THEN 1 ELSE 0)
<1>1. Owing(p) \in SUBSET RemoveCalls /\ Owing(p)' \in SUBSET RemoveCalls
  BY DEF Owing
<1>2. IsFiniteSet(Owing(p)) /\ IsFiniteSet(Owing(p)')
  BY <1>1, RemovalAssumption, FS_Subset
<1>3. /\ Held(p) = (IF p \in registered THEN {p} ELSE {})
      /\ Held(p)' = (IF p \in registered' THEN {p} ELSE {})
  BY DEF Held
<1> QED BY <1>2, <1>3, FS_CardinalityType, FS_EmptySet, FS_Singleton

(***************************************************************************)
(* One that owes as much as before keeps the count, if the tables stay.    *)
(***************************************************************************)
LEMMA SameOwing ==
  ASSUME LeftIsRecorded, UNCHANGED <<registered, records, rejoins, cuts>>,
         \A p \in Pairs : Owing(p)' = Owing(p)
  PROVE  LeftIsRecorded'
BY DEF LeftIsRecorded, Owing

(***************************************************************************)
(* Every step keeps the count: what leaves a table is owed, and what is    *)
(* owed no longer has been recorded or was cut.                            *)
(***************************************************************************)
LEMMA LeftStep ==
  ASSUME RemovalTypeOK, LeftIsRecorded, [RemovalNext]_allVars
  PROVE  LeftIsRecorded'
<1> DEFINE Counted(p) ==
             rejoins[p] <= records[p] + cuts[p] + Cardinality(Owing(p)) + Cardinality(Held(p))
<1>0. (\A p \in Pairs : Counted(p)) /\ ((\A p \in Pairs : Counted(p)') => LeftIsRecorded')
  BY DEF LeftIsRecorded, Owing, Held
<1>n. \A p \in Pairs : /\ rejoins[p] \in Nat /\ records[p] \in Nat /\ cuts[p] \in Nat
                       /\ rejoins'[p] \in Nat /\ records'[p] \in Nat /\ cuts'[p] \in Nat
  BY TablesKeepType DEF RemovalTypeOK
<1>1. ASSUME UNCHANGED <<removers, registered, records, rejoins, cuts>>
      PROVE  LeftIsRecorded'
  BY <1>1, SameOwing DEF Owing, RowGone
<1>2. ASSUME NEW c \in RemoveCalls, NEW call,
             removers' = [removers EXCEPT ![c] = call],
             UNCHANGED <<registered, records, rejoins, cuts>>,
             ~RowGone(c), call.step \notin {"end", "record"}
      PROVE  LeftIsRecorded'
  <2>1. removers'[c] = call /\ \A d \in RemoveCalls \ {c} : removers'[d] = removers[d]
    BY <1>2 DEF RemovalTypeOK
  <2>2. ~RowGone(c)'
    BY <1>2, <2>1 DEF RowGone
  <2>3. ASSUME NEW p \in Pairs PROVE Owing(p)' = Owing(p)
    BY <1>2, <2>1, <2>2 DEF Owing, RowGone
  <2> QED BY <1>2, <2>3, SameOwing
<1>3. ASSUME NEW c \in RemoveCalls, EndHeldSeats(c)
      PROVE  LeftIsRecorded'
  <2>1. removers[c] # Idle
    BY <1>3 DEF EndHeldSeats, Idle
  <2>2. removers[c] \in RemoveCall
    BY <2>1, RemovalMovesOn
  <2>3. removers'[c] = [removers[c] EXCEPT !.step = "record"]
        /\ \A d \in RemoveCalls \ {c} : removers'[d] = removers[d]
    BY <1>3 DEF EndHeldSeats, RemovalTypeOK
  <2>4. RowGone(c) /\ RowGone(c)' /\ removers'[c].of = removers[c].of
    BY <1>3, <2>2, <2>3 DEF EndHeldSeats, RowGone, RemoveCall
  <2>5. ASSUME NEW p \in Pairs PROVE Owing(p)' = Owing(p)
    BY <2>3, <2>4 DEF Owing, RowGone
  <2> QED BY <1>3, <2>5, SameOwing DEF EndHeldSeats
<1>4. ASSUME NEW c \in RemoveCalls, Deregister(c)
      PROVE  LeftIsRecorded'
  <2>1. removers[c] # Idle
    BY <1>4 DEF Deregister, Idle
  <2>2. removers[c] \in RemoveCall
    BY <2>1, RemovalMovesOn
  <2>3. /\ removers'[c].of = removers[c].of /\ removers'[c].step = "end"
        /\ \A d \in RemoveCalls \ {c} : removers'[d] = removers[d]
    BY <1>4, <2>2 DEF Deregister, RemovalTypeOK, RemoveCall
  <2>4. ~RowGone(c) /\ RowGone(c)'
    BY <1>4, <2>3 DEF Deregister, RowGone
  <2>5. ASSUME NEW p \in Pairs PROVE Counted(p)'
    <3>1. CASE p = removers[c].of
      <4>1. Owing(p)' = Owing(p) \cup {c} /\ c \notin Owing(p)
        BY <2>3, <2>4, <3>1 DEF Owing, RowGone
      <4>2. Cardinality(Owing(p)') = Cardinality(Owing(p)) + 1
        BY <4>1, Countable, FS_AddElement
      <4> QED BY <1>0, <1>n, <1>4, <4>2, Countable DEF Deregister
    <3>2. CASE p # removers[c].of
      <4>1. Owing(p)' = Owing(p) /\ Held(p)' = Held(p)
        BY <1>4, <2>3, <2>4, <3>2 DEF Owing, Held, RowGone, Deregister
      <4> QED BY <1>0, <1>4, <4>1 DEF Deregister
    <3> QED BY <3>1, <3>2
  <2> QED BY <1>0, <2>5
<1>5. ASSUME NEW c \in RemoveCalls, RowGone(c), RecordRemoval(c) \/ Crash(c)
      PROVE  LeftIsRecorded'
  <2>1. removers[c] # Idle
    BY <1>5 DEF RowGone, Idle
  <2>2. removers[c].of \in Pairs
    BY <2>1, RemovalMovesOn
  <2>3. /\ removers'[c].step \notin {"end", "record"}
        /\ \A d \in RemoveCalls \ {c} : removers'[d] = removers[d]
    <3>1. removers' = [removers EXCEPT ![c] = Idle]
          \/ removers' = [removers EXCEPT ![c] = [removers[c] EXCEPT !.step = "next", !.held = {}]]
      BY <1>5 DEF RecordRemoval, Crash, RemoveReturns, RemovalTypeOK
    <3>2. [removers[c] EXCEPT !.step = "next", !.held = {}].step = "next"
      BY <2>1, RemovalMovesOn DEF RemoveCall
    <3>3. ASSUME NEW call, removers' = [removers EXCEPT ![c] = call],
                 call.step \notin {"end", "record"}
          PROVE  /\ removers'[c].step \notin {"end", "record"}
                 /\ \A d \in RemoveCalls \ {c} : removers'[d] = removers[d]
      BY <3>3 DEF RemovalTypeOK
    <3>4. CASE removers' = [removers EXCEPT ![c] = Idle]
      BY <3>3, <3>4 DEF Idle
    <3> QED BY <3>1, <3>2, <3>3, <3>4
  <2>4. /\ records'[removers[c].of] + cuts'[removers[c].of]
             = records[removers[c].of] + cuts[removers[c].of] + 1
        /\ \A p \in Pairs \ {removers[c].of} :
             records'[p] = records[p] /\ cuts'[p] = cuts[p]
    <3>1. CASE RecordRemoval(c)
      BY <1>n, <2>2, <3>1 DEF RecordRemoval, Recorded, RemovalTypeOK
    <3>2. CASE Crash(c)
      BY <1>n, <1>5, <2>2, <3>2 DEF Crash, RemovalTypeOK
    <3> QED BY <1>5, <3>1, <3>2
  <2>5. rejoins' = rejoins /\ registered' = registered
    BY <1>5 DEF RecordRemoval, Crash
  <2>6. ASSUME NEW p \in Pairs PROVE Counted(p)'
    <3>1. CASE p = removers[c].of
      <4>1. Owing(p)' = Owing(p) \ {c} /\ c \in Owing(p)
        BY <1>5, <2>3, <3>1 DEF Owing, RowGone
      <4>2. Cardinality(Owing(p)') = Cardinality(Owing(p)) - 1
        BY <4>1, Countable, FS_RemoveElement
      <4> QED BY <1>0, <1>n, <2>4, <2>5, <3>1, <4>2, Countable
    <3>2. CASE p # removers[c].of
      <4>1. Owing(p)' = Owing(p) /\ Held(p)' = Held(p)
        BY <2>3, <2>5, <3>2 DEF Owing, Held, RowGone
      <4> QED BY <1>0, <2>4, <2>5, <3>2, <4>1
    <3> QED BY <3>1, <3>2
  <2> QED BY <1>0, <2>6
<1>6. ASSUME NEW q \in Pairs, Register(q)
      PROVE  LeftIsRecorded'
  <2>1. ASSUME NEW p \in Pairs PROVE Counted(p)'
    <3>1. Owing(p)' = Owing(p)
      BY <1>6 DEF Register, Owing, RowGone
    <3>2. CASE p = q
      <4>1. rejoins'[p] = rejoins[p] + 1 /\ p \notin registered /\ p \in registered'
        BY <1>6, <3>2 DEF Register, RemovalTypeOK
      <4> QED BY <1>0, <1>n, <1>6, <3>1, <4>1, Countable DEF Register
    <3>3. CASE p # q
      <4>1. rejoins'[p] = rejoins[p] /\ Held(p)' = Held(p)
        BY <1>6, <3>3 DEF Register, Held, RemovalTypeOK
      <4> QED BY <1>0, <1>6, <3>1, <4>1 DEF Register
    <3> QED BY <3>2, <3>3
  <2> QED BY <1>0, <2>1
<1>7. ASSUME NEW c \in RemoveCalls, RecordRemoval(c) \/ Crash(c)
      PROVE  LeftIsRecorded'
  <2>1. CASE RowGone(c)
    BY <1>5, <1>7, <2>1
  <2>2. CASE ~RowGone(c)
    BY <1>2, <1>7, <2>2 DEF RecordRemoval, Crash, RemoveReturns, RowGone, Idle
  <2> QED BY <2>1, <2>2
<1>8. ASSUME NEW c \in RemoveCalls, NEW p \in Pairs, RemoveFromGroup(c, p)
      PROVE  LeftIsRecorded'
  <2>1. ~RowGone(c) /\ Removing(p, {}).step \notin {"end", "record"}
    BY <1>8 DEF RemoveFromGroup, Removing, RowGone, Idle
  <2> QED BY <1>2, <1>8, <2>1 DEF RemoveFromGroup
<1>9. ASSUME NEW c \in RemoveCalls, NEW a \in Actors, RemoveFromAllGroups(c, a)
      PROVE  LeftIsRecorded'
  <2>1. PICK g \in Groups, todo \in SUBSET Groups :
          removers' = [removers EXCEPT ![c] = Removing(<<a, g>>, todo)]
    BY <1>9 DEF RemoveFromAllGroups
  <2> QED BY <1>2, <1>9, <2>1 DEF RemoveFromAllGroups, Removing, RowGone, Idle
<1>10. ASSUME NEW c \in RemoveCalls, FindRegistration(c)
       PROVE  LeftIsRecorded'
  <2>1. removers[c] # Idle
    BY <1>10 DEF FindRegistration, Idle
  <2>2. removers[c] \in RemoveCall
    BY <2>1, RemovalMovesOn
  <2>3. \E call : /\ removers' = [removers EXCEPT ![c] = call]
                  /\ call.step \notin {"end", "record"}
    <3>1. CASE removers[c].of \in registered
      <4>1. removers' = [removers EXCEPT ![c] = [removers[c] EXCEPT !.step = "delete"]]
        BY <1>10, <3>1 DEF FindRegistration, RemovalTypeOK
      <4>2. [removers[c] EXCEPT !.step = "delete"].step = "delete"
        BY <2>2 DEF RemoveCall
      <4> QED BY <4>1, <4>2
    <3>2. CASE removers[c].of \notin registered
      BY <1>10, <3>2 DEF FindRegistration, RemoveReturns, Idle
    <3> QED BY <3>1, <3>2
  <2> QED BY <1>2, <1>10, <2>3 DEF FindRegistration, RowGone
<1>11. ASSUME NEW c \in RemoveCalls, NextGroup(c)
       PROVE  LeftIsRecorded'
  <2>1. PICK g \in removers[c].todo :
          removers' = [removers EXCEPT
            ![c] = Removing(<<removers[c].of[1], g>>, removers[c].todo \ {g})]
    BY <1>11 DEF NextGroup
  <2> QED BY <1>2, <1>11, <2>1 DEF NextGroup, Removing, RowGone
<1>12. ASSUME (SeatsNext /\ UNCHANGED removalVars) \/ UNCHANGED allVars
       PROVE  LeftIsRecorded'
  BY <1>1, <1>12 DEF removalVars, allVars
<1> QED BY <1>3, <1>4, <1>6, <1>7, <1>8, <1>9, <1>10, <1>11, <1>12 DEF RemovalNext

(***************************************************************************)
(* No registration ends without a record of it, except in a removal that   *)
(* was cut between the two, for any number of actors, groups and removals  *)
(* and however often an actor comes back (RemoveFromGroup, Deregister).    *)
(***************************************************************************)
THEOREM NoneLeavesUnrecorded == RemovalSpec => []LeftIsRecorded
<1>1. RemovalInit => LeftIsRecorded
  <2> SUFFICES ASSUME RemovalInit, NEW p \in Pairs
               PROVE  0 <= records[p] + cuts[p] + Cardinality(Owing(p)) + Cardinality(Held(p))
    BY DEF RemovalInit, LeftIsRecorded, Owing, Held
  <2> QED BY Countable DEF RemovalInit
<1>2. RemovalTypeOK /\ LeftIsRecorded /\ [RemovalNext]_allVars => LeftIsRecorded'
  BY LeftStep
<1> QED BY <1>1, <1>2, RemovalTypeCorrect, PTL DEF RemovalSpec
=============================================================================
