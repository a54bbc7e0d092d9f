---------------------------- MODULE Delegations ----------------------------
(***************************************************************************)
(* One actor acting for another: granting it, revoking it once, and the    *)
(* answer the host asks for before a write (delegation_impl.go).           *)
(***************************************************************************)
EXTENDS Naturals

CONSTANTS
  Delegations,  \* the records that may be made
  Actors,
  Never,        \* an empty ends_at
  Nobody,       \* an empty revoked_by
  Revokes,      \* the revocations that may be asked for
  Asks,         \* the questions that may be asked
  MaxTime,      \* bound on the clock
  NoDelegation  \* no record

Times == 0..MaxTime

ASSUME DelegationsAssumption ==
  /\ MaxTime \in Nat
  /\ Never \notin Nat
  /\ Nobody \notin Revokes
  /\ NoDelegation \notin [delegate: Actors, subject: Actors,
                          ends: Times \cup {Never}, revokedBy: Revokes \cup {Nobody}]

VARIABLES
  granted,  \* the delegation rows
  revokes,  \* the revocations, and what they answered
  asks,     \* the questions, and what they answered
  now       \* the clock

delegationVars == <<granted, revokes, asks, now>>

\* A revoker is told by the call, which its id and its moment stand for.
Delegation == [delegate: Actors, subject: Actors,
               ends: Times \cup {Never}, revokedBy: Revokes \cup {Nobody}]

Unasked == [step |-> "unasked"]

RevokeCall ==
  [step: {"write"}, of: Delegations] \cup
  [step: {"revoked", "refused"}, of: Delegations]

\* held are the rows listed, live those of them live by then, which is history.
AskCall ==
  [step: {"judge"}, held: [Delegations -> Delegation \cup {NoDelegation}],
   live: SUBSET Delegations, delegate: Actors, subject: Actors] \cup
  [step: {"yes", "no"}, live: SUBSET Delegations, delegate: Actors, subject: Actors]

Made == {d \in Delegations : granted[d] # NoDelegation}

-----------------------------------------------------------------------------
\* Both actors are there, and nothing takes an actor away.
CreateDelegation(d, delegate, subject, ends) ==
  /\ d \notin Made
  /\ delegate # subject
  /\ granted' = [granted EXCEPT ![d] =
       [delegate |-> delegate, subject |-> subject, ends |-> ends, revokedBy |-> Nobody]]
  /\ UNCHANGED <<revokes, asks, now>>

Unrevoked(row) == row.revokedBy = Nobody

\* ErrDelegationRevoked where the row read is revoked.
RevokeDelegation(c, d) ==
  /\ revokes[c] = Unasked
  /\ d \in Made
  /\ revokes' = [revokes EXCEPT ![c] =
       [step |-> IF Unrevoked(granted[d]) THEN "write" ELSE "refused", of |-> d]]
  /\ UNCHANGED <<granted, asks, now>>

\* Mutant: the row is stamped by its id alone.
InAnyState(row) == TRUE

\* The condition of the update.
StillUnrevoked(row) == Unrevoked(row)

WriteRevoked(c) ==
  LET d == revokes[c].of IN
  /\ revokes[c].step = "write"
  /\ IF StillUnrevoked(granted[d])
     THEN /\ granted' = [granted EXCEPT ![d].revokedBy = c]
          /\ revokes' = [revokes EXCEPT ![c].step = "revoked"]
     ELSE /\ UNCHANGED granted
          /\ revokes' = [revokes EXCEPT ![c].step = "refused"]
  /\ UNCHANGED <<asks, now>>

-----------------------------------------------------------------------------
\* The rows of a pair, in one direction.
HeldBy(delegate, subject) ==
  {d \in Made : granted[d].delegate = delegate /\ granted[d].subject = subject}

\* Mutant: a delegation lives on at the moment it ends.
LiveThrough(row, t) == Unrevoked(row) /\ (row.ends = Never \/ t <= row.ends)

LiveAt(row, t) == Unrevoked(row) /\ (row.ends = Never \/ t < row.ends)

ActsFor(c, delegate, subject) ==
  LET held == HeldBy(delegate, subject) IN
  /\ asks[c] = Unasked
  /\ delegate # subject
  /\ asks' = [asks EXCEPT ![c] =
       [step |-> "judge", delegate |-> delegate, subject |-> subject,
        held |-> [d \in Delegations |-> IF d \in held THEN granted[d] ELSE NoDelegation],
        live |-> {d \in held : Unrevoked(granted[d]) /\ (granted[d].ends = Never \/ now < granted[d].ends)}]]
  /\ UNCHANGED <<granted, revokes, now>>

\* The clock is read after the rows.
Judge(c) ==
  LET call == asks[c]
      yes  == \E d \in Delegations : call.held[d] # NoDelegation /\ LiveAt(call.held[d], now)
  IN
  /\ call.step = "judge"
  /\ asks' = [asks EXCEPT ![c] =
       [step |-> IF yes THEN "yes" ELSE "no", live |-> @.live,
        delegate |-> @.delegate, subject |-> @.subject]]
  /\ UNCHANGED <<granted, revokes, now>>

Tick ==
  /\ now < MaxTime
  /\ now' = now + 1
  /\ UNCHANGED <<granted, revokes, asks>>

-----------------------------------------------------------------------------
DelegationsInit ==
  /\ granted = [d \in Delegations |-> NoDelegation]
  /\ revokes = [c \in Revokes |-> Unasked]
  /\ asks = [c \in Asks |-> Unasked]
  /\ now = 0

DelegationsNext ==
  \/ \E d \in Delegations, a, b \in Actors, ends \in Times \cup {Never} :
       CreateDelegation(d, a, b, ends)
  \/ \E c \in Revokes : (\E d \in Delegations : RevokeDelegation(c, d)) \/ WriteRevoked(c)
  \/ \E c \in Asks : (\E a, b \in Actors : ActsFor(c, a, b)) \/ Judge(c)
  \/ Tick

DelegationsSpec == DelegationsInit /\ [][DelegationsNext]_delegationVars

\* A record's revoker asked for its revocation.
DelegationsTypeOK ==
  /\ granted \in [Delegations -> Delegation \cup {NoDelegation}]
  /\ revokes \in [Revokes -> RevokeCall \cup {Unasked}]
  /\ asks \in [Asks -> AskCall \cup {Unasked}]
  /\ now \in Times
  /\ \A c \in Revokes : revokes[c] # Unasked => revokes[c].of \in Made

-----------------------------------------------------------------------------
(***************************************************************************)
(* A revocation that was answered stands, with the revoker it was stamped  *)
(* with, and nobody revokes without being answered so: two revocations at  *)
(* once do not both succeed (RevokeDelegation).                            *)
(***************************************************************************)
RevokedByOne ==
  \A c \in Revokes, d \in Made :
    granted[d].revokedBy = c <=> revokes[c] # Unasked /\ revokes[c] = [step |-> "revoked", of |-> d]

(***************************************************************************)
(* A yes rests on a delegation of the pair, in that direction, that was    *)
(* live when the rows were read; and one that was live then is denied only *)
(* where it has ended by now (ActsFor reads the rows before the clock).    *)
(***************************************************************************)
AnswerWasTrue ==
  \A c \in Asks :
    /\ asks[c].step = "yes" => asks[c].live # {}
    /\ asks[c].step = "no" => \A d \in asks[c].live : granted[d].ends # Never /\ granted[d].ends <= now
=============================================================================
