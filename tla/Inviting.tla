----------------------------- MODULE Inviting ------------------------------
(***************************************************************************)
(* Invitations: one leader inviting one actor, an operator's batch, and    *)
(* the actor's answer (invitation_impl.go, invitation_batch_impl.go).      *)
(* Times are readings of one clock; lapsing is only ever computed from     *)
(* expires_at, no step writes it.                                          *)
(***************************************************************************)
EXTENDS Registrations

CONSTANTS
  InviteCalls,  \* InviteToGroup calls that may be in flight together
  BatchCalls,   \* SendInvitationBatch calls that may be in flight together
  AnswerCalls,  \* accept and decline calls that may be in flight together
  Lifetimes,    \* how far ahead an invitation may expire
  Legacy,       \* pairs that may still hold an invitation issued before ACT16
  MaxRows,      \* bound on the rows of a batch
  MaxClock      \* bound on the clock

ASSUME InviteBoundsAssumption ==
  /\ Lifetimes \subseteq Nat \ {0}
  /\ Legacy \subseteq Pairs
  /\ MaxRows \in Nat
  /\ MaxClock \in Nat

VARIABLES
  invitation,  \* each pair's invitation row; NoInvitation where none was inserted
  clock,
  invites,     \* the InviteToGroup calls in flight
  batches,     \* the SendInvitationBatch calls in flight
  answers      \* the answer calls in flight

inviteVars == <<invitation, clock, invites, batches, answers>>

Unset == 0  \* an empty expires_at or answered_at; the clock starts at 1
Times == Nat

InvitationRow == [state: {"none", "pending", "accepted", "declined"},
                  by: Officers \cup {Nobody}, expires: Times, answered: Times]

NoInvitation == [state |-> "none", by |-> Nobody, expires |-> Unset, answered |-> Unset]

\* A row issued before ACT16: pending, with no expiry, by whoever led then.
LegacyInvitation(by) == [NoInvitation EXCEPT !.state = "pending", !.by = by]

Lapsed(inv, now) == inv.state = "pending" /\ inv.expires # Unset /\ inv.expires <= now

\* Mutant: the expiry is not looked at.
PendingAtAnyTime(inv, now) == inv.state = "pending"

\* Mutant: the state is not looked at.
InTimeInAnyState(inv, now) == inv.expires = Unset \/ inv.expires > now

StillOpen(inv, now) == inv.state = "pending" /\ ~Lapsed(inv, now)

Issued(by, at, life) ==
  [state |-> "pending", by |-> by, expires |-> at + life, answered |-> Unset]

InviteCall == [step: {"outsider", "member", "find", "write"}, pair: Pairs,
               issue: InvitationRow, found: BOOLEAN, retried: BOOLEAN]

AnswerCall == [step: {"outsider", "judge", "write"}, pair: Pairs,
               state: {"accepted", "declined"}, seen: InvitationRow, at: Times]

BatchCall == [step: {"check", "outsider", "open", "find", "write"},
              rows: Seq(Pairs), ready: Seq(Pairs), by: Officers,
              issue: InvitationRow, found: BOOLEAN, retried: BOOLEAN]

-----------------------------------------------------------------------------
(***************************************************************************)
(* InviteToGroup reads its clock, the group and the issuer's leading seat, *)
(* each outside a transaction; then the outsider test, the registration,   *)
(* and the transaction of issueInvitation.                                 *)
(***************************************************************************)
InviteToGroup(i, p, by, life) ==
  /\ invites[i] = Idle
  /\ LeadsIn(p[2], by)
  /\ invites' = [invites EXCEPT ![i] =
       [step |-> "outsider", pair |-> p, issue |-> Issued(by, clock, life),
        found |-> FALSE, retried |-> FALSE]]
  /\ UNCHANGED <<registered, request, seats, invitation, clock, batches, answers>>

InviteReturns(i) == invites' = [invites EXCEPT ![i] = Idle]

InviteRefuseOutsider(i) ==
  /\ invites[i].step = "outsider"
  /\ IF IsOutsider(invites[i].pair[1])
     THEN InviteReturns(i)
     ELSE invites' = [invites EXCEPT ![i].step = "member"]
  /\ UNCHANGED <<registered, request, seats, invitation, clock, batches, answers>>

InviteFindAssignment(i) ==
  /\ invites[i].step = "member"
  /\ IF invites[i].pair \in registered
     THEN InviteReturns(i)
     ELSE invites' = [invites EXCEPT ![i].step = "find"]
  /\ UNCHANGED <<registered, request, seats, invitation, clock, batches, answers>>

InviteFind(i) ==
  /\ invites[i].step = "find"
  /\ invites' = [invites EXCEPT ![i].step = "write",
                   ![i].found = invitation[invites[i].pair].state # "none"]
  /\ UNCHANGED <<registered, request, seats, invitation, clock, batches, answers>>

\* The insert of issueInvitation loses to a row that landed since its read.
LostInsert(call, p) == ~call.found /\ invitation[p].state # "none"

InviteLost(i) ==
  IF invites[i].retried
  THEN InviteReturns(i)
  ELSE invites' = [invites EXCEPT ![i].step = "find", ![i].retried = TRUE]

(***************************************************************************)
(* The write of issueInvitation: insert or update by id, whatever state    *)
(* the row is in; an insert the unique pair index refuses is retried once. *)
(***************************************************************************)
InviteWrite(i) ==
  LET call == invites[i] IN
  /\ call.step = "write"
  /\ IF LostInsert(call, call.pair)
     THEN InviteLost(i) /\ UNCHANGED invitation
     ELSE /\ invitation' = [invitation EXCEPT ![call.pair] = call.issue]
          /\ InviteReturns(i)
  /\ UNCHANGED <<registered, request, seats, clock, batches, answers>>

-----------------------------------------------------------------------------
(***************************************************************************)
(* SendInvitationBatch checks every row before it sends any: a row whose   *)
(* actor is registered by then is not ready.  It then takes the ready rows *)
(* in order, and never looks at the registration again.  Its sender is not *)
(* asked for a leading seat.                                               *)
(***************************************************************************)
SendInvitationBatch(b, rows, by) ==
  /\ batches[b] = Idle
  /\ batches' = [batches EXCEPT ![b] =
       [step |-> "check", rows |-> rows, ready |-> << >>, by |-> by,
        issue |-> NoInvitation, found |-> FALSE, retried |-> FALSE]]
  /\ UNCHANGED <<registered, request, seats, invitation, clock, invites, answers>>

\* The call as it goes on to the next ready row, or returns after the last.
AtRow(call, ready) ==
  IF ready = << >> THEN Idle
  ELSE [call EXCEPT !.step = "outsider", !.ready = ready, !.issue = NoInvitation,
                   !.found = FALSE, !.retried = FALSE]

CheckBatchRow(b) ==
  LET call  == batches[b]
      row   == Head(call.rows)
      ready == IF row \in registered THEN call.ready ELSE Append(call.ready, row)
  IN
  /\ call.step = "check"
  /\ batches' = [batches EXCEPT ![b] =
       IF Tail(call.rows) = << >>
       THEN AtRow([call EXCEPT !.rows = << >>], ready)
       ELSE [call EXCEPT !.rows = Tail(@), !.ready = ready]]
  /\ UNCHANGED <<registered, request, seats, invitation, clock, invites, answers>>

NextRow(b) == batches' = [batches EXCEPT ![b] = AtRow(@, Tail(@.ready))]

BatchRefuseOutsider(b) ==
  /\ batches[b].step = "outsider"
  /\ IF IsOutsider(Head(batches[b].ready)[1])
     THEN NextRow(b)
     ELSE batches' = [batches EXCEPT ![b].step = "open"]
  /\ UNCHANGED <<registered, request, seats, invitation, clock, invites, answers>>

(***************************************************************************)
(* An invitation already open answers the row as it stands; otherwise one  *)
(* is issued with the manager's lifetime from this clock reading.          *)
(***************************************************************************)
BatchFindOpen(b, life) ==
  LET call == batches[b] IN
  /\ call.step = "open"
  /\ IF StillOpen(invitation[Head(call.ready)], clock)
     THEN NextRow(b)
     ELSE batches' = [batches EXCEPT ![b].step = "find",
                        ![b].issue = Issued(call.by, clock, life)]
  /\ UNCHANGED <<registered, request, seats, invitation, clock, invites, answers>>

BatchFind(b) ==
  /\ batches[b].step = "find"
  /\ batches' = [batches EXCEPT ![b].step = "write",
                   ![b].found = invitation[Head(batches[b].ready)].state # "none"]
  /\ UNCHANGED <<registered, request, seats, invitation, clock, invites, answers>>

\* Mutant: the retry of a row's insert does not read again.
BatchResends(b) == batches' = [batches EXCEPT ![b].retried = TRUE]

\* A row's second lost insert ends the batch with an error.
BatchLost(b) ==
  batches' = [batches EXCEPT ![b] =
    IF @.retried THEN Idle ELSE [@ EXCEPT !.step = "find", !.retried = TRUE]]

BatchWrite(b) ==
  LET call == batches[b]
      row  == Head(call.ready)
  IN
  /\ call.step = "write"
  /\ IF LostInsert(call, row)
     THEN BatchLost(b) /\ UNCHANGED invitation
     ELSE /\ invitation' = [invitation EXCEPT ![row] = call.issue]
          /\ NextRow(b)
  /\ UNCHANGED <<registered, request, seats, clock, invites, answers>>

-----------------------------------------------------------------------------
(***************************************************************************)
(* AcceptInvitation and DeclineInvitation read the row, test an accepting  *)
(* actor for outsider, then judge the row they read at the clock's time.   *)
(***************************************************************************)
AnswerInvitation(x, p, state) ==
  /\ answers[x] = Idle
  /\ invitation[p].state # "none"
  /\ answers' = [answers EXCEPT ![x] =
       [step |-> IF state = "accepted" THEN "outsider" ELSE "judge",
        pair |-> p, state |-> state, seen |-> invitation[p], at |-> Unset]]
  /\ UNCHANGED <<registered, request, seats, invitation, clock, invites, batches>>

AnswerReturns(x) == answers' = [answers EXCEPT ![x] = Idle]

AnswerRefuseOutsider(x) ==
  /\ answers[x].step = "outsider"
  /\ IF IsOutsider(answers[x].pair[1])
     THEN AnswerReturns(x)
     ELSE answers' = [answers EXCEPT ![x].step = "judge"]
  /\ UNCHANGED <<registered, request, seats, invitation, clock, invites, batches>>

JudgeAnswer(x) ==
  /\ answers[x].step = "judge"
  /\ IF StillOpen(answers[x].seen, clock)
     THEN answers' = [answers EXCEPT ![x].step = "write", ![x].at = clock]
     ELSE AnswerReturns(x)
  /\ UNCHANGED <<registered, request, seats, invitation, clock, invites, batches>>

(***************************************************************************)
(* The answer's transaction: the update conditional on an open invitation  *)
(* at the time judged and, for an accept, the registration and the settled *)
(* request.  An update of no row answers ErrInvitationAnswered.            *)
(***************************************************************************)
AnswerOpen(x) ==
  LET call == answers[x] IN
  /\ call.step = "write"
  /\ StillOpen(invitation[call.pair], call.at)
  /\ invitation' = [invitation EXCEPT
       ![call.pair].state = call.state, ![call.pair].answered = call.at]
  /\ IF call.state = "accepted"
     THEN Register(call.pair) /\ request' = SettlePendingJoinRequest(call.pair)
     ELSE UNCHANGED <<registered, request>>
  /\ AnswerReturns(x)
  /\ UNCHANGED <<seats, clock, invites, batches>>

AnswerRefused(x) ==
  /\ answers[x].step = "write"
  /\ ~StillOpen(invitation[answers[x].pair], answers[x].at)
  /\ AnswerReturns(x)
  /\ UNCHANGED <<registered, request, seats, invitation, clock, invites, batches>>

-----------------------------------------------------------------------------
Tick ==
  /\ clock < MaxClock
  /\ clock' = clock + 1
  /\ UNCHANGED <<registered, request, seats, invitation, invites, batches, answers>>

InvitingInit ==
  /\ \E old \in SUBSET Legacy, by \in Officers :
       invitation = [p \in Pairs |-> IF p \in old THEN LegacyInvitation(by)
                                                 ELSE NoInvitation]
  /\ clock = 1
  /\ invites = [i \in InviteCalls |-> Idle]
  /\ batches = [b \in BatchCalls |-> Idle]
  /\ answers = [x \in AnswerCalls |-> Idle]

\* A list a batch may be sent.  Two emails may be one actor's, so a pair may
\* come twice; a repeated email is a row left out.
BatchLists == UNION {[1..n -> Pairs] : n \in 1..MaxRows}

InviteStep(i) ==
  InviteRefuseOutsider(i) \/ InviteFindAssignment(i) \/ InviteFind(i) \/ InviteWrite(i)

BatchStep(b) ==
  \/ CheckBatchRow(b) \/ BatchRefuseOutsider(b) \/ BatchFind(b) \/ BatchWrite(b)
  \/ \E life \in Lifetimes : BatchFindOpen(b, life)

AnswerStep(x) ==
  AnswerRefuseOutsider(x) \/ JudgeAnswer(x) \/ AnswerOpen(x) \/ AnswerRefused(x)

InvitingNext ==
  \/ \E i \in InviteCalls : InviteStep(i)
  \/ \E i \in InviteCalls, p \in Pairs, by \in Officers, life \in Lifetimes :
       InviteToGroup(i, p, by, life)
  \/ \E b \in BatchCalls : BatchStep(b)
  \/ \E b \in BatchCalls, rows \in BatchLists, by \in Officers :
       SendInvitationBatch(b, rows, by)
  \/ \E x \in AnswerCalls : AnswerStep(x)
  \/ \E x \in AnswerCalls, p \in Pairs, state \in {"accepted", "declined"} :
       AnswerInvitation(x, p, state)
  \/ Tick

InvitingTypeOK ==
  /\ invitation \in [Pairs -> InvitationRow]
  /\ clock \in Nat
  /\ invites \in [InviteCalls -> InviteCall \cup {Idle}]
  /\ batches \in [BatchCalls -> BatchCall \cup {Idle}]
  /\ answers \in [AnswerCalls -> AnswerCall \cup {Idle}]
=============================================================================
