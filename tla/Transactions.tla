---------------------------- MODULE Transactions ----------------------------
(***************************************************************************)
(* The transactions of one actor at one group, statement by statement:     *)
(* entering an open group, accepting or declining an invitation, asking,   *)
(* and deciding what was asked (join_impl.go, invitation_impl.go).  They   *)
(* write the same three rows in different orders, under READ COMMITTED: a  *)
(* statement sees what was committed when it was sent, and its own         *)
(* transaction's writes; it waits for a row another transaction has        *)
(* written and not committed; of a cycle of waits the database breaks one. *)
(*                                                                         *)
(* Membership takes each of these transactions as one step.                *)
(***************************************************************************)
EXTENDS Naturals, Sequences

CONSTANT Txs  \* the transactions that are begun, each once

VARIABLES
  registered,  \* whether the assignment row is committed
  request,     \* the committed state of the join request, "none" without a row
  invitation,  \* the same of the invitation
  txs          \* where each transaction stands

transactionVars == <<registered, request, invitation, txs>>

RequestStates == {"none", "pending", "approved", "declined"}
InvitationStates == {"none", "pending", "accepted", "declined"}
Kinds == {"open", "accept", "refuse", "ask", "approve", "decline"}
Entries == {"open", "accept"}
Unwritten == "unwritten"

-----------------------------------------------------------------------------
\* Mutant: an acceptance settles the request before it answers.
SettleFirst ==
  [open    |-> <<"insert", "take", "settle">>,
   accept  |-> <<"settle", "answer", "insert", "take">>,
   refuse  |-> <<"answer">>,
   ask     |-> <<"find", "write">>,
   approve |-> <<"decide", "insert", "take">>,
   decline |-> <<"decide">>]

\* Mutant: register returns without reading the row back.
TakeNothing ==
  [open    |-> <<"insert", "settle">>,
   accept  |-> <<"answer", "insert", "settle">>,
   refuse  |-> <<"answer">>,
   ask     |-> <<"find", "write">>,
   approve |-> <<"decide", "insert">>,
   decline |-> <<"decide">>]

\* What each kind sends between its BEGIN and its COMMIT, in order.
Statements ==
  [open    |-> <<"insert", "take", "settle">>,
   accept  |-> <<"answer", "insert", "take", "settle">>,
   refuse  |-> <<"answer">>,
   ask     |-> <<"find", "write">>,
   approve |-> <<"decide", "insert", "take">>,
   decline |-> <<"decide">>]

\* What the transaction makes of a request or an invitation it writes.
Becomes == [open |-> "approved", accept |-> "approved", approve |-> "approved",
            decline |-> "declined", ask |-> "pending"]
Answers == [accept |-> "accepted", refuse |-> "declined"]

(***************************************************************************)
(* sent counts the statements answered; inserted, request and invitation   *)
(* are its uncommitted writes; found is what an ask's find returned, and   *)
(* retried that this is the second transaction of the ask.  History: took, *)
(* settled, that those statements were answered; left, that the actor was  *)
(* deregistered since the take; asked, that an ask was committed since the *)
(* settling.                                                               *)
(***************************************************************************)
Tx == [step: {"new", "on", "done"}, kind: Kinds \cup {Unwritten}, sent: Nat,
       inserted: BOOLEAN, request: RequestStates \cup {Unwritten},
       invitation: InvitationStates \cup {Unwritten},
       found: BOOLEAN, retried: BOOLEAN,
       took: BOOLEAN, left: BOOLEAN, settled: BOOLEAN, asked: BOOLEAN]

New == [step |-> "new", kind |-> Unwritten, sent |-> 0,
        inserted |-> FALSE, request |-> Unwritten, invitation |-> Unwritten,
        found |-> FALSE, retried |-> FALSE,
        took |-> FALSE, left |-> FALSE, settled |-> FALSE, asked |-> FALSE]

Done == [New EXCEPT !.step = "done"]

Begun(k) == [New EXCEPT !.step = "on", !.kind = k]

On(t) == txs[t].step = "on"

AllSent(t) == On(t) /\ txs[t].sent = Len(Statements[txs[t].kind])

Sends(t, s) ==
  /\ On(t)
  /\ txs[t].sent < Len(Statements[txs[t].kind])
  /\ Statements[txs[t].kind][txs[t].sent + 1] = s

Answered(t) == [txs[t] EXCEPT !.sent = @ + 1]

\* The transaction goes on as tx, and no table changes until it commits.
Continues(t, tx) ==
  /\ txs' = [txs EXCEPT ![t] = tx]
  /\ UNCHANGED <<registered, request, invitation>>

Rollback(t) == Continues(t, Done)

(***************************************************************************)
(* Whether t's statement waits for u.  An update waits only for a row that *)
(* it would write as committed: one that does not match is passed over,    *)
(* whoever holds it.  An insert waits for another of the same key.         *)
(***************************************************************************)
WaitsForRequest(t) ==
  \/ (Sends(t, "settle") \/ Sends(t, "decide")) /\ request = "pending"
  \/ Sends(t, "write") /\ (txs[t].found \/ request = "none")

WaitsFor(t, u) ==
  /\ t # u
  /\ On(u)
  /\ \/ Sends(t, "insert") /\ txs[u].inserted
     \/ WaitsForRequest(t) /\ txs[u].request # Unwritten
     \/ Sends(t, "answer") /\ invitation = "pending" /\ txs[u].invitation # Unwritten

Free(t) == \A u \in Txs : ~WaitsFor(t, u)

-----------------------------------------------------------------------------
(***************************************************************************)
(* What is decided or answered was read, by its id, before the BEGIN; and  *)
(* whoever joins was no member then.                                       *)
(***************************************************************************)
Begin(t, k) ==
  /\ txs[t] = New
  /\ k \in {"approve", "decline"} => request # "none"
  /\ k \in {"accept", "refuse"} => invitation # "none"
  /\ Continues(t, Begun(k))

\* register: an insert that does nothing where the row is committed.
Insert(t) ==
  /\ Sends(t, "insert") /\ Free(t)
  /\ Continues(t, [Answered(t) EXCEPT !.inserted = ~registered])

Held(t) == registered \/ txs[t].inserted

\* Mutant: a member lost since the insert is registered again, from the start.
RegisterAgain(t) == Begun(txs[t].kind)

\* A member lost since the insert is an error, and nothing is written.
NotHeld(t) == Done

Take(t) ==
  /\ Sends(t, "take")
  /\ Continues(t, IF Held(t) THEN [Answered(t) EXCEPT !.took = TRUE] ELSE NotHeld(t))

\* Mutant: the pending request is left as it is.
SettleNothing(t) == [Answered(t) EXCEPT !.settled = TRUE]

\* settlePendingJoinRequest, which may find nothing pending.
Settled(t) ==
  [Answered(t) EXCEPT !.settled = TRUE,
     !.request = IF request = "pending" THEN Becomes[txs[t].kind] ELSE @]

Settle(t) == Sends(t, "settle") /\ Free(t) /\ Continues(t, Settled(t))

\* ErrJoinRequestDecided where it is no longer pending; else its record is added.
Decide(t) ==
  /\ Sends(t, "decide") /\ Free(t)
  /\ Continues(t, IF request = "pending"
                  THEN [Answered(t) EXCEPT !.request = Becomes[txs[t].kind]]
                  ELSE Done)

\* ErrInvitationAnswered where it is no longer open.
Answer(t) ==
  /\ Sends(t, "answer") /\ Free(t)
  /\ Continues(t, IF invitation = "pending"
                  THEN [Answered(t) EXCEPT !.invitation = Answers[txs[t].kind]]
                  ELSE Done)

FindJoinRequest(t) ==
  /\ Sends(t, "find")
  /\ Continues(t, [Answered(t) EXCEPT !.found = (request # "none")])

\* The insert refused as a duplicate is tried once more, in a new transaction.
AskToJoin(t) ==
  /\ Sends(t, "write") /\ Free(t)
  /\ Continues(t, IF txs[t].found \/ request = "none"
                  THEN [Answered(t) EXCEPT !.request = Becomes[txs[t].kind]]
                  ELSE IF txs[t].retried THEN Done
                  ELSE [Begun("ask") EXCEPT !.retried = TRUE])

Commit(t) ==
  /\ AllSent(t)
  /\ registered' = (registered \/ txs[t].inserted)
  /\ request' = IF txs[t].request = Unwritten THEN request ELSE txs[t].request
  /\ invitation' = IF txs[t].invitation = Unwritten THEN invitation ELSE txs[t].invitation
  /\ txs' = [u \in Txs |->
       IF u = t THEN Done
       ELSE [txs[u] EXCEPT !.asked = @ \/ (txs[t].kind = "ask" /\ txs[u].settled)]]

\* A statement or the commit fails, or the caller goes away.
Fails(t) == On(t) /\ Rollback(t)

-----------------------------------------------------------------------------
Deadlocked(D) == D # {} /\ \A t \in D : \E u \in D : WaitsFor(t, u)

\* The database answers one of a cycle with "deadlock detected".
DetectDeadlock ==
  \E D \in SUBSET Txs :
    /\ Deadlocked(D)
    /\ \A E \in SUBSET D : Deadlocked(E) => E = D
    /\ \E t \in D : Rollback(t)

\* AssignGroup's insert commits by itself; it too waits for one uncommitted.
AssignGroup ==
  /\ ~registered
  /\ \A t \in Txs : ~txs[t].inserted
  /\ registered' = TRUE
  /\ UNCHANGED <<request, invitation, txs>>

\* Deregister deletes the committed row, which no insert that did nothing holds.
Deregister ==
  /\ registered
  /\ registered' = FALSE
  /\ txs' = [t \in Txs |-> [txs[t] EXCEPT !.left = @ \/ txs[t].took]]
  /\ UNCHANGED <<request, invitation>>

-----------------------------------------------------------------------------
Step(t) ==
  \/ Insert(t) \/ Take(t) \/ Settle(t) \/ Decide(t) \/ Answer(t)
  \/ FindJoinRequest(t) \/ AskToJoin(t) \/ Commit(t)

TransactionsInit ==
  /\ registered \in BOOLEAN
  /\ request \in RequestStates
  /\ invitation \in InvitationStates
  /\ txs = [t \in Txs |-> New]

TransactionsNext ==
  \/ \E t \in Txs :
       \/ \E k \in Kinds : Begin(t, k)
       \/ Step(t)
       \/ Fails(t)
  \/ DetectDeadlock
  \/ AssignGroup
  \/ Deregister

(***************************************************************************)
(* While some transaction's statement has nothing to wait for one goes on, *)
(* and the database breaks the cycles of those that wait for each other.   *)
(* Nobody has to begin a transaction, and nothing has to fail.             *)
(***************************************************************************)
GoesOn == (\E t \in Txs : Step(t)) \/ DetectDeadlock

TransactionsSpec ==
  /\ TransactionsInit /\ [][TransactionsNext]_transactionVars
  /\ WF_transactionVars(GoesOn)

TransactionsTypeOK ==
  /\ registered \in BOOLEAN
  /\ request \in RequestStates
  /\ invitation \in InvitationStates
  /\ txs \in [Txs -> Tx]

-----------------------------------------------------------------------------
(***************************************************************************)
(* joinOpen and an acceptance write the registration and then the request, *)
(* an approval the request and then the registration.  So an entry and an  *)
(* approval can come to wait for each other, and nothing else can: every   *)
(* deadlock of any transactions here holds such a pair.                    *)
(***************************************************************************)
DeadlockIsEntryWithApproval ==
  \A D \in SUBSET Txs : Deadlocked(D) =>
    \E e, a \in D :
      /\ txs[e].kind \in Entries /\ txs[a].kind = "approve"
      /\ WaitsFor(e, a) /\ WaitsFor(a, e)

(***************************************************************************)
(* Whoever is approved is registered by then, though register's insert may *)
(* do nothing and holds no row: only a deregistration after the row was    *)
(* read back, and before the commit, comes between.                        *)
(***************************************************************************)
ApprovedIsIn ==
  [][request = "pending" /\ request' = "approved" =>
       registered' \/ \E t \in Txs : AllSent(t) /\ txs[t].left]_transactionVars

(***************************************************************************)
(* Whoever entered leaves no request pending, unless an ask was committed  *)
(* after the entry looked for one (settlePendingJoinRequest passes over a  *)
(* request that is not committed yet).                                     *)
(***************************************************************************)
EntrySettles ==
  [][\A t \in Txs :
       txs[t].kind \in Entries /\ Commit(t) =>
         request' # "pending" \/ txs[t].asked]_transactionVars

(***************************************************************************)
(* The commits implement Admission, for the one pair of actor and group.   *)
(***************************************************************************)
Pair == "pair"

Admits == INSTANCE Admission WITH
  Pairs  <- {Pair},
  in     <- IF registered THEN {Pair} ELSE {},
  wishes <- [p \in {Pair} |-> request],
  offers <- [p \in {Pair} |-> invitation]

(***************************************************************************)
(* What a transaction did may be overtaken before it commits: the actor is *)
(* deregistered after the row was read back, or asks after the entry       *)
(* looked for a request.                                                   *)
(***************************************************************************)
Overtaken(t) ==
  \/ txs[t].left /\ ~registered'
  \/ txs[t].asked /\ request' = "pending"

(***************************************************************************)
(* Sent statement by statement and waiting for each other, these           *)
(* transactions still do together what Admission promises of each, one by  *)
(* one: a wish granted or an offer taken comes with its entry, each is     *)
(* answered once, and nothing of it shows before the commit.  Only a       *)
(* transaction that was overtaken does not.                                *)
(***************************************************************************)
CommitsAdmit ==
  [][\/ \E t \in Txs : Commit(t) /\ Overtaken(t)
     \/ Admits!AdmissionNext
     \/ UNCHANGED Admits!admissionVars]_transactionVars

(***************************************************************************)
(* Every transaction that was begun ends, with members assigned and        *)
(* removed all the while: the retry of an ask is not taken for ever, and   *)
(* no wait lasts.                                                          *)
(***************************************************************************)
TransactionsEnd == \A t \in Txs : On(t) ~> ~On(t)
=============================================================================
