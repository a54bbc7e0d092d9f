------------------------- MODULE TransactionsProofs -------------------------
(***************************************************************************)
(* What holds of any number of transactions: their types, the one deadlock *)
(* that is possible, and what an approval and an entry leave behind.       *)
(***************************************************************************)
EXTENDS Transactions, TLAPS

Statement == {"insert", "take", "settle", "decide", "answer", "find", "write"}

\* The statement was answered to the transaction.
Past(tx, s) == \E i \in 1..tx.sent : Statements[tx.kind][i] = s

Running(tx) ==
  /\ tx.kind \in Kinds
  /\ tx.sent <= Len(Statements[tx.kind])
  /\ tx.inserted => Past(tx, "insert")
  /\ tx.request # Unwritten =>
       /\ \E s \in {"settle", "decide", "write"} : Past(tx, s)
       /\ tx.request = Becomes[tx.kind]
  /\ tx.invitation # Unwritten => Past(tx, "answer")
  /\ Past(tx, "take") => tx.took
  /\ Past(tx, "settle") => tx.settled
  /\ tx.settled => tx.kind \in Entries

TxInv(tx) == tx \in Tx /\ (tx \in {New, Done} \/ (tx.step = "on" /\ Running(tx)))

\* Of the rows: one uncommitted insert, a member taken is one, a request settled is.
RowsInv ==
  /\ \A t \in Txs : txs[t].inserted => ~registered
  /\ \A t, u \in Txs : txs[t].inserted /\ txs[u].inserted => t = u
  /\ \A t \in Txs : txs[t].took => registered \/ txs[t].inserted \/ txs[t].left
  /\ \A t \in Txs : txs[t].settled =>
       request # "pending" \/ txs[t].request # Unwritten \/ txs[t].asked

Inv == TransactionsTypeOK /\ (\A t \in Txs : TxInv(txs[t])) /\ RowsInv

-----------------------------------------------------------------------------
\* What each kind of transaction sends, in order.
LEMMA KindStatements ==
  /\ Statements["open"] = <<"insert", "take", "settle">>
  /\ Statements["accept"] = <<"answer", "insert", "take", "settle">>
  /\ Statements["refuse"] = <<"answer">>
  /\ Statements["ask"] = <<"find", "write">>
  /\ Statements["approve"] = <<"decide", "insert", "take">>
  /\ Statements["decline"] = <<"decide">>
BY SMT DEF Statements

\* Each sends statements; whoever enters or approves takes, and whoever enters settles.
LEMMA StatementsOf ==
  ASSUME NEW k \in Kinds
  PROVE  /\ Statements[k] \in Seq(Statement)
         /\ k \in {"open", "accept", "approve"} =>
              \E i \in 1..Len(Statements[k]) : Statements[k][i] = "take"
         /\ k \in Entries => \E i \in 1..Len(Statements[k]) : Statements[k][i] = "settle"
         /\ \A i \in 1..Len(Statements[k]) :
              Statements[k][i] \in {"settle", "write"} => i = Len(Statements[k])
         /\ \A i, j \in 1..Len(Statements[k]) : i < j =>
              /\ Statements[k][i] = "insert" => Statements[k][j] \in {"take", "settle"}
              /\ Statements[k][i] = "decide" => Statements[k][j] \in {"insert", "take"}
              /\ Statements[k][i] = "answer" => Statements[k][j] # "answer"
         /\ \A i \in 1..Len(Statements[k]) :
              /\ Statements[k][i] = "settle" => k \in Entries
              /\ Statements[k][i] = "write" => k = "ask"
              /\ Statements[k][i] = "decide" => k \in {"approve", "decline"}
              /\ Statements[k][i] = "answer" => k \in {"accept", "refuse"}
         /\ \A i, j \in 1..Len(Statements[k]) :
              Statements[k][i] = "decide" /\ i < j => k = "approve"
<1>1. CASE k = "open" BY <1>1, KindStatements, SMT DEF Statement, Entries
<1>2. CASE k = "accept" BY <1>2, KindStatements, SMT DEF Statement, Entries
<1>3. CASE k = "refuse" BY <1>3, KindStatements, SMT DEF Statement, Entries
<1>4. CASE k = "ask" BY <1>4, KindStatements, SMT DEF Statement, Entries
<1>5. CASE k = "approve" BY <1>5, KindStatements, SMT DEF Statement, Entries
<1>6. CASE k = "decline" BY <1>6, KindStatements, SMT DEF Statement, Entries
<1> QED BY <1>1, <1>2, <1>3, <1>4, <1>5, <1>6 DEF Kinds

\* A transaction that is new, begun or done has written and remembers nothing.
LEMMA FreshTxs == TxInv(New) /\ TxInv(Done) /\ \A k \in Kinds : TxInv(Begun(k))
<1>1. New \in Tx /\ Done \in Tx
  BY DEF New, Done, Tx, Unwritten
<1>2. ASSUME NEW k \in Kinds PROVE TxInv(Begun(k))
  <2>1. Begun(k) \in Tx /\ Begun(k).step = "on"
    BY DEF Begun, New, Tx, Unwritten
  <2>2. Begun(k).kind = k /\ Begun(k).sent = 0 /\ ~Begun(k).inserted /\ ~Begun(k).settled
        /\ Begun(k).request = Unwritten /\ Begun(k).invitation = Unwritten
    BY DEF Begun, New
  <2>3. \A s : ~Past(Begun(k), s)
    BY <2>2 DEF Past
  <2>4. 0 <= Len(Statements[k])
    BY StatementsOf, SMT
  <2> QED BY <2>1, <2>2, <2>3, <2>4 DEF TxInv, Running
<1> QED BY <1>1, <1>2 DEF TxInv

\* A call that is on is running, and what it sends is the one statement next.
LEMMA WhatRuns ==
  ASSUME Inv, NEW t \in Txs
  PROVE  /\ On(t) => Running(txs[t]) /\ txs[t] \in Tx
         /\ ~On(t) => ~txs[t].inserted /\ ~txs[t].took /\ ~txs[t].settled
                      /\ txs[t].request = Unwritten /\ txs[t].invitation = Unwritten
BY DEF Inv, TxInv, On, New, Done, TransactionsTypeOK

\* A running transaction has one next statement, past which it is past one more.
LEMMA NextStatement ==
  ASSUME Inv, NEW t \in Txs, NEW s \in Statement, Sends(t, s)
  PROVE  /\ Running(txs[t]) /\ txs[t] \in Tx /\ On(t) /\ txs[t].step = "on"
         /\ \A r \in Statement : Sends(t, r) => r = s
         /\ Answered(t) \in Tx
         /\ Answered(t).sent <= Len(Statements[txs[t].kind])
         /\ \A r : Past(Answered(t), r) <=> Past(txs[t], r) \/ r = s
<1>1. Running(txs[t]) /\ txs[t] \in Tx /\ On(t) /\ txs[t].step = "on"
  BY WhatRuns DEF Sends, On
<1>2. txs[t].sent \in Nat /\ Len(Statements[txs[t].kind]) \in Nat
  BY <1>1, StatementsOf DEF Tx, Running
<1>3. Answered(t) \in Tx /\ Answered(t).sent = txs[t].sent + 1 /\ Answered(t).kind = txs[t].kind
  BY <1>1 DEF Answered, Tx
<1>4. ASSUME NEW r PROVE Past(Answered(t), r) <=> Past(txs[t], r) \/ r = s
  BY <1>2, <1>3 DEF Past, Sends
<1>5. Answered(t).sent <= Len(Statements[txs[t].kind])
  BY <1>2, <1>3 DEF Sends
<1> QED BY <1>1, <1>3, <1>4, <1>5 DEF Sends

(***************************************************************************)
(* A step of one transaction that changes no table keeps the invariant if  *)
(* what it makes of the transaction does.                                  *)
(***************************************************************************)
LEMMA ContinuesKeeps ==
  ASSUME Inv, NEW t \in Txs, NEW tx, TxInv(tx), Continues(t, tx),
         tx.inserted => txs[t].inserted \/ (~registered /\ \A u \in Txs \ {t} : ~txs[u].inserted),
         tx.took => registered \/ tx.inserted \/ tx.left,
         tx.settled => request # "pending" \/ tx.request # Unwritten \/ tx.asked
  PROVE  Inv'
<1>1. txs \in [Txs -> Tx] /\ tx \in Tx
  BY DEF Inv, TransactionsTypeOK, TxInv
<1>2. /\ registered' = registered /\ request' = request /\ invitation' = invitation
      /\ txs' = [txs EXCEPT ![t] = tx]
  BY DEF Continues
<1>3. /\ txs' \in [Txs -> Tx]
      /\ \A u \in Txs : txs'[u] = IF u = t THEN tx ELSE txs[u]
  BY <1>1, <1>2
<1>4. TransactionsTypeOK'
  BY <1>2, <1>3 DEF Inv, TransactionsTypeOK
<1>5. \A u \in Txs : TxInv(txs'[u])
  BY <1>3 DEF Inv
<1>6. RowsInv'
  BY <1>2, <1>3 DEF Inv, RowsInv
<1> QED BY <1>4, <1>5, <1>6 DEF Inv

\* What a running transaction becomes by one statement runs on.
LEMMA AnsweredRuns ==
  ASSUME Inv, NEW t \in Txs, NEW s \in Statement, Sends(t, s),
         NEW tx \in Tx, tx.step = "on", tx.kind = txs[t].kind, tx.sent = Answered(t).sent,
         tx.inserted => txs[t].inserted \/ s = "insert",
         tx.request = txs[t].request
           \/ (s \in {"settle", "decide", "write"} /\ tx.request = Becomes[tx.kind]),
         tx.invitation = txs[t].invitation \/ s = "answer",
         txs[t].took \/ s = "take" => tx.took,
         tx.settled <=> txs[t].settled \/ s = "settle"
  PROVE  TxInv(tx)
<1>1. /\ Running(txs[t]) /\ Answered(t) \in Tx /\ txs[t] \in Tx
      /\ Answered(t).sent <= Len(Statements[txs[t].kind])
      /\ \A r : Past(Answered(t), r) <=> Past(txs[t], r) \/ r = s
  BY NextStatement
<1>2. Answered(t).kind = txs[t].kind
  BY <1>1 DEF Answered, Tx
<1>3. \A r : Past(tx, r) <=> Past(txs[t], r) \/ r = s
  <2>1. ASSUME NEW r PROVE Past(tx, r) <=> Past(Answered(t), r)
    BY <1>2 DEF Past
  <2> QED BY <1>1, <2>1
<1>4. s = "settle" => tx.kind \in Entries
  <2>1. txs[t].sent \in Nat /\ txs[t].kind \in Kinds /\ Len(Statements[txs[t].kind]) \in Nat
    BY <1>1, StatementsOf DEF Running, Tx
  <2> QED BY <2>1, StatementsOf DEF Sends
<1> QED BY <1>1, <1>3, <1>4 DEF TxInv, Running

\* The insert of a registration (joinOpen, the accepted answer, decide).
LEMMA InsertKeeps == ASSUME Inv, NEW t \in Txs, Insert(t) PROVE Inv'
<1>1. /\ Running(txs[t]) /\ Answered(t) \in Tx /\ txs[t] \in Tx /\ txs[t].step = "on"
  BY NextStatement DEF Insert, Statement
<1>2. registered \in BOOLEAN
  BY DEF Inv, TransactionsTypeOK
<1> DEFINE nothingHeld == ~registered
           tx == [Answered(t) EXCEPT !.inserted = nothingHeld]
<1>3. /\ tx \in Tx /\ tx.step = "on" /\ tx.kind = txs[t].kind /\ tx.sent = Answered(t).sent
      /\ tx.inserted = nothingHeld /\ tx.request = txs[t].request
      /\ tx.invitation = txs[t].invitation /\ tx.took = txs[t].took
      /\ tx.left = txs[t].left /\ tx.settled = txs[t].settled /\ tx.asked = txs[t].asked
  <2>1. nothingHeld \in BOOLEAN
    BY <1>2
  <2> HIDE DEF nothingHeld
  <2> QED BY <1>1, <2>1 DEF Answered, Tx
<1>4. TxInv(tx)
  BY <1>3, AnsweredRuns DEF Insert, Statement
<1>5. \A u \in Txs \ {t} : ~txs[u].inserted
  BY WhatRuns DEF Insert, Free, WaitsFor
<1> HIDE DEF tx
<1> QED BY <1>3, <1>4, <1>5, ContinuesKeeps DEF Insert, Inv, RowsInv, tx

\* The read back of the row the insert was for.
LEMMA TakeKeeps == ASSUME Inv, NEW t \in Txs, Take(t) PROVE Inv'
<1> DEFINE tx == [Answered(t) EXCEPT !.took = TRUE]
<1>1. /\ Running(txs[t]) /\ Answered(t) \in Tx /\ txs[t] \in Tx /\ txs[t].step = "on"
  BY NextStatement DEF Take, Statement
<1>2. /\ tx \in Tx /\ tx.step = "on" /\ tx.kind = txs[t].kind /\ tx.sent = Answered(t).sent
      /\ tx.inserted = txs[t].inserted /\ tx.request = txs[t].request
      /\ tx.invitation = txs[t].invitation /\ tx.took
      /\ tx.left = txs[t].left /\ tx.settled = txs[t].settled /\ tx.asked = txs[t].asked
  BY <1>1 DEF Answered, Tx
<1>3. TxInv(tx)
  BY <1>2, AnsweredRuns DEF Take, Statement
<1>4. CASE Held(t)
  <2>1. Continues(t, tx)
    BY <1>4 DEF Take
  <2> HIDE DEF tx
  <2> QED BY <1>2, <1>3, <1>4, <2>1, ContinuesKeeps DEF Held, Inv, RowsInv
<1>5. CASE ~Held(t)
  <2>1. Continues(t, Done)
    BY <1>5 DEF Take, NotHeld
  <2> QED BY <2>1, FreshTxs, ContinuesKeeps DEF Done, New
<1> QED BY <1>4, <1>5

\* The settling of a pending request (settlePendingJoinRequest).
LEMMA SettleKeeps == ASSUME Inv, NEW t \in Txs, Settle(t) PROVE Inv'
<1> DEFINE tx == Settled(t)
<1>1. /\ Running(txs[t]) /\ Answered(t) \in Tx /\ txs[t] \in Tx /\ txs[t].step = "on"
  BY NextStatement DEF Settle, Statement
<1>2. txs[t].kind \in Entries
  <2>1. txs[t].sent \in Nat /\ txs[t].kind \in Kinds /\ Len(Statements[txs[t].kind]) \in Nat
    BY <1>1, StatementsOf DEF Running, Tx
  <2> QED BY <2>1, StatementsOf DEF Settle, Sends
<1>3. Becomes[txs[t].kind] = "approved"
  BY <1>2 DEF Entries, Becomes
<1>4. /\ tx \in Tx /\ tx.step = "on" /\ tx.kind = txs[t].kind /\ tx.sent = Answered(t).sent
      /\ tx.inserted = txs[t].inserted
      /\ tx.request = IF request = "pending" THEN Becomes[tx.kind] ELSE txs[t].request
      /\ tx.invitation = txs[t].invitation /\ tx.took = txs[t].took
      /\ tx.left = txs[t].left /\ tx.settled /\ tx.asked = txs[t].asked
  BY <1>1, <1>3 DEF Settled, Answered, Tx, RequestStates
<1>5. TxInv(tx)
  BY <1>4, AnsweredRuns DEF Settle, Statement
<1>6. tx.settled => request # "pending" \/ tx.request # Unwritten
  BY <1>3, <1>4 DEF Unwritten
<1>7. Continues(t, tx)
  BY DEF Settle
<1> HIDE DEF tx
<1> QED BY <1>4, <1>5, <1>6, <1>7, ContinuesKeeps DEF Inv, RowsInv

\* Deciding and asking: the request is written, or the transaction ends or begins anew.
LEMMA RequestWritten ==
  ASSUME Inv, NEW t \in Txs, NEW s \in {"decide", "write"}, Sends(t, s),
         Continues(t, [Answered(t) EXCEPT !.request = Becomes[txs[t].kind]])
  PROVE  Inv'
<1> DEFINE tx == [Answered(t) EXCEPT !.request = Becomes[txs[t].kind]]
<1>1. /\ Running(txs[t]) /\ Answered(t) \in Tx /\ txs[t] \in Tx /\ txs[t].step = "on"
  BY NextStatement DEF Statement
<1>2. txs[t].kind \in {"ask", "approve", "decline"}
  <2>1. txs[t].sent \in Nat /\ txs[t].kind \in Kinds /\ Len(Statements[txs[t].kind]) \in Nat
    BY <1>1, StatementsOf DEF Running, Tx
  <2> QED BY <2>1, StatementsOf DEF Sends
<1>3. Becomes[txs[t].kind] \in RequestStates
  BY <1>2 DEF Becomes, RequestStates
<1>4. /\ tx \in Tx /\ tx.step = "on" /\ tx.kind = txs[t].kind /\ tx.sent = Answered(t).sent
      /\ tx.inserted = txs[t].inserted /\ tx.request = Becomes[tx.kind]
      /\ tx.invitation = txs[t].invitation /\ tx.took = txs[t].took
      /\ tx.left = txs[t].left /\ tx.settled = txs[t].settled /\ tx.asked = txs[t].asked
  BY <1>1, <1>3 DEF Answered, Tx
<1>5. TxInv(tx)
  BY <1>4, AnsweredRuns DEF Statement
<1>6. tx.request # Unwritten
  BY <1>3, <1>4 DEF RequestStates, Unwritten
<1> HIDE DEF tx
<1> QED BY <1>4, <1>5, <1>6, ContinuesKeeps DEF Inv, RowsInv, tx

\* A transaction rolled back leaves the rows as they were committed.
LEMMA EndsKeeps == ASSUME Inv, NEW t \in Txs, Rollback(t) PROVE Inv'
BY FreshTxs, ContinuesKeeps DEF Rollback, Done, New

\* The update of decide, conditional on a pending request.
LEMMA DecideKeeps == ASSUME Inv, NEW t \in Txs, Decide(t) PROVE Inv'
<1>1. CASE request = "pending"
  BY <1>1, RequestWritten DEF Decide
<1>2. CASE request # "pending"
  BY <1>2, EndsKeeps DEF Decide, Rollback
<1> QED BY <1>1, <1>2

\* The write of askToJoin: an insert the index may refuse, or an update by id.
LEMMA AskKeeps == ASSUME Inv, NEW t \in Txs, AskToJoin(t) PROVE Inv'
<1>1. CASE txs[t].found \/ request = "none"
  BY <1>1, RequestWritten DEF AskToJoin
<1>2. CASE ~(txs[t].found \/ request = "none") /\ txs[t].retried
  BY <1>2, EndsKeeps DEF AskToJoin, Rollback
<1>3. CASE ~(txs[t].found \/ request = "none") /\ ~txs[t].retried
  <2> DEFINE tx == [Begun("ask") EXCEPT !.retried = TRUE]
  <2>1. Continues(t, tx)
    BY <1>3 DEF AskToJoin
  <2>2. /\ tx \in Tx /\ tx.step = "on" /\ tx.kind = "ask" /\ tx.sent = 0
        /\ ~tx.inserted /\ tx.request = Unwritten /\ tx.invitation = Unwritten
        /\ ~tx.took /\ ~tx.settled
    BY DEF Begun, New, Tx, Kinds, Unwritten
  <2>3. \A r : ~Past(tx, r)
    BY <2>2 DEF Past
  <2>4. 0 <= Len(Statements["ask"])
    BY StatementsOf, SMT DEF Kinds
  <2>5. TxInv(tx)
    BY <2>2, <2>3, <2>4 DEF TxInv, Running, Kinds
  <2> HIDE DEF tx
  <2> QED BY <2>1, <2>2, <2>5, ContinuesKeeps
<1> QED BY <1>1, <1>2, <1>3

\* The update of answerInvitation, conditional on an open invitation.
LEMMA AnswerKeeps == ASSUME Inv, NEW t \in Txs, Answer(t) PROVE Inv'
<1>1. CASE invitation = "pending"
  <2> DEFINE tx == [Answered(t) EXCEPT !.invitation = Answers[txs[t].kind]]
  <2>1. /\ Running(txs[t]) /\ Answered(t) \in Tx /\ txs[t] \in Tx /\ txs[t].step = "on"
    BY NextStatement DEF Answer, Statement
  <2>2. txs[t].kind \in {"accept", "refuse"}
    <3>1. txs[t].sent \in Nat /\ txs[t].kind \in Kinds /\ Len(Statements[txs[t].kind]) \in Nat
      BY <2>1, StatementsOf DEF Running, Tx
    <3> QED BY <3>1, StatementsOf DEF Answer, Sends
  <2>3. Answers[txs[t].kind] \in InvitationStates
    BY <2>2 DEF Answers, InvitationStates
  <2>4. /\ tx \in Tx /\ tx.step = "on" /\ tx.kind = txs[t].kind /\ tx.sent = Answered(t).sent
        /\ tx.inserted = txs[t].inserted /\ tx.request = txs[t].request
        /\ tx.took = txs[t].took
        /\ tx.left = txs[t].left /\ tx.settled = txs[t].settled /\ tx.asked = txs[t].asked
    BY <2>1, <2>3 DEF Answered, Tx
  <2>5. TxInv(tx)
    BY <2>4, AnsweredRuns DEF Answer, Statement
  <2>6. Continues(t, tx)
    BY <1>1 DEF Answer
  <2> HIDE DEF tx
  <2> QED BY <2>4, <2>5, <2>6, ContinuesKeeps DEF Inv, RowsInv
<1>2. CASE invitation # "pending"
  BY <1>2, EndsKeeps DEF Answer, Rollback
<1> QED BY <1>1, <1>2

\* The read of askToJoin, inside its transaction.
LEMMA FindKeeps == ASSUME Inv, NEW t \in Txs, FindJoinRequest(t) PROVE Inv'
<1> DEFINE tx == [Answered(t) EXCEPT !.found = (request # "none")]
<1>1. /\ Running(txs[t]) /\ Answered(t) \in Tx /\ txs[t] \in Tx /\ txs[t].step = "on"
  BY NextStatement DEF FindJoinRequest, Statement
<1>2. /\ tx \in Tx /\ tx.step = "on" /\ tx.kind = txs[t].kind /\ tx.sent = Answered(t).sent
      /\ tx.inserted = txs[t].inserted /\ tx.request = txs[t].request
      /\ tx.invitation = txs[t].invitation /\ tx.took = txs[t].took
      /\ tx.left = txs[t].left /\ tx.settled = txs[t].settled /\ tx.asked = txs[t].asked
  BY <1>1 DEF Answered, Tx
<1>3. TxInv(tx)
  BY <1>2, AnsweredRuns DEF FindJoinRequest, Statement
<1>4. Continues(t, tx)
  BY DEF FindJoinRequest
<1> HIDE DEF tx
<1> QED BY <1>2, <1>3, <1>4, ContinuesKeeps DEF Inv, RowsInv

\* History alone is rewritten: what runs, runs on.
LEMMA HistoryKeeps ==
  ASSUME NEW tx, TxInv(tx), NEW new \in Tx,
         \A f \in {"step", "kind", "sent", "inserted", "request", "invitation",
                   "found", "retried", "took", "settled"} : new[f] = tx[f],
         tx \in {New, Done} => new = tx
  PROVE  TxInv(new)
<1>1. /\ new.step = tx.step /\ new.kind = tx.kind /\ new.sent = tx.sent
      /\ new.inserted = tx.inserted /\ new.request = tx.request
      /\ new.invitation = tx.invitation /\ new.took = tx.took /\ new.settled = tx.settled
  OBVIOUS
<1>2. ASSUME NEW r PROVE Past(new, r) <=> Past(tx, r)
  BY <1>1 DEF Past
<1>3. CASE tx \in {New, Done}
  BY <1>3
<1>4. CASE tx.step = "on" /\ Running(tx)
  BY <1>1, <1>2, <1>4 DEF TxInv, Running
<1> QED BY <1>3, <1>4 DEF TxInv

\* A transaction that has sent all is past every statement of its kind.
LEMMA AllPast ==
  ASSUME Inv, NEW t \in Txs, AllSent(t)
  PROVE  /\ Running(txs[t]) /\ txs[t] \in Tx
         /\ txs[t].kind \in {"open", "accept", "approve"} => txs[t].took
         /\ txs[t].kind \in Entries => txs[t].settled
<1>1. Running(txs[t]) /\ txs[t] \in Tx /\ txs[t].kind \in Kinds
  BY WhatRuns DEF AllSent, Running
<1> QED BY <1>1, StatementsOf DEF AllSent, Running, Past

\* What a transaction commits of a request.
LEMMA RequestCommitted ==
  ASSUME Inv, NEW t \in Txs, txs[t].request # Unwritten
  PROVE  /\ On(t) /\ txs[t].request \in {"pending", "approved", "declined"}
         /\ txs[t].request = "pending" => txs[t].kind = "ask"
         /\ txs[t].request = "approved" => txs[t].kind \in {"open", "accept", "approve"}
         /\ txs[t].kind \in Entries => txs[t].request = "approved"
<1>1. On(t) /\ Running(txs[t]) /\ txs[t] \in Tx
  BY WhatRuns
<1>2. txs[t].kind \in {"open", "accept", "approve", "decline", "ask"}
  <2>1. PICK s \in {"settle", "decide", "write"} : Past(txs[t], s)
    BY <1>1 DEF Running
  <2>2. PICK i \in 1..txs[t].sent : Statements[txs[t].kind][i] = s
    BY <2>1 DEF Past
  <2>3. i \in 1..Len(Statements[txs[t].kind]) /\ txs[t].kind \in Kinds
    BY <1>1, <2>2, StatementsOf DEF Running, Tx
  <2> QED BY <2>2, <2>3, StatementsOf DEF Entries
<1>3. txs[t].request = Becomes[txs[t].kind]
  BY <1>1 DEF Running
<1> QED BY <1>1, <1>2, <1>3 DEF Becomes, Entries

\* A commit makes a transaction's writes everybody's, and its rows free.
LEMMA CommitKeeps == ASSUME Inv, NEW t \in Txs, Commit(t) PROVE Inv'
<1> DEFINE after(u) == [txs[u] EXCEPT !.asked = @ \/ (txs[t].kind = "ask" /\ txs[u].settled)]
<1>1. txs \in [Txs -> Tx] /\ \A u \in Txs : txs[u] \in Tx
  BY DEF Inv, TransactionsTypeOK
<1>2. On(t) /\ Running(txs[t])
  BY WhatRuns DEF Commit, AllSent
<1>3. ASSUME NEW u \in Txs
      PROVE  /\ after(u) \in Tx
             /\ \A f \in {"step", "kind", "sent", "inserted", "request", "invitation",
                          "found", "retried", "took", "left", "settled"} : after(u)[f] = txs[u][f]
             /\ after(u).asked <=> txs[u].asked \/ (txs[t].kind = "ask" /\ txs[u].settled)
             /\ txs[u] \in {New, Done} => after(u) = txs[u]
  <2> DEFINE now == txs[u].asked \/ (txs[t].kind = "ask" /\ txs[u].settled)
  <2>1. now \in BOOLEAN /\ txs[u] \in Tx
    BY <1>1 DEF Tx
  <2>2. after(u) = [txs[u] EXCEPT !.asked = now]
    OBVIOUS
  <2>3. txs[u] \in {New, Done} => now = txs[u].asked
    <3>1. txs[u] \in {New, Done} => txs[u].asked = FALSE /\ txs[u].settled = FALSE
      BY DEF New, Done
    <3>2. txs[u] \in {New, Done} => ~now
      BY <3>1
    <3> HIDE DEF now
    <3> QED BY <2>1, <3>1, <3>2
  <2> HIDE DEF now, after
  <2>4. /\ after(u) \in Tx
        /\ \A f \in {"step", "kind", "sent", "inserted", "request", "invitation",
                     "found", "retried", "took", "left", "settled"} : after(u)[f] = txs[u][f]
        /\ after(u).asked = now
        /\ now = txs[u].asked => after(u) = txs[u]
    BY <2>1, <2>2 DEF Tx
  <2> QED BY <2>3, <2>4 DEF now
<1>4. /\ registered' = (registered \/ txs[t].inserted)
      /\ request' = IF txs[t].request = Unwritten THEN request ELSE txs[t].request
      /\ invitation' = IF txs[t].invitation = Unwritten THEN invitation ELSE txs[t].invitation
      /\ txs' = [u \in Txs |-> IF u = t THEN Done ELSE after(u)]
  BY DEF Commit
<1> HIDE DEF after
<1>5. \A u \in Txs : TxInv(txs'[u])
  <2>1. ASSUME NEW u \in Txs PROVE TxInv(after(u))
    BY <1>3, HistoryKeeps DEF Inv
  <2> QED BY <1>4, <2>1, FreshTxs
<1>6. TransactionsTypeOK'
  <2>1. txs' \in [Txs -> Tx]
    BY <1>3, <1>4, FreshTxs DEF TxInv
  <2>2. registered' \in BOOLEAN
    BY <1>1, <1>4 DEF Inv, TransactionsTypeOK, Tx
  <2>3. request' \in RequestStates /\ invitation' \in InvitationStates
    BY <1>1, <1>4 DEF Inv, TransactionsTypeOK, Tx
  <2> QED BY <2>1, <2>2, <2>3 DEF TransactionsTypeOK
<1>7. ~Done.inserted /\ ~Done.took /\ ~Done.settled
  BY DEF Done, New
<1>8. ASSUME NEW u \in Txs, txs'[u].inserted \/ txs'[u].took \/ txs'[u].settled
      PROVE  /\ u # t
             /\ txs'[u].asked <=> txs[u].asked \/ (txs[t].kind = "ask" /\ txs[u].settled)
             /\ txs'[u].inserted = txs[u].inserted /\ txs'[u].request = txs[u].request
             /\ txs'[u].took = txs[u].took /\ txs'[u].left = txs[u].left
             /\ txs'[u].settled = txs[u].settled
  BY <1>3, <1>4, <1>7, <1>8
<1>9. ASSUME NEW u \in Txs, txs'[u].inserted PROVE ~registered' /\ \A v \in Txs : txs'[v].inserted => u = v
  <2>1. ASSUME NEW v \in Txs, txs'[v].inserted PROVE v # t /\ txs[v].inserted
    BY <1>8, <2>1
  <2>2. u # t /\ txs[u].inserted
    BY <1>9, <2>1
  <2>3. ~registered /\ ~txs[t].inserted
    BY <2>2 DEF Inv, RowsInv
  <2> QED BY <1>4, <2>1, <2>2, <2>3 DEF Inv, RowsInv
<1>10. ASSUME NEW u \in Txs, txs'[u].took PROVE registered' \/ txs'[u].inserted \/ txs'[u].left
  BY <1>4, <1>8, <1>10 DEF Inv, RowsInv
<1>11. ASSUME NEW u \in Txs, txs'[u].settled
       PROVE  request' # "pending" \/ txs'[u].request # Unwritten \/ txs'[u].asked
  BY <1>4, <1>8, <1>11, RequestCommitted DEF Inv, RowsInv
<1> QED BY <1>5, <1>6, <1>9, <1>10, <1>11 DEF Inv, RowsInv

\* A deregistration is noted by the transactions that took the row.
LEMMA DeregisterKeeps == ASSUME Inv, Deregister PROVE Inv'
<1> DEFINE after(u) == [txs[u] EXCEPT !.left = @ \/ txs[u].took]
<1>1. txs \in [Txs -> Tx] /\ \A u \in Txs : txs[u] \in Tx
  BY DEF Inv, TransactionsTypeOK
<1>2. ASSUME NEW u \in Txs
      PROVE  /\ after(u) \in Tx
             /\ \A f \in {"step", "kind", "sent", "inserted", "request", "invitation",
                          "found", "retried", "took", "settled", "asked"} : after(u)[f] = txs[u][f]
             /\ after(u).left <=> txs[u].left \/ txs[u].took
             /\ txs[u] \in {New, Done} => after(u) = txs[u]
  <2> DEFINE now == txs[u].left \/ txs[u].took
  <2>1. now \in BOOLEAN /\ txs[u] \in Tx
    BY <1>1 DEF Tx
  <2>2. after(u) = [txs[u] EXCEPT !.left = now]
    OBVIOUS
  <2>3. txs[u] \in {New, Done} => now = txs[u].left
    <3>1. txs[u] \in {New, Done} => txs[u].left = FALSE /\ txs[u].took = FALSE
      BY DEF New, Done
    <3>2. txs[u] \in {New, Done} => ~now
      BY <3>1
    <3> HIDE DEF now
    <3> QED BY <2>1, <3>1, <3>2
  <2> HIDE DEF now, after
  <2>4. /\ after(u) \in Tx
        /\ \A f \in {"step", "kind", "sent", "inserted", "request", "invitation",
                     "found", "retried", "took", "settled", "asked"} : after(u)[f] = txs[u][f]
        /\ after(u).left = now
        /\ now = txs[u].left => after(u) = txs[u]
    BY <2>1, <2>2 DEF Tx
  <2> QED BY <2>3, <2>4 DEF now
<1>3. /\ registered /\ registered' = FALSE /\ request' = request /\ invitation' = invitation
      /\ txs' = [u \in Txs |-> after(u)]
  BY DEF Deregister
<1> HIDE DEF after
<1>4. ASSUME NEW u \in Txs PROVE TxInv(after(u))
  BY <1>2, HistoryKeeps DEF Inv
<1>5. TransactionsTypeOK'
  BY <1>2, <1>3 DEF Inv, TransactionsTypeOK
<1> QED BY <1>2, <1>3, <1>4, <1>5 DEF Inv, RowsInv

\* Every statement of a transaction keeps the invariant.
LEMMA StepKeeps == ASSUME Inv, NEW t \in Txs, Step(t) PROVE Inv'
BY InsertKeeps, TakeKeeps, SettleKeeps, DecideKeeps, AnswerKeeps, FindKeeps, AskKeeps,
   CommitKeeps DEF Step

\* So does every step.
LEMMA InvStep == ASSUME Inv, [TransactionsNext]_transactionVars PROVE Inv'
<1>1. ASSUME NEW t \in Txs, NEW k \in Kinds, Begin(t, k) PROVE Inv'
  <2>1. ~Begun(k).inserted /\ ~Begun(k).took /\ ~Begun(k).settled
    BY DEF Begun, New
  <2> QED BY <1>1, <2>1, FreshTxs, ContinuesKeeps DEF Begin
<1>2. ASSUME NEW t \in Txs, Step(t) PROVE Inv'
  BY <1>2, StepKeeps
<1>3. ASSUME NEW t \in Txs, Fails(t) PROVE Inv'
  BY <1>3, EndsKeeps DEF Fails
<1>4. ASSUME DetectDeadlock PROVE Inv'
  BY <1>4, EndsKeeps DEF DetectDeadlock
<1>5. ASSUME AssignGroup PROVE Inv'
  BY <1>5 DEF AssignGroup, Inv, RowsInv, TransactionsTypeOK
<1>6. ASSUME Deregister PROVE Inv'
  BY <1>6, DeregisterKeeps
<1>7. ASSUME UNCHANGED transactionVars PROVE Inv'
  BY <1>7 DEF transactionVars, Inv, RowsInv, TransactionsTypeOK
<1> QED BY <1>1, <1>2, <1>3, <1>4, <1>5, <1>6, <1>7 DEF TransactionsNext

\* The strengthened invariant holds from any committed rows on.
LEMMA InvInvariant == TransactionsSpec => []Inv
<1>1. ASSUME TransactionsInit PROVE Inv
  <2>1. \A t \in Txs : txs[t] = New
    BY <1>1 DEF TransactionsInit
  <2>2. New \in Tx /\ TxInv(New) /\ ~New.inserted /\ ~New.took /\ ~New.settled
    BY FreshTxs DEF TxInv, New
  <2>3. txs \in [Txs -> Tx]
    BY <1>1, <2>2 DEF TransactionsInit
  <2> QED BY <1>1, <2>1, <2>2, <2>3 DEF TransactionsInit, Inv, RowsInv, TransactionsTypeOK
<1>2. ASSUME Inv, [TransactionsNext]_transactionVars PROVE Inv'
  BY <1>2, InvStep
<1> QED BY <1>1, <1>2, PTL DEF TransactionsSpec

(***************************************************************************)
(* Every state of the rows and the transactions is one of their types.     *)
(***************************************************************************)
THEOREM TransactionsTypeCorrect == TransactionsSpec => []TransactionsTypeOK
<1>1. Inv => TransactionsTypeOK
  BY DEF Inv
<1> QED BY <1>1, InvInvariant, PTL

-----------------------------------------------------------------------------
\* What can still be sent once a row was written decides who waits for whom.
LEMMA WaitersHold ==
  ASSUME Inv, NEW t \in Txs, NEW s \in Statement, Sends(t, s)
  PROVE  /\ txs[t].inserted => s \in {"take", "settle"}
         /\ s = "settle" => txs[t].kind \in Entries
         /\ txs[t].request # Unwritten => txs[t].kind = "approve" /\ s \in {"insert", "take"}
         /\ s = "answer" => ~txs[t].inserted /\ txs[t].request = Unwritten
         /\ txs[t].invitation # Unwritten => s # "answer"
<1>1. Running(txs[t]) /\ txs[t] \in Tx
  BY NextStatement
<1> DEFINE k == txs[t].kind
           n == txs[t].sent + 1
<1>2. /\ k \in Kinds /\ txs[t].sent \in Nat /\ Len(Statements[k]) \in Nat
      /\ n \in 1..Len(Statements[k]) /\ Statements[k][n] = s
  BY <1>1, StatementsOf DEF Sends, Running, Tx
<1>3. ASSUME NEW r, Past(txs[t], r)
      PROVE  \E i \in 1..Len(Statements[k]) : i < n /\ Statements[k][i] = r
  BY <1>2, <1>3 DEF Past
<1>4. txs[t].inserted => s \in {"take", "settle"}
  BY <1>1, <1>2, <1>3, StatementsOf DEF Running
<1>5. s = "settle" => k \in Entries
  BY <1>2, StatementsOf
<1>6. txs[t].request # Unwritten => k = "approve" /\ s \in {"insert", "take"}
  <2> SUFFICES ASSUME txs[t].request # Unwritten
               PROVE  k = "approve" /\ s \in {"insert", "take"}
    OBVIOUS
  <2>1. PICK r \in {"settle", "decide", "write"} : Past(txs[t], r)
    BY <1>1 DEF Running
  <2>2. PICK i \in 1..Len(Statements[k]) : i < n /\ Statements[k][i] = r
    BY <1>3, <2>1
  <2>3. r = "decide"
    BY <1>2, <2>2, StatementsOf
  <2> QED BY <1>2, <2>2, <2>3, StatementsOf
<1>7. s = "answer" => txs[t].invitation = Unwritten
  <2> SUFFICES ASSUME s = "answer", txs[t].invitation # Unwritten PROVE FALSE
    OBVIOUS
  <2>1. PICK i \in 1..Len(Statements[k]) : i < n /\ Statements[k][i] = "answer"
    BY <1>1, <1>3 DEF Running
  <2> QED BY <1>2, <2>1, StatementsOf
<1> QED BY <1>4, <1>5, <1>6, <1>7

(***************************************************************************)
(* Of those in a deadlock, whoever waits for an invitation waits for one   *)
(* that waits for something else; whoever waits for the registration waits *)
(* for an entry that waits for the request; and that entry waits for an    *)
(* approval, which can only be waiting for the one uncommitted insert.     *)
(***************************************************************************)
LEMMA DeadlocksHaveThePair == Inv => DeadlockIsEntryWithApproval
<1> SUFFICES ASSUME Inv, NEW D \in SUBSET Txs, Deadlocked(D)
             PROVE  \E e, a \in D :
                      /\ txs[e].kind \in Entries /\ txs[a].kind = "approve"
                      /\ WaitsFor(e, a) /\ WaitsFor(a, e)
  BY DEF DeadlockIsEntryWithApproval
<1>1. ASSUME NEW t \in D PROVE \E u \in D : WaitsFor(t, u)
  BY DEF Deadlocked
<1>2. ASSUME NEW e \in D, txs[e].inserted
      PROVE  \E a \in D :
               /\ txs[e].kind \in Entries /\ txs[a].kind = "approve"
               /\ WaitsFor(e, a) /\ WaitsFor(a, e)
  <2>1. PICK a \in D : WaitsFor(e, a)
    BY <1>1
  <2>2. Sends(e, "settle") /\ txs[e].kind \in Entries /\ txs[a].request # Unwritten
    BY <1>2, <2>1, WaitersHold DEF WaitsFor, WaitsForRequest, Statement
  <2>3. PICK v \in D : WaitsFor(a, v)
    BY <1>1
  <2>4. txs[a].kind = "approve" /\ Sends(a, "insert") /\ txs[v].inserted
    BY <2>2, <2>3, WaitersHold DEF WaitsFor, WaitsForRequest, Statement
  <2>5. v = e
    BY <1>2, <2>4 DEF Inv, RowsInv
  <2> QED BY <2>1, <2>2, <2>3, <2>4, <2>5
<1>3. ASSUME NEW a \in D, txs[a].request # Unwritten
      PROVE  \E e \in D : txs[e].inserted
  <2>1. PICK v \in D : WaitsFor(a, v)
    BY <1>1
  <2> QED BY <1>3, <2>1, WaitersHold DEF WaitsFor, WaitsForRequest, Statement
<1>4. ASSUME NEW t \in D, txs[t].invitation # Unwritten
      PROVE  \E e \in D : txs[e].inserted
  <2>1. PICK u \in D : WaitsFor(t, u)
    BY <1>1
  <2>2. ~Sends(t, "answer")
    BY <1>4, WaitersHold DEF Statement
  <2> QED BY <1>3, <2>1, <2>2 DEF WaitsFor
<1>5. \E e \in D : txs[e].inserted
  <2>1. PICK t \in D : TRUE
    BY DEF Deadlocked
  <2>2. PICK u \in D : WaitsFor(t, u)
    BY <1>1
  <2> QED BY <1>3, <1>4, <2>2 DEF WaitsFor
<1> QED BY <1>2, <1>5

(***************************************************************************)
(* However many transactions run, every deadlock among them holds an entry *)
(* and an approval that wait for each other (join_impl.go:103-118 against  *)
(* 307-346).                                                               *)
(***************************************************************************)
THEOREM DeadlocksAreOfEntryWithApproval ==
  TransactionsSpec => []DeadlockIsEntryWithApproval
BY InvInvariant, DeadlocksHaveThePair, PTL

-----------------------------------------------------------------------------
\* Only a commit changes the request.
LEMMA RequestChanges ==
  ASSUME TransactionsNext, request' # request
  PROVE  \E t \in Txs : Commit(t)
BY DEF TransactionsNext, Step, Begin, Continues, Insert, Take, Settle, Decide, Answer,
       FindJoinRequest, AskToJoin, Fails, Rollback, DetectDeadlock, AssignGroup, Deregister

(***************************************************************************)
(* Whoever's request is approved is a member as it is, or was deregistered *)
(* between the reading back of the row and the commit (register and decide *)
(* of join_impl.go).                                                       *)
(***************************************************************************)
THEOREM ApprovedAreIn == TransactionsSpec => ApprovedIsIn
<1>1. ASSUME Inv, [TransactionsNext]_transactionVars, request = "pending", request' = "approved"
      PROVE  registered' \/ \E t \in Txs : AllSent(t) /\ txs[t].left
  <2>1. PICK t \in Txs : Commit(t)
    BY <1>1, RequestChanges DEF transactionVars
  <2>2. AllSent(t) /\ txs[t].request = "approved" /\ registered' = (registered \/ txs[t].inserted)
    BY <1>1, <2>1 DEF Commit
  <2>3. txs[t].took
    BY <1>1, <2>2, RequestCommitted, AllPast DEF Unwritten
  <2> QED BY <1>1, <2>2, <2>3 DEF Inv, RowsInv
<1>2. Inv /\ [TransactionsNext]_transactionVars =>
        [request = "pending" /\ request' = "approved" =>
           registered' \/ \E t \in Txs : AllSent(t) /\ txs[t].left]_transactionVars
  BY <1>1
<1> QED BY <1>2, InvInvariant, PTL DEF TransactionsSpec, ApprovedIsIn

(***************************************************************************)
(* Whoever entered leaves nothing pending but what was asked after the     *)
(* entry had looked (settlePendingJoinRequest).                            *)
(***************************************************************************)
THEOREM EntriesSettle == TransactionsSpec => EntrySettles
<1>1. ASSUME Inv, NEW t \in Txs, txs[t].kind \in Entries, Commit(t)
      PROVE  request' # "pending" \/ txs[t].asked
  <2>1. AllSent(t) /\ request' = IF txs[t].request = Unwritten THEN request ELSE txs[t].request
    BY <1>1 DEF Commit
  <2>2. txs[t].settled
    BY <1>1, <2>1, AllPast
  <2>3. txs[t].request # Unwritten => txs[t].request = "approved"
    BY <1>1, RequestCommitted
  <2> QED BY <1>1, <2>1, <2>2, <2>3 DEF Inv, RowsInv
<1>2. Inv /\ [TransactionsNext]_transactionVars =>
        [\A t \in Txs : txs[t].kind \in Entries /\ Commit(t) =>
           request' # "pending" \/ txs[t].asked]_transactionVars
  BY <1>1
<1> QED BY <1>2, InvInvariant, PTL DEF TransactionsSpec, EntrySettles
-----------------------------------------------------------------------------
(***************************************************************************)
(* Of a request, or an invitation, one transaction at most holds the row.  *)
(* Whoever decides, settles or answers holds one that is still pending,    *)
(* and whoever is past a decision, an ask or an answer has written it.     *)
(***************************************************************************)
RequestHeld ==
  /\ \A t \in Txs : txs[t].request # Unwritten /\ txs[t].kind # "ask" => request = "pending"
  /\ \A t, u \in Txs : txs[t].request # Unwritten /\ txs[u].request # Unwritten => t = u

InvitationHeld ==
  /\ \A t \in Txs : txs[t].invitation # Unwritten =>
       invitation = "pending" /\ txs[t].invitation = Answers[txs[t].kind]
  /\ \A t, u \in Txs : txs[t].invitation # Unwritten /\ txs[u].invitation # Unwritten => t = u

Writes(tx) ==
  tx.step = "on" =>
    /\ Past(tx, "answer") => tx.invitation # Unwritten
    /\ Past(tx, "decide") \/ Past(tx, "write") => tx.request # Unwritten

HeldInv == RequestHeld /\ InvitationHeld /\ \A t \in Txs : Writes(txs[t])

\* A step of one transaction that changes no table keeps it if what it makes of
\* the transaction does.
LEMMA ContinuesHolds ==
  ASSUME Inv, HeldInv, NEW t \in Txs, NEW tx \in Tx, Continues(t, tx), Writes(tx),
         tx.request # Unwritten =>
           \/ tx.request = txs[t].request /\ tx.kind = txs[t].kind
           \/ /\ tx.kind # "ask" => request = "pending"
              /\ \A u \in Txs \ {t} : txs[u].request = Unwritten,
         tx.invitation # Unwritten =>
           \/ tx.invitation = txs[t].invitation /\ tx.kind = txs[t].kind
           \/ /\ invitation = "pending" /\ tx.invitation = Answers[tx.kind]
              /\ \A u \in Txs \ {t} : txs[u].invitation = Unwritten
  PROVE  HeldInv'
<1>1. /\ request' = request /\ invitation' = invitation
      /\ \A u \in Txs : txs'[u] = IF u = t THEN tx ELSE txs[u]
  BY DEF Inv, TransactionsTypeOK, Continues
<1>2. RequestHeld'
  BY <1>1 DEF HeldInv, RequestHeld
<1>3. InvitationHeld'
  BY <1>1 DEF HeldInv, InvitationHeld
<1>4. \A u \in Txs : Writes(txs'[u])
  BY <1>1 DEF HeldInv
<1> QED BY <1>2, <1>3, <1>4 DEF HeldInv

\* The statement answered, with what it wrote.
LEMMA AnsweredHolds ==
  ASSUME Inv, HeldInv, NEW t \in Txs, NEW s \in Statement, Sends(t, s),
         NEW tx \in Tx, Continues(t, tx), tx.kind = txs[t].kind, tx.sent = Answered(t).sent,
         \/ tx.request = txs[t].request /\ s \notin {"decide", "write"}
         \/ /\ tx.request # Unwritten
            /\ tx.kind # "ask" => request = "pending"
            /\ \A u \in Txs \ {t} : txs[u].request = Unwritten,
         \/ tx.invitation = txs[t].invitation /\ s # "answer"
         \/ /\ tx.invitation # Unwritten /\ tx.invitation = Answers[tx.kind]
            /\ invitation = "pending"
            /\ \A u \in Txs \ {t} : txs[u].invitation = Unwritten
  PROVE  HeldInv'
<1>1. /\ txs[t].step = "on" /\ txs[t] \in Tx
      /\ \A r : Past(Answered(t), r) <=> Past(txs[t], r) \/ r = s
  BY NextStatement
<1>2. Answered(t).kind = txs[t].kind
  BY <1>1 DEF Answered, Tx
<1>3. \A r : Past(tx, r) <=> Past(txs[t], r) \/ r = s
  <2>1. ASSUME NEW r PROVE Past(tx, r) <=> Past(Answered(t), r)
    BY <1>2 DEF Past
  <2> QED BY <1>1, <2>1
<1>4. Writes(tx)
  BY <1>1, <1>3 DEF HeldInv, Writes
<1> QED BY <1>4, ContinuesHolds

\* Whoever's statement writes a pending row, and is free, finds nobody who holds it.
LEMMA FreeHoldsAlone ==
  ASSUME Inv, NEW t \in Txs, Free(t)
  PROVE  /\ WaitsForRequest(t) => \A u \in Txs \ {t} : txs[u].request = Unwritten
         /\ Sends(t, "answer") /\ invitation = "pending" =>
              \A u \in Txs \ {t} : txs[u].invitation = Unwritten
BY WhatRuns DEF Free, WaitsFor

\* A transaction rolled back holds nothing, nor does one begun, or begun anew.
LEMMA FreshHolds ==
  ASSUME Inv, HeldInv, NEW t \in Txs, NEW tx \in Tx, Continues(t, tx),
         tx.sent = 0, tx.request = Unwritten, tx.invitation = Unwritten
  PROVE  HeldInv'
<1>1. Writes(tx)
  BY DEF Writes, Past
<1> QED BY <1>1, ContinuesHolds

\* Each statement keeps who holds what.
LEMMA StatementsHold ==
  ASSUME Inv, HeldInv, NEW t \in Txs,
         \/ Insert(t) \/ Take(t) \/ Settle(t) \/ Decide(t) \/ Answer(t)
         \/ FindJoinRequest(t) \/ AskToJoin(t) \/ Rollback(t)
         \/ \E k \in Kinds : Begin(t, k)
  PROVE  HeldInv'
<1>t. txs[t] \in Tx /\ registered \in BOOLEAN /\ request \in RequestStates
  BY DEF Inv, TransactionsTypeOK
<1>f. /\ Done \in Tx /\ Done.sent = 0 /\ Done.request = Unwritten /\ Done.invitation = Unwritten
      /\ \A k \in Kinds : /\ Begun(k) \in Tx /\ Begun(k).sent = 0
                          /\ Begun(k).request = Unwritten /\ Begun(k).invitation = Unwritten
  BY FreshTxs DEF TxInv, Done, Begun, New
<1>a. ASSUME NEW s \in Statement, Sends(t, s)
      PROVE  /\ Answered(t) \in Tx /\ txs[t].kind \in Kinds
             /\ Answered(t).kind = txs[t].kind
             /\ Answered(t).request = txs[t].request
             /\ Answered(t).invitation = txs[t].invitation
             /\ s \in {"settle", "decide", "write"} =>
                  /\ txs[t].kind \in {"open", "accept", "approve", "decline", "ask"}
                  /\ s # "write" => txs[t].kind # "ask"
             /\ s = "answer" => txs[t].kind \in {"accept", "refuse"}
  <2>1. Running(txs[t]) /\ Answered(t) \in Tx
    BY <1>a, NextStatement
  <2>2. txs[t].sent \in Nat /\ txs[t].kind \in Kinds /\ Len(Statements[txs[t].kind]) \in Nat
    BY <1>t, <2>1, StatementsOf DEF Running, Tx
  <2>3. /\ s \in {"settle", "decide", "write"} =>
             /\ txs[t].kind \in {"open", "accept", "approve", "decline", "ask"}
             /\ s # "write" => txs[t].kind # "ask"
        /\ s = "answer" => txs[t].kind \in {"accept", "refuse"}
    BY <1>a, <2>2, StatementsOf DEF Sends, Entries
  <2> QED BY <1>t, <2>1, <2>2, <2>3 DEF Answered, Tx
<1>1. CASE Insert(t)
  <2> DEFINE nothingHeld == ~registered
             tx == [Answered(t) EXCEPT !.inserted = nothingHeld]
  <2>1. Sends(t, "insert") /\ Continues(t, tx)
    BY <1>1 DEF Insert
  <2>2. /\ tx \in Tx /\ tx.kind = txs[t].kind /\ tx.sent = Answered(t).sent
        /\ tx.request = txs[t].request /\ tx.invitation = txs[t].invitation
    <3>1. nothingHeld \in BOOLEAN
      OBVIOUS
    <3> HIDE DEF nothingHeld
    <3> QED BY <1>a, <2>1, <3>1 DEF Tx, Statement
  <2> HIDE DEF tx
  <2> QED BY <2>1, <2>2, AnsweredHolds DEF Statement
<1>2. CASE Take(t)
  <2> DEFINE tx == [Answered(t) EXCEPT !.took = TRUE]
  <2>1. Sends(t, "take") /\ (Continues(t, tx) \/ Continues(t, Done))
    BY <1>2 DEF Take, NotHeld
  <2>2. /\ tx \in Tx /\ tx.kind = txs[t].kind /\ tx.sent = Answered(t).sent
        /\ tx.request = txs[t].request /\ tx.invitation = txs[t].invitation
    BY <1>a, <2>1 DEF Tx, Statement
  <2> HIDE DEF tx
  <2> QED BY <1>f, <2>1, <2>2, AnsweredHolds, FreshHolds DEF Statement
<1>3. CASE Settle(t)
  <2> DEFINE tx == Settled(t)
  <2>1. Sends(t, "settle") /\ Continues(t, tx) /\ Free(t)
    BY <1>3 DEF Settle
  <2>2. Becomes[txs[t].kind] \in RequestStates
    BY <1>a, <2>1 DEF Statement, Becomes, RequestStates
  <2>3. /\ tx \in Tx /\ tx.kind = txs[t].kind /\ tx.sent = Answered(t).sent
        /\ tx.request = IF request = "pending" THEN Becomes[txs[t].kind] ELSE txs[t].request
        /\ tx.invitation = txs[t].invitation
    BY <1>a, <2>1, <2>2 DEF Settled, Tx, Statement
  <2>4. request = "pending" => \A u \in Txs \ {t} : txs[u].request = Unwritten
    BY <2>1, FreeHoldsAlone DEF WaitsForRequest
  <2>5. Unwritten \notin RequestStates
    BY DEF Unwritten, RequestStates
  <2> HIDE DEF tx
  <2> QED BY <2>1, <2>2, <2>3, <2>4, <2>5, AnsweredHolds DEF Statement
<1>4. ASSUME NEW s \in {"decide", "write"}, Sends(t, s), WaitsForRequest(t), Free(t),
             s = "decide" => request = "pending",
             Continues(t, [Answered(t) EXCEPT !.request = Becomes[txs[t].kind]])
      PROVE  HeldInv'
  <2> DEFINE tx == [Answered(t) EXCEPT !.request = Becomes[txs[t].kind]]
  <2>1. Becomes[txs[t].kind] \in RequestStates /\ (s = "write" => txs[t].kind = "ask")
    <3>1. Running(txs[t]) /\ s \in Statement
      BY <1>4, NextStatement DEF Statement
    <3>2. txs[t].sent \in Nat /\ txs[t].kind \in Kinds /\ Len(Statements[txs[t].kind]) \in Nat
      BY <1>t, <3>1, StatementsOf DEF Running, Tx
    <3>3. s = "write" => txs[t].kind = "ask"
      BY <1>4, <3>2, StatementsOf DEF Sends
    <3> QED BY <1>a, <1>4, <3>1, <3>3 DEF Becomes, RequestStates
  <2>2. /\ tx \in Tx /\ tx.kind = txs[t].kind /\ tx.sent = Answered(t).sent
        /\ tx.request = Becomes[txs[t].kind] /\ tx.invitation = txs[t].invitation
    BY <1>a, <1>4, <2>1 DEF Tx, Statement
  <2>3. \A u \in Txs \ {t} : txs[u].request = Unwritten
    BY <1>4, FreeHoldsAlone
  <2>4. tx.request # Unwritten
    BY <2>1, <2>2 DEF Unwritten, RequestStates
  <2>5. Continues(t, tx)
    BY <1>4
  <2> HIDE DEF tx
  <2> QED BY <1>4, <2>1, <2>2, <2>3, <2>4, <2>5, AnsweredHolds DEF Statement
<1>5. CASE Decide(t)
  <2>1. Sends(t, "decide") /\ Free(t)
    BY <1>5 DEF Decide
  <2>2. CASE request = "pending"
    BY <1>4, <1>5, <2>1, <2>2 DEF Decide, WaitsForRequest
  <2>3. CASE request # "pending"
    BY <1>5, <1>f, <2>3, FreshHolds DEF Decide
  <2> QED BY <2>2, <2>3
<1>6. CASE Answer(t)
  <2>1. Sends(t, "answer") /\ Free(t)
    BY <1>6 DEF Answer
  <2>2. CASE invitation = "pending"
    <3> DEFINE tx == [Answered(t) EXCEPT !.invitation = Answers[txs[t].kind]]
    <3>1. Answers[txs[t].kind] \in InvitationStates
      BY <1>a, <2>1 DEF Statement, Answers, InvitationStates
    <3>2. /\ tx \in Tx /\ tx.kind = txs[t].kind /\ tx.sent = Answered(t).sent
          /\ tx.request = txs[t].request /\ tx.invitation = Answers[txs[t].kind]
      BY <1>a, <2>1, <3>1 DEF Tx, Statement
    <3>3. \A u \in Txs \ {t} : txs[u].invitation = Unwritten
      BY <2>1, <2>2, FreeHoldsAlone
    <3>4. tx.invitation # Unwritten
      BY <3>1, <3>2 DEF Unwritten, InvitationStates
    <3>5. Continues(t, tx)
      BY <1>6, <2>2 DEF Answer
    <3> HIDE DEF tx
    <3> QED BY <2>1, <2>2, <3>2, <3>3, <3>4, <3>5, AnsweredHolds DEF Statement
  <2>3. CASE invitation # "pending"
    BY <1>6, <1>f, <2>3, FreshHolds DEF Answer
  <2> QED BY <2>2, <2>3
<1>7. CASE FindJoinRequest(t)
  <2> DEFINE there == (request # "none")
             tx == [Answered(t) EXCEPT !.found = there]
  <2>1. Sends(t, "find") /\ Continues(t, tx)
    BY <1>7 DEF FindJoinRequest
  <2>2. /\ tx \in Tx /\ tx.kind = txs[t].kind /\ tx.sent = Answered(t).sent
        /\ tx.request = txs[t].request /\ tx.invitation = txs[t].invitation
    <3>1. there \in BOOLEAN
      OBVIOUS
    <3> HIDE DEF there
    <3> QED BY <1>a, <2>1, <3>1 DEF Tx, Statement
  <2> HIDE DEF tx
  <2> QED BY <2>1, <2>2, AnsweredHolds DEF Statement
<1>8. CASE AskToJoin(t)
  <2>1. Sends(t, "write") /\ Free(t)
    BY <1>8 DEF AskToJoin
  <2>2. CASE txs[t].found \/ request = "none"
    BY <1>4, <1>8, <2>1, <2>2 DEF AskToJoin, WaitsForRequest
  <2>3. CASE ~(txs[t].found \/ request = "none") /\ txs[t].retried
    BY <1>8, <1>f, <2>3, FreshHolds DEF AskToJoin
  <2>4. CASE ~(txs[t].found \/ request = "none") /\ ~txs[t].retried
    <3> DEFINE tx == [Begun("ask") EXCEPT !.retried = TRUE]
    <3>1. Continues(t, tx)
      BY <1>8, <2>4 DEF AskToJoin
    <3>2. tx \in Tx /\ tx.sent = 0 /\ tx.request = Unwritten /\ tx.invitation = Unwritten
      BY <1>f DEF Tx, Kinds
    <3> HIDE DEF tx
    <3> QED BY <3>1, <3>2, FreshHolds
  <2> QED BY <2>2, <2>3, <2>4
<1>9. CASE Rollback(t)
  BY <1>9, <1>f, FreshHolds DEF Rollback
<1>10. CASE \E k \in Kinds : Begin(t, k)
  BY <1>10, <1>f, FreshHolds DEF Begin
<1> QED BY <1>1, <1>2, <1>3, <1>5, <1>6, <1>7, <1>8, <1>9, <1>10

\* What others do to a transaction's history is nothing to what it holds.
LEMMA OthersHold ==
  ASSUME Inv, HeldInv, NEW done,
         \A u \in Txs : /\ txs'[u].step = (IF u \in done THEN "done" ELSE txs[u].step)
                        /\ \A f \in {"kind", "sent", "request", "invitation"} :
                             txs'[u][f] = IF u \in done THEN Done[f] ELSE txs[u][f],
         (request' = request) \/ (\A u \in Txs \ done : txs[u].request = Unwritten \/ txs[u].kind = "ask"),
         (invitation' = invitation) \/ (\A u \in Txs \ done : txs[u].invitation = Unwritten)
  PROVE  HeldInv'
<1>1. ASSUME NEW u \in Txs
      PROVE  /\ u \notin done => /\ txs'[u].step = txs[u].step /\ txs'[u].kind = txs[u].kind
                                 /\ txs'[u].sent = txs[u].sent
                                 /\ txs'[u].request = txs[u].request
                                 /\ txs'[u].invitation = txs[u].invitation
             /\ u \in done => /\ txs'[u].step = "done"
                              /\ txs'[u].request = Unwritten /\ txs'[u].invitation = Unwritten
  BY DEF Done, New
<1>2. RequestHeld'
  BY <1>1 DEF HeldInv, RequestHeld
<1>3. InvitationHeld'
  BY <1>1 DEF HeldInv, InvitationHeld
<1>4. ASSUME NEW u \in Txs PROVE Writes(txs'[u])
  <2>1. CASE u \in done
    BY <1>1, <2>1 DEF Writes
  <2>2. CASE u \notin done
    BY <1>1, <2>2 DEF HeldInv, Writes, Past
  <2> QED BY <2>1, <2>2
<1> QED BY <1>2, <1>3, <1>4 DEF HeldInv
\* Who holds what, from any committed rows on.
LEMMA HeldInvariant == TransactionsSpec => [](Inv /\ HeldInv)
<1>1. ASSUME TransactionsInit PROVE HeldInv
  <2>1. \A t \in Txs : txs[t].step = "new" /\ txs[t].request = Unwritten
                       /\ txs[t].invitation = Unwritten
    BY <1>1 DEF TransactionsInit, New
  <2> QED BY <2>1 DEF HeldInv, RequestHeld, InvitationHeld, Writes
<1>2. ASSUME Inv, HeldInv, [TransactionsNext]_transactionVars PROVE HeldInv'
  <2>t. txs \in [Txs -> Tx]
    BY <1>2 DEF Inv, TransactionsTypeOK
  <2>1. ASSUME NEW t \in Txs, Commit(t) PROVE HeldInv'
    <3>1. /\ request' = IF txs[t].request = Unwritten THEN request ELSE txs[t].request
          /\ invitation' = IF txs[t].invitation = Unwritten THEN invitation ELSE txs[t].invitation
          /\ txs' = [u \in Txs |->
               IF u = t THEN Done
               ELSE [txs[u] EXCEPT !.asked = @ \/ (txs[t].kind = "ask" /\ txs[u].settled)]]
      BY <2>1 DEF Commit
    <3>2. ASSUME NEW u \in Txs
          PROVE  /\ txs'[u].step = (IF u \in {t} THEN "done" ELSE txs[u].step)
                 /\ \A f \in {"kind", "sent", "request", "invitation"} :
                      txs'[u][f] = IF u \in {t} THEN Done[f] ELSE txs[u][f]
      <4> DEFINE now == txs[u].asked \/ (txs[t].kind = "ask" /\ txs[u].settled)
      <4>1. txs'[u] = IF u = t THEN Done ELSE [txs[u] EXCEPT !.asked = now]
        BY <3>1
      <4>2. txs[u] \in Tx /\ Done.step = "done"
        BY <2>t DEF Done
      <4> HIDE DEF now
      <4> QED BY <4>1, <4>2 DEF Tx
    <3>3. (request' = request) \/ (\A u \in Txs \ {t} : txs[u].request = Unwritten \/ txs[u].kind = "ask")
      BY <1>2, <3>1 DEF HeldInv, RequestHeld
    <3>4. (invitation' = invitation) \/ (\A u \in Txs \ {t} : txs[u].invitation = Unwritten)
      BY <1>2, <3>1 DEF HeldInv, InvitationHeld
    <3> QED BY <1>2, <3>2, <3>3, <3>4, OthersHold
  <2>2. ASSUME Deregister PROVE HeldInv'
    <3> DEFINE nobody == {}
    <3>1. request' = request /\ invitation' = invitation
          /\ txs' = [u \in Txs |-> [txs[u] EXCEPT !.left = @ \/ txs[u].took]]
      BY <2>2 DEF Deregister
    <3>2. ASSUME NEW u \in Txs
          PROVE  /\ txs'[u].step = (IF u \in nobody THEN "done" ELSE txs[u].step)
                 /\ \A f \in {"kind", "sent", "request", "invitation"} :
                      txs'[u][f] = IF u \in nobody THEN Done[f] ELSE txs[u][f]
      <4> DEFINE now == txs[u].left \/ txs[u].took
      <4>1. txs'[u] = [txs[u] EXCEPT !.left = now] /\ txs[u] \in Tx
        BY <2>t, <3>1
      <4> HIDE DEF now
      <4> QED BY <4>1 DEF Tx
    <3> HIDE DEF nobody
    <3> QED BY <1>2, <3>1, <3>2, OthersHold
  <2>3. ASSUME UNCHANGED <<request, invitation, txs>> PROVE HeldInv'
    BY <1>2, <2>3 DEF HeldInv, RequestHeld, InvitationHeld
  <2> QED
    BY <1>2, <2>1, <2>2, <2>3, StatementsHold
    DEF TransactionsNext, Step, Fails, DetectDeadlock, AssignGroup, transactionVars
<1> QED BY <1>1, <1>2, InvInvariant, PTL DEF TransactionsSpec

\* What each kind commits, if nothing overtook it.
LEMMA CommitAdmits ==
  ASSUME Inv, HeldInv, NEW t \in Txs, Commit(t), ~Overtaken(t)
  PROVE  Admits!AdmissionNext
<1> DEFINE k == txs[t].kind
<1>1. /\ AllSent(t) /\ Running(txs[t]) /\ txs[t] \in Tx /\ k \in Kinds
      /\ registered' = (registered \/ txs[t].inserted)
      /\ request' = IF txs[t].request = Unwritten THEN request ELSE txs[t].request
      /\ invitation' = IF txs[t].invitation = Unwritten THEN invitation ELSE txs[t].invitation
  BY AllPast DEF Commit, Running
<1>2. \A i \in 1..Len(Statements[k]) : Past(txs[t], Statements[k][i])
  BY <1>1 DEF AllSent, Past
<1>3. Len(Statements[k]) \in Nat /\ Writes(txs[t]) /\ txs[t].step = "on"
  BY <1>1, StatementsOf DEF HeldInv, AllSent, On
<1>e. k \in {"open", "accept", "approve"} => registered'
  <2>1. k \in {"open", "accept", "approve"} => txs[t].took
    BY AllPast, <1>1
  <2> QED BY <1>1, <2>1 DEF Inv, RowsInv, Overtaken
<1>p. ASSUME NEW s, Past(txs[t], s)
      PROVE  \E i \in 1..Len(Statements[k]) : Statements[k][i] = s
  BY <1>1, <1>3, <1>p DEF Past, AllSent
<1>r. /\ txs[t].request # Unwritten =>
           /\ k \in {"open", "accept", "approve", "decline", "ask"}
           /\ txs[t].request = Becomes[k] /\ request' = Becomes[k]
           /\ k # "ask" => request = "pending"
      /\ txs[t].invitation # Unwritten =>
           /\ k \in {"accept", "refuse"} /\ invitation = "pending" /\ invitation' = Answers[k]
  <2>1. txs[t].request # Unwritten =>
          \E s \in {"settle", "decide", "write"} : \E i \in 1..Len(Statements[k]) : Statements[k][i] = s
    BY <1>1, <1>p DEF Running
  <2>2. txs[t].invitation # Unwritten => \E i \in 1..Len(Statements[k]) : Statements[k][i] = "answer"
    BY <1>1, <1>p DEF Running
  <2>3. txs[t].request # Unwritten => k \in {"open", "accept", "approve", "decline", "ask"}
    BY <1>1, <2>1, StatementsOf DEF Entries
  <2>4. txs[t].invitation # Unwritten => k \in {"accept", "refuse"}
    BY <1>1, <2>2, StatementsOf
  <2> QED BY <1>1, <2>3, <2>4 DEF Running, HeldInv, RequestHeld, InvitationHeld
<1>w. /\ k \in {"approve", "decline", "ask"} => txs[t].request # Unwritten
      /\ k \in {"accept", "refuse"} => txs[t].invitation # Unwritten
  <2>1. CASE k = "approve"
    BY <1>2, <1>3, <2>1, KindStatements, SMT DEF Writes
  <2>2. CASE k = "decline"
    BY <1>2, <1>3, <2>2, KindStatements, SMT DEF Writes
  <2>3. CASE k = "ask"
    BY <1>2, <1>3, <2>3, KindStatements, SMT DEF Writes
  <2>4. CASE k = "accept"
    BY <1>2, <1>3, <2>4, KindStatements, SMT DEF Writes
  <2>5. CASE k = "refuse"
    BY <1>2, <1>3, <2>5, KindStatements, SMT DEF Writes
  <2> QED BY <2>1, <2>2, <2>3, <2>4, <2>5
<1>i. k \in {"ask", "refuse", "decline"} => registered' = registered
  <2>1. txs[t].inserted => \E i \in 1..Len(Statements[k]) : Statements[k][i] = "insert"
    BY <1>1, <1>p DEF Running
  <2>2. k = "ask" => ~txs[t].inserted
    BY <2>1, KindStatements, SMT
  <2>3. k \in {"refuse", "decline"} => ~txs[t].inserted
    BY <2>1, KindStatements, SMT
  <2>4. registered \in BOOLEAN
    BY DEF Inv, TransactionsTypeOK
  <2> QED BY <1>1, <2>2, <2>3, <2>4
<1>s. k \in Entries =>
        IF request = "pending" THEN request' = "approved" ELSE request' = request
  <2>1. k \in Entries => txs[t].settled
    BY AllPast, <1>1
  <2>2. k \in Entries => Becomes[k] = "approved"
    BY DEF Entries, Becomes
  <2>3. k \in Entries /\ txs[t].request = Unwritten => request # "pending"
    BY <1>1, <2>1 DEF Inv, RowsInv, Overtaken
  <2> QED BY <1>1, <1>r, <2>2, <2>3 DEF Entries
<1>4. CASE k = "open"
  <2>1. Admits!WalkIn(Pair)
    BY <1>1, <1>e, <1>r, <1>s, <1>4
    DEF Admits!WalkIn, Admits!Enter, Admits!Fulfilled, Entries
  <2> QED BY <2>1 DEF Admits!AdmissionNext
<1>5. CASE k = "accept"
  <2>1. invitation = "pending" /\ invitation' = "accepted"
    BY <1>r, <1>w, <1>5 DEF Answers
  <2>2. Admits!Enter(Pair)
    BY <1>1, <1>e, <1>5 DEF Admits!Enter
  <2>3. [p \in {Pair} |-> request]' = Admits!Fulfilled(Pair)
    BY <1>s, <1>5 DEF Admits!Fulfilled, Entries
  <2>4. Admits!Take(Pair)
    BY <2>1, <2>2, <2>3 DEF Admits!Take
  <2> QED BY <2>4 DEF Admits!AdmissionNext
<1>6. CASE k = "refuse"
  <2>1. Admits!TurnDown(Pair)
    BY <1>1, <1>i, <1>r, <1>w, <1>6 DEF Admits!TurnDown, Answers
  <2> QED BY <2>1 DEF Admits!AdmissionNext
<1>7. CASE k = "ask"
  <2>1. Admits!Wish(Pair)
    BY <1>1, <1>i, <1>r, <1>w, <1>7 DEF Admits!Wish, Becomes
  <2> QED BY <2>1 DEF Admits!AdmissionNext
<1>8. CASE k = "approve"
  <2>1. Admits!Grant(Pair)
    BY <1>1, <1>e, <1>r, <1>w, <1>8 DEF Admits!Grant, Admits!Enter, Becomes
  <2> QED BY <2>1 DEF Admits!AdmissionNext
<1>9. CASE k = "decline"
  <2>1. Admits!Refuse(Pair)
    BY <1>1, <1>i, <1>r, <1>w, <1>9 DEF Admits!Refuse, Becomes
  <2> QED BY <2>1 DEF Admits!AdmissionNext
<1> QED BY <1>1, <1>4, <1>5, <1>6, <1>7, <1>8, <1>9 DEF Kinds

(***************************************************************************)
(* However many transactions run at once, their commits are admissions one *)
(* by one, save those that were overtaken (CommitsAdmit; joinOpen, decide, *)
(* askToJoin and answerInvitation).                                        *)
(***************************************************************************)
THEOREM CommittedIsAdmitted == TransactionsSpec => CommitsAdmit
<1> DEFINE Admitted == \/ \E t \in Txs : Commit(t) /\ Overtaken(t)
                       \/ Admits!AdmissionNext
                       \/ UNCHANGED Admits!admissionVars
<1>1. ASSUME Inv, HeldInv, [TransactionsNext]_transactionVars PROVE Admitted
  <2>1. ASSUME NEW t \in Txs, Commit(t) PROVE Admitted
    BY <1>1, <2>1, CommitAdmits
  <2>2. ASSUME AssignGroup PROVE Admitted
    <3>1. Admits!Place(Pair)
      BY <2>2 DEF AssignGroup, Admits!Place, Admits!Enter
    <3> QED BY <3>1 DEF Admits!AdmissionNext
  <2>3. ASSUME Deregister PROVE Admitted
    <3>1. Admits!Leave(Pair)
      BY <2>3 DEF Deregister, Admits!Leave
    <3> QED BY <3>1 DEF Admits!AdmissionNext
  <2>4. ASSUME UNCHANGED <<registered, request, invitation>> PROVE Admitted
    BY <2>4 DEF Admits!admissionVars
  <2> HIDE DEF Admitted
  <2> QED
    BY <1>1, <2>1, <2>2, <2>3, <2>4
    DEF TransactionsNext, Step, Begin, Continues, Insert, Take, Settle, Decide, Answer,
        FindJoinRequest, AskToJoin, Fails, Rollback, DetectDeadlock, transactionVars
<1>2. Inv /\ HeldInv /\ [TransactionsNext]_transactionVars => [Admitted]_transactionVars
  BY <1>1
<1> QED BY <1>2, HeldInvariant, PTL DEF TransactionsSpec, CommitsAdmit
-----------------------------------------------------------------------------
(***************************************************************************)
(* Nobody is left waiting: while a transaction is on, either some          *)
(* statement or commit can be answered, or an entry and an approval wait   *)
(* for each other and for nobody besides, and the database breaks that.    *)
(***************************************************************************)
SomeoneGoesOn ==
  (\E t \in Txs : On(t)) =>
    \/ \E t \in Txs : AllSent(t) \/ \E s \in Statement : Sends(t, s) /\ Free(t)
    \/ \E e, a \in Txs :
         /\ txs[e].kind \in Entries /\ txs[a].kind = "approve"
         /\ Deadlocked({e, a})
         /\ \A E \in SUBSET {e, a} : Deadlocked(E) => E = {e, a}

(***************************************************************************)
(* However many transactions there are, one that is on can be gone on with *)
(* or two can be told apart (the safety half of TransactionsEnd).          *)
(***************************************************************************)
THEOREM OneCanGoOn == TransactionsSpec => []SomeoneGoesOn
<1>1. ASSUME Inv, NEW o \in Txs, On(o),
             \A t \in Txs : ~(AllSent(t) \/ \E s \in Statement : Sends(t, s) /\ Free(t))
      PROVE  \E e, a \in Txs :
               /\ txs[e].kind \in Entries /\ txs[a].kind = "approve"
               /\ Deadlocked({e, a})
               /\ \A E \in SUBSET {e, a} : Deadlocked(E) => E = {e, a}
  <2> DEFINE D == {t \in Txs : On(t)}
  <2>1. ASSUME NEW t \in D PROVE \E u \in D : WaitsFor(t, u)
    <3>1. /\ txs[t].kind \in Kinds /\ txs[t].sent \in Nat
          /\ txs[t].sent <= Len(Statements[txs[t].kind])
      BY <1>1, WhatRuns DEF Running, Tx
    <3>2. Statements[txs[t].kind] \in Seq(Statement) /\ Len(Statements[txs[t].kind]) \in Nat
      BY <3>1, StatementsOf
    <3>3. txs[t].sent # Len(Statements[txs[t].kind])
      BY <1>1 DEF AllSent
    <3>4. /\ txs[t].sent < Len(Statements[txs[t].kind])
          /\ Statements[txs[t].kind][txs[t].sent + 1] \in Statement
      BY <3>1, <3>2, <3>3
    <3>5. \E s \in Statement : Sends(t, s)
      BY <3>4 DEF Sends
    <3> QED BY <1>1, <3>5 DEF Free, WaitsFor
  <2>2. Deadlocked(D)
    BY <1>1, <2>1 DEF Deadlocked
  <2>3. PICK e, a \in D : /\ txs[e].kind \in Entries /\ txs[a].kind = "approve"
                          /\ WaitsFor(e, a) /\ WaitsFor(a, e)
    BY <1>1, <2>2, DeadlocksHaveThePair DEF DeadlockIsEntryWithApproval
  <2>4. Deadlocked({e, a})
    BY <2>3 DEF Deadlocked
  <2>5. ASSUME NEW E \in SUBSET {e, a}, Deadlocked(E) PROVE E = {e, a}
    BY <2>5 DEF Deadlocked, WaitsFor
  <2> QED BY <2>3, <2>4, <2>5
<1>2. Inv => SomeoneGoesOn
  BY <1>1 DEF SomeoneGoesOn
<1> QED BY <1>2, InvInvariant, PTL

(***************************************************************************)
(* How far a transaction has to go at most: to begin, its statements and   *)
(* the commit, and of an ask the retry besides.                            *)
(***************************************************************************)
ToGo(tx) ==
  IF tx = New THEN 7
  ELSE IF tx.step # "on" THEN 0
  ELSE Len(Statements[tx.kind]) - tx.sent + 1 + (IF tx.kind = "ask" /\ ~tx.retried THEN 3 ELSE 0)

(***************************************************************************)
(* No step takes a transaction back, and each statement, commit or broken  *)
(* deadlock brings one further.                                            *)
(***************************************************************************)
StepsComeCloser ==
  [][/\ \A t \in Txs : ToGo(txs'[t]) <= ToGo(txs[t])
     /\ GoesOn => \E t \in Txs : ToGo(txs'[t]) < ToGo(txs[t])]_transactionVars

\* No kind sends more than four statements; an ask sends two.
LEMMA HowMany ==
  ASSUME NEW k \in Kinds
  PROVE  Len(Statements[k]) \in 1..4 /\ (k = "ask" => Len(Statements[k]) = 2)
<1>1. CASE k = "open" BY <1>1, KindStatements, SMT
<1>2. CASE k = "accept" BY <1>2, KindStatements, SMT
<1>3. CASE k = "refuse" BY <1>3, KindStatements, SMT
<1>4. CASE k = "ask" BY <1>4, KindStatements, SMT
<1>5. CASE k = "approve" BY <1>5, KindStatements, SMT
<1>6. CASE k = "decline" BY <1>6, KindStatements, SMT
<1> QED BY <1>1, <1>2, <1>3, <1>4, <1>5, <1>6 DEF Kinds

\* What there is to go, for each of them.
LEMMA HowFar ==
  ASSUME NEW tx \in Tx, TxInv(tx)
  PROVE  /\ ToGo(tx) \in 0..7
         /\ tx.step = "on" => /\ ToGo(tx) = Len(Statements[tx.kind]) - tx.sent + 1
                                             + (IF tx.kind = "ask" /\ ~tx.retried THEN 3 ELSE 0)
                              /\ ToGo(tx) > 0
                              /\ Len(Statements[tx.kind]) \in Nat /\ tx.sent \in Nat
         /\ tx.step \in {"new", "on", "done"} /\ (tx.step = "new" => tx = New)
         /\ tx.step = "done" => ToGo(tx) = 0
<1>n. New.step = "new" /\ Done.step = "done"
  BY DEF New, Done
<1>1. CASE tx.step = "on"
  <2>1. tx # New /\ tx.kind \in Kinds /\ tx.sent \in Nat /\ tx.sent <= Len(Statements[tx.kind])
    BY <1>1, <1>n DEF TxInv, Running, Tx
  <2>2. Len(Statements[tx.kind]) \in 1..4 /\ (tx.kind = "ask" => Len(Statements[tx.kind]) = 2)
    BY <2>1, HowMany
  <2> DEFINE left == Len(Statements[tx.kind]) - tx.sent + 1
             again == IF tx.kind = "ask" /\ ~tx.retried THEN 3 ELSE 0
  <2>3. left \in 1..5 /\ again \in {0, 3} /\ (tx.kind = "ask" => left \in 1..3)
        /\ (tx.kind # "ask" => again = 0)
    <3> DEFINE n == Len(Statements[tx.kind])
    <3>1. n \in 1..4 /\ tx.sent \in Nat /\ tx.sent <= n /\ (tx.kind = "ask" => n = 2)
      BY <2>1, <2>2
    <3>2. left = n - tx.sent + 1
      OBVIOUS
    <3> HIDE DEF n, left
    <3>3. left \in 1..5 /\ (tx.kind = "ask" => left \in 1..3)
      BY <3>1, <3>2
    <3> QED BY <3>3
  <2>4. ToGo(tx) = left + again
    BY <1>1, <2>1 DEF ToGo
  <2>5. left + again \in 1..7
    <3> HIDE DEF left, again
    <3> QED BY <2>3
  <2> QED BY <1>1, <1>n, <2>1, <2>2, <2>4, <2>5
<1>2. CASE tx.step # "on"
  BY <1>2, <1>n DEF TxInv, ToGo
<1> QED BY <1>1, <1>2

\* One transaction goes on as tx: that it comes closer is a matter of tx alone.
LEMMA OneComesCloser ==
  ASSUME Inv, NEW t \in Txs, NEW tx, TxInv(tx), Continues(t, tx),
         ToGo(tx) < ToGo(txs[t])
  PROVE  /\ \A u \in Txs : ToGo(txs'[u]) <= ToGo(txs[u])
         /\ \E u \in Txs : ToGo(txs'[u]) < ToGo(txs[u])
<1>1. \A u \in Txs : txs'[u] = IF u = t THEN tx ELSE txs[u]
  BY DEF Continues, Inv, TransactionsTypeOK
<1>2. \A u \in Txs : ToGo(txs[u]) \in 0..7
  BY HowFar DEF Inv, TransactionsTypeOK
<1>3. ToGo(tx) \in 0..7
  BY HowFar DEF TxInv
<1> QED BY <1>1, <1>2, <1>3
\* A statement answered leaves one less; an ask begun anew, three.
LEMMA StatementsComeCloser ==
  ASSUME Inv, NEW t \in Txs,
         \/ Insert(t) \/ Take(t) \/ Settle(t) \/ Decide(t) \/ Answer(t)
         \/ FindJoinRequest(t) \/ AskToJoin(t)
         \/ On(t) /\ Rollback(t)
         \/ \E k \in Kinds : Begin(t, k)
  PROVE  /\ \A u \in Txs : ToGo(txs'[u]) <= ToGo(txs[u])
         /\ \E u \in Txs : ToGo(txs'[u]) < ToGo(txs[u])
<1>t. txs[t] \in Tx /\ TxInv(txs[t])
  BY DEF Inv, TransactionsTypeOK
<1>n. New.step = "new" /\ Done.step = "done" /\ ToGo(New) = 7 /\ ToGo(Done) = 0 /\ TxInv(Done)
  BY FreshTxs DEF New, Done, ToGo
<1>d. ASSUME On(t), Continues(t, Done)
      PROVE  /\ \A u \in Txs : ToGo(txs'[u]) <= ToGo(txs[u])
             /\ \E u \in Txs : ToGo(txs'[u]) < ToGo(txs[u])
  <2>1. ToGo(Done) < ToGo(txs[t])
    BY <1>t, <1>n, <1>d, HowFar DEF On
  <2> QED BY <1>n, <1>d, <2>1, OneComesCloser
<1>a. ASSUME NEW s \in Statement, Sends(t, s), NEW tx, Continues(t, tx), Inv',
             tx.step = "on", tx.kind = txs[t].kind, tx.retried = txs[t].retried,
             tx.sent = Answered(t).sent
      PROVE  /\ \A u \in Txs : ToGo(txs'[u]) <= ToGo(txs[u])
             /\ \E u \in Txs : ToGo(txs'[u]) < ToGo(txs[u])
  <2>1. txs'[t] = tx /\ tx \in Tx /\ TxInv(tx)
    BY <1>a DEF Continues, Inv, TransactionsTypeOK, TxInv
  <2>2. tx.sent = txs[t].sent + 1 /\ txs[t].step = "on"
    BY <1>a, <1>t DEF Answered, Tx, Sends, On
  <2> DEFINE n == Len(Statements[txs[t].kind])
             again == IF txs[t].kind = "ask" /\ ~txs[t].retried THEN 3 ELSE 0
  <2>3. /\ ToGo(txs[t]) = n - txs[t].sent + 1 + again /\ n \in Nat /\ txs[t].sent \in Nat
        /\ ToGo(tx) = n - (txs[t].sent + 1) + 1 + again
    BY <1>a, <1>t, <2>1, <2>2, HowFar
  <2>4. again \in Nat
    OBVIOUS
  <2> HIDE DEF n, again
  <2>5. ToGo(tx) < ToGo(txs[t])
    BY <2>3, <2>4
  <2> QED BY <1>a, <2>1, <2>5, OneComesCloser
<1>s. ASSUME NEW s \in Statement, Sends(t, s)
      PROVE  /\ Answered(t) \in Tx /\ Answered(t).step = "on" /\ Answered(t).kind = txs[t].kind
             /\ Answered(t).retried = txs[t].retried /\ On(t)
  BY <1>s, <1>t, NextStatement DEF Answered, Tx, On, Sends
<1>1. CASE Insert(t)
  <2> DEFINE tx == [Answered(t) EXCEPT !.inserted = ~registered]
  <2>1. Sends(t, "insert") /\ Continues(t, tx) /\ Inv'
    BY <1>1, InsertKeeps DEF Insert
  <2>2. tx.step = "on" /\ tx.kind = txs[t].kind /\ tx.retried = txs[t].retried
        /\ tx.sent = Answered(t).sent
    BY <1>s, <2>1 DEF Tx, Statement
  <2> HIDE DEF tx
  <2> QED BY <1>a, <2>1, <2>2 DEF Statement
<1>2. CASE Take(t)
  <2> DEFINE tx == [Answered(t) EXCEPT !.took = TRUE]
  <2>1. Sends(t, "take") /\ (Continues(t, tx) \/ Continues(t, Done)) /\ Inv'
    BY <1>2, TakeKeeps DEF Take, NotHeld
  <2>2. tx.step = "on" /\ tx.kind = txs[t].kind /\ tx.retried = txs[t].retried
        /\ tx.sent = Answered(t).sent /\ On(t)
    BY <1>s, <2>1 DEF Tx, Statement
  <2> HIDE DEF tx
  <2> QED BY <1>a, <1>d, <2>1, <2>2 DEF Statement
<1>3. CASE Settle(t)
  <2>1. Sends(t, "settle") /\ Continues(t, Settled(t)) /\ Inv'
    BY <1>3, SettleKeeps DEF Settle
  <2>2. /\ Settled(t).step = "on" /\ Settled(t).kind = txs[t].kind
        /\ Settled(t).retried = txs[t].retried /\ Settled(t).sent = Answered(t).sent
    BY <1>s, <2>1 DEF Tx, Statement, Settled
  <2> QED BY <1>a, <2>1, <2>2 DEF Statement
<1>4. ASSUME NEW s \in {"decide", "write"}, Sends(t, s), Inv',
             Continues(t, [Answered(t) EXCEPT !.request = Becomes[txs[t].kind]])
      PROVE  /\ \A u \in Txs : ToGo(txs'[u]) <= ToGo(txs[u])
             /\ \E u \in Txs : ToGo(txs'[u]) < ToGo(txs[u])
  <2> DEFINE tx == [Answered(t) EXCEPT !.request = Becomes[txs[t].kind]]
  <2>1. tx.step = "on" /\ tx.kind = txs[t].kind /\ tx.retried = txs[t].retried
        /\ tx.sent = Answered(t).sent
    BY <1>s, <1>4 DEF Tx, Statement
  <2>2. Continues(t, tx)
    BY <1>4
  <2> HIDE DEF tx
  <2> QED BY <1>a, <1>4, <2>1, <2>2 DEF Statement
<1>5. CASE Decide(t)
  <2>1. Sends(t, "decide") /\ On(t) /\ Inv'
    BY <1>5, <1>s, DecideKeeps DEF Decide, Statement
  <2> QED BY <1>4, <1>5, <1>d, <2>1 DEF Decide
<1>6. CASE Answer(t)
  <2> DEFINE tx == [Answered(t) EXCEPT !.invitation = Answers[txs[t].kind]]
  <2>1. Sends(t, "answer") /\ (Continues(t, tx) \/ Continues(t, Done)) /\ Inv'
    BY <1>6, AnswerKeeps DEF Answer
  <2>2. tx.step = "on" /\ tx.kind = txs[t].kind /\ tx.retried = txs[t].retried
        /\ tx.sent = Answered(t).sent /\ On(t)
    BY <1>s, <2>1 DEF Tx, Statement
  <2> HIDE DEF tx
  <2> QED BY <1>a, <1>d, <2>1, <2>2 DEF Statement
<1>7. CASE FindJoinRequest(t)
  <2> DEFINE tx == [Answered(t) EXCEPT !.found = (request # "none")]
  <2>1. Sends(t, "find") /\ Continues(t, tx) /\ Inv'
    BY <1>7, FindKeeps DEF FindJoinRequest
  <2>2. tx.step = "on" /\ tx.kind = txs[t].kind /\ tx.retried = txs[t].retried
        /\ tx.sent = Answered(t).sent
    BY <1>s, <2>1 DEF Tx, Statement
  <2> HIDE DEF tx
  <2> QED BY <1>a, <2>1, <2>2 DEF Statement
<1>8. CASE AskToJoin(t)
  <2>1. Sends(t, "write") /\ On(t) /\ Inv' /\ txs[t].kind = "ask" /\ txs[t].sent = 1
    <3>1. Sends(t, "write") /\ On(t) /\ Inv'
      BY <1>8, <1>s, AskKeeps DEF AskToJoin, Statement
    <3>2. txs[t].kind \in Kinds /\ txs[t].sent \in Nat /\ Len(Statements[txs[t].kind]) \in Nat
      BY <3>1, <1>t, WhatRuns, StatementsOf DEF Running, Tx
    <3>3. txs[t].kind = "ask"
      <4>1. txs[t].sent + 1 \in 1..Len(Statements[txs[t].kind])
        BY <3>1, <3>2 DEF Sends
      <4> QED BY <3>1, <3>2, <4>1, StatementsOf DEF Sends
    <3>4. Statements["ask"] = <<"find", "write">>
      BY KindStatements
    <3>5. txs[t].sent = 1
      BY <3>1, <3>2, <3>3, <3>4 DEF Sends
    <3> QED BY <3>1, <3>3, <3>5
  <2>2. CASE txs[t].found \/ request = "none"
    BY <1>4, <1>8, <2>1, <2>2 DEF AskToJoin
  <2>3. CASE ~(txs[t].found \/ request = "none") /\ txs[t].retried
    BY <1>8, <1>d, <2>1, <2>3 DEF AskToJoin
  <2>4. CASE ~(txs[t].found \/ request = "none") /\ ~txs[t].retried
    <3> DEFINE tx == [Begun("ask") EXCEPT !.retried = TRUE]
    <3>1. Continues(t, tx)
      BY <1>8, <2>4 DEF AskToJoin
    <3>2. tx.step = "on" /\ tx.kind = "ask" /\ tx.retried /\ tx.sent = 0
      BY DEF Begun, New
    <3> HIDE DEF tx
    <3>3. txs'[t] = tx /\ tx \in Tx /\ TxInv(tx)
      BY <2>1, <3>1 DEF Continues, Inv, TransactionsTypeOK, TxInv
    <3>4. Len(Statements["ask"]) = 2
      BY HowMany DEF Kinds
    <3>5. ToGo(tx) = 3
      <4>1. ToGo(tx) = Len(Statements[tx.kind]) - tx.sent + 1
                         + (IF tx.kind = "ask" /\ ~tx.retried THEN 3 ELSE 0)
        BY <3>2, <3>3, HowFar
      <4>2. ToGo(tx) = Len(Statements["ask"]) - 0 + 1 + 0
        BY <3>2, <4>1
      <4> QED BY <3>4, <4>2
    <3>6. ToGo(txs[t]) = 5
      <4>1. ToGo(txs[t]) = Len(Statements[txs[t].kind]) - txs[t].sent + 1
                             + (IF txs[t].kind = "ask" /\ ~txs[t].retried THEN 3 ELSE 0)
        BY <1>t, <2>1, HowFar DEF On
      <4>2. ToGo(txs[t]) = Len(Statements["ask"]) - 1 + 1 + 3
        BY <2>1, <2>4, <4>1
      <4> QED BY <3>4, <4>2
    <3> QED BY <3>1, <3>3, <3>5, <3>6, OneComesCloser
  <2> QED BY <2>2, <2>3, <2>4
<1>9. CASE On(t) /\ Rollback(t)
  BY <1>9, <1>d DEF Rollback
<1>10. CASE \E k \in Kinds : Begin(t, k)
  <2>1. PICK k \in Kinds : Continues(t, Begun(k)) /\ txs[t] = New
    BY <1>10 DEF Begin
  <2>2. TxInv(Begun(k)) /\ Begun(k) \in Tx
    BY FreshTxs DEF TxInv
  <2>3. Begun(k).step = "on" /\ Begun(k).kind = k /\ Begun(k).sent = 0 /\ ~Begun(k).retried
    BY DEF Begun, New
  <2> DEFINE n == Len(Statements[k])
             again == IF k = "ask" THEN 3 ELSE 0
  <2>4. n \in 1..4 /\ (k = "ask" => n = 2) /\ (k # "ask" => again = 0) /\ again \in {0, 3}
    BY HowMany
  <2>5. ToGo(Begun(k)) = n - 0 + 1 + again
    BY <2>2, <2>3, HowFar
  <2>6. ToGo(Begun(k)) < 7
    <3> HIDE DEF n, again
    <3> QED BY <2>4, <2>5
  <2> QED BY <1>n, <2>1, <2>2, <2>6, OneComesCloser
<1> QED BY <1>1, <1>2, <1>3, <1>5, <1>6, <1>7, <1>8, <1>9, <1>10
\* What others do to a transaction's history takes it no further and no less far.
LEMMA HistoryIsNoWay ==
  ASSUME Inv, NEW u \in Txs, NEW new \in Tx, TxInv(new),
         new.step = txs[u].step, new.kind = txs[u].kind,
         new.sent = txs[u].sent, new.retried = txs[u].retried
  PROVE  ToGo(new) = ToGo(txs[u])
<1>1. txs[u] \in Tx /\ TxInv(txs[u])
  BY DEF Inv, TransactionsTypeOK
<1>2. New.step = "new" /\ Done.step = "done"
  BY DEF New, Done
<1>3. CASE new.step = "new"
  BY <1>1, <1>2, <1>3, HowFar
<1>4. CASE new.step # "new"
  BY <1>1, <1>2, <1>4 DEF ToGo
<1> QED BY <1>3, <1>4

(***************************************************************************)
(* So no more than seven steps are taken for any transaction, and with     *)
(* OneCanGoOn there is one to take until all that were begun have ended:   *)
(* TransactionsEnd needs no more than that some of them are taken.         *)
(***************************************************************************)
THEOREM EachStepComesCloser == TransactionsSpec => StepsComeCloser
<1> DEFINE Closer == /\ \A t \in Txs : ToGo(txs'[t]) <= ToGo(txs[t])
                     /\ GoesOn => \E t \in Txs : ToGo(txs'[t]) < ToGo(txs[t])
<1>1. ASSUME Inv, [TransactionsNext]_transactionVars PROVE Closer
  <2>i. Inv'
    BY <1>1, InvStep
  <2>t. /\ txs \in [Txs -> Tx] /\ txs' \in [Txs -> Tx]
        /\ \A u \in Txs : /\ TxInv(txs[u]) /\ TxInv(txs'[u])
                          /\ ToGo(txs[u]) \in 0..7 /\ ToGo(txs'[u]) \in 0..7
    BY <1>1, <2>i, HowFar DEF Inv, TransactionsTypeOK
  <2>1. ASSUME NEW t \in Txs, Commit(t)
        PROVE  /\ \A u \in Txs : ToGo(txs'[u]) <= ToGo(txs[u])
               /\ ToGo(txs'[t]) < ToGo(txs[t])
    <3>1. txs' = [u \in Txs |->
               IF u = t THEN Done
               ELSE [txs[u] EXCEPT !.asked = @ \/ (txs[t].kind = "ask" /\ txs[u].settled)]]
      BY <2>1 DEF Commit
    <3>2. ToGo(txs'[t]) < ToGo(txs[t])
      <4>1. txs[t].step = "on" /\ Done.step = "done" /\ Done # New
        BY <2>1 DEF Commit, AllSent, On, Done, New
      <4>2. ToGo(Done) = 0 /\ ToGo(txs[t]) > 0
        BY <2>t, <4>1, HowFar DEF ToGo
      <4> QED BY <3>1, <4>2
    <3>3. ASSUME NEW u \in Txs, u # t PROVE ToGo(txs'[u]) = ToGo(txs[u])
      <4> DEFINE now == txs[u].asked \/ (txs[t].kind = "ask" /\ txs[u].settled)
      <4>1. txs'[u] = [txs[u] EXCEPT !.asked = now]
        BY <3>1, <3>3
      <4> HIDE DEF now
      <4>2. /\ txs'[u].step = txs[u].step /\ txs'[u].kind = txs[u].kind
            /\ txs'[u].sent = txs[u].sent /\ txs'[u].retried = txs[u].retried
        BY <2>t, <4>1 DEF Tx
      <4> QED BY <1>1, <2>t, <4>2, HistoryIsNoWay
    <3> QED BY <2>t, <3>2, <3>3
  <2>2. ASSUME Deregister PROVE \A u \in Txs : ToGo(txs'[u]) = ToGo(txs[u])
    <3>1. ASSUME NEW u \in Txs PROVE ToGo(txs'[u]) = ToGo(txs[u])
      <4> DEFINE now == txs[u].left \/ txs[u].took
      <4>1. txs'[u] = [txs[u] EXCEPT !.left = now]
        BY <2>2 DEF Deregister
      <4> HIDE DEF now
      <4>2. /\ txs'[u].step = txs[u].step /\ txs'[u].kind = txs[u].kind
            /\ txs'[u].sent = txs[u].sent /\ txs'[u].retried = txs[u].retried
        BY <2>t, <4>1 DEF Tx
      <4> QED BY <1>1, <2>t, <4>2, HistoryIsNoWay
    <3> QED BY <3>1
  <2>3. ASSUME NEW t \in Txs, \/ Step(t) /\ ~Commit(t)
                              \/ On(t) /\ Rollback(t)
                              \/ \E k \in Kinds : Begin(t, k)
        PROVE  /\ \A u \in Txs : ToGo(txs'[u]) <= ToGo(txs[u])
               /\ \E u \in Txs : ToGo(txs'[u]) < ToGo(txs[u])
    BY <1>1, <2>3, StatementsComeCloser DEF Step
  <2>4. DetectDeadlock => \E t \in Txs : On(t) /\ Rollback(t)
    BY DEF DetectDeadlock, Deadlocked, WaitsFor, WaitsForRequest, Sends
  <2>5. CASE GoesOn
    <3>1. \/ \E t \in Txs : Commit(t)
          \/ \E t \in Txs : (Step(t) /\ ~Commit(t)) \/ (On(t) /\ Rollback(t))
      BY <2>4, <2>5 DEF GoesOn
    <3>2. CASE \E t \in Txs : Commit(t)
      BY <2>1, <3>2
    <3>3. CASE \E t \in Txs : (Step(t) /\ ~Commit(t)) \/ (On(t) /\ Rollback(t))
      BY <2>3, <3>3
    <3> QED BY <3>1, <3>2, <3>3
  <2>6. CASE ~GoesOn
    <3>1. txs' = txs => Closer
      BY <2>t, <2>6
    <3> QED
      BY <1>1, <2>2, <2>3, <2>t, <2>6, <3>1
      DEF TransactionsNext, GoesOn, Fails, AssignGroup, transactionVars
  <2> QED BY <2>5, <2>6
<1>2. Inv /\ [TransactionsNext]_transactionVars => [Closer]_transactionVars
  BY <1>1
<1> QED BY <1>2, InvInvariant, PTL DEF TransactionsSpec, StepsComeCloser
=============================================================================
