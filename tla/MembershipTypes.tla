--------------------------- MODULE MembershipTypes -------------------------
(***************************************************************************)
(* Type correctness of Membership, for any actors, groups, kinds, calls    *)
(* and bounds.                                                             *)
(***************************************************************************)
EXTENDS Membership, TLAPS

(***************************************************************************)
(* Settling a pair's request (settlePendingJoinRequest) leaves a table of  *)
(* requests.                                                               *)
(***************************************************************************)
LEMMA SettleType ==
  ASSUME RegistrationsTypeOK, NEW p \in Pairs
  PROVE  SettlePendingJoinRequest(p) \in [Pairs -> RequestRow]
BY DEF RegistrationsTypeOK, SettlePendingJoinRequest, RequestRow, RequestStates

(***************************************************************************)
(* Assigning, deregistering, granting and ending seats keep the types of   *)
(* the shared rows.                                                        *)
(***************************************************************************)
LEMMA RegistrationsKeepType ==
  ASSUME RegistrationsTypeOK, RegistrationsNext
  PROVE  RegistrationsTypeOK'
<1>1. CASE \E p \in Pairs : AssignGroup(p) \/ Deregister(p)
  BY <1>1 DEF RegistrationsTypeOK, AssignGroup, Deregister, Register
<1>2. CASE \E s \in Grantable : GrantSeat(s) \/ EndSeat(s)
  BY <1>2, KindsAssumption DEF RegistrationsTypeOK, GrantSeat, EndSeat
<1> QED BY <1>1, <1>2 DEF RegistrationsNext

(***************************************************************************)
(* A join call that moves on to a step, having read a request, is a call;  *)
(* so is one that returns (the slots askToJoin's statements are kept in).  *)
(***************************************************************************)
LEMMA JoinCallType ==
  ASSUME NEW call \in JoinCall, NEW seen \in RequestRow, NEW retried \in BOOLEAN,
         NEW step \in {"outsider", "member", "register", "find", "write"}
  PROVE  /\ [call EXCEPT !.step = step] \in JoinCall
         /\ [call EXCEPT !.step = step, !.seen = seen] \in JoinCall
         /\ [call EXCEPT !.step = step, !.retried = retried] \in JoinCall
BY DEF JoinCall

(***************************************************************************)
(* Every step of a join in flight keeps the types of the rows it touches.  *)
(***************************************************************************)
LEMMA JoinStepKeepsType ==
  ASSUME RegistrationsTypeOK, JoiningTypeOK, NEW c \in JoinCalls, JoinStep(c)
  PROVE  RegistrationsTypeOK' /\ JoiningTypeOK'
<1>c. joins[c] \in JoinCall
  <2>1. joins[c].step # "idle"
    BY DEF JoinStep, RefuseOutsider, FindAssignment, JoinOpen, FindJoinRequest,
      InsertJoinRequest, AskAgain
  <2> QED BY <2>1 DEF JoiningTypeOK, Idle
<1>p. joins[c].pair \in Pairs /\ joins[c].seen \in RequestRow
  BY <1>c DEF JoinCall
<1>r. JoinReturns(c) => joins' \in [JoinCalls -> JoinCall \cup {Idle}]
  BY DEF JoiningTypeOK, JoinReturns
<1>g. ASSUME NEW step \in {"outsider", "member", "register", "find", "write"},
             GoTo(c, step)
      PROVE  joins' \in [JoinCalls -> JoinCall \cup {Idle}]
  <2>1. [joins[c] EXCEPT !.step = step] \in JoinCall
    BY <1>c, <1>p, JoinCallType
  <2> QED BY <1>g, <2>1 DEF JoiningTypeOK, GoTo
<1>1. CASE RefuseOutsider(c)
  BY <1>1, <1>r, <1>g DEF RefuseOutsider, JoiningTypeOK, RegistrationsTypeOK
<1>2. CASE FindAssignment(c)
  BY <1>2, <1>r, <1>g DEF FindAssignment, JoiningTypeOK, RegistrationsTypeOK
<1>3. CASE JoinOpen(c)
  BY <1>3, <1>p, <1>r, SettleType
  DEF JoinOpen, Register, JoiningTypeOK, RegistrationsTypeOK
<1>4. CASE FindJoinRequest(c)
  <2>1. request[joins[c].pair] \in RequestRow
    BY <1>p DEF RegistrationsTypeOK
  <2>2. [joins[c] EXCEPT !.step = "write", !.seen = request[joins[c].pair]] \in JoinCall
    BY <1>c, <2>1, JoinCallType
  <2> QED BY <1>4, <2>2 DEF FindJoinRequest, JoiningTypeOK, RegistrationsTypeOK
<1>5. CASE InsertJoinRequest(c)
  <2>1. joins' \in [JoinCalls -> JoinCall \cup {Idle}]
    <3>1. [joins[c] EXCEPT !.step = "find", !.retried = TRUE] \in JoinCall
      BY <1>c, <1>p, JoinCallType
    <3> QED BY <1>5, <1>r, <3>1 DEF InsertJoinRequest, LostInsertOfAsk, JoiningTypeOK
  <2>2. FirstAsk \in RequestRow
    BY DEF FirstAsk, NoRequest, RequestRow, RequestStates
  <2>3. CASE request[joins[c].pair].state = "none"
    <3>1. /\ request' = [request EXCEPT ![joins[c].pair] = FirstAsk]
          /\ asks' = [asks EXCEPT ![joins[c].pair] = @ + 1]
          /\ UNCHANGED <<registered, seats, open, hidden, decisions, decides>>
      BY <1>5, <2>3 DEF InsertJoinRequest
    <3>2. request' \in [Pairs -> RequestRow]
      BY <2>2, <3>1 DEF RegistrationsTypeOK
    <3>3. asks' \in [Pairs -> Nat]
      <4>1. asks[joins[c].pair] + 1 \in Nat
        BY <1>p DEF JoiningTypeOK
      <4> QED BY <3>1, <4>1 DEF JoiningTypeOK
    <3> QED BY <2>1, <3>1, <3>2, <3>3 DEF JoiningTypeOK, RegistrationsTypeOK
  <2>4. CASE request[joins[c].pair].state # "none"
    BY <1>5, <2>1, <2>4 DEF InsertJoinRequest, JoiningTypeOK, RegistrationsTypeOK
  <2> QED BY <2>3, <2>4
<1>6. CASE AskAgain(c)
  <2>1. AskedAgain(joins[c].seen) \in RequestRow
    BY <1>p DEF AskedAgain, RequestRow, RequestStates
  <2> QED BY <1>6, <1>p, <1>r, <2>1 DEF AskAgain, JoiningTypeOK, RegistrationsTypeOK
<1> QED BY <1>1, <1>2, <1>3, <1>4, <1>5, <1>6 DEF JoinStep

(***************************************************************************)
(* JoinGroup, Decide, the decision's transaction and the two settings keep *)
(* the types; with the lemma above, so does every step of Joining.         *)
(***************************************************************************)
LEMMA JoiningKeepsType ==
  ASSUME RegistrationsTypeOK, JoiningTypeOK, JoiningNext
  PROVE  RegistrationsTypeOK' /\ JoiningTypeOK'
<1>1. ASSUME NEW c \in JoinCalls, NEW p \in Pairs, NEW reachedByCode \in BOOLEAN,
             JoinGroup(c, p, reachedByCode)
      PROVE  RegistrationsTypeOK' /\ JoiningTypeOK'
  <2>1. [step |-> "outsider", pair |-> p, open |-> open[p[2]], seen |-> NoRequest,
         retried |-> FALSE] \in JoinCall
    BY DEF JoiningTypeOK, JoinCall, NoRequest, RequestRow, RequestStates, Pairs
  <2> QED BY <1>1, <2>1 DEF JoinGroup, JoiningTypeOK, RegistrationsTypeOK
<1>2. ASSUME NEW d \in DecideCalls, NEW p \in Pairs, NEW by \in Deciders,
             NEW state \in {"approved", "declined"}, NEW silent \in BOOLEAN,
             Decide(d, p, by, state, silent)
      PROVE  RegistrationsTypeOK' /\ JoiningTypeOK'
  <2>1. [step |-> "write", pair |-> p, by |-> by, state |-> state, silent |-> silent]
          \in DecideCall
    BY DEF DecideCall
  <2> QED BY <1>2, <2>1 DEF Decide, JoiningTypeOK, RegistrationsTypeOK
<1>3. ASSUME NEW d \in DecideCalls, DecidePending(d)
      PROVE  RegistrationsTypeOK' /\ JoiningTypeOK'
  <2>1. decides[d] \in DecideCall
    BY <1>3 DEF DecidePending, JoiningTypeOK, Idle
  <2>2. /\ decides[d].pair \in Pairs
        /\ decides[d].by \in Deciders
        /\ decides[d].state \in {"approved", "declined"}
        /\ decides[d].silent \in BOOLEAN
    BY <2>1 DEF DecideCall
  <2>3. registered' \subseteq Pairs
    BY <1>3, <2>2 DEF DecidePending, RegisterApproved, Register, RegistrationsTypeOK
  <2>4. request' \in [Pairs -> RequestRow]
    BY <1>3, <2>2 DEF DecidePending, RegistrationsTypeOK, RequestRow, RequestStates
  <2>5. decisions' \in [Pairs -> Seq(Decision)]
    <3>1. RecordDecision(d) \in Decision
      BY <2>2 DEF RecordDecision, Decision
    <3>2. Append(decisions[decides[d].pair], RecordDecision(d)) \in Seq(Decision)
      BY <2>2, <3>1 DEF JoiningTypeOK
    <3> QED BY <1>3, <3>2 DEF DecidePending, JoiningTypeOK
  <2> QED BY <1>3, <2>3, <2>4, <2>5 DEF DecidePending, JoiningTypeOK, RegistrationsTypeOK
<1>4. ASSUME NEW d \in DecideCalls, DecideRefused(d)
      PROVE  RegistrationsTypeOK' /\ JoiningTypeOK'
  BY <1>4 DEF DecideRefused, JoiningTypeOK, RegistrationsTypeOK
<1>5. ASSUME NEW g \in Reconfigured, SetGroupJoinMode(g) \/ SetGroupHidden(g)
      PROVE  RegistrationsTypeOK' /\ JoiningTypeOK'
  BY <1>5, JoinBoundsAssumption
  DEF SetGroupJoinMode, SetGroupHidden, JoiningTypeOK, RegistrationsTypeOK
<1> QED BY <1>1, <1>2, <1>3, <1>4, <1>5, JoinStepKeepsType DEF JoiningNext, DecideStep

-----------------------------------------------------------------------------
(***************************************************************************)
(* SendInvitationBatch never looks at a row that is not there: a batch     *)
(* being checked has rows left to check, one being sent has ready rows.    *)
(***************************************************************************)
RowsLeft ==
  \A b \in BatchCalls :
    /\ batches[b].step = "check" => batches[b].rows # << >>
    /\ batches[b].step \in {"outsider", "open", "find", "write"} => batches[b].ready # << >>

(***************************************************************************)
(* Every invitation issued now is a row of the table (issueInvitation).    *)
(***************************************************************************)
LEMMA IssuedType ==
  ASSUME InvitingTypeOK, NEW by \in Officers, NEW life \in Lifetimes
  PROVE  Issued(by, clock, life) \in InvitationRow
<1>1. clock + life \in Nat
  BY InviteBoundsAssumption DEF InvitingTypeOK
<1> QED BY <1>1 DEF Issued, InvitationRow, Times, Unset

(***************************************************************************)
(* Every step of an InviteToGroup call keeps the types.                    *)
(***************************************************************************)
LEMMA InviteStepKeepsType ==
  ASSUME InvitingTypeOK, NEW i \in InviteCalls, InviteStep(i)
  PROVE  InvitingTypeOK'
<1>c. invites[i] \in InviteCall
  <2>1. invites[i].step # "idle"
    BY DEF InviteStep, InviteRefuseOutsider, InviteFindAssignment, InviteFind, InviteWrite
  <2> QED BY <2>1 DEF InvitingTypeOK, Idle
<1>f. /\ invites[i].pair \in Pairs
      /\ invites[i].issue \in InvitationRow
  BY <1>c DEF InviteCall
<1>r. InviteReturns(i) => invites' \in [InviteCalls -> InviteCall \cup {Idle}]
  BY DEF InvitingTypeOK, InviteReturns
<1>g. \A step \in {"member", "find", "write"}, found, retried \in BOOLEAN :
        /\ [invites[i] EXCEPT !.step = step] \in InviteCall
        /\ [invites[i] EXCEPT !.step = step, !.found = found] \in InviteCall
        /\ [invites[i] EXCEPT !.step = step, !.retried = retried] \in InviteCall
  BY <1>c DEF InviteCall
<1>1. CASE InviteRefuseOutsider(i)
  BY <1>1, <1>r, <1>g DEF InviteRefuseOutsider, InvitingTypeOK
<1>2. CASE InviteFindAssignment(i)
  BY <1>2, <1>r, <1>g DEF InviteFindAssignment, InvitingTypeOK
<1>3. CASE InviteFind(i)
  BY <1>3, <1>g DEF InviteFind, InvitingTypeOK
<1>4. CASE InviteWrite(i)
  BY <1>4, <1>f, <1>r, <1>g DEF InviteWrite, InviteLost, InvitingTypeOK
<1> QED BY <1>1, <1>2, <1>3, <1>4 DEF InviteStep

(***************************************************************************)
(* Every step of an answer keeps the types.                                *)
(***************************************************************************)
LEMMA AnswerStepKeepsType ==
  ASSUME RegistrationsTypeOK, InvitingTypeOK, NEW x \in AnswerCalls, AnswerStep(x)
  PROVE  RegistrationsTypeOK' /\ InvitingTypeOK'
<1>c. answers[x] \in AnswerCall
  <2>1. answers[x].step # "idle"
    BY DEF AnswerStep, AnswerRefuseOutsider, JudgeAnswer, AnswerOpen, AnswerRefused
  <2> QED BY <2>1 DEF InvitingTypeOK, Idle
<1>f. /\ answers[x].pair \in Pairs
      /\ answers[x].state \in {"accepted", "declined"}
      /\ answers[x].at \in Times
  BY <1>c DEF AnswerCall
<1>r. AnswerReturns(x) => answers' \in [AnswerCalls -> AnswerCall \cup {Idle}]
  BY DEF InvitingTypeOK, AnswerReturns
<1>1. CASE AnswerRefuseOutsider(x)
  <2>1. [answers[x] EXCEPT !.step = "judge"] \in AnswerCall
    BY <1>c DEF AnswerCall
  <2> QED BY <1>1, <1>r, <2>1 DEF AnswerRefuseOutsider, InvitingTypeOK, RegistrationsTypeOK
<1>2. CASE JudgeAnswer(x)
  <2>1. [answers[x] EXCEPT !.step = "write", !.at = clock] \in AnswerCall
    BY <1>c DEF AnswerCall, InvitingTypeOK, Times
  <2> QED BY <1>2, <1>r, <2>1 DEF JudgeAnswer, InvitingTypeOK, RegistrationsTypeOK
<1>3. CASE AnswerOpen(x)
  <2>1. invitation' \in [Pairs -> InvitationRow]
    <3>1. [invitation[answers[x].pair] EXCEPT !.state = answers[x].state,
             !.answered = answers[x].at] \in InvitationRow
      BY <1>f DEF InvitingTypeOK, InvitationRow
    <3> QED BY <1>3, <3>1 DEF AnswerOpen, InvitingTypeOK
  <2>2. registered' \subseteq Pairs /\ request' \in [Pairs -> RequestRow]
    BY <1>3, <1>f, SettleType DEF AnswerOpen, Register, RegistrationsTypeOK
  <2> QED BY <1>3, <1>r, <2>1, <2>2 DEF AnswerOpen, InvitingTypeOK, RegistrationsTypeOK
<1>4. CASE AnswerRefused(x)
  BY <1>4, <1>r DEF AnswerRefused, InvitingTypeOK, RegistrationsTypeOK
<1> QED BY <1>1, <1>2, <1>3, <1>4 DEF AnswerStep

(***************************************************************************)
(* A batch that goes on to its next ready row is a batch in flight with a  *)
(* row to send, or has returned (SendInvitationBatch's loop).              *)
(***************************************************************************)
LEMMA AtRowType ==
  ASSUME NEW call \in BatchCall, NEW ready \in Seq(Pairs)
  PROVE  /\ AtRow(call, ready) \in BatchCall \cup {Idle}
         /\ AtRow(call, ready).step # "check"
         /\ AtRow(call, ready).step \in {"outsider", "open", "find", "write"} =>
              AtRow(call, ready).ready # << >>
<1>1. CASE ready = << >>
  BY <1>1 DEF AtRow, Idle
<1>2. CASE ready # << >>
  <2>1. NoInvitation \in InvitationRow
    BY DEF NoInvitation, InvitationRow, Times, Unset
  <2> DEFINE next == [call EXCEPT !.step = "outsider", !.ready = ready,
                        !.issue = NoInvitation, !.found = FALSE, !.retried = FALSE]
  <2>2. next \in BatchCall /\ next.step = "outsider" /\ next.ready = ready
    BY <2>1 DEF BatchCall
  <2> QED BY <1>2, <2>2 DEF AtRow
<1> QED BY <1>1, <1>2

(***************************************************************************)
(* Every step of a batch keeps the types and never runs out of rows.       *)
(***************************************************************************)
LEMMA BatchStepKeepsType ==
  ASSUME InvitingTypeOK, RowsLeft, NEW b \in BatchCalls, BatchStep(b)
  PROVE  InvitingTypeOK' /\ RowsLeft'
<1> DEFINE Fits(call) ==
      /\ call \in BatchCall \cup {Idle}
      /\ call.step = "check" => call.rows # << >>
      /\ call.step \in {"outsider", "open", "find", "write"} => call.ready # << >>
<1>c. batches[b] \in BatchCall
  <2>1. batches[b].step # "idle"
    BY DEF BatchStep, CheckBatchRow, BatchRefuseOutsider, BatchFindOpen, BatchFind, BatchWrite
  <2> QED BY <2>1 DEF InvitingTypeOK, Idle
<1>f. /\ batches[b].rows \in Seq(Pairs)
      /\ batches[b].ready \in Seq(Pairs)
      /\ batches[b].by \in Officers
      /\ batches[b].issue \in InvitationRow
  BY <1>c DEF BatchCall
<1>s. ASSUME NEW call, Fits(call), batches' = [batches EXCEPT ![b] = call],
             UNCHANGED <<clock, invites, answers>>,
             invitation' \in [Pairs -> InvitationRow]
      PROVE  InvitingTypeOK' /\ RowsLeft'
  <2>1. batches' \in [BatchCalls -> BatchCall \cup {Idle}]
    BY <1>s DEF InvitingTypeOK
  <2>2. RowsLeft'
    BY <1>s DEF RowsLeft, InvitingTypeOK
  <2> QED BY <1>s, <2>1, <2>2 DEF InvitingTypeOK
<1>n. batches[b].ready # << >> => Fits(AtRow(batches[b], Tail(batches[b].ready)))
  <2> SUFFICES ASSUME batches[b].ready # << >>
               PROVE  Fits(AtRow(batches[b], Tail(batches[b].ready)))
    OBVIOUS
  <2>1. Tail(batches[b].ready) \in Seq(Pairs)
    BY <1>f
  <2> QED BY <2>1, <1>c, AtRowType
<1>i. Fits(Idle)
  BY DEF Idle
<1>e. ASSUME batches[b].ready # << >>
      PROVE  /\ Fits([batches[b] EXCEPT !.step = "open"])
             /\ \A issue \in InvitationRow :
                  Fits([batches[b] EXCEPT !.step = "find", !.issue = issue])
             /\ \A found \in BOOLEAN :
                  Fits([batches[b] EXCEPT !.step = "write", !.found = found])
             /\ Fits([batches[b] EXCEPT !.step = "find", !.retried = TRUE])
  BY <1>c, <1>e DEF BatchCall
<1>1. CASE CheckBatchRow(b)
  <2> DEFINE rest  == Tail(batches[b].rows)
             ready == IF Head(batches[b].rows) \in registered
                      THEN batches[b].ready
                      ELSE Append(batches[b].ready, Head(batches[b].rows))
  <2>1. batches[b].rows # << >>
    BY <1>1 DEF CheckBatchRow, RowsLeft
  <2>2. rest \in Seq(Pairs) /\ Head(batches[b].rows) \in Pairs
    BY <1>f, <2>1
  <2>3. ready \in Seq(Pairs)
    BY <1>f, <2>2
  <2>4. Fits(AtRow([batches[b] EXCEPT !.rows = << >>], ready))
    <3>1. [batches[b] EXCEPT !.rows = << >>] \in BatchCall
      <4>1. << >> \in Seq(Pairs)
        OBVIOUS
      <4> QED BY <1>c, <4>1 DEF BatchCall
    <3> QED BY <2>3, <3>1, AtRowType
  <2>5. rest # << >> => Fits([batches[b] EXCEPT !.rows = Tail(@), !.ready = ready])
    BY <1>1, <1>c, <2>2, <2>3 DEF BatchCall, CheckBatchRow
  <2>6. CASE rest = << >>
    BY <1>1, <1>s, <2>4, <2>6 DEF CheckBatchRow, InvitingTypeOK
  <2>7. CASE rest # << >>
    BY <1>1, <1>s, <2>5, <2>7 DEF CheckBatchRow, InvitingTypeOK
  <2> QED BY <2>6, <2>7
<1>2. CASE BatchRefuseOutsider(b)
  <2>1. batches[b].ready # << >>
    BY <1>2 DEF BatchRefuseOutsider, RowsLeft
  <2>2. batches' = [batches EXCEPT ![b] = AtRow(@, Tail(@.ready))] \/
        batches' = [batches EXCEPT ![b] = [@ EXCEPT !.step = "open"]]
    BY <1>2 DEF BatchRefuseOutsider, NextRow
  <2> QED BY <1>2, <1>s, <1>n, <1>e, <2>1, <2>2 DEF BatchRefuseOutsider, InvitingTypeOK
<1>3. ASSUME NEW life \in Lifetimes, BatchFindOpen(b, life)
      PROVE  InvitingTypeOK' /\ RowsLeft'
  <2>1. batches[b].ready # << >>
    BY <1>3 DEF BatchFindOpen, RowsLeft
  <2>2. Issued(batches[b].by, clock, life) \in InvitationRow
    BY <1>f, IssuedType
  <2>3. Fits([batches[b] EXCEPT !.step = "find", !.issue = Issued(batches[b].by, clock, life)])
    BY <1>e, <2>1, <2>2
  <2> QED BY <1>3, <1>s, <1>n, <2>1, <2>3 DEF BatchFindOpen, NextRow, InvitingTypeOK
<1>4. CASE BatchFind(b)
  <2>1. batches[b].ready # << >>
    BY <1>4 DEF BatchFind, RowsLeft
  <2>2. \E found \in BOOLEAN :
          batches' = [batches EXCEPT ![b] = [@ EXCEPT !.step = "write", !.found = found]]
    BY <1>4 DEF BatchFind
  <2> QED BY <1>4, <1>s, <1>e, <2>1, <2>2 DEF BatchFind, InvitingTypeOK
<1>5. CASE BatchWrite(b)
  <2>1. batches[b].ready # << >> /\ Head(batches[b].ready) \in Pairs
    BY <1>5, <1>f DEF BatchWrite, RowsLeft
  <2>2. CASE LostInsert(batches[b], Head(batches[b].ready))
    <3>1. \/ batches' = [batches EXCEPT ![b] = Idle]
          \/ batches' = [batches EXCEPT ![b] = [@ EXCEPT !.step = "find", !.retried = TRUE]]
      BY <1>5, <2>2 DEF BatchWrite, BatchLost
    <3> QED BY <1>5, <1>s, <1>e, <1>i, <2>1, <2>2, <3>1 DEF BatchWrite, InvitingTypeOK
  <2>3. CASE ~LostInsert(batches[b], Head(batches[b].ready))
    BY <1>5, <1>f, <1>s, <1>n, <2>1, <2>3 DEF BatchWrite, NextRow, InvitingTypeOK
  <2> QED BY <2>2, <2>3
<1> QED BY <1>1, <1>2, <1>3, <1>4, <1>5 DEF BatchStep

(***************************************************************************)
(* InviteToGroup, SendInvitationBatch, AnswerInvitation and the clock keep *)
(* the types; with the lemmas above, so does every step of Inviting.       *)
(***************************************************************************)
LEMMA InvitingKeepsType ==
  ASSUME RegistrationsTypeOK, InvitingTypeOK, RowsLeft, InvitingNext
  PROVE  RegistrationsTypeOK' /\ InvitingTypeOK' /\ RowsLeft'
<1>r. UNCHANGED <<registered, request, seats>> => RegistrationsTypeOK'
  BY DEF RegistrationsTypeOK
<1>b. UNCHANGED batches => RowsLeft'
  BY DEF RowsLeft
<1>1. ASSUME NEW i \in InviteCalls, InviteStep(i)
      PROVE  RegistrationsTypeOK' /\ InvitingTypeOK' /\ RowsLeft'
  BY <1>1, <1>r, <1>b, InviteStepKeepsType
  DEF InviteStep, InviteRefuseOutsider, InviteFindAssignment, InviteFind, InviteWrite
<1>2. ASSUME NEW i \in InviteCalls, NEW p \in Pairs, NEW by \in Officers,
             NEW life \in Lifetimes, InviteToGroup(i, p, by, life)
      PROVE  RegistrationsTypeOK' /\ InvitingTypeOK' /\ RowsLeft'
  <2>1. [step |-> "outsider", pair |-> p, issue |-> Issued(by, clock, life),
         found |-> FALSE, retried |-> FALSE] \in InviteCall
    BY IssuedType DEF InviteCall
  <2> QED BY <1>2, <1>r, <1>b, <2>1 DEF InviteToGroup, InvitingTypeOK
<1>3. ASSUME NEW b \in BatchCalls, BatchStep(b)
      PROVE  RegistrationsTypeOK' /\ InvitingTypeOK' /\ RowsLeft'
  BY <1>3, <1>r, BatchStepKeepsType
  DEF BatchStep, CheckBatchRow, BatchRefuseOutsider, BatchFindOpen, BatchFind, BatchWrite
<1>4. ASSUME NEW b \in BatchCalls, NEW rows \in BatchLists, NEW by \in Officers,
             SendInvitationBatch(b, rows, by)
      PROVE  RegistrationsTypeOK' /\ InvitingTypeOK' /\ RowsLeft'
  <2> DEFINE call == [step |-> "check", rows |-> rows, ready |-> << >>, by |-> by,
                      issue |-> NoInvitation, found |-> FALSE, retried |-> FALSE]
  <2>1. rows \in Seq(Pairs) /\ rows # << >>
    BY InviteBoundsAssumption DEF BatchLists
  <2>2. NoInvitation \in InvitationRow /\ << >> \in Seq(Pairs)
    BY DEF NoInvitation, InvitationRow, Times, Unset
  <2>3. call \in BatchCall /\ call.step = "check" /\ call.rows = rows
    BY <2>1, <2>2 DEF BatchCall
  <2>4. batches' = [batches EXCEPT ![b] = call]
    BY <1>4 DEF SendInvitationBatch
  <2>5. RowsLeft'
    BY <2>1, <2>3, <2>4 DEF RowsLeft, InvitingTypeOK
  <2> QED BY <1>4, <1>r, <2>3, <2>4, <2>5 DEF SendInvitationBatch, InvitingTypeOK
<1>5. ASSUME NEW x \in AnswerCalls, AnswerStep(x)
      PROVE  RegistrationsTypeOK' /\ InvitingTypeOK' /\ RowsLeft'
  BY <1>5, <1>b, AnswerStepKeepsType
  DEF AnswerStep, AnswerRefuseOutsider, JudgeAnswer, AnswerOpen, AnswerRefused
<1>6. ASSUME NEW x \in AnswerCalls, NEW p \in Pairs, NEW state \in {"accepted", "declined"},
             AnswerInvitation(x, p, state)
      PROVE  RegistrationsTypeOK' /\ InvitingTypeOK' /\ RowsLeft'
  <2>1. [step |-> IF state = "accepted" THEN "outsider" ELSE "judge",
         pair |-> p, state |-> state, seen |-> invitation[p], at |-> Unset] \in AnswerCall
    BY DEF AnswerCall, InvitingTypeOK, Times, Unset
  <2> QED BY <1>6, <1>r, <1>b, <2>1 DEF AnswerInvitation, InvitingTypeOK
<1>7. CASE Tick
  BY <1>7, <1>r, <1>b DEF Tick, InvitingTypeOK
<1> QED BY <1>1, <1>2, <1>3, <1>4, <1>5, <1>6, <1>7 DEF InvitingNext

-----------------------------------------------------------------------------
(***************************************************************************)
(* Type correctness with what it needs: a batch never looks past its rows. *)
(***************************************************************************)
Typed == TypeOK /\ RowsLeft

(***************************************************************************)
(* The empty tables, with any legacy invitations, are typed.               *)
(***************************************************************************)
LEMMA InitTyped == Init => Typed
<1> SUFFICES ASSUME Init PROVE Typed
  OBVIOUS
<1>1. RegistrationsTypeOK
  BY DEF Init, RegistrationsInit, RegistrationsTypeOK, NoRequest, RequestRow, RequestStates
<1>2. JoiningTypeOK
  <2>1. << >> \in Seq(Decision)
    OBVIOUS
  <2> QED BY <2>1 DEF Init, JoiningInit, JoiningTypeOK
<1>3. InvitingTypeOK /\ RowsLeft
  <2>1. NoInvitation \in InvitationRow
    BY DEF NoInvitation, InvitationRow, Times, Unset
  <2>2. \A by \in Officers : LegacyInvitation(by) \in InvitationRow
    BY DEF LegacyInvitation, NoInvitation, InvitationRow, Times, Unset
  <2> QED BY <2>1, <2>2 DEF Init, InvitingInit, InvitingTypeOK, RowsLeft, Idle
<1> QED BY <1>1, <1>2, <1>3 DEF Typed, TypeOK

(***************************************************************************)
(* Every step of every operation keeps the tables typed.                   *)
(***************************************************************************)
LEMMA NextTyped == Typed /\ [Next]_vars => Typed'
<1> SUFFICES ASSUME Typed, [Next]_vars PROVE Typed'
  OBVIOUS
<1> USE DEF Typed, TypeOK
<1>j. UNCHANGED joinVars => JoiningTypeOK'
  BY DEF joinVars, JoiningTypeOK
<1>i. UNCHANGED inviteVars => InvitingTypeOK' /\ RowsLeft'
  BY DEF inviteVars, InvitingTypeOK, RowsLeft
<1>1. CASE RegistrationsNext /\ UNCHANGED <<joinVars, inviteVars>>
  BY <1>1, <1>j, <1>i, RegistrationsKeepType
<1>2. CASE JoiningNext /\ UNCHANGED inviteVars
  BY <1>2, <1>i, JoiningKeepsType
<1>3. CASE InvitingNext /\ UNCHANGED joinVars
  BY <1>3, <1>j, InvitingKeepsType
<1>4. CASE UNCHANGED vars
  BY <1>4, <1>j, <1>i DEF vars, RegistrationsTypeOK
<1> QED BY <1>1, <1>2, <1>3, <1>4 DEF Next

(***************************************************************************)
(* Every row and every call in flight always has its type, and a batch is  *)
(* never asked for a row it does not have (SendInvitationBatch).           *)
(***************************************************************************)
THEOREM TypedAlways == Spec => []Typed
BY InitTyped, NextTyped, PTL DEF Spec

(***************************************************************************)
(* The type invariant of the membership tables and calls.                  *)
(***************************************************************************)
THEOREM TypeCorrect == Spec => []TypeOK
<1>1. Typed => TypeOK
  BY DEF Typed
<1> QED BY <1>1, TypedAlways, PTL
=============================================================================
