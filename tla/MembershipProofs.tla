-------------------------- MODULE MembershipProofs -------------------------
(***************************************************************************)
(* Safety of Membership and of lookups beside it, and that Membership      *)
(* implements Admission, for any actors, groups, kinds, calls and bounds.  *)
(***************************************************************************)
EXTENDS MembershipTypes, FindByCode

(***************************************************************************)
(* Only five steps write a request, a decision record or an ask: an open   *)
(* join, the two writes of askToJoin, decide and an accepted invitation.   *)
(***************************************************************************)
LEMMA RequestWriters ==
  ASSUME [Next]_vars
  PROVE  \/ UNCHANGED <<request, decisions, asks>>
         \/ \E c \in JoinCalls : JoinOpen(c) \/ InsertJoinRequest(c) \/ AskAgain(c)
         \/ \E d \in DecideCalls : DecidePending(d)
         \/ \E x \in AnswerCalls : AnswerOpen(x) /\ UNCHANGED joinVars
<1>1. CASE RegistrationsNext /\ UNCHANGED <<joinVars, inviteVars>>
  BY <1>1 DEF RegistrationsNext, AssignGroup, Deregister, GrantSeat, EndSeat, joinVars
<1>2. CASE JoiningNext
  BY <1>2 DEF JoiningNext, JoinStep, DecideStep, JoinGroup, RefuseOutsider, FindAssignment,
    FindJoinRequest, Decide, DecideRefused, SetGroupJoinMode, SetGroupHidden
<1>3. CASE InvitingNext /\ UNCHANGED joinVars
  BY <1>3 DEF InvitingNext, InviteStep, InviteToGroup, InviteRefuseOutsider,
    InviteFindAssignment, InviteFind, InviteWrite, BatchStep, SendInvitationBatch,
    CheckBatchRow, BatchRefuseOutsider, BatchFindOpen, BatchFind, BatchWrite, AnswerStep,
    AnswerInvitation, AnswerRefuseOutsider, JudgeAnswer, AnswerRefused, Tick, joinVars
<1>4. CASE UNCHANGED vars
  BY <1>4 DEF vars, joinVars
<1> QED BY <1>1, <1>2, <1>3, <1>4 DEF Next

(***************************************************************************)
(* A join, decide or answer call about to write is a whole call.           *)
(***************************************************************************)
LEMMA WritingCalls ==
  ASSUME TypeOK
  PROVE  /\ \A c \in JoinCalls : joins[c].step # "idle" => joins[c] \in JoinCall
         /\ \A d \in DecideCalls : decides[d].step # "idle" => decides[d] \in DecideCall
         /\ \A x \in AnswerCalls : answers[x].step # "idle" => answers[x] \in AnswerCall
BY DEF TypeOK, JoiningTypeOK, InvitingTypeOK, Idle

(***************************************************************************)
(* However decisions, asks, open joins and acceptances interleave, a       *)
(* request is decided at most once for each time it became pending.        *)
(***************************************************************************)
THEOREM DecidedOnce == Spec => []DecidedOncePerAsk
<1> DEFINE Budget(p) == Len(decisions[p]) + (IF Pending(p) THEN 1 ELSE 0) <= asks[p]
<1>1. Init => DecidedOncePerAsk
  BY DEF Init, RegistrationsInit, JoiningInit, NoRequest, Pending, DecidedOncePerAsk
<1>2. TypeOK /\ DecidedOncePerAsk /\ [Next]_vars => DecidedOncePerAsk'
  <2> SUFFICES ASSUME TypeOK, DecidedOncePerAsk, [Next]_vars, NEW p \in Pairs
               PROVE  Budget(p)'
    BY DEF DecidedOncePerAsk
  <2>b. Len(decisions[p]) \in Nat /\ asks[p] \in Nat
    BY DEF TypeOK, JoiningTypeOK
  <2>c. /\ Len(decisions[p]) <= asks[p]
        /\ Pending(p) => Len(decisions[p]) + 1 <= asks[p]
    <3>0. Budget(p)
      BY DEF DecidedOncePerAsk
    <3>1. CASE Pending(p)
      BY <2>b, <3>0, <3>1
    <3>2. CASE ~Pending(p)
      BY <2>b, <3>0, <3>2
    <3> QED BY <3>1, <3>2
  <2>t. ASSUME Len(decisions'[p]) \in Nat, asks'[p] \in Nat,
               Len(decisions'[p]) <= asks'[p],
               Pending(p)' => Len(decisions'[p]) + 1 <= asks'[p]
        PROVE  Budget(p)'
    <3>1. CASE Pending(p)'
      BY <2>t, <3>1
    <3>2. CASE ~Pending(p)'
      BY <2>t, <3>2
    <3> QED BY <3>1, <3>2
  <2> HIDE DEF Budget
  <2>r. request \in [Pairs -> RequestRow] /\ asks \in [Pairs -> Nat]
    BY DEF TypeOK, RegistrationsTypeOK, JoiningTypeOK
  <2>s. ASSUME NEW q \in Pairs, request' = SettlePendingJoinRequest(q),
               UNCHANGED <<decisions, asks>>
        PROVE  Budget(p)'
    <3>1. Pending(p)' => Pending(p)
      BY <2>s, <2>r DEF SettlePendingJoinRequest, Pending, RequestRow
    <3> QED BY <2>s, <2>b, <2>c, <2>t, <3>1
  <2>0. CASE UNCHANGED <<request, decisions, asks>>
    BY <2>0, <2>b, <2>c, <2>t DEF Pending
  <2>1. ASSUME NEW c \in JoinCalls, JoinOpen(c) PROVE Budget(p)'
    <3>1. joins[c].pair \in Pairs
      BY <2>1, WritingCalls DEF JoinOpen, JoinCall
    <3> QED BY <2>1, <2>s, <3>1 DEF JoinOpen
  <2>2. ASSUME NEW c \in JoinCalls, InsertJoinRequest(c) PROVE Budget(p)'
    <3>1. CASE joins[c].pair = p /\ request[p].state = "none"
      <4>1. /\ request' = [request EXCEPT ![p] = FirstAsk]
            /\ asks' = [asks EXCEPT ![p] = @ + 1]
            /\ decisions' = decisions
        BY <2>2, <3>1 DEF InsertJoinRequest
      <4>2. asks'[p] = asks[p] + 1
        BY <4>1, <2>r
      <4> QED BY <2>b, <2>c, <2>t, <4>1, <4>2
    <3>2. CASE ~(joins[c].pair = p /\ request[p].state = "none")
      BY <2>2, <2>b, <2>c, <2>t, <2>r, <3>2 DEF InsertJoinRequest, Pending
    <3> QED BY <3>1, <3>2
  <2>3. ASSUME NEW c \in JoinCalls, AskAgain(c) PROVE Budget(p)'
    <3>1. CASE joins[c].pair = p
      <4>1. asks'[p] = IF Pending(p) THEN asks[p] ELSE asks[p] + 1
        BY <2>3, <2>r, <3>1 DEF AskAgain
      <4>2. decisions' = decisions
        BY <2>3 DEF AskAgain
      <4> QED BY <2>b, <2>c, <2>t, <4>1, <4>2
    <3>2. CASE joins[c].pair # p
      BY <2>3, <2>b, <2>c, <2>t, <2>r, <3>2 DEF AskAgain, Pending
    <3> QED BY <3>1, <3>2
  <2>4. ASSUME NEW d \in DecideCalls, DecidePending(d) PROVE Budget(p)'
    <3>1. CASE decides[d].pair = p
      <4>1. decides[d].state # "pending"
        BY <2>4, WritingCalls DEF DecidePending, DecideCall
      <4>2. Pending(p) /\ ~Pending(p)'
        BY <2>4, <2>r, <3>1, <4>1 DEF DecidePending, StillPending, Pending, RequestRow
      <4>3. decisions'[p] = Append(decisions[p], RecordDecision(d)) /\ asks' = asks
        BY <2>4, <3>1 DEF DecidePending, TypeOK, JoiningTypeOK
      <4>4. RecordDecision(d) \in Decision /\ decisions[p] \in Seq(Decision)
        BY <2>4, WritingCalls DEF DecidePending, DecideCall, RecordDecision, Decision,
          TypeOK, JoiningTypeOK
      <4>5. Len(decisions'[p]) = Len(decisions[p]) + 1
        BY <4>3, <4>4
      <4> QED BY <2>b, <2>c, <2>t, <4>2, <4>3, <4>5
    <3>2. CASE decides[d].pair # p
      BY <2>4, <2>b, <2>c, <2>t, <2>r, <3>2 DEF DecidePending, Pending, TypeOK, JoiningTypeOK
    <3> QED BY <3>1, <3>2
  <2>5. ASSUME NEW x \in AnswerCalls, AnswerOpen(x), UNCHANGED joinVars PROVE Budget(p)'
    <3>1. answers[x].pair \in Pairs
      BY <2>5, WritingCalls DEF AnswerOpen, AnswerCall
    <3>2. CASE answers[x].state = "accepted"
      BY <2>5, <2>s, <3>1, <3>2 DEF AnswerOpen, joinVars
    <3>3. CASE answers[x].state # "accepted"
      BY <2>5, <2>b, <2>c, <2>t, <3>3 DEF AnswerOpen, joinVars, Pending
    <3> QED BY <3>2, <3>3
  <2> QED BY <2>0, <2>1, <2>2, <2>3, <2>4, <2>5, RequestWriters
<1> QED BY <1>1, <1>2, TypeCorrect, PTL DEF Spec

(***************************************************************************)
(* What a request shows of who decided it is the latest record of its      *)
(* decisions, or nobody: the same steps write both (decide), and asking    *)
(* again or settling clears the row (askedAgain, settlePendingJoinRequest).*)
(***************************************************************************)
THEOREM LatestDecision == Spec => []LatestDecisionShown
<1> DEFINE Shown(r, ds) ==
      /\ r.state = "declined" => r.by # Nobody
      /\ r.state \in {"none", "pending"} => r.by = Nobody
      /\ r.by = Nobody => ~r.silent
      /\ r.by # Nobody =>
           /\ ds # << >>
           /\ ds[Len(ds)] = [state |-> r.state, silent |-> r.silent, by |-> r.by]
<1>1. Init => LatestDecisionShown
  BY DEF Init, RegistrationsInit, JoiningInit, NoRequest, LatestDecisionShown
<1>2. TypeOK /\ LatestDecisionShown /\ [Next]_vars => LatestDecisionShown'
  <2> SUFFICES ASSUME TypeOK, LatestDecisionShown, [Next]_vars, NEW p \in Pairs
               PROVE  Shown(request'[p], decisions'[p])
    BY DEF LatestDecisionShown
  <2>b. Shown(request[p], decisions[p])
    BY DEF LatestDecisionShown
  <2>r. request \in [Pairs -> RequestRow]
    BY DEF TypeOK, RegistrationsTypeOK
  <2>c. ASSUME NEW r \in RequestRow, r.state \in {"pending", "approved"}, r.by = Nobody,
               r.silent = FALSE
        PROVE  Shown(r, decisions[p])
    BY <2>c
  <2> HIDE DEF Shown
  <2>s. ASSUME NEW q \in Pairs, request' = SettlePendingJoinRequest(q), decisions' = decisions
        PROVE  Shown(request'[p], decisions'[p])
    <3>1. CASE p = q /\ Pending(p)
      <4>1. request'[p] =
              [request[p] EXCEPT !.state = "approved", !.silent = FALSE, !.by = Nobody]
        BY <2>s, <2>r, <3>1 DEF SettlePendingJoinRequest, Pending
      <4>2. /\ request'[p] \in RequestRow
            /\ request'[p].state = "approved"
            /\ request'[p].by = Nobody
            /\ request'[p].silent = FALSE
        BY <4>1, <2>r DEF RequestRow, RequestStates
      <4> QED BY <2>s, <2>c, <4>2
    <3>2. CASE ~(p = q /\ Pending(p))
      <4>1. request'[p] = request[p]
        BY <2>s, <2>r, <3>2 DEF SettlePendingJoinRequest, Pending
      <4> QED BY <2>s, <2>b, <4>1
    <3> QED BY <3>1, <3>2
  <2>0. CASE UNCHANGED <<request, decisions, asks>>
    BY <2>0, <2>b
  <2>1. ASSUME NEW c \in JoinCalls, JoinOpen(c) PROVE Shown(request'[p], decisions'[p])
    <3>1. joins[c].pair \in Pairs
      BY <2>1, WritingCalls DEF JoinOpen, JoinCall
    <3> QED BY <2>1, <2>s, <3>1 DEF JoinOpen
  <2>2. ASSUME NEW c \in JoinCalls, InsertJoinRequest(c) PROVE Shown(request'[p], decisions'[p])
    <3>1. CASE request'[p] = FirstAsk
      <4>1. /\ FirstAsk \in RequestRow
            /\ FirstAsk.state = "pending"
            /\ FirstAsk.by = Nobody
            /\ FirstAsk.silent = FALSE
        BY DEF FirstAsk, NoRequest, RequestRow, RequestStates
      <4> QED BY <2>2, <2>c, <3>1, <4>1 DEF InsertJoinRequest
    <3>2. CASE request'[p] = request[p]
      BY <2>2, <2>b, <3>2 DEF InsertJoinRequest
    <3> QED BY <2>2, <2>r, <3>1, <3>2 DEF InsertJoinRequest
  <2>3. ASSUME NEW c \in JoinCalls, AskAgain(c) PROVE Shown(request'[p], decisions'[p])
    <3>1. CASE request'[p] = AskedAgain(joins[c].seen)
      <4>0. joins[c].seen \in RequestRow
        BY <2>3, WritingCalls DEF AskAgain, JoinCall
      <4>1. /\ AskedAgain(joins[c].seen) \in RequestRow
            /\ AskedAgain(joins[c].seen).state = "pending"
            /\ AskedAgain(joins[c].seen).by = Nobody
            /\ AskedAgain(joins[c].seen).silent = FALSE
        BY <4>0 DEF AskedAgain, RequestRow, RequestStates
      <4> QED BY <2>3, <2>c, <3>1, <4>1 DEF AskAgain
    <3>2. CASE request'[p] = request[p]
      BY <2>3, <2>b, <3>2 DEF AskAgain
    <3> QED BY <2>3, <2>r, <3>1, <3>2 DEF AskAgain
  <2>4. ASSUME NEW d \in DecideCalls, DecidePending(d) PROVE Shown(request'[p], decisions'[p])
    <3>0. decides[d] \in DecideCall
      BY <2>4, WritingCalls DEF DecidePending
    <3>1. CASE decides[d].pair = p
      <4>1. /\ request'[p].state = decides[d].state
            /\ request'[p].silent = decides[d].silent
            /\ request'[p].by = decides[d].by
        BY <2>4, <2>r, <3>1 DEF DecidePending, RequestRow
      <4>2. decisions'[p] = Append(decisions[p], RecordDecision(d))
        BY <2>4, <3>1 DEF DecidePending, TypeOK, JoiningTypeOK
      <4>3. RecordDecision(d) \in Decision /\ decisions[p] \in Seq(Decision)
        BY <3>0 DEF DecideCall, RecordDecision, Decision, TypeOK, JoiningTypeOK
      <4>4. /\ decisions'[p] # << >>
            /\ decisions'[p][Len(decisions'[p])] = RecordDecision(d)
        BY <4>2, <4>3
      <4>5. decides[d].by # Nobody /\ decides[d].state \in {"approved", "declined"}
        BY <3>0, NobodyAssumption DEF DecideCall
      <4> QED BY <4>1, <4>4, <4>5 DEF Shown, RecordDecision
    <3>2. CASE decides[d].pair # p
      BY <2>4, <2>b, <2>r, <3>2 DEF DecidePending, TypeOK, JoiningTypeOK
    <3> QED BY <3>1, <3>2
  <2>5. ASSUME NEW x \in AnswerCalls, AnswerOpen(x), UNCHANGED joinVars
        PROVE  Shown(request'[p], decisions'[p])
    <3>1. answers[x].pair \in Pairs
      BY <2>5, WritingCalls DEF AnswerOpen, AnswerCall
    <3>2. CASE answers[x].state = "accepted"
      BY <2>5, <2>s, <3>1, <3>2 DEF AnswerOpen, joinVars
    <3>3. CASE answers[x].state # "accepted"
      BY <2>5, <2>b, <3>3 DEF AnswerOpen, joinVars
    <3> QED BY <3>2, <3>3
  <2> QED BY <2>0, <2>1, <2>2, <2>3, <2>4, <2>5, RequestWriters
<1> QED BY <1>1, <1>2, TypeCorrect, PTL DEF Spec

-----------------------------------------------------------------------------
(***************************************************************************)
(* A request row is never taken away: no step of any operation deletes one.*)
(***************************************************************************)
LEMMA RequestStays ==
  ASSUME TypeOK, [Next]_vars, NEW p \in Pairs, request[p].state # "none"
  PROVE  request'[p].state # "none"
<1>r. request \in [Pairs -> RequestRow]
  BY DEF TypeOK, RegistrationsTypeOK
<1>s. ASSUME NEW q \in Pairs, request' = SettlePendingJoinRequest(q)
      PROVE  request'[p].state # "none"
  BY <1>s, <1>r DEF SettlePendingJoinRequest, RequestRow
<1>0. CASE UNCHANGED <<request, decisions, asks>>
  BY <1>0
<1>1. ASSUME NEW c \in JoinCalls, JoinOpen(c) PROVE request'[p].state # "none"
  BY <1>1, <1>s, WritingCalls DEF JoinOpen, JoinCall
<1>2. ASSUME NEW c \in JoinCalls, InsertJoinRequest(c) PROVE request'[p].state # "none"
  BY <1>2, <1>r DEF InsertJoinRequest, FirstAsk, NoRequest
<1>3. ASSUME NEW c \in JoinCalls, AskAgain(c) PROVE request'[p].state # "none"
  <2>1. AskedAgain(joins[c].seen).state # "none"
    BY DEF AskedAgain
  <2> QED BY <1>3, <1>r, <2>1 DEF AskAgain
<1>4. ASSUME NEW d \in DecideCalls, DecidePending(d) PROVE request'[p].state # "none"
  <2>1. decides[d].state # "none"
    BY <1>4, WritingCalls DEF DecidePending, DecideCall
  <2>2. CASE decides[d].pair = p
    BY <1>4, <1>r, <2>1, <2>2 DEF DecidePending, RequestRow
  <2>3. CASE decides[d].pair # p
    BY <1>4, <1>r, <2>3 DEF DecidePending
  <2> QED BY <2>2, <2>3
<1>5. ASSUME NEW x \in AnswerCalls, AnswerOpen(x) PROVE request'[p].state # "none"
  <2>1. answers[x].pair \in Pairs
    BY <1>5, WritingCalls DEF AnswerOpen, AnswerCall
  <2> QED BY <1>5, <1>s, <2>1 DEF AnswerOpen
<1> QED BY <1>0, <1>1, <1>2, <1>3, <1>4, <1>5, RequestWriters

(***************************************************************************)
(* The strengthening of RetryFindsRequest: the row a join lost its insert  *)
(* to is still there.                                                      *)
(***************************************************************************)
LostToARow ==
  \A c \in JoinCalls :
    joins[c].step # "idle" /\ joins[c].retried =>
      /\ request[joins[c].pair].state # "none"
      /\ joins[c].step = "write" => joins[c].seen.state # "none"

(***************************************************************************)
(* Only a join's own steps move it on.                                     *)
(***************************************************************************)
LEMMA JoinMovers ==
  ASSUME [Next]_vars, NEW c \in JoinCalls, joins \in [JoinCalls -> JoinCall \cup {Idle}]
  PROVE  \/ joins'[c] = joins[c]
         \/ joins'[c] = Idle
         \/ joins'[c].retried = FALSE
         \/ JoinStep(c)
<1>1. CASE RegistrationsNext /\ UNCHANGED <<joinVars, inviteVars>>
  BY <1>1 DEF joinVars
<1>2. CASE JoiningNext
  <2>1. ASSUME NEW k \in JoinCalls, JoinStep(k), k # c PROVE joins'[c] = joins[c]
    BY <2>1 DEF JoinStep, RefuseOutsider, FindAssignment, JoinOpen, FindJoinRequest,
      InsertJoinRequest, AskAgain, LostInsertOfAsk, JoinReturns, GoTo
  <2>2. ASSUME NEW k \in JoinCalls, NEW p \in Pairs, NEW reachedByCode \in BOOLEAN,
               JoinGroup(k, p, reachedByCode)
        PROVE  joins'[c] = joins[c] \/ joins'[c].retried = FALSE
    BY <2>2 DEF JoinGroup
  <2>3. ASSUME \/ \E d \in DecideCalls : DecideStep(d)
               \/ \E d \in DecideCalls, p \in Pairs, by \in Deciders,
                     state \in {"approved", "declined"}, silent \in BOOLEAN :
                    Decide(d, p, by, state, silent)
               \/ \E g \in Reconfigured : SetGroupJoinMode(g) \/ SetGroupHidden(g)
        PROVE  joins' = joins
    BY <2>3 DEF DecideStep, DecidePending, DecideRefused, Decide, SetGroupJoinMode,
      SetGroupHidden
  <2> QED BY <1>2, <2>1, <2>2, <2>3 DEF JoiningNext
<1>3. CASE InvitingNext /\ UNCHANGED joinVars
  BY <1>3 DEF joinVars
<1>4. CASE UNCHANGED vars
  BY <1>4 DEF vars, joinVars
<1> QED BY <1>1, <1>2, <1>3, <1>4 DEF Next

(***************************************************************************)
(* A join that lost its insert finds the row the second time it looks, so  *)
(* the one retry of askToJoin always suffices.                             *)
(***************************************************************************)
THEOREM OneRetrySuffices == Spec => []RetryFindsRequest
<1>1. Init => LostToARow
  BY DEF Init, JoiningInit, LostToARow, Idle
<1>2. TypeOK /\ LostToARow /\ [Next]_vars => LostToARow'
  <2> SUFFICES ASSUME TypeOK, LostToARow, [Next]_vars, NEW c \in JoinCalls,
                      joins'[c].step # "idle", joins'[c].retried
               PROVE  /\ request'[joins'[c].pair].state # "none"
                      /\ joins'[c].step = "write" => joins'[c].seen.state # "none"
    BY DEF LostToARow
  <2>t. /\ joins \in [JoinCalls -> JoinCall \cup {Idle}]
        /\ request \in [Pairs -> RequestRow]
    BY DEF TypeOK, JoiningTypeOK, RegistrationsTypeOK
  <2>s. ASSUME joins[c].step # "idle", joins[c].retried
        PROVE  /\ request[joins[c].pair].state # "none"
               /\ request'[joins[c].pair].state # "none"
               /\ joins[c].step = "write" => joins[c].seen.state # "none"
    <3>1. joins[c].pair \in Pairs
      BY <2>s, WritingCalls DEF JoinCall
    <3> QED BY <2>s, <3>1, RequestStays DEF LostToARow
  <2>0. CASE joins'[c] = joins[c]
    BY <2>0, <2>s
  <2>1. CASE joins'[c] = Idle
    BY <2>1 DEF Idle
  <2>2. CASE JoinStep(c)
    <3>c. joins[c] \in JoinCall
      BY <2>2, WritingCalls DEF JoinStep, RefuseOutsider, FindAssignment, JoinOpen,
        FindJoinRequest, InsertJoinRequest, AskAgain
    <3>m. ASSUME NEW step, step # "write", GoTo(c, step)
          PROVE  /\ joins'[c].pair = joins[c].pair
                 /\ joins'[c].retried = joins[c].retried
                 /\ joins'[c].step # "write"
      BY <3>m, <3>c, <2>t DEF GoTo, JoinCall
    <3>r. ~JoinReturns(c)
      BY <2>t DEF JoinReturns, Idle
    <3>i. joins[c].step # "idle"
      BY <3>c DEF JoinCall
    <3>1. CASE RefuseOutsider(c)
      BY <3>1, <3>m, <3>r, <3>i, <2>s DEF RefuseOutsider
    <3>2. CASE FindAssignment(c)
      BY <3>2, <3>m, <3>r, <3>i, <2>s DEF FindAssignment
    <3>3. CASE JoinOpen(c) \/ AskAgain(c)
      BY <3>3, <3>r DEF JoinOpen, AskAgain
    <3>4. CASE FindJoinRequest(c)
      <4>1. /\ joins'[c].pair = joins[c].pair
            /\ joins'[c].retried = joins[c].retried
            /\ joins'[c].seen = request[joins[c].pair]
        BY <3>4, <3>c, <2>t DEF FindJoinRequest, JoinCall
      <4> QED BY <4>1, <3>i, <2>s
    <3>5. CASE InsertJoinRequest(c)
      <4>1. /\ request[joins[c].pair].state # "none"
            /\ joins' = [joins EXCEPT ![c].step = "find", ![c].retried = TRUE]
            /\ request' = request
        BY <3>5, <3>r DEF InsertJoinRequest, LostInsertOfAsk
      <4>2. joins'[c].pair = joins[c].pair /\ joins'[c].step = "find"
        BY <4>1, <3>c, <2>t DEF JoinCall
      <4> QED BY <4>1, <4>2
    <3> QED BY <2>2, <3>1, <3>2, <3>3, <3>4, <3>5 DEF JoinStep
  <2> QED BY <2>0, <2>1, <2>2, <2>t, JoinMovers
<1>3. LostToARow => RetryFindsRequest
  BY DEF LostToARow, RetryFindsRequest
<1> QED BY <1>1, <1>2, <1>3, TypeCorrect, PTL DEF Spec

-----------------------------------------------------------------------------
(* The answers to invitations. *)

(***************************************************************************)
(* What issueInvitation is about to write is a fresh, unanswered offer.    *)
(***************************************************************************)
Fresh(row) == row.state = "pending" /\ row.answered = Unset

IssuesFresh ==
  /\ \A i \in InviteCalls : invites[i].step # "idle" => Fresh(invites[i].issue)
  /\ \A b \in BatchCalls :
       batches[b].step \in {"find", "write"} => Fresh(batches[b].issue)

(***************************************************************************)
(* InviteToGroup and a batch's rows start from a fresh offer and carry it, *)
(* through the retry too, to the write.                                    *)
(***************************************************************************)
LEMMA IssuesStayFresh ==
  ASSUME Typed, IssuesFresh, [Next]_vars
  PROVE  IssuesFresh'
<1>t. /\ invites \in [InviteCalls -> InviteCall \cup {Idle}]
      /\ batches \in [BatchCalls -> BatchCall \cup {Idle}]
  BY DEF Typed, TypeOK, InvitingTypeOK
<1>0. CASE UNCHANGED <<invites, batches>>
  BY <1>0 DEF IssuesFresh, Fresh
<1>1. ASSUME NEW i \in InviteCalls, InviteStep(i) PROVE IssuesFresh'
  <2>1. batches' = batches
    BY <1>1 DEF InviteStep, InviteRefuseOutsider, InviteFindAssignment, InviteFind, InviteWrite
  <2>2. invites[i] \in InviteCall
    BY <1>1, <1>t DEF InviteStep, InviteRefuseOutsider, InviteFindAssignment, InviteFind,
      InviteWrite, Idle
  <2>3. /\ \A j \in InviteCalls \ {i} : invites'[j] = invites[j]
        /\ invites'[i] = Idle \/ invites'[i].issue = invites[i].issue
    BY <1>1, <1>t, <2>2 DEF InviteStep, InviteRefuseOutsider, InviteFindAssignment,
      InviteFind, InviteWrite, InviteLost, InviteReturns, InviteCall
  <2>4. invites[i].step # "idle"
    BY <2>2 DEF InviteCall
  <2> QED BY <2>1, <2>3, <2>4 DEF IssuesFresh, Fresh, Idle
<1>2. ASSUME NEW i \in InviteCalls, NEW p \in Pairs, NEW by \in Officers,
             NEW life \in Lifetimes, InviteToGroup(i, p, by, life)
      PROVE  IssuesFresh'
  BY <1>2, <1>t DEF InviteToGroup, IssuesFresh, Fresh, Issued
<1>3. ASSUME NEW b \in BatchCalls, BatchStep(b) PROVE IssuesFresh'
  <2>1. invites' = invites
    BY <1>3 DEF BatchStep, CheckBatchRow, BatchRefuseOutsider, BatchFindOpen, BatchFind,
      BatchWrite
  <2>2. batches[b] \in BatchCall
    BY <1>3, <1>t DEF BatchStep, CheckBatchRow, BatchRefuseOutsider, BatchFindOpen, BatchFind,
      BatchWrite, Idle
  <2>s. ASSUME NEW call, batches' = [batches EXCEPT ![b] = call],
               call.step \in {"find", "write"} => Fresh(call.issue)
        PROVE  IssuesFresh'
    BY <1>t, <2>1, <2>s DEF IssuesFresh, Fresh
  <2>n. \A call \in BatchCall, ready \in Seq(Pairs) :
          AtRow(call, ready).step \notin {"find", "write"}
    BY DEF AtRow, Idle, BatchCall
  <2>r. batches[b].ready \in Seq(Pairs) /\ batches[b].rows \in Seq(Pairs)
    BY <2>2 DEF BatchCall
  <2>x. ASSUME batches[b].ready # << >>, NextRow(b) PROVE IssuesFresh'
    <3>1. Tail(batches[b].ready) \in Seq(Pairs)
      BY <2>x, <2>r
    <3>2. AtRow(batches[b], Tail(batches[b].ready)).step \notin {"find", "write"}
      BY <3>1, <2>n, <2>2
    <3>3. batches' = [batches EXCEPT ![b] = AtRow(batches[b], Tail(batches[b].ready))]
      BY <2>x DEF NextRow
    <3> QED BY <2>s, <3>2, <3>3
  <2>4. CASE CheckBatchRow(b)
    <3> DEFINE row   == Head(batches[b].rows)
               ready == IF row \in registered THEN batches[b].ready
                                              ELSE Append(batches[b].ready, row)
    <3>1. batches[b].rows # << >>
      BY <2>4 DEF CheckBatchRow, Typed, RowsLeft
    <3>2. ready \in Seq(Pairs)
      BY <3>1, <2>r
    <3>3. [batches[b] EXCEPT !.rows = << >>] \in BatchCall
      <4>1. << >> \in Seq(Pairs)
        OBVIOUS
      <4> QED BY <2>2, <4>1 DEF BatchCall
    <3>4. CASE Tail(batches[b].rows) = << >>
      BY <2>4, <2>s, <2>n, <3>2, <3>3, <3>4 DEF CheckBatchRow
    <3>5. CASE Tail(batches[b].rows) # << >>
      <4>1. [batches[b] EXCEPT !.rows = Tail(@), !.ready = ready].step = "check"
        BY <2>4, <2>2 DEF CheckBatchRow, BatchCall
      <4> QED BY <2>4, <2>s, <3>5, <4>1 DEF CheckBatchRow
    <3> QED BY <3>4, <3>5
  <2>5. CASE BatchRefuseOutsider(b)
    <3>1. [batches[b] EXCEPT !.step = "open"].step = "open"
      BY <2>2 DEF BatchCall
    <3>2. batches[b].ready # << >>
      BY <2>5 DEF BatchRefuseOutsider, Typed, RowsLeft
    <3>3. CASE NextRow(b)
      BY <2>x, <3>2, <3>3
    <3>4. CASE batches' = [batches EXCEPT ![b] = [batches[b] EXCEPT !.step = "open"]]
      BY <2>s, <3>1, <3>4
    <3> QED BY <2>5, <3>3, <3>4 DEF BatchRefuseOutsider
  <2>6. ASSUME NEW life \in Lifetimes, BatchFindOpen(b, life) PROVE IssuesFresh'
    <3> DEFINE issue == Issued(batches[b].by, clock, life)
    <3>1. [batches[b] EXCEPT !.step = "find", !.issue = issue].issue = issue
      BY <2>2 DEF BatchCall
    <3>2. batches[b].ready # << >>
      BY <2>6 DEF BatchFindOpen, Typed, RowsLeft
    <3>3. Fresh(issue)
      BY DEF Fresh, Issued
    <3>4. CASE NextRow(b)
      BY <2>x, <3>2, <3>4
    <3>5. CASE batches' = [batches EXCEPT ![b] =
                 [batches[b] EXCEPT !.step = "find", !.issue = issue]]
      BY <2>s, <3>1, <3>3, <3>5
    <3> QED BY <2>6, <3>4, <3>5 DEF BatchFindOpen
  <2>7. CASE BatchFind(b)
    <3> DEFINE found == invitation[Head(batches[b].ready)].state # "none"
    <3>1. [batches[b] EXCEPT !.step = "write", !.found = found].issue = batches[b].issue
      BY <2>2 DEF BatchCall
    <3>2. Fresh(batches[b].issue)
      BY <2>7 DEF BatchFind, IssuesFresh
    <3>3. batches' = [batches EXCEPT ![b] =
            [batches[b] EXCEPT !.step = "write", !.found = found]]
      BY <2>7 DEF BatchFind
    <3> QED BY <2>s, <3>1, <3>2, <3>3
  <2>8. CASE BatchWrite(b)
    <3>1. [batches[b] EXCEPT !.step = "find", !.retried = TRUE].issue = batches[b].issue
      BY <2>2 DEF BatchCall
    <3>2. Fresh(batches[b].issue)
      BY <2>8 DEF BatchWrite, IssuesFresh
    <3>3. batches[b].ready # << >>
      BY <2>8 DEF BatchWrite, Typed, RowsLeft
    <3>4. CASE NextRow(b)
      BY <2>x, <3>3, <3>4
    <3>5. CASE BatchLost(b)
      <4>1. CASE batches' = [batches EXCEPT ![b] = Idle]
        BY <2>s, <4>1 DEF Idle
      <4>2. CASE batches' = [batches EXCEPT ![b] =
                   [batches[b] EXCEPT !.step = "find", !.retried = TRUE]]
        BY <2>s, <3>1, <3>2, <4>2
      <4> QED BY <3>5, <4>1, <4>2 DEF BatchLost
    <3> QED BY <2>8, <3>4, <3>5 DEF BatchWrite
  <2> QED BY <1>3, <2>4, <2>5, <2>6, <2>7, <2>8 DEF BatchStep
<1>4. ASSUME NEW b \in BatchCalls, NEW rows \in BatchLists, NEW by \in Officers,
             SendInvitationBatch(b, rows, by)
      PROVE  IssuesFresh'
  BY <1>4, <1>t DEF SendInvitationBatch, IssuesFresh, Fresh
<1>5. ASSUME NEW x \in AnswerCalls,
             AnswerStep(x) \/ \E p \in Pairs, state \in {"accepted", "declined"} :
                                AnswerInvitation(x, p, state)
      PROVE  UNCHANGED <<invites, batches>>
  BY <1>5 DEF AnswerStep, AnswerRefuseOutsider, JudgeAnswer, AnswerOpen, AnswerRefused,
    AnswerInvitation
<1>6. InvitingNext => IssuesFresh'
  BY <1>0, <1>1, <1>2, <1>3, <1>4, <1>5 DEF InvitingNext, Tick
<1>7. CASE UNCHANGED inviteVars
  BY <1>0, <1>7 DEF inviteVars
<1> QED BY <1>6, <1>7 DEF Next, vars

(***************************************************************************)
(* Only issuing and answering write an invitation: issueInvitation, single *)
(* or in a batch, leaves the pair's row pending and unanswered.            *)
(***************************************************************************)
LEMMA InvitationWriters ==
  ASSUME Typed, IssuesFresh, [Next]_vars
  PROVE  \/ UNCHANGED invitation
         \/ \E p \in Pairs, row \in InvitationRow :
              Fresh(row) /\ invitation' = [invitation EXCEPT ![p] = row]
         \/ \E x \in AnswerCalls : AnswerOpen(x)
<1>1. CASE RegistrationsNext /\ UNCHANGED <<joinVars, inviteVars>>
  BY <1>1 DEF inviteVars
<1>2. CASE JoiningNext /\ UNCHANGED inviteVars
  BY <1>2 DEF inviteVars
<1>3. ASSUME NEW i \in InviteCalls, InviteStep(i), invitation' # invitation
      PROVE  \E p \in Pairs, row \in InvitationRow :
               Fresh(row) /\ invitation' = [invitation EXCEPT ![p] = row]
  <2>1. InviteWrite(i)
    BY <1>3 DEF InviteStep, InviteRefuseOutsider, InviteFindAssignment, InviteFind
  <2>2. invites[i] \in InviteCall
    BY <2>1 DEF InviteWrite, Typed, TypeOK, InvitingTypeOK, Idle
  <2>3. invitation' = [invitation EXCEPT ![invites[i].pair] = invites[i].issue]
    BY <1>3, <2>1 DEF InviteWrite
  <2>4. invites[i].pair \in Pairs /\ invites[i].issue \in InvitationRow
    BY <2>2 DEF InviteCall
  <2> QED BY <2>1, <2>3, <2>4 DEF IssuesFresh, InviteWrite
<1>4. ASSUME NEW b \in BatchCalls, BatchStep(b), invitation' # invitation
      PROVE  \E p \in Pairs, row \in InvitationRow :
               Fresh(row) /\ invitation' = [invitation EXCEPT ![p] = row]
  <2>1. BatchWrite(b)
    BY <1>4 DEF BatchStep, CheckBatchRow, BatchRefuseOutsider, BatchFindOpen, BatchFind
  <2>2. batches[b] \in BatchCall
    BY <2>1 DEF BatchWrite, Typed, TypeOK, InvitingTypeOK, Idle
  <2>3. invitation' = [invitation EXCEPT ![Head(batches[b].ready)] = batches[b].issue]
    BY <1>4, <2>1 DEF BatchWrite
  <2>4. batches[b].ready \in Seq(Pairs) /\ batches[b].issue \in InvitationRow
    BY <2>2 DEF BatchCall
  <2>5. Head(batches[b].ready) \in Pairs
    BY <2>1, <2>4 DEF BatchWrite, Typed, RowsLeft
  <2> QED BY <2>1, <2>3, <2>4, <2>5 DEF IssuesFresh, BatchWrite
<1>5. CASE InvitingNext
  BY <1>5, <1>3, <1>4 DEF InvitingNext, InviteToGroup, SendInvitationBatch, AnswerStep,
    AnswerRefuseOutsider, JudgeAnswer, AnswerRefused, AnswerInvitation, Tick
<1>6. CASE UNCHANGED vars
  BY <1>6 DEF vars, inviteVars
<1> QED BY <1>1, <1>2, <1>5, <1>6 DEF Next

(***************************************************************************)
(* The offers in flight are always fresh (issueInvitation).                *)
(***************************************************************************)
LEMMA IssuesAlwaysFresh == Spec => []IssuesFresh
<1>1. Init => IssuesFresh
  BY DEF Init, InvitingInit, IssuesFresh, Idle
<1>2. Typed /\ IssuesFresh /\ [Next]_vars => IssuesFresh'
  BY IssuesStayFresh
<1> QED BY <1>1, <1>2, TypedAlways, PTL DEF Spec

(***************************************************************************)
(* An invitation's row is never taken away: it is answered or issued anew. *)
(***************************************************************************)
LEMMA InvitationStays ==
  ASSUME Typed, IssuesFresh, [Next]_vars, NEW p \in Pairs, invitation[p].state # "none"
  PROVE  invitation'[p].state # "none"
<1>t. invitation \in [Pairs -> InvitationRow]
  BY DEF Typed, TypeOK, InvitingTypeOK
<1>1. ASSUME NEW q \in Pairs, NEW row \in InvitationRow, Fresh(row),
             invitation' = [invitation EXCEPT ![q] = row]
      PROVE  invitation'[p].state # "none"
  BY <1>1, <1>t DEF Fresh
<1>2. ASSUME NEW x \in AnswerCalls, AnswerOpen(x)
      PROVE  invitation'[p].state # "none"
  <2>1. answers[x] \in AnswerCall
    BY <1>2, WritingCalls DEF AnswerOpen, Typed
  <2>2. CASE answers[x].pair = p
    <3>1. invitation'[p].state = answers[x].state
      BY <1>2, <1>t, <2>2 DEF AnswerOpen, InvitationRow
    <3> QED BY <2>1, <3>1 DEF AnswerCall
  <2>3. CASE answers[x].pair # p
    BY <1>2, <1>t, <2>3 DEF AnswerOpen
  <2> QED BY <2>2, <2>3
<1> QED BY <1>1, <1>2, InvitationWriters

(***************************************************************************)
(* The strengthening of RetryFindsInvitation: what an issue in flight that *)
(* was refused once lost to is in the table, and its second write knows.   *)
(* A batch goes on to its next row as one not refused yet.                 *)
(***************************************************************************)
SureOf(call, row, table) ==
  /\ table[row].state # "none"
  /\ call.step = "write" => call.found

IssueSure(call, table) ==
  call.step # "idle" /\ call.retried => SureOf(call, call.pair, table)

BatchSure(call, table) ==
  /\ call.step \in {"check", "outsider", "open"} => ~call.retried
  /\ call.step \in {"find", "write"} /\ call.retried =>
       SureOf(call, Head(call.ready), table)

RetriesAreSure ==
  /\ \A i \in InviteCalls : IssueSure(invites[i], invitation)
  /\ \A b \in BatchCalls : BatchSure(batches[b], invitation)

(***************************************************************************)
(* Whatever is done, a call that does not move stays sure.                 *)
(***************************************************************************)
LEMMA SureStays ==
  ASSUME Typed, IssuesFresh, RetriesAreSure, [Next]_vars
  PROVE  /\ \A i \in InviteCalls : IssueSure(invites[i], invitation')
         /\ \A b \in BatchCalls : BatchSure(batches[b], invitation')
<1>t. /\ invites \in [InviteCalls -> InviteCall \cup {Idle}]
      /\ batches \in [BatchCalls -> BatchCall \cup {Idle}]
  BY DEF Typed, TypeOK, InvitingTypeOK
<1>1. ASSUME NEW i \in InviteCalls PROVE IssueSure(invites[i], invitation')
  <2>1. CASE invites[i] = Idle
    BY <2>1 DEF IssueSure, Idle
  <2>2. CASE invites[i] \in InviteCall
    <3>1. invites[i].pair \in Pairs
      BY <2>2 DEF InviteCall
    <3> QED BY <3>1, InvitationStays DEF RetriesAreSure, IssueSure, SureOf
  <2> QED BY <1>t, <2>1, <2>2
<1>2. ASSUME NEW b \in BatchCalls PROVE BatchSure(batches[b], invitation')
  <2>1. CASE batches[b] = Idle
    BY <2>1 DEF BatchSure, Idle
  <2>2. CASE batches[b] \in BatchCall /\ batches[b].step \in {"find", "write"}
    <3>1. batches[b].ready \in Seq(Pairs) /\ batches[b].ready # << >>
      BY <2>2 DEF BatchCall, Typed, RowsLeft
    <3>2. Head(batches[b].ready) \in Pairs
      BY <3>1
    <3> QED BY <2>2, <3>2, InvitationStays DEF RetriesAreSure, BatchSure, SureOf
  <2>3. CASE batches[b] \in BatchCall /\ batches[b].step \notin {"find", "write"}
    BY <2>3 DEF RetriesAreSure, BatchSure
  <2> QED BY <1>t, <2>1, <2>2, <2>3
<1> QED BY <1>1, <1>2

(***************************************************************************)
(* InviteToGroup's own steps keep it sure: it is marked as refused only    *)
(* beside the row that refused it, and looks again before it writes.       *)
(***************************************************************************)
LEMMA InviteStepSure ==
  ASSUME Typed, IssuesFresh, RetriesAreSure, [Next]_vars,
         NEW i \in InviteCalls, InviteStep(i)
  PROVE  IssueSure(invites'[i], invitation')
<1>t. invites \in [InviteCalls -> InviteCall \cup {Idle}]
  BY DEF Typed, TypeOK, InvitingTypeOK
<1>c. invites[i] \in InviteCall
  BY <1>t DEF InviteStep, InviteRefuseOutsider, InviteFindAssignment, InviteFind,
    InviteWrite, Idle
<1>s. IssueSure(invites[i], invitation') /\ invites[i].step # "idle"
  BY <1>c, SureStays DEF InviteCall
<1>r. InviteReturns(i) => IssueSure(invites'[i], invitation')
  BY <1>t DEF InviteReturns, IssueSure, Idle
<1>1. CASE InviteRefuseOutsider(i) \/ InviteFindAssignment(i)
  <2>1. ASSUME NEW step \in {"member", "find"},
               invites' = [invites EXCEPT ![i].step = step]
        PROVE  IssueSure(invites'[i], invitation')
    <3>1. /\ invites'[i].pair = invites[i].pair
          /\ invites'[i].retried = invites[i].retried
          /\ invites'[i].step = step
      BY <2>1, <1>t, <1>c DEF InviteCall
    <3> QED BY <3>1, <1>s DEF IssueSure, SureOf
  <2> QED BY <1>1, <1>r, <2>1 DEF InviteRefuseOutsider, InviteFindAssignment
<1>2. CASE InviteFind(i)
  <2>1. /\ invites'[i].pair = invites[i].pair
        /\ invites'[i].retried = invites[i].retried
        /\ invites'[i].found = (invitation[invites[i].pair].state # "none")
        /\ invitation' = invitation
    BY <1>2, <1>t, <1>c DEF InviteFind, InviteCall
  <2> QED BY <2>1, <1>s DEF IssueSure, SureOf
<1>3. CASE InviteWrite(i)
  <2>1. CASE InviteReturns(i)
    BY <1>r, <2>1
  <2>2. CASE /\ invitation[invites[i].pair].state # "none" /\ invitation' = invitation
             /\ invites' = [invites EXCEPT ![i].step = "find", ![i].retried = TRUE]
    <3>1. invites'[i].pair = invites[i].pair /\ invites'[i].step = "find"
      BY <2>2, <1>t, <1>c DEF InviteCall
    <3> QED BY <2>2, <3>1 DEF IssueSure, SureOf
  <2> QED BY <1>3, <2>1, <2>2 DEF InviteWrite, LostInsert, InviteLost
<1> QED BY <1>1, <1>2, <1>3 DEF InviteStep

(***************************************************************************)
(* So do a batch's own steps, and its next row starts as not refused.      *)
(***************************************************************************)
LEMMA BatchStepSure ==
  ASSUME Typed, IssuesFresh, RetriesAreSure, [Next]_vars,
         NEW b \in BatchCalls, BatchStep(b)
  PROVE  BatchSure(batches'[b], invitation')
<1>t. batches \in [BatchCalls -> BatchCall \cup {Idle}]
  BY DEF Typed, TypeOK, InvitingTypeOK
<1>c. batches[b] \in BatchCall
  BY <1>t DEF BatchStep, CheckBatchRow, BatchRefuseOutsider, BatchFindOpen, BatchFind,
    BatchWrite, Idle
<1>s. BatchSure(batches[b], invitation')
  BY SureStays
<1>n. \A call \in BatchCall : \A ready : BatchSure(AtRow(call, ready), invitation')
  <2> SUFFICES ASSUME NEW call \in BatchCall, NEW ready
               PROVE  BatchSure(AtRow(call, ready), invitation')
    OBVIOUS
  <2>1. CASE ready = << >>
    BY <2>1 DEF AtRow, Idle, BatchSure
  <2>2. CASE ready # << >>
    <3>1. AtRow(call, ready).step = "outsider" /\ AtRow(call, ready).retried = FALSE
      BY <2>2 DEF AtRow, BatchCall
    <3> QED BY <3>1 DEF BatchSure
  <2> QED BY <2>1, <2>2
<1>x. NextRow(b) => BatchSure(batches'[b], invitation')
  <2>1. NextRow(b) => batches'[b] = AtRow(batches[b], Tail(batches[b].ready))
    BY <1>t DEF NextRow
  <2> QED BY <2>1, <1>n, <1>c
<1>1. CASE CheckBatchRow(b)
  <2>1. PICK ready : batches'[b] =
          IF Tail(batches[b].rows) = << >>
          THEN AtRow([batches[b] EXCEPT !.rows = << >>], ready)
          ELSE [batches[b] EXCEPT !.rows = Tail(@), !.ready = ready]
    BY <1>1, <1>t DEF CheckBatchRow
  <2>2. CASE Tail(batches[b].rows) = << >>
    <3>1. [batches[b] EXCEPT !.rows = << >>] \in BatchCall
      <4>1. << >> \in Seq(Pairs)
        OBVIOUS
      <4> QED BY <1>c, <4>1 DEF BatchCall
    <3> QED BY <2>1, <2>2, <3>1, <1>n
  <2>3. CASE Tail(batches[b].rows) # << >>
    <3>1. /\ batches'[b].step = batches[b].step
          /\ batches'[b].retried = batches[b].retried
      BY <2>1, <2>3, <1>c DEF BatchCall
    <3>2. batches[b].step = "check"
      BY <1>1 DEF CheckBatchRow
    <3> QED BY <1>s, <3>1, <3>2 DEF BatchSure
  <2> QED BY <2>2, <2>3
<1>2. CASE BatchRefuseOutsider(b)
  <2>1. ASSUME batches' = [batches EXCEPT ![b].step = "open"]
        PROVE  BatchSure(batches'[b], invitation')
    <3>1. batches'[b].step = "open" /\ batches'[b].retried = batches[b].retried
      BY <2>1, <1>t, <1>c DEF BatchCall
    <3> QED BY <1>2, <1>s, <3>1 DEF BatchSure, BatchRefuseOutsider
  <2> QED BY <1>2, <1>x, <2>1 DEF BatchRefuseOutsider
<1>3. ASSUME NEW life \in Lifetimes, BatchFindOpen(b, life)
      PROVE  BatchSure(batches'[b], invitation')
  <2>1. ASSUME NEW issue,
               batches' = [batches EXCEPT ![b].step = "find", ![b].issue = issue]
        PROVE  BatchSure(batches'[b], invitation')
    <3>1. batches'[b].step = "find" /\ batches'[b].retried = batches[b].retried
      BY <2>1, <1>t, <1>c DEF BatchCall
    <3> QED BY <1>3, <1>s, <3>1 DEF BatchSure, BatchFindOpen
  <2> QED BY <1>3, <1>x, <2>1 DEF BatchFindOpen
<1>4. CASE BatchFind(b)
  <2>1. /\ batches'[b].ready = batches[b].ready
        /\ batches'[b].retried = batches[b].retried
        /\ batches'[b].found = (invitation[Head(batches[b].ready)].state # "none")
        /\ batches'[b].step = "write"
        /\ batches[b].step = "find"
        /\ invitation' = invitation
    BY <1>4, <1>t, <1>c DEF BatchFind, BatchCall
  <2> QED BY <2>1, <1>s DEF BatchSure, SureOf
<1>5. CASE BatchWrite(b)
  <2>1. CASE NextRow(b)
    BY <1>x, <2>1
  <2>2. CASE /\ invitation[Head(batches[b].ready)].state # "none"
             /\ invitation' = invitation /\ BatchLost(b)
    <3>1. batches'[b] = Idle => BatchSure(batches'[b], invitation')
      BY DEF Idle, BatchSure
    <3>2. ASSUME batches'[b] = [batches[b] EXCEPT !.step = "find", !.retried = TRUE]
          PROVE  BatchSure(batches'[b], invitation')
      <4>1. batches'[b].ready = batches[b].ready /\ batches'[b].step = "find"
        BY <3>2, <1>c DEF BatchCall
      <4> QED BY <2>2, <4>1 DEF BatchSure, SureOf
    <3> QED BY <2>2, <3>1, <3>2, <1>t DEF BatchLost
  <2> QED BY <1>5, <2>1, <2>2 DEF BatchWrite, LostInsert
<1> QED BY <1>1, <1>2, <1>3, <1>4, <1>5 DEF BatchStep

(***************************************************************************)
(* The one retry of issueInvitation finds the row it lost its insert to,   *)
(* in a single invitation and in every row of a batch: none is refused     *)
(* twice.                                                                  *)
(***************************************************************************)
THEOREM OneReissueSuffices == Spec => []RetryFindsInvitation
<1>1. Init => RetriesAreSure
  BY DEF Init, InvitingInit, RetriesAreSure, IssueSure, BatchSure, Idle
<1>2. Typed /\ IssuesFresh /\ RetriesAreSure /\ [Next]_vars => RetriesAreSure'
  <2> SUFFICES ASSUME Typed, IssuesFresh, RetriesAreSure, [Next]_vars
               PROVE  RetriesAreSure'
    OBVIOUS
  <2>t. /\ invites \in [InviteCalls -> InviteCall \cup {Idle}]
        /\ batches \in [BatchCalls -> BatchCall \cup {Idle}]
    BY DEF Typed, TypeOK, InvitingTypeOK
  <2>0. CASE UNCHANGED <<invites, batches>>
    BY <2>0, SureStays DEF RetriesAreSure
  <2>1. ASSUME NEW i \in InviteCalls, InviteStep(i) PROVE RetriesAreSure'
    <3>1. batches' = batches /\ \A j \in InviteCalls \ {i} : invites'[j] = invites[j]
      BY <2>1, <2>t DEF InviteStep, InviteRefuseOutsider, InviteFindAssignment,
        InviteFind, InviteWrite, InviteLost, InviteReturns
    <3> QED BY <2>1, <3>1, SureStays, InviteStepSure DEF RetriesAreSure
  <2>2. ASSUME NEW i \in InviteCalls, NEW p \in Pairs, NEW by \in Officers,
               NEW life \in Lifetimes, InviteToGroup(i, p, by, life)
        PROVE  RetriesAreSure'
    <3>1. invites'[i].retried = FALSE /\ batches' = batches
      BY <2>2, <2>t DEF InviteToGroup
    <3>2. \A j \in InviteCalls \ {i} : invites'[j] = invites[j]
      BY <2>2, <2>t DEF InviteToGroup
    <3> QED BY <3>1, <3>2, SureStays DEF RetriesAreSure, IssueSure
  <2>3. ASSUME NEW b \in BatchCalls, BatchStep(b) PROVE RetriesAreSure'
    <3>1. invites' = invites /\ \A k \in BatchCalls \ {b} : batches'[k] = batches[k]
      BY <2>3, <2>t DEF BatchStep, CheckBatchRow, BatchRefuseOutsider, BatchFindOpen,
        BatchFind, BatchWrite, BatchLost, NextRow
    <3> QED BY <2>3, <3>1, SureStays, BatchStepSure DEF RetriesAreSure
  <2>4. ASSUME NEW b \in BatchCalls, NEW rows \in BatchLists, NEW by \in Officers,
               SendInvitationBatch(b, rows, by)
        PROVE  RetriesAreSure'
    <3>1. batches'[b].retried = FALSE /\ batches'[b].step = "check" /\ invites' = invites
      BY <2>4, <2>t DEF SendInvitationBatch
    <3>2. \A k \in BatchCalls \ {b} : batches'[k] = batches[k]
      BY <2>4, <2>t DEF SendInvitationBatch
    <3> QED BY <3>1, <3>2, SureStays DEF RetriesAreSure, BatchSure
  <2>5. ASSUME NEW x \in AnswerCalls,
               AnswerStep(x) \/ \E p \in Pairs, state \in {"accepted", "declined"} :
                                  AnswerInvitation(x, p, state)
        PROVE  UNCHANGED <<invites, batches>>
    BY <2>5 DEF AnswerStep, AnswerRefuseOutsider, JudgeAnswer, AnswerOpen, AnswerRefused,
      AnswerInvitation
  <2>6. InvitingNext => RetriesAreSure'
    BY <2>0, <2>1, <2>2, <2>3, <2>4, <2>5 DEF InvitingNext, Tick
  <2>7. CASE UNCHANGED inviteVars
    BY <2>0, <2>7 DEF inviteVars
  <2> QED BY <2>6, <2>7 DEF Next, vars
<1>3. Typed /\ RetriesAreSure => RetryFindsInvitation
  BY DEF RetriesAreSure, RetryFindsInvitation, IssueSure, BatchSure, SureOf
<1> QED BY <1>1, <1>2, <1>3, TypedAlways, IssuesAlwaysFresh, PTL DEF Spec

(***************************************************************************)
(* An answered invitation was answered before it lapsed: the answer's      *)
(* update asks again for an invitation open at the time it was judged      *)
(* (stillOpen), whatever was reissued in between.                          *)
(***************************************************************************)
THEOREM AnswersInTime == Spec => []AnsweredInTime
<1>1. Init => AnsweredInTime
  BY DEF Init, InvitingInit, AnsweredInTime, LegacyInvitation, NoInvitation
<1>2. Typed /\ IssuesFresh /\ AnsweredInTime /\ [Next]_vars => AnsweredInTime'
  <2> SUFFICES ASSUME Typed, IssuesFresh, AnsweredInTime, [Next]_vars, NEW p \in Pairs,
                      invitation'[p].state \in {"accepted", "declined"},
                      invitation'[p].expires # Unset
               PROVE  invitation'[p].answered < invitation'[p].expires
    BY DEF AnsweredInTime
  <2>t. invitation \in [Pairs -> InvitationRow]
    BY DEF Typed, TypeOK, InvitingTypeOK
  <2>0. CASE invitation'[p] = invitation[p]
    BY <2>0 DEF AnsweredInTime
  <2>1. ASSUME NEW q \in Pairs, NEW row \in InvitationRow, Fresh(row),
               invitation' = [invitation EXCEPT ![q] = row]
        PROVE  invitation'[p] = invitation[p]
    BY <2>1, <2>t DEF Fresh
  <2>2. ASSUME NEW x \in AnswerCalls, AnswerOpen(x), invitation'[p] # invitation[p]
        PROVE  invitation'[p].answered < invitation'[p].expires
    <3>1. answers[x] \in AnswerCall
      BY <2>2, WritingCalls DEF AnswerOpen, Typed
    <3>2. answers[x].pair = p
      BY <2>2, <2>t DEF AnswerOpen
    <3>3. /\ invitation'[p].answered = answers[x].at
          /\ invitation'[p].expires = invitation[p].expires
      BY <2>2, <2>t, <3>2 DEF AnswerOpen, InvitationRow
    <3>4. /\ invitation[p].state = "pending"
          /\ ~(invitation[p].expires <= answers[x].at)
      BY <2>2, <3>2, <3>3 DEF AnswerOpen, StillOpen, Lapsed
    <3>5. answers[x].at \in Nat /\ invitation[p].expires \in Nat
      BY <3>1, <2>t DEF AnswerCall, InvitationRow, Times
    <3> QED BY <3>3, <3>4, <3>5
  <2> QED BY <2>0, <2>1, <2>2, InvitationWriters
<1> QED BY <1>1, <1>2, TypedAlways, IssuesAlwaysFresh, PTL DEF Spec

(***************************************************************************)
(* An answer stands until the invitation is issued anew, so of an accept   *)
(* and a decline racing only one is written (answerInvitation).            *)
(***************************************************************************)
THEOREM AnswersStand == Spec => AnswerStands
<1>1. Typed /\ IssuesFresh /\ [Next]_vars =>
        [\A p \in Pairs :
           invitation[p].state \in {"accepted", "declined"} =>
             invitation'[p] = invitation[p] \/ invitation'[p].state = "pending"]_vars
  <2> SUFFICES ASSUME Typed, IssuesFresh, [Next]_vars, NEW p \in Pairs,
                      invitation[p].state \in {"accepted", "declined"}
               PROVE  invitation'[p] = invitation[p] \/ invitation'[p].state = "pending"
    OBVIOUS
  <2>t. invitation \in [Pairs -> InvitationRow]
    BY DEF Typed, TypeOK, InvitingTypeOK
  <2>1. ASSUME NEW q \in Pairs, NEW row \in InvitationRow, Fresh(row),
               invitation' = [invitation EXCEPT ![q] = row]
        PROVE  invitation'[p] = invitation[p] \/ invitation'[p].state = "pending"
    BY <2>1, <2>t DEF Fresh
  <2>2. ASSUME NEW x \in AnswerCalls, AnswerOpen(x)
        PROVE  invitation'[p] = invitation[p]
    BY <2>2, <2>t DEF AnswerOpen, StillOpen
  <2> QED BY <2>1, <2>2, InvitationWriters
<1> QED BY <1>1, TypedAlways, IssuesAlwaysFresh, PTL DEF Spec, AnswerStands

-----------------------------------------------------------------------------
(* Registrations and requests together. *)

(***************************************************************************)
(* Besides the writers of requests, only assigning, deregistering and a    *)
(* declined invitation touch a registration, and they leave requests be.   *)
(***************************************************************************)
LEMMA RegistrationWriters ==
  ASSUME [Next]_vars
  PROVE  \/ UNCHANGED <<registered, request>>
         \/ \E p \in Pairs :
              (AssignGroup(p) \/ Deregister(p)) /\ UNCHANGED <<joinVars, inviteVars>>
         \/ \E c \in JoinCalls : JoinOpen(c) /\ UNCHANGED inviteVars
         \/ \E c \in JoinCalls :
              (InsertJoinRequest(c) \/ AskAgain(c)) /\ UNCHANGED inviteVars
         \/ \E d \in DecideCalls : DecidePending(d) /\ UNCHANGED inviteVars
         \/ \E x \in AnswerCalls : AnswerOpen(x) /\ UNCHANGED joinVars
<1>1. CASE RegistrationsNext /\ UNCHANGED <<joinVars, inviteVars>>
  BY <1>1 DEF RegistrationsNext, GrantSeat, EndSeat
<1>2. CASE JoiningNext /\ UNCHANGED inviteVars
  BY <1>2 DEF JoiningNext, JoinStep, DecideStep, JoinGroup, RefuseOutsider, FindAssignment,
    FindJoinRequest, Decide, DecideRefused, SetGroupJoinMode, SetGroupHidden
<1>3. CASE InvitingNext /\ UNCHANGED joinVars
  BY <1>3 DEF InvitingNext, InviteStep, InviteToGroup, InviteRefuseOutsider,
    InviteFindAssignment, InviteFind, InviteWrite, BatchStep, SendInvitationBatch,
    CheckBatchRow, BatchRefuseOutsider, BatchFindOpen, BatchFind, BatchWrite, AnswerStep,
    AnswerInvitation, AnswerRefuseOutsider, JudgeAnswer, AnswerRefused, Tick
<1>4. CASE UNCHANGED vars
  BY <1>4 DEF vars
<1> QED BY <1>1, <1>2, <1>3, <1>4 DEF Next

(***************************************************************************)
(* What settling does to the pending requests: the pair's, if any, is      *)
(* approved, and no other request changes (settlePendingJoinRequest).      *)
(***************************************************************************)
LEMMA Settled ==
  ASSUME TypeOK, NEW q \in Pairs, request' = SettlePendingJoinRequest(q)
  PROVE  /\ request'[q].state # "pending"
         /\ \A p \in Pairs \ {q} : request'[p] = request[p]
BY DEF TypeOK, RegistrationsTypeOK, SettlePendingJoinRequest, RequestRow

(***************************************************************************)
(* The step that approves a request registers its actor, whoever takes it. *)
(***************************************************************************)
THEOREM ApprovalsRegister == Spec => ApprovalRegisters
<1>1. TypeOK /\ [Next]_vars =>
        [\A p \in Pairs :
           Pending(p) /\ request'[p].state = "approved" => p \in registered']_vars
  <2> SUFFICES ASSUME TypeOK, [Next]_vars, NEW p \in Pairs, Pending(p),
                      request'[p].state = "approved"
               PROVE  p \in registered'
    OBVIOUS
  <2>r. request \in [Pairs -> RequestRow]
    BY DEF TypeOK, RegistrationsTypeOK
  <2>c. request'[p] # request[p]
    BY DEF Pending
  <2>1. ASSUME NEW c \in JoinCalls, JoinOpen(c) PROVE p \in registered'
    <3>1. joins[c].pair \in Pairs
      BY <2>1, WritingCalls DEF JoinOpen, JoinCall
    <3>2. joins[c].pair = p
      BY <2>1, <2>c, <3>1, Settled DEF JoinOpen
    <3> QED BY <2>1, <3>2 DEF JoinOpen, Register
  <2>2. ASSUME NEW c \in JoinCalls, InsertJoinRequest(c) \/ AskAgain(c) PROVE FALSE
    <3>1. request'[p] = FirstAsk \/ request'[p] = AskedAgain(joins[c].seen)
      BY <2>2, <2>c, <2>r DEF InsertJoinRequest, AskAgain
    <3> QED BY <3>1 DEF FirstAsk, NoRequest, AskedAgain
  <2>3. ASSUME NEW d \in DecideCalls, DecidePending(d) PROVE p \in registered'
    <3>1. decides[d].pair = p
      BY <2>3, <2>c, <2>r DEF DecidePending
    <3>2. decides[d].state = "approved"
      BY <2>3, <2>r, <3>1 DEF DecidePending, RequestRow
    <3> QED BY <2>3, <3>1, <3>2 DEF DecidePending, RegisterApproved, Register
  <2>4. ASSUME NEW x \in AnswerCalls, AnswerOpen(x) PROVE p \in registered'
    <3>1. answers[x].pair \in Pairs
      BY <2>4, WritingCalls DEF AnswerOpen, AnswerCall
    <3>2. answers[x].state = "accepted"
      BY <2>4, <2>c DEF AnswerOpen
    <3>3. answers[x].pair = p
      BY <2>4, <2>c, <3>1, <3>2, Settled DEF AnswerOpen
    <3> QED BY <2>4, <3>2, <3>3 DEF AnswerOpen, Register
  <2>5. ASSUME NEW q \in Pairs, AssignGroup(q) \/ Deregister(q) PROVE FALSE
    BY <2>5, <2>c DEF AssignGroup, Deregister
  <2> QED BY <2>1, <2>2, <2>3, <2>4, <2>5, <2>c, RegistrationWriters
<1> QED BY <1>1, TypeCorrect, PTL DEF Spec, ApprovalRegisters

(***************************************************************************)
(* Whoever is registered other than by AssignGroup leaves no pending       *)
(* request: an open join and an acceptance settle it, an approval decides  *)
(* it (joinOpen, answerInvitation, decide).                                *)
(***************************************************************************)
THEOREM EntriesSettle == Spec => EntrySettlesRequest
<1>1. TypeOK /\ [Next]_vars =>
        [\A p \in Pairs :
           /\ p \notin registered /\ p \in registered'
           /\ ~(AssignGroup(p) /\ UNCHANGED <<joinVars, inviteVars>>)
           => request'[p].state # "pending"]_vars
  <2> SUFFICES ASSUME TypeOK, [Next]_vars, NEW p \in Pairs,
                      p \notin registered, p \in registered',
                      ~(AssignGroup(p) /\ UNCHANGED <<joinVars, inviteVars>>)
               PROVE  request'[p].state # "pending"
    OBVIOUS
  <2>r. request \in [Pairs -> RequestRow]
    BY DEF TypeOK, RegistrationsTypeOK
  <2>1. ASSUME NEW c \in JoinCalls, JoinOpen(c) PROVE request'[p].state # "pending"
    <3>1. joins[c].pair = p
      BY <2>1 DEF JoinOpen, Register
    <3> QED BY <2>1, <3>1, Settled DEF JoinOpen
  <2>2. ASSUME NEW c \in JoinCalls, InsertJoinRequest(c) \/ AskAgain(c) PROVE FALSE
    BY <2>2 DEF InsertJoinRequest, AskAgain
  <2>3. ASSUME NEW d \in DecideCalls, DecidePending(d) PROVE request'[p].state # "pending"
    <3>1. decides[d].pair = p /\ decides[d].state = "approved"
      BY <2>3 DEF DecidePending, RegisterApproved, Register
    <3> QED BY <2>3, <2>r, <3>1 DEF DecidePending, RequestRow
  <2>4. ASSUME NEW x \in AnswerCalls, AnswerOpen(x) PROVE request'[p].state # "pending"
    <3>1. answers[x].pair = p /\ request' = SettlePendingJoinRequest(p)
      BY <2>4 DEF AnswerOpen, Register
    <3> QED BY <3>1, Settled
  <2>5. ASSUME NEW q \in Pairs, AssignGroup(q) \/ Deregister(q),
               UNCHANGED <<joinVars, inviteVars>>
        PROVE  FALSE
    BY <2>5 DEF AssignGroup, Deregister, Register
  <2> QED BY <2>1, <2>2, <2>3, <2>4, <2>5, RegistrationWriters
<1> QED BY <1>1, TypeCorrect, PTL DEF Spec, EntrySettlesRequest

-----------------------------------------------------------------------------
(***************************************************************************)
(* Membership implements Admission: the registrations are the ins, the     *)
(* states of the requests the wishes, those of the invitations the offers. *)
(***************************************************************************)
Wishes == [p \in Pairs |-> request[p].state]
Offers == [p \in Pairs |-> invitation[p].state]

Entry == [Admits!AdmissionNext]_<<registered, Wishes, Offers>>

(***************************************************************************)
(* Assigning is placing, deregistering is leaving.                         *)
(***************************************************************************)
LEMMA PlacingMaps ==
  ASSUME NEW p \in Pairs, AssignGroup(p) \/ Deregister(p), UNCHANGED inviteVars
  PROVE  Entry
<1>1. Wishes' = Wishes /\ Offers' = Offers
  BY DEF AssignGroup, Deregister, inviteVars, Wishes, Offers
<1>2. CASE AssignGroup(p)
  BY <1>1, <1>2 DEF Entry, AssignGroup, Register, Admits!AdmissionNext, Admits!Place,
    Admits!Enter, Wishes, Offers
<1>3. CASE Deregister(p)
  BY <1>1, <1>3 DEF Entry, Deregister, Admits!AdmissionNext, Admits!Leave, Wishes, Offers
<1> QED BY <1>2, <1>3

(***************************************************************************)
(* A settled request is a fulfilled wish; no other wish changes.           *)
(***************************************************************************)
LEMMA SettledWish ==
  ASSUME TypeOK, NEW q \in Pairs, request' = SettlePendingJoinRequest(q)
  PROVE  Wishes' = Admits!Fulfilled(q)
<1>1. request \in [Pairs -> RequestRow]
  BY DEF TypeOK, RegistrationsTypeOK
<1>2. \A p \in Pairs \ {q} : request'[p] = request[p]
  BY <1>1 DEF SettlePendingJoinRequest
<1>3. request'[q].state = IF request[q].state = "pending" THEN "approved"
                                                         ELSE request[q].state
  BY <1>1 DEF SettlePendingJoinRequest, RequestRow
<1>4. \A p \in Pairs : request'[p].state =
        IF p = q /\ request[q].state = "pending" THEN "approved" ELSE request[p].state
  BY <1>2, <1>3
<1> QED BY <1>4 DEF Wishes, Admits!Fulfilled

(***************************************************************************)
(* Joining an open group is walking in (joinOpen).                         *)
(***************************************************************************)
LEMMA JoinOpenMaps ==
  ASSUME TypeOK, NEW c \in JoinCalls, JoinOpen(c), UNCHANGED inviteVars
  PROVE  Entry
<1>1. joins[c].pair \in Pairs
  BY WritingCalls DEF JoinOpen, JoinCall
<1>2. /\ registered' = registered \cup {joins[c].pair}
      /\ Wishes' = Admits!Fulfilled(joins[c].pair)
  BY <1>1, SettledWish DEF JoinOpen, Register
<1>3. Offers' = Offers
  BY DEF inviteVars, Offers
<1> QED BY <1>1, <1>2, <1>3 DEF Entry, Admits!AdmissionNext, Admits!WalkIn,
      Admits!Enter, Wishes, Offers

(***************************************************************************)
(* Asking, for the first time or again, is wishing (askToJoin); an insert  *)
(* that lost changes nothing.                                              *)
(***************************************************************************)
LEMMA AskMaps ==
  ASSUME TypeOK, NEW c \in JoinCalls, InsertJoinRequest(c) \/ AskAgain(c),
         UNCHANGED inviteVars
  PROVE  Entry
<1> DEFINE p == joins[c].pair
<1>1. p \in Pairs
  BY WritingCalls DEF InsertJoinRequest, AskAgain, JoinCall
<1>r. request \in [Pairs -> RequestRow]
  BY DEF TypeOK, RegistrationsTypeOK
<1>2. registered' = registered /\ Offers' = Offers
  BY DEF InsertJoinRequest, AskAgain, inviteVars, Offers
<1>3. CASE request' = request
  <2>1. Wishes' = Wishes
    BY <1>3 DEF Wishes
  <2> QED BY <1>2, <2>1 DEF Entry
<1>4. ASSUME NEW row, row.state = "pending", request' = [request EXCEPT ![p] = row]
      PROVE  Entry
  <2>1. Wishes' = [Wishes EXCEPT ![p] = "pending"]
    BY <1>1, <1>4, <1>r DEF Wishes
  <2> QED BY <1>1, <1>2, <2>1 DEF Entry, Admits!AdmissionNext, Admits!Wish, Wishes, Offers
<1>5. FirstAsk.state = "pending" /\ AskedAgain(joins[c].seen).state = "pending"
  BY DEF FirstAsk, NoRequest, AskedAgain
<1> QED BY <1>3, <1>4, <1>5 DEF InsertJoinRequest, AskAgain

(***************************************************************************)
(* An approval grants a wish, a decline refuses one (decide).              *)
(***************************************************************************)
LEMMA DecideMaps ==
  ASSUME TypeOK, NEW d \in DecideCalls, DecidePending(d), UNCHANGED inviteVars
  PROVE  Entry
<1> DEFINE p == decides[d].pair
<1>1. p \in Pairs /\ decides[d].state \in {"approved", "declined"}
  BY WritingCalls DEF DecidePending, DecideCall
<1>2. Offers' = Offers
  BY DEF inviteVars, Offers
<1>3. Wishes[p] = "pending"
  BY <1>1 DEF DecidePending, StillPending, Pending, Wishes
<1>4. Wishes' = [Wishes EXCEPT ![p] = decides[d].state]
  <2>r. request \in [Pairs -> RequestRow]
    BY DEF TypeOK, RegistrationsTypeOK
  <2>1. request'[p].state = decides[d].state
    BY <1>1, <2>r DEF DecidePending, RequestRow
  <2>2. \A q \in Pairs \ {p} : request'[q] = request[q]
    BY <2>r DEF DecidePending
  <2> QED BY <1>1, <2>1, <2>2 DEF Wishes
<1>5. CASE decides[d].state = "approved"
  <2>1. registered' = registered \cup {p}
    BY <1>5 DEF DecidePending, RegisterApproved, Register
  <2> QED BY <1>1, <1>2, <1>3, <1>4, <1>5, <2>1
    DEF Entry, Admits!AdmissionNext, Admits!Grant, Admits!Enter, Wishes, Offers
<1>6. CASE decides[d].state = "declined"
  <2>1. registered' = registered
    BY <1>6 DEF DecidePending, RegisterApproved
  <2> QED BY <1>1, <1>2, <1>3, <1>4, <1>6, <2>1
    DEF Entry, Admits!AdmissionNext, Admits!Refuse, Wishes, Offers
<1> QED BY <1>1, <1>5, <1>6

(***************************************************************************)
(* Accepting an invitation takes the offer, declining turns it down        *)
(* (answerInvitation).                                                     *)
(***************************************************************************)
LEMMA AnswerMaps ==
  ASSUME TypeOK, NEW x \in AnswerCalls, AnswerOpen(x)
  PROVE  Entry
<1> DEFINE p == answers[x].pair
<1>1. p \in Pairs /\ answers[x].state \in {"accepted", "declined"}
  BY WritingCalls DEF AnswerOpen, AnswerCall
<1>2. Offers[p] = "pending"
  BY <1>1 DEF AnswerOpen, StillOpen, Offers
<1>3. Offers' = [Offers EXCEPT ![p] = answers[x].state]
  <2>i. invitation \in [Pairs -> InvitationRow]
    BY DEF TypeOK, InvitingTypeOK
  <2>1. invitation'[p].state = answers[x].state
    BY <1>1, <2>i DEF AnswerOpen, InvitationRow
  <2>2. \A q \in Pairs \ {p} : invitation'[q] = invitation[q]
    BY <2>i DEF AnswerOpen
  <2> QED BY <1>1, <2>1, <2>2 DEF Offers
<1>4. CASE answers[x].state = "accepted"
  <2>1. registered' = registered \cup {p} /\ Wishes' = Admits!Fulfilled(p)
    BY <1>1, <1>4, SettledWish DEF AnswerOpen, Register
  <2> QED BY <1>1, <1>2, <1>3, <1>4, <2>1
    DEF Entry, Admits!AdmissionNext, Admits!Take, Admits!Enter, Wishes, Offers
<1>5. CASE answers[x].state = "declined"
  <2>1. registered' = registered /\ Wishes' = Wishes
    BY <1>5 DEF AnswerOpen, Wishes
  <2> QED BY <1>1, <1>2, <1>3, <1>5, <2>1
    DEF Entry, Admits!AdmissionNext, Admits!TurnDown, Wishes, Offers
<1> QED BY <1>1, <1>4, <1>5

(***************************************************************************)
(* Issuing an invitation offers; every other step of inviting is invisible.*)
(***************************************************************************)
LEMMA IssueMaps ==
  ASSUME Typed, IssuesFresh, [Next]_vars, UNCHANGED <<registered, request>>
  PROVE  Entry
<1>1. Wishes' = Wishes
  BY DEF Wishes
<1>2. CASE UNCHANGED invitation
  <2>1. Offers' = Offers
    BY <1>2 DEF Offers
  <2> QED BY <1>1, <2>1 DEF Entry
<1>3. ASSUME NEW p \in Pairs, NEW row \in InvitationRow, Fresh(row),
             invitation' = [invitation EXCEPT ![p] = row]
      PROVE  Entry
  <2>1. Offers' = [Offers EXCEPT ![p] = "pending"]
    BY <1>3 DEF Offers, Fresh, Typed, TypeOK, InvitingTypeOK
  <2> QED BY <1>1, <1>3, <2>1 DEF Entry, Admits!AdmissionNext, Admits!Offer, Wishes, Offers
<1> QED BY <1>2, <1>3, AnswerMaps, InvitationWriters DEF Typed

(***************************************************************************)
(* Every behaviour of the membership operations is one Admission allows.   *)
(***************************************************************************)
THEOREM MembershipAdmits == Spec => ImplementsAdmission
<1>1. Init => Admits!AdmissionInit
  <2>1. \A by : LegacyInvitation(by).state = "pending" /\ NoInvitation.state = "none"
    BY DEF LegacyInvitation, NoInvitation
  <2>2. Init => \A p \in Pairs : invitation[p].state \in {"none", "pending"}
    BY <2>1 DEF Init, InvitingInit
  <2> QED BY <2>2 DEF Init, RegistrationsInit, NoRequest, Admits!AdmissionInit
<1>2. Typed /\ IssuesFresh /\ [Next]_vars => [Admits!AdmissionNext]_(Admits!admissionVars)
  <2> SUFFICES ASSUME Typed, IssuesFresh, [Next]_vars
               PROVE  [Admits!AdmissionNext]_(Admits!admissionVars)
    OBVIOUS
  <2>1. Entry
    BY PlacingMaps, JoinOpenMaps, AskMaps, DecideMaps, AnswerMaps, IssueMaps,
      RegistrationWriters DEF Typed
  <2> QED BY <2>1 DEF Entry, Wishes, Offers, Admits!admissionVars
<1> QED BY <1>1, <1>2, TypedAlways, IssuesAlwaysFresh, PTL
    DEF Spec, ImplementsAdmission, Admits!AdmissionSpec

-----------------------------------------------------------------------------
(* Finding a group by its code. *)

(***************************************************************************)
(* The strengthening of FalseOnlyToAMember: a lookup still reading has     *)
(* noted where its actor stands now, and an answer is as it should be.     *)
(***************************************************************************)
Noted(call) ==
  /\ call = Idle \/ call \in LookupCall
  /\ call.step \in {"assignment", "request"} => Standing(call.pair) \in call.held
  /\ call.step = "answered" => call.state \in call.held \/ "member" \in call.held

LookupsNoted ==
  /\ lookups = [f \in LookupCalls |-> lookups[f]]
  /\ \A f \in LookupCalls : Noted(lookups[f])

(***************************************************************************)
(* A lookup's own steps keep it noted: the registration is read first, so  *)
(* an actor found outside and a member when the request is read was held   *)
(* to be a member meanwhile.                                               *)
(***************************************************************************)
LEMMA LookupStepNoted ==
  ASSUME LookupsNoted, NEW f \in LookupCalls,
         \/ \E p \in Pairs : FindGroupByCode(f, p)
         \/ LookForAssignment(f) \/ LookForRequest(f) \/ LookupReturns(f)
  PROVE  Noted(lookups'[f])
<1>s. \A p \in Pairs : Standing(p) \in CallerStates
  BY DEF Standing, CallerStates
<1>n. Noted(lookups[f])
  BY DEF LookupsNoted
<1>d. \A call : lookups' = [lookups EXCEPT ![f] = call] => lookups'[f] = call
  BY DEF LookupsNoted
<1>1. ASSUME NEW p \in Pairs, FindGroupByCode(f, p) PROVE Noted(lookups'[f])
  <2>1. lookups'[f] = [step |-> "assignment", pair |-> p, held |-> {Standing(p)}]
    BY <1>1, <1>d DEF FindGroupByCode
  <2> QED BY <2>1, <1>s DEF Noted, LookupCall
<1>r. ASSUME lookups[f].step \in {"assignment", "request"}
      PROVE  /\ lookups[f] \in [step: {"assignment", "request"}, pair: Pairs,
                                held: SUBSET CallerStates]
             /\ Standing(lookups[f].pair) \in lookups[f].held
  BY <1>r, <1>n DEF Noted, LookupCall, Idle
<1>a. ASSUME NEW state \in CallerStates, Answer(f, state),
             lookups[f].step \in {"assignment", "request"},
             state \in lookups[f].held \/ "member" \in lookups[f].held
      PROVE  Noted(lookups'[f])
  <2>1. lookups'[f] = [step |-> "answered", pair |-> lookups[f].pair,
                       held |-> lookups[f].held, state |-> state]
    BY <1>a, <1>d DEF Answer
  <2> QED BY <1>a, <1>r, <2>1 DEF Noted, LookupCall
<1>2. CASE LookForAssignment(f)
  <2>1. CASE lookups[f].pair \in registered
    <3>1. Standing(lookups[f].pair) = "member"
      BY <2>1 DEF Standing
    <3> QED BY <1>2, <1>a, <1>r, <2>1, <3>1 DEF LookForAssignment, CallerStates
  <2>2. CASE lookups[f].pair \notin registered
    <3>1. lookups'[f] = [lookups[f] EXCEPT !.step = "request"]
      BY <1>2, <1>d, <2>2 DEF LookForAssignment
    <3> QED BY <1>2, <1>r, <3>1 DEF LookForAssignment, Noted, LookupCall
  <2> QED BY <2>1, <2>2
<1>3. CASE LookForRequest(f)
  <2>1. \/ StateOfRequest(request[lookups[f].pair]) \in lookups[f].held
        \/ "member" \in lookups[f].held
    BY <1>3, <1>r DEF LookForRequest, Standing, StateOfRequest
  <2>2. StateOfRequest(request[lookups[f].pair]) \in CallerStates
    BY DEF StateOfRequest, CallerStates
  <2> QED BY <1>3, <1>a, <2>1, <2>2 DEF LookForRequest
<1>4. CASE LookupReturns(f)
  <2>1. lookups'[f] = Idle
    BY <1>4, <1>d DEF LookupReturns
  <2>2. Idle.step = "idle"
    BY DEF Idle
  <2> QED BY <2>1, <2>2 DEF Noted
<1> QED BY <1>1, <1>2, <1>3, <1>4

(***************************************************************************)
(* What FindGroupByCode tells an actor of where they stand is true of some *)
(* moment of the call, unless the actor was registered at one of them.     *)
(***************************************************************************)
THEOREM FalsehoodsAreToMembers == LookupSpec => []FalseOnlyToAMember
<1>1. LookupInit => LookupsNoted
  BY DEF LookupInit, LookupsNoted, Noted, Idle
<1>2. LookupsNoted /\ [LookupNext]_lookupVars => LookupsNoted'
  <2> SUFFICES ASSUME LookupsNoted, [LookupNext]_lookupVars PROVE LookupsNoted'
    OBVIOUS
  <2>u. ASSUME UNCHANGED vars, NEW f \in LookupCalls PROVE Noted(lookups[f])'
          <=> Noted(lookups'[f])
    BY <2>u DEF Noted, Standing, vars
  <2>1. CASE UNCHANGED lookupVars
    BY <2>1 DEF lookupVars, vars, LookupsNoted, Noted, Standing
  <2>2. ASSUME NEW f \in LookupCalls,
               \/ \E p \in Pairs : FindGroupByCode(f, p)
               \/ LookForAssignment(f) \/ LookForRequest(f) \/ LookupReturns(f)
        PROVE  LookupsNoted'
    <3>1. UNCHANGED vars
      BY <2>2 DEF FindGroupByCode, LookForAssignment, LookForRequest, LookupReturns
    <3>2. lookups' = [g \in LookupCalls |-> lookups'[g]]
      BY <2>2 DEF LookupsNoted, FindGroupByCode, LookForAssignment, LookForRequest,
        LookupReturns, Answer
    <3>3. \A g \in LookupCalls \ {f} : lookups'[g] = lookups[g]
      BY <2>2 DEF LookupsNoted, FindGroupByCode, LookForAssignment, LookForRequest,
        LookupReturns, Answer
    <3>4. \A g \in LookupCalls : Noted(lookups'[g])
      BY <2>2, <3>1, <3>3, LookupStepNoted DEF LookupsNoted
    <3> QED BY <2>u, <3>1, <3>2, <3>4 DEF LookupsNoted
  <2>3. CASE Meanwhile
    <3>1. ASSUME NEW f \in LookupCalls PROVE Noted(lookups[f])'
      <4>n. Noted(lookups[f])
        BY DEF LookupsNoted
      <4>1. CASE lookups[f].step \in {"assignment", "request"}
        <5>1. lookups[f] \in [step: {"assignment", "request"}, pair: Pairs,
                              held: SUBSET CallerStates]
          BY <4>1, <4>n DEF Noted, LookupCall, Idle
        <5>2. \A p \in Pairs : /\ StandingNow'[p] = Standing(p)'
                               /\ Standing(p)' \in CallerStates
          BY DEF StandingNow, Standing, CallerStates
        <5>3. lookups'[f] = [lookups[f] EXCEPT
                               !.held = @ \cup {StandingNow'[lookups[f].pair]}]
          BY <2>3, <4>1 DEF Meanwhile
        <5> QED BY <4>1, <5>1, <5>2, <5>3 DEF Noted, LookupCall
      <4>2. CASE lookups[f].step \notin {"assignment", "request"}
        <5>1. lookups'[f] = lookups[f]
          BY <2>3, <4>2 DEF Meanwhile
        <5> QED BY <4>2, <4>n, <5>1 DEF Noted
      <4> QED BY <4>1, <4>2
    <3>2. lookups' = [f \in LookupCalls |-> lookups'[f]]
      BY <2>3 DEF Meanwhile
    <3> QED BY <3>1, <3>2 DEF LookupsNoted
  <2> QED BY <2>1, <2>2, <2>3 DEF LookupNext
<1>3. LookupsNoted => FalseOnlyToAMember
  BY DEF LookupsNoted, Noted, FalseOnlyToAMember
<1> QED BY <1>1, <1>2, <1>3, PTL DEF LookupSpec
=============================================================================
