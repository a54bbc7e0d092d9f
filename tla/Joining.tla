------------------------------ MODULE Joining ------------------------------
(***************************************************************************)
(* JoinGroup and JoinGroupByCode, the join request they write, and the     *)
(* decisions of leaders and operators on it (join_impl.go,                 *)
(* join_by_code_impl.go, join_decision_impl.go).                           *)
(*                                                                         *)
(* A join is a chain of separate reads: the group, the outsider test, the  *)
(* registration.  It then runs one transaction, either registering at once *)
(* (an open group) or finding and writing the request (a confirmed one).   *)
(* What was read may be stale by the time it is used.                      *)
(***************************************************************************)
EXTENDS Registrations

CONSTANTS
  JoinCalls,    \* join calls that may be in flight together
  DecideCalls,  \* approve and decline calls that may be in flight together
  Reconfigured, \* the groups whose join mode and hidden flag the bounded host changes
  MaxAsks       \* bound: no join starts at a pair asked this many times

ASSUME JoinBoundsAssumption == Reconfigured \subseteq Groups /\ MaxAsks \in Nat

VARIABLES
  open,       \* each group's join_mode is open
  hidden,     \* each group's hidden flag
  decisions,  \* each pair's join_decision records, oldest first
  asks,       \* history: how often each pair's request entered pending
  joins,      \* the join calls in flight
  decides     \* the decide calls in flight

joinVars == <<open, hidden, decisions, asks, joins, decides>>

JoinCall == [step: {"outsider", "member", "register", "find", "write"},
             pair: Pairs, open: BOOLEAN, seen: RequestRow, retried: BOOLEAN]

DecideCall == [step: {"write"}, pair: Pairs, by: Deciders,
               state: {"approved", "declined"}, silent: BOOLEAN]

Decision == [state: {"approved", "declined"}, silent: BOOLEAN, by: Deciders]

GoTo(c, step) == joins' = [joins EXCEPT ![c].step = step]
JoinReturns(c) == joins' = [joins EXCEPT ![c] = Idle]

(***************************************************************************)
(* JoinGroup reads the group and answers a hidden one as missing, unless   *)
(* the join came by the group's code.  The join mode is kept from here on. *)
(***************************************************************************)
JoinGroup(c, p, reachedByCode) ==
  /\ joins[c] = Idle
  /\ asks[p] < MaxAsks
  /\ hidden[p[2]] => reachedByCode
  /\ joins' = [joins EXCEPT ![c] =
       [step |-> "outsider", pair |-> p, open |-> open[p[2]],
        seen |-> NoRequest, retried |-> FALSE]]
  /\ UNCHANGED <<registered, request, seats, open, hidden, decisions, asks, decides>>

RefuseOutsider(c) ==
  /\ joins[c].step = "outsider"
  /\ IF IsOutsider(joins[c].pair[1]) THEN JoinReturns(c) ELSE GoTo(c, "member")
  /\ UNCHANGED <<registered, request, seats, open, hidden, decisions, asks, decides>>

FindAssignment(c) ==
  /\ joins[c].step = "member"
  /\ \/ joins[c].pair \in registered /\ JoinReturns(c)
     \/ joins[c].pair \notin registered /\ joins[c].open /\ GoTo(c, "register")
     \/ joins[c].pair \notin registered /\ ~joins[c].open /\ GoTo(c, "find")
  /\ UNCHANGED <<registered, request, seats, open, hidden, decisions, asks, decides>>

\* joinOpen: the registration and the settled request commit together.
JoinOpen(c) ==
  /\ joins[c].step = "register"
  /\ Register(joins[c].pair)
  /\ request' = SettlePendingJoinRequest(joins[c].pair)
  /\ JoinReturns(c)
  /\ UNCHANGED <<seats, open, hidden, decisions, asks, decides>>

FindJoinRequest(c) ==
  /\ joins[c].step = "find"
  /\ joins' = [joins EXCEPT ![c].step = "write", ![c].seen = request[joins[c].pair]]
  /\ UNCHANGED <<registered, request, seats, open, hidden, decisions, asks, decides>>

\* Mutant: the decision the row carried is not cleared.
AskedAgainStillDecided(r) == [r EXCEPT !.state = "pending"]

\* What askToJoin writes over the row it read.
AskedAgain(r) ==
  [state  |-> "pending",
   appeal |-> CASE r.state = "declined" -> TRUE
                [] r.state = "approved" -> FALSE
                [] OTHER -> r.appeal,
   silent |-> FALSE,
   by     |-> Nobody]

\* Mutant: the insert is sent again without reading the row that beat it.
ResendInsert(c) == joins' = [joins EXCEPT ![c].retried = TRUE]

\* The insert lost to another: a first loser goes back to the read.
LostInsertOfAsk(c) ==
  IF joins[c].retried
  THEN JoinReturns(c)
  ELSE joins' = [joins EXCEPT ![c].step = "find", ![c].retried = TRUE]

(***************************************************************************)
(* The write of askToJoin: an insert where the read found no row, which    *)
(* the unique pair index refuses if a row has landed since (the loser      *)
(* retries once, from the read); else an update by id, whatever the row    *)
(* has become since the read.                                              *)
(***************************************************************************)
InsertJoinRequest(c) ==
  LET p == joins[c].pair IN
  /\ joins[c].step = "write"
  /\ joins[c].seen.state = "none"
  /\ \/ /\ request[p].state = "none"
        /\ request' = [request EXCEPT ![p] = FirstAsk]
        /\ asks' = [asks EXCEPT ![p] = @ + 1]
        /\ JoinReturns(c)
     \/ /\ request[p].state # "none"
        /\ LostInsertOfAsk(c)
        /\ UNCHANGED <<request, asks>>
  /\ UNCHANGED <<registered, seats, open, hidden, decisions, decides>>

AskAgain(c) ==
  LET p == joins[c].pair IN
  /\ joins[c].step = "write"
  /\ joins[c].seen.state # "none"
  /\ request' = [request EXCEPT ![p] = AskedAgain(joins[c].seen)]
  /\ asks' = [asks EXCEPT ![p] = IF Pending(p) THEN @ ELSE @ + 1]
  /\ JoinReturns(c)
  /\ UNCHANGED <<registered, seats, open, hidden, decisions, decides>>

-----------------------------------------------------------------------------
(***************************************************************************)
(* decide reads the request (only its ids are used), then opens its        *)
(* transaction with the decider check: a leader must hold a leading seat   *)
(* in the group, the operator is vouched for by the host.                  *)
(***************************************************************************)
MayDecide(p, by) == by = Operator \/ LeadsIn(p[2], by)

Decide(d, p, by, state, silent) ==
  /\ decides[d] = Idle
  /\ silent => state = "declined"
  /\ request[p].state # "none"
  /\ MayDecide(p, by)
  /\ decides' = [decides EXCEPT ![d] =
       [step |-> "write", pair |-> p, by |-> by, state |-> state, silent |-> silent]]
  /\ UNCHANGED <<registered, request, seats, open, hidden, decisions, asks, joins>>

\* Mutant: the record copies the request as it stood, not the decision.
RecordRequest(d) ==
  LET r == request[decides[d].pair] IN [state |-> r.state, silent |-> r.silent, by |-> r.by]

\* The record of one decision, as recordDecision keeps it.
RecordDecision(d) ==
  [state |-> decides[d].state, silent |-> decides[d].silent, by |-> decides[d].by]

\* Mutant: the update is not conditional on the state.
InAnyState(d) == TRUE

\* The condition of decide's update.
StillPending(d) == Pending(decides[d].pair)

\* An approval registers, a decline leaves decide's transaction early.
RegisterApproved(d) ==
  IF decides[d].state = "approved" THEN Register(decides[d].pair)
                                   ELSE UNCHANGED registered

(***************************************************************************)
(* The rest of decide's transaction: the update conditional on pending,    *)
(* the decision record and, on approval, the registration.  An update of   *)
(* no row answers ErrJoinRequestDecided and writes nothing.                *)
(***************************************************************************)
DecidePending(d) ==
  LET call == decides[d] IN
  /\ call.step = "write"
  /\ StillPending(d)
  /\ request' = [request EXCEPT
       ![call.pair].state = call.state, ![call.pair].silent = call.silent,
       ![call.pair].by = call.by]
  /\ decisions' = [decisions EXCEPT ![call.pair] = Append(@, RecordDecision(d))]
  /\ RegisterApproved(d)
  /\ decides' = [decides EXCEPT ![d] = Idle]
  /\ UNCHANGED <<seats, open, hidden, asks, joins>>

DecideRefused(d) ==
  /\ decides[d].step = "write"
  /\ ~StillPending(d)
  /\ decides' = [decides EXCEPT ![d] = Idle]
  /\ UNCHANGED <<registered, request, seats, open, hidden, decisions, asks, joins>>

-----------------------------------------------------------------------------
SetGroupJoinMode(g) ==
  /\ open' = [open EXCEPT ![g] = ~@]
  /\ UNCHANGED <<registered, request, seats, hidden, decisions, asks, joins, decides>>

SetGroupHidden(g) ==
  /\ hidden' = [hidden EXCEPT ![g] = ~@]
  /\ UNCHANGED <<registered, request, seats, open, decisions, asks, joins, decides>>

JoiningInit ==
  /\ open = [g \in Groups |-> FALSE]
  /\ hidden = [g \in Groups |-> FALSE]
  /\ decisions = [p \in Pairs |-> << >>]
  /\ asks = [p \in Pairs |-> 0]
  /\ joins = [c \in JoinCalls |-> Idle]
  /\ decides = [d \in DecideCalls |-> Idle]

JoinStep(c) ==
  RefuseOutsider(c) \/ FindAssignment(c) \/ JoinOpen(c)
    \/ FindJoinRequest(c) \/ InsertJoinRequest(c) \/ AskAgain(c)

DecideStep(d) == DecidePending(d) \/ DecideRefused(d)

JoiningNext ==
  \/ \E c \in JoinCalls : JoinStep(c)
  \/ \E c \in JoinCalls, p \in Pairs, reachedByCode \in BOOLEAN :
       JoinGroup(c, p, reachedByCode)
  \/ \E d \in DecideCalls : DecideStep(d)
  \/ \E d \in DecideCalls, p \in Pairs, by \in Deciders,
        state \in {"approved", "declined"}, silent \in BOOLEAN :
       Decide(d, p, by, state, silent)
  \/ \E g \in Reconfigured : SetGroupJoinMode(g) \/ SetGroupHidden(g)

JoiningTypeOK ==
  /\ open \in [Groups -> BOOLEAN]
  /\ hidden \in [Groups -> BOOLEAN]
  /\ decisions \in [Pairs -> Seq(Decision)]
  /\ asks \in [Pairs -> Nat]
  /\ joins \in [JoinCalls -> JoinCall \cup {Idle}]
  /\ decides \in [DecideCalls -> DecideCall \cup {Idle}]
=============================================================================
