---------------------------- MODULE Populations ----------------------------
(***************************************************************************)
(* The population figures of groups: appended, withdrawn by appending, and *)
(* read as a group's latest standing figure or, where it has none, as the  *)
(* sum over its inner groups (group_population_impl.go).  A read lists the *)
(* groups once and then the figures of one group after another, while      *)
(* groups are moved (GroupTree) and figures recorded.                      *)
(***************************************************************************)
EXTENDS GroupTree, Naturals, Sequences, SequencesExt

CONSTANTS
  Counts,        \* the populations recorded
  Dates,         \* the as_of dates recorded, in order
  WithdrawCalls, \* the withdrawals that may be made
  ReadCalls,     \* the reads of a latest population that may be made
  StartTrees,    \* the parents of the groups there may be at first
  MaxFigures     \* bound on the figures recorded

ASSUME PopulationsAssumption ==
  /\ IsFiniteSet(Groups)
  /\ Counts \subseteq Nat
  /\ Dates \subseteq Nat \ {0}
  /\ MaxFigures \in Nat

VARIABLES
  records,     \* the group_population rows, in the order they were recorded
  withdrawals, \* the withdrawals in flight
  reads        \* the reads of a latest population in flight

populationVars == <<created, parent, moves, records, withdrawals, reads>>

\* A row, its id its place in records; withdraws is 0 on a figure.
GroupPopulation == [group: Groups, population: Counts, asOf: Dates, withdraws: Nat]

WithdrawCall == [step: {"insert"}, of: Nat]

(***************************************************************************)
(* What latestOrInnerSum holds: the children listed, the groups still to   *)
(* visit in the order of its recursion, those it has seen, and the sum so  *)
(* far, dated 0 before its first part.  since is history: the rows there   *)
(* were when the read began.                                               *)
(***************************************************************************)
ReadCall == [step: {"visit"}, of: Groups, children: [Groups -> SUBSET Groups], agenda: Seq(Groups),
             seen: SUBSET Groups, population: Nat, asOf: Nat, since: Nat]

Rows == 1..Len(records)

Figures == {i \in Rows : records[i].withdraws = 0}

-----------------------------------------------------------------------------
WithdrawnIDs == {records[i].withdraws : i \in Rows} \ {0}

StandingFigures(g) ==
  {i \in Figures : records[i].group = g} \ WithdrawnIDs

\* The last of the figures sorted by date, and by recording within one.
Newest(S) ==
  CHOOSE i \in S : \A j \in S :
    \/ records[j].asOf < records[i].asOf
    \/ records[j].asOf = records[i].asOf /\ j <= i

\* The older of the date summed up so far, 0 for none, and a part's.
Older(d, e) == IF d = 0 \/ e < d THEN e ELSE d

-----------------------------------------------------------------------------
RecordGroupPopulation(g, population, asOf) ==
  /\ Cardinality(Figures) < MaxFigures
  /\ records' = Append(records,
       [group |-> g, population |-> population, asOf |-> asOf, withdraws |-> 0])
  /\ UNCHANGED <<created, parent, moves, withdrawals, reads>>

\* A record of the group that is a figure and that no record withdraws.
Withdrawable(i) == records[i].withdraws = 0 /\ i \notin WithdrawnIDs

\* ErrPopulationNotFound ends the call unless the figure stands.
WithdrawGroupPopulation(w, i) ==
  /\ withdrawals[w] = Idle
  /\ Withdrawable(i)
  /\ withdrawals' = [withdrawals EXCEPT ![w] = [step |-> "insert", of |-> i]]
  /\ UNCHANGED <<created, parent, moves, records, reads>>

\* Mutant: the record names the row before it.
WithdrawsLast(i) == [records[i] EXCEPT !.withdraws = Len(records)]

\* The withdrawn figure's count and date, so the record reads on its own.
Withdrawn(i) == [records[i] EXCEPT !.withdraws = i]

InsertWithdrawn(w) ==
  /\ withdrawals[w].step = "insert"
  /\ records' = Append(records, Withdrawn(withdrawals[w].of))
  /\ withdrawals' = [withdrawals EXCEPT ![w] = Done]
  /\ UNCHANGED <<created, parent, moves, reads>>

-----------------------------------------------------------------------------
LatestGroupPopulation(r, g) ==
  /\ reads[r] = Idle
  /\ reads' = [reads EXCEPT ![r] =
       [step |-> "visit", of |-> g, children |-> [h \in Groups |-> {c \in created : parent[c] = h}],
        agenda |-> <<g>>, seen |-> {}, population |-> 0, asOf |-> 0,
        since |-> Len(records)]]
  /\ UNCHANGED <<created, parent, moves, records, withdrawals>>

\* Mutant: the inner groups as they are by now.
InnerNow(r, g) == {c \in created : parent[c] = g}

\* The inner groups of g in the list the read took.
Inner(r, g) == reads[r].children[g]

\* Mutant: a group is visited as often as it is met.
MetAgain(r, g) == FALSE

\* A group met before is passed over.
Met(r, g) == g \in reads[r].seen

\* latestOrInnerSum comes to its next group and lists the figures recorded there.
VisitNext(r) ==
  /\ reads[r].step = "visit"
  /\ reads[r].agenda # << >>
  /\ LET call == reads[r]
         g == Head(call.agenda)
         own == StandingFigures(g)
         visited == [call EXCEPT !.agenda = Tail(@), !.seen = @ \cup {g}]
     IN reads' = [reads EXCEPT ![r] =
          CASE Met(r, g) -> [call EXCEPT !.agenda = Tail(@)]
            [] ~Met(r, g) /\ own # {} ->
                 [visited EXCEPT !.population = @ + records[Newest(own)].population,
                                 !.asOf = Older(@, records[Newest(own)].asOf)]
            [] OTHER -> [visited EXCEPT !.agenda = SetToSeq(Inner(r, g)) \o @]]
  /\ UNCHANGED <<created, parent, moves, records, withdrawals>>

\* The sum, or ErrPopulationNotFound where nothing was added.
AnswerPopulation(r) ==
  /\ reads[r].step = "visit"
  /\ reads[r].agenda = << >>
  /\ reads' = [reads EXCEPT ![r] = Done]
  /\ UNCHANGED <<created, parent, moves, records, withdrawals>>

-----------------------------------------------------------------------------
PopulationsInit ==
  /\ AnyTree
  /\ [g \in created |-> parent[g]] \in StartTrees
  /\ records = << >>
  /\ withdrawals = [w \in WithdrawCalls |-> Idle]
  /\ reads = [r \in ReadCalls |-> Idle]

ReadGoesOn(r) == VisitNext(r) \/ AnswerPopulation(r)

PopulationsNext ==
  \/ TreeNext /\ UNCHANGED <<records, withdrawals, reads>>
  \/ \E g \in created, n \in Counts, d \in Dates : RecordGroupPopulation(g, n, d)
  \/ \E w \in WithdrawCalls :
       \/ \E i \in Rows : WithdrawGroupPopulation(w, i)
       \/ InsertWithdrawn(w)
  \/ \E r \in ReadCalls :
       \/ \E g \in created : LatestGroupPopulation(r, g)
       \/ ReadGoesOn(r)

\* A read that was begun goes on: it waits for nobody.
PopulationsSpec ==
  /\ PopulationsInit /\ [][PopulationsNext]_populationVars
  /\ \A r \in ReadCalls : WF_populationVars(ReadGoesOn(r))

\* A withdrawn record names an earlier figure and copies it.
PopulationsTypeOK ==
  /\ TreeTypeOK
  /\ records \in Seq(GroupPopulation)
  /\ withdrawals \in [WithdrawCalls -> WithdrawCall \cup {Idle, Done}]
  /\ reads \in [ReadCalls -> ReadCall \cup {Idle, Done}]
  /\ \A i \in Rows : LET j == records[i].withdraws IN
       j # 0 => j < i /\ records[i] = [records[j] EXCEPT !.withdraws = j]

-----------------------------------------------------------------------------
(***************************************************************************)
(* The groups a read reaches when it goes no further down than a standing  *)
(* figure: the least set that holds its group and, of each group without a *)
(* figure, the inner groups.                                               *)
(***************************************************************************)
Reached(r) ==
  LET closed(S) == \A h \in S : StandingFigures(h) # {} \/ reads[r].children[h] \subseteq S
  IN  {h \in Groups : \A S \in SUBSET Groups : reads[r].of \in S /\ closed(S) => h \in S}

Answered(r) == reads[r].step = "visit" /\ reads[r].agenda = << >>

(***************************************************************************)
(* What a read answers while nobody records a figure is the sum of the     *)
(* newest figures of the groups that have one and were reached in the tree *)
(* listed when it began, none beneath another's figure, dated by the       *)
(* oldest of them; and nothing is found exactly where there is none -      *)
(* though the groups form a cycle, and are moved meanwhile                 *)
(* (latestOrInnerSum).                                                     *)
(***************************************************************************)
LatestSumsReached ==
  \A r \in ReadCalls : Answered(r) /\ reads[r].since = Len(records) =>
    LET later(i, j) == \/ records[i].asOf > records[j].asOf
                       \/ records[i].asOf = records[j].asOf /\ i > j
        parts == {records[i] : i \in
                    {j \in UNION {StandingFigures(h) : h \in Reached(r)} :
                       \A k \in StandingFigures(records[j].group) : ~later(k, j)}}
    IN /\ reads[r].population = MapThenSumSet(LAMBDA p : p.population, parts)
       /\ IF parts = {} THEN reads[r].asOf = 0
          ELSE /\ \A p \in parts : reads[r].asOf <= p.asOf
               /\ \E p \in parts : reads[r].asOf = p.asOf

(***************************************************************************)
(* Every read of a latest population comes to an answer: the recursion     *)
(* ends in a tree that holds a cycle, too.                                 *)
(***************************************************************************)
ReadsEnd == \A r \in ReadCalls : reads[r].step = "visit" ~> reads[r] = Done
=============================================================================
