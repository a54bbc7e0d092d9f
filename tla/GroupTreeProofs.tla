-------------------------- MODULE GroupTreeProofs ---------------------------
(***************************************************************************)
(* For any groups and any moves at once: a group comes to be above itself  *)
(* only by a move that another parent's writing has overtaken.  For any    *)
(* tree, figures and reads besides: a read that no figure was recorded     *)
(* under answers with the sum over the groups it is led to, and ends.      *)
(***************************************************************************)
EXTENDS Populations, FiniteSetTheorems, SequenceTheorems, WellFoundedInduction, TLAPS

\* An upward set with one group and without the other.
Apart(g, a) == \E S \in SUBSET created : g \in S /\ Upward(S) /\ a \notin S

(***************************************************************************)
(* The strengthening: a move goes to a group there is, and one about to    *)
(* write, not overtaken, moves no group above its new parent.              *)
(***************************************************************************)
MovesDown ==
  \A m \in MoveCalls :
    /\ moves[m].step \in {"walk", "write"} => moves[m].to \in created \cup {NoParent}
    /\ moves[m].step = "write" /\ ~moves[m].overtaken /\ moves[m].to \in created =>
         Apart(moves[m].to, moves[m].group)

TreeInv ==
  /\ TreeTypeOK /\ MovesDown
  /\ \A m \in MoveCalls : moves[m].step \in {"parent", "walk", "write"} => moves[m].group \in created

AnyTreeSpec == AnyTree /\ [][TreeNext]_treeVars

\* Not being above is being kept apart by an upward set.
LEMMA AboveOrApart ==
  ASSUME NEW g, NEW a \in created
  PROVE  a \notin Above(g) <=> Apart(g, a)
BY DEF Above, Apart

\* A move that has a step to go is a MoveGroup call.
LEMMA MovesInFlight ==
  ASSUME TreeTypeOK, NEW m \in MoveCalls, moves[m].step \in {"parent", "walk", "write"}
  PROVE  moves[m] \in MoveCall
BY DEF TreeTypeOK, Idle, Done

\* A step of one move that writes no parent.
LEMMA MoveGoesOn ==
  ASSUME TreeInv, NEW m \in MoveCalls, NEW call \in MoveCall \cup {Done},
         moves' = [moves EXCEPT ![m] = call], UNCHANGED <<created, parent>>,
         call # Done => call.group \in created,
         call.step \in {"walk", "write"} => call.to \in created \cup {NoParent},
         call.step = "write" /\ call.to \in created => Apart(call.to, call.group)
  PROVE  TreeInv'
<1>1. /\ moves'[m] = call /\ \A n \in MoveCalls : n # m => moves'[n] = moves[n]
      /\ created' = created /\ parent' = parent
  BY DEF TreeInv, TreeTypeOK
<1>2. TreeTypeOK'
  BY <1>1 DEF TreeInv, TreeTypeOK
<1>3. ASSUME NEW g, NEW a PROVE Apart(g, a)' <=> Apart(g, a)
  BY <1>1 DEF Apart, Upward
<1>4. call = Done => call.step \notin {"parent", "walk", "write"}
  BY DEF Done
<1>5. ASSUME NEW n \in MoveCalls
      PROVE  /\ moves'[n].step \in {"walk", "write"} => moves'[n].to \in created' \cup {NoParent}
             /\ moves'[n].step = "write" /\ ~moves'[n].overtaken /\ moves'[n].to \in created' =>
                  Apart(moves'[n].to, moves'[n].group)
             /\ moves'[n].step \in {"parent", "walk", "write"} => moves'[n].group \in created'
  BY <1>1, <1>4 DEF TreeInv, MovesDown
<1> QED BY <1>1, <1>2, <1>3, <1>5 DEF TreeInv, MovesDown

\* CreateGroup keeps what the moves in flight have found.
LEMMA CreateKeepsTree ==
  ASSUME TreeInv, NEW c \in Groups, NEW to \in created \cup {NoParent}, CreateGroup(c, to)
  PROVE  TreeInv'
<1>1. created' = created \cup {c} /\ parent' = [parent EXCEPT ![c] = to] /\ moves' = moves
  BY DEF CreateGroup
<1>2. TreeTypeOK'
  BY <1>1 DEF TreeInv, TreeTypeOK
<1>3. ASSUME NEW m \in MoveCalls, moves[m].step = "write", ~moves[m].overtaken, moves[m].to \in created'
      PROVE  Apart(moves[m].to, moves[m].group)'
  <2>1. moves[m].to \in created
    BY <1>2, <1>3, TreeAssumption DEF TreeInv, TreeTypeOK, MovesDown
  <2>2. Apart(moves[m].to, moves[m].group)
    BY <1>3, <2>1 DEF TreeInv, MovesDown
  <2>3. PICK S \in SUBSET created :
          moves[m].to \in S /\ Upward(S) /\ moves[m].group \notin S
    BY <2>2 DEF Apart
  <2>4. Upward(S)' /\ S \in SUBSET created'
    BY <2>3 DEF CreateGroup, Upward, TreeInv, TreeTypeOK
  <2> QED BY <1>1, <2>3, <2>4 DEF Apart
<1>4. MovesDown'
  <2>1. ASSUME NEW m \in MoveCalls, moves[m].step \in {"walk", "write"}
        PROVE  moves[m].to \in created' \cup {NoParent}
    BY <1>1, <2>1 DEF TreeInv, MovesDown
  <2> QED BY <1>1, <1>3, <2>1 DEF MovesDown
<1> QED BY <1>1, <1>2, <1>4 DEF TreeInv

\* A parent written marks as overtaken the moves that have walked the tree before.
LEMMA WriteKeepsTree ==
  ASSUME TreeInv, NEW m \in MoveCalls, WriteParent(m)
  PROVE  TreeInv'
<1>1. /\ moves[m].step = "write" /\ moves[m] \in MoveCall /\ created' = created
      /\ parent' = [parent EXCEPT ![moves[m].group] = moves[m].to]
      /\ moves' = [n \in MoveCalls |->
           CASE n = m -> Done
             [] n # m /\ moves[n].step = "write" -> [moves[n] EXCEPT !.overtaken = TRUE]
             [] OTHER -> moves[n]]
  BY MovesInFlight DEF WriteParent, TreeInv
<1>2. moves[m].to \in created \cup {NoParent}
  BY <1>1 DEF TreeInv, MovesDown
<1>3. ASSUME NEW n \in MoveCalls
      PROVE  /\ moves'[n] \in MoveCall \cup {Idle, Done}
             /\ moves'[n].step = "write" => moves'[n].overtaken
             /\ moves'[n].step \in {"parent", "walk", "write"} =>
                  /\ moves[n].step = moves'[n].step
                  /\ moves'[n].to = moves[n].to /\ moves'[n].group = moves[n].group
  <2>1. CASE n = m
    BY <1>1, <2>1 DEF Done
  <2>2. CASE n # m /\ moves[n].step = "write"
    <3>1. moves[n] \in MoveCall
      BY <2>2, MovesInFlight DEF TreeInv
    <3>2. moves'[n] = [moves[n] EXCEPT !.overtaken = TRUE]
      BY <1>1, <2>2
    <3> QED BY <2>2, <3>1, <3>2 DEF MoveCall
  <2>3. CASE n # m /\ moves[n].step # "write"
    BY <1>1, <2>3 DEF TreeInv, TreeTypeOK
  <2> QED BY <2>1, <2>2, <2>3
<1>4. TreeTypeOK'
  <2>1. moves' \in [MoveCalls -> MoveCall \cup {Idle, Done}]
    BY <1>1, <1>3
  <2> QED BY <1>1, <1>2, <2>1 DEF TreeInv, TreeTypeOK
<1>5. MovesDown'
  BY <1>1, <1>3 DEF TreeInv, MovesDown
<1>6. ASSUME NEW n \in MoveCalls, moves'[n].step \in {"parent", "walk", "write"}
      PROVE  moves'[n].group \in created'
  <2>1. moves[n].step \in {"parent", "walk", "write"} /\ moves'[n].group = moves[n].group
    BY <1>3, <1>6
  <2>2. moves[n].group \in created
    BY <2>1 DEF TreeInv
  <2> QED BY <1>1, <2>1, <2>2
<1> QED BY <1>4, <1>5, <1>6 DEF TreeInv

\* A step keeps the strengthening.
LEMMA TreeKept ==
  ASSUME TreeInv, [TreeNext]_treeVars
  PROVE  TreeInv'
<1>1. ASSUME NEW m \in MoveCalls, NEW g \in created, NEW to \in Groups \cup {NoParent},
             MoveGroup(m, g, to)
      PROVE  TreeInv'
  <2> DEFINE call == [step |-> "parent", group |-> g, to |-> to, overtaken |-> FALSE]
  <2>1. call \in MoveCall /\ g \in created
    BY DEF MoveCall, TreeInv, TreeTypeOK
  <2> QED BY <1>1, <2>1, MoveGoesOn DEF MoveGroup
<1>2. ASSUME NEW m \in MoveCalls, FindParent(m) PROVE TreeInv'
  <2>1. moves[m] \in MoveCall /\ moves[m].group \in created /\ m \in DOMAIN moves
    BY <1>2, MovesInFlight DEF FindParent, TreeInv, TreeTypeOK
  <2>2. CASE IsThere(moves[m].to)
    <3> DEFINE call == [moves[m] EXCEPT !.step = "walk"]
    <3>1. call \in MoveCall /\ call.group = moves[m].group /\ call.to = moves[m].to /\ call.step = "walk"
      BY <2>1 DEF MoveCall
    <3>2. moves' = [moves EXCEPT ![m] = call] /\ UNCHANGED <<created, parent>>
      BY <1>2, <2>1, <2>2 DEF FindParent, MoveGoesTo
    <3> HIDE DEF call
    <3> QED BY <2>1, <2>2, <3>1, <3>2, MoveGoesOn DEF IsThere
  <2>3. CASE ~IsThere(moves[m].to)
    BY <1>2, <2>3, MoveGoesOn DEF FindParent, MoveReturns, Done
  <2> QED BY <2>2, <2>3
<1>3. ASSUME NEW m \in MoveCalls, WalkUp(m) PROVE TreeInv'
  <2>1. /\ moves[m] \in MoveCall /\ moves[m].group \in created /\ m \in DOMAIN moves
        /\ moves[m].to \in created \cup {NoParent}
    BY <1>3, MovesInFlight DEF WalkUp, TreeInv, TreeTypeOK, MovesDown
  <2>2. CASE ~InSubtree(moves[m].group, moves[m].to)
    <3> DEFINE call == [moves[m] EXCEPT !.step = "write"]
    <3>1. call \in MoveCall /\ call.group = moves[m].group /\ call.to = moves[m].to
      BY <2>1 DEF MoveCall
    <3>2. moves' = [moves EXCEPT ![m] = call] /\ UNCHANGED <<created, parent>>
      BY <1>3, <2>1, <2>2 DEF WalkUp, MoveGoesTo
    <3>3. call.to \in created => Apart(call.to, call.group)
      BY <2>1, <2>2, <3>1, AboveOrApart DEF InSubtree
    <3> HIDE DEF call
    <3>4. call # Done => call.group \in created
      BY <2>1, <3>1
    <3> QED BY <2>1, <3>1, <3>2, <3>3, <3>4, MoveGoesOn
  <2>3. CASE InSubtree(moves[m].group, moves[m].to)
    BY <1>3, <2>3, MoveGoesOn DEF WalkUp, MoveReturns, Done
  <2> QED BY <2>2, <2>3
<1>4. ASSUME UNCHANGED treeVars PROVE TreeInv'
  BY <1>4 DEF treeVars, TreeInv, TreeTypeOK, MovesDown, Apart, Upward
<1> QED BY <1>1, <1>2, <1>3, <1>4, CreateKeepsTree, WriteKeepsTree DEF TreeNext

\* The strengthened invariant holds from any tree on.
LEMMA TreeInvariant == AnyTreeSpec => []TreeInv
<1>1. AnyTree => TreeInv
  BY DEF AnyTree, TreeInv, TreeTypeOK, MovesDown, Idle
<1> QED BY <1>1, TreeKept, PTL DEF AnyTreeSpec

-----------------------------------------------------------------------------
\* A new group is above none that was there, and has no group above it that is new.
\* CreateGroup puts no group above itself.
LEMMA CreatingIsHarmless ==
  ASSUME TreeInv, NEW c \in Groups, NEW to \in created \cup {NoParent}, CreateGroup(c, to),
         NoGroupAboveItself
  PROVE  NoGroupAboveItself'
<1>1. /\ c \notin created /\ created' = created \cup {c} /\ parent' = [parent EXCEPT ![c] = to]
      /\ parent \in [Groups -> created \cup {NoParent}] /\ created \subseteq Groups
  BY DEF CreateGroup, TreeInv, TreeTypeOK
<1>2. ASSUME NEW S \in SUBSET created, Upward(S) PROVE Upward(S)' /\ S \in SUBSET created'
  BY <1>1, <1>2 DEF Upward
<1>3. ASSUME NEW h \in created', parent'[h] # NoParent PROVE Apart(parent[h], h)'
  <2>1. CASE h = c
    <3>1. Upward(created) /\ to \in created /\ parent'[h] = to
      BY <1>1, <1>3, <2>1 DEF Upward
    <3> QED BY <1>1, <1>2, <2>1, <3>1 DEF Apart
  <2>2. CASE h # c
    <3>1. h \in created /\ parent'[h] = parent[h]
      BY <1>1, <2>2
    <3>2. Apart(parent[h], h)
      BY <1>3, <3>1, AboveOrApart DEF NoGroupAboveItself
    <3>3. PICK S \in SUBSET created : parent[h] \in S /\ Upward(S) /\ h \notin S
      BY <3>2 DEF Apart
    <3> QED BY <1>2, <3>1, <3>3 DEF Apart
  <2> QED BY <2>1, <2>2
<1>4. ASSUME NEW h \in created' PROVE h \notin Above(parent[h])' <=> Apart(parent[h], h)'
  BY <1>4 DEF Above, Apart
<1> QED BY <1>3, <1>4 DEF NoGroupAboveItself

(***************************************************************************)
(* The group g goes under to, and T holds to and all above it, not g.      *)
(* Whatever was apart before is apart by the same groups, with T's where g *)
(* is among them, or within T where the other group is itself in T.        *)
(***************************************************************************)
LEMMA MovingDownIsHarmless ==
  ASSUME TreeInv, NEW m \in MoveCalls, WriteParent(m), ~moves[m].overtaken, NoGroupAboveItself
  PROVE  NoGroupAboveItself'
<1> DEFINE g  == moves[m].group
           to == moves[m].to
<1>1. /\ moves[m].step = "write" /\ g \in created /\ to \in created \cup {NoParent}
      /\ created' = created /\ parent' = [parent EXCEPT ![g] = to]
      /\ parent \in [Groups -> created \cup {NoParent}] /\ created \subseteq Groups
  BY DEF WriteParent, TreeInv, TreeTypeOK, MovesDown
<1>2. to # NoParent => Apart(to, g)
  BY <1>1 DEF TreeInv, MovesDown
<1>3. parent'[g] = to /\ \A h \in created : h # g => parent'[h] = parent[h]
  BY <1>1
<1> HIDE DEF g, to
<1>4. PICK T \in SUBSET created : (to # NoParent => to \in T) /\ Upward(T) /\ g \notin T
  <2>1. CASE to = NoParent
    <3>1. Upward({})
      BY DEF Upward
    <3> QED BY <2>1, <3>1
  <2>2. CASE to # NoParent
    BY <1>2, <2>2 DEF Apart
  <2> QED BY <2>1, <2>2
<1>5. ASSUME NEW h \in created', parent'[h] # NoParent PROVE Apart(parent[h], h)'
  <2>1. CASE h = g
    <3>1. Upward(T)'
      BY <1>3, <1>4 DEF Upward
    <3> QED BY <1>1, <1>3, <1>4, <1>5, <2>1, <3>1 DEF Apart
  <2>2. CASE h # g
    <3>1. h \in created /\ parent'[h] = parent[h] /\ parent[h] # NoParent
      BY <1>1, <1>3, <1>5, <2>2
    <3>2. Apart(parent[h], h)
      BY <3>1, AboveOrApart DEF NoGroupAboveItself
    <3>3. PICK S \in SUBSET created : parent[h] \in S /\ Upward(S) /\ h \notin S
      BY <3>2 DEF Apart
    <3>4. CASE h \notin T
      <4>1. Upward(S \cup T)'
        BY <1>3, <1>4, <3>3 DEF Upward
      <4> QED BY <1>1, <1>4, <3>1, <3>3, <3>4, <4>1 DEF Apart
    <3>5. CASE h \in T
      <4>1. Upward(S \cap T)'
        BY <1>3, <1>4, <3>3 DEF Upward
      <4>2. parent[h] \in S \cap T
        BY <1>4, <3>1, <3>3, <3>5 DEF Upward
      <4> QED BY <1>1, <1>4, <3>1, <3>3, <4>1, <4>2 DEF Apart
    <3> QED BY <3>4, <3>5
  <2> QED BY <2>1, <2>2
<1>6. ASSUME NEW h \in created' PROVE h \notin Above(parent[h])' <=> Apart(parent[h], h)'
  BY <1>6 DEF Above, Apart
<1> QED BY <1>5, <1>6 DEF NoGroupAboveItself

(***************************************************************************)
(* Whatever groups are created and moved at once, from any tree: a group   *)
(* comes to be above itself only by a move whose list of the groups was    *)
(* overtaken (MoveGroup).                                                  *)
(***************************************************************************)
THEOREM CyclesNeedAnOvertakenMove == AnyTreeSpec => CycleOnlyByAnOvertakenMove
<1>1. ASSUME TreeInv, [TreeNext]_treeVars, parent' # parent, NoGroupAboveItself, ~NoGroupAboveItself'
      PROVE  \E m \in MoveCalls : moves[m].step = "write" /\ moves[m].overtaken /\ moves'[m] = Done
  <2>1. PICK m \in MoveCalls : WriteParent(m)
    BY <1>1, CreatingIsHarmless DEF TreeNext, treeVars, MoveGroup, FindParent, WalkUp
  <2>2. moves[m].overtaken
    BY <1>1, <2>1, MovingDownIsHarmless
  <2> QED BY <2>1, <2>2 DEF WriteParent
<1>2. TreeInv /\ [TreeNext]_treeVars =>
        [parent' # parent /\ NoGroupAboveItself =>
           \/ NoGroupAboveItself'
           \/ \E m \in MoveCalls :
                moves[m].step = "write" /\ moves[m].overtaken /\ moves'[m] = Done]_treeVars
  BY <1>1
<1> QED BY <1>2, TreeInvariant, PTL DEF AnyTreeSpec, CycleOnlyByAnOvertakenMove

(***************************************************************************)
(* The groups, their parents and the moves in flight are typed, from any   *)
(* tree; a parent is a group there is.                                     *)
(***************************************************************************)
THEOREM TreeTypeCorrect == AnyTreeSpec => []TreeTypeOK
<1>1. TreeInv => TreeTypeOK
  BY DEF TreeInv
<1> QED BY <1>1, TreeInvariant, PTL

-----------------------------------------------------------------------------
\* Of some subsets of a finite set one is minimal: what a proof by induction on
\* finite sets takes for its counterexample.
LEMMA MinimalSubset ==
  ASSUME NEW S, IsFiniteSet(S), NEW T, T \subseteq SUBSET S, T # {}
  PROVE  \E U \in T : \A V \in T : V \subseteq U => V = U
<1> DEFINE R == StrictSubsetOrdering(S)
<1>1. IsWellFoundedOn(R, FiniteSubsetsOf(S)) /\ FiniteSubsetsOf(S) = SUBSET S
  BY FS_StrictSubsetOrderingWellFounded, FS_FiniteSubsetsOfFinite
<1>2. \E U \in T : \A V \in T : ~ (<<V, U>> \in R)
  <2> HIDE DEF R
  <2> QED BY <1>1, WFMin
<1> QED BY <1>2 DEF StrictSubsetOrdering

\* What MapThenSumSet makes of a set of rows, and how: it takes a row it chooses,
\* and goes on with the others.
Total(S) == MapThenSumSet(LAMBDA p : p.population, S)

First(S) == CHOOSE x \in S : TRUE

Adds(f, S) ==
  f = [s \in SUBSET S |-> IF s = {} THEN 0 ELSE First(s).population + f[s \ {First(s)}]]

Unfolds(S) == Total(S) = IF S = {} THEN 0 ELSE First(S).population + Total(S \ {First(S)})

\* The recursion has an outcome, and of the rows but one that of those rows alone.
LEMMA TotalUnfolds ==
  ASSUME NEW S, IsFiniteSet(S)
  PROVE  Unfolds(S)
<1>1. \A U : Total(U) = (CHOOSE f : Adds(f, U))[U]
  BY DEF Total, MapThenSumSet, MapThenFoldSet, Adds, First
<1> SUFFICES ASSUME NEW U \in SUBSET S, \A V \in SUBSET U : V # U => Unfolds(V)
             PROVE  Unfolds(U)
  <2> DEFINE Failing == {U \in SUBSET S : ~Unfolds(U)}
  <2> SUFFICES ASSUME Failing # {} PROVE FALSE
    OBVIOUS
  <2>1. PICK U \in Failing : \A V \in Failing : V \subseteq U => V = U
    <3> HIDE DEF Failing
    <3>1. Failing \subseteq SUBSET S
      BY DEF Failing
    <3> QED BY <3>1, MinimalSubset
  <2> QED BY <2>1
<1> DEFINE x == First(U)
           g == [s \in SUBSET U |->
                   IF s = U THEN IF U = {} THEN 0 ELSE x.population + Total(U \ {x}) ELSE Total(s)]
           f == CHOOSE h : Adds(h, U)
<1>2. \A s \in SUBSET U : s # {} => First(s) \in s
  BY DEF First
<1>3. Adds(g, U)
  <2>1. ASSUME NEW s \in SUBSET U
        PROVE  g[s] = IF s = {} THEN 0 ELSE First(s).population + g[s \ {First(s)}]
    <3>1. s # {} => s \ {First(s)} \in SUBSET U /\ s \ {First(s)} # U
      BY <1>2
    <3>2. s # {} => g[s \ {First(s)}] = Total(s \ {First(s)})
      BY <3>1
    <3>3. CASE s = U
      BY <3>2, <3>3
    <3>4. CASE s # U
      <4>1. g[s] = Total(s)
        BY <3>4
      <4> QED BY <3>2, <3>4, <4>1 DEF Unfolds
    <3> QED BY <3>3, <3>4
  <2> QED BY <2>1 DEF Adds
<1>4. Adds(f, U) /\ Total(U) = f[U]
  <2> HIDE DEF g
  <2> QED BY <1>1, <1>3
<1> HIDE DEF f, g
<1>5. \A s \in SUBSET U : s # U => f[s] = Total(s)
  <2> DEFINE Failing == {s \in SUBSET U : s # U /\ f[s] # Total(s)}
  <2> SUFFICES ASSUME Failing # {} PROVE FALSE
    OBVIOUS
  <2>1. PICK s \in Failing : \A t \in Failing : t \subseteq s => t = s
    <3>1. Failing \subseteq SUBSET S
      OBVIOUS
    <3> HIDE DEF Failing
    <3> QED BY <3>1, MinimalSubset
  <2>2. s \in SUBSET U /\ s # U /\ f[s] # Total(s) /\ Unfolds(s)
    BY <2>1
  <2>3. f[s] = IF s = {} THEN 0 ELSE First(s).population + f[s \ {First(s)}]
    BY <1>4, <2>2 DEF Adds
  <2>4. CASE s = {}
    BY <2>2, <2>3, <2>4 DEF Unfolds
  <2>5. CASE s # {}
    <3>1. s \ {First(s)} \in SUBSET U /\ s \ {First(s)} # U /\ s \ {First(s)} # s
      BY <1>2, <2>2, <2>5
    <3>2. f[s \ {First(s)}] = Total(s \ {First(s)})
      BY <2>1, <3>1
    <3> QED BY <2>2, <2>3, <2>5, <3>2 DEF Unfolds
  <2> QED BY <2>4, <2>5
<1>6. f[U] = IF U = {} THEN 0 ELSE x.population + f[U \ {x}]
  <2>1. U \in SUBSET U
    OBVIOUS
  <2> QED BY <1>4, <2>1 DEF Adds
<1>7. U # {} => f[U \ {x}] = Total(U \ {x})
  BY <1>2, <1>5
<1> QED BY <1>4, <1>6, <1>7 DEF Unfolds

\* The rows may be summed in any order.
LEMMA TotalOfOneMore ==
  ASSUME NEW S, IsFiniteSet(S), \A p \in S : p.population \in Nat
  PROVE  /\ Total(S) \in Nat
         /\ \A p \in S : Total(S) = p.population + Total(S \ {p})
<1> DEFINE Sums(U) == /\ Total(U) \in Nat
                      /\ \A p \in U : Total(U) = p.population + Total(U \ {p})
<1> SUFFICES ASSUME NEW U \in SUBSET S, \A V \in SUBSET U : V # U => Sums(V)
             PROVE  Sums(U)
  <2> DEFINE Failing == {U \in SUBSET S : ~Sums(U)}
  <2> HIDE DEF Sums
  <2> SUFFICES ASSUME Failing # {} PROVE FALSE
    BY DEF Sums
  <2>1. PICK U \in Failing : \A V \in Failing : V \subseteq U => V = U
    <3>1. Failing \subseteq SUBSET S
      OBVIOUS
    <3> HIDE DEF Failing
    <3> QED BY <3>1, MinimalSubset
  <2> QED BY <2>1
<1> DEFINE x == First(U)
<1>1. Unfolds(U)
  BY FS_Subset, TotalUnfolds
<1>2. CASE U = {}
  BY <1>1, <1>2 DEF Unfolds
<1>3. CASE U # {}
  <2>1. x \in U /\ x.population \in Nat /\ Total(U) = x.population + Total(U \ {x})
    BY <1>1, <1>3 DEF Unfolds, First
  <2> HIDE DEF x
  <2>2. Sums(U \ {x})
    BY <2>1
  <2>3. ASSUME NEW p \in U, p # x PROVE Total(U) = p.population + Total(U \ {p})
    <3>1. Sums(U \ {p}) /\ p \in U \ {x} /\ x \in U \ {p} /\ p.population \in Nat
      BY <2>1, <2>3
    <3>2. (U \ {p}) \ {x} = (U \ {x}) \ {p}
      OBVIOUS
    <3>3. /\ Total(U \ {x}) = p.population + Total((U \ {x}) \ {p})
          /\ Total(U \ {p}) = x.population + Total((U \ {p}) \ {x})
      BY <2>2, <3>1
    <3>4. (U \ {x}) \ {p} \in SUBSET U /\ (U \ {x}) \ {p} # U
      BY <2>1
    <3>5. Total((U \ {x}) \ {p}) \in Nat
      BY <3>4
    <3> QED BY <2>1, <3>1, <3>2, <3>3, <3>5
  <2>4. Total(U) \in Nat
    BY <2>1, <2>2
  <2>5. \A p \in U : Total(U) = p.population + Total(U \ {p})
    BY <2>1, <2>3
  <2> QED BY <2>4, <2>5
<1> QED BY <1>2, <1>3

\* The elements of sequences put together and taken apart.
LEMMA ToSetOfConcat ==
  ASSUME NEW S, NEW s \in Seq(S), NEW t \in Seq(S)
  PROVE  s \o t \in Seq(S) /\ ToSet(s \o t) = ToSet(s) \cup ToSet(t)
<1>1. /\ s \o t \in Seq(S) /\ Len(s \o t) = Len(s) + Len(t)
      /\ \A i \in 1..Len(s) + Len(t) : (s \o t)[i] = IF i <= Len(s) THEN s[i] ELSE t[i - Len(s)]
  BY ConcatProperties
<1>2. /\ DOMAIN s = 1..Len(s) /\ DOMAIN t = 1..Len(t) /\ DOMAIN (s \o t) = 1..Len(s \o t)
      /\ Len(s) \in Nat /\ Len(t) \in Nat
  BY <1>1, LenProperties
<1>3. ASSUME NEW x \in ToSet(s \o t) PROVE x \in ToSet(s) \cup ToSet(t)
  <2>1. PICK i \in 1..Len(s) + Len(t) : x = (s \o t)[i]
    BY <1>1, <1>2 DEF ToSet
  <2>2. CASE i <= Len(s)
    BY <1>1, <1>2, <2>1, <2>2 DEF ToSet
  <2>3. CASE i > Len(s)
    <3>1. i - Len(s) \in 1..Len(t) /\ x = t[i - Len(s)]
      BY <1>1, <1>2, <2>1, <2>3
    <3> QED BY <1>2, <3>1 DEF ToSet
  <2> QED BY <1>2, <2>2, <2>3
<1>4. ASSUME NEW x \in ToSet(s) PROVE x \in ToSet(s \o t)
  <2>1. PICK i \in 1..Len(s) : x = s[i]
    BY <1>2 DEF ToSet
  <2>2. i \in 1..Len(s) + Len(t) /\ x = (s \o t)[i]
    BY <1>1, <1>2, <2>1
  <2> QED BY <1>1, <1>2, <2>2 DEF ToSet
<1>5. ASSUME NEW x \in ToSet(t) PROVE x \in ToSet(s \o t)
  <2>1. PICK i \in 1..Len(t) : x = t[i]
    BY <1>2 DEF ToSet
  <2>2. i + Len(s) \in 1..Len(s) + Len(t) /\ x = (s \o t)[i + Len(s)]
    BY <1>1, <1>2, <2>1
  <2> QED BY <1>1, <1>2, <2>2 DEF ToSet
<1> QED BY <1>1, <1>3, <1>4, <1>5

\* A sequence that is not empty holds its head, and what its tail holds.
LEMMA ToSetOfTail ==
  ASSUME NEW S, NEW s \in Seq(S), s # << >>
  PROVE  /\ Head(s) \in S /\ Tail(s) \in Seq(S) /\ Len(Tail(s)) = Len(s) - 1
         /\ ToSet(s) = {Head(s)} \cup ToSet(Tail(s))
<1>1. /\ Head(s) \in S /\ Tail(s) \in Seq(S) /\ Len(Tail(s)) = Len(s) - 1
      /\ \A i \in 1..Len(Tail(s)) : Tail(s)[i] = s[i + 1]
  BY HeadTailProperties
<1>2. /\ DOMAIN s = 1..Len(s) /\ DOMAIN Tail(s) = 1..Len(Tail(s)) /\ Len(s) \in Nat \ {0}
      /\ Head(s) = s[1]
  BY <1>1, LenProperties, EmptySeq
<1>3. ASSUME NEW x \in ToSet(s) PROVE x \in {Head(s)} \cup ToSet(Tail(s))
  <2>1. PICK i \in 1..Len(s) : x = s[i]
    BY <1>2 DEF ToSet
  <2>2. CASE i # 1
    <3>1. i - 1 \in 1..Len(Tail(s)) /\ x = Tail(s)[i - 1]
      BY <1>1, <1>2, <2>1, <2>2
    <3> QED BY <1>2, <3>1 DEF ToSet
  <2> QED BY <1>2, <2>1, <2>2
<1>4. ASSUME NEW x \in {Head(s)} \cup ToSet(Tail(s)) PROVE x \in ToSet(s)
  <2>1. CASE x = Head(s)
    BY <1>2, <2>1 DEF ToSet
  <2>2. CASE x \in ToSet(Tail(s))
    <3>1. PICK i \in 1..Len(Tail(s)) : x = Tail(s)[i]
      BY <1>2, <2>2 DEF ToSet
    <3>2. i + 1 \in 1..Len(s) /\ x = s[i + 1]
      BY <1>1, <1>2, <3>1
    <3> QED BY <1>2, <3>2 DEF ToSet
  <2> QED BY <1>4, <2>1, <2>2
<1> QED BY <1>1, <1>3, <1>4

\* A finite set put in sequence is the set.
LEMMA ToSetOfSetToSeq ==
  ASSUME NEW S, IsFiniteSet(S)
  PROVE  SetToSeq(S) \in Seq(S) /\ ToSet(SetToSeq(S)) = S
<1> DEFINE n == Cardinality(S)
<1>1. n \in Nat /\ ExistsBijection(1..n, S)
  BY FS_CardinalityType
<1>2. PICK f : f \in Injection(1..n, S) /\ f \in Surjection(1..n, S)
  BY <1>1 DEF ExistsBijection, Bijection
<1>3. f \in [1..n -> S] /\ IsInjective(f)
  BY <1>2 DEF Injection
<1>4. SetToSeq(S) \in [1..n -> S] /\ IsInjective(SetToSeq(S))
  BY <1>3 DEF SetToSeq
<1>5. SetToSeq(S) \in Injection(1..n, S)
  BY <1>4 DEF Injection
<1>6. SetToSeq(S) \in Surjection(1..n, S)
  <2>1. IsFiniteSet(1..n) /\ Cardinality(1..n) = n
    BY <1>1, FS_Interval
  <2> QED BY <1>5, <2>1, FS_Injection
<1>7. SetToSeq(S) \in Seq(S)
  BY <1>1, <1>4, SeqDef
<1>8. ToSet(SetToSeq(S)) = S
  BY <1>4, <1>6 DEF ToSet, Surjection
<1> QED BY <1>7, <1>8

-----------------------------------------------------------------------------
Later(i, j) == \/ records[i].asOf > records[j].asOf
               \/ records[i].asOf = records[j].asOf /\ i > j

\* Of some figures there is one newest, and Newest finds it.
LEMMA NewestIsLast ==
  ASSUME records \in Seq(GroupPopulation), NEW S \in SUBSET Rows, S # {}
  PROVE  /\ Newest(S) \in S
         /\ \A i \in S : i = Newest(S) <=> \A j \in S : ~Later(j, i)
<1>1. /\ Len(records) \in Nat /\ Rows \subseteq Nat /\ IsFiniteSet(Rows)
      /\ \A i \in Rows : records[i].asOf \in Nat
  <2>1. Len(records) \in Nat /\ records \in [1..Len(records) -> GroupPopulation]
    BY LenProperties
  <2>2. IsFiniteSet(Rows)
    BY <2>1, FS_Interval DEF Rows
  <2>3. Rows \subseteq Nat /\ \A i \in Rows : records[i] \in GroupPopulation
    BY <2>1 DEF Rows
  <2>4. \A i \in Rows : records[i].asOf \in Nat
    BY <2>3, PopulationsAssumption DEF GroupPopulation
  <2> QED BY <2>1, <2>2, <2>3, <2>4
<1>2. ASSUME NEW U \in SUBSET Rows, U # {}, \A V \in SUBSET U : V # U /\ V # {} =>
               \E i \in V : \A j \in V : ~Later(j, i)
      PROVE  \E i \in U : \A j \in U : ~Later(j, i)
  <2>1. PICK x : x \in U
    BY <1>2
  <2>2. CASE U = {x}
    BY <1>1, <2>2 DEF Later
  <2>3. CASE U # {x}
    <3>1. PICK i \in U \ {x} : \A j \in U \ {x} : ~Later(j, i)
      BY <1>2, <2>1, <2>3
    <3>2. CASE Later(x, i)
      <4>1. \A j \in U : ~Later(j, x)
        BY <1>1, <2>1, <3>1, <3>2 DEF Later
      <4> QED BY <2>1, <4>1
    <3>3. CASE ~Later(x, i)
      BY <3>1, <3>3
    <3> QED BY <3>2, <3>3
  <2> QED BY <2>2, <2>3
<1>3. \E i \in S : \A j \in S : ~Later(j, i)
  <2> DEFINE Failing == {U \in SUBSET Rows : U # {} /\ ~\E i \in U : \A j \in U : ~Later(j, i)}
  <2> SUFFICES ASSUME Failing # {} PROVE FALSE
    OBVIOUS
  <2>1. PICK U \in Failing : \A V \in Failing : V \subseteq U => V = U
    <3>1. Failing \subseteq SUBSET Rows /\ IsFiniteSet(Rows)
      BY <1>1
    <3> HIDE DEF Failing
    <3> QED BY <3>1, MinimalSubset
  <2> QED BY <1>2, <2>1
<1>4. \A i, j \in S : ~Later(j, i) <=> \/ records[j].asOf < records[i].asOf
                                       \/ records[j].asOf = records[i].asOf /\ j <= i
  BY <1>1 DEF Later
<1>5. Newest(S) \in S /\ \A j \in S : ~Later(j, Newest(S))
  BY <1>3, <1>4 DEF Newest
<1>6. ASSUME NEW i \in S, \A j \in S : ~Later(j, i) PROVE i = Newest(S)
  <2>1. ~Later(i, Newest(S)) /\ ~Later(Newest(S), i) /\ i \in Rows /\ Newest(S) \in Rows
    BY <1>5, <1>6
  <2>2. /\ records[i].asOf \in Nat /\ records[Newest(S)].asOf \in Nat
        /\ i \in Nat /\ Newest(S) \in Nat
    BY <1>1, <2>1
  <2> QED BY <2>1, <2>2 DEF Later
<1> QED BY <1>5, <1>6

(***************************************************************************)
(* What a read has found.  The groups it is to answer from are those it is *)
(* led to; the figure of each is the newest standing one.                  *)
(***************************************************************************)
ClosedFor(call, S) == \A h \in S : StandingFigures(h) # {} \/ call.children[h] \subseteq S

ReachedBy(call) ==
  {h \in Groups : \A S \in SUBSET Groups : call.of \in S /\ ClosedFor(call, S) => h \in S}

Part(h) == records[Newest(StandingFigures(h))]
Parts(S) == {Part(h) : h \in {g \in S : StandingFigures(g) # {}}}

\* The oldest date of some rows, 0 where there is none.
Dated(d, P) == IF P = {} THEN d = 0
               ELSE (\A p \in P : d <= p.asOf) /\ (\E p \in P : d = p.asOf)

\* The groups a read has come to or is to come to.
Come(call) == call.seen \cup ToSet(call.agenda)

(***************************************************************************)
(* The strengthening.  While nobody records a figure, a read has come to   *)
(* its group, to the inner groups of those it has seen without a figure,   *)
(* and to none but those it is led to; and it has summed the groups seen.  *)
(***************************************************************************)
ReadSound(call) ==
  /\ call.since <= Len(records)
  /\ call.since = Len(records) =>
       /\ call.of \in Come(call) /\ Come(call) \subseteq ReachedBy(call)
       /\ \A h \in call.seen : StandingFigures(h) # {} \/ call.children[h] \subseteq Come(call)
       /\ call.population = Total(Parts(call.seen))
       /\ Dated(call.asOf, Parts(call.seen))

PopulationsInv ==
  /\ TreeInv /\ PopulationsTypeOK
  /\ \A w \in WithdrawCalls : withdrawals[w].step = "insert" => withdrawals[w].of \in Figures
  /\ \A r \in ReadCalls : reads[r].step = "visit" => ReadSound(reads[r])

\* A call that has a step to go.
LEMMA PopulationCalls ==
  ASSUME PopulationsTypeOK
  PROVE  /\ Idle.step = "idle" /\ Done.step = "done"
         /\ \A w \in WithdrawCalls :
              withdrawals[w].step = "insert" => withdrawals[w] \in WithdrawCall
         /\ \A r \in ReadCalls : reads[r].step = "visit" => reads[r] \in ReadCall
BY DEF PopulationsTypeOK, Idle, Done

\* The rows, and the figures that stand.
LEMMA RowsAreTyped ==
  ASSUME records \in Seq(GroupPopulation)
  PROVE  /\ Len(records) \in Nat /\ Rows = 1..Len(records) /\ IsFiniteSet(Rows)
         /\ \A i \in Rows :
              /\ records[i] \in GroupPopulation /\ records[i].group \in Groups
              /\ records[i].population \in Nat /\ records[i].asOf \in Nat \ {0}
              /\ records[i].withdraws \in Nat
         /\ \A g : StandingFigures(g) \in SUBSET Rows
         /\ \A g : \A i \in StandingFigures(g) : records[i].group = g
<1>1. Len(records) \in Nat /\ records \in [1..Len(records) -> GroupPopulation]
  BY LenProperties
<1>2. IsFiniteSet(Rows)
  BY <1>1, FS_Interval DEF Rows
<1> QED
  BY <1>1, <1>2, PopulationsAssumption DEF Rows, GroupPopulation, StandingFigures, Figures

\* A group's part is a row of the group's.
LEMMA PartOfGroup ==
  ASSUME records \in Seq(GroupPopulation), NEW g, StandingFigures(g) # {}
  PROVE  /\ Newest(StandingFigures(g)) \in StandingFigures(g)
         /\ Part(g) \in GroupPopulation /\ Part(g).group = g
         /\ Part(g).population \in Nat /\ Part(g).asOf \in Nat \ {0}
<1>1. Newest(StandingFigures(g)) \in StandingFigures(g)
  BY RowsAreTyped, NewestIsLast
<1> QED BY <1>1, RowsAreTyped DEF Part

\* There are finitely many parts, and a group's is none of another's.
LEMMA PartsOfOneMore ==
  ASSUME records \in Seq(GroupPopulation), NEW S, NEW g, g \notin S
  PROVE  /\ IsFiniteSet(Parts(S)) /\ \A p \in Parts(S) : p.population \in Nat /\ p.asOf \in Nat \ {0}
         /\ StandingFigures(g) = {} => Parts(S \cup {g}) = Parts(S)
         /\ StandingFigures(g) # {} =>
              Parts(S \cup {g}) = Parts(S) \cup {Part(g)} /\ Part(g) \notin Parts(S)
<1>1. \A p \in Parts(S) : p.population \in Nat /\ p.asOf \in Nat \ {0} /\ p.group \in S
  BY PartOfGroup DEF Parts
<1>2. IsFiniteSet(Parts(S))
  <2> DEFINE T == {i \in Rows : records[i] \in Parts(S)}
             f == [i \in T |-> records[i]]
  <2>1. IsFiniteSet(T)
    BY RowsAreTyped, FS_Subset
  <2>2. \A p \in Parts(S) : \E i \in T : records[i] = p
    BY RowsAreTyped, PartOfGroup DEF Parts, Part
  <2>3. f \in Surjection(T, Parts(S))
    BY <2>2 DEF Surjection
  <2> HIDE DEF T, f
  <2> QED BY <2>1, <2>3, FS_Surjection
<1>3. StandingFigures(g) = {} => Parts(S \cup {g}) = Parts(S)
  BY DEF Parts
<1>4. StandingFigures(g) # {} =>
        Parts(S \cup {g}) = Parts(S) \cup {Part(g)} /\ Part(g) \notin Parts(S)
  BY <1>1, PartOfGroup DEF Parts
<1> QED BY <1>1, <1>2, <1>3, <1>4

\* The names of the read's group and children alone say where it is led.
LEMMA ReachedIsBy ==
  ASSUME NEW r
  PROVE  Reached(r) = ReachedBy(reads[r])
BY DEF Reached, ReachedBy, ClosedFor

\* What a read has found is as sound where no row is recorded.
LEMMA SoundWhileRowsStand ==
  ASSUME UNCHANGED records, NEW q, ReadSound(reads'[q])
  PROVE  ReadSound(reads[q])'
<1>1. \A g : StandingFigures(g)' = StandingFigures(g)
  BY DEF StandingFigures, Figures, WithdrawnIDs, Rows
<1>2. \A S : Newest(S)' = Newest(S)
  BY DEF Newest
<1>3. Parts(reads[q].seen)' = Parts(reads'[q].seen)
  BY <1>1, <1>2 DEF Parts, Part
<1>4. ReachedBy(reads[q])' = ReachedBy(reads'[q])
  BY <1>1 DEF ReachedBy, ClosedFor
<1>5. Total(Parts(reads[q].seen))' = Total(Parts(reads'[q].seen))
  BY <1>3
<1> QED BY <1>1, <1>3, <1>4, <1>5 DEF ReadSound, Come, Dated

\* Groups move, or a withdrawal begins.
LEMMA RowsStandStill ==
  ASSUME PopulationsInv, UNCHANGED <<records, reads>>, TreeInv',
         withdrawals' \in [WithdrawCalls -> WithdrawCall \cup {Idle, Done}],
         \A w \in WithdrawCalls :
           withdrawals'[w].step = "insert" => withdrawals'[w].of \in Figures
  PROVE  PopulationsInv'
<1>1. PopulationsTypeOK'
  BY DEF PopulationsInv, PopulationsTypeOK, TreeInv, Rows
<1>2. ASSUME NEW q \in ReadCalls, reads'[q].step = "visit" PROVE ReadSound(reads[q])'
  <2>1. ReadSound(reads'[q])
    BY <1>2 DEF PopulationsInv
  <2> QED BY <2>1, SoundWhileRowsStand
<1>3. Figures' = Figures
  BY DEF Figures, Rows
<1> QED BY <1>1, <1>2, <1>3 DEF PopulationsInv

\* A read goes on or answers.
LEMMA OneReadMoves ==
  ASSUME PopulationsInv, NEW r \in ReadCalls, NEW call \in ReadCall \cup {Done},
         reads' = [reads EXCEPT ![r] = call],
         UNCHANGED <<created, parent, moves, records, withdrawals>>,
         call \in ReadCall => ReadSound(call)
  PROVE  PopulationsInv'
<1>1. reads'[r] = call /\ \A q \in ReadCalls \ {r} : reads'[q] = reads[q]
  BY DEF PopulationsInv, PopulationsTypeOK
<1>2. reads' \in [ReadCalls -> ReadCall \cup {Idle, Done}]
  BY DEF PopulationsInv, PopulationsTypeOK
<1>3. TreeInv'
  BY DEF PopulationsInv, TreeInv, TreeTypeOK, MovesDown, Apart, Upward
<1>4. PopulationsTypeOK'
  BY <1>2, <1>3 DEF PopulationsInv, PopulationsTypeOK, TreeInv, Rows
<1>5. ASSUME NEW q \in ReadCalls, reads'[q].step = "visit" PROVE ReadSound(reads[q])'
  <2>1. ReadSound(reads'[q])
    BY <1>1, <1>5, PopulationCalls DEF PopulationsInv, Done
  <2> QED BY <2>1, SoundWhileRowsStand
<1>6. \A w \in WithdrawCalls :
        withdrawals'[w].step = "insert" => withdrawals'[w].of \in Figures'
  BY DEF PopulationsInv, Figures, Rows
<1> QED BY <1>3, <1>4, <1>5, <1>6 DEF PopulationsInv

\* A row recorded: no read begun before sums up what there is by now.
LEMMA RowIsRecorded ==
  ASSUME PopulationsInv, NEW p \in GroupPopulation, records' = Append(records, p),
         UNCHANGED <<created, parent, moves, reads>>,
         withdrawals' \in [WithdrawCalls -> WithdrawCall \cup {Idle, Done}],
         \A w \in WithdrawCalls :
           withdrawals'[w].step = "insert" => withdrawals'[w].of \in Figures,
         p.withdraws # 0 =>
           /\ p.withdraws \in Rows
           /\ p = [records[p.withdraws] EXCEPT !.withdraws = p.withdraws]
  PROVE  PopulationsInv'
<1>1. /\ records \in Seq(GroupPopulation) /\ Len(records) \in Nat /\ Rows = 1..Len(records)
      /\ \A i \in Rows : records[i] \in GroupPopulation
  BY RowsAreTyped DEF PopulationsInv, PopulationsTypeOK
<1>2. /\ records' \in Seq(GroupPopulation) /\ Len(records') = Len(records) + 1
      /\ \A i \in Rows : records'[i] = records[i]
      /\ records'[Len(records) + 1] = p
  BY <1>1
<1>3. Rows' = Rows \cup {Len(records) + 1}
  BY <1>1, <1>2 DEF Rows
<1>4. TreeInv'
  BY DEF PopulationsInv, TreeInv, TreeTypeOK, MovesDown, Apart, Upward
<1>5. ASSUME NEW i \in Rows', records'[i].withdraws # 0
      PROVE  /\ records'[i].withdraws < i
             /\ records'[i] = [records'[records'[i].withdraws] EXCEPT !.withdraws = records'[i].withdraws]
  <2>1. CASE i \in Rows
    <3> DEFINE j == records[i].withdraws
    <3>1. j \in Nat \ {0} /\ j < i /\ records[i] = [records[j] EXCEPT !.withdraws = j]
      BY <1>1, <1>2, <1>5, <2>1 DEF PopulationsInv, PopulationsTypeOK, GroupPopulation
    <3>2. j \in Rows
      BY <1>1, <2>1, <3>1
    <3> HIDE DEF j
    <3>3. records'[i] = records[i] /\ records'[j] = records[j] /\ j = records'[i].withdraws
      BY <1>2, <2>1, <3>2 DEF j
    <3> QED BY <3>1, <3>3
  <2>2. CASE i = Len(records) + 1
    BY <1>1, <1>2, <1>5, <2>2
  <2> QED BY <1>3, <2>1, <2>2
<1>6. PopulationsTypeOK'
  BY <1>2, <1>4, <1>5 DEF PopulationsInv, PopulationsTypeOK, TreeInv
<1>7. ASSUME NEW q \in ReadCalls, reads'[q].step = "visit" PROVE ReadSound(reads[q])'
  <2>1. reads'[q] = reads[q] /\ reads[q] \in ReadCall /\ reads[q].since <= Len(records)
    BY <1>7, PopulationCalls DEF PopulationsInv, ReadSound
  <2>2. reads[q].since \in Nat
    BY <2>1 DEF ReadCall
  <2>3. reads'[q].since <= Len(records') /\ reads'[q].since # Len(records')
    BY <1>1, <1>2, <2>1, <2>2
  <2> QED BY <2>3 DEF ReadSound
<1>8. Figures \subseteq Figures'
  BY <1>2, <1>3 DEF Figures
<1> QED BY <1>4, <1>6, <1>7, <1>8 DEF PopulationsInv

\* A read is led from a group without a figure to its inner groups.
LEMMA LedToInner ==
  ASSUME NEW call, NEW g \in ReachedBy(call), StandingFigures(g) = {},
         call.children[g] \subseteq Groups
  PROVE  call.children[g] \subseteq ReachedBy(call)
BY DEF ReachedBy, ClosedFor

\* A group more is a part more in the sum, and the date is no younger.
LEMMA PartIsAdded ==
  ASSUME records \in Seq(GroupPopulation), NEW S, NEW g, g \notin S, StandingFigures(g) # {},
         NEW population, population = Total(Parts(S)), NEW d \in Nat, Dated(d, Parts(S))
  PROVE  /\ population + Part(g).population = Total(Parts(S \cup {g}))
         /\ Dated(Older(d, Part(g).asOf), Parts(S \cup {g}))
<1> DEFINE P == Parts(S)
           p == Part(g)
<1>1. /\ IsFiniteSet(P) /\ \A q \in P : q.population \in Nat /\ q.asOf \in Nat \ {0}
      /\ Parts(S \cup {g}) = P \cup {p} /\ p \notin P
  BY PartsOfOneMore
<1>2. p.population \in Nat /\ p.asOf \in Nat \ {0}
  BY PartOfGroup
<1>0. population = Total(P)
  OBVIOUS
<1> HIDE DEF P, p
<1>3. IsFiniteSet(P \cup {p}) /\ \A q \in P \cup {p} : q.population \in Nat
  BY <1>1, <1>2, FS_AddElement
<1>4. /\ Total(P \cup {p}) = p.population + Total((P \cup {p}) \ {p})
      /\ Total(P) \in Nat
  BY <1>1, <1>3, TotalOfOneMore
<1>5. Total((P \cup {p}) \ {p}) = Total(P)
  <2>1. (P \cup {p}) \ {p} = P
    BY <1>1
  <2> QED BY <2>1, Zenon
<1>6. population + p.population = Total(P \cup {p})
  BY <1>0, <1>2, <1>4, <1>5
<1>7. Dated(Older(d, p.asOf), P \cup {p})
  <2>1. Dated(d, P)
    BY DEF P
  <2>2. CASE P = {}
    BY <1>2, <2>1, <2>2 DEF Dated, Older
  <2>3. CASE P # {}
    <3>1. PICK q \in P : d = q.asOf
      BY <2>1, <2>3 DEF Dated
    <3>2. d # 0 /\ \A o \in P : d <= o.asOf
      BY <1>1, <2>1, <2>3, <3>1 DEF Dated
    <3>3. CASE p.asOf < d
      <4>1. Older(d, p.asOf) = p.asOf /\ \A o \in P \cup {p} : p.asOf <= o.asOf
        BY <1>1, <1>2, <3>2, <3>3 DEF Older
      <4> QED BY <4>1 DEF Dated
    <3>4. CASE ~(p.asOf < d)
      <4>1. Older(d, p.asOf) = d /\ \A o \in P \cup {p} : d <= o.asOf
        BY <1>1, <1>2, <3>2, <3>4 DEF Older
      <4> QED BY <3>1, <4>1 DEF Dated
    <3> QED BY <3>3, <3>4
  <2> QED BY <2>2, <2>3
<1> QED BY <1>1, <1>6, <1>7 DEF P, p

(***************************************************************************)
(* The three ways of a visit: the group was met, has a figure, or is asked *)
(* for its inner groups.                                                   *)
(***************************************************************************)
Passed(call) == [call EXCEPT !.agenda = Tail(call.agenda)]

Added(call) ==
  [call EXCEPT !.agenda = Tail(call.agenda), !.seen = call.seen \cup {Head(call.agenda)},
               !.population = call.population + Part(Head(call.agenda)).population,
               !.asOf = Older(call.asOf, Part(Head(call.agenda)).asOf)]

Descended(call) ==
  [call EXCEPT !.agenda = SetToSeq(call.children[Head(call.agenda)]) \o Tail(call.agenda),
               !.seen = call.seen \cup {Head(call.agenda)}]

\* A visit is one of the three, and moves nothing else.
LEMMA VisitsByOutcome ==
  ASSUME PopulationsTypeOK, NEW r \in ReadCalls, VisitNext(r)
  PROVE  LET call == reads[r]
             g == Head(call.agenda)
         IN  /\ call \in ReadCall /\ call.step = "visit" /\ call.agenda # << >>
             /\ UNCHANGED <<created, parent, moves, records, withdrawals>>
             /\ \/ g \in call.seen /\ reads' = [reads EXCEPT ![r] = Passed(call)]
                \/ /\ g \notin call.seen /\ StandingFigures(g) # {}
                   /\ reads' = [reads EXCEPT ![r] = Added(call)]
                \/ /\ g \notin call.seen /\ StandingFigures(g) = {}
                   /\ reads' = [reads EXCEPT ![r] = Descended(call)]
<1> DEFINE call == reads[r]
           g == Head(call.agenda)
           visited == [call EXCEPT !.agenda = Tail(@), !.seen = @ \cup {g}]
           figure == records[Newest(StandingFigures(g))]
           added == [visited EXCEPT !.population = @ + figure.population,
                                    !.asOf = Older(@, figure.asOf)]
<1>1. call \in ReadCall /\ call.step = "visit" /\ call.agenda # << >>
  BY PopulationCalls DEF VisitNext
<1>2. /\ added = Added(call)
      /\ [visited EXCEPT !.agenda = SetToSeq(call.children[g]) \o @] = Descended(call)
  BY <1>1 DEF ReadCall, Added, Descended, Part
<1>3. CASE g \in call.seen
  BY <1>1, <1>3 DEF VisitNext, Met, Passed
<1>4. CASE g \notin call.seen /\ StandingFigures(g) # {}
  <2>1. reads' = [reads EXCEPT ![r] = added]
    BY <1>4 DEF VisitNext, Met
  <2> QED BY <1>1, <1>2, <1>4, <2>1 DEF VisitNext
<1>5. CASE g \notin call.seen /\ StandingFigures(g) = {}
  <2>1. reads' = [reads EXCEPT ![r] =
                    [visited EXCEPT !.agenda = SetToSeq(call.children[g]) \o @]]
    BY <1>5 DEF VisitNext, Met, Inner
  <2> QED BY <1>1, <1>2, <1>5, <2>1 DEF VisitNext
<1> QED BY <1>3, <1>4, <1>5

\* A visit keeps the strengthening.
LEMMA VisitsKeepReads ==
  ASSUME PopulationsInv, NEW r \in ReadCalls, VisitNext(r)
  PROVE  PopulationsInv'
<1> DEFINE call == reads[r]
           g == Head(call.agenda)
           rest == Tail(call.agenda)
<1>1. /\ call \in ReadCall /\ call.step = "visit" /\ call.agenda # << >>
      /\ UNCHANGED <<created, parent, moves, records, withdrawals>>
      /\ \/ g \in call.seen /\ reads' = [reads EXCEPT ![r] = Passed(call)]
         \/ /\ g \notin call.seen /\ StandingFigures(g) # {}
            /\ reads' = [reads EXCEPT ![r] = Added(call)]
         \/ /\ g \notin call.seen /\ StandingFigures(g) = {}
            /\ reads' = [reads EXCEPT ![r] = Descended(call)]
  BY VisitsByOutcome DEF PopulationsInv
<1>2. ReadSound(call) /\ records \in Seq(GroupPopulation)
  BY <1>1 DEF PopulationsInv, PopulationsTypeOK
<1>3. /\ call.agenda \in Seq(Groups) /\ call.children \in [Groups -> SUBSET Groups]
      /\ call.seen \in SUBSET Groups /\ call.population \in Nat /\ call.asOf \in Nat
  BY <1>1 DEF ReadCall
<1>4. /\ g \in Groups /\ rest \in Seq(Groups) /\ ToSet(call.agenda) = {g} \cup ToSet(rest)
  BY <1>1, <1>3, ToSetOfTail
<1>5. Parts(call.seen \cup {g}) = Parts(call.seen) \/ StandingFigures(g) # {} \/ g \in call.seen
  BY <1>2, PartsOfOneMore
<1>6. CASE g \in call.seen /\ reads' = [reads EXCEPT ![r] = Passed(call)]
  <2> DEFINE new == Passed(call)
  <2>1. /\ new \in ReadCall /\ new.of = call.of /\ new.children = call.children
        /\ new.since = call.since /\ new.agenda = rest /\ new.seen = call.seen
        /\ new.population = call.population /\ new.asOf = call.asOf
    BY <1>1, <1>4 DEF ReadCall, Passed
  <2>2. Come(new) = Come(call) /\ ReachedBy(new) = ReachedBy(call)
    BY <1>4, <1>6, <2>1 DEF Come, ReachedBy, ClosedFor
  <2> HIDE DEF new
  <2>3. ReadSound(new)
    BY <1>2, <2>1, <2>2 DEF ReadSound
  <2> QED BY <1>1, <1>6, <2>1, <2>3, OneReadMoves DEF new
<1>7. CASE /\ g \notin call.seen /\ StandingFigures(g) # {}
           /\ reads' = [reads EXCEPT ![r] = Added(call)]
  <2> DEFINE new == Added(call)
             n == call.population + Part(g).population
             d == Older(call.asOf, Part(g).asOf)
  <2>n. n \in Nat /\ d \in Nat /\ call.seen \cup {g} \in SUBSET Groups
    BY <1>2, <1>3, <1>4, <1>7, PartOfGroup DEF Older
  <2>a. new = [call EXCEPT !.agenda = rest, !.seen = call.seen \cup {g},
                           !.population = n, !.asOf = d]
    BY DEF Added
  <2> HIDE DEF n, d, new
  <2>1. /\ new \in ReadCall /\ new.of = call.of /\ new.children = call.children
        /\ new.since = call.since /\ new.agenda = rest /\ new.seen = call.seen \cup {g}
        /\ new.population = n /\ new.asOf = d
    BY <1>1, <1>4, <2>n, <2>a DEF ReadCall
  <2>2. Come(new) = Come(call) /\ ReachedBy(new) = ReachedBy(call)
    BY <1>4, <1>7, <2>1 DEF Come, ReachedBy, ClosedFor
  <2>3. call.since = Len(records) =>
          /\ new.population = Total(Parts(new.seen))
          /\ Dated(new.asOf, Parts(new.seen))
    <3>1. SUFFICES ASSUME call.since = Len(records)
                   PROVE  /\ call.population + Part(g).population = Total(Parts(call.seen \cup {g}))
                          /\ Dated(Older(call.asOf, Part(g).asOf), Parts(call.seen \cup {g}))
      BY <2>1 DEF n, d
    <3>2. call.population = Total(Parts(call.seen)) /\ Dated(call.asOf, Parts(call.seen))
      BY <1>2, <3>1 DEF ReadSound
    <3> QED BY <1>2, <1>3, <1>7, <3>2, PartIsAdded
  <2>4. \A h \in new.seen :
          call.since = Len(records) => StandingFigures(h) # {} \/ new.children[h] \subseteq Come(new)
    BY <1>2, <1>7, <2>1, <2>2 DEF ReadSound
  <2>5. ReadSound(new)
    BY <1>2, <2>1, <2>2, <2>3, <2>4 DEF ReadSound
  <2> QED BY <1>1, <1>7, <2>1, <2>5, OneReadMoves DEF new
<1>8. CASE /\ g \notin call.seen /\ StandingFigures(g) = {}
           /\ reads' = [reads EXCEPT ![r] = Descended(call)]
  <2> DEFINE new == Descended(call)
             inner == call.children[g]
  <2>0. /\ inner \in SUBSET Groups /\ SetToSeq(inner) \in Seq(Groups)
        /\ ToSet(SetToSeq(inner)) = inner
    <3>1. inner \in SUBSET Groups /\ IsFiniteSet(inner)
      BY <1>3, <1>4, FS_Subset, PopulationsAssumption
    <3>2. SetToSeq(inner) \in Seq(inner) /\ ToSet(SetToSeq(inner)) = inner
      BY <3>1, ToSetOfSetToSeq
    <3> QED BY <3>1, <3>2, SeqMonotonic
  <2> HIDE DEF inner
  <2>1. /\ SetToSeq(inner) \o rest \in Seq(Groups)
        /\ ToSet(SetToSeq(inner) \o rest) = inner \cup ToSet(rest)
    <3>1. SetToSeq(inner) \in Seq(Groups) /\ rest \in Seq(Groups)
      BY <1>4, <2>0
    <3>2. /\ SetToSeq(inner) \o rest \in Seq(Groups)
          /\ ToSet(SetToSeq(inner) \o rest) = ToSet(SetToSeq(inner)) \cup ToSet(rest)
      BY <3>1, ToSetOfConcat
    <3> QED BY <2>0, <3>2
  <2>2. /\ new \in ReadCall /\ new.of = call.of /\ new.children = call.children
        /\ new.since = call.since /\ new.agenda = SetToSeq(inner) \o rest
        /\ new.seen = call.seen \cup {g}
        /\ new.population = call.population /\ new.asOf = call.asOf
    BY <1>1, <1>3, <1>4, <2>1 DEF ReadCall, Descended, inner
  <2>3. Come(new) = Come(call) \cup inner /\ ReachedBy(new) = ReachedBy(call)
    BY <1>4, <2>1, <2>2 DEF Come, ReachedBy, ClosedFor
  <2> HIDE DEF new
  <2>4. call.since = Len(records) => Come(new) \subseteq ReachedBy(new)
    <3>1. SUFFICES ASSUME call.since = Len(records) PROVE inner \subseteq ReachedBy(call)
      BY <1>2, <2>3, <3>1 DEF ReadSound
    <3>2. g \in ReachedBy(call)
      BY <1>2, <1>4, <3>1 DEF ReadSound, Come
    <3> QED BY <1>8, <2>0, <3>2, LedToInner DEF inner
  <2>5. \A h \in new.seen :
          call.since = Len(records) => StandingFigures(h) # {} \/ new.children[h] \subseteq Come(new)
    BY <1>2, <2>2, <2>3 DEF ReadSound, inner
  <2>6. Parts(new.seen) = Parts(call.seen)
    BY <1>5, <1>8, <2>2
  <2>7. ReadSound(new)
    BY <1>2, <2>2, <2>3, <2>4, <2>5, <2>6 DEF ReadSound
  <2> QED BY <1>1, <1>8, <2>2, <2>7, OneReadMoves DEF new
<1> QED BY <1>1, <1>6, <1>7, <1>8

\* A read begins at its group, with nothing summed.
LEMMA ReadsBegin ==
  ASSUME PopulationsInv, NEW r \in ReadCalls, NEW g \in created, LatestGroupPopulation(r, g)
  PROVE  PopulationsInv'
<1> DEFINE new == [step |-> "visit", of |-> g,
                   children |-> [h \in Groups |-> {c \in created : parent[c] = h}],
                   agenda |-> <<g>>, seen |-> {}, population |-> 0, asOf |-> 0,
                   since |-> Len(records)]
<1>1. created \subseteq Groups /\ records \in Seq(GroupPopulation)
  BY DEF PopulationsInv, PopulationsTypeOK, TreeTypeOK
<1>2. <<g>> \in Seq(Groups) /\ ToSet(<<g>>) = {g}
  BY <1>1 DEF ToSet
<1>3. Len(records) \in Nat
  BY <1>1, RowsAreTyped
<1>4. new \in ReadCall
  BY <1>1, <1>2, <1>3 DEF ReadCall
<1>5. /\ new.of = g /\ new.seen = {} /\ new.agenda = <<g>> /\ new.since = Len(records)
      /\ new.population = 0 /\ new.asOf = 0
  OBVIOUS
<1>6. reads' = [reads EXCEPT ![r] = new]
      /\ UNCHANGED <<created, parent, moves, records, withdrawals>>
  BY DEF LatestGroupPopulation
<1> HIDE DEF new
<1>7. Parts({}) = {} /\ Total({}) = 0
  <2>1. Unfolds({})
    BY FS_EmptySet, TotalUnfolds
  <2> QED BY <2>1 DEF Parts, Unfolds
<1>8. /\ new.population = Total(Parts(new.seen)) /\ Dated(new.asOf, Parts(new.seen))
      /\ Come(new) = {g}
  BY <1>2, <1>5, <1>7 DEF Dated, Come
<1>9. g \in ReachedBy(new)
  BY <1>1, <1>5 DEF ReachedBy
<1>10. ReadSound(new)
  BY <1>3, <1>5, <1>8, <1>9 DEF ReadSound
<1> QED BY <1>4, <1>6, <1>10, OneReadMoves

\* A read that has no group to go to answers.
LEMMA ReadsAnswer ==
  ASSUME PopulationsInv, NEW r \in ReadCalls, AnswerPopulation(r)
  PROVE  PopulationsInv'
<1>1. Done \notin ReadCall
  BY DEF Done, ReadCall
<1> QED BY <1>1, OneReadMoves DEF AnswerPopulation

\* Figures and withdrawals that are recorded.
LEMMA RecordsKeepReads ==
  ASSUME PopulationsInv, NEW g \in created, NEW n \in Counts, NEW d \in Dates,
         RecordGroupPopulation(g, n, d)
  PROVE  PopulationsInv'
<1> DEFINE p == [group |-> g, population |-> n, asOf |-> d, withdraws |-> 0]
<1>1. p \in GroupPopulation /\ p.withdraws = 0
  BY DEF GroupPopulation, PopulationsInv, PopulationsTypeOK, TreeTypeOK
<1>2. /\ records' = Append(records, p)
      /\ UNCHANGED <<created, parent, moves, reads>> /\ withdrawals' = withdrawals
  BY DEF RecordGroupPopulation
<1> HIDE DEF p
<1> QED BY <1>1, <1>2, RowIsRecorded DEF PopulationsInv, PopulationsTypeOK

\* A withdrawal inserted is one more row, of a figure there is.
LEMMA WithdrawalsKeepReads ==
  ASSUME PopulationsInv, NEW w \in WithdrawCalls, InsertWithdrawn(w)
  PROVE  PopulationsInv'
<1> DEFINE i == withdrawals[w].of
           p == [records[i] EXCEPT !.withdraws = i]
<1>1. i \in Figures /\ i \in Rows /\ i \in Nat
  BY RowsAreTyped DEF InsertWithdrawn, PopulationsInv, PopulationsTypeOK, Figures
<1>2. records[i] \in GroupPopulation
  BY <1>1, RowsAreTyped DEF PopulationsInv, PopulationsTypeOK
<1>3. p \in GroupPopulation /\ p.withdraws = i
  BY <1>1, <1>2 DEF GroupPopulation
<1>4. /\ records' = Append(records, p) /\ withdrawals' = [withdrawals EXCEPT ![w] = Done]
      /\ UNCHANGED <<created, parent, moves, reads>>
  BY DEF InsertWithdrawn, Withdrawn
<1>5. /\ withdrawals' \in [WithdrawCalls -> WithdrawCall \cup {Idle, Done}]
      /\ \A v \in WithdrawCalls :
           withdrawals'[v].step = "insert" => withdrawals'[v].of \in Figures
  BY <1>4 DEF PopulationsInv, PopulationsTypeOK, Done
<1>6. p.withdraws \in Rows /\ p = [records[p.withdraws] EXCEPT !.withdraws = p.withdraws]
  BY <1>1, <1>3
<1> HIDE DEF p, i
<1> QED BY <1>3, <1>4, <1>5, <1>6, RowIsRecorded

\* A withdrawal that begins has found its figure.
LEMMA WithdrawalsBegin ==
  ASSUME PopulationsInv, NEW w \in WithdrawCalls, NEW i \in Rows, WithdrawGroupPopulation(w, i)
  PROVE  PopulationsInv'
<1> DEFINE call == [step |-> "insert", of |-> i]
<1>1. i \in Figures /\ i \in Nat
  BY RowsAreTyped DEF WithdrawGroupPopulation, Withdrawable, Figures, PopulationsInv, PopulationsTypeOK
<1>2. call \in WithdrawCall /\ call.of = i
  BY <1>1 DEF WithdrawCall
<1>3. /\ withdrawals' = [withdrawals EXCEPT ![w] = call]
      /\ UNCHANGED <<created, parent, moves, records, reads>>
  BY DEF WithdrawGroupPopulation
<1> HIDE DEF call
<1>4. /\ withdrawals' \in [WithdrawCalls -> WithdrawCall \cup {Idle, Done}]
      /\ \A v \in WithdrawCalls :
           withdrawals'[v].step = "insert" => withdrawals'[v].of \in Figures
  BY <1>1, <1>2, <1>3 DEF PopulationsInv, PopulationsTypeOK
<1>5. TreeInv'
  BY <1>3 DEF PopulationsInv, TreeInv, TreeTypeOK, MovesDown, Apart, Upward
<1> QED BY <1>3, <1>4, <1>5, RowsStandStill

\* The strengthening holds from any tree on, whatever is recorded and read.
LEMMA PopulationsInvariant == PopulationsSpec => []PopulationsInv
<1>1. PopulationsInit => PopulationsInv
  <2> SUFFICES ASSUME PopulationsInit PROVE PopulationsInv
    OBVIOUS
  <2>1. TreeInv
    BY DEF PopulationsInit, AnyTree, TreeInv, TreeTypeOK, MovesDown, Idle
  <2>2. records = << >> /\ Rows = {}
    BY DEF PopulationsInit, Rows
  <2>3. PopulationsTypeOK
    BY <2>1, <2>2 DEF PopulationsInit, PopulationsTypeOK, TreeInv
  <2> QED BY <2>1, <2>3 DEF PopulationsInit, PopulationsInv, Idle
<1>2. PopulationsInv /\ [PopulationsNext]_populationVars => PopulationsInv'
  <2> SUFFICES ASSUME PopulationsInv, [PopulationsNext]_populationVars PROVE PopulationsInv'
    OBVIOUS
  <2>t. /\ TreeInv
        /\ withdrawals \in [WithdrawCalls -> WithdrawCall \cup {Idle, Done}]
        /\ \A w \in WithdrawCalls :
             withdrawals[w].step = "insert" => withdrawals[w].of \in Figures
    BY DEF PopulationsInv, PopulationsTypeOK
  <2>1. CASE [TreeNext]_treeVars /\ UNCHANGED <<records, withdrawals, reads>>
    <3>1. TreeInv'
      BY <2>1, <2>t, TreeKept
    <3>2. UNCHANGED <<records, reads>> /\ withdrawals' = withdrawals
      BY <2>1
    <3> QED BY <2>t, <3>1, <3>2, RowsStandStill
  <2>2. CASE UNCHANGED populationVars
    BY <2>1, <2>2 DEF populationVars, treeVars
  <2>3. CASE \E g \in created, n \in Counts, d \in Dates : RecordGroupPopulation(g, n, d)
    BY <2>3, RecordsKeepReads
  <2>4. CASE \E w \in WithdrawCalls :
               (\E i \in Rows : WithdrawGroupPopulation(w, i)) \/ InsertWithdrawn(w)
    BY <2>4, WithdrawalsBegin, WithdrawalsKeepReads
  <2>5. CASE \E r \in ReadCalls :
               (\E g \in created : LatestGroupPopulation(r, g)) \/ ReadGoesOn(r)
    BY <2>5, ReadsBegin, VisitsKeepReads, ReadsAnswer DEF ReadGoesOn
  <2> QED BY <2>1, <2>2, <2>3, <2>4, <2>5 DEF PopulationsNext
<1> QED BY <1>1, <1>2, PTL DEF PopulationsSpec

(***************************************************************************)
(* The rows, the withdrawals and the reads in flight are typed, from any   *)
(* tree, and a withdrawn record copies an earlier row                      *)
(* (PopulationsTypeOK).                                                    *)
(***************************************************************************)
THEOREM PopulationsTypeCorrect == PopulationsSpec => []PopulationsTypeOK
<1>1. PopulationsInv => PopulationsTypeOK
  BY DEF PopulationsInv
<1> QED BY <1>1, PopulationsInvariant, PTL

(***************************************************************************)
(* What a read answers while nobody records a figure is the sum over the   *)
(* groups it is led to in the tree as listed, whatever tree that is        *)
(* (LatestSumsReached).                                                    *)
(***************************************************************************)
THEOREM AnswersSumTheReached == PopulationsSpec => []LatestSumsReached
<1> DEFINE Summed(r) ==
      {records[i] : i \in {j \in UNION {StandingFigures(h) : h \in Reached(r)} :
         \A k \in StandingFigures(records[j].group) : ~Later(k, j)}}
<1>1. ASSUME PopulationsInv, NEW r \in ReadCalls, Answered(r), reads[r].since = Len(records)
      PROVE  /\ reads[r].population = Total(Summed(r))
             /\ Dated(reads[r].asOf, Summed(r))
  <2> DEFINE call == reads[r]
  <2>1. ReadSound(call) /\ call \in ReadCall /\ call.agenda = << >>
        /\ records \in Seq(GroupPopulation)
    BY <1>1, PopulationCalls DEF PopulationsInv, PopulationsTypeOK, Answered
  <2>2. Come(call) = call.seen /\ call.seen \in SUBSET Groups
    BY <2>1 DEF Come, ToSet, ReadCall
  <2>3. /\ call.of \in call.seen /\ call.seen \subseteq ReachedBy(call)
        /\ ClosedFor(call, call.seen)
    BY <1>1, <2>1, <2>2 DEF ReadSound, ClosedFor
  <2>4. Reached(r) = call.seen
    <3>1. ReachedBy(call) \subseteq call.seen
      BY <2>2, <2>3 DEF ReachedBy
    <3> QED BY <2>3, <3>1, ReachedIsBy
  <2>5. Summed(r) = Parts(call.seen)
    <3>1. ASSUME NEW p \in Parts(call.seen) PROVE p \in Summed(r)
      <4>1. PICK h \in call.seen : StandingFigures(h) # {} /\ p = records[Newest(StandingFigures(h))]
        BY <3>1 DEF Parts, Part
      <4>2. /\ Newest(StandingFigures(h)) \in StandingFigures(h)
            /\ records[Newest(StandingFigures(h))].group = h
            /\ \A k \in StandingFigures(h) : ~Later(k, Newest(StandingFigures(h)))
        BY <2>1, <4>1, RowsAreTyped, NewestIsLast
      <4> QED BY <2>4, <4>1, <4>2
    <3>2. ASSUME NEW p \in Summed(r) PROVE p \in Parts(call.seen)
      <4>1. PICK h \in call.seen : \E j \in StandingFigures(h) :
              p = records[j] /\ \A k \in StandingFigures(records[j].group) : ~Later(k, j)
        BY <2>4, <3>2
      <4>2. PICK j \in StandingFigures(h) :
              p = records[j] /\ \A k \in StandingFigures(records[j].group) : ~Later(k, j)
        BY <4>1
      <4>3. records[j].group = h /\ j = Newest(StandingFigures(h))
        BY <2>1, <4>2, RowsAreTyped, NewestIsLast
      <4> QED BY <4>2, <4>3 DEF Parts, Part
    <3> QED BY <3>1, <3>2
  <2>6. call.population = Total(Parts(call.seen)) /\ Dated(call.asOf, Parts(call.seen))
    BY <1>1, <2>1 DEF ReadSound
  <2> HIDE DEF Summed
  <2> QED BY <2>5, <2>6
<1>2. PopulationsInv => LatestSumsReached
  BY <1>1 DEF LatestSumsReached, Later, Total, Dated
<1> QED BY <1>2, PopulationsInvariant, PTL

(***************************************************************************)
(* Every step of a read brings its end closer: it answers, or has seen a   *)
(* group more, or has a group less to go to and as many seen.              *)
(***************************************************************************)
VisitsComeCloser ==
  [][\A r \in ReadCalls : reads[r].step = "visit" /\ reads'[r] # reads[r] =>
       \/ reads'[r] = Done
       \/ Cardinality(Groups \ reads'[r].seen) < Cardinality(Groups \ reads[r].seen)
       \/ /\ reads'[r].seen = reads[r].seen
          /\ Len(reads'[r].agenda) < Len(reads[r].agenda)]_populationVars

(***************************************************************************)
(* The recursion of latestOrInnerSum has a bound in the groups there may   *)
(* be and the groups to go to, whatever tree it is in, cycles too: a read  *)
(* that goes on ends (ReadsEnd).                                           *)
(***************************************************************************)
THEOREM ReadsComeCloser == PopulationsSpec => VisitsComeCloser
<1> DEFINE Closer(r) ==
      \/ reads'[r] = Done
      \/ Cardinality(Groups \ reads'[r].seen) < Cardinality(Groups \ reads[r].seen)
      \/ /\ reads'[r].seen = reads[r].seen
         /\ Len(reads'[r].agenda) < Len(reads[r].agenda)
<1>1. ASSUME PopulationsInv, [PopulationsNext]_populationVars, NEW r \in ReadCalls,
             reads[r].step = "visit", reads'[r] # reads[r]
      PROVE  Closer(r)
  <2>1. CASE AnswerPopulation(r)
    BY <1>1, <2>1 DEF AnswerPopulation, PopulationsInv, PopulationsTypeOK
  <2>2. CASE VisitNext(r)
    <3> DEFINE call == reads[r]
               g == Head(call.agenda)
    <3>1. /\ call \in ReadCall /\ call.agenda # << >>
          /\ \/ g \in call.seen /\ reads' = [reads EXCEPT ![r] = Passed(call)]
             \/ g \notin call.seen /\ reads' = [reads EXCEPT ![r] = Added(call)]
             \/ g \notin call.seen /\ reads' = [reads EXCEPT ![r] = Descended(call)]
      BY <1>1, <2>2, VisitsByOutcome DEF PopulationsInv
    <3>2. call.agenda \in Seq(Groups) /\ call.seen \in SUBSET Groups
      BY <3>1 DEF ReadCall
    <3>3. /\ g \in Groups /\ Len(Tail(call.agenda)) = Len(call.agenda) - 1
          /\ Len(call.agenda) \in Nat
      BY <3>1, <3>2, ToSetOfTail, LenProperties
    <3>4. CASE reads' = [reads EXCEPT ![r] = Passed(call)]
      <4>1. reads'[r].seen = call.seen /\ reads'[r].agenda = Tail(call.agenda)
        BY <1>1, <3>1, <3>4 DEF Passed, PopulationsInv, PopulationsTypeOK, ReadCall
      <4> QED BY <3>3, <4>1
    <3>5. CASE g \notin call.seen /\ reads'[r].seen = call.seen \cup {g}
      <4>1. IsFiniteSet(Groups \ call.seen)
        BY PopulationsAssumption, FS_Difference
      <4>2. /\ Cardinality((Groups \ call.seen) \ {g}) = Cardinality(Groups \ call.seen) - 1
            /\ Cardinality(Groups \ call.seen) \in Nat
        BY <3>3, <3>5, <4>1, FS_RemoveElement, FS_CardinalityType
      <4>3. Cardinality(Groups \ reads'[r].seen) = Cardinality((Groups \ call.seen) \ {g})
        <5>1. Groups \ reads'[r].seen = (Groups \ call.seen) \ {g}
          BY <3>5
        <5> QED BY <5>1, Zenon
      <4> QED BY <4>2, <4>3
    <3>6. \/ reads' = [reads EXCEPT ![r] = Passed(call)]
          \/ g \notin call.seen /\ reads'[r].seen = call.seen \cup {g}
      <4>1. /\ Added(call).seen = call.seen \cup {g}
            /\ Descended(call).seen = call.seen \cup {g}
        BY <3>1 DEF Added, Descended, ReadCall
      <4>2. \A new : reads' = [reads EXCEPT ![r] = new] => reads'[r] = new
        BY <1>1 DEF PopulationsInv, PopulationsTypeOK
      <4> QED BY <3>1, <4>1, <4>2
    <3> QED BY <3>4, <3>5, <3>6
  <2>3. AnswerPopulation(r) \/ VisitNext(r)
    <3>1. CASE \E q \in ReadCalls : \E g \in created : LatestGroupPopulation(q, g)
      BY <1>1, <3>1 DEF LatestGroupPopulation, PopulationsInv, PopulationsTypeOK, Idle
    <3>2. CASE \E q \in ReadCalls : ReadGoesOn(q)
      BY <1>1, <3>2 DEF ReadGoesOn, VisitNext, AnswerPopulation, PopulationsInv, PopulationsTypeOK
    <3> QED
      BY <1>1, <3>1, <3>2 DEF PopulationsNext, populationVars, RecordGroupPopulation,
          WithdrawGroupPopulation, InsertWithdrawn
  <2> QED BY <2>1, <2>2, <2>3
<1>2. PopulationsInv /\ [PopulationsNext]_populationVars =>
        [\A r \in ReadCalls : reads[r].step = "visit" /\ reads'[r] # reads[r] => Closer(r)]_populationVars
  BY <1>1
<1> QED BY <1>2, PopulationsInvariant, PTL DEF VisitsComeCloser, PopulationsSpec
=============================================================================
