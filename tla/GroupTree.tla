----------------------------- MODULE GroupTree -----------------------------
(***************************************************************************)
(* The tree of groups: creating one under a parent, and moving one under   *)
(* another (group_impl.go).  A move is four statements outside any         *)
(* transaction: the group, the new parent, all groups, and a write by id.  *)
(***************************************************************************)
CONSTANTS
  Groups,     \* groups that may be created
  MoveCalls,  \* the moves that may be made
  NoParent    \* an empty parent_id

ASSUME TreeAssumption == NoParent \notin Groups

VARIABLES
  created,  \* the groups there are
  parent,   \* each group's parent_id
  moves     \* the moves in flight

treeVars == <<created, parent, moves>>

\* A call that has not begun, and one that has returned.
Idle == [step |-> "idle"]
Done == [step |-> "done"]

\* overtaken is history: a parent was written since the move listed the groups.
MoveCall == [step: {"parent", "walk", "write"}, group: Groups,
             to: Groups \cup {NoParent}, overtaken: BOOLEAN]

\* A set of groups that holds the parents of its groups.
Upward(S) == \A g \in S : parent[g] \in S \cup {NoParent}

(***************************************************************************)
(* The groups met walking up from g, g with them: every upward set with g  *)
(* in it holds them.  The walk stops at a group it has seen before.        *)
(***************************************************************************)
Above(g) == {a \in created : \A S \in SUBSET created : g \in S /\ Upward(S) => a \in S}

-----------------------------------------------------------------------------
\* CreateGroup takes the parent it is given; the host names one there is.
CreateGroup(g, to) ==
  /\ g \notin created
  /\ created' = created \cup {g}
  /\ parent' = [parent EXCEPT ![g] = to]
  /\ UNCHANGED moves

MoveReturns(m) == moves' = [moves EXCEPT ![m] = Done]
MoveGoesTo(m, step) == moves' = [moves EXCEPT ![m].step = step]

\* ErrRootCannotMove is answered for a group read without a parent.
MayMove(g) == parent[g] # NoParent

MoveGroup(m, g, to) ==
  /\ moves[m] = Idle
  /\ to # g
  /\ MayMove(g)
  /\ moves' = [moves EXCEPT ![m] =
       [step |-> "parent", group |-> g, to |-> to, overtaken |-> FALSE]]
  /\ UNCHANGED <<created, parent>>

\* The new parent, where one is named, must be there.
IsThere(to) == to \in created \cup {NoParent}

FindParent(m) ==
  /\ moves[m].step = "parent"
  /\ IF IsThere(moves[m].to)
     THEN MoveGoesTo(m, "walk")
     ELSE MoveReturns(m)
  /\ UNCHANGED <<created, parent>>

\* Mutant: the walk does not leave the new parent.
IsNewParent(g, to) == g = to

\* ErrParentInSubtree: the walk up from the new parent meets the group.
InSubtree(g, to) == to \in created /\ g \in Above(to)

WalkUp(m) ==
  /\ moves[m].step = "walk"
  /\ IF InSubtree(moves[m].group, moves[m].to)
     THEN MoveReturns(m)
     ELSE MoveGoesTo(m, "write")
  /\ UNCHANGED <<created, parent>>

WriteParent(m) ==
  /\ moves[m].step = "write"
  /\ parent' = [parent EXCEPT ![moves[m].group] = moves[m].to]
  /\ moves' = [n \in MoveCalls |->
       CASE n = m -> Done
         [] n # m /\ moves[n].step = "write" -> [moves[n] EXCEPT !.overtaken = TRUE]
         [] OTHER -> moves[n]]
  /\ UNCHANGED created

-----------------------------------------------------------------------------
\* The groups as earlier moves may have left them, above themselves even.
AnyTree ==
  /\ created \in SUBSET Groups
  /\ parent \in [Groups -> created \cup {NoParent}]
  /\ \A g \in Groups : g \notin created => parent[g] = NoParent
  /\ \A g \in Groups : parent[g] # g
  /\ moves = [m \in MoveCalls |-> Idle]

TreeInit == AnyTree /\ created = {}

TreeNext ==
  \/ \E g \in Groups, to \in created \cup {NoParent} : CreateGroup(g, to)
  \/ \E m \in MoveCalls, g \in created, to \in Groups \cup {NoParent} : MoveGroup(m, g, to)
  \/ \E m \in MoveCalls : FindParent(m) \/ WalkUp(m) \/ WriteParent(m)

TreeSpec == TreeInit /\ [][TreeNext]_treeVars

TreeTypeOK ==
  /\ created \subseteq Groups
  /\ parent \in [Groups -> created \cup {NoParent}]
  /\ moves \in [MoveCalls -> MoveCall \cup {Idle, Done}]

-----------------------------------------------------------------------------
(***************************************************************************)
(* No group is above itself, which the documentation says of every move    *)
(* (errors.go, MoveGroup).  Two moves at once may part from it.            *)
(***************************************************************************)
NoGroupAboveItself ==
  \A g \in created : parent[g] # NoParent => g \notin Above(parent[g])

(***************************************************************************)
(* A group comes to be above itself only by a move that was overtaken:     *)
(* another parent was written between its list of the groups and its own   *)
(* write.  Creating groups meanwhile does no harm, nor does a move that    *)
(* began after the other's write (MoveGroup).                              *)
(***************************************************************************)
CycleOnlyByAnOvertakenMove ==
  [][parent' # parent /\ NoGroupAboveItself =>
       \/ NoGroupAboveItself'
       \/ \E m \in MoveCalls :
            moves[m].step = "write" /\ moves[m].overtaken /\ moves'[m] = Done]_treeVars
=============================================================================
