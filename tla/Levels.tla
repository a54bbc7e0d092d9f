------------------------------- MODULE Levels -------------------------------
(***************************************************************************)
(* The levels of one hierarchy: its default anchor, of which a partial     *)
(* unique index admits one, and the removal of a level no group wears      *)
(* (hierarchy_impl.go, area_impl.go).                                      *)
(*                                                                         *)
(* SetDefaultAnchor and DeleteLevel are each one transaction of several    *)
(* statements; creating a level or a group reads before its transaction.   *)
(***************************************************************************)
EXTENDS Naturals, FiniteSets

CONSTANTS
  Levels,    \* the rows that may be created
  Groups,    \* the groups that may be created, each at a level with an area
  RoleKinds, \* the kinds that may be created, each at a level
  NoLevel,   \* an empty anchor_level_override_id
  Calls      \* calls that may be in flight together

ASSUME LevelsAssumption == NoLevel \notin Levels

VARIABLES
  levels,   \* the level rows
  anchor,   \* those whose is_default_anchor is set
  wears,    \* the level and the anchor override of each group there is
  kindAt,   \* the level of each role kind there is
  calls,    \* the calls in flight
  minted    \* history: the ids given to a level or a group

levelVars == <<levels, anchor, wears, kindAt, calls, minted>>

NotCalled == [step |-> "idle"]

\* snap is what the clearing statement found, cleared what it wrote; late is
\* history: the groups put at some level since a removal counted them.
LevelCall ==
  [step: {"create"}, level: Levels, anchored: BOOLEAN] \cup
  [step: {"clear"}, level: Levels] \cup
  [step: {"clearing"}, level: Levels, snap: SUBSET Levels] \cup
  [step: {"set"}, level: Levels, cleared: SUBSET Levels] \cup
  [step: {"groups"}, level: Levels] \cup
  [step: {"kinds", "delete"}, level: Levels, late: SUBSET Groups] \cup
  [step: {"group"}, level: Levels, group: Groups]

Worn == [level: Levels, override: Levels \cup {NoLevel}]

Begin(c, call) == calls[c] = NotCalled /\ calls' = [calls EXCEPT ![c] = call]
Mint(id) == id \notin minted /\ minted' = minted \cup {id}
GoesTo(c, step) == calls' = [calls EXCEPT ![c].step = step]
Returns(c) == calls' = [calls EXCEPT ![c] = NotCalled]

\* The calls once a group has been put at a level.
Arrived(g) == [c \in Calls |->
  IF calls[c].step \in {"kinds", "delete"} THEN [calls[c] EXCEPT !.late = @ \cup {g}]
                                           ELSE calls[c]]

\* The rows another SetDefaultAnchor has cleared and not committed.
Locked(c) == UNION {calls[d].cleared : d \in {e \in Calls \ {c} : calls[e].step = "set"}}

-----------------------------------------------------------------------------
\* ErrDuplicateDefaultAnchor is answered where the count finds one.
CreateLevel(c, l, anchored) ==
  /\ Mint(l)
  /\ anchored => anchor = {}
  /\ Begin(c, [step |-> "create", level |-> l, anchored |-> anchored])
  /\ UNCHANGED <<levels, anchor, wears, kindAt>>

\* Mutant: there is no index, only the count.
NoIndex(l, others) == TRUE

\* What the index asks of a level to be anchored beside the others that are.
Admitted(l, others) == others = {}

\* The insert waits for a transaction that is clearing the anchor.
InsertLevel(c) ==
  LET new == calls[c].level IN
  /\ calls[c].step = "create"
  /\ calls[c].anchored => Locked(c) = {}
  /\ IF calls[c].anchored => Admitted(new, anchor)
     THEN /\ levels' = levels \cup {new}
          /\ anchor' = IF calls[c].anchored THEN anchor \cup {new} ELSE anchor
     ELSE UNCHANGED <<levels, anchor>>
  /\ Returns(c)
  /\ UNCHANGED <<wears, kindAt, minted>>

-----------------------------------------------------------------------------
\* The transaction finds the target; on the anchor itself it has nothing to do.
SetDefaultAnchor(c, l) ==
  /\ l \in levels \ anchor
  /\ Begin(c, [step |-> "clear", level |-> l])
  /\ UNCHANGED <<levels, anchor, wears, kindAt, minted>>

StartClear(c) ==
  /\ calls[c].step = "clear"
  /\ calls' = [calls EXCEPT ![c] =
       [step |-> "clearing", level |-> @.level, snap |-> anchor]]
  /\ UNCHANGED <<levels, anchor, wears, kindAt, minted>>

\* Mutant: the clearing is committed by itself.
ShownCleared(cleared) == anchor \ cleared

\* The anchors others see while cleared ones are not committed.
ShownMeanwhile(cleared) == anchor

\* The statement waits for locked rows, then takes those that still match.
ClearAnchors(c) ==
  /\ calls[c].step = "clearing"
  /\ calls[c].snap \cap Locked(c) = {}
  /\ calls' = [calls EXCEPT ![c] =
       [step |-> "set", level |-> @.level, cleared |-> @.snap \cap anchor]]
  /\ anchor' = ShownMeanwhile(calls[c].snap \cap anchor)
  /\ UNCHANGED <<levels, wears, kindAt, minted>>

\* Mutant: the level is written whether or not its row is still there.
Upserted(l) == {l}

\* The update by id flags the level, or no row where it was deleted.
Flagged(l) == {l} \cap levels

\* The index refusing the level rolls the clearing back.
SetAnchor(c) ==
  LET new    == Flagged(calls[c].level)
      others == anchor \ (calls[c].cleared \cup {calls[c].level})
  IN
  /\ calls[c].step = "set"
  /\ Locked(c) \cap (anchor \cup new) = {}
  /\ anchor' = IF new = {} \/ Admitted(calls[c].level, others)
               THEN (anchor \ calls[c].cleared) \cup new
               ELSE anchor
  /\ Returns(c)
  /\ UNCHANGED <<levels, wears, kindAt, minted>>

-----------------------------------------------------------------------------
DeleteLevel(c, l) ==
  /\ l \in levels
  /\ Begin(c, [step |-> "groups", level |-> l])
  /\ UNCHANGED <<levels, anchor, wears, kindAt, minted>>

\* Mutant: only the overrides that name the level are counted.
WornAsOverride(l) == {g \in DOMAIN wears : wears[g].override = l}

WornBy(l) == {g \in DOMAIN wears : l \in {wears[g].level, wears[g].override}}

CountGroups(c) ==
  /\ calls[c].step = "groups"
  /\ IF WornBy(calls[c].level) = {}
     THEN calls' = [calls EXCEPT ![c] = [step |-> "kinds", level |-> @.level, late |-> {}]]
     ELSE Returns(c)
  /\ UNCHANGED <<levels, anchor, wears, kindAt, minted>>

CountRoleKinds(c) ==
  /\ calls[c].step = "kinds"
  /\ IF \A k \in DOMAIN kindAt : kindAt[k] # calls[c].level
     THEN GoesTo(c, "delete")
     ELSE Returns(c)
  /\ UNCHANGED <<levels, anchor, wears, kindAt, minted>>

DeleteRow(c) ==
  /\ calls[c].step = "delete"
  /\ calls[c].level \notin Locked(c)
  /\ levels' = levels \ {calls[c].level}
  /\ anchor' = anchor \ {calls[c].level}
  /\ Returns(c)
  /\ UNCHANGED <<wears, kindAt, minted>>

-----------------------------------------------------------------------------
\* A group with an area node is created at a level found by checkAreaNode.
CreateGroup(c, g, l) ==
  /\ Mint(g)
  /\ l \in levels
  /\ Begin(c, [step |-> "group", level |-> l, group |-> g])
  /\ UNCHANGED <<levels, anchor, wears, kindAt>>

InsertGroup(c) ==
  LET g == calls[c].group IN
  /\ calls[c].step = "group"
  /\ wears' = [h \in DOMAIN wears \cup {g} |->
       IF h = g THEN [level |-> calls[c].level, override |-> NoLevel] ELSE wears[h]]
  /\ calls' = [Arrived(g) EXCEPT ![c] = NotCalled]
  /\ UNCHANGED <<levels, anchor, kindAt, minted>>

\* EditGroup writes whatever override it is given.
EditGroup(g, l) ==
  /\ wears' = [wears EXCEPT ![g].override = l]
  /\ calls' = Arrived(g)
  /\ UNCHANGED <<levels, anchor, kindAt, minted>>

\* CreateRoleKind takes whatever level it is given.
CreateRoleKind(k, l) ==
  /\ k \notin DOMAIN kindAt
  /\ kindAt' = [j \in DOMAIN kindAt \cup {k} |-> IF j = k THEN l ELSE kindAt[j]]
  /\ UNCHANGED <<levels, anchor, wears, calls, minted>>

-----------------------------------------------------------------------------
LevelsInit ==
  /\ levels = {}
  /\ anchor = {}
  /\ wears = [g \in {} |-> NoLevel]
  /\ kindAt = [k \in {} |-> NoLevel]
  /\ calls = [c \in Calls |-> NotCalled]
  /\ minted = {}

LevelsNext ==
  \/ \E c \in Calls :
       \/ \E l \in Levels, anchored \in BOOLEAN : CreateLevel(c, l, anchored)
       \/ \E l \in Levels : SetDefaultAnchor(c, l) \/ DeleteLevel(c, l)
       \/ \E l \in Levels, g \in Groups : CreateGroup(c, g, l)
       \/ InsertLevel(c) \/ StartClear(c) \/ ClearAnchors(c) \/ SetAnchor(c)
       \/ CountGroups(c) \/ CountRoleKinds(c) \/ DeleteRow(c) \/ InsertGroup(c)
  \/ \E g \in DOMAIN wears, l \in Levels \cup {NoLevel} : EditGroup(g, l)
  \/ \E k \in RoleKinds, l \in Levels : CreateRoleKind(k, l)

LevelsSpec == LevelsInit /\ [][LevelsNext]_levelVars

LevelsTypeOK ==
  /\ levels \subseteq Levels
  /\ anchor \subseteq levels
  /\ DOMAIN wears \subseteq Groups /\ wears \in [DOMAIN wears -> Worn]
  /\ DOMAIN kindAt \subseteq RoleKinds /\ kindAt \in [DOMAIN kindAt -> Levels]
  /\ calls \in [Calls -> LevelCall \cup {NotCalled}]
  /\ levels \cup DOMAIN wears \subseteq minted

-----------------------------------------------------------------------------
(***************************************************************************)
(* A hierarchy has at most one default anchor, whatever creations, changes *)
(* of it and removals are in flight (CreateLevel's count, SetDefaultAnchor *)
(* and the partial unique index).                                          *)
(***************************************************************************)
OneDefaultAnchor == Cardinality(anchor) <= 1

(***************************************************************************)
(* A hierarchy that has a default anchor loses it only with a level that   *)
(* is deleted: the anchor itself, or the one an unfinished change was to   *)
(* anchor instead, deleted since the change found it (SetDefaultAnchor).   *)
(***************************************************************************)
AnchorLostOnlyWithALevel ==
  [][anchor # {} /\ anchor' = {} =>
       \/ ~(anchor \subseteq levels')
       \/ \E c \in Calls : calls[c].step = "set" /\ calls[c].level \notin levels]_levelVars

(***************************************************************************)
(* A level goes from under a group, as its own or as its anchor override,  *)
(* only where the group came to it after the removal had counted: nothing  *)
(* that stood at the level when it was counted is left there (DeleteLevel).*)
(***************************************************************************)
DeletedLevelWasUnworn ==
  [][\A l \in levels \ levels' : \A g \in DOMAIN wears :
       l \in {wears[g].level, wears[g].override} =>
         \E c \in Calls :
           /\ calls[c].step = "delete" /\ calls[c].level = l
           /\ g \in calls[c].late]_levelVars
=============================================================================
