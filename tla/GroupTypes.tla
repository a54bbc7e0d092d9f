----------------------------- MODULE GroupTypes -----------------------------
(***************************************************************************)
(* The types of groups, which a group names by the type's name: renaming a *)
(* type takes its groups along, and a type goes only while no group names  *)
(* it (grouptype_impl.go).  Renaming is a read, and then one transaction   *)
(* that writes the type by its id and the groups by the name that was read.*)
(***************************************************************************)
CONSTANTS
  Types,       \* the rows that may be created
  Groups,      \* the groups that may be created
  Hierarchies,
  NodeTypes,   \* what types are called and groups say they are
  TypeCalls,   \* renames and removals that may be in flight together
  Nothing      \* no type, or no group

ASSUME GroupTypesAssumption ==
  Nothing \notin [hierarchy: Hierarchies, name: NodeTypes] \cup [hierarchy: Hierarchies, nodeType: NodeTypes]

VARIABLES
  types,    \* the group_type rows
  groups,   \* the hierarchy and node_type of each group
  typeCalls \* the calls in flight

groupTypeVars == <<types, groups, typeCalls>>

NoCall == [step |-> "idle"]

GroupType == [hierarchy: Hierarchies, name: NodeTypes]
Group == [hierarchy: Hierarchies, nodeType: NodeTypes]

(***************************************************************************)
(* from is the name as read, snap what the statement over the groups found *)
(* and taken what it wrote.  History: renamed, that the type was renamed   *)
(* since the read; late, the groups that came to a name since the groups   *)
(* were looked at.                                                         *)
(***************************************************************************)
RenameCall ==
  [step: {"type"}, of: Types, hierarchy: Hierarchies, from: NodeTypes, to: NodeTypes, renamed: BOOLEAN] \cup
  [step: {"groups"}, of: Types, hierarchy: Hierarchies, from: NodeTypes, to: NodeTypes, renamed: BOOLEAN] \cup
  [step: {"rewriting", "commit"}, of: Types, hierarchy: Hierarchies, from: NodeTypes, to: NodeTypes,
   renamed: BOOLEAN, taken: SUBSET Groups, late: SUBSET Groups]
DeleteCall ==
  [step: {"count"}, of: Types, from: NodeTypes, renamed: BOOLEAN] \cup
  [step: {"delete"}, of: Types, from: NodeTypes, renamed: BOOLEAN, late: SUBSET Groups]

TypesMade == {t \in Types : types[t] # Nothing}
GroupsMade == {g \in Groups : groups[g] # Nothing}

\* The rows a rename has written and not committed.
TypesLocked(c) ==
  {typeCalls[d].of : d \in {e \in TypeCalls \ {c} :
                              typeCalls[e].step \in {"groups", "rewriting", "commit"}}}
GroupsLocked(C) == UNION {typeCalls[d].taken : d \in {e \in C : typeCalls[e].step = "commit"}}

CallReturns(c) == typeCalls' = [typeCalls EXCEPT ![c] = NoCall]

\* The calls once the groups G came to another name.
Arrived(G) == [c \in TypeCalls |->
  IF typeCalls[c].step \in {"rewriting", "commit", "delete"}
  THEN [typeCalls[c] EXCEPT !.late = @ \cup G] ELSE typeCalls[c]]

-----------------------------------------------------------------------------
\* A new id: one that went stands for it once no call remembers it.
CreateGroupType(t, h, n) ==
  /\ t \notin TypesMade
  /\ \A c \in TypeCalls : typeCalls[c] # NoCall => typeCalls[c].of # t
  /\ types' = [types EXCEPT ![t] = [hierarchy |-> h, name |-> n]]
  /\ UNCHANGED <<groups, typeCalls>>

\* Nothing holds a group to the name of a type.
CreateGroup(g, h, n) ==
  /\ g \notin GroupsMade
  /\ groups' = [groups EXCEPT ![g] = [hierarchy |-> h, nodeType |-> n]]
  /\ typeCalls' = Arrived({g})
  /\ UNCHANGED types

\* The update by id waits for a rename that has written the group.
EditGroup(g, n) ==
  /\ g \in GroupsMade \ GroupsLocked(TypeCalls)
  /\ groups[g].nodeType # n
  /\ groups' = [groups EXCEPT ![g].nodeType = n]
  /\ typeCalls' = Arrived({g})
  /\ UNCHANGED types

-----------------------------------------------------------------------------
EditGroupType(c, t, n) ==
  /\ typeCalls[c] = NoCall
  /\ t \in TypesMade
  /\ typeCalls' = [typeCalls EXCEPT ![c] =
       [step |-> "type", of |-> t, hierarchy |-> types[t].hierarchy,
        from |-> types[t].name, to |-> n, renamed |-> FALSE]]
  /\ UNCHANGED <<types, groups>>

\* A type deleted meanwhile is no row to write, and no error.
WriteType(c) ==
  /\ typeCalls[c].step = "type"
  /\ typeCalls[c].of \notin TypesLocked(c)
  /\ typeCalls' = [typeCalls EXCEPT ![c].step = "groups"]
  /\ UNCHANGED <<types, groups>>

\* Mutant: the groups of every hierarchy.
WearingAnywhere(c) == {g \in GroupsMade : groups[g].nodeType = typeCalls[c].from}

\* The groups of the hierarchy under the name as it was read.
Wearing(c) ==
  {g \in GroupsMade : groups[g].nodeType = typeCalls[c].from /\ groups[g].hierarchy = typeCalls[c].hierarchy}

\* The name kept, there are no groups to write.
FindGroups(c) ==
  LET call == typeCalls[c] IN
  /\ call.step = "groups"
  /\ typeCalls' = [typeCalls EXCEPT ![c] =
       [step |-> "rewriting", of |-> call.of, hierarchy |-> call.hierarchy, from |-> call.from,
        to |-> call.to, renamed |-> call.renamed, late |-> {},
        taken |-> IF call.to = call.from THEN {} ELSE Wearing(c)]]
  /\ UNCHANGED <<types, groups>>

\* The statement waits for rows others write, and takes those that still match.
RewriteGroups(c) ==
  /\ typeCalls[c].step = "rewriting"
  /\ typeCalls[c].taken \cap GroupsLocked(TypeCalls \ {c}) = {}
  /\ typeCalls' = [typeCalls EXCEPT ![c].step = "commit", ![c].taken = @ \cap Wearing(c)]
  /\ UNCHANGED <<types, groups>>

CommitRename(c) ==
  LET call == typeCalls[c] IN
  /\ call.step = "commit"
  /\ types' = [t \in Types |->
       IF t = call.of /\ t \in TypesMade THEN [types[t] EXCEPT !.name = call.to] ELSE types[t]]
  /\ groups' = [g \in Groups |->
       IF g \in call.taken THEN [groups[g] EXCEPT !.nodeType = call.to] ELSE groups[g]]
  /\ typeCalls' = [d \in TypeCalls |->
       CASE d = c -> NoCall
         [] d # c /\ typeCalls[d] # NoCall /\ typeCalls[d].of = call.of ->
              [Arrived(call.taken)[d] EXCEPT !.renamed = TRUE]
         [] OTHER -> Arrived(call.taken)[d]]

\* Any statement may fail: the transaction is rolled back.
RenameFails(c) ==
  /\ typeCalls[c].step \in {"type", "groups", "rewriting", "commit"}
  /\ CallReturns(c)
  /\ UNCHANGED <<types, groups>>

-----------------------------------------------------------------------------
DeleteGroupType(c, t) ==
  /\ typeCalls[c] = NoCall
  /\ t \in TypesMade
  /\ typeCalls' = [typeCalls EXCEPT ![c] =
       [step |-> "count", of |-> t, from |-> types[t].name, renamed |-> FALSE]]
  /\ UNCHANGED <<types, groups>>

\* Mutant: only the groups in one hierarchy with the type are counted.
WornBeside(t, n) ==
  {g \in GroupsMade : /\ groups[g].nodeType = n
                       /\ t \in TypesMade /\ groups[g].hierarchy = types[t].hierarchy}

\* The groups of that name, whatever their hierarchy.
WornBy(t, n) == {g \in GroupsMade : groups[g].nodeType = n}

CountGroups(c) ==
  LET call == typeCalls[c] IN
  /\ call.step = "count"
  /\ IF WornBy(call.of, call.from) = {}
     THEN typeCalls' = [typeCalls EXCEPT ![c] =
            [step |-> "delete", of |-> call.of, from |-> call.from, renamed |-> call.renamed, late |-> {}]]
     ELSE CallReturns(c)
  /\ UNCHANGED <<types, groups>>

DeleteRow(c) ==
  /\ typeCalls[c].step = "delete"
  /\ typeCalls[c].of \notin TypesLocked(c)
  /\ types' = [types EXCEPT ![typeCalls[c].of] = Nothing]
  /\ CallReturns(c)
  /\ UNCHANGED groups

-----------------------------------------------------------------------------
GroupTypesInit ==
  /\ types = [t \in Types |-> Nothing]
  /\ groups = [g \in Groups |-> Nothing]
  /\ typeCalls = [c \in TypeCalls |-> NoCall]

GroupTypesNext ==
  \/ \E t \in Types, h \in Hierarchies, n \in NodeTypes : CreateGroupType(t, h, n)
  \/ \E g \in Groups, h \in Hierarchies, n \in NodeTypes : CreateGroup(g, h, n)
  \/ \E g \in Groups, n \in NodeTypes : EditGroup(g, n)
  \/ \E c \in TypeCalls :
       \/ \E t \in Types, n \in NodeTypes : EditGroupType(c, t, n)
       \/ WriteType(c) \/ FindGroups(c) \/ RewriteGroups(c) \/ CommitRename(c) \/ RenameFails(c)
       \/ \E t \in Types : DeleteGroupType(c, t)
       \/ CountGroups(c) \/ DeleteRow(c)

GroupTypesSpec == GroupTypesInit /\ [][GroupTypesNext]_groupTypeVars

GroupTypesTypeOK ==
  /\ types \in [Types -> GroupType \cup {Nothing}]
  /\ groups \in [Groups -> Group \cup {Nothing}]
  /\ typeCalls \in [TypeCalls -> RenameCall \cup DeleteCall \cup {NoCall}]

-----------------------------------------------------------------------------
(***************************************************************************)
(* A rename no other rename of its type has overtaken takes along every    *)
(* group of the hierarchy that wears the type's name, but those that came  *)
(* to it since the groups were looked at, and touches no other             *)
(* (EditGroupType).                                                        *)
(***************************************************************************)
RenameCarriesItsGroups ==
  [][\A c \in TypeCalls : typeCalls[c].step = "commit" /\ CommitRename(c) /\ ~typeCalls[c].renamed =>
       \A g \in GroupsMade :
         LET t == typeCalls[c].of
             wears == /\ groups[g].hierarchy = typeCalls[c].hierarchy
                      /\ t \in TypesMade => groups[g].nodeType = types[t].name
         IN /\ wears /\ t \in TypesMade => groups'[g].nodeType = typeCalls[c].to \/ g \in typeCalls[c].late
            /\ groups'[g] # groups[g] => wears]_groupTypeVars

(***************************************************************************)
(* A type goes while a group of any hierarchy wears its name only where    *)
(* the group came to the name, or the name to the type, after the removal  *)
(* had looked (DeleteGroupType).                                           *)
(***************************************************************************)
DeletedTypeWasUnworn ==
  [][\A t \in TypesMade : types'[t] = Nothing =>
       \E c \in TypeCalls :
         /\ typeCalls[c].step = "delete" /\ typeCalls[c].of = t
         /\ \/ typeCalls[c].renamed
            \/ {g \in GroupsMade : groups[g].nodeType = types[t].name} \subseteq typeCalls[c].late]_groupTypeVars
=============================================================================
