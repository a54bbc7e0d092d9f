# A formal model of mwanachama-backend-actor

The repository is a Go library over PostgreSQL: members ("actors"), the groups they belong to, how they
get in and out of them, and the role seats they hold there. It has no process of its own. Any number of
requests run its functions at once, in any number of host processes, and all they share is the database.
So what is hard here is what two calls do to each other between their SQL statements, what a call cut
short leaves behind, and what a read was worth by the time its answer was used. This project models
those parts in TLA+, checks them with TLC on small instances, and proves the main results with TLAPS for
all instances.

## Inventory

| Part | State it keeps | Operations | Hard behaviour | What makes it right |
|---|---|---|---|---|
| joining (`join_impl.go`, `join_decision_impl.go`) | one `group_join_request` row per actor and group, `join_decision` records, the group's join mode and hidden flag | JoinGroup, ApproveJoinRequest, DeclineJoinRequest, the settings | reads outside the transaction, a find-or-insert retried once, a conditional decision | one decision per ask; the row shows the latest decision; nobody gets in leaving a request behind |
| finding by code (`join_by_code_impl.go`) | none | FindGroupByCode, JoinGroupByCode | two reads that are not of one moment | what the caller is told was true at some moment |
| invitations and batches (`invitation_impl.go`, `invitation_batch_impl.go`) | one `group_invitation` row per actor and group | InviteToGroup, SendInvitationBatch, AcceptInvitation, DeclineInvitation | lapse by the clock, renewals over an answer being written, all rows checked before any is sent | answered in time and once; a lost insert finds the row |
| registrations (`registration_impl.go`) | `actor_group_assignment` | AssignGroup, Deregister, lists and pages | find then insert; a delete that does not notice it deleted nothing | in with joining and removals |
| seats and kinds (`role_assignment_impl.go`, `role_kind_impl.go`, `definition_role_impl.go`) | `actor_role_assignment` history, `role_kind.retired_at` | GrantRole, the ways a seat ends, RetireRoleKind, UnretireRoleKind, SyncDefinitionRoles | count then insert under a partial unique index; a sync of many rows in one transaction | one live seat; ended history stays; a removed role retires |
| removals (`removal_impl.go`) | `group_removal` records | RemoveFromGroup, RemoveFromAllGroups | four statements in no transaction | seats end before the record; no leaving goes unrecorded |
| sequential codes (`store.go`, `code_guard.go`, `provision.go`) | `code_sequence`, the codes of rows | nextCode in a create, the raise when a service starts | an optimistic claim with bounded attempts, codes given out in SQL, counters rewound by a start | the code inserted is free; claims exclude each other; only the overtaken are refused |
| tree of groups (`group_impl.go`) | `parent_id` | CreateGroup, MoveGroup | a walk over a list read earlier, then a write by id | no group comes above itself but by moves that race |
| hierarchies and levels (`hierarchy_impl.go`, `area_impl.go`) | level rows, `is_default_anchor` | CreateLevel, SetDefaultAnchor, DeleteLevel | clear and set in one transaction under a partial unique index; count and delete | one default anchor; a level in use is not deleted |
| names in languages (`group_name_translation_impl.go`) | one row per group and language | SetGroupNameTranslation, ReviewGroupNameTranslation | read then write by id | members read only reviewed names |
| populations (`group_population_impl.go`) | appended figures and withdrawals | RecordGroupPopulation, WithdrawGroupPopulation, LatestGroupPopulation | a recursion with a read per group, over a tree that may hold a cycle and changes meanwhile | the sum is of the newest standing figures, each group counted once; every read ends |
| group types (`grouptype_impl.go`) | `group_type` rows, and `node_type` of the groups that wear them by name | CreateGroupType, EditGroupType, DeleteGroupType | a rename rewrites the groups by the name read before; count and delete | a rename takes its groups along; a type in use is not deleted |
| delegations (`delegation_impl.go`) | `delegation` rows, revoked in place | CreateDelegation, RevokeDelegation, ActsFor | a conditional revocation; the clock read after the rows | revoked once, by whoever was told so; an answer was true when it was worked out |
| actors and their public codes (`actor_impl.go`, `public_code.go`, `provision.go`) | `actor` rows as their creators gave them, sources of attributes included, and the code format | CreateActor, EnsureActor, SetCodeFormat, the backfill when a service starts | draws counted and inserted in one transaction, beside others and beside a backfill | the code drawn is free; ensuring finds the actor; a code once given stays |
| attribute corrections (`attribute_correction_impl.go`) | the attributes of an actor and who set each | CorrectMyAttributes, SetActorAttributes | a read, a check and a write of the whole map, in no transaction | value and source belong together; nothing unnamed changes |
| rosters, standing, dashboards, preferences, screen names | none, or a single statement | reads | paging under change | not modelled: they change nothing |
| DDL, the duplicate-seat report, test runs, routes, operations | DDL, reports, a scoping column, dispatch | run by an operator, or generated | none that two calls share | not modelled |

The parts meet in the tables. Every create claims the counter of its codes; a type is worn by groups
and a sum is read over their tree. Joining, invitations, assignment and removal all write
`actor_group_assignment`; open joins and acceptances settle `group_join_request`; who may decide and
invite, and who is an outsider and may not join, is read from the active seats. Nothing calls back and
nothing is sent: the only scheduling is the database's.

## How the code is read

A step of a model is one SQL statement outside a transaction, one read inside one, or the writes of one
transaction at its commit. The transactions run at PostgreSQL's READ COMMITTED: a statement sees what
was committed when it began; a row a transaction wrote is locked until it ends. So a transaction's
writes can stand as one step, and a conditional `UPDATE ... WHERE state = 'pending'` is judged where it
takes effect. Where the lock itself matters it is modelled: the counter row in `Codes` and `Actors`, the rows of a
sync in `Seats`, the cleared anchors in `Levels`, the type and groups of a rename in `GroupTypes`, the
rows and codes of a backfill in `Actors`.

That a transaction stands as one step is an assumption of its own where its statements wait for others'
rows, or see what was committed between them. `Transactions` is there to examine it: it has the same
transactions of one actor at one group as `Joining` and `Inviting`, statement by statement, with every
wait, every deadlock and every rollback. It finds two windows a single step does not show (`Overtaken`):
an approval's or an entry's `register` inserts nothing where the row is committed and so holds no row,
which may then be deleted before the commit; and an entry passes over a request that
another transaction has written and not committed. Outside them the assumption is justified: of any number of
transactions, each commit does to the tables what `Admission` does in one step (`CommitsAdmit`), the same
abstract specification that `Membership` implements.

A call in flight is a record in a slot: its step, its inputs, and what it has read. Slots are constants
(`JoinCalls`, `GrantCalls`, ...), so a behaviour may run as many calls at once as there are slots and any
number one after another. A call that returns an error frees its slot with no write. A call whose
process died, or whose context was cancelled, is a slot in which no step is taken any more, except in
`Removal`, `Codes`, `Transactions`, `GroupTypes` and `Actors`, where the slot is freed (`Crash`,
`CreateFails`, `Fails`, `RenameFails`, `InsertFails`, `StartFails`), because what is left of it matters.

What is left out of every model: ids, messages, reasons, names, attributes and timestamps that no branch
reads. An existence check (GetActor, GetGroup) always succeeds, as actors and groups are not deleted
by the modelled operations. What is left out of one model is said below.

## Modules

| Module | Models | State and actions against the code |
|---|---|---|
| `Registrations` | the tables all membership operations share | `registered`, `request`, `seats`; `AssignGroup`, `Deregister`, `GrantSeat`, `EndSeat`; `SettlePendingJoinRequest`, `IsOutsider`, `LeadsIn` are the functions of those names |
| `Joining` | JoinGroup from its first read to its commit, decisions, settings | a join goes outsider, member, then register (open) or find and write (confirmed); `decide`'s transaction is a single step |
| `Inviting` | invitations, batches, answers and the clock | issue: outsider, member, find, write; a batch checks all rows, then does the same for each; an answer judges the row it read at its own time and writes conditionally |
| `Membership` | the composition of the three, with the properties over all of them | `Spec`; what a call meets is what the others have committed |
| `FindByCode` | the two reads of a lookup beside all of `Membership` | every other step notes, as history, where the caller stood meanwhile |
| `Admission` | the abstract specification of getting in and out | who is in, and how each wish and offer stands: no calls, reads, retries or clock. A pending wish or offer is answered once, an approval comes with its entry, and only asking or offering anew undoes an answer |
| `Transactions` | the transactions of joining, asking, deciding and answering, for one actor and group | `Statements` lists what each sends, `WaitsFor` is the database's lock table, `DetectDeadlock` its detector; a transaction's writes are its own until `Commit` |
| `Seats` | seat rows, kinds and definition syncs | an index into `seat` stands for an id; `RefusedByIndex` is the `held_once` index |
| `Removal` | removals beside everything in `Seats` | find, delete, end, record, next; may be cut anywhere |
| `Codes` | the counter row, the codes of rows, creates and starting services | `holder` and `written` are the uncommitted counter row; the manager's look for rows holding the code, and the unique index |
| `GroupTree` | parents and moves | four statements of MoveGroup; a move in flight notes, as history, that another parent was written since it listed the groups |
| `Levels` | levels, default anchor, and what wears a level | SetDefaultAnchor as clear and set, DeleteLevel as two counts and a delete |
| `Translations` | names in languages | read and write of a set and of a review |
| `Populations` | figures, withdrawals and reads of the recursive sum, over `GroupTree` | a read lists the children once and goes on group by group: `agenda` is what its recursion still has to visit |
| `Delegations` | grants, revocations and the question ActsFor answers | read and conditional write; rows, then clock |
| `GroupTypes` | types, and the hierarchy and node type of groups | a rename is a read, two updates and a commit, with the rows it has written locked |
| `Actors` | actor rows, the code format, inserts, corrections and starting services | an insert is check, claim, format, draws, insert; a correction is read, check, write; a start lists, then draws and writes row by row and commits at the end |
| `MCMembership`, `MCFindByCode`, `MCRemoval`, `MCPopulations`, `MCRecords`, `MCActors` | instances | seats the host grants, first trees and rows, symmetry, and the bounds named below |
| `MembershipTypes`, `MembershipProofs`, `TransactionsProofs`, `RemovalProofs` (with `Seats`), `CodesProofs` (with `Levels`), `RecordsProofs`, `GroupTreeProofs` (with `Populations`), `ActorsProofs` | theorems | see *What is proved* |

What single models leave out. `Registrations` takes which kinds lead and which mark an outsider as
constants, so `SetRoleKindLeadsGroup`, which changes the former, is not modelled. `Joining` does not model that the row which beat a join's insert may be deleted before it is
read again: no operation deletes a request. `Membership`'s removal of an actor is `Deregister` and
`EndSeat`, whose order and failures `Removal` has in detail. `Codes` starts from any counter and codes in
`StartCounters` and `StartCodes`, which covers the backfill and rows registered in SQL before the services run; a row
registered in SQL between a create's look and its insert, which the unique index refuses, is not there. `Levels` has one
hierarchy, and groups with an area node (others wear no level they were checked for). `GroupTree` gives
a new group a parent there is. `GroupTypes` leaves out the level a type is pinned to, and that a group
and a type claim a code. `Delegations` has the actors there are, for nothing here takes one away.
`Actors` leaves the sequential code to `Codes` and keeps of it only that its counter row, claimed first,
is held until the insert is committed; it has the codes of actors, where groups draw theirs alike, and
tells an entry of the sources by whether a
correction wrote it or the body of a create brought it, and by the value it came with.

`Init` is the empty database, with what history may have left in it where that matters: invitations
issued before they could lapse (`Legacy`), codes and counters, a tree with a cycle, tables from before
the `held_once` index (`HeldOnce = FALSE`), actors from before the codes and deleted ones (`Earlier`).

## Runs

| Run | Shows | Instance, and why it is enough |
|---|---|---|
| `joins` | `DecidedOncePerAsk`, `LatestDecisionShown`, `RetryFindsRequest`, `FalseOnlyToAMember` | two joins (both may lose to the other's insert or write), two deciders (both may have read the same pending request) and a lookup, one pair, with the leading and an outsider seat coming and going and the group opened, closed, hidden and shown. No join starts at a pair asked once, but one already begun may ask a second time. `JoinsAlone`: nobody decides or looks up while the group is hidden or the actor an outsider, which neither reads. Calls are interchangeable |
| `invitations` | `AnsweredInTime`, `RetryFindsInvitation`, `ImplementsAdmission` | an invitation and a batch of two rows (they race for the insert), two answers (they race for the row), a clock that passes the lapse once, with and without a legacy invitation; a join and a decision beside one answer. `JoinsMeetAnAnswer`: while the group is open, hidden or without its leader, or a join is in flight or has left a request, nobody invites and one answer at a time is given. Answers are interchangeable, and all properties are about pairs, so answer symmetry is sound |
| `transactions` | `DeadlockIsEntryWithApproval`, `CommitsAdmit`, `EntrySettles`, `TransactionsEnd` | three transactions of any kind, each begun once, from any committed rows, with assignments and deregistrations all the while. A deadlock needs two, what comes between their statements a third, an ask retried is still one of them |
| `seats` | `OneLiveSeat`, `EndedStays`, `RoleRemovedRetires` | two grants of one triple, a hand call and two syncs that lock each other's rows; a kind of the definition and one of the host; three seat rows, so one can be granted again after it ended |
| `removals` | `EvictedBeforeRecord`, `LeftIsRecorded` | two removals, each of one or of all of two groups; without the index, so two live duplicates of a seat; the actor comes back once; any removal may be cut. Calls are interchangeable |
| `levels` | `OneDefaultAnchor`, `AnchorLostOnlyWithALevel`, `DeletedLevelWasUnworn` | two calls over three levels (a standing anchor and two that compete to replace it), a group and a kind |
| `records` | `CodeIsFree`, `ClaimsAreApart`, `LosersWereOvertaken`; `UnseenNameWasOvertaken`; `RevokedByOne`, `AnswerWasTrue`; `RenameCarriesItsGroups`, `DeletedTypeWasUnworn` | four modules that share no row, so a behaviour moves one of them and leaves the others as at first. Two creates, two starts, three attempts, two skips (the code has more of both; three and two already end in exhaustion), counters behind, at and past the codes there are; three calls over one name (a review, the set that overtakes it, and the set before); two delegations, two revocations and a question over a clock of three moments, so that one is asked before, at and after an end; two types, two groups, two hierarchies, two names and two calls. Types, groups, hierarchies, names of types and calls are interchangeable |
| `populations` | `LatestSumsReached`, `ReadsEnd`, `CycleOnlyByAnOvertakenMove` | three groups, starting as a cycle with a third group beneath or as two with a third to come; two figures over two dates, a withdrawal and a read, while one group moves; `MovesRaceAlone`: two moves race only in a tree without figures and reads |
| `actors` | `SourceOfItsValue`, `UnnamedChangeWasOvertaken`, `EnsureFindsActor`, `DrawnCodeIsFree`, `CodeRewrittenOnlyByAStart` | an actor without a code, one with, either deleted or not, and one to come; two calls and two starts over three codes and two draws (the code has eight; two already end in exhaustion); two attributes whose two values collide, and a create that brings the source of one of them or none |
| `stale_ask` | violated: `DeclineBecomesAppeal` | see below |
| `given_sources` | violated: `GivenAtCreateHasNoEntry` | see below |
| `tree_cycle` | violated: `NoGroupAboveItself` | see below |

The type invariants `TypeOK`, `CodesTypeOK`, `LevelsTypeOK`, `PopulationsTypeOK` and `ActorsTypeOK` are
checked too; they carry more than types (bounded attempts, unique codes and attributes, withdrawals that
copy an earlier figure). They are proved too, as are those of `Seats`,
`Removal`, `Translations`, `Delegations`, `GroupTree` and `Transactions`, which no run repeats; `GroupTypes` was
checked against its own while it was written. Every bound is a constant: how often a pair is
asked (`MaxAsks`), the rows of a batch (`MaxRows`), the clock (`MaxClock`, `MaxTime`), rows ever inserted
(`MaxSeats`, `MaxFigures`, `MaxCodes`), how often an actor is registered (`MaxRejoins`). In
`populations`, `actors`, `records` and `transactions` a call is made once: `Done` is not `Idle`. Deadlock
is checked except in `levels`, `records`, `populations`, `actors`, `given_sources` and `tree_cycle`: there rows may only be
added, or ids and calls are used once, so the small instance runs out, which the system does not. That creates and starts
do not deadlock on the counter row is the theorem `CounterNeverDeadlocks`.

Fairness. `TransactionsEnd` is checked under weak fairness of `GoesOn`: as long as some statement has
nothing to wait for, one is answered, and the database breaks the cycles of those that wait for each
other, which is what its deadlock detector is for. Nothing is assumed of any one transaction: a wait ends
because whoever is waited for ends. `ReadsEnd` is checked under weak fairness of each read: its
statements are reads, which wait for nobody. Nobody has to begin a call, and nothing is assumed of the
host's assignments, moves or figures.

## Where the code and the documents part

Three runs end in a counterexample on purpose.

* `stale_ask`. `joining-groups.md` says that asking again after a decline makes an appeal. An ask that
  read the request as pending (or undecided) before a decline commits writes what it made of that
  reading over the decline: the request is pending again, the decline gone from it, and no appeal.
* `given_sources`. `self-corrected-attributes.md` says that an attribute given at create has no entry
  among the sources, and so reads as entered by staff. `create_actor` takes the whole actor as its body, and
  CreateActor mints the id, the codes and the times but stores `attribute_sources` as they came, so a value
  nobody corrected may be said to be corrected. `SourceOfItsValue` says what holds all the same: an entry,
  whichever way it came, stands beside the value it came with.
* `tree_cycle`. `errors.go` says a group cannot be moved beneath its own subtree. Two moves that each
  listed the groups before the other's write put two groups under each other.

Others came up in modelling. They follow from steps the models have, but no run is kept for them.

* AssignGroup leaves an actor's pending request, so the deciders' list can show a member
  (`joining-groups.md`); `Admission` lets it, so no property tells. So does an entry, when the ask is committed after it looked: at the grain of
  statements that is all that `EntrySettles` leaves open.
* A member deregistered between an approval's read of the row and its commit is approved and not
  registered; `ApprovedIsIn`, which follows from `CommitsAdmit`, says that this is the only way.
* An approval does not ask whether the actor has become an outsider since (`errors.go`).
* A lookup by code can answer `none` to an actor who was asking before and a member after: the
  registration is read first (`joining-groups.md`). `FalseOnlyToAMember` says this is the only way.
* A batch row may renew an invitation issued since it looked for an open one (`invitations.md`).
* A grant between the count of a hand retiring and its update, or in the middle of a sync, leaves a
  live seat of a retired kind (`group-leaders.md`, `definition-roles.md`). `RoleRemovedRetires` is about
  the seats that were ended and does not exclude it.
* Two removals of one registration may both record it, and a removal cut after the row went leaves
  seats that no second removal will end (`removing-members.md`). `LeftIsRecorded` is about removals: a
  Deregister called by itself writes no record, and the document sends hosts to RemoveFromGroup.
* A move begun before its group was made a root makes it a root no longer (`errors.go`).
* A level may be deleted that a group has come to since it was counted, or is about to be inserted at
  (`errors.go`); `DeletedLevelWasUnworn` says what still holds.
* A name set between a review's read and its mark is published unreviewed, and a set of a name that was
  reviewed meanwhile clears that review (`group-name-translations.md`).
* Two services that start at once both list the rows without a public code. The later one's update by id
  waits for the earlier one's commit and then writes its own code over it: a code that is said to be
  drawn once and never rewritten is (`public-codes.md`). `CodeRewrittenOnlyByAStart` says nothing else does.
* Of two corrections of one actor that overlap, the later puts back the attribute the earlier changed,
  though only the named ones are said to be merged over the held ones (`self-corrected-attributes.md`).
* EnsureActor answers that the actor is not found where the actor is deleted, or where a start gave away the
  code it drew between the count and the insert: the refused code is taken for the refused id.
* A type renamed twice at once leaves groups with a name no type has, and a type goes while a group that
  came to its name after the count wears it (`models/grouptype.go` calls the name what a group's type
  "is meant to name").
* Two withdrawals that both saw a figure standing both withdraw it (`group-populations.md`).

## What is proved

For any actors, groups, kinds, calls in flight and bounds, under the assumptions the modules name (kinds
that lead are kinds, `Nobody` is no decider, lifetimes and attempts are positive, and the like). Where rows or
calls are counted (`RemoveCalls`), listed (`Ids`) or walked (`Groups` of `Populations`) they are finitely many, and `Earlier` holds tables the unique
indexes admit, whose attributes and sources agree.

| Theorem | Says | Argument |
|---|---|---|
| `MembershipTypes!TypeCorrect` | `TypeOK` | one lemma per operation. The invariant is `Typed`, which adds that a batch in flight has a row to go on with: without it `Head` of the rest has no type |
| `MembershipProofs!DecidedOnce` | `DecidedOncePerAsk` | only five kinds of step write a request (`RequestWriters`); each keeps the count |
| `MembershipProofs!LatestDecision` | `LatestDecisionShown` | the same five; record and row are written together |
| `MembershipProofs!OneRetrySuffices` | `RetryFindsRequest` | a join that lost its insert lost to a row, and rows stay (`RequestStays`) |
| `MembershipProofs!AnswersInTime`, `AnswersStand` | `AnsweredInTime`; and `AnswerStands`: an answer is only replaced by issuing anew | every issue in flight is fresh (`IssuesFresh`), so only a conditional update writes an answer |
| `MembershipProofs!ApprovalsRegister`, `EntriesSettle` | `ApprovalRegisters`, `EntrySettlesRequest`: what `ApprovedIsIn` (a consequence of `CommitsAdmit`) and `EntrySettles` say of statements, of transactions taken whole | by the writers of requests and of registrations |
| `MembershipProofs!MembershipAdmits` | `ImplementsAdmission` | each step is an admission step or a stutter, one lemma per kind of step |
| `RemovalProofs!SeatsTypeCorrect`, `SeatHeldOnce`, `HistoryKept`, `RemovedRolesRetire` | `SeatsTypeOK`, `OneLiveSeat`, `EndedStays`, `RoleRemovedRetires` | there are four ways to write the seats (`SeatWriters`); for the last, a sync ends only seats of kinds it retires |
| `CodesProofs!CodesTypeCorrect` | `CodesTypeOK`: in particular attempts and skips stay in bounds | one lemma per actor |
| `CodesProofs!InsertedCodeIsFree`, `ClaimsExcludeEachOther` | `CodeIsFree`, `ClaimsAreApart` | the lock: whoever has claimed holds the counter row (`ClaimIsLocked`), so nobody else inserts between its look and its insert |
| `CodesProofs!LosersAreOvertaken` | `LosersWereOvertaken` | strengthened by counting a claim as lost once the counter is no longer what it read (`LostToMoves`) |
| `CodesProofs!CounterNeverDeadlocks`, `CreatesAreShort` | `WaitsForOneThatGoesOn`, `CreatesComeCloser`: creates and starts never wait for each other in a circle on the counter row, and a create has at most `Skips * (2 * Attempts + 1) + 1` statements after its seed | whoever holds the row is in flight (`HolderInFlight`), and a holder waits for nobody: to look needs no lock, and to insert no row holds its code. A statement passes a code, loses an attempt or goes on |
| `TransactionsProofs!DeadlocksAreOfEntryWithApproval` | `DeadlockIsEntryWithApproval`, for any number of transactions | by contradiction over who holds what: whoever waits in a cycle holds a row, and only an entry past its insert and an approval past its decision hold one and send for another. The invariant says which writes each statement count leaves, that answers and requests held are of rows still pending, and that no two transactions hold one row |
| `TransactionsProofs!ApprovedAreIn`, `EntriesSettle` | `ApprovedIsIn`, `EntrySettles` | the same invariant, with what `took` and `settled` remember: whoever took and was not left is registered or will be; whoever settled leaves nothing pending that was not asked since |
| `TransactionsProofs!CommittedIsAdmitted` | `CommitsAdmit` | a second invariant (`HeldInv`): one transaction at most holds the request, and one the invitation; whoever decides, settles or answers holds a row still pending; whoever is past such a statement has written. So each kind's commit is the admission of that kind (`CommitAdmits`): an open entry walks in, an acceptance takes, an approval grants |
| `TransactionsProofs!OneCanGoOn`, `EachStepComesCloser` | `SomeoneGoesOn`, `StepsComeCloser`: what there is of `TransactionsEnd` without fairness | if all that are on wait, they are a deadlock, so there is an entry and an approval in it, and those two alone are a smallest one; a measure (`ToGo`) of the statements left and the one retry |
| `GroupTreeProofs!PopulationsTypeCorrect`, `AnswersSumTheReached` | `PopulationsTypeOK`, `LatestSumsReached`, over any tree, cycles included | while nobody records, a read has come to its group, to the inner groups of all it has seen without a figure, and only to groups it is led to (`ReadSound`). With nothing left to go to, what it has seen is closed, so it is all it is led to. That what it added up is the sum of the set, in whatever order, is `TotalOfOneMore`: by a smallest set for which it fails (`MinimalSubset`) |
| `GroupTreeProofs!ReadsComeCloser` | `VisitsComeCloser`: what there is of `ReadsEnd` without fairness | a visit sees a group more, or drops one that was seen |
| `RecordsProofs!NamesTypeCorrect`, `UnseenNamesWereOvertaken` | `TranslationsTypeOK`, `UnseenNameWasOvertaken` | strengthened by what a review in flight has read: that, or it was overtaken |
| `RecordsProofs!OneRevokes`, `AnswersWereTrue` | `RevokedByOne`, `AnswerWasTrue` | a row's ends never change and it is revoked at most once; a question in flight holds rows that were there, and calls live those that were, by a clock that has gone on since |
| `RecordsProofs!GroupTypesTypeCorrect`, `RenamesCarryTheirGroups`, `DeletedTypesWereUnworn` | `GroupTypesTypeOK`, `RenameCarriesItsGroups`, `DeletedTypeWasUnworn` | a type in flight has the name it was read with, is gone or was renamed; a rename that has looked has found all the groups but the late ones, and one yet to commit holds those it wrote, so no other write takes them from under it (`TakenApart`) |
| `GroupTreeProofs!CyclesNeedAnOvertakenMove` | `CycleOnlyByAnOvertakenMove`, from any tree | a group is above another when every upward set that holds the one holds the other, so no path need be followed: a move that is not overtaken still sees an upward set with its new parent and without its group, and joining and intersecting that set with an older one shows that whatever was not above itself is not now |
| `RemovalProofs!RemovalTypeCorrect`, `EvictionsPrecedeRecords` | `RemovalTypeOK`, `EvictedBeforeRecord` | steps of `Seats` keep its invariants; a seat that ended stays so |
| `RemovalProofs!NoneLeavesUnrecorded` | `LeftIsRecorded` | by counting: the removals that owe a record of a pair are a finite set, which a delete adds one to, and a record or a cut takes one from |
| `MembershipProofs!OneReissueSuffices` | `RetryFindsInvitation` | an issue that was refused has its row, which stays (`InvitationStays`), and looks again before it writes; a batch's next row has not been refused |
| `MembershipProofs!FalsehoodsAreToMembers` | `FalseOnlyToAMember` | a lookup still reading has noted where its actor stands now |
| `CodesProofs!LevelsTypeCorrect`, `AnchorIsOne`, `AnchorGoesWithALevel`, `CountedLevelsGoUnworn` | `LevelsTypeOK`, `OneDefaultAnchor`, `AnchorLostOnlyWithALevel`, `DeletedLevelWasUnworn` | the index admits an anchor only beside none, or beside those the same transaction clears; whoever wears a level that was counted has come to it since (`CountedUnworn`) |
| `ActorsProofs!ActorsTypeCorrect`, `SourcesMatch` | `ActorsTypeOK`, `SourceOfItsValue` | with rows, corrections and starts in flight that are each sound: what a create was given and what a correction read have sources that go with their values, and so has what each writes; a start's codes are apart from each other and from those it saw |
| `ActorsProofs!DrawnCodesStayFree`, `EnsureFinds` | `DrawnCodeIsFree`, `EnsureFindsActor` | the counter again: of all calls on their way from the claim to the insert there is one, so what else takes a code is a start, and then the call is late |
| `ActorsProofs!UnnamedStay`, `CodesRewrittenByStarts` | `UnnamedChangeWasOvertaken`, `CodeRewrittenOnlyByAStart` | a correction that is not late holds the row as it is; a start that lists a row holds it as without a code until it is late for it |

Only model-checked: liveness (`TransactionsEnd`, `ReadsEnd`), as these provers know nothing of fairness. What the
two rest on is proved: there is a step to take, and each that is taken comes closer to the end. The library's
induction theorems take an operator, which none of the provers can instantiate; where a proof needs
induction over a finite set (the sum of a read, the newest row) it takes a smallest counterexample
instead, which the well-foundedness of strict inclusion gives.

## What is left

The plan, in the order of what matters. (1) Done: `Registrations`, `Joining`, `Inviting`, `Membership`,
`Admission`, `Transactions`; `Seats`, `Removal`; `Codes`; `GroupTree`, `Levels`, `Translations`,
`Populations`; `FindByCode`; `GroupTypes`, `Delegations`, `Actors`. (2) To model next: the attributes and
home counts of an assignment; the level of a group type, which DeleteLevel does not count; the backfill of
sequential codes beside creates. (3) Proved: every invariant and action property the runs check.

Not planned: rosters, standing and dashboards (reads), the DDL of provisioning and the duplicate-seat
report (run alone by an operator), test runs (the same system once more under another key), routes and operations
(dispatch).
