------------------------------- MODULE Actors -------------------------------
(***************************************************************************)
(* The actors' rows: creating one and ensuring one is there with a public  *)
(* code (actor_impl.go, public_code.go), correcting the attributes of one  *)
(* (attribute_correction_impl.go), and a starting service that gives codes *)
(* to the rows without (provision.go).                                     *)
(*                                                                         *)
(* An insert is a transaction that claims the counter of codes first, so   *)
(* no two inserts are under way at once; a start's transaction claims no   *)
(* counter, and a correction reads and writes outside any.                 *)
(***************************************************************************)
EXTENDS Naturals, FiniteSets, Sequences, SequencesExt, Functions

CONSTANTS
  Ids,          \* ids of actors
  Attributes,   \* the attributes declared, each of them unique
  Values,       \* the values they are given
  Blank,        \* no value
  Codes,        \* public codes
  NoCode,       \* an empty public_code
  NoActor,      \* no row
  Groups,       \* the number of groups of each code
  Formats,      \* the numbers of groups the code format is set to
  Draws,        \* publicCodeDraws
  Corrections,  \* the changes asked of the attributes
  SourcesGiven, \* the attributes whose sources the body of a create may bring
  Calls,        \* the calls that may be made
  Starts,       \* the starts of a service
  Earlier       \* the rows there may be at first

ASSUME ActorsAssumption ==
  /\ NoCode \notin Codes
  /\ Blank \notin Values
  /\ Groups \in [Codes -> Nat]
  /\ Formats \subseteq Nat
  /\ Draws \in Nat \ {0}
  /\ \A changes \in Corrections :
       /\ DOMAIN changes \subseteq Attributes
       /\ \A x \in DOMAIN changes : changes[x] \in Values \cup {Blank}
  /\ SourcesGiven \subseteq SUBSET Attributes
  /\ IsFiniteSet(Ids)

VARIABLES
  actors, \* the row of each id
  format, \* the group count in force
  calls,  \* the calls in flight
  starts  \* the starts in flight

actorVars == <<actors, format, calls, starts>>

Held == [Attributes -> Values \cup {Blank}]

\* What an entry of the sources is told by is history: whether a correction
\* or the create wrote it, and the value that was written with it.
Entry == [by: {"correction", "create"}, value: Values \cup {Blank}]
NoEntry == [by |-> "nobody"]
SourcesHeld == [Attributes -> Entry \cup {NoEntry}]

Actor == [attributes: Held, sources: SourcesHeld, code: Codes \cup {NoCode}, deleted: BOOLEAN]

\* The indexes keep codes and attributes apart.
Indexed(rows, I) ==
  /\ \A i, j \in I : rows[i].code = rows[j].code => i = j \/ rows[i].code = NoCode
  /\ \A i, j \in I : \A x \in Attributes :
       rows[i].attributes[x] = rows[j].attributes[x] => i = j \/ rows[i].attributes[x] = Blank

\* Every entry is of the value the attribute has.
Sourced(row) ==
  \A x \in Attributes : row.sources[x] # NoEntry => row.attributes[x] = row.sources[x].value

ASSUME EarlierAssumption ==
  /\ NoActor \notin Actor
  /\ Earlier \subseteq [Ids -> Actor \cup {NoActor}]
  /\ \A rows \in Earlier :
       LET I == {i \in Ids : rows[i] # NoActor}
       IN  Indexed(rows, I) /\ \A i \in I : Sourced(rows[i])

Idle == [step |-> "idle"]
Done == [step |-> "done"]

\* What the caller gives of the row, each entry told by the value beside it;
\* the rest is the server's to mint.
Columns == {given \in [attributes: Held, sources: SourcesHeld] : Sourced(given)}

\* ensure tells an EnsureActor; late is history: a start committed codes since
\* the code was found free.
InsertCall ==
  [step: {"check", "claim", "format"}, id: Ids, given: Columns, ensure: BOOLEAN] \cup
  [step: {"draw"}, id: Ids, given: Columns, ensure: BOOLEAN, groups: Nat, draw: Nat] \cup
  [step: {"insert"}, id: Ids, given: Columns, ensure: BOOLEAN, code: Codes, late: BOOLEAN] \cup
  [step: {"again"}, id: Ids, late: BOOLEAN]

\* held is the row as read; late is history: another correction of the actor
\* was written since.
CorrectCall ==
  [step: {"besides", "write"}, id: Ids, held: Actor, changes: Corrections, late: BOOLEAN]

\* coded are the codes written and not committed; late is history: the rows
\* that another start's commit gave a code since they were listed.
Coded == UNION {[I -> Codes] : I \in SUBSET Ids}
StartCall ==
  [step: {"code"}, todo: Seq(Ids), coded: Coded, late: SUBSET Ids] \cup
  [step: {"draw"}, todo: Seq(Ids), coded: Coded, late: SUBSET Ids, groups: Nat, draw: Nat] \cup
  [step: {"update"}, todo: Seq(Ids), coded: Coded, late: SUBSET Ids, code: Codes]

Rows == {i \in Ids : actors[i] # NoActor}
CodesHeld == {actors[i].code : i \in Rows} \ {NoCode}

\* Another row holds the value of an attribute; deleted ones count.
HeldBesides(i, x, v) == v # Blank /\ \E j \in Rows \ {i} : actors[j].attributes[x] = v

\* What the starts S have written and not committed.
InHand(S) == {s \in S : starts[s].step \in {"code", "draw", "update"}}
CodesWritten(S) == UNION {Range(starts[s].coded) : s \in InHand(S)}
RowsLocked(S) == UNION {DOMAIN starts[s].coded : s \in InHand(S)}

Returns(c) == calls' = [calls EXCEPT ![c] = Done]

-----------------------------------------------------------------------------
\* The body of a create: attributes, and sources of those claimed, whatever they say.
Given(changes, claimed) ==
  LET value == [x \in Attributes |-> IF x \in DOMAIN changes THEN changes[x] ELSE Blank]
  IN  [attributes |-> value,
       sources |-> [x \in Attributes |->
         IF x \in claimed THEN [by |-> "create", value |-> value[x]] ELSE NoEntry]]

\* EnsureActor gives an id alone.
NothingGiven ==
  [attributes |-> [x \in Attributes |-> Blank], sources |-> [x \in Attributes |-> NoEntry]]

\* checkUniqueAttributes comes first; the id is newly minted.
CreateActor(c, i, given) ==
  /\ calls[c] = Idle
  /\ i \notin Rows
  /\ \A d \in Calls : calls[d].step \notin {"idle", "done"} => calls[d].id # i
  /\ calls' = [calls EXCEPT ![c] =
       [step |-> "check", id |-> i, given |-> given, ensure |-> FALSE]]
  /\ UNCHANGED <<actors, format, starts>>

CheckUniqueAttributes(c) ==
  /\ calls[c].step = "check"
  /\ IF \E x \in Attributes : HeldBesides(calls[c].id, x, calls[c].given.attributes[x])
     THEN Returns(c)
     ELSE calls' = [calls EXCEPT ![c].step = "claim"]
  /\ UNCHANGED <<actors, format, starts>>

\* An actor found and not deleted is the answer.
Found(i) == i \in Rows /\ ~actors[i].deleted

EnsureActor(c, i) ==
  /\ calls[c] = Idle
  /\ IF Found(i)
     THEN Returns(c)
     ELSE calls' = [calls EXCEPT ![c] =
            [step |-> "claim", id |-> i, given |-> NothingGiven, ensure |-> TRUE]]
  /\ UNCHANGED <<actors, format, starts>>

\* Mutant: the counter is claimed and let go.
Unlocked(c) == TRUE

\* The claim waits for the transaction that claimed the counter before.
CounterFree(c) == \A d \in Calls \ {c} : calls[d].step \notin {"format", "draw", "insert"}

ClaimCode(c) ==
  /\ calls[c].step = "claim"
  /\ CounterFree(c)
  /\ calls' = [calls EXCEPT ![c].step = "format"]
  /\ UNCHANGED <<actors, format, starts>>

\* codeGroupsIn
ReadFormat(c) ==
  /\ calls[c].step = "format"
  /\ calls' = [calls EXCEPT ![c] =
       [step |-> "draw", id |-> @.id, given |-> @.given, ensure |-> @.ensure,
        groups |-> format, draw |-> 0]]
  /\ UNCHANGED <<actors, format, starts>>

\* Mutant: the codes of deleted rows are not counted.
HeldByTheLiving(code) == \E i \in Rows : ~actors[i].deleted /\ actors[i].code = code

\* The rows that hold the drawn code are counted, deleted ones too.
Collides(code) == code \in CodesHeld

\* A held code is dropped and one of another group drawn, until all are used up.
DrawCode(c, code) ==
  LET call == calls[c] IN
  /\ call.step = "draw"
  /\ Groups[code] = call.groups + call.draw
  /\ calls' = [calls EXCEPT ![c] =
       CASE ~Collides(code) ->
              [step |-> "insert", id |-> @.id, given |-> @.given,
               ensure |-> @.ensure, code |-> code, late |-> FALSE]
         [] Collides(code) /\ call.draw + 1 < Draws -> [call EXCEPT !.draw = @ + 1]
         [] OTHER -> Done]
  /\ UNCHANGED <<actors, format, starts>>

\* Mutant: no index keeps the codes apart.
NoCodeIndex(c) == FALSE

\* The indexes the row would offend: which of them is named is the database's.
IdRefused(c) == calls[c].id \in Rows
CodeRefused(c) == calls[c].code \in CodesHeld
AttributeRefused(c) ==
  \E x \in Attributes : HeldBesides(calls[c].id, x, calls[c].given.attributes[x])

\* The row has the attributes and the sources as they were given.
InsertActor(c) ==
  LET call == calls[c]
      row  == [attributes |-> call.given.attributes, sources |-> call.given.sources,
               code |-> call.code, deleted |-> FALSE]
  IN
  /\ call.step = "insert"
  /\ call.code \notin CodesWritten(Starts)
  /\ ~IdRefused(c) /\ ~CodeRefused(c) /\ ~AttributeRefused(c)
  /\ actors' = [actors EXCEPT ![call.id] = row]
  /\ Returns(c)
  /\ UNCHANGED <<format, starts>>

\* ErrDuplicateID lets EnsureActor look once more.
InsertRefused(c) ==
  LET call == calls[c] IN
  /\ call.step = "insert"
  /\ \/ /\ IdRefused(c) \/ CodeRefused(c)
        /\ calls' = [calls EXCEPT ![c] =
             IF call.ensure THEN [step |-> "again", id |-> call.id, late |-> call.late] ELSE Done]
     \/ AttributeRefused(c) /\ Returns(c)
  /\ UNCHANGED <<actors, format, starts>>

\* The row, or ErrActorNotFound.
EnsureAgain(c) ==
  /\ calls[c].step = "again"
  /\ Returns(c)
  /\ UNCHANGED <<actors, format, starts>>

\* Any statement may fail: the transaction is rolled back.
InsertFails(c) ==
  /\ calls[c].step \in {"claim", "format", "draw", "insert"}
  /\ Returns(c)
  /\ UNCHANGED <<actors, format, starts>>

\* setCodeFormat: an update, or the insert where there is no row yet; the
\* loser of two first inserts updates when it tries once more.
SetCodeFormat(n) ==
  /\ format' = n
  /\ UNCHANGED <<actors, calls, starts>>

-----------------------------------------------------------------------------
\* CorrectMyAttributes and SetActorAttributes
SetAttributes(c, i, changes) ==
  /\ calls[c] = Idle
  /\ Found(i)
  /\ calls' = [calls EXCEPT ![c] =
       [step |-> "besides", id |-> i, held |-> actors[i], changes |-> changes, late |-> FALSE]]
  /\ UNCHANGED <<actors, format, starts>>

CheckUniqueAttributesBesides(c) ==
  /\ calls[c].step = "besides"
  /\ IF \E x \in DOMAIN calls[c].changes : HeldBesides(calls[c].id, x, calls[c].changes[x])
     THEN Returns(c)
     ELSE calls' = [calls EXCEPT ![c].step = "write"]
  /\ UNCHANGED <<actors, format, starts>>

\* Mutant: what the correction does not name is cleared.
NamedOnly(c) == [x \in Attributes |->
  IF x \in DOMAIN calls[c].changes THEN calls[c].changes[x] ELSE Blank]

\* The named attributes over those held as they were read.
Merged(c) == [x \in Attributes |->
  IF x \in DOMAIN calls[c].changes THEN calls[c].changes[x] ELSE calls[c].held.attributes[x]]

\* The editor's entry, made for a value that is cleared too.
Corrected(c, x) == [by |-> "correction", value |-> calls[c].changes[x]]

\* Mutant: the sources are merged over the row as it is by now.
SourcesNow(c) == [x \in Attributes |->
  IF x \in DOMAIN calls[c].changes THEN Corrected(c, x) ELSE actors[calls[c].id].sources[x]]

\* The entries of the attributes named over those held as they were read.
Sources(c) == [x \in Attributes |->
  IF x \in DOMAIN calls[c].changes THEN Corrected(c, x) ELSE calls[c].held.sources[x]]

\* The update by id waits for a start that has written the row, and is refused
\* where another row holds a value, one not named even.
WriteAttributes(c) ==
  LET i == calls[c].id IN
  /\ calls[c].step = "write"
  /\ i \notin RowsLocked(Starts)
  /\ IF \E x \in Attributes : HeldBesides(i, x, Merged(c)[x])
     THEN /\ UNCHANGED actors
          /\ Returns(c)
     ELSE /\ actors' = [actors EXCEPT ![i].attributes = Merged(c), ![i].sources = Sources(c)]
          /\ calls' = [d \in Calls |->
               CASE d = c -> Done
                 [] d # c /\ calls[d].step \in {"besides", "write"} /\ calls[d].id = i ->
                      [calls[d] EXCEPT !.late = TRUE]
                 [] OTHER -> calls[d]]
  /\ UNCHANGED <<format, starts>>

-----------------------------------------------------------------------------
\* Mutant: every row is listed.
AllRows == Rows

\* The rows without a code, deleted ones too.
Uncoded == {i \in Rows : actors[i].code = NoCode}

BackfillPublicCodes(s) ==
  /\ starts[s] = Idle
  /\ starts' = [starts EXCEPT ![s] =
       [step |-> "code", todo |-> SetToSeq(Uncoded), coded |-> << >>, late |-> {}]]
  /\ UNCHANGED <<actors, format, calls>>

StartReadsFormat(s) ==
  LET start == starts[s] IN
  /\ start.step = "code"
  /\ start.todo # << >>
  /\ starts' = [starts EXCEPT ![s] =
       [step |-> "draw", todo |-> @.todo, coded |-> @.coded, late |-> @.late,
        groups |-> format, draw |-> 0]]
  /\ UNCHANGED <<actors, format, calls>>

\* The start sees the codes it has written itself.
StartDraws(s, code) ==
  LET start == starts[s]
      held  == Collides(code) \/ code \in Range(start.coded)
  IN
  /\ start.step = "draw"
  /\ Groups[code] = start.groups + start.draw
  /\ starts' = [starts EXCEPT ![s] =
       CASE ~held -> [step |-> "update", todo |-> @.todo, coded |-> @.coded,
                      late |-> @.late, code |-> code]
         [] held /\ start.draw + 1 < Draws -> [start EXCEPT !.draw = @ + 1]
         [] OTHER -> Done]
  /\ UNCHANGED <<actors, format, calls>>

\* The update by id waits for another start's row or code.  Refused by the
\* index, the start fails.
UpdateCode(s) ==
  LET start == starts[s]
      i     == Head(start.todo)
  IN
  /\ start.step = "update"
  /\ i \notin RowsLocked(Starts \ {s})
  /\ start.code \notin CodesWritten(Starts \ {s})
  /\ starts' = [starts EXCEPT ![s] =
       IF start.code \in CodesHeld THEN Done
       ELSE [step |-> "code", todo |-> Tail(@.todo), late |-> @.late,
             coded |-> [j \in DOMAIN @.coded \cup {i} |->
                          IF j = i THEN start.code ELSE @.coded[j]]]]
  /\ UNCHANGED <<actors, format, calls>>

\* Any statement may fail: the transaction is rolled back.
StartFails(s) ==
  /\ s \in InHand(Starts)
  /\ starts' = [starts EXCEPT ![s] = Done]
  /\ UNCHANGED <<actors, format, calls>>

\* Every code found free is found so before these are shown.
StartCommits(s) ==
  LET coded == starts[s].coded IN
  /\ starts[s].step = "code"
  /\ starts[s].todo = << >>
  /\ actors' = [i \in Ids |->
       IF i \in DOMAIN coded THEN [actors[i] EXCEPT !.code = coded[i]] ELSE actors[i]]
  /\ starts' = [t \in Starts |->
       CASE t = s -> Done
         [] t # s /\ t \in InHand(Starts) -> [starts[t] EXCEPT !.late = @ \cup DOMAIN coded]
         [] OTHER -> starts[t]]
  /\ calls' = [c \in Calls |->
       IF calls[c].step = "insert" THEN [calls[c] EXCEPT !.late = TRUE] ELSE calls[c]]
  /\ UNCHANGED format

-----------------------------------------------------------------------------
\* Rows of before the codes, and deleted ones: nothing here deletes a row.
ActorsInit ==
  /\ actors \in Earlier
  /\ format \in Formats
  /\ calls = [c \in Calls |-> Idle]
  /\ starts = [s \in Starts |-> Idle]

ActorsNext ==
  \/ \E c \in Calls :
       \/ \E i \in Ids :
            \/ \E changes \in Corrections, claimed \in SourcesGiven :
                 CreateActor(c, i, Given(changes, claimed))
            \/ EnsureActor(c, i)
            \/ \E changes \in Corrections : SetAttributes(c, i, changes)
       \/ CheckUniqueAttributes(c) \/ ClaimCode(c) \/ ReadFormat(c)
       \/ \E code \in Codes : DrawCode(c, code)
       \/ InsertActor(c) \/ InsertRefused(c) \/ EnsureAgain(c) \/ InsertFails(c)
       \/ CheckUniqueAttributesBesides(c) \/ WriteAttributes(c)
  \/ \E n \in Formats : SetCodeFormat(n)
  \/ \E s \in Starts :
       \/ BackfillPublicCodes(s) \/ StartReadsFormat(s)
       \/ \E code \in Codes : StartDraws(s, code)
       \/ UpdateCode(s) \/ StartFails(s) \/ StartCommits(s)

ActorsSpec == ActorsInit /\ [][ActorsNext]_actorVars

ActorsTypeOK ==
  /\ actors \in [Ids -> Actor \cup {NoActor}]
  /\ format \in Formats
  /\ calls \in [Calls -> InsertCall \cup CorrectCall \cup {Idle, Done}]
  /\ starts \in [Starts -> StartCall \cup {Idle, Done}]
  /\ Indexed(actors, Rows)

-----------------------------------------------------------------------------
(***************************************************************************)
(* An entry of the sources stands only beside the value it was written     *)
(* with, though corrections of one actor overlap (setAttributes): who is   *)
(* said to have corrected an attribute set the value it has, and an entry  *)
(* that the body of a create brought goes with the value it came with.     *)
(***************************************************************************)
SourceOfItsValue == \A i \in Rows : Sourced(actors[i])

(***************************************************************************)
(* What self-corrected-attributes.md says of a value given at create: it   *)
(* has no entry.  CreateActor stores the entries the body brings.          *)
(***************************************************************************)
GivenAtCreateHasNoEntry ==
  [][\A i \in Rows' \ Rows : \A x \in Attributes : actors'[i].sources[x] = NoEntry]_actorVars

(***************************************************************************)
(* A correction changes an attribute it does not name only where another   *)
(* correction of the actor was written between its read and its write      *)
(* (setAttributes writes the whole map).                                   *)
(***************************************************************************)
UnnamedChangeWasOvertaken ==
  [][\A c \in Calls : calls[c].step = "write" /\ calls'[c] = Done /\ ~calls[c].late =>
       LET i == calls[c].id IN
       \A x \in Attributes \ DOMAIN calls[c].changes :
         actors'[i].attributes[x] = actors[i].attributes[x]]_actorVars

(***************************************************************************)
(* EnsureActor looks once more for an actor that is there, deleted at the  *)
(* worst, or that a code refused because a starting service gave it away   *)
(* since it was found free: never for the code of another insert.          *)
(***************************************************************************)
EnsureFindsActor ==
  \A c \in Calls : calls[c].step = "again" => calls[c].id \in Rows \/ calls[c].late

(***************************************************************************)
(* The code an insert drew is free when it inserts, unless a starting      *)
(* service committed codes since: the counter claimed before the draw      *)
(* keeps other inserts away (insertActor, mintPublicCode).                 *)
(***************************************************************************)
DrawnCodeIsFree ==
  \A c \in Calls : calls[c].step = "insert" => calls[c].late \/ calls[c].code \notin CodesHeld

(***************************************************************************)
(* A public code is rewritten only by a start that listed the row without  *)
(* one before another start's commit gave it the code                      *)
(* (backfillPublicCodes).                                                  *)
(***************************************************************************)
CodeRewrittenOnlyByAStart ==
  [][\A i \in Rows : actors'[i].code # actors[i].code =>
       \/ actors[i].code = NoCode
       \/ \E s \in InHand(Starts) : i \in starts[s].late /\ starts'[s] = Done]_actorVars
=============================================================================
