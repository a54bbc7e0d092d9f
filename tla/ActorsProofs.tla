---------------------------- MODULE ActorsProofs ----------------------------
(***************************************************************************)
(* Theorems about the rows of actors, for any ids, attributes, codes,      *)
(* calls and starts: the types and what the indexes keep apart, the code   *)
(* an insert drew, what EnsureActor finds, the sources of attributes, and  *)
(* who may rewrite a code or an attribute.                                 *)
(***************************************************************************)
EXTENDS Actors, SequenceTheorems, FiniteSetTheorems, TLAPS

\* The kinds of an insert, by its step.
Preparing == [step: {"check", "claim", "format"}, id: Ids, given: Columns, ensure: BOOLEAN]
Drawing ==
  [step: {"draw"}, id: Ids, given: Columns, ensure: BOOLEAN, groups: Nat, draw: Nat]
Inserting ==
  [step: {"insert"}, id: Ids, given: Columns, ensure: BOOLEAN, code: Codes, late: BOOLEAN]
LookingAgain == [step: {"again"}, id: Ids, late: BOOLEAN]

ACall == InsertCall \cup CorrectCall \cup {Idle, Done}
AStart == StartCall \cup {Idle, Done}

(***************************************************************************)
(* The strengthening the properties need, for the corrections in flight:   *)
(* they are of an actor that is there, and what one has read is the row's  *)
(* unless it was overtaken.                                                *)
(***************************************************************************)
CorrectionsInv ==
  \A c \in Calls : calls[c].step \in {"besides", "write"} =>
    /\ calls[c].id \in Rows
    /\ Sourced(calls[c].held)
    /\ calls[c].late \/ calls[c].held.attributes = actors[calls[c].id].attributes

(***************************************************************************)
(* For the inserts: the counter is claimed by one.                         *)
(***************************************************************************)
Claims(c) == calls[c].step \in {"format", "draw", "insert"}
CounterInv == \A c, d \in Calls : Claims(c) /\ Claims(d) => c = d

(***************************************************************************)
(* For the starts: what one is to write, and has written, are rows without *)
(* a code or overtaken, and its codes are its own.                         *)
(***************************************************************************)
Owed(start) == {i \in Rows : actors[i].code = NoCode \/ i \in start.late}
Sound(start) ==
  /\ start.todo \in Seq(Owed(start))
  /\ start.step \in {"draw", "update"} => start.todo # << >>
  /\ DOMAIN start.coded \subseteq Owed(start)
  /\ IsInjective(start.coded)
  /\ Range(start.coded) \cap CodesHeld = {}
  /\ start.step = "update" => start.code \notin Range(start.coded)
StartsInv ==
  /\ \A s \in InHand(Starts) : Sound(starts[s])
  /\ \A s, t \in InHand(Starts) :
       s # t => Range(starts[s].coded) \cap Range(starts[t].coded) = {}

-----------------------------------------------------------------------------
(***************************************************************************)
(* What a call holds, by its step.                                         *)
(***************************************************************************)
LEMMA CallFields ==
  ASSUME NEW call \in ACall
  PROVE  /\ call.step \in {"check", "claim", "format"} => call \in Preparing
         /\ call.step = "draw" => call \in Drawing
         /\ call.step = "insert" => call \in Inserting
         /\ call.step = "again" => call \in LookingAgain
         /\ call.step \in {"besides", "write"} => call \in CorrectCall
BY DEF ACall, InsertCall, CorrectCall, Idle, Done, Preparing, Drawing, Inserting, LookingAgain

\* The records of the calls in flight are kinds of call.
LEMMA CallKinds ==
  Preparing \cup Drawing \cup Inserting \cup LookingAgain \cup CorrectCall \cup {Idle, Done}
    \subseteq ACall
BY DEF ACall, InsertCall, Preparing, Drawing, Inserting, LookingAgain

(***************************************************************************)
(* A call to an actor that is none of the idle and the returned names one. *)
(***************************************************************************)
LEMMA CallsOfActors ==
  ASSUME ActorsTypeOK, NEW c \in Calls
  PROVE  /\ calls[c] \in ACall
         /\ calls[c].step \in {"check", "claim", "format"} => calls[c] \in Preparing
         /\ calls[c].step = "draw" => calls[c] \in Drawing
         /\ calls[c].step = "insert" => calls[c] \in Inserting
         /\ calls[c].step = "again" => calls[c] \in LookingAgain
         /\ calls[c].step \in {"besides", "write"} => calls[c] \in CorrectCall
<1>1. calls[c] \in ACall
  BY DEF ActorsTypeOK, ACall
<1> QED BY <1>1, CallFields

(***************************************************************************)
(* Of a row everything is there.                                           *)
(***************************************************************************)
LEMMA RowsAreActors ==
  ASSUME ActorsTypeOK, NEW i \in Rows
  PROVE  i \in Ids /\ actors[i] \in Actor
BY DEF ActorsTypeOK, Rows

-----------------------------------------------------------------------------
(***************************************************************************)
(* An insert adds a row that offends no index.                             *)
(***************************************************************************)
LEMMA InsertAddsRow ==
  ASSUME ActorsTypeOK, NEW c \in Calls, InsertActor(c)
  PROVE  /\ calls[c] \in Inserting /\ calls[c].id \notin Rows
         /\ Rows' = Rows \cup {calls[c].id}
         /\ \A i \in Rows : actors'[i] = actors[i]
         /\ actors'[calls[c].id].code = calls[c].code
         /\ Sourced(actors'[calls[c].id])
         /\ CodesHeld' = CodesHeld \cup {calls[c].code}
         /\ actors' \in [Ids -> Actor \cup {NoActor}]
         /\ Indexed(actors, Rows)'
<1> DEFINE id == calls[c].id
           row == [attributes |-> calls[c].given.attributes, sources |-> calls[c].given.sources,
                   code |-> calls[c].code, deleted |-> FALSE]
<1>1. calls[c] \in Inserting
  BY CallsOfActors DEF InsertActor
<1>2. row \in Actor /\ Sourced(row)
  <2>1. calls[c].given \in [attributes: Held, sources: SourcesHeld] /\ Sourced(calls[c].given)
    BY <1>1 DEF Inserting, Columns
  <2>2. row \in Actor
    BY <1>1, <2>1 DEF Actor, Inserting
  <2> QED BY <2>1, <2>2 DEF Sourced
<1>3. row # NoActor
  BY <1>2, EarlierAssumption
<1>4. id \in Ids /\ id \notin Rows /\ calls[c].code \in Codes
  BY <1>1 DEF InsertActor, IdRefused, Inserting
<1>5. actors' = [actors EXCEPT ![id] = row]
  BY DEF InsertActor
<1>6. /\ actors' \in [Ids -> Actor \cup {NoActor}] /\ actors'[id] = row
      /\ \A i \in Ids \ {id} : actors'[i] = actors[i]
  BY <1>2, <1>4, <1>5 DEF ActorsTypeOK
<1>7. Rows' = Rows \cup {id} /\ \A i \in Rows : actors'[i] = actors[i]
  BY <1>3, <1>4, <1>6 DEF Rows
<1>8. calls[c].code # NoCode
  BY <1>4, ActorsAssumption
<1>9. CodesHeld' = CodesHeld \cup {calls[c].code}
  BY <1>6, <1>7, <1>8 DEF CodesHeld
<1>10. Indexed(actors, Rows)'
  <2>1. ASSUME NEW i \in Rows', NEW j \in Rows', actors'[i].code = actors'[j].code
        PROVE  i = j \/ actors'[i].code = NoCode
    <3>1. calls[c].code \notin CodesHeld
      BY DEF InsertActor, CodeRefused
    <3> QED BY <2>1, <3>1, <1>6, <1>7 DEF ActorsTypeOK, Indexed, CodesHeld
  <2>2. ASSUME NEW i \in Rows', NEW j \in Rows', NEW x \in Attributes,
               actors'[i].attributes[x] = actors'[j].attributes[x]
        PROVE  i = j \/ actors'[i].attributes[x] = Blank
    <3>1. \A k \in Rows : calls[c].given.attributes[x] = Blank
                          \/ actors[k].attributes[x] # calls[c].given.attributes[x]
      BY <1>4 DEF InsertActor, AttributeRefused, HeldBesides
    <3> QED BY <2>2, <3>1, <1>6, <1>7 DEF ActorsTypeOK, Indexed
  <2> QED BY <2>1, <2>2 DEF Indexed
<1> QED BY <1>1, <1>2, <1>4, <1>6, <1>7, <1>9, <1>10

(***************************************************************************)
(* The map a correction writes is one of attributes, and so is its sources.*)
(***************************************************************************)
LEMMA MergedMaps ==
  ASSUME ActorsTypeOK, NEW c \in Calls, calls[c].step \in {"besides", "write"}
  PROVE  Merged(c) \in Held /\ Sources(c) \in SourcesHeld
<1>1. calls[c] \in CorrectCall
  BY CallsOfActors
<1>2. /\ calls[c].held.attributes \in Held /\ calls[c].held.sources \in SourcesHeld
      /\ calls[c].changes \in Corrections
  BY <1>1 DEF CorrectCall, Actor
<1> QED BY <1>2, ActorsAssumption DEF Merged, Sources, Corrected, Entry, Held, SourcesHeld

(***************************************************************************)
(* A correction writes the map of one row, and no index is offended.       *)
(***************************************************************************)
LEMMA WriteChangesRow ==
  ASSUME ActorsTypeOK, CorrectionsInv, NEW c \in Calls, WriteAttributes(c), actors' # actors
  PROVE  /\ calls[c] \in CorrectCall /\ calls[c].id \in Rows /\ Rows' = Rows
         /\ actors'[calls[c].id] = [actors[calls[c].id] EXCEPT !.attributes = Merged(c),
                                                             !.sources = Sources(c)]
         /\ \A i \in Rows \ {calls[c].id} : actors'[i] = actors[i]
         /\ \A i \in Rows : actors'[i].code = actors[i].code
         /\ actors'[calls[c].id].attributes = Merged(c)
         /\ actors'[calls[c].id].sources = Sources(c)
         /\ CodesHeld' = CodesHeld
         /\ actors' \in [Ids -> Actor \cup {NoActor}]
         /\ Indexed(actors, Rows)'
<1> DEFINE i == calls[c].id
           row == [actors[i] EXCEPT !.attributes = Merged(c), !.sources = Sources(c)]
<1>1. i \in Rows
  BY DEF WriteAttributes, CorrectionsInv
<1>2. i \in Ids /\ actors[i] \in Actor
  BY <1>1, RowsAreActors
<1>3. Merged(c) \in Held /\ Sources(c) \in SourcesHeld
  BY MergedMaps DEF WriteAttributes
<1>4. row \in Actor /\ row.code = actors[i].code /\ row.attributes = Merged(c)
      /\ row.sources = Sources(c)
  BY <1>2, <1>3 DEF Actor
<1>5. actors' = [actors EXCEPT ![i] = row]
      /\ \A x \in Attributes : ~HeldBesides(i, x, Merged(c)[x])
  BY <1>2 DEF WriteAttributes, ActorsTypeOK
<1>6. /\ actors' \in [Ids -> Actor \cup {NoActor}] /\ actors'[i] = row
      /\ \A j \in Ids \ {i} : actors'[j] = actors[j]
  BY <1>2, <1>4, <1>5 DEF ActorsTypeOK
<1>7. Rows' = Rows
  BY <1>1, <1>4, <1>6, EarlierAssumption DEF Rows
<1>8. \A j \in Rows : actors'[j].code = actors[j].code
  BY <1>2, <1>4, <1>6 DEF Rows
<1>9. CodesHeld' = CodesHeld
  BY <1>7, <1>8 DEF CodesHeld
<1>10. Indexed(actors, Rows)'
  <2>1. ASSUME NEW k \in Rows', NEW j \in Rows', NEW x \in Attributes,
               actors'[k].attributes[x] = actors'[j].attributes[x]
        PROVE  k = j \/ actors'[k].attributes[x] = Blank
    <3>1. \A l \in Rows \ {i} : Merged(c)[x] = Blank
                                \/ actors[l].attributes[x] # Merged(c)[x]
      BY <1>5 DEF HeldBesides
    <3>2. \A l \in Rows : l \in Ids
      BY DEF Rows
    <3>3. CASE k # i /\ j # i
      BY <2>1, <3>2, <3>3, <1>6, <1>7 DEF ActorsTypeOK, Indexed
    <3>4. CASE k = i /\ j # i
      BY <2>1, <3>1, <3>2, <3>4, <1>4, <1>6, <1>7
    <3>5. CASE k # i /\ j = i
      BY <2>1, <3>1, <3>2, <3>5, <1>4, <1>6, <1>7
    <3> QED BY <3>3, <3>4, <3>5
  <2>2. ASSUME NEW k \in Rows', NEW j \in Rows', actors'[k].code = actors'[j].code
        PROVE  k = j \/ actors'[k].code = NoCode
    BY <2>2, <1>7, <1>8 DEF ActorsTypeOK, Indexed
  <2> QED BY <2>1, <2>2 DEF Indexed
<1>11. calls[c] \in CorrectCall
  BY CallsOfActors DEF WriteAttributes
<1>12. \A j \in Rows \ {i} : actors'[j] = actors[j]
  BY <1>6 DEF Rows
<1> QED BY <1>1, <1>4, <1>6, <1>7, <1>8, <1>9, <1>10, <1>11, <1>12

(***************************************************************************)
(* What a start in hand holds.                                             *)
(***************************************************************************)
LEMMA StartsInHand ==
  ASSUME ActorsTypeOK, NEW s \in InHand(Starts)
  PROVE  /\ s \in Starts /\ starts[s] \in StartCall
         /\ starts[s].todo \in Seq(Ids) /\ starts[s].coded \in Coded
         /\ starts[s].late \in SUBSET Ids
         /\ starts[s].step = "update" => starts[s].code \in Codes
<1>1. starts[s] \in StartCall /\ s \in Starts
  BY DEF InHand, ActorsTypeOK, Idle, Done
<1> QED BY <1>1 DEF StartCall

(***************************************************************************)
(* A commit shows the codes of one start, and no index is offended.        *)
(***************************************************************************)
LEMMA CommitShowsCodes ==
  ASSUME ActorsTypeOK, StartsInv, NEW s \in Starts, StartCommits(s)
  PROVE  /\ s \in InHand(Starts) /\ DOMAIN starts[s].coded \subseteq Owed(starts[s]) /\ Rows' = Rows
         /\ \A i \in Rows :
              /\ actors'[i].attributes = actors[i].attributes
              /\ actors'[i].sources = actors[i].sources
              /\ actors'[i].code = (IF i \in DOMAIN starts[s].coded THEN starts[s].coded[i]
                                                                   ELSE actors[i].code)
         /\ CodesHeld' \subseteq CodesHeld \cup Range(starts[s].coded)
         /\ actors' \in [Ids -> Actor \cup {NoActor}]
         /\ Indexed(actors, Rows)'
<1> DEFINE coded == starts[s].coded
<1>1. s \in InHand(Starts)
  BY DEF StartCommits, InHand
<1>2. /\ DOMAIN coded \subseteq Owed(starts[s]) /\ IsInjective(coded) /\ Range(coded) \cap CodesHeld = {}
  BY <1>1 DEF StartsInv, Sound
<1>3. DOMAIN coded \subseteq Rows /\ Rows \subseteq Ids
  BY <1>2 DEF Owed, Rows
<1>4. \A i \in DOMAIN coded : coded[i] \in Codes /\ coded[i] # NoCode /\ coded[i] \in Range(coded)
  BY <1>1, StartsInHand, ActorsAssumption DEF Coded, Range
<1>5. \A i \in Ids :
        actors'[i] = (IF i \in DOMAIN coded THEN [actors[i] EXCEPT !.code = coded[i]] ELSE actors[i])
  BY DEF StartCommits
<1>6. \A i \in Rows :
        /\ actors'[i] \in Actor
        /\ actors'[i].attributes = actors[i].attributes
        /\ actors'[i].sources = actors[i].sources
        /\ actors'[i].code = (IF i \in DOMAIN coded THEN coded[i] ELSE actors[i].code)
  BY <1>3, <1>4, <1>5, RowsAreActors DEF Actor
<1>7. \A i \in Ids \ Rows : actors'[i] = NoActor
  BY <1>3, <1>5 DEF Rows
<1>8. Rows' = Rows
  BY <1>3, <1>6, <1>7, EarlierAssumption DEF Rows
<1>9. actors' \in [Ids -> Actor \cup {NoActor}]
  BY <1>6, <1>7 DEF StartCommits
<1>10. CodesHeld' \subseteq CodesHeld \cup Range(coded)
  BY <1>4, <1>6, <1>8 DEF CodesHeld
<1>11. Indexed(actors, Rows)'
  <2>1. ASSUME NEW i \in Rows, NEW j \in Rows, actors'[i].code = actors'[j].code
        PROVE  i = j \/ actors'[i].code = NoCode
    <3>1. \A k \in Rows : actors[k].code = NoCode \/ actors[k].code \in CodesHeld
      BY DEF CodesHeld
    <3>2. CASE i \in DOMAIN coded /\ j \in DOMAIN coded
      BY <1>2, <1>6, <2>1, <3>2 DEF IsInjective
    <3>3. CASE i \in DOMAIN coded /\ j \notin DOMAIN coded
      BY <1>2, <1>4, <1>6, <2>1, <3>1, <3>3
    <3>4. CASE i \notin DOMAIN coded /\ j \in DOMAIN coded
      BY <1>2, <1>4, <1>6, <2>1, <3>1, <3>4
    <3>5. CASE i \notin DOMAIN coded /\ j \notin DOMAIN coded
      BY <1>6, <2>1, <3>5 DEF ActorsTypeOK, Indexed
    <3> QED BY <3>2, <3>3, <3>4, <3>5
  <2> QED BY <2>1, <1>6, <1>8 DEF ActorsTypeOK, Indexed
<1> QED BY <1>1, <1>2, <1>6, <1>8, <1>9, <1>10, <1>11

-----------------------------------------------------------------------------
(***************************************************************************)
(* Those are the only writes of the rows.                                  *)
(***************************************************************************)
LEMMA RowWriters ==
  ASSUME [ActorsNext]_actorVars
  PROVE  \/ actors' = actors
         \/ \E c \in Calls : InsertActor(c) \/ WriteAttributes(c)
         \/ \E s \in Starts : StartCommits(s)
<1>1. ASSUME NEW c \in Calls, NEW i \in Ids, NEW changes \in Corrections,
             \/ \E claimed \in SourcesGiven : CreateActor(c, i, Given(changes, claimed))
             \/ SetAttributes(c, i, changes)
      PROVE  actors' = actors
  BY <1>1 DEF CreateActor, SetAttributes
<1>2. ASSUME NEW c \in Calls, NEW i \in Ids, EnsureActor(c, i)
      PROVE  actors' = actors
  BY <1>2 DEF EnsureActor
<1>3. ASSUME NEW c \in Calls,
             \/ CheckUniqueAttributes(c) \/ ClaimCode(c) \/ ReadFormat(c) \/ InsertRefused(c)
             \/ EnsureAgain(c) \/ InsertFails(c) \/ CheckUniqueAttributesBesides(c)
      PROVE  actors' = actors
  BY <1>3 DEF CheckUniqueAttributes, ClaimCode, ReadFormat, InsertRefused, EnsureAgain,
              InsertFails, CheckUniqueAttributesBesides
<1>4. ASSUME NEW c \in Calls, NEW code \in Codes, DrawCode(c, code)
      PROVE  actors' = actors
  BY <1>4 DEF DrawCode
<1>5. ASSUME NEW n \in Formats, SetCodeFormat(n)
      PROVE  actors' = actors
  BY <1>5 DEF SetCodeFormat
<1>6. ASSUME NEW s \in Starts,
             BackfillPublicCodes(s) \/ StartReadsFormat(s) \/ UpdateCode(s) \/ StartFails(s)
      PROVE  actors' = actors
  BY <1>6 DEF BackfillPublicCodes, StartReadsFormat, UpdateCode, StartFails
<1>7. ASSUME NEW s \in Starts, NEW code \in Codes, StartDraws(s, code)
      PROVE  actors' = actors
  BY <1>7 DEF StartDraws
<1>8. UNCHANGED actorVars => actors' = actors
  BY DEF actorVars
<1> QED BY <1>1, <1>2, <1>3, <1>4, <1>5, <1>6, <1>7, <1>8 DEF ActorsNext

(***************************************************************************)
(* The rows keep their type, stay, and keep their codes but for a commit.  *)
(***************************************************************************)
LEMMA RowsKeepType ==
  ASSUME ActorsTypeOK, CorrectionsInv, StartsInv, [ActorsNext]_actorVars
  PROVE  /\ actors' \in [Ids -> Actor \cup {NoActor}]
         /\ Indexed(actors, Rows)'
         /\ Rows \subseteq Rows'
<1>1. CASE actors' = actors
  BY <1>1 DEF ActorsTypeOK, Indexed, Rows
<1>2. ASSUME NEW c \in Calls, WriteAttributes(c), actors' # actors
      PROVE  /\ actors' \in [Ids -> Actor \cup {NoActor}]
             /\ Indexed(actors, Rows)'
             /\ Rows \subseteq Rows'
  BY <1>2, WriteChangesRow
<1> QED BY <1>1, <1>2, InsertAddsRow, CommitShowsCodes, RowWriters

-----------------------------------------------------------------------------
(***************************************************************************)
(* What a step may make of a call: nothing, an insert on its way, a code   *)
(* drawn or overtaken, another look, a correction on its way or overtaken, *)
(* or its return.                                                          *)
(***************************************************************************)
Moves(c) ==
  \/ calls'[c] = calls[c] \/ calls'[c] = Done
  \/ calls'[c] \in Preparing /\ calls'[c].step # "format"
  \/ /\ calls'[c] \in Preparing /\ calls[c].step = "claim" /\ CounterFree(c)
     /\ \A d \in Calls \ {c} : calls'[d] = calls[d]
  \/ calls'[c] \in Drawing /\ Claims(c)
  \/ /\ calls'[c] \in Inserting /\ Claims(c)
     /\ actors' = actors /\ calls'[c].code \notin CodesHeld
  \/ calls'[c] \in Inserting /\ Claims(c) /\ calls'[c].late
  \/ /\ calls'[c] \in LookingAgain /\ InsertRefused(c) /\ (IdRefused(c) \/ CodeRefused(c))
     /\ calls'[c].id = calls[c].id /\ calls'[c].late = calls[c].late
  \/ /\ calls'[c] \in CorrectCall /\ calls'[c].id \in Rows /\ actors' = actors
     /\ calls'[c].held = actors[calls'[c].id]
  \/ /\ calls'[c] \in CorrectCall /\ calls[c].step \in {"besides", "write"}
     /\ calls'[c].id = calls[c].id /\ calls'[c].held = calls[c].held
     /\ calls'[c].late \/ (actors' = actors /\ calls'[c].late = calls[c].late)

(***************************************************************************)
(* A call that alone moves.                                                *)
(***************************************************************************)
LEMMA OneMoves ==
  ASSUME ActorsTypeOK, NEW c \in Calls, NEW call, calls' = [calls EXCEPT ![c] = call]
  PROVE  calls'[c] = call /\ \A d \in Calls \ {c} : calls'[d] = calls[d]
BY DEF ActorsTypeOK

(***************************************************************************)
(* The maps an insert is given.                                            *)
(***************************************************************************)
LEMMA GivenMaps ==
  /\ \A changes \in Corrections, claimed \in SourcesGiven : Given(changes, claimed) \in Columns
  /\ NothingGiven \in Columns
<1>1. ASSUME NEW changes \in Corrections, NEW claimed \in SourcesGiven
      PROVE  Given(changes, claimed) \in Columns
  <2> DEFINE value   == [x \in Attributes |-> IF x \in DOMAIN changes THEN changes[x] ELSE Blank]
             sources == [x \in Attributes |->
               IF x \in claimed THEN [by |-> "create", value |-> value[x]] ELSE NoEntry]
  <2>1. value \in Held
    BY ActorsAssumption DEF Held
  <2>2. sources \in SourcesHeld
    BY <2>1 DEF SourcesHeld, Entry, Held
  <2>3. Sourced([attributes |-> value, sources |-> sources])
    BY DEF Sourced, NoEntry
  <2> QED BY <2>1, <2>2, <2>3 DEF Given, Columns
<1>2. NothingGiven \in Columns
  BY DEF NothingGiven, Columns, Held, SourcesHeld, Sourced
<1> QED BY <1>1, <1>2

\* CreateActor and EnsureActor: each step moves its own call and no other.
LEMMA InsertsMove ==
  ASSUME ActorsTypeOK, NEW c \in Calls,
         \/ \E i \in Ids, changes \in Corrections, claimed \in SourcesGiven :
              CreateActor(c, i, Given(changes, claimed))
         \/ \E i \in Ids : EnsureActor(c, i)
         \/ CheckUniqueAttributes(c) \/ ClaimCode(c) \/ ReadFormat(c)
         \/ \E code \in Codes : DrawCode(c, code)
         \/ InsertActor(c) \/ InsertRefused(c) \/ EnsureAgain(c) \/ InsertFails(c)
  PROVE  Moves(c) /\ \A d \in Calls \ {c} : calls'[d] = calls[d]
<1>1. ASSUME Returns(c)
      PROVE  Moves(c) /\ \A d \in Calls \ {c} : calls'[d] = calls[d]
  BY <1>1, OneMoves DEF Returns, Moves
<1>2. ASSUME NEW i \in Ids, NEW changes \in Corrections, NEW claimed \in SourcesGiven,
             CreateActor(c, i, Given(changes, claimed))
      PROVE  Moves(c) /\ \A d \in Calls \ {c} : calls'[d] = calls[d]
  BY <1>2, OneMoves, GivenMaps DEF CreateActor, Moves, Preparing
<1>3. ASSUME NEW i \in Ids, EnsureActor(c, i)
      PROVE  Moves(c) /\ \A d \in Calls \ {c} : calls'[d] = calls[d]
  <2> DEFINE call == [step |-> "claim", id |-> i, given |-> NothingGiven,
                      ensure |-> TRUE]
  <2>1. call \in Preparing /\ call.step = "claim"
    BY GivenMaps DEF Preparing
  <2>2. calls' = [calls EXCEPT ![c] = call] \/ Returns(c)
    BY <1>3 DEF EnsureActor
  <2> HIDE DEF call
  <2>3. CASE calls' = [calls EXCEPT ![c] = call]
    BY <2>1, <2>3, OneMoves DEF Moves
  <2> QED BY <1>1, <2>2, <2>3
<1>4. ASSUME CheckUniqueAttributes(c)
      PROVE  Moves(c) /\ \A d \in Calls \ {c} : calls'[d] = calls[d]
  <2>1. calls[c] \in Preparing
    BY <1>4, CallsOfActors DEF CheckUniqueAttributes
  <2>2. CASE calls' = [calls EXCEPT ![c].step = "claim"]
    <3>1. calls' = [calls EXCEPT ![c] = [calls[c] EXCEPT !.step = "claim"]]
      BY <2>2
    <3>2. [calls[c] EXCEPT !.step = "claim"] \in Preparing
          /\ [calls[c] EXCEPT !.step = "claim"].step = "claim"
      BY <2>1 DEF Preparing
    <3> QED BY <3>1, <3>2, OneMoves DEF Moves
  <2> QED BY <1>1, <1>4, <2>2 DEF CheckUniqueAttributes
<1>5. ASSUME ClaimCode(c)
      PROVE  Moves(c) /\ \A d \in Calls \ {c} : calls'[d] = calls[d]
  <2>1. calls[c] \in Preparing
    BY <1>5, CallsOfActors DEF ClaimCode
  <2>2. calls' = [calls EXCEPT ![c] = [calls[c] EXCEPT !.step = "format"]]
    BY <1>5 DEF ClaimCode
  <2>3. [calls[c] EXCEPT !.step = "format"] \in Preparing
    BY <2>1 DEF Preparing
  <2> QED BY <1>5, <2>2, <2>3, OneMoves DEF ClaimCode, Moves
<1>6. ASSUME ReadFormat(c)
      PROVE  Moves(c) /\ \A d \in Calls \ {c} : calls'[d] = calls[d]
  <2>1. calls[c] \in Preparing /\ Claims(c) /\ format \in Nat
    BY <1>6, CallsOfActors, ActorsAssumption DEF ReadFormat, Claims, ActorsTypeOK
  <2>2. \E call \in Drawing : calls' = [calls EXCEPT ![c] = call]
    BY <1>6, <2>1 DEF ReadFormat, Preparing, Drawing
  <2> QED BY <2>1, <2>2, OneMoves DEF Moves
<1>7. ASSUME NEW code \in Codes, DrawCode(c, code)
      PROVE  Moves(c) /\ \A d \in Calls \ {c} : calls'[d] = calls[d]
  <2>1. calls[c] \in Drawing /\ Claims(c) /\ actors' = actors
    BY <1>7, CallsOfActors DEF DrawCode, Claims
  <2>2. CASE ~Collides(code)
    <3> DEFINE call == [step |-> "insert", id |-> calls[c].id, given |-> calls[c].given,
                        ensure |-> calls[c].ensure, code |-> code, late |-> FALSE]
    <3>1. call \in Inserting /\ call.code = code
      BY <2>1 DEF Drawing, Inserting
    <3>2. calls' = [calls EXCEPT ![c] = call]
      BY <1>7, <2>2 DEF DrawCode
    <3> QED BY <2>1, <2>2, <3>1, <3>2, OneMoves DEF Moves, Collides
  <2>3. CASE Collides(code) /\ calls[c].draw + 1 < Draws
    <3>1. calls' = [calls EXCEPT ![c] = [calls[c] EXCEPT !.draw = calls[c].draw + 1]]
      BY <1>7, <2>3 DEF DrawCode
    <3>2. [calls[c] EXCEPT !.draw = calls[c].draw + 1] \in Drawing
      BY <2>1 DEF Drawing
    <3> QED BY <2>1, <3>1, <3>2, OneMoves DEF Moves
  <2>4. CASE Collides(code) /\ ~(calls[c].draw + 1 < Draws)
    <3>1. calls' = [calls EXCEPT ![c] = Done]
      BY <1>7, <2>4 DEF DrawCode
    <3> QED BY <3>1, OneMoves DEF Moves
  <2> QED BY <2>2, <2>3, <2>4
<1>8. ASSUME InsertRefused(c)
      PROVE  Moves(c) /\ \A d \in Calls \ {c} : calls'[d] = calls[d]
  <2>1. calls[c] \in Inserting
    BY <1>8, CallsOfActors DEF InsertRefused
  <2>2. ASSUME IdRefused(c) \/ CodeRefused(c), calls[c].ensure,
               calls' = [calls EXCEPT ![c] =
                 [step |-> "again", id |-> calls[c].id, late |-> calls[c].late]]
        PROVE  Moves(c) /\ \A d \in Calls \ {c} : calls'[d] = calls[d]
    BY <1>8, <2>1, <2>2, OneMoves DEF Moves, Inserting, LookingAgain
  <2> QED BY <1>1, <1>8, <2>2 DEF InsertRefused, Returns
<1> QED BY <1>1, <1>2, <1>3, <1>4, <1>5, <1>6, <1>7, <1>8
        DEF InsertActor, EnsureAgain, InsertFails

\* SetAttributes: each step moves its own call, and claims no code.
LEMMA CorrectionsMove ==
  ASSUME ActorsTypeOK, NEW c \in Calls,
         \/ \E i \in Ids, changes \in Corrections : SetAttributes(c, i, changes)
         \/ CheckUniqueAttributesBesides(c) \/ WriteAttributes(c)
  PROVE  \A d \in Calls : Moves(d) /\ (Claims(d)' => calls'[d] = calls[d])
<1>1. ASSUME NEW call, calls' = [calls EXCEPT ![c] = call],
             call.step \notin {"format", "draw", "insert"}, calls'[c] = call => Moves(c)
      PROVE  \A d \in Calls : Moves(d) /\ (Claims(d)' => calls'[d] = calls[d])
  BY <1>1, OneMoves DEF Moves, Claims
<1>2. ASSUME Returns(c)
      PROVE  \A d \in Calls : Moves(d) /\ (Claims(d)' => calls'[d] = calls[d])
  BY <1>1, <1>2 DEF Returns, Done, Moves
<1>3. ASSUME NEW i \in Ids, NEW changes \in Corrections, SetAttributes(c, i, changes)
      PROVE  \A d \in Calls : Moves(d) /\ (Claims(d)' => calls'[d] = calls[d])
  <2> DEFINE call == [step |-> "besides", id |-> i, held |-> actors[i], changes |-> changes,
                      late |-> FALSE]
  <2>1. i \in Rows /\ actors[i] \in Actor
    BY <1>3, RowsAreActors DEF SetAttributes, Found
  <2>2. call \in CorrectCall
    BY <2>1 DEF CorrectCall
  <2>3. calls' = [calls EXCEPT ![c] = call] /\ actors' = actors
    BY <1>3 DEF SetAttributes
  <2>4. call.id = i /\ call.held = actors[i] /\ call.step = "besides"
    OBVIOUS
  <2> HIDE DEF call
  <2>5. calls'[c] = call => Moves(c)
    BY <2>1, <2>2, <2>3, <2>4 DEF Moves
  <2> QED BY <1>1, <2>3, <2>4, <2>5
<1>4. ASSUME CheckUniqueAttributesBesides(c)
      PROVE  \A d \in Calls : Moves(d) /\ (Claims(d)' => calls'[d] = calls[d])
  <2> DEFINE call == [calls[c] EXCEPT !.step = "write"]
  <2>1. CASE calls' = [calls EXCEPT ![c].step = "write"]
    <3>1. calls[c] \in CorrectCall /\ calls[c].step \in {"besides", "write"} /\ actors' = actors
      BY <1>4, CallsOfActors DEF CheckUniqueAttributesBesides
    <3>2. /\ call \in CorrectCall /\ call.step = "write" /\ call.id = calls[c].id
          /\ call.held = calls[c].held /\ call.late = calls[c].late
      BY <3>1 DEF CorrectCall
    <3>3. calls'[c] = call => Moves(c)
      BY <3>1, <3>2 DEF Moves
    <3>4. calls' = [calls EXCEPT ![c] = call]
      BY <2>1
    <3> QED BY <1>1, <3>2, <3>3, <3>4
  <2> QED BY <1>2, <1>4, <2>1 DEF CheckUniqueAttributesBesides
<1>5. ASSUME WriteAttributes(c)
      PROVE  \A d \in Calls : Moves(d) /\ (Claims(d)' => calls'[d] = calls[d])
  <2>1. CASE Returns(c)
    BY <1>2, <2>1
  <2>2. CASE ~Returns(c)
    <3> SUFFICES ASSUME NEW d \in Calls
                 PROVE  Moves(d) /\ (Claims(d)' => calls'[d] = calls[d])
      OBVIOUS
    <3>1. CASE d = c
      <4>1. calls'[d] = Done
        BY <1>5, <2>2, <3>1 DEF WriteAttributes
      <4> QED BY <4>1 DEF Moves, Claims, Done
    <3>2. CASE d # c /\ calls[d].step \in {"besides", "write"} /\ calls[d].id = calls[c].id
      <4>1. calls'[d] = [calls[d] EXCEPT !.late = TRUE]
        BY <1>5, <2>2, <3>2 DEF WriteAttributes
      <4>2. calls[d] \in CorrectCall
        BY <3>2, CallsOfActors
      <4>3. /\ calls'[d] \in CorrectCall /\ calls'[d].step = calls[d].step /\ calls'[d].late
            /\ calls'[d].id = calls[d].id /\ calls'[d].held = calls[d].held
        BY <4>1, <4>2 DEF CorrectCall
      <4> QED BY <3>2, <4>3 DEF Moves, Claims
    <3>3. CASE d # c /\ ~(calls[d].step \in {"besides", "write"} /\ calls[d].id = calls[c].id)
      <4>1. calls'[d] = calls[d]
        BY <1>5, <2>2, <3>3 DEF WriteAttributes
      <4> QED BY <4>1 DEF Moves
    <3> QED BY <3>1, <3>2, <3>3
  <2> QED BY <2>1, <2>2
<1> QED BY <1>3, <1>4, <1>5

(***************************************************************************)
(* So a call moves in one of these ways, and a claim is new only where the *)
(* counter was free and no other call moved.                               *)
(***************************************************************************)
LEMMA CallsMove ==
  ASSUME ActorsTypeOK, [ActorsNext]_actorVars, NEW d \in Calls
  PROVE  /\ Moves(d)
         /\ Claims(d)' => \/ Claims(d)
                          \/ CounterFree(d) /\ \A e \in Calls \ {d} : calls'[e] = calls[e]
<1> DEFINE Goal == /\ Moves(d)
                   /\ Claims(d)' => \/ Claims(d)
                                    \/ /\ CounterFree(d)
                                       /\ \A e \in Calls \ {d} : calls'[e] = calls[e]
<1>1. ASSUME calls' = calls
      PROVE  Goal
  BY <1>1 DEF Moves, Claims
<1>2. ASSUME NEW c \in Calls, Moves(c), \A e \in Calls \ {c} : calls'[e] = calls[e]
      PROVE  Goal
  <2>1. CASE d # c
    BY <1>2, <2>1 DEF Moves, Claims
  <2>2. CASE d = c
    BY <1>2, <2>2 DEF Moves, Claims, Done, Preparing, Drawing, Inserting, LookingAgain, CorrectCall
  <2> QED BY <2>1, <2>2
<1>3. ASSUME NEW c \in Calls,
             \/ \E i \in Ids, changes \in Corrections : SetAttributes(c, i, changes)
             \/ CheckUniqueAttributesBesides(c) \/ WriteAttributes(c)
      PROVE  Goal
  BY <1>3, CorrectionsMove DEF Claims
<1>4. ASSUME NEW s \in Starts, StartCommits(s)
      PROVE  Goal
  <2>1. CASE calls[d].step = "insert"
    <3>1. calls[d] \in Inserting /\ Claims(d)
      BY <2>1, CallsOfActors DEF Claims
    <3>2. calls'[d] \in Inserting /\ calls'[d].late
      BY <1>4, <2>1, <3>1 DEF StartCommits, Inserting
    <3> QED BY <3>1, <3>2 DEF Moves
  <2>2. CASE calls[d].step # "insert"
    BY <1>4, <2>2 DEF StartCommits, Moves, Claims
  <2> QED BY <2>1, <2>2
<1>5. ASSUME NEW s \in Starts,
             \/ BackfillPublicCodes(s) \/ StartReadsFormat(s) \/ UpdateCode(s) \/ StartFails(s)
             \/ \E code \in Codes : StartDraws(s, code)
      PROVE  calls' = calls
  BY <1>5 DEF BackfillPublicCodes, StartReadsFormat, UpdateCode, StartFails, StartDraws
<1>6. ASSUME NEW n \in Formats, SetCodeFormat(n)
      PROVE  calls' = calls
  BY <1>6 DEF SetCodeFormat
<1>7. UNCHANGED actorVars => calls' = calls
  BY DEF actorVars
<1> HIDE DEF Goal
<1>8. Goal
  BY <1>1, <1>2, <1>3, <1>4, <1>5, <1>6, <1>7, InsertsMove DEF ActorsNext
<1> QED BY <1>8 DEF Goal

-----------------------------------------------------------------------------
(***************************************************************************)
(* The calls keep their type.                                              *)
(***************************************************************************)
LEMMA CallsStay ==
  ASSUME ActorsTypeOK, [ActorsNext]_actorVars
  PROVE  calls' = [c \in Calls |-> calls'[c]]
<1> DEFINE Goal == calls' = [c \in Calls |-> calls'[c]]
<1>1. ASSUME calls' = calls
      PROVE  Goal
  BY <1>1 DEF ActorsTypeOK
<1>2. ASSUME NEW c \in Calls, NEW call, calls' = [calls EXCEPT ![c] = call]
      PROVE  Goal
  BY <1>2 DEF ActorsTypeOK
<1>3. ASSUME NEW c \in Calls, NEW step, calls' = [calls EXCEPT ![c].step = step]
      PROVE  Goal
  BY <1>3 DEF ActorsTypeOK
<1> HIDE DEF Goal
<1>4. ASSUME NEW c \in Calls, Returns(c)
      PROVE  Goal
  BY <1>2, <1>4 DEF Returns
<1>5. ASSUME NEW c \in Calls, NEW i \in Ids, NEW changes \in Corrections,
             \/ \E claimed \in SourcesGiven : CreateActor(c, i, Given(changes, claimed))
             \/ SetAttributes(c, i, changes)
      PROVE  Goal
  BY <1>2, <1>5 DEF CreateActor, SetAttributes
<1>6. ASSUME NEW c \in Calls, NEW i \in Ids, EnsureActor(c, i)
      PROVE  Goal
  BY <1>2, <1>4, <1>6 DEF EnsureActor
<1>7. ASSUME NEW c \in Calls,
             CheckUniqueAttributes(c) \/ ClaimCode(c) \/ CheckUniqueAttributesBesides(c)
      PROVE  Goal
  BY <1>3, <1>4, <1>7 DEF CheckUniqueAttributes, ClaimCode, CheckUniqueAttributesBesides
<1>8. ASSUME NEW c \in Calls, ReadFormat(c) \/ InsertRefused(c) \/ \E code \in Codes : DrawCode(c, code)
      PROVE  Goal
  BY <1>2, <1>4, <1>8 DEF ReadFormat, InsertRefused, DrawCode
<1>9. ASSUME NEW c \in Calls, InsertActor(c) \/ EnsureAgain(c) \/ InsertFails(c)
      PROVE  Goal
  BY <1>4, <1>9 DEF InsertActor, EnsureAgain, InsertFails
<1>10. ASSUME NEW c \in Calls, WriteAttributes(c)
       PROVE  Goal
  <2>1. CASE ~Returns(c)
    BY <1>10, <2>1 DEF WriteAttributes, Goal
  <2> QED BY <1>4, <2>1
<1>11. ASSUME NEW s \in Starts, StartCommits(s)
       PROVE  Goal
  BY <1>11 DEF StartCommits, Goal
<1>12. ASSUME NEW s \in Starts,
              \/ BackfillPublicCodes(s) \/ StartReadsFormat(s) \/ UpdateCode(s) \/ StartFails(s)
              \/ \E code \in Codes : StartDraws(s, code)
       PROVE  Goal
  BY <1>1, <1>12 DEF BackfillPublicCodes, StartReadsFormat, UpdateCode, StartFails, StartDraws
<1>13. ASSUME NEW n \in Formats, SetCodeFormat(n)
       PROVE  Goal
  BY <1>1, <1>13 DEF SetCodeFormat
<1>14. UNCHANGED actorVars => Goal
  BY <1>1 DEF actorVars
<1>15. Goal
  BY <1>5, <1>6, <1>7, <1>8, <1>9, <1>10, <1>11, <1>12, <1>13, <1>14 DEF ActorsNext
<1> QED BY <1>15 DEF Goal

\* Whatever moves, the calls stay typed.
LEMMA CallsKeepType ==
  ASSUME ActorsTypeOK, [ActorsNext]_actorVars
  PROVE  calls' \in [Calls -> ACall]
<1>1. ASSUME NEW c \in Calls PROVE calls'[c] \in ACall
  <2>1. calls[c] \in ACall /\ Moves(c)
    BY CallsOfActors, CallsMove
  <2> QED BY <2>1, CallKinds DEF Moves
<1> QED BY <1>1, CallsStay

(***************************************************************************)
(* The counter is claimed by one.                                          *)
(***************************************************************************)
LEMMA CounterStep ==
  ASSUME ActorsTypeOK, CounterInv, [ActorsNext]_actorVars
  PROVE  CounterInv'
<1> SUFFICES ASSUME NEW c \in Calls, NEW d \in Calls, Claims(c)', Claims(d)', c # d
             PROVE  FALSE
  BY DEF CounterInv
<1>1. ASSUME NEW a \in Calls, NEW b \in Calls, a # b, Claims(a)', Claims(b)', ~Claims(a)
      PROVE  FALSE
  <2>1. CounterFree(a) /\ calls'[b] = calls[b]
    BY <1>1, CallsMove
  <2> QED BY <1>1, <2>1 DEF CounterFree, Claims
<1>2. Claims(c) /\ Claims(d)
  BY <1>1
<1> QED BY <1>2 DEF CounterInv

(***************************************************************************)
(* A correction that was written marks the others of its actor, and ends.  *)
(***************************************************************************)
LEMMA WriteMarks ==
  ASSUME ActorsTypeOK, NEW c \in Calls, WriteAttributes(c), actors' # actors
  PROVE  /\ calls'[c] = Done
         /\ \A d \in Calls \ {c} :
              calls[d].step \in {"besides", "write"} /\ calls[d].id = calls[c].id => calls'[d].late
<1>1. calls'[c] = Done
  BY DEF WriteAttributes
<1>2. ASSUME NEW d \in Calls \ {c}, calls[d].step \in {"besides", "write"},
             calls[d].id = calls[c].id
      PROVE  calls'[d].late
  <2>1. calls[d] \in CorrectCall
    BY <1>2, CallsOfActors
  <2>2. calls'[d] = [calls[d] EXCEPT !.late = TRUE]
    BY <1>2 DEF WriteAttributes
  <2> QED BY <2>1, <2>2 DEF CorrectCall
<1> QED BY <1>1, <1>2

(***************************************************************************)
(* A correction that was not overtaken has read what the row holds.        *)
(***************************************************************************)
LEMMA CorrectionsStep ==
  ASSUME ActorsTypeOK, CorrectionsInv, StartsInv, SourceOfItsValue, [ActorsNext]_actorVars
  PROVE  CorrectionsInv'
<1> SUFFICES ASSUME NEW c \in Calls, (calls[c].step \in {"besides", "write"})'
             PROVE  /\ calls'[c].id \in Rows'
                    /\ Sourced(calls'[c].held)
                    /\ calls'[c].late \/ calls'[c].held.attributes = actors'[calls'[c].id].attributes
  BY DEF CorrectionsInv, Sourced
<1>1. Moves(c) /\ Rows \subseteq Rows'
  BY CallsMove, RowsKeepType
<1>2. CASE calls'[c] = calls[c]
  <2>1. /\ calls[c].id \in Rows /\ Sourced(calls[c].held)
        /\ calls[c].late \/ calls[c].held.attributes = actors[calls[c].id].attributes
    BY <1>2 DEF CorrectionsInv
  <2>2. ASSUME NEW d \in Calls, WriteAttributes(d), actors' # actors
        PROVE  calls'[c].late \/ actors'[calls[c].id].attributes = actors[calls[c].id].attributes
    <3>1. c # d
      BY <1>2, <2>2, WriteMarks DEF Done
    <3>2. CASE calls[c].id = calls[d].id
      BY <1>2, <2>2, <3>1, <3>2, WriteMarks
    <3>3. CASE calls[c].id # calls[d].id
      BY <2>1, <2>2, <3>3, WriteChangesRow
    <3> QED BY <3>2, <3>3
  <2>3. ASSUME NEW d \in Calls, InsertActor(d)
        PROVE  actors'[calls[c].id].attributes = actors[calls[c].id].attributes
    BY <2>1, <2>3, InsertAddsRow
  <2>4. ASSUME NEW s \in Starts, StartCommits(s)
        PROVE  actors'[calls[c].id].attributes = actors[calls[c].id].attributes
    BY <2>1, <2>4, CommitShowsCodes
  <2> QED BY <1>1, <1>2, <2>1, <2>2, <2>3, <2>4, RowWriters
<1>3. CASE /\ calls'[c] \in CorrectCall /\ calls'[c].id \in Rows /\ actors' = actors
           /\ calls'[c].held = actors[calls'[c].id]
  BY <1>1, <1>3 DEF SourceOfItsValue
<1>4. CASE /\ calls'[c] \in CorrectCall /\ calls[c].step \in {"besides", "write"}
           /\ calls'[c].id = calls[c].id /\ calls'[c].held = calls[c].held
           /\ calls'[c].late \/ (actors' = actors /\ calls'[c].late = calls[c].late)
  BY <1>1, <1>4 DEF CorrectionsInv
<1> QED BY <1>1, <1>2, <1>3, <1>4
        DEF Moves, Done, Preparing, Drawing, Inserting, LookingAgain

(***************************************************************************)
(* An attribute and its entry are written together, by a create too.       *)
(***************************************************************************)
LEMMA SourceStep ==
  ASSUME ActorsTypeOK, CorrectionsInv, StartsInv, SourceOfItsValue, [ActorsNext]_actorVars
  PROVE  SourceOfItsValue'
<1> SUFFICES ASSUME NEW i \in Rows'
             PROVE  Sourced(actors'[i])
  BY DEF SourceOfItsValue, Sourced
<1>1. CASE actors' = actors
  BY <1>1 DEF SourceOfItsValue, Rows
<1>2. ASSUME NEW c \in Calls, InsertActor(c)
      PROVE  Sourced(actors'[i])
  BY <1>2, InsertAddsRow DEF SourceOfItsValue, Sourced
<1>3. ASSUME NEW c \in Calls, WriteAttributes(c), actors' # actors
      PROVE  Sourced(actors'[i])
  <2>1. CASE i # calls[c].id
    BY <1>3, <2>1, WriteChangesRow DEF SourceOfItsValue
  <2>2. CASE i = calls[c].id
    <3>1. Sourced(calls[c].held)
      BY <1>3 DEF CorrectionsInv, WriteAttributes
    <3>2. actors'[i].attributes = Merged(c) /\ actors'[i].sources = Sources(c)
      BY <1>3, <2>2, WriteChangesRow
    <3> QED BY <3>1, <3>2 DEF Sourced, Merged, Sources, Corrected
  <2> QED BY <2>1, <2>2
<1>4. ASSUME NEW s \in Starts, StartCommits(s)
      PROVE  Sourced(actors'[i])
  BY <1>4, CommitShowsCodes DEF SourceOfItsValue, Sourced
<1> QED BY <1>1, <1>2, <1>3, <1>4, RowWriters

(***************************************************************************)
(* No other insert takes the code an insert drew.                          *)
(***************************************************************************)
LEMMA DrawnStep ==
  ASSUME ActorsTypeOK, CorrectionsInv, StartsInv, CounterInv, DrawnCodeIsFree,
         [ActorsNext]_actorVars
  PROVE  DrawnCodeIsFree'
<1> SUFFICES ASSUME NEW c \in Calls, calls'[c].step = "insert", ~calls'[c].late
             PROVE  calls'[c].code \notin CodesHeld'
  BY DEF DrawnCodeIsFree
<1>1. Moves(c)
  BY CallsMove
<1>2. CASE calls'[c] = calls[c]
  <2>1. calls[c].step = "insert" /\ calls[c].code \notin CodesHeld
    BY <1>2 DEF DrawnCodeIsFree
  <2>2. ASSUME NEW d \in Calls, InsertActor(d)
        PROVE  FALSE
    <3>1. c = d
      BY <2>1, <2>2 DEF CounterInv, Claims, InsertActor
    <3>2. calls'[d] = Done
      BY <2>2, OneMoves DEF InsertActor, Returns
    <3> QED BY <1>2, <2>1, <3>1, <3>2 DEF Done
  <2>3. ASSUME NEW s \in Starts, StartCommits(s)
        PROVE  FALSE
    <3>1. calls[c] \in Inserting
      BY <2>1, CallsOfActors
    <3>2. calls'[c] = [calls[c] EXCEPT !.late = TRUE]
      BY <2>1, <2>3 DEF StartCommits
    <3> QED BY <3>1, <3>2 DEF Inserting
  <2>4. CASE actors' = actors
    BY <1>2, <2>1, <2>4 DEF CodesHeld, Rows
  <2>5. ASSUME NEW d \in Calls, WriteAttributes(d), actors' # actors
        PROVE  CodesHeld' = CodesHeld
    BY <2>5, WriteChangesRow
  <2> QED BY <1>2, <2>1, <2>2, <2>3, <2>4, <2>5, RowWriters
<1>3. CASE actors' = actors /\ calls'[c].code \notin CodesHeld
  BY <1>3 DEF CodesHeld, Rows
<1> QED BY <1>1, <1>2, <1>3 DEF Moves, Done, Preparing, Drawing, LookingAgain, CorrectCall

(***************************************************************************)
(* A refusal that is not for the id is for a code a start gave away.       *)
(***************************************************************************)
LEMMA EnsureStep ==
  ASSUME ActorsTypeOK, CorrectionsInv, StartsInv, DrawnCodeIsFree, EnsureFindsActor,
         [ActorsNext]_actorVars
  PROVE  EnsureFindsActor'
<1> SUFFICES ASSUME NEW c \in Calls, calls'[c].step = "again"
             PROVE  calls'[c].id \in Rows' \/ calls'[c].late
  BY DEF EnsureFindsActor
<1>1. Moves(c) /\ Rows \subseteq Rows'
  BY CallsMove, RowsKeepType
<1>2. CASE calls'[c] = calls[c]
  BY <1>1, <1>2 DEF EnsureFindsActor
<1>3. CASE /\ InsertRefused(c) /\ (IdRefused(c) \/ CodeRefused(c))
           /\ calls'[c].id = calls[c].id /\ calls'[c].late = calls[c].late
  BY <1>1, <1>3 DEF InsertRefused, IdRefused, CodeRefused, DrawnCodeIsFree
<1> QED BY <1>1, <1>2, <1>3 DEF Moves, Done, Preparing, Drawing, Inserting, CorrectCall

-----------------------------------------------------------------------------
(***************************************************************************)
(* A sequence of some is one of more, and a set can be listed.             *)
(***************************************************************************)
LEMMA SeqOfMore ==
  ASSUME NEW A, NEW B, A \subseteq B, NEW list \in Seq(A)
  PROVE  list \in Seq(B)
<1>1. Len(list) \in Nat /\ list \in [1..Len(list) -> A]
  BY LenProperties
<1>2. list \in [1..Len(list) -> B]
  BY <1>1
<1> QED BY <1>1, <1>2, SeqDef

\* A start lists the ids without a code as a sequence of them (BackfillPublicCodes).
LEMMA ListedInSeq ==
  ASSUME NEW S \in SUBSET Ids
  PROVE  SetToSeq(S) \in Seq(S)
<1>1. IsFiniteSet(S)
  BY ActorsAssumption, FS_Subset
<1>2. Cardinality(S) \in Nat /\ ExistsBijection(1..Cardinality(S), S)
  BY <1>1, FS_CardinalityType
<1>3. \E f \in [1..Cardinality(S) -> S] : IsInjective(f)
  BY <1>2 DEF ExistsBijection, Bijection, Injection
<1>4. SetToSeq(S) \in [1..Cardinality(S) -> S]
  BY <1>3 DEF SetToSeq
<1> QED BY <1>2, <1>4, SeqDef

(***************************************************************************)
(* The kinds of a start, by its step.                                      *)
(***************************************************************************)
LEMMA StartKinds ==
  ASSUME NEW todo \in Seq(Ids), NEW coded \in Coded, NEW late \in SUBSET Ids
  PROVE  /\ [step |-> "code", todo |-> todo, coded |-> coded, late |-> late] \in StartCall
         /\ \A n, m \in Nat :
              [step |-> "draw", todo |-> todo, coded |-> coded, late |-> late,
               groups |-> n, draw |-> m] \in StartCall
         /\ \A code \in Codes :
              [step |-> "update", todo |-> todo, coded |-> coded, late |-> late,
               code |-> code] \in StartCall
BY DEF StartCall

(***************************************************************************)
(* One start that moves, soundly and beside the codes of the others.       *)
(***************************************************************************)
LEMMA OneStartMoves ==
  ASSUME ActorsTypeOK, StartsInv, NEW s \in Starts, NEW start \in StartCall \cup {Done},
         starts' = [starts EXCEPT ![s] = start], actors' = actors,
         start \in StartCall =>
           Sound(start) /\ Range(start.coded) \cap CodesWritten(Starts \ {s}) = {}
  PROVE  starts' \in [Starts -> AStart] /\ StartsInv'
<1>1. starts' \in [Starts -> AStart] /\ starts'[s] = start
      /\ \A t \in Starts \ {s} : starts'[t] = starts[t]
  BY DEF ActorsTypeOK, AStart
<1>2. \A t \in InHand(Starts)' : t \in Starts /\ (t # s => t \in InHand(Starts))
  BY <1>1 DEF InHand
<1>3. s \in InHand(Starts)' => start \in StartCall
  BY <1>1 DEF InHand, Done
<1>4. \A t \in InHand(Starts)' : Sound(starts'[t])
  BY <1>1, <1>2, <1>3 DEF StartsInv
<1>5. \A t \in InHand(Starts) \ {s} :
        t \in InHand(Starts \ {s}) /\ Range(starts[t].coded) \subseteq CodesWritten(Starts \ {s})
  BY DEF InHand, CodesWritten
<1>6. \A t, u \in InHand(Starts)' :
        t # u => Range(starts'[t].coded) \cap Range(starts'[u].coded) = {}
  <2> SUFFICES ASSUME NEW t \in InHand(Starts)', NEW u \in InHand(Starts)', t # u
               PROVE  Range(starts'[t].coded) \cap Range(starts'[u].coded) = {}
    OBVIOUS
  <2>1. CASE t # s /\ u # s
    BY <1>1, <1>2, <2>1 DEF StartsInv
  <2>2. CASE t = s
    BY <1>1, <1>2, <1>3, <1>5, <2>2
  <2>3. CASE u = s
    BY <1>1, <1>2, <1>3, <1>5, <2>3
  <2> QED BY <2>1, <2>2, <2>3
<1>7. (\A t \in InHand(Starts) : Sound(starts[t]))'
  BY <1>4 DEF Sound, Owed, CodesHeld, Rows
<1> QED BY <1>1, <1>6, <1>7 DEF StartsInv

(***************************************************************************)
(* A start lists the rows without a code, reads, draws and writes.         *)
(***************************************************************************)
LEMMA StartsListing ==
  ASSUME ActorsTypeOK, StartsInv, NEW s \in Starts, BackfillPublicCodes(s)
  PROVE  starts' \in [Starts -> AStart] /\ StartsInv'
<1> DEFINE start == [step |-> "code", todo |-> SetToSeq(Uncoded), coded |-> << >>, late |-> {}]
<1>1. Uncoded \in SUBSET Ids /\ Uncoded \subseteq Owed(start)
  BY DEF Uncoded, Rows, Owed
<1>2. SetToSeq(Uncoded) \in Seq(Ids) /\ SetToSeq(Uncoded) \in Seq(Owed(start))
  BY <1>1, ListedInSeq, SeqOfMore
<1>3. << >> \in Coded /\ DOMAIN << >> = {} /\ Range(<< >>) = {} /\ IsInjective(<< >>)
  <2>1. << >> \in [1..0 -> Codes] /\ 1..0 = {}
    BY EmptySeq, LenProperties
  <2> QED BY <2>1 DEF Coded, Range, IsInjective
<1>4. start \in StartCall
  BY <1>2, <1>3, StartKinds
<1>5. Sound(start)
  BY <1>2, <1>3 DEF Sound
<1>6. starts' = [starts EXCEPT ![s] = start] /\ actors' = actors
  BY DEF BackfillPublicCodes
<1> QED BY <1>3, <1>4, <1>5, <1>6, OneStartMoves

\* A start that reads the format or draws stays sound.
LEMMA StartsReadAndDraw ==
  ASSUME ActorsTypeOK, StartsInv, NEW s \in Starts,
         StartReadsFormat(s) \/ \E code \in Codes : StartDraws(s, code)
  PROVE  starts' \in [Starts -> AStart] /\ StartsInv'
<1>1. s \in InHand(Starts)
  BY DEF StartReadsFormat, StartDraws, InHand
<1>2. /\ starts[s] \in StartCall /\ starts[s].todo \in Seq(Ids) /\ starts[s].coded \in Coded
      /\ starts[s].late \in SUBSET Ids
  BY <1>1, StartsInHand
<1>3. Sound(starts[s]) /\ Range(starts[s].coded) \cap CodesWritten(Starts \ {s}) = {}
  BY <1>1 DEF StartsInv, CodesWritten, InHand
<1>4. ASSUME NEW start \in StartCall, starts' = [starts EXCEPT ![s] = start], actors' = actors,
             start.todo = starts[s].todo, start.coded = starts[s].coded,
             start.late = starts[s].late, start.todo # << >>,
             start.step = "update" => start.code \notin Range(start.coded)
      PROVE  starts' \in [Starts -> AStart] /\ StartsInv'
  BY <1>3, <1>4, OneStartMoves DEF Sound, Owed
<1>5. CASE StartReadsFormat(s)
  <2> DEFINE start == [step |-> "draw", todo |-> starts[s].todo, coded |-> starts[s].coded,
                       late |-> starts[s].late, groups |-> format, draw |-> 0]
  <2>1. format \in Nat
    BY ActorsAssumption DEF ActorsTypeOK
  <2>2. start \in StartCall
    BY <1>2, <2>1, StartKinds
  <2>3. starts' = [starts EXCEPT ![s] = start] /\ actors' = actors /\ starts[s].todo # << >>
    BY <1>5 DEF StartReadsFormat
  <2> QED BY <1>4, <2>2, <2>3
<1>6. ASSUME NEW code \in Codes, StartDraws(s, code)
      PROVE  starts' \in [Starts -> AStart] /\ StartsInv'
  <2> DEFINE held == Collides(code) \/ code \in Range(starts[s].coded)
  <2>1. starts[s].step = "draw" /\ starts[s].todo # << >> /\ actors' = actors
    BY <1>3, <1>6 DEF StartDraws, Sound
  <2>2. CASE ~held
    <3> DEFINE start == [step |-> "update", todo |-> starts[s].todo, coded |-> starts[s].coded,
                         late |-> starts[s].late, code |-> code]
    <3>1. start \in StartCall
      BY <1>2, StartKinds
    <3>2. starts' = [starts EXCEPT ![s] = start]
      BY <1>6, <2>2 DEF StartDraws
    <3> QED BY <1>4, <2>1, <2>2, <3>1, <3>2
  <2>3. CASE held /\ starts[s].draw + 1 < Draws
    <3> DEFINE start == [starts[s] EXCEPT !.draw = starts[s].draw + 1]
    <3>1. starts' = [starts EXCEPT ![s] = start]
      BY <1>6, <2>3 DEF StartDraws
    <3>2. /\ start \in StartCall /\ start.step = "draw" /\ start.todo = starts[s].todo
          /\ start.coded = starts[s].coded /\ start.late = starts[s].late
      BY <1>2, <2>1 DEF StartCall
    <3> HIDE DEF start
    <3> QED BY <1>4, <2>1, <3>1, <3>2
  <2>4. CASE held /\ ~(starts[s].draw + 1 < Draws)
    <3>1. starts' = [starts EXCEPT ![s] = Done]
      BY <1>6, <2>4 DEF StartDraws
    <3>2. Done \notin StartCall
      BY DEF Done, StartCall
    <3> QED BY <2>1, <3>1, <3>2, OneStartMoves
  <2> QED BY <2>2, <2>3, <2>4
<1> QED BY <1>5, <1>6

(***************************************************************************)
(* Writing a code, which no row and no other start has.                    *)
(***************************************************************************)
LEMMA StartsWriting ==
  ASSUME ActorsTypeOK, StartsInv, NEW s \in Starts, UpdateCode(s)
  PROVE  starts' \in [Starts -> AStart] /\ StartsInv'
<1> DEFINE i == Head(starts[s].todo)
           coded == [j \in DOMAIN starts[s].coded \cup {i} |->
                       IF j = i THEN starts[s].code ELSE starts[s].coded[j]]
           start == [step |-> "code", todo |-> Tail(starts[s].todo), late |-> starts[s].late,
                     coded |-> coded]
<1>1. s \in InHand(Starts) /\ starts[s].step = "update"
  BY DEF UpdateCode, InHand
<1>2. /\ starts[s].todo \in Seq(Ids) /\ starts[s].coded \in Coded
      /\ starts[s].late \in SUBSET Ids /\ starts[s].code \in Codes
  BY <1>1, StartsInHand
<1>3. Sound(starts[s]) /\ Range(starts[s].coded) \cap CodesWritten(Starts \ {s}) = {}
  BY <1>1 DEF StartsInv, CodesWritten, InHand
<1>4. actors' = actors /\ starts[s].code \notin CodesWritten(Starts \ {s})
  BY DEF UpdateCode
<1>5. CASE starts[s].code \in CodesHeld
  <2>1. starts' = [starts EXCEPT ![s] = Done]
    BY <1>5 DEF UpdateCode
  <2>2. Done \notin StartCall
    BY DEF Done, StartCall
  <2> QED BY <1>4, <2>1, <2>2, OneStartMoves
<1>6. CASE starts[s].code \notin CodesHeld
  <2>1. starts' = [starts EXCEPT ![s] = start]
    BY <1>6 DEF UpdateCode
  <2>2. /\ i \in Owed(starts[s]) /\ Tail(starts[s].todo) \in Seq(Owed(starts[s]))
        /\ Tail(starts[s].todo) \in Seq(Ids)
    BY <1>1, <1>2, <1>3, HeadTailProperties DEF Sound
  <2>3. i \in Ids
    BY <2>2 DEF Owed, Rows
  <2>4. coded \in Coded
    <3>1. PICK I \in SUBSET Ids : starts[s].coded \in [I -> Codes]
      BY <1>2 DEF Coded
    <3>2. coded \in [I \cup {i} -> Codes] /\ I \cup {i} \in SUBSET Ids
      BY <1>2, <2>3, <3>1
    <3> QED BY <3>2 DEF Coded
  <2>5. start \in StartCall
    BY <1>2, <2>2, <2>4, StartKinds
  <2>6. Range(coded) \subseteq Range(starts[s].coded) \cup {starts[s].code}
    BY DEF Range
  <2>7. DOMAIN coded \subseteq Owed(starts[s])
    BY <1>3, <2>2 DEF Sound
  <2>8. IsInjective(coded)
    <3>1. \A j \in DOMAIN starts[s].coded :
            starts[s].coded[j] \in Range(starts[s].coded) /\ starts[s].coded[j] # starts[s].code
      BY <1>1, <1>3 DEF Sound, Range
    <3> QED BY <1>3, <3>1 DEF Sound, IsInjective
  <2>9. Owed(start) = Owed(starts[s])
    BY DEF Owed
  <2> HIDE DEF coded
  <2>10. Sound(start)
    BY <1>3, <1>6, <2>2, <2>6, <2>7, <2>8, <2>9 DEF Sound
  <2>11. Range(start.coded) \cap CodesWritten(Starts \ {s}) = {}
    BY <1>3, <1>4, <2>6
  <2> QED BY <1>4, <2>1, <2>5, <2>10, <2>11, OneStartMoves
<1> QED BY <1>5, <1>6

(***************************************************************************)
(* Where the rows and the codes held are as before but for one that no     *)
(* start has written, every start in hand stays sound.                     *)
(***************************************************************************)
LEMMA SoundBesideOthers ==
  ASSUME StartsInv, starts' = starts, Rows \subseteq Rows',
         \A i \in Rows : actors'[i].code = actors[i].code,
         CodesHeld' \cap CodesWritten(Starts) \subseteq CodesHeld
  PROVE  StartsInv'
<1>1. ASSUME NEW s \in InHand(Starts)
      PROVE  Sound(starts[s])'
  <2>1. Sound(starts[s]) /\ Range(starts[s].coded) \subseteq CodesWritten(Starts)
    BY <1>1 DEF StartsInv, CodesWritten, InHand
  <2>2. Owed(starts[s]) \subseteq Owed(starts[s])'
    BY DEF Owed
  <2>3. starts[s].todo \in Seq(Owed(starts[s])')
    BY <2>1, <2>2, SeqOfMore DEF Sound
  <2> QED BY <2>1, <2>2, <2>3 DEF Sound
<1> QED BY <1>1 DEF StartsInv, InHand

(***************************************************************************)
(* A commit shows codes no other start has written, and of every other it  *)
(* is known that it was overtaken in those rows.                           *)
(***************************************************************************)
LEMMA StartsCommitting ==
  ASSUME ActorsTypeOK, StartsInv, NEW s \in Starts, StartCommits(s)
  PROVE  starts' \in [Starts -> AStart] /\ StartsInv'
<1> DEFINE coded == starts[s].coded
<1>1. /\ s \in InHand(Starts) /\ Rows' = Rows /\ CodesHeld' \subseteq CodesHeld \cup Range(coded)
      /\ DOMAIN coded \subseteq Ids
      /\ \A i \in Rows : actors'[i].code = actors[i].code \/ i \in DOMAIN coded
  BY CommitShowsCodes DEF Owed, Rows
<1>2. ASSUME NEW t \in InHand(Starts), t # s
      PROVE  /\ starts'[t] \in StartCall
             /\ starts'[t].step = starts[t].step /\ starts'[t].todo = starts[t].todo
             /\ starts'[t].coded = starts[t].coded
             /\ starts'[t].late = starts[t].late \cup DOMAIN coded
             /\ starts'[t].step = "update" => starts'[t].code = starts[t].code
  <2>1. starts[t] \in StartCall /\ t \in Starts
    BY <1>2, StartsInHand
  <2>2. starts'[t] = [starts[t] EXCEPT !.late = starts[t].late \cup DOMAIN coded]
    BY <1>2, <2>1 DEF StartCommits
  <2> QED BY <1>1, <2>1, <2>2 DEF StartCall
<1>3. starts'[s] = Done /\ \A t \in Starts : t \notin InHand(Starts) => starts'[t] = starts[t]
  BY <1>1 DEF StartCommits
<1>4. starts' \in [Starts -> AStart]
  <2>1. ASSUME NEW t \in Starts
        PROVE  starts'[t] \in AStart
    BY <1>2, <1>3 DEF ActorsTypeOK, AStart
  <2> QED BY <2>1 DEF StartCommits
<1>5. \A t \in InHand(Starts)' : t \in InHand(Starts) /\ t # s
  BY <1>3 DEF InHand, Done
<1>6. ASSUME NEW t \in InHand(Starts), t # s
      PROVE  Sound(starts[t])'
  <2>1. Sound(starts[t]) /\ Range(starts[t].coded) \cap Range(coded) = {}
    BY <1>1, <1>6 DEF StartsInv
  <2>2. Owed(starts[t]) \subseteq Owed(starts[t])'
    BY <1>1, <1>2, <1>6 DEF Owed
  <2>3. starts[t].todo \in Seq(Owed(starts[t])')
    BY <2>1, <2>2, SeqOfMore DEF Sound
  <2> QED BY <1>1, <1>2, <1>6, <2>1, <2>2, <2>3 DEF Sound
<1> QED BY <1>2, <1>4, <1>5, <1>6 DEF StartsInv

(***************************************************************************)
(* Every step keeps the starts typed and sound.                            *)
(***************************************************************************)
LEMMA StartsStep ==
  ASSUME ActorsTypeOK, CorrectionsInv, StartsInv, [ActorsNext]_actorVars
  PROVE  starts' \in [Starts -> AStart] /\ StartsInv'
<1> DEFINE Goal == starts' \in [Starts -> AStart] /\ StartsInv'
<1>1. ASSUME starts' = starts, actors' = actors
      PROVE  Goal
  <2>1. Rows' = Rows /\ CodesHeld' = CodesHeld
    BY <1>1 DEF Rows, CodesHeld
  <2> QED BY <1>1, <2>1, SoundBesideOthers DEF ActorsTypeOK, AStart
<1>2. ASSUME NEW c \in Calls, InsertActor(c)
      PROVE  Goal
  <2>1. starts' = starts /\ calls[c].code \notin CodesWritten(Starts)
    BY <1>2 DEF InsertActor
  <2>2. /\ Rows \subseteq Rows' /\ CodesHeld' = CodesHeld \cup {calls[c].code}
        /\ \A i \in Rows : actors'[i].code = actors[i].code
    BY <1>2, InsertAddsRow
  <2> QED BY <2>1, <2>2, SoundBesideOthers DEF ActorsTypeOK, AStart
<1>3. ASSUME NEW c \in Calls, WriteAttributes(c)
      PROVE  Goal
  <2>1. starts' = starts
    BY <1>3 DEF WriteAttributes
  <2>2. CASE actors' # actors
    <3>1. /\ Rows' = Rows /\ CodesHeld' = CodesHeld
          /\ \A i \in Rows : actors'[i].code = actors[i].code
      BY <1>3, <2>2, WriteChangesRow
    <3> QED BY <2>1, <3>1, SoundBesideOthers DEF ActorsTypeOK, AStart
  <2> QED BY <1>1, <2>1, <2>2
<1> HIDE DEF Goal
<1>4. ASSUME NEW c \in Calls, NEW i \in Ids, NEW changes \in Corrections,
             \/ \E claimed \in SourcesGiven : CreateActor(c, i, Given(changes, claimed))
             \/ SetAttributes(c, i, changes)
      PROVE  Goal
  BY <1>1, <1>4 DEF CreateActor, SetAttributes
<1>5. ASSUME NEW c \in Calls, NEW i \in Ids, EnsureActor(c, i)
      PROVE  Goal
  BY <1>1, <1>5 DEF EnsureActor
<1>6. ASSUME NEW c \in Calls,
             \/ CheckUniqueAttributes(c) \/ ClaimCode(c) \/ ReadFormat(c) \/ InsertRefused(c)
             \/ EnsureAgain(c) \/ InsertFails(c) \/ CheckUniqueAttributesBesides(c)
             \/ \E code \in Codes : DrawCode(c, code)
      PROVE  Goal
  BY <1>1, <1>6 DEF CheckUniqueAttributes, ClaimCode, ReadFormat, InsertRefused, EnsureAgain,
                    InsertFails, CheckUniqueAttributesBesides, DrawCode
<1>7. ASSUME NEW n \in Formats, SetCodeFormat(n)
      PROVE  Goal
  BY <1>1, <1>7 DEF SetCodeFormat
<1>8. ASSUME NEW s \in Starts, StartFails(s)
      PROVE  Goal
  <2>1. starts' = [starts EXCEPT ![s] = Done] /\ actors' = actors
    BY <1>8 DEF StartFails
  <2>2. Done \notin StartCall
    BY DEF Done, StartCall
  <2> QED BY <2>1, <2>2, OneStartMoves DEF Goal
<1>9. ASSUME NEW s \in Starts,
             \/ BackfillPublicCodes(s) \/ StartReadsFormat(s) \/ UpdateCode(s) \/ StartCommits(s)
             \/ \E code \in Codes : StartDraws(s, code)
      PROVE  Goal
  BY <1>9, StartsListing, StartsReadAndDraw, StartsWriting, StartsCommitting DEF Goal
<1>10. UNCHANGED actorVars => Goal
  BY <1>1 DEF actorVars
<1>11. Goal
  BY <1>2, <1>3, <1>4, <1>5, <1>6, <1>7, <1>8, <1>9, <1>10 DEF ActorsNext
<1> QED BY <1>11 DEF Goal

-----------------------------------------------------------------------------
ActorsInv ==
  /\ ActorsTypeOK
  /\ SourceOfItsValue /\ EnsureFindsActor /\ DrawnCodeIsFree
  /\ CorrectionsInv /\ CounterInv /\ StartsInv

\* The strengthened invariant holds from the earlier rows on.
LEMMA ActorsInvariant == ActorsSpec => []ActorsInv
<1>1. ActorsInit => ActorsInv
  <2> SUFFICES ASSUME ActorsInit
               PROVE  ActorsInv
    OBVIOUS
  <2>1. /\ \A c \in Calls : calls[c].step = "idle"
        /\ InHand(Starts) = {}
    BY DEF ActorsInit, Idle, InHand
  <2>2. /\ actors \in [Ids -> Actor \cup {NoActor}]
        /\ Indexed(actors, Rows) /\ SourceOfItsValue
    BY EarlierAssumption DEF ActorsInit, Rows, SourceOfItsValue
  <2>3. ActorsTypeOK
    BY <2>2 DEF ActorsInit, ActorsTypeOK
  <2> QED BY <2>1, <2>2, <2>3
          DEF ActorsInv, EnsureFindsActor, DrawnCodeIsFree, CorrectionsInv, CounterInv, Claims,
              StartsInv
<1>2. ActorsInv /\ [ActorsNext]_actorVars => ActorsInv'
  <2> SUFFICES ASSUME ActorsInv, [ActorsNext]_actorVars
               PROVE  ActorsInv'
    OBVIOUS
  <2> USE DEF ActorsInv
  <2>1. format' \in Formats
    <3>1. format' = format \/ \E n \in Formats : format' = n
      BY DEF ActorsNext, actorVars, CreateActor, EnsureActor, SetAttributes, CheckUniqueAttributes,
             ClaimCode, ReadFormat, DrawCode, InsertActor, InsertRefused, EnsureAgain, InsertFails,
             CheckUniqueAttributesBesides, WriteAttributes, SetCodeFormat, BackfillPublicCodes,
             StartReadsFormat, StartDraws, UpdateCode, StartFails, StartCommits
    <3> QED BY <3>1 DEF ActorsTypeOK
  <2>2. ActorsTypeOK'
    BY <2>1, RowsKeepType, CallsKeepType, StartsStep DEF ActorsTypeOK, ACall, AStart
  <2>3. SourceOfItsValue' /\ CorrectionsInv'
    BY SourceStep, CorrectionsStep
  <2>4. DrawnCodeIsFree' /\ EnsureFindsActor'
    BY DrawnStep, EnsureStep
  <2> QED BY <2>2, <2>3, <2>4, CounterStep, StartsStep
<1> QED BY <1>1, <1>2, PTL DEF ActorsSpec

(***************************************************************************)
(* The rows, the calls and the starts are typed, and no two rows share a   *)
(* public code or the value of an attribute, whatever inserts, corrections *)
(* and starts are in flight (actor_impl.go, public_code.go).               *)
(***************************************************************************)
THEOREM ActorsTypeCorrect == ActorsSpec => []ActorsTypeOK
BY ActorsInvariant, PTL DEF ActorsInv

(***************************************************************************)
(* The code an insert drew stays free until it inserts, unless a starting  *)
(* service commits codes meanwhile (insertActor, mintPublicCode).          *)
(***************************************************************************)
THEOREM DrawnCodesStayFree == ActorsSpec => []DrawnCodeIsFree
BY ActorsInvariant, PTL DEF ActorsInv

(***************************************************************************)
(* EnsureActor finds its actor when it looks again, unless a starting      *)
(* service gave the code away (EnsureActor, insertActor).                  *)
(***************************************************************************)
THEOREM EnsureFinds == ActorsSpec => []EnsureFindsActor
BY ActorsInvariant, PTL DEF ActorsInv

(***************************************************************************)
(* An entry of the sources stands only beside the value it was written     *)
(* with, however corrections overlap: who is said to have corrected an     *)
(* attribute set the value it has (setAttributes), and an entry the body   *)
(* of a create brought goes with the value it came with (insertActor).     *)
(***************************************************************************)
THEOREM SourcesMatch == ActorsSpec => []SourceOfItsValue
BY ActorsInvariant, PTL DEF ActorsInv

(***************************************************************************)
(* A correction that was not overtaken changes what it names and nothing   *)
(* else (setAttributes).                                                   *)
(***************************************************************************)
THEOREM UnnamedStay == ActorsSpec => UnnamedChangeWasOvertaken
<1> DEFINE Kept(c) ==
             calls[c].step = "write" /\ calls'[c] = Done /\ ~calls[c].late =>
               \A x \in Attributes \ DOMAIN calls[c].changes :
                 actors'[calls[c].id].attributes[x] = actors[calls[c].id].attributes[x]
<1>1. ASSUME ActorsInv, [ActorsNext]_actorVars, NEW c \in Calls
      PROVE  Kept(c)
  <2> USE <1>1 DEF ActorsInv
  <2> SUFFICES ASSUME calls[c].step = "write", calls'[c] = Done, ~calls[c].late,
                      NEW x \in Attributes \ DOMAIN calls[c].changes
               PROVE  actors'[calls[c].id].attributes[x] = actors[calls[c].id].attributes[x]
    OBVIOUS
  <2>1. calls[c].id \in Rows /\ calls[c].held.attributes = actors[calls[c].id].attributes
    BY DEF CorrectionsInv
  <2>2. ASSUME NEW d \in Calls, WriteAttributes(d), actors' # actors
        PROVE  actors'[calls[c].id].attributes[x] = actors[calls[c].id].attributes[x]
    <3>1. CASE d = c
      <4>1. actors'[calls[c].id].attributes = Merged(c)
        BY <2>2, <3>1, WriteChangesRow
      <4>2. Merged(c)[x] = calls[c].held.attributes[x]
        BY DEF Merged
      <4> QED BY <2>1, <4>1, <4>2
    <3>2. CASE d # c /\ calls[d].id = calls[c].id
      <4>1. calls'[c] = [calls[c] EXCEPT !.late = TRUE]
        BY <2>2, <3>2 DEF WriteAttributes
      <4>2. calls[c] \in CorrectCall
        BY CallsOfActors
      <4> QED BY <4>1, <4>2 DEF CorrectCall, Done
    <3>3. CASE calls[d].id # calls[c].id
      BY <2>1, <2>2, <3>3, WriteChangesRow
    <3> QED BY <3>1, <3>2, <3>3
  <2> QED BY <2>1, <2>2, RowWriters, InsertAddsRow, CommitShowsCodes
<1>2. ActorsInv /\ [ActorsNext]_actorVars => [\A c \in Calls : Kept(c)]_actorVars
  BY <1>1
<1> QED BY <1>2, ActorsInvariant, PTL DEF ActorsSpec, UnnamedChangeWasOvertaken

(***************************************************************************)
(* A row's public code changes only from none, or by a start that had      *)
(* listed the row before another start gave it its code                    *)
(* (backfillPublicCodes).                                                  *)
(***************************************************************************)
THEOREM CodesRewrittenByStarts == ActorsSpec => CodeRewrittenOnlyByAStart
<1> DEFINE Explained(i) ==
             actors'[i].code # actors[i].code =>
               \/ actors[i].code = NoCode
               \/ \E s \in InHand(Starts) : i \in starts[s].late /\ starts'[s] = Done
<1>1. ASSUME ActorsInv, [ActorsNext]_actorVars, NEW i \in Rows
      PROVE  Explained(i)
  <2> USE <1>1 DEF ActorsInv
  <2>1. ASSUME NEW s \in Starts, StartCommits(s), actors'[i].code # actors[i].code,
               actors[i].code # NoCode
        PROVE  \E t \in InHand(Starts) : i \in starts[t].late /\ starts'[t] = Done
    <3>1. s \in InHand(Starts) /\ i \in Owed(starts[s])
      BY <2>1, CommitShowsCodes
    <3>2. starts'[s] = Done
      BY <2>1 DEF StartCommits
    <3> QED BY <2>1, <3>1, <3>2 DEF Owed
  <2>2. ASSUME NEW c \in Calls, WriteAttributes(c), actors' # actors
        PROVE  actors'[i].code = actors[i].code
    BY <2>2, WriteChangesRow
  <2> QED BY <2>1, <2>2, RowWriters, InsertAddsRow
<1>2. ActorsInv /\ [ActorsNext]_actorVars => [\A i \in Rows : Explained(i)]_actorVars
  BY <1>1
<1> QED BY <1>2, ActorsInvariant, PTL DEF ActorsSpec, CodeRewrittenOnlyByAStart
=============================================================================
