---------------------------- MODULE Translations ----------------------------
(***************************************************************************)
(* A group's name in another language: set by an operator, marked reviewed *)
(* by a reviewer, and read by members only while reviewed                  *)
(* (group_name_translation_impl.go).  Setting and reviewing are each a     *)
(* read and a later write by the row's id, outside a transaction.          *)
(***************************************************************************)
CONSTANTS
  Entries,  \* the <<group, language>> pairs a name may be kept for
  Names,
  Calls,    \* set and review calls that may be in flight together
  NoRow     \* the entry of a pair without a row

ASSUME TranslationsAssumption == NoRow \notin [name: Names, reviewed: BOOLEAN]

VARIABLES
  row,     \* the group_name_translation rows
  calls,   \* the calls in flight
  vetted   \* history: what the review that last marked each entry had read

translationVars == <<row, calls, vetted>>

Idle == [step |-> "idle"]

Translation == [name: Names, reviewed: BOOLEAN]

\* What a review read, and, as history, whether a set wrote before its mark.
Vetting == [name: Names, overtaken: BOOLEAN]
Unvetted == [step |-> "never"]

SetCall == [step: {"insert", "update"}, entry: Entries, name: Names]
ReviewCall == [step: {"mark"}, entry: Entries, read: Vetting]

Returns(c) == [calls EXCEPT ![c] = Idle]

-----------------------------------------------------------------------------
\* A name that is the held one already is answered and not written.
Changed(e, n) == row[e].name # n

SetGroupNameTranslation(c, e, n) ==
  /\ calls[c] = Idle
  /\ \/ row[e] = NoRow
     \/ row[e] # NoRow /\ Changed(e, n)
  /\ calls' = [calls EXCEPT ![c] =
       [step |-> IF row[e] = NoRow THEN "insert" ELSE "update", entry |-> e, name |-> n]]
  /\ UNCHANGED <<row, vetted>>

UnreviewedRow(n) == [name |-> n, reviewed |-> FALSE]

\* The unique index refuses the second row of a pair.
InsertTranslation(c) ==
  LET e == calls[c].entry IN
  /\ calls[c].step = "insert"
  /\ row' = IF row[e] = NoRow
            THEN [row EXCEPT ![e] = UnreviewedRow(calls[c].name)]
            ELSE row
  /\ calls' = Returns(c)
  /\ UNCHANGED vetted

\* Mutant: the review stands over the changed name.
KeepReview(e, n) == [row[e] EXCEPT !.name = n]

Rewritten(e, n) == UnreviewedRow(n)

UpdateTranslation(c) ==
  LET e == calls[c].entry IN
  /\ calls[c].step = "update"
  /\ row' = [row EXCEPT ![e] = Rewritten(e, calls[c].name)]
  /\ calls' = [d \in Calls |->
       IF d = c THEN Idle
       ELSE IF calls[d].step = "mark" /\ calls[d].entry = e
            THEN [calls[d] EXCEPT !.read.overtaken = TRUE]
            ELSE calls[d]]
  /\ UNCHANGED vetted

\* A review finds the row; ErrTranslationNotFound where there is none.
ReviewGroupNameTranslation(c, e) ==
  /\ calls[c] = Idle
  /\ row[e] # NoRow
  /\ calls' = [calls EXCEPT ![c] =
       [step |-> "mark", entry |-> e, read |-> [name |-> row[e].name, overtaken |-> FALSE]]]
  /\ UNCHANGED <<row, vetted>>

\* It marks the row by its id, whatever name is held by then.
MarkReviewed(c) ==
  LET e == calls[c].entry IN
  /\ calls[c].step = "mark"
  /\ row' = [row EXCEPT ![e].reviewed = TRUE]
  /\ vetted' = [vetted EXCEPT ![e] = calls[c].read]
  /\ calls' = Returns(c)

-----------------------------------------------------------------------------
TranslationsInit ==
  /\ row = [e \in Entries |-> NoRow]
  /\ calls = [c \in Calls |-> Idle]
  /\ vetted = [e \in Entries |-> Unvetted]

TranslationsNext ==
  \E c \in Calls :
    \/ \E e \in Entries, n \in Names : SetGroupNameTranslation(c, e, n)
    \/ \E e \in Entries : ReviewGroupNameTranslation(c, e)
    \/ InsertTranslation(c) \/ UpdateTranslation(c) \/ MarkReviewed(c)

TranslationsSpec == TranslationsInit /\ [][TranslationsNext]_translationVars

\* A reviewed row has been marked by a review.
TranslationsTypeOK ==
  /\ row \in [Entries -> Translation \cup {NoRow}]
  /\ calls \in [Calls -> SetCall \cup ReviewCall \cup {Idle}]
  /\ vetted \in [Entries -> Vetting \cup {Unvetted}]
  /\ \A e \in Entries : row[e] # NoRow /\ row[e].reviewed => vetted[e] # Unvetted

\* The names members read (GroupNamesInLanguage, GetGroupInLanguage).
ShownName(e, n) == row[e] # NoRow /\ row[e].reviewed /\ row[e].name = n

-----------------------------------------------------------------------------
(***************************************************************************)
(* Members read a name its reviewer never saw only where a set wrote       *)
(* between that review's own read and its mark: no other interleaving of   *)
(* sets and reviews lets an unreviewed name through.                       *)
(***************************************************************************)
UnseenNameWasOvertaken ==
  \A e \in Entries, n \in Names :
    ShownName(e, n) => vetted[e].name = n \/ vetted[e].overtaken
=============================================================================
