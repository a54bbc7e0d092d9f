--------------------------- MODULE RecordsProofs ----------------------------
(***************************************************************************)
(* Proofs about names in other languages, delegations and group types, for *)
(* any entries, records and calls in flight: the types, that an unseen     *)
(* name was an overtaken one, that one revoker revokes, that an answer     *)
(* about a delegation was true of the rows it was read from, that a rename *)
(* takes its groups along, and that a type that goes was not worn.         *)
(***************************************************************************)
EXTENDS Translations, Delegations, GroupTypes, TLAPS

(***************************************************************************)
(* The strengthening.  A row once found stays; what a review in flight has *)
(* read is what the row holds, or it was overtaken; and so it is with the  *)
(* review that last marked a reviewed row.                                 *)
(***************************************************************************)
RowsStay ==
  \A c \in Calls :
    calls[c].step \in {"update", "mark"} => row[calls[c].entry] # NoRow

ReadingStands ==
  \A c \in Calls :
    calls[c].step = "mark" =>
      calls[c].read.overtaken \/ row[calls[c].entry].name = calls[c].read.name

ReviewStands ==
  \A e \in Entries :
    row[e] # NoRow /\ row[e].reviewed =>
      vetted[e].overtaken \/ row[e].name = vetted[e].name

NamesInv == TranslationsTypeOK /\ RowsStay /\ ReadingStands /\ ReviewStands

(***************************************************************************)
(* A call in flight is one by its step.                                    *)
(***************************************************************************)
LEMMA CallTypes ==
  ASSUME TranslationsTypeOK, NEW c \in Calls
  PROVE  /\ calls[c].step \in {"insert", "update"} => calls[c] \in SetCall
         /\ calls[c].step = "mark" => calls[c] \in ReviewCall
         /\ c \in DOMAIN calls
BY DEF TranslationsTypeOK, SetCall, ReviewCall, Idle

(***************************************************************************)
(* A row is no absent one, and what a review read is no absent review.     *)
(***************************************************************************)
LEMMA RowsAreRows ==
  /\ NoRow \notin Translation
  /\ \A n \in Names : UnreviewedRow(n) \in Translation
  /\ Unvetted \notin Vetting
<1>1. NoRow \notin Translation
  BY TranslationsAssumption DEF Translation
<1>2. \A n \in Names : UnreviewedRow(n) \in Translation
  BY DEF UnreviewedRow, Translation
<1>3. Unvetted \notin Vetting
  <2>1. DOMAIN Unvetted = {"step"}
    BY DEF Unvetted
  <2>2. \A v \in Vetting : DOMAIN v = {"name", "overtaken"}
    BY DEF Vetting
  <2>3. "name" # "step"
    OBVIOUS
  <2> QED BY <2>1, <2>2, <2>3
<1> QED BY <1>1, <1>2, <1>3

(***************************************************************************)
(* Beginning a set keeps the invariant.                                    *)
(***************************************************************************)
LEMMA SetBegins ==
  ASSUME NamesInv, NEW c \in Calls, NEW e \in Entries, NEW n \in Names,
         SetGroupNameTranslation(c, e, n)
  PROVE  NamesInv'
<1> DEFINE call == [step |-> IF row[e] = NoRow THEN "insert" ELSE "update",
                    entry |-> e, name |-> n]
<1>1. call \in SetCall /\ call.entry = e /\ (call.step = "update" => row[e] # NoRow)
      /\ call.step # "mark"
  BY DEF SetCall
<1>2. calls' = [calls EXCEPT ![c] = call] /\ UNCHANGED <<row, vetted>>
  BY DEF SetGroupNameTranslation
<1> HIDE DEF call
<1>3. calls'[c] = call /\ \A d \in Calls \ {c} : calls'[d] = calls[d]
  BY <1>2, CallTypes DEF NamesInv, TranslationsTypeOK
<1>4. TranslationsTypeOK'
  BY <1>1, <1>2 DEF NamesInv, TranslationsTypeOK
<1>5. RowsStay' /\ ReadingStands' /\ ReviewStands'
  BY <1>1, <1>2, <1>3 DEF NamesInv, RowsStay, ReadingStands, ReviewStands
<1> QED BY <1>4, <1>5 DEF NamesInv

(***************************************************************************)
(* A review that has found the row has read what the row holds.            *)
(***************************************************************************)
LEMMA ReviewBegins ==
  ASSUME NamesInv, NEW c \in Calls, NEW e \in Entries, ReviewGroupNameTranslation(c, e)
  PROVE  NamesInv'
<1> DEFINE call == [step |-> "mark", entry |-> e,
                    read |-> [name |-> row[e].name, overtaken |-> FALSE]]
<1>1. row[e] \in Translation /\ row[e] # NoRow
  BY DEF NamesInv, TranslationsTypeOK, ReviewGroupNameTranslation
<1>2. call \in ReviewCall /\ call.entry = e /\ call.read.name = row[e].name
  BY <1>1 DEF ReviewCall, Vetting, Translation
<1>3. calls' = [calls EXCEPT ![c] = call] /\ UNCHANGED <<row, vetted>>
  BY DEF ReviewGroupNameTranslation
<1> HIDE DEF call
<1>4. calls'[c] = call /\ \A d \in Calls \ {c} : calls'[d] = calls[d]
  BY <1>3, CallTypes DEF NamesInv, TranslationsTypeOK
<1>5. TranslationsTypeOK'
  BY <1>2, <1>3 DEF NamesInv, TranslationsTypeOK
<1>6. RowsStay' /\ ReadingStands' /\ ReviewStands'
  BY <1>1, <1>2, <1>3, <1>4 DEF NamesInv, RowsStay, ReadingStands, ReviewStands
<1> QED BY <1>5, <1>6 DEF NamesInv

(***************************************************************************)
(* An insert writes a row where none was, so no review has read it yet.    *)
(***************************************************************************)
LEMMA InsertKeepsNames ==
  ASSUME NamesInv, NEW c \in Calls, InsertTranslation(c)
  PROVE  NamesInv'
<1> DEFINE e == calls[c].entry
           new == UnreviewedRow(calls[c].name)
<1>1. e \in Entries /\ calls[c].name \in Names
  BY CallTypes DEF NamesInv, InsertTranslation, SetCall
<1>2. new \in Translation /\ new # NoRow /\ new.reviewed = FALSE
  BY <1>1, RowsAreRows DEF UnreviewedRow
<1>3. /\ row' = IF row[e] = NoRow THEN [row EXCEPT ![e] = new] ELSE row
      /\ calls' = [calls EXCEPT ![c] = Idle] /\ UNCHANGED vetted
  BY DEF InsertTranslation, Returns
<1> HIDE DEF e, new
<1>4. /\ calls'[c] = Idle
      /\ \A d \in Calls \ {c} : calls'[d] = calls[d]
      /\ \A f \in Entries : row'[f] = row[f] \/ (f = e /\ row[e] = NoRow /\ row'[f] = new)
  BY <1>3, CallTypes DEF NamesInv, TranslationsTypeOK
<1>5. TranslationsTypeOK'
  BY <1>1, <1>2, <1>3, <1>4 DEF NamesInv, TranslationsTypeOK
<1>6. ASSUME NEW d \in Calls, calls'[d].step \in {"update", "mark"}
      PROVE  /\ calls'[d] = calls[d] /\ calls[d].entry \in Entries
             /\ row'[calls[d].entry] = row[calls[d].entry]
  <2>1. calls'[d] = calls[d]
    BY <1>4, <1>6 DEF Idle
  <2>2. calls[d].entry \in Entries /\ row[calls[d].entry] # NoRow
    BY <1>6, <2>1, CallTypes DEF NamesInv, RowsStay, SetCall, ReviewCall
  <2> QED BY <1>4, <2>1, <2>2
<1>7. RowsStay' /\ ReadingStands'
  BY <1>6 DEF NamesInv, RowsStay, ReadingStands
<1>8. ReviewStands'
  BY <1>2, <1>3, <1>4 DEF NamesInv, ReviewStands
<1> QED BY <1>5, <1>7, <1>8 DEF NamesInv

(***************************************************************************)
(* An update overtakes every review of the row in flight, and clears the   *)
(* mark of those before.                                                   *)
(***************************************************************************)
LEMMA UpdateKeepsNames ==
  ASSUME NamesInv, NEW c \in Calls, UpdateTranslation(c)
  PROVE  NamesInv'
<1> DEFINE e == calls[c].entry
           new == UnreviewedRow(calls[c].name)
           Hit(d) == calls[d].step = "mark" /\ calls[d].entry = e
           Late(d) == [calls[d] EXCEPT !.read.overtaken = TRUE]
<1>1. e \in Entries /\ calls[c].name \in Names
  BY CallTypes DEF NamesInv, UpdateTranslation, SetCall
<1>2. new \in Translation /\ new # NoRow /\ new.reviewed = FALSE
  BY <1>1, RowsAreRows DEF UnreviewedRow
<1>3. /\ row' = [row EXCEPT ![e] = new] /\ UNCHANGED vetted
      /\ calls' = [d \in Calls |-> IF d = c THEN Idle
                                   ELSE IF Hit(d) THEN Late(d) ELSE calls[d]]
  BY DEF UpdateTranslation, Rewritten
<1>4. ASSUME NEW d \in Calls, Hit(d)
      PROVE  /\ Late(d) \in ReviewCall /\ Late(d).read.overtaken
             /\ Late(d).entry = calls[d].entry
  <2>1. calls[d] \in [step: {"mark"}, entry: Entries, read: Vetting]
    BY <1>4, CallTypes DEF NamesInv, ReviewCall
  <2>2. calls[d].read \in [name: Names, overtaken: BOOLEAN]
    BY <2>1 DEF Vetting
  <2>3. [calls[d].read EXCEPT !.overtaken = TRUE] \in Vetting
    BY <2>2 DEF Vetting
  <2> QED BY <2>1, <2>2, <2>3 DEF ReviewCall
<1> HIDE DEF e, new, Late
<1>5. /\ row'[e] = new
      /\ \A f \in Entries \ {e} : row'[f] = row[f]
  BY <1>1, <1>3 DEF NamesInv, TranslationsTypeOK
<1>6. TranslationsTypeOK'
  <2>1. calls' \in [Calls -> SetCall \cup ReviewCall \cup {Idle}]
    BY <1>3, <1>4 DEF NamesInv, TranslationsTypeOK
  <2>2. row' \in [Entries -> Translation \cup {NoRow}]
    BY <1>2, <1>3 DEF NamesInv, TranslationsTypeOK
  <2> QED BY <1>2, <1>3, <1>5, <2>1, <2>2 DEF NamesInv, TranslationsTypeOK
<1>7. ASSUME NEW d \in Calls, calls'[d].step \in {"update", "mark"}
      PROVE  /\ row'[calls'[d].entry] # NoRow
             /\ calls'[d].step = "mark" =>
                  calls'[d].read.overtaken
                  \/ row'[calls'[d].entry].name = calls'[d].read.name
  <2>1. d # c
    BY <1>3, <1>7 DEF Idle
  <2>2. CASE Hit(d)
    BY <1>2, <1>3, <1>4, <1>5, <2>1, <2>2
  <2>3. CASE ~Hit(d)
    <3>1. calls'[d] = calls[d]
      BY <1>3, <2>1, <2>3
    <3>2. calls[d].entry \in Entries
      BY <1>7, <3>1, CallTypes DEF NamesInv, SetCall, ReviewCall
    <3> QED BY <1>2, <1>5, <1>7, <2>3, <3>1, <3>2 DEF NamesInv, RowsStay, ReadingStands
  <2> QED BY <2>2, <2>3
<1>8. RowsStay' /\ ReadingStands'
  BY <1>7 DEF RowsStay, ReadingStands
<1>9. ReviewStands'
  BY <1>2, <1>3, <1>5 DEF NamesInv, ReviewStands
<1> QED BY <1>6, <1>8, <1>9 DEF NamesInv

(***************************************************************************)
(* A mark leaves the name alone, and is made by what its review had read.  *)
(***************************************************************************)
LEMMA MarkKeepsNames ==
  ASSUME NamesInv, NEW c \in Calls, MarkReviewed(c)
  PROVE  NamesInv'
<1> DEFINE e == calls[c].entry
           read == calls[c].read
           new == [row[e] EXCEPT !.reviewed = TRUE]
<1>1. e \in Entries /\ read \in Vetting /\ row[e] # NoRow /\ c \in DOMAIN calls
  BY CallTypes DEF NamesInv, MarkReviewed, ReviewCall, RowsStay
<1>2. row[e] \in Translation
  BY <1>1 DEF NamesInv, TranslationsTypeOK
<1>3. new \in Translation /\ new # NoRow /\ new.name = row[e].name
  <2>1. new \in Translation /\ new.name = row[e].name
    BY <1>2 DEF Translation
  <2> QED BY <2>1, RowsAreRows
<1>4. /\ row' = [row EXCEPT ![e] = new]
      /\ vetted' = [vetted EXCEPT ![e] = read]
      /\ calls' = [calls EXCEPT ![c] = Idle]
  BY DEF MarkReviewed, Returns
<1>5. read.overtaken \/ row[e].name = read.name
  BY DEF NamesInv, ReadingStands, MarkReviewed
<1> HIDE DEF e, read, new
<1>6. /\ row'[e] = new /\ vetted'[e] = read /\ calls'[c] = Idle
      /\ \A f \in Entries \ {e} : row'[f] = row[f] /\ vetted'[f] = vetted[f]
      /\ \A d \in Calls \ {c} : calls'[d] = calls[d]
  BY <1>1, <1>4 DEF NamesInv, TranslationsTypeOK
<1>7. TranslationsTypeOK'
  <2>1. row' \in [Entries -> Translation \cup {NoRow}]
    BY <1>3, <1>4 DEF NamesInv, TranslationsTypeOK
  <2>2. vetted' \in [Entries -> Vetting \cup {Unvetted}]
    BY <1>1, <1>4 DEF NamesInv, TranslationsTypeOK
  <2>3. calls' \in [Calls -> SetCall \cup ReviewCall \cup {Idle}]
    BY <1>4 DEF NamesInv, TranslationsTypeOK
  <2>4. read # Unvetted
    BY <1>1, RowsAreRows
  <2> QED BY <1>6, <2>1, <2>2, <2>3, <2>4 DEF NamesInv, TranslationsTypeOK
<1>8. ASSUME NEW d \in Calls, calls'[d].step \in {"update", "mark"}
      PROVE  /\ row'[calls'[d].entry] # NoRow
             /\ calls'[d].step = "mark" =>
                  calls'[d].read.overtaken
                  \/ row'[calls'[d].entry].name = calls'[d].read.name
  <2>1. d # c
    BY <1>6, <1>8 DEF Idle
  <2>2. calls'[d] = calls[d]
    BY <1>6, <2>1
  <2>3. calls[d].entry \in Entries
    BY <1>8, <2>2, CallTypes DEF NamesInv, SetCall, ReviewCall
  <2>4. row'[calls[d].entry] # NoRow
        /\ row'[calls[d].entry].name = row[calls[d].entry].name
    BY <1>3, <1>6, <1>8, <2>2, <2>3 DEF NamesInv, RowsStay
  <2> QED BY <1>8, <2>2, <2>4 DEF NamesInv, ReadingStands
<1>9. RowsStay' /\ ReadingStands'
  BY <1>8 DEF RowsStay, ReadingStands
<1>10. ReviewStands'
  BY <1>3, <1>5, <1>6 DEF NamesInv, ReviewStands
<1> QED BY <1>7, <1>9, <1>10 DEF NamesInv

(***************************************************************************)
(* The invariant holds in every reachable state.                           *)
(***************************************************************************)
LEMMA NamesInvariant == TranslationsSpec => []NamesInv
<1>1. TranslationsInit => NamesInv
  BY DEF TranslationsInit, NamesInv, TranslationsTypeOK, RowsStay, ReadingStands,
         ReviewStands, Idle
<1>2. NamesInv /\ [TranslationsNext]_translationVars => NamesInv'
  <2>1. NamesInv /\ UNCHANGED translationVars => NamesInv'
    BY DEF NamesInv, TranslationsTypeOK, RowsStay, ReadingStands, ReviewStands,
           translationVars
  <2> QED BY <2>1, SetBegins, ReviewBegins, InsertKeepsNames, UpdateKeepsNames,
             MarkKeepsNames DEF TranslationsNext
<1> QED BY <1>1, <1>2, PTL DEF TranslationsSpec

(***************************************************************************)
(* The rows, the calls in flight and the reviews always have their type,   *)
(* and a reviewed row was marked by a review.                              *)
(***************************************************************************)
THEOREM NamesTypeCorrect == TranslationsSpec => []TranslationsTypeOK
<1>1. NamesInv => TranslationsTypeOK
  BY DEF NamesInv
<1> QED BY <1>1, NamesInvariant, PTL

(***************************************************************************)
(* Whatever sets and reviews race, a name shown that its reviewer did not  *)
(* see was written between that review's read and its mark                 *)
(* (ReviewGroupNameTranslation, SetGroupNameTranslation).                  *)
(***************************************************************************)
THEOREM UnseenNamesWereOvertaken == TranslationsSpec => []UnseenNameWasOvertaken
<1>1. NamesInv => UnseenNameWasOvertaken
  BY DEF NamesInv, ReviewStands, UnseenNameWasOvertaken, ShownName
<1> QED BY <1>1, NamesInvariant, PTL

-----------------------------------------------------------------------------
(***************************************************************************)
(* Delegations.  What a question in flight read of a record stands, but    *)
(* for the record's being revoked; the live ones of them were the live     *)
(* ones at the read, and time only ends more.                              *)
(***************************************************************************)
ReadingsHold ==
  \A c \in Asks : asks[c].step = "judge" =>
    /\ \A d \in Delegations : asks[c].held[d] # NoDelegation =>
         d \in Made /\ granted[d].ends = asks[c].held[d].ends
    /\ \A d \in asks[c].live :
         asks[c].held[d] # NoDelegation /\ asks[c].held[d].revokedBy = Nobody
    /\ \A d \in Delegations : asks[c].held[d] # NoDelegation /\ LiveAt(asks[c].held[d], now) =>
         d \in asks[c].live

LiveAreMade == \A c \in Asks : asks[c] # Unasked => asks[c].live \subseteq Made

DelegationsInv ==
  DelegationsTypeOK /\ RevokedByOne /\ AnswerWasTrue /\ ReadingsHold /\ LiveAreMade

\* A call that was made is one by its step.
LEMMA AskedCalls ==
  ASSUME DelegationsTypeOK
  PROVE  /\ \A c \in Asks : asks[c].step = "judge" =>
              /\ asks[c].held \in [Delegations -> Delegation \cup {NoDelegation}]
              /\ asks[c].live \in SUBSET Delegations
              /\ asks[c].delegate \in Actors /\ asks[c].subject \in Actors
         /\ \A c \in Asks : asks[c].step = "judge" => asks[c] # Unasked
         /\ \A c \in Asks : asks[c] # Unasked => asks[c].live \in SUBSET Delegations
         /\ \A c \in Revokes : revokes[c].step = "write" => revokes[c] # Unasked
         /\ \A c \in Revokes : revokes[c].step = "write" =>
              revokes[c].of \in Made /\ revokes[c] = [step |-> "write", of |-> revokes[c].of]
BY DEF DelegationsTypeOK, AskCall, RevokeCall, Unasked

\* A row that was made is a delegation, and the marks of absence are none.
LEMMA RowsOfDelegations ==
  ASSUME DelegationsTypeOK
  PROVE  /\ \A d \in Made : granted[d] \in Delegation
         /\ NoDelegation \notin Delegation /\ Nobody \notin Revokes /\ Never \notin Nat
BY DelegationsAssumption DEF DelegationsTypeOK, Made, Delegation, Times

\* CreateDelegation adds an unrevoked row to those no question has read.
LEMMA CreateKeepsDelegations ==
  ASSUME DelegationsInv, NEW d \in Delegations, NEW a \in Actors, NEW b \in Actors,
         NEW ends \in Times \cup {Never}, CreateDelegation(d, a, b, ends)
  PROVE  DelegationsInv'
<1> DEFINE new == [delegate |-> a, subject |-> b, ends |-> ends, revokedBy |-> Nobody]
<1>1. /\ d \notin Made /\ new \in Delegation /\ new # NoDelegation /\ new.revokedBy = Nobody
      /\ granted' = [granted EXCEPT ![d] = new]
      /\ granted \in [Delegations -> Delegation \cup {NoDelegation}]
      /\ revokes' = revokes /\ asks' = asks /\ now' = now
  BY RowsOfDelegations DEF CreateDelegation, Delegation, DelegationsInv, DelegationsTypeOK
<1> HIDE DEF new
<1>2. /\ granted' \in [Delegations -> Delegation \cup {NoDelegation}]
      /\ \A e \in Delegations : granted'[e] = IF e = d THEN new ELSE granted[e]
      /\ Made' = Made \cup {d}
  BY <1>1 DEF Made
<1>3. DelegationsTypeOK'
  BY <1>1, <1>2 DEF DelegationsInv, DelegationsTypeOK
<1>4. RevokedByOne'
  BY <1>1, <1>2, RowsOfDelegations DEF DelegationsInv, DelegationsTypeOK, RevokedByOne, Made
<1>5. AnswerWasTrue'
  BY <1>1, <1>2, AskedCalls DEF DelegationsInv, AnswerWasTrue, LiveAreMade, Made, Unasked
<1>6. ReadingsHold' /\ LiveAreMade'
  BY <1>1, <1>2 DEF DelegationsInv, ReadingsHold, LiveAreMade, Made, LiveAt, Unrevoked
<1> QED BY <1>3, <1>4, <1>5, <1>6 DEF DelegationsInv

\* RevokeDelegation begins on a row there is.
LEMMA RevokeKeepsDelegations ==
  ASSUME DelegationsInv, NEW c \in Revokes, NEW d \in Delegations, RevokeDelegation(c, d)
  PROVE  DelegationsInv'
<1>1. /\ d \in Made /\ granted' = granted /\ asks' = asks /\ now' = now /\ Made' = Made
      /\ revokes[c] = Unasked /\ revokes \in [Revokes -> RevokeCall \cup {Unasked}]
      /\ revokes' = [revokes EXCEPT ![c] =
            [step |-> IF Unrevoked(granted[d]) THEN "write" ELSE "refused", of |-> d]]
  BY DEF RevokeDelegation, DelegationsInv, DelegationsTypeOK, Made
<1>2. /\ revokes'[c] \in RevokeCall /\ revokes'[c].of = d
      /\ revokes'[c].step \in {"write", "refused"}
      /\ \A x \in Revokes : x # c => revokes'[x] = revokes[x]
  BY <1>1 DEF RevokeCall
<1>3. DelegationsTypeOK'
  BY <1>1, <1>2 DEF DelegationsInv, DelegationsTypeOK
<1>4. RevokedByOne'
  BY <1>1, <1>2 DEF DelegationsInv, RevokedByOne
<1>5. AnswerWasTrue' /\ ReadingsHold' /\ LiveAreMade'
  BY <1>1 DEF DelegationsInv, AnswerWasTrue, ReadingsHold, LiveAreMade, LiveAt, Unrevoked
<1> QED BY <1>3, <1>4, <1>5 DEF DelegationsInv

\* The conditional update stamps an unrevoked row, or none (WriteRevoked).
LEMMA WriteKeepsDelegations ==
  ASSUME DelegationsInv, NEW c \in Revokes, WriteRevoked(c)
  PROVE  DelegationsInv'
<1> DEFINE d == revokes[c].of
<1>1. /\ d \in Made /\ d \in Delegations /\ granted[d] \in Delegation
      /\ revokes[c] = [step |-> "write", of |-> d]
      /\ granted \in [Delegations -> Delegation \cup {NoDelegation}]
      /\ revokes \in [Revokes -> RevokeCall \cup {Unasked}]
      /\ asks' = asks /\ now' = now
  BY AskedCalls, RowsOfDelegations DEF WriteRevoked, DelegationsInv, DelegationsTypeOK, Made
<1>2. CASE Unrevoked(granted[d])
  <2>1. /\ granted' = [granted EXCEPT ![d] = [granted[d] EXCEPT !.revokedBy = c]]
        /\ revokes' = [revokes EXCEPT ![c] = [step |-> "revoked", of |-> d]]
    BY <1>1, <1>2 DEF WriteRevoked, StillUnrevoked
  <2>2. /\ granted'[d] \in Delegation /\ granted'[d].revokedBy = c
        /\ granted'[d].ends = granted[d].ends
        /\ \A e \in Delegations : e # d => granted'[e] = granted[e]
    BY <1>1, <2>1 DEF Delegation
  <2>3. Made' = Made
    BY <1>1, <2>2, RowsOfDelegations DEF Made, DelegationsInv
  <2>4. revokes'[c] = [step |-> "revoked", of |-> d] /\ \A x \in Revokes : x # c => revokes'[x] = revokes[x]
    BY <1>1, <2>1
  <2>5. DelegationsTypeOK'
    <3>1. granted' \in [Delegations -> Delegation \cup {NoDelegation}]
      BY <1>1, <2>1, <2>2
    <3>2. revokes' \in [Revokes -> RevokeCall \cup {Unasked}]
      BY <1>1, <2>1 DEF RevokeCall
    <3> QED BY <1>1, <2>3, <2>4, <3>1, <3>2 DEF DelegationsInv, DelegationsTypeOK
  <2>6. RevokedByOne'
    <3> SUFFICES ASSUME NEW x \in Revokes, NEW e \in Made
                 PROVE  granted'[e].revokedBy = x
                          <=> revokes'[x] # Unasked /\ revokes'[x] = [step |-> "revoked", of |-> e]
      BY <2>3 DEF RevokedByOne
    <3>1. e \in Delegations
      BY DEF Made
    <3>2. CASE e = d
      <4>1. granted[d].revokedBy # x
        BY <1>2, RowsOfDelegations DEF Unrevoked, DelegationsInv
      <4>2. x # c => ~(revokes[x] # Unasked /\ revokes[x] = [step |-> "revoked", of |-> e])
        BY <3>2, <4>1 DEF DelegationsInv, RevokedByOne
      <4> QED BY <2>2, <2>4, <3>2, <4>2 DEF Unasked
    <3>3. CASE e # d
      <4>1. ~(revokes[c] # Unasked /\ revokes[c] = [step |-> "revoked", of |-> e])
        BY <1>1
      <4>2. granted[e].revokedBy # c
        BY <4>1 DEF DelegationsInv, RevokedByOne
      <4> QED BY <2>2, <2>4, <3>1, <3>3, <4>2 DEF DelegationsInv, RevokedByOne
    <3> QED BY <3>2, <3>3
  <2>7. \A e \in Made : granted'[e].ends = granted[e].ends
    BY <2>2 DEF Made
  <2>8. AnswerWasTrue'
    BY <1>1, <2>7, AskedCalls DEF DelegationsInv, AnswerWasTrue, LiveAreMade, Unasked
  <2>9. ReadingsHold' /\ LiveAreMade'
    BY <1>1, <2>3, <2>7 DEF DelegationsInv, ReadingsHold, LiveAreMade, LiveAt, Unrevoked
  <2> QED BY <2>5, <2>6, <2>8, <2>9 DEF DelegationsInv
<1>3. CASE ~Unrevoked(granted[d])
  <2>1. granted' = granted /\ revokes' = [revokes EXCEPT ![c] = [step |-> "refused", of |-> d]] /\ Made' = Made
    BY <1>1, <1>3 DEF WriteRevoked, StillUnrevoked, Made
  <2>2. revokes'[c] = [step |-> "refused", of |-> d] /\ \A x \in Revokes : x # c => revokes'[x] = revokes[x]
    BY <1>1, <2>1
  <2>3. DelegationsTypeOK'
    <3>1. revokes' \in [Revokes -> RevokeCall \cup {Unasked}]
      BY <1>1, <2>1 DEF RevokeCall
    <3> QED BY <1>1, <2>1, <2>2, <3>1 DEF DelegationsInv, DelegationsTypeOK
  <2>4. RevokedByOne'
    BY <1>1, <2>1, <2>2 DEF DelegationsInv, RevokedByOne
  <2>5. AnswerWasTrue' /\ ReadingsHold' /\ LiveAreMade'
    BY <1>1, <2>1 DEF DelegationsInv, AnswerWasTrue, ReadingsHold, LiveAreMade, LiveAt, Unrevoked
  <2> QED BY <2>3, <2>4, <2>5 DEF DelegationsInv
<1> QED BY <1>2, <1>3

\* ActsFor holds the rows as they are when it reads them.
LEMMA AskKeepsDelegations ==
  ASSUME DelegationsInv, NEW c \in Asks, NEW a \in Actors, NEW b \in Actors, ActsFor(c, a, b)
  PROVE  DelegationsInv'
<1> DEFINE rows == [d \in Delegations |-> IF d \in HeldBy(a, b) THEN granted[d] ELSE NoDelegation]
           live == {d \in HeldBy(a, b) : Unrevoked(granted[d])
                                           /\ (granted[d].ends = Never \/ now < granted[d].ends)}
           call == [step |-> "judge", delegate |-> a, subject |-> b, held |-> rows, live |-> live]
<1>1. /\ granted' = granted /\ revokes' = revokes /\ now' = now /\ Made' = Made
      /\ asks' = [asks EXCEPT ![c] = call]
      /\ asks \in [Asks -> AskCall \cup {Unasked}]
      /\ granted \in [Delegations -> Delegation \cup {NoDelegation}]
  BY DEF ActsFor, DelegationsInv, DelegationsTypeOK, Made
<1>2. /\ rows \in [Delegations -> Delegation \cup {NoDelegation}]
      /\ live \in SUBSET Delegations /\ live \subseteq Made
      /\ \A d \in Delegations : rows[d] # NoDelegation =>
           d \in Made /\ d \in HeldBy(a, b) /\ rows[d] = granted[d]
      /\ \A d \in live : d \in Made /\ rows[d] = granted[d] /\ Unrevoked(granted[d])
      /\ \A d \in HeldBy(a, b) : LiveAt(granted[d], now) => d \in live
  BY <1>1, RowsOfDelegations DEF HeldBy, Made, LiveAt, DelegationsInv
<1> HIDE DEF rows, live
<1>3. /\ call.step = "judge" /\ call.held = rows /\ call.live = live /\ call \in AskCall
      /\ call # Unasked
  BY <1>2 DEF AskCall, Unasked
<1> HIDE DEF call
<1>4. asks'[c] = call /\ \A x \in Asks : x # c => asks'[x] = asks[x]
  BY <1>1
<1>5. DelegationsTypeOK' /\ RevokedByOne'
  BY <1>1, <1>3 DEF DelegationsInv, DelegationsTypeOK, RevokedByOne
<1>6. AnswerWasTrue' /\ LiveAreMade'
  BY <1>1, <1>2, <1>3, <1>4 DEF DelegationsInv, AnswerWasTrue, LiveAreMade
<1>7. ReadingsHold'
  <2>1. \A d \in live : rows[d] # NoDelegation /\ rows[d].revokedBy = Nobody
    BY <1>2 DEF Made, Unrevoked
  <2>2. \A d \in Delegations : rows[d] # NoDelegation => d \in Made /\ granted[d].ends = rows[d].ends
    BY <1>2
  <2>3. \A d \in Delegations : rows[d] # NoDelegation /\ LiveAt(rows[d], now) => d \in live
    BY <1>2
  <2> SUFFICES ASSUME NEW x \in Asks, asks'[x].step = "judge"
               PROVE  /\ \A d \in Delegations : asks'[x].held[d] # NoDelegation =>
                           d \in Made' /\ granted'[d].ends = asks'[x].held[d].ends
                      /\ \A d \in asks'[x].live :
                           asks'[x].held[d] # NoDelegation /\ asks'[x].held[d].revokedBy = Nobody
                      /\ \A d \in Delegations :
                           asks'[x].held[d] # NoDelegation /\ LiveAt(asks'[x].held[d], now') =>
                             d \in asks'[x].live
    BY DEF ReadingsHold, LiveAt, Unrevoked
  <2>4. CASE x = c
    BY <1>1, <1>3, <1>4, <2>1, <2>2, <2>3, <2>4
  <2>5. CASE x # c
    BY <1>1, <1>4, <2>5 DEF DelegationsInv, ReadingsHold
  <2> QED BY <2>4, <2>5
<1> QED BY <1>5, <1>6, <1>7 DEF DelegationsInv

\* The answer is judged over the rows read, by the clock of now.
LEMMA JudgeKeepsDelegations ==
  ASSUME DelegationsInv, NEW c \in Asks, Judge(c)
  PROVE  DelegationsInv'
<1> DEFINE call == asks[c]
           yes  == \E d \in Delegations : call.held[d] # NoDelegation /\ LiveAt(call.held[d], now)
           answer == [step |-> IF yes THEN "yes" ELSE "no", live |-> call.live,
                      delegate |-> call.delegate, subject |-> call.subject]
<1>1. /\ granted' = granted /\ revokes' = revokes /\ now' = now /\ Made' = Made
      /\ asks[c].step = "judge" /\ asks' = [asks EXCEPT ![c] = answer]
      /\ asks \in [Asks -> AskCall \cup {Unasked}]
  BY DEF Judge, DelegationsInv, DelegationsTypeOK, Made
<1>2. /\ call.held \in [Delegations -> Delegation \cup {NoDelegation}]
      /\ call.live \in SUBSET Delegations
      /\ call.delegate \in Actors /\ call.subject \in Actors
      /\ call.live \subseteq Made
  BY <1>1, AskedCalls DEF DelegationsInv, LiveAreMade
<1>3. /\ answer \in AskCall /\ answer.step \in {"yes", "no"} /\ answer.live = call.live
      /\ answer.step = "yes" <=> yes
  BY <1>2 DEF AskCall
<1>4. asks'[c] = answer /\ \A x \in Asks : x # c => asks'[x] = asks[x]
  BY <1>1
<1>5. yes => call.live # {}
  BY <1>1 DEF DelegationsInv, ReadingsHold
<1>6. ~yes => \A d \in call.live : granted[d].ends # Never /\ granted[d].ends <= now
  <2> SUFFICES ASSUME ~yes, NEW d \in call.live
               PROVE  granted[d].ends # Never /\ granted[d].ends <= now
    OBVIOUS
  <2>1. /\ d \in Delegations /\ call.held[d] # NoDelegation /\ Unrevoked(call.held[d])
        /\ granted[d].ends = call.held[d].ends
    BY <1>1, <1>2 DEF DelegationsInv, ReadingsHold, Unrevoked
  <2>2. ~LiveAt(call.held[d], now)
    BY <2>1
  <2>3. call.held[d].ends # Never /\ ~(now < call.held[d].ends)
    BY <2>1, <2>2 DEF LiveAt
  <2>4. call.held[d].ends \in Nat /\ now \in Nat
    BY <1>2, <2>1, <2>3, DelegationsAssumption DEF Delegation, Times, DelegationsInv, DelegationsTypeOK
  <2> QED BY <2>1, <2>3, <2>4
<1> HIDE DEF answer, yes
<1>7. DelegationsTypeOK' /\ RevokedByOne'
  BY <1>1, <1>3 DEF DelegationsInv, DelegationsTypeOK, RevokedByOne
<1>8. AnswerWasTrue' /\ LiveAreMade'
  BY <1>1, <1>2, <1>3, <1>4, <1>5, <1>6 DEF DelegationsInv, AnswerWasTrue, LiveAreMade
<1>9. ReadingsHold'
  BY <1>1, <1>3, <1>4 DEF DelegationsInv, ReadingsHold, LiveAt, Unrevoked
<1> QED BY <1>7, <1>8, <1>9 DEF DelegationsInv

\* Time passing ends delegations and changes no row.
LEMMA TickKeepsDelegations == ASSUME DelegationsInv, Tick PROVE DelegationsInv'
<1>1. /\ now' = now + 1 /\ now \in Nat /\ now' \in Times
      /\ granted' = granted /\ revokes' = revokes /\ asks' = asks /\ Made' = Made
  BY DelegationsAssumption DEF Tick, Times, DelegationsInv, DelegationsTypeOK, Made
<1>2. \A r \in Delegation : LiveAt(r, now') => LiveAt(r, now)
  BY <1>1, DelegationsAssumption DEF Delegation, LiveAt, Times
<1>3. DelegationsTypeOK' /\ RevokedByOne' /\ LiveAreMade'
  BY <1>1 DEF DelegationsInv, DelegationsTypeOK, RevokedByOne, LiveAreMade
<1>4. AnswerWasTrue'
  <2> SUFFICES ASSUME NEW c \in Asks, asks[c].step = "no", NEW d \in asks[c].live
               PROVE  granted[d].ends # Never /\ granted[d].ends <= now'
    BY <1>1 DEF DelegationsInv, AnswerWasTrue
  <2>1. granted[d].ends # Never /\ granted[d].ends <= now
    BY DEF DelegationsInv, AnswerWasTrue
  <2>2. d \in Made
    BY AskedCalls DEF DelegationsInv, LiveAreMade, Unasked
  <2>3. granted[d].ends \in Nat
    BY <2>1, <2>2, RowsOfDelegations, DelegationsAssumption DEF Delegation, Times, DelegationsInv
  <2> QED BY <1>1, <2>1, <2>3
<1>5. ReadingsHold'
  <2>1. \A c \in Asks, d \in Delegations :
          asks[c].step = "judge" /\ asks[c].held[d] # NoDelegation => asks[c].held[d] \in Delegation
    BY AskedCalls DEF DelegationsInv
  <2> QED BY <1>1, <1>2, <2>1 DEF DelegationsInv, ReadingsHold, LiveAt, Unrevoked
<1> QED BY <1>3, <1>4, <1>5 DEF DelegationsInv

\* The strengthened invariant holds from no delegations on.
LEMMA DelegationsInvariant == DelegationsSpec => []DelegationsInv
<1>1. ASSUME DelegationsInit PROVE DelegationsInv
  <2>1. Made = {} /\ (\A c \in Revokes : revokes[c] = Unasked) /\ (\A c \in Asks : asks[c] = Unasked)
    BY <1>1 DEF DelegationsInit, Made
  <2>2. DelegationsTypeOK
    BY <1>1, <2>1, DelegationsAssumption DEF DelegationsInit, DelegationsTypeOK, Times
  <2>3. Unasked.step = "unasked"
    BY DEF Unasked
  <2> QED BY <2>1, <2>2, <2>3 DEF DelegationsInv, RevokedByOne, AnswerWasTrue, ReadingsHold, LiveAreMade
<1>2. ASSUME DelegationsInv, [DelegationsNext]_delegationVars PROVE DelegationsInv'
  <2>1. ASSUME UNCHANGED delegationVars PROVE DelegationsInv'
    BY <1>2, <2>1 DEF delegationVars, DelegationsInv, DelegationsTypeOK, RevokedByOne, AnswerWasTrue,
                      ReadingsHold, LiveAreMade, Made, LiveAt, Unrevoked
  <2> QED BY <1>2, <2>1, CreateKeepsDelegations, RevokeKeepsDelegations, WriteKeepsDelegations,
             AskKeepsDelegations, JudgeKeepsDelegations, TickKeepsDelegations DEF DelegationsNext
<1> QED BY <1>1, <1>2, PTL DEF DelegationsSpec

(***************************************************************************)
(* However many revocations race, a record's revoker is the one that was   *)
(* told it revoked, and nobody else is told so (RevokeDelegation).         *)
(***************************************************************************)
THEOREM OneRevokes == DelegationsSpec => []RevokedByOne
<1>1. DelegationsInv => RevokedByOne
  BY DEF DelegationsInv
<1> QED BY <1>1, DelegationsInvariant, PTL

(***************************************************************************)
(* Whatever is granted, revoked and ended between ActsFor's reading of the *)
(* rows and of the clock, its yes rests on a delegation live at the rows'  *)
(* reading, and its no passes over only those that have ended by now.      *)
(***************************************************************************)
THEOREM AnswersWereTrue == DelegationsSpec => []AnswerWasTrue
<1>1. DelegationsInv => AnswerWasTrue
  BY DEF DelegationsInv
<1> QED BY <1>1, DelegationsInvariant, PTL

-----------------------------------------------------------------------------
(* Group types: renames that take their groups along, and removals. *)

(***************************************************************************)
(* The strengthening, of each call in flight.  The type has the name it    *)
(* was read with, or is gone, or was renamed; a removal that has counted   *)
(* finds only late groups under the name; and a rename that has looked for *)
(* its groups has found all but the late ones, and locked those it wrote.  *)
(***************************************************************************)
CallSound(call) ==
  /\ call \in RenameCall \cup DeleteCall \cup {NoCall}
  /\ call.step # "idle" /\ ~call.renamed =>
       types[call.of] = Nothing \/ types[call.of].name = call.from
  /\ call.step = "delete" =>
       \A g \in GroupsMade : groups[g].nodeType = call.from => g \in call.late
  /\ call.step \in {"rewriting", "commit"} =>
       /\ call.taken \subseteq GroupsMade
       /\ call.to # call.from =>
            \A g \in GroupsMade :
              groups[g].nodeType = call.from /\ groups[g].hierarchy = call.hierarchy
                => g \in call.taken \cup call.late
  /\ call.step = "commit" =>
       \A g \in call.taken :
         groups[g].nodeType = call.from /\ groups[g].hierarchy = call.hierarchy

TakenApart ==
  \A c, d \in TypeCalls :
    c # d /\ typeCalls[c].step = "commit" /\ typeCalls[d].step = "commit" =>
      typeCalls[c].taken \cap typeCalls[d].taken = {}

TypesInv ==
  /\ types \in [Types -> GroupType \cup {Nothing}]
  /\ groups \in [Groups -> Group \cup {Nothing}]
  /\ typeCalls = [c \in TypeCalls |-> typeCalls[c]]
  /\ \A c \in TypeCalls : CallSound(typeCalls[c])
  /\ TakenApart

\* A type or a group that is made is none of the marks of absence.
LEMMA MadeRows ==
  /\ Nothing \notin GroupType /\ Nothing \notin Group
BY GroupTypesAssumption DEF GroupType, Group

\* The kinds of call, by their steps.
LEMMA CallsBySteps ==
  ASSUME NEW call \in RenameCall \cup DeleteCall \cup {NoCall}
  PROVE  /\ call.step = "idle" <=> call = NoCall
         /\ call.step # "idle" =>
              call.of \in Types /\ call.renamed \in BOOLEAN /\ call.from \in NodeTypes
         /\ call.step \in {"type", "groups"} =>
              call \in [step: {"type", "groups"}, of: Types, hierarchy: Hierarchies,
                        from: NodeTypes, to: NodeTypes, renamed: BOOLEAN]
         /\ call.step \in {"rewriting", "commit"} =>
              call \in [step: {"rewriting", "commit"}, of: Types, hierarchy: Hierarchies,
                        from: NodeTypes, to: NodeTypes, renamed: BOOLEAN,
                        taken: SUBSET Groups, late: SUBSET Groups]
         /\ call.step = "count" =>
              call \in [step: {"count"}, of: Types, from: NodeTypes, renamed: BOOLEAN]
         /\ call.step = "delete" =>
              call \in [step: {"delete"}, of: Types, from: NodeTypes, renamed: BOOLEAN,
                        late: SUBSET Groups]
         /\ call.step \in {"idle", "type", "groups", "rewriting", "commit", "count", "delete"}
BY DEF RenameCall, DeleteCall, NoCall

\* A call once the groups G came to another name (Arrived).
LateAs(call, G) ==
  IF call.step \in {"rewriting", "commit", "delete"}
  THEN [call EXCEPT !.late = @ \cup G] ELSE call

(***************************************************************************)
(* What is noted of a call changes nothing else of it.                     *)
(***************************************************************************)
LEMMA LateCalls ==
  ASSUME NEW call \in RenameCall \cup DeleteCall, NEW G \in SUBSET Groups, NEW next,
         next = LateAs(call, G) \/ next = [LateAs(call, G) EXCEPT !.renamed = TRUE]
  PROVE  /\ next \in RenameCall \cup DeleteCall
         /\ next.step = call.step /\ next.of = call.of /\ next.from = call.from
         /\ \/ next.renamed
            \/ next = LateAs(call, G) /\ next.renamed = call.renamed
         /\ next = [LateAs(call, G) EXCEPT !.renamed = TRUE] => next.renamed
         /\ call.step \in {"rewriting", "commit"} =>
              /\ next.to = call.to /\ next.hierarchy = call.hierarchy
              /\ next.taken = call.taken
         /\ call.step \in {"rewriting", "commit", "delete"} => next.late = call.late \cup G
<1>1. CASE call.step \in {"rewriting", "commit"}
  <2> DEFINE Kind == [step: {"rewriting", "commit"}, of: Types, hierarchy: Hierarchies,
                      from: NodeTypes, to: NodeTypes, renamed: BOOLEAN,
                      taken: SUBSET Groups, late: SUBSET Groups]
  <2>1. call \in Kind
    BY <1>1, CallsBySteps
  <2>2. LateAs(call, G) = [call EXCEPT !.late = @ \cup G]
    BY <1>1 DEF LateAs
  <2>3. next \in Kind
    BY <2>1, <2>2
  <2>4. next \in RenameCall
    BY <2>3 DEF RenameCall
  <2>5. /\ next.step = call.step /\ next.of = call.of /\ next.from = call.from
        /\ next.to = call.to /\ next.hierarchy = call.hierarchy /\ next.taken = call.taken
        /\ next.late = call.late \cup G
        /\ next = LateAs(call, G) => next.renamed = call.renamed
        /\ next = [LateAs(call, G) EXCEPT !.renamed = TRUE] => next.renamed
    BY <2>1, <2>2
  <2> QED BY <1>1, <2>4, <2>5
<1>2. CASE call.step = "delete"
  <2>1. call \in [step: {"delete"}, of: Types, from: NodeTypes, renamed: BOOLEAN,
                  late: SUBSET Groups]
    BY <1>2, CallsBySteps
  <2>2. LateAs(call, G) = [call EXCEPT !.late = @ \cup G]
    BY <1>2 DEF LateAs
  <2>3. next \in [step: {"delete"}, of: Types, from: NodeTypes, renamed: BOOLEAN,
                  late: SUBSET Groups]
    BY <2>1, <2>2
  <2>4. next \in DeleteCall
    BY <2>3 DEF DeleteCall
  <2>5. /\ next.step = call.step /\ next.of = call.of /\ next.from = call.from
        /\ next.late = call.late \cup G
        /\ next = LateAs(call, G) => next.renamed = call.renamed
        /\ next = [LateAs(call, G) EXCEPT !.renamed = TRUE] => next.renamed
    BY <2>1, <2>2
  <2> QED BY <1>2, <2>4, <2>5
<1>3. CASE call.step \in {"type", "groups"}
  <2>1. call \in [step: {"type", "groups"}, of: Types, hierarchy: Hierarchies,
                  from: NodeTypes, to: NodeTypes, renamed: BOOLEAN]
    BY <1>3, CallsBySteps
  <2>2. LateAs(call, G) = call
    BY <1>3 DEF LateAs
  <2>3. next \in [step: {"type", "groups"}, of: Types, hierarchy: Hierarchies,
                  from: NodeTypes, to: NodeTypes, renamed: BOOLEAN]
    BY <2>1, <2>2
  <2>4. next \in RenameCall
    BY <2>3 DEF RenameCall
  <2>5. /\ next.step = call.step /\ next.of = call.of /\ next.from = call.from
        /\ next = LateAs(call, G) => next.renamed = call.renamed
        /\ next = [LateAs(call, G) EXCEPT !.renamed = TRUE] => next.renamed
    BY <2>1, <2>2
  <2> QED BY <1>3, <2>4, <2>5
<1>4. CASE call.step = "count"
  <2>1. call \in [step: {"count"}, of: Types, from: NodeTypes, renamed: BOOLEAN]
    BY <1>4, CallsBySteps
  <2>2. LateAs(call, G) = call
    BY <1>4 DEF LateAs
  <2>3. next \in [step: {"count"}, of: Types, from: NodeTypes, renamed: BOOLEAN]
    BY <2>1, <2>2
  <2>4. next \in DeleteCall
    BY <2>3 DEF DeleteCall
  <2>5. /\ next.step = call.step /\ next.of = call.of /\ next.from = call.from
        /\ next = LateAs(call, G) => next.renamed = call.renamed
        /\ next = [LateAs(call, G) EXCEPT !.renamed = TRUE] => next.renamed
    BY <2>1, <2>2
  <2> QED BY <1>4, <2>4, <2>5
<1> QED BY <1>1, <1>2, <1>3, <1>4 DEF RenameCall, DeleteCall

(***************************************************************************)
(* A call that begins, goes on or returns while no row is written.         *)
(***************************************************************************)
LEMMA OneTypeCallMoves ==
  ASSUME TypesInv, NEW c \in TypeCalls, NEW call, CallSound(call),
         typeCalls' = [typeCalls EXCEPT ![c] = call], UNCHANGED <<types, groups>>,
         call.step = "commit" => \A d \in TypeCalls \ {c} :
           typeCalls[d].step = "commit" => typeCalls[d].taken \cap call.taken = {}
  PROVE  TypesInv'
<1>1. typeCalls'[c] = call /\ \A d \in TypeCalls \ {c} : typeCalls'[d] = typeCalls[d]
  BY DEF TypesInv
<1>2. typeCalls' = [d \in TypeCalls |-> typeCalls'[d]]
  BY DEF TypesInv
<1>3. GroupsMade' = GroupsMade
  BY DEF GroupsMade
<1>4. ASSUME NEW d \in TypeCalls PROVE CallSound(typeCalls[d])'
  <2>1. CASE d = c
    BY <1>1, <1>3, <2>1 DEF CallSound
  <2>2. CASE d # c
    <3>1. typeCalls'[d] = typeCalls[d] /\ CallSound(typeCalls[d])
      BY <1>1, <2>2 DEF TypesInv
    <3> QED BY <1>3, <3>1 DEF CallSound
  <2> QED BY <2>1, <2>2
<1>5. TakenApart'
  <2> SUFFICES ASSUME NEW d \in TypeCalls, NEW e \in TypeCalls, d # e,
                      typeCalls'[d].step = "commit", typeCalls'[e].step = "commit"
               PROVE  typeCalls'[d].taken \cap typeCalls'[e].taken = {}
    BY DEF TakenApart
  <2>1. CASE d # c /\ e # c
    BY <1>1, <2>1 DEF TypesInv, TakenApart
  <2>2. CASE d = c
    BY <1>1, <2>2
  <2>3. CASE e = c
    BY <1>1, <2>3
  <2> QED BY <2>1, <2>2, <2>3
<1> QED BY <1>2, <1>4, <1>5 DEF TypesInv

(***************************************************************************)
(* Groups that come to another name, by themselves or with a rename, are   *)
(* noted as late; none is one that a rename yet to commit has written.     *)
(***************************************************************************)
LEMMA GroupsComeToNames ==
  ASSUME TypesInv, NEW G \in SUBSET Groups,
         types' \in [Types -> GroupType \cup {Nothing}],
         groups' \in [Groups -> Group \cup {Nothing}],
         GroupsMade' = GroupsMade \cup G,
         \A h \in Groups \ G : groups'[h] = groups[h],
         typeCalls' = [d \in TypeCalls |-> typeCalls'[d]],
         \A d \in TypeCalls :
           \/ typeCalls'[d] = NoCall
           \/ /\ typeCalls'[d] = Arrived(G)[d]
              /\ typeCalls[d] # NoCall => types'[typeCalls[d].of] = types[typeCalls[d].of]
              /\ typeCalls[d].step = "commit" => typeCalls[d].taken \cap G = {}
           \/ /\ typeCalls[d] # NoCall
              /\ typeCalls'[d] = [Arrived(G)[d] EXCEPT !.renamed = TRUE]
              /\ typeCalls[d].step = "commit" => typeCalls[d].taken \cap G = {}
  PROVE  TypesInv'
<1>s. \A d \in TypeCalls : CallSound(typeCalls[d])
  BY DEF TypesInv
<1>1. ASSUME NEW d \in TypeCalls, typeCalls'[d] # NoCall
      PROVE  /\ typeCalls[d] # NoCall
             /\ typeCalls'[d] \in RenameCall \cup DeleteCall
             /\ typeCalls'[d].step = typeCalls[d].step
             /\ typeCalls'[d].of = typeCalls[d].of
             /\ typeCalls'[d].from = typeCalls[d].from
             /\ \/ typeCalls'[d].renamed
                \/ /\ typeCalls'[d].renamed = typeCalls[d].renamed
                   /\ types'[typeCalls[d].of] = types[typeCalls[d].of]
             /\ typeCalls[d].step \in {"rewriting", "commit"} =>
                  /\ typeCalls'[d].to = typeCalls[d].to
                  /\ typeCalls'[d].hierarchy = typeCalls[d].hierarchy
                  /\ typeCalls'[d].taken = typeCalls[d].taken
             /\ typeCalls[d].step \in {"rewriting", "commit", "delete"} =>
                  typeCalls'[d].late = typeCalls[d].late \cup G
             /\ typeCalls[d].step = "commit" => typeCalls[d].taken \cap G = {}
  <2> DEFINE call == typeCalls[d]
  <2>t. call \in RenameCall \cup DeleteCall \cup {NoCall}
    BY <1>s DEF CallSound
  <2>a. Arrived(G)[d] = LateAs(call, G)
    BY DEF Arrived, LateAs
  <2>n. call # NoCall
    <3>1. LateAs(NoCall, G) = NoCall
      BY DEF LateAs, NoCall
    <3> QED BY <1>1, <2>a, <3>1
  <2>1. \/ typeCalls'[d] = LateAs(call, G) /\ types'[call.of] = types[call.of]
        \/ typeCalls'[d] = [LateAs(call, G) EXCEPT !.renamed = TRUE]
    BY <1>1, <2>a, <2>n
  <2>2. call.step = "commit" => call.taken \cap G = {}
    BY <1>1
  <2>3. call \in RenameCall \cup DeleteCall
    BY <2>t, <2>n
  <2> HIDE DEF call
  <2> QED BY <2>1, <2>2, <2>3, <2>n, LateCalls DEF call
<1>3. ASSUME NEW d \in TypeCalls PROVE CallSound(typeCalls[d])'
  <2>1. CASE typeCalls'[d] = NoCall
    BY <2>1 DEF CallSound, NoCall
  <2>2. CASE typeCalls'[d] # NoCall
    <3> DEFINE call == typeCalls[d]
               next == typeCalls'[d]
    <3>0. /\ CallSound(call) /\ call.step # "idle"
          /\ call \in RenameCall \cup DeleteCall \cup {NoCall}
      <4>1. CallSound(call) /\ call \in RenameCall \cup DeleteCall \cup {NoCall}
        BY <1>s DEF CallSound
      <4> QED BY <1>1, <2>2, <4>1, CallsBySteps
    <3>1. next.step # "idle" /\ ~next.renamed =>
            types'[next.of] = Nothing \/ types'[next.of].name = next.from
      BY <1>1, <2>2, <3>0 DEF CallSound
    <3>g. \A g \in GroupsMade' \ G : g \in GroupsMade /\ groups'[g] = groups[g]
      BY DEF GroupsMade
    <3>2. next.step = "delete" =>
            \A g \in GroupsMade' : groups'[g].nodeType = next.from => g \in next.late
      BY <1>1, <2>2, <3>0, <3>g DEF CallSound
    <3>3. ASSUME next.step \in {"rewriting", "commit"}
          PROVE  /\ next.taken \subseteq GroupsMade'
                 /\ next.to # next.from =>
                      \A g \in GroupsMade' :
                        groups'[g].nodeType = next.from /\ groups'[g].hierarchy = next.hierarchy
                          => g \in next.taken \cup next.late
      <4>1. /\ next.taken = call.taken /\ next.late = call.late \cup G /\ next.to = call.to
            /\ next.from = call.from /\ next.hierarchy = call.hierarchy
            /\ call.step \in {"rewriting", "commit"}
        BY <1>1, <2>2, <3>3
      <4> QED BY <3>0, <3>g, <4>1 DEF CallSound
    <3>4. ASSUME next.step = "commit", NEW g \in next.taken
          PROVE  groups'[g].nodeType = next.from /\ groups'[g].hierarchy = next.hierarchy
      <4>1. /\ next.taken = call.taken /\ next.from = call.from
            /\ next.hierarchy = call.hierarchy /\ call.step = "commit"
            /\ call.taken \cap G = {}
        BY <1>1, <2>2, <3>4
      <4>2. groups'[g] = groups[g]
        BY <3>0, <3>4, <4>1 DEF CallSound, GroupsMade
      <4> QED BY <3>0, <3>4, <4>1, <4>2 DEF CallSound
    <3>5. next \in RenameCall \cup DeleteCall
      BY <1>1, <2>2
    <3> QED BY <3>1, <3>2, <3>3, <3>4, <3>5 DEF CallSound
  <2> QED BY <2>1, <2>2
<1>4. TakenApart'
  <2> SUFFICES ASSUME NEW d \in TypeCalls, NEW e \in TypeCalls, d # e,
                      typeCalls'[d].step = "commit", typeCalls'[e].step = "commit"
               PROVE  typeCalls'[d].taken \cap typeCalls'[e].taken = {}
    BY DEF TakenApart
  <2>1. typeCalls'[d] # NoCall /\ typeCalls'[e] # NoCall
    BY DEF NoCall
  <2> QED BY <1>1, <2>1 DEF TypesInv, TakenApart
<1> QED BY <1>3, <1>4 DEF TypesInv

(***************************************************************************)
(* Types and groups are created, and groups come to another name.          *)
(***************************************************************************)
LEMMA CreatesKeepTypes ==
  ASSUME TypesInv,
         \/ \E t \in Types, h \in Hierarchies, n \in NodeTypes : CreateGroupType(t, h, n)
         \/ \E g \in Groups, h \in Hierarchies, n \in NodeTypes : CreateGroup(g, h, n)
         \/ \E g \in Groups, n \in NodeTypes : EditGroup(g, n)
  PROVE  TypesInv'
<1>t. /\ types \in [Types -> GroupType \cup {Nothing}]
      /\ groups \in [Groups -> Group \cup {Nothing}]
      /\ \A c \in TypeCalls : typeCalls[c] \in RenameCall \cup DeleteCall \cup {NoCall}
  BY DEF TypesInv, CallSound
<1>1. ASSUME NEW t \in Types, NEW h \in Hierarchies, NEW n \in NodeTypes, CreateGroupType(t, h, n)
      PROVE  TypesInv'
  <2>1. UNCHANGED <<groups, typeCalls>> /\ GroupsMade' = GroupsMade
    BY <1>1 DEF CreateGroupType, GroupsMade
  <2>2. types' = [types EXCEPT ![t] = [hierarchy |-> h, name |-> n]]
    BY <1>1 DEF CreateGroupType
  <2>3. [hierarchy |-> h, name |-> n] \in GroupType
    BY DEF GroupType
  <2>4. types' \in [Types -> GroupType \cup {Nothing}]
    BY <1>t, <2>2, <2>3
  <2>5. ASSUME NEW d \in TypeCalls PROVE CallSound(typeCalls[d])'
    <3>1. CASE typeCalls[d] = NoCall
      BY <2>1, <3>1 DEF CallSound, NoCall
    <3>2. CASE typeCalls[d] # NoCall
      <4>1. typeCalls[d].of \in Types /\ typeCalls[d].of # t
        BY <1>1, <1>t, <3>2, CallsBySteps DEF CreateGroupType
      <4>2. types'[typeCalls[d].of] = types[typeCalls[d].of]
        BY <1>t, <2>2, <4>1
      <4>3. CallSound(typeCalls[d])
        BY DEF TypesInv
      <4> QED BY <2>1, <4>2, <4>3 DEF CallSound
    <3> QED BY <3>1, <3>2
  <2> QED BY <2>1, <2>4, <2>5 DEF TypesInv, TakenApart
<1>2. ASSUME NEW g \in Groups, NEW h \in Hierarchies, NEW n \in NodeTypes, CreateGroup(g, h, n)
      PROVE  TypesInv'
  <2>1. /\ groups' = [groups EXCEPT ![g] = [hierarchy |-> h, nodeType |-> n]]
        /\ typeCalls' = Arrived({g}) /\ types' = types /\ g \notin GroupsMade
    BY <1>2 DEF CreateGroup
  <2>2. [hierarchy |-> h, nodeType |-> n] \in Group
    BY DEF Group
  <2>3. /\ groups' \in [Groups -> Group \cup {Nothing}]
        /\ GroupsMade' = GroupsMade \cup {g}
        /\ \A k \in Groups \ {g} : groups'[k] = groups[k]
    BY <1>t, <2>1, <2>2, MadeRows DEF GroupsMade
  <2>4. typeCalls' = [d \in TypeCalls |-> typeCalls'[d]]
    BY <2>1 DEF Arrived
  <2>5. \A d \in TypeCalls : typeCalls[d].step = "commit" => typeCalls[d].taken \cap {g} = {}
    BY <2>1 DEF TypesInv, CallSound
  <2>6. {g} \in SUBSET Groups
    OBVIOUS
  <2> QED BY <1>t, <2>1, <2>3, <2>4, <2>5, <2>6, GroupsComeToNames
<1>3. ASSUME NEW g \in Groups, NEW n \in NodeTypes, EditGroup(g, n) PROVE TypesInv'
  <2>1. /\ groups' = [groups EXCEPT ![g] = [groups[g] EXCEPT !.nodeType = n]]
        /\ typeCalls' = Arrived({g}) /\ types' = types
        /\ g \in GroupsMade /\ g \notin GroupsLocked(TypeCalls)
    BY <1>3 DEF EditGroup
  <2>2. groups[g] \in Group
    BY <1>t, <2>1 DEF GroupsMade
  <2>3. [groups[g] EXCEPT !.nodeType = n] \in Group
    BY <2>2 DEF Group
  <2>4. /\ groups' \in [Groups -> Group \cup {Nothing}]
        /\ GroupsMade' = GroupsMade \cup {g}
        /\ \A k \in Groups \ {g} : groups'[k] = groups[k]
    BY <1>t, <2>1, <2>3, MadeRows DEF GroupsMade
  <2>5. typeCalls' = [d \in TypeCalls |-> typeCalls'[d]]
    BY <2>1 DEF Arrived
  <2>6. \A d \in TypeCalls : typeCalls[d].step = "commit" => typeCalls[d].taken \cap {g} = {}
    BY <2>1 DEF GroupsLocked
  <2>7. {g} \in SUBSET Groups
    OBVIOUS
  <2> QED BY <1>t, <2>1, <2>4, <2>5, <2>6, <2>7, GroupsComeToNames
<1> QED BY <1>1, <1>2, <1>3

(***************************************************************************)
(* The steps of a rename before it commits.                                *)
(***************************************************************************)
LEMMA RenamesKeepTypes ==
  ASSUME TypesInv, NEW c \in TypeCalls,
         \/ \E t \in Types, n \in NodeTypes : EditGroupType(c, t, n)
         \/ WriteType(c) \/ FindGroups(c) \/ RewriteGroups(c) \/ RenameFails(c)
  PROVE  TypesInv'
<1> DEFINE call == typeCalls[c]
<1>s. CallSound(call) /\ call \in RenameCall \cup DeleteCall \cup {NoCall}
  BY DEF TypesInv, CallSound
<1>1. ASSUME NEW t \in Types, NEW n \in NodeTypes, EditGroupType(c, t, n) PROVE TypesInv'
  <2> DEFINE new == [step |-> "type", of |-> t, hierarchy |-> types[t].hierarchy,
                     from |-> types[t].name, to |-> n, renamed |-> FALSE]
  <2>1. types[t] \in GroupType
    BY <1>1 DEF EditGroupType, TypesInv, TypesMade
  <2>2. new \in RenameCall
    BY <2>1 DEF RenameCall, GroupType
  <2>3. CallSound(new) /\ new.step # "commit"
    BY <2>2 DEF CallSound
  <2>4. typeCalls' = [typeCalls EXCEPT ![c] = new] /\ UNCHANGED <<types, groups>>
    BY <1>1 DEF EditGroupType
  <2> HIDE DEF new
  <2> QED BY <2>3, <2>4, OneTypeCallMoves
<1>2. CASE WriteType(c)
  <2> DEFINE new == [call EXCEPT !.step = "groups"]
  <2>1. call.step = "type"
    BY <1>2 DEF WriteType
  <2>2. call \in [step: {"type", "groups"}, of: Types, hierarchy: Hierarchies,
                  from: NodeTypes, to: NodeTypes, renamed: BOOLEAN]
    BY <1>s, <2>1, CallsBySteps
  <2>3. /\ new \in [step: {"type", "groups"}, of: Types, hierarchy: Hierarchies,
                    from: NodeTypes, to: NodeTypes, renamed: BOOLEAN]
        /\ new.step = "groups" /\ new.of = call.of /\ new.from = call.from
        /\ new.renamed = call.renamed
    BY <2>2
  <2>4. new \in RenameCall
    BY <2>3 DEF RenameCall
  <2>5. CallSound(new) /\ new.step # "commit"
    BY <1>s, <2>1, <2>3, <2>4 DEF CallSound
  <2>6. typeCalls' = [typeCalls EXCEPT ![c] = new] /\ UNCHANGED <<types, groups>>
    BY <1>2 DEF WriteType, TypesInv
  <2> HIDE DEF new
  <2> QED BY <2>5, <2>6, OneTypeCallMoves
<1>3. CASE FindGroups(c)
  <2> DEFINE new == [step |-> "rewriting", of |-> call.of, hierarchy |-> call.hierarchy,
                     from |-> call.from, to |-> call.to, renamed |-> call.renamed, late |-> {},
                     taken |-> IF call.to = call.from THEN {} ELSE Wearing(c)]
  <2>1. call.step = "groups"
    BY <1>3 DEF FindGroups
  <2>2. call \in [step: {"type", "groups"}, of: Types, hierarchy: Hierarchies,
                  from: NodeTypes, to: NodeTypes, renamed: BOOLEAN]
    BY <1>s, <2>1, CallsBySteps
  <2>3. new.taken \subseteq GroupsMade /\ new.taken \in SUBSET Groups
    BY DEF Wearing, GroupsMade
  <2>4. new \in [step: {"rewriting", "commit"}, of: Types, hierarchy: Hierarchies,
                 from: NodeTypes, to: NodeTypes, renamed: BOOLEAN,
                 taken: SUBSET Groups, late: SUBSET Groups]
    BY <2>2, <2>3
  <2>5. new \in RenameCall
    BY <2>4 DEF RenameCall
  <2>6. new.to # new.from =>
          \A g \in GroupsMade :
            groups[g].nodeType = new.from /\ groups[g].hierarchy = new.hierarchy
              => g \in new.taken \cup new.late
    BY DEF Wearing
  <2>7. CallSound(new) /\ new.step # "commit"
    BY <1>s, <2>1, <2>3, <2>5, <2>6 DEF CallSound
  <2>8. typeCalls' = [typeCalls EXCEPT ![c] = new] /\ UNCHANGED <<types, groups>>
    BY <1>3 DEF FindGroups
  <2> HIDE DEF new
  <2> QED BY <2>7, <2>8, OneTypeCallMoves
<1>4. CASE RewriteGroups(c)
  <2> DEFINE new == [call EXCEPT !.step = "commit", !.taken = call.taken \cap Wearing(c)]
  <2>1. call.step = "rewriting"
    BY <1>4 DEF RewriteGroups
  <2>2. call \in [step: {"rewriting", "commit"}, of: Types, hierarchy: Hierarchies,
                  from: NodeTypes, to: NodeTypes, renamed: BOOLEAN,
                  taken: SUBSET Groups, late: SUBSET Groups]
    BY <1>s, <2>1, CallsBySteps
  <2>3. /\ new \in [step: {"rewriting", "commit"}, of: Types, hierarchy: Hierarchies,
                    from: NodeTypes, to: NodeTypes, renamed: BOOLEAN,
                    taken: SUBSET Groups, late: SUBSET Groups]
        /\ new.step = "commit" /\ new.of = call.of /\ new.from = call.from /\ new.to = call.to
        /\ new.hierarchy = call.hierarchy /\ new.late = call.late
        /\ new.renamed = call.renamed /\ new.taken = call.taken \cap Wearing(c)
    BY <2>2
  <2>4. new \in RenameCall
    BY <2>3 DEF RenameCall
  <2>5. new.taken \subseteq GroupsMade
    BY <2>3 DEF Wearing
  <2>6. new.to # new.from =>
          \A g \in GroupsMade :
            groups[g].nodeType = new.from /\ groups[g].hierarchy = new.hierarchy
              => g \in new.taken \cup new.late
    BY <1>s, <2>1, <2>3 DEF CallSound, Wearing
  <2>7. \A g \in new.taken :
          groups[g].nodeType = new.from /\ groups[g].hierarchy = new.hierarchy
    BY <2>3 DEF Wearing
  <2>8. CallSound(new)
    BY <1>s, <2>1, <2>3, <2>4, <2>5, <2>6, <2>7 DEF CallSound
  <2>9. typeCalls' = [typeCalls EXCEPT ![c] = new] /\ UNCHANGED <<types, groups>>
    <3>1. /\ typeCalls' = [typeCalls EXCEPT ![c].step = "commit",
                                            ![c].taken = @ \cap Wearing(c)]
          /\ UNCHANGED <<types, groups>>
      BY <1>4 DEF RewriteGroups
    <3>2. typeCalls'[c] = new /\ \A d \in TypeCalls \ {c} : typeCalls'[d] = typeCalls[d]
      BY <2>2, <3>1 DEF TypesInv
    <3> HIDE DEF new
    <3>3. typeCalls' = [d \in TypeCalls |-> typeCalls'[d]]
      BY <3>1 DEF TypesInv
    <3> QED BY <3>1, <3>2, <3>3
  <2>10. \A d \in TypeCalls \ {c} :
           typeCalls[d].step = "commit" => typeCalls[d].taken \cap new.taken = {}
    BY <1>4, <2>3 DEF RewriteGroups, GroupsLocked
  <2> HIDE DEF new
  <2> QED BY <2>8, <2>9, <2>10, OneTypeCallMoves
<1>5. CASE RenameFails(c)
  <2>1. typeCalls' = [typeCalls EXCEPT ![c] = NoCall] /\ UNCHANGED <<types, groups>>
    BY <1>5 DEF RenameFails, CallReturns
  <2>2. CallSound(NoCall) /\ NoCall.step # "commit"
    BY DEF CallSound, NoCall
  <2> QED BY <2>1, <2>2, OneTypeCallMoves
<1> QED BY <1>1, <1>2, <1>3, <1>4, <1>5

(***************************************************************************)
(* A rename that commits brings the groups it wrote to another name.       *)
(***************************************************************************)
LEMMA CommitsKeepTypes ==
  ASSUME TypesInv, NEW c \in TypeCalls, CommitRename(c)
  PROVE  TypesInv'
<1> DEFINE call == typeCalls[c]
           G == call.taken
<1>s. CallSound(call) /\ call \in RenameCall \cup DeleteCall \cup {NoCall} /\ call.step = "commit"
  BY DEF TypesInv, CallSound, CommitRename
<1>1. call \in [step: {"rewriting", "commit"}, of: Types, hierarchy: Hierarchies,
                from: NodeTypes, to: NodeTypes, renamed: BOOLEAN,
                taken: SUBSET Groups, late: SUBSET Groups]
  BY <1>s, CallsBySteps
<1>2. G \in SUBSET Groups /\ G \subseteq GroupsMade /\ call.to \in NodeTypes
  BY <1>s, <1>1 DEF CallSound
<1>3. types' \in [Types -> GroupType \cup {Nothing}]
  <2>1. types' = [t \in Types |->
          IF t = call.of /\ t \in TypesMade THEN [types[t] EXCEPT !.name = call.to] ELSE types[t]]
    BY DEF CommitRename
  <2>2. ASSUME NEW t \in TypesMade PROVE [types[t] EXCEPT !.name = call.to] \in GroupType
    <3>1. types[t] \in GroupType
      BY DEF TypesMade, TypesInv
    <3> QED BY <1>2, <3>1 DEF GroupType
  <2>3. \A t \in Types : types[t] \in GroupType \cup {Nothing}
    BY DEF TypesInv
  <2> HIDE DEF call
  <2> QED BY <2>1, <2>2, <2>3
<1>4. /\ groups' = [g \in Groups |->
             IF g \in G THEN [groups[g] EXCEPT !.nodeType = call.to] ELSE groups[g]]
      /\ \A g \in G : [groups[g] EXCEPT !.nodeType = call.to] \in Group
  <2>1. ASSUME NEW g \in G PROVE [groups[g] EXCEPT !.nodeType = call.to] \in Group
    <3>1. groups[g] \in Group
      BY <1>2 DEF GroupsMade, TypesInv
    <3> QED BY <1>2, <3>1 DEF Group
  <2> QED BY <2>1 DEF CommitRename
<1>5. /\ groups' \in [Groups -> Group \cup {Nothing}]
      /\ GroupsMade' = GroupsMade \cup G
      /\ \A h \in Groups \ G : groups'[h] = groups[h]
  <2>1. \A g \in Groups : groups[g] \in Group \cup {Nothing}
    BY DEF TypesInv
  <2> HIDE DEF call
  <2> QED BY <1>2, <1>4, <2>1, MadeRows DEF GroupsMade
<1>6. typeCalls' = [d \in TypeCalls |-> typeCalls'[d]] /\ typeCalls'[c] = NoCall
  BY DEF CommitRename
<1>7. ASSUME NEW d \in TypeCalls, d # c
      PROVE  \/ typeCalls'[d] = NoCall
             \/ /\ typeCalls'[d] = Arrived(G)[d]
                /\ typeCalls[d] # NoCall => types'[typeCalls[d].of] = types[typeCalls[d].of]
                /\ typeCalls[d].step = "commit" => typeCalls[d].taken \cap G = {}
             \/ /\ typeCalls[d] # NoCall
                /\ typeCalls'[d] = [Arrived(G)[d] EXCEPT !.renamed = TRUE]
                /\ typeCalls[d].step = "commit" => typeCalls[d].taken \cap G = {}
  <2>1. typeCalls[d].step = "commit" => typeCalls[d].taken \cap G = {}
    BY <1>7, <1>s DEF TypesInv, TakenApart
  <2>2. CASE typeCalls[d] # NoCall /\ typeCalls[d].of = call.of
    BY <1>7, <2>1, <2>2 DEF CommitRename
  <2>3. CASE ~(typeCalls[d] # NoCall /\ typeCalls[d].of = call.of)
    <3>1. typeCalls'[d] = Arrived(G)[d]
      BY <1>7, <2>3 DEF CommitRename
    <3>2. typeCalls[d] # NoCall => typeCalls[d].of \in Types
      BY CallsBySteps DEF TypesInv, CallSound
    <3>3. typeCalls[d] # NoCall => types'[typeCalls[d].of] = types[typeCalls[d].of]
      BY <2>3, <3>2 DEF CommitRename
    <3> QED BY <2>1, <3>1, <3>3
  <2> QED BY <2>2, <2>3
<1> HIDE DEF call
<1> QED BY <1>2, <1>3, <1>5, <1>6, <1>7, GroupsComeToNames

(***************************************************************************)
(* The steps of a removal.                                                 *)
(***************************************************************************)
LEMMA RemovalsKeepTypes ==
  ASSUME TypesInv, NEW c \in TypeCalls,
         \/ \E t \in Types : DeleteGroupType(c, t)
         \/ CountGroups(c) \/ DeleteRow(c)
  PROVE  TypesInv'
<1> DEFINE call == typeCalls[c]
<1>s. CallSound(call) /\ call \in RenameCall \cup DeleteCall \cup {NoCall}
  BY DEF TypesInv, CallSound
<1>n. CallSound(NoCall) /\ NoCall.step # "commit"
  BY DEF CallSound, NoCall
<1>1. ASSUME NEW t \in Types, DeleteGroupType(c, t) PROVE TypesInv'
  <2> DEFINE new == [step |-> "count", of |-> t, from |-> types[t].name, renamed |-> FALSE]
  <2>1. types[t] \in GroupType
    BY <1>1 DEF DeleteGroupType, TypesInv, TypesMade
  <2>2. new \in DeleteCall
    BY <2>1 DEF DeleteCall, GroupType
  <2>3. CallSound(new) /\ new.step # "commit"
    BY <2>2 DEF CallSound
  <2>4. typeCalls' = [typeCalls EXCEPT ![c] = new] /\ UNCHANGED <<types, groups>>
    BY <1>1 DEF DeleteGroupType
  <2> HIDE DEF new
  <2> QED BY <2>3, <2>4, OneTypeCallMoves
<1>2. CASE CountGroups(c)
  <2> DEFINE new == [step |-> "delete", of |-> call.of, from |-> call.from,
                     renamed |-> call.renamed, late |-> {}]
  <2>1. CASE WornBy(call.of, call.from) = {}
    <3>1. call.step = "count"
      BY <1>2 DEF CountGroups
    <3>2. call \in [step: {"count"}, of: Types, from: NodeTypes, renamed: BOOLEAN]
      BY <1>s, <3>1, CallsBySteps
    <3>3. new \in DeleteCall
      BY <3>2 DEF DeleteCall
    <3>4. \A g \in GroupsMade : groups[g].nodeType # new.from
      BY <2>1 DEF WornBy
    <3>5. CallSound(new) /\ new.step # "commit"
      BY <1>s, <3>1, <3>3, <3>4 DEF CallSound
    <3>6. typeCalls' = [typeCalls EXCEPT ![c] = new] /\ UNCHANGED <<types, groups>>
      BY <1>2, <2>1 DEF CountGroups
    <3> HIDE DEF new
    <3> QED BY <3>5, <3>6, OneTypeCallMoves
  <2>2. CASE WornBy(call.of, call.from) # {}
    <3>1. typeCalls' = [typeCalls EXCEPT ![c] = NoCall] /\ UNCHANGED <<types, groups>>
      BY <1>2, <2>2 DEF CountGroups, CallReturns
    <3> QED BY <1>n, <3>1, OneTypeCallMoves
  <2> QED BY <2>1, <2>2
<1>3. CASE DeleteRow(c)
  <2>1. /\ types' = [types EXCEPT ![call.of] = Nothing]
        /\ typeCalls' = [typeCalls EXCEPT ![c] = NoCall] /\ groups' = groups
    BY <1>3 DEF DeleteRow, CallReturns
  <2>2. types' \in [Types -> GroupType \cup {Nothing}] /\ GroupsMade' = GroupsMade
    BY <2>1 DEF TypesInv, GroupsMade
  <2>3. /\ typeCalls' = [d \in TypeCalls |-> typeCalls'[d]]
        /\ \A d \in TypeCalls : typeCalls'[d] = IF d = c THEN NoCall ELSE typeCalls[d]
    BY <2>1 DEF TypesInv
  <2>4. ASSUME NEW d \in TypeCalls PROVE CallSound(typeCalls[d])'
    <3>1. CASE d = c
      BY <2>3, <3>1 DEF CallSound, NoCall
    <3>2. CASE d # c
      <4>1. typeCalls'[d] = typeCalls[d] /\ CallSound(typeCalls[d])
        BY <2>3, <3>2 DEF TypesInv
      <4>2. typeCalls[d].step # "idle" => typeCalls[d].of \in Types
        BY <4>1, CallsBySteps DEF CallSound
      <4>3. typeCalls[d].step # "idle" =>
              types'[typeCalls[d].of] \in {types[typeCalls[d].of], Nothing}
        BY <2>1, <4>2 DEF TypesInv
      <4> QED BY <2>1, <2>2, <4>1, <4>3 DEF CallSound
    <3> QED BY <3>1, <3>2
  <2>5. TakenApart'
    BY <2>3 DEF TypesInv, TakenApart, NoCall
  <2> QED BY <2>1, <2>2, <2>3, <2>4, <2>5 DEF TypesInv
<1> QED BY <1>1, <1>2, <1>3

(***************************************************************************)
(* The strengthening holds of every state.                                 *)
(***************************************************************************)
LEMMA TypesInvariant == GroupTypesSpec => []TypesInv
<1>1. GroupTypesInit => TypesInv
  BY DEF GroupTypesInit, TypesInv, TakenApart, CallSound, NoCall
<1>2. TypesInv /\ [GroupTypesNext]_groupTypeVars => TypesInv'
  <2> SUFFICES ASSUME TypesInv, [GroupTypesNext]_groupTypeVars PROVE TypesInv'
    OBVIOUS
  <2>1. CASE UNCHANGED groupTypeVars
    BY <2>1 DEF groupTypeVars, TypesInv, TakenApart, CallSound, GroupsMade
  <2>2. CASE GroupTypesNext
    BY <2>2, CreatesKeepTypes, RenamesKeepTypes, CommitsKeepTypes, RemovalsKeepTypes
    DEF GroupTypesNext
  <2> QED BY <2>1, <2>2
<1> QED BY <1>1, <1>2, PTL DEF GroupTypesSpec

(***************************************************************************)
(* Rows and calls stay rows and calls (GroupTypesTypeOK).                  *)
(***************************************************************************)
THEOREM GroupTypesTypeCorrect == GroupTypesSpec => []GroupTypesTypeOK
<1>1. TypesInv => GroupTypesTypeOK
  BY DEF TypesInv, CallSound, GroupTypesTypeOK
<1> QED BY <1>1, TypesInvariant, PTL

(***************************************************************************)
(* A rename takes along the groups that wear the name, and no other        *)
(* (RenameCarriesItsGroups): what it found and what came late are all.     *)
(***************************************************************************)
THEOREM RenamesCarryTheirGroups == GroupTypesSpec => RenameCarriesItsGroups
<1> DEFINE Carried(c) ==
      typeCalls[c].step = "commit" /\ CommitRename(c) /\ ~typeCalls[c].renamed =>
       \A g \in GroupsMade :
         LET t == typeCalls[c].of
             wears == /\ groups[g].hierarchy = typeCalls[c].hierarchy
                      /\ t \in TypesMade => groups[g].nodeType = types[t].name
         IN /\ wears /\ t \in TypesMade => groups'[g].nodeType = typeCalls[c].to \/ g \in typeCalls[c].late
            /\ groups'[g] # groups[g] => wears
<1>1. ASSUME TypesInv, NEW c \in TypeCalls PROVE Carried(c)
  <2> DEFINE call == typeCalls[c]
             t == call.of
  <2> SUFFICES ASSUME call.step = "commit", CommitRename(c), ~call.renamed, NEW g \in GroupsMade
               PROVE  LET wears == /\ groups[g].hierarchy = call.hierarchy
                                   /\ t \in TypesMade => groups[g].nodeType = types[t].name
                      IN /\ wears /\ t \in TypesMade =>
                              groups'[g].nodeType = call.to \/ g \in call.late
                         /\ groups'[g] # groups[g] => wears
    OBVIOUS
  <2>1. CallSound(call)
    BY <1>1 DEF TypesInv
  <2>2. t \in TypesMade => types[t].name = call.from
    BY <2>1 DEF CallSound, TypesMade
  <2>3. g \in Groups /\ groups[g] \in Group
    BY <1>1 DEF GroupsMade, TypesInv
  <2>4. /\ g \in call.taken => groups'[g] = [groups[g] EXCEPT !.nodeType = call.to]
        /\ g \notin call.taken => groups'[g] = groups[g]
    BY <2>3 DEF CommitRename
  <2>5. g \in call.taken => groups'[g].nodeType = call.to
    BY <2>3, <2>4 DEF Group
  <2>6. /\ g \in call.taken =>
             groups[g].nodeType = call.from /\ groups[g].hierarchy = call.hierarchy
        /\ call.to # call.from /\ groups[g].nodeType = call.from
             /\ groups[g].hierarchy = call.hierarchy => g \in call.taken \cup call.late
    BY <2>1 DEF CallSound
  <2> HIDE DEF call
  <2> QED BY <2>2, <2>4, <2>5, <2>6
<1>2. TypesInv => \A c \in TypeCalls : Carried(c)
  BY <1>1
<1>3. (\A c \in TypeCalls : Carried(c)) => [\A c \in TypeCalls : Carried(c)]_groupTypeVars
  OBVIOUS
<1> QED BY <1>2, <1>3, TypesInvariant, PTL DEF RenameCarriesItsGroups

(***************************************************************************)
(* A type that goes was worn by none but late groups, or had come to the   *)
(* name late itself (DeletedTypeWasUnworn).                                *)
(***************************************************************************)
THEOREM DeletedTypesWereUnworn == GroupTypesSpec => DeletedTypeWasUnworn
<1> DEFINE Unworn ==
      \A t \in TypesMade : types'[t] = Nothing =>
       \E c \in TypeCalls :
         /\ typeCalls[c].step = "delete" /\ typeCalls[c].of = t
         /\ \/ typeCalls[c].renamed
            \/ {g \in GroupsMade : groups[g].nodeType = types[t].name} \subseteq typeCalls[c].late
<1>1. ASSUME TypesInv, [GroupTypesNext]_groupTypeVars PROVE Unworn
  <2> SUFFICES ASSUME NEW t \in TypesMade, types'[t] = Nothing
               PROVE  \E c \in TypeCalls :
                 /\ typeCalls[c].step = "delete" /\ typeCalls[c].of = t
                 /\ \/ typeCalls[c].renamed
                    \/ {g \in GroupsMade : groups[g].nodeType = types[t].name}
                         \subseteq typeCalls[c].late
    OBVIOUS
  <2>t. t \in Types /\ types[t] # Nothing /\ types[t] \in GroupType
    BY <1>1 DEF TypesMade, TypesInv
  <2>1. types' # types
    BY <2>t
  <2>2. CASE \E u \in Types, h \in Hierarchies, n \in NodeTypes : CreateGroupType(u, h, n)
    <3>1. PICK u \in Types, h \in Hierarchies, n \in NodeTypes : CreateGroupType(u, h, n)
      BY <2>2
    <3> QED BY <1>1, <2>t, <3>1 DEF CreateGroupType, TypesInv, TypesMade
  <2>3. CASE \E c \in TypeCalls : CommitRename(c)
    <3>1. PICK c \in TypeCalls : CommitRename(c)
      BY <2>3
    <3>2. types'[t] = types[t] \/ types'[t] = [types[t] EXCEPT !.name = typeCalls[c].to]
      BY <2>t, <3>1 DEF CommitRename
    <3>3. typeCalls[c].to \in NodeTypes
      <4>1. /\ typeCalls[c] \in RenameCall \cup DeleteCall \cup {NoCall}
            /\ typeCalls[c].step = "commit"
        BY <1>1, <3>1 DEF TypesInv, CallSound, CommitRename
      <4> QED BY <4>1, CallsBySteps
    <3>4. [types[t] EXCEPT !.name = typeCalls[c].to] \in GroupType
      BY <2>t, <3>3 DEF GroupType
    <3> QED BY <2>t, <3>2, <3>4, MadeRows
  <2>4. CASE \E c \in TypeCalls : DeleteRow(c)
    <3>1. PICK c \in TypeCalls : DeleteRow(c)
      BY <2>4
    <3>2. typeCalls[c].step = "delete" /\ typeCalls[c].of = t /\ CallSound(typeCalls[c])
      BY <1>1, <2>t, <3>1 DEF DeleteRow, TypesInv
    <3>3. typeCalls[c].renamed \/ types[t].name = typeCalls[c].from
      BY <2>t, <3>2 DEF CallSound
    <3> QED BY <3>2, <3>3 DEF CallSound
  <2> QED
    BY <1>1, <2>1, <2>2, <2>3, <2>4
    DEF GroupTypesNext, groupTypeVars, CreateGroup, EditGroup, EditGroupType, WriteType,
        FindGroups, RewriteGroups, RenameFails, DeleteGroupType, CountGroups
<1>2. TypesInv /\ [GroupTypesNext]_groupTypeVars => [Unworn]_groupTypeVars
  BY <1>1
<1> QED BY <1>2, TypesInvariant, PTL DEF DeletedTypeWasUnworn, GroupTypesSpec
=============================================================================
