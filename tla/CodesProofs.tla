----------------------------- MODULE CodesProofs -----------------------------
(***************************************************************************)
(* Proofs about the sequential codes, for any number of creates and        *)
(* starting services, any bounds, and any rows registered beforehand.      *)
(*                                                                         *)
(* The argument is the lock.  From its claim to the end of its transaction *)
(* a create holds the counter row, so no other create claims, looks or     *)
(* inserts meanwhile; a raise of the counter waits for it too.             *)
(*                                                                         *)
(* And about the levels of a hierarchy, which are created, anchored and    *)
(* deleted beside each other with an index, counts and row locks.          *)
(***************************************************************************)
EXTENDS Codes, Levels, FiniteSetTheorems, TLAPS

(***************************************************************************)
(* A create that moves on, is tried again or looks further is a create; a  *)
(* call in flight is one by its step.                                      *)
(***************************************************************************)
LEMMA CreateCallType ==
  ASSUME CodesTypeOK, NEW c \in Creates, creates[c] # AtRest
  PROVE  /\ creates[c] \in CreateCall
         /\ \A n \in Nat : [creates[c] EXCEPT !.step = "claim", !.n = n] \in CreateCall
         /\ [creates[c] EXCEPT !.step = "look"] \in CreateCall
         /\ [creates[c] EXCEPT !.step = "insert"] \in CreateCall
         /\ creates[c].attempt + 1 # Attempts =>
              [creates[c] EXCEPT !.step = "read", !.attempt = @ + 1] \in CreateCall
         /\ creates[c].skipped + 1 < Skips =>
              [creates[c] EXCEPT !.step = "read", !.attempt = 0, !.skipped = @ + 1,
                 !.since = moves] \in CreateCall
<1>1. creates[c] \in CreateCall
  BY DEF CodesTypeOK
<1>2. Attempts \in Nat \ {0} /\ Skips \in Nat \ {0} /\ moves \in Nat
  BY CodesAssumption DEF CodesTypeOK
<1>3. /\ \A n \in Nat : [creates[c] EXCEPT !.step = "claim", !.n = n] \in CreateCall
      /\ [creates[c] EXCEPT !.step = "look"] \in CreateCall
      /\ [creates[c] EXCEPT !.step = "insert"] \in CreateCall
  BY <1>1 DEF CreateCall
<1>4. ASSUME creates[c].attempt + 1 # Attempts
      PROVE  [creates[c] EXCEPT !.step = "read", !.attempt = @ + 1] \in CreateCall
  <2>1. creates[c].attempt + 1 \in 0..Attempts - 1
    BY <1>1, <1>2, <1>4 DEF CreateCall
  <2> QED BY <1>1, <2>1 DEF CreateCall
<1>5. ASSUME creates[c].skipped + 1 < Skips
      PROVE  [creates[c] EXCEPT !.step = "read", !.attempt = 0, !.skipped = @ + 1,
                !.since = moves] \in CreateCall
  <2>1. creates[c].skipped + 1 \in 0..Skips - 1 /\ 0 \in 0..Attempts - 1
    BY <1>1, <1>2, <1>5 DEF CreateCall
  <2> QED BY <1>1, <1>2, <2>1 DEF CreateCall
<1> QED BY <1>1, <1>3, <1>4, <1>5

(***************************************************************************)
(* A create that rolls back leaves the slots and the lock typed.           *)
(***************************************************************************)
LEMMA RollBackType ==
  ASSUME CodesTypeOK, NEW c \in Creates, RollBack(c)
  PROVE  /\ creates' \in [Creates -> CreateCall \cup {AtRest}]
         /\ holder' \in Creates \cup {Free}
BY DEF CodesTypeOK, RollBack

(***************************************************************************)
(* So does a lost claim, which is tried again or gives up.                 *)
(***************************************************************************)
LEMMA ClaimLostType ==
  ASSUME CodesTypeOK, NEW c \in Creates, creates[c] # AtRest, ClaimLost(c)
  PROVE  /\ creates' \in [Creates -> CreateCall \cup {AtRest}]
         /\ holder' \in Creates \cup {Free}
<1>1. CASE creates[c].attempt + 1 = Attempts
  BY <1>1, RollBackType DEF ClaimLost
<1>2. CASE creates[c].attempt + 1 # Attempts
  BY <1>2, CreateCallType DEF ClaimLost, CodesTypeOK
<1> QED BY <1>1, <1>2

(***************************************************************************)
(* Every statement of a create keeps the types.                            *)
(***************************************************************************)
LEMMA CreatesKeepType ==
  ASSUME CodesTypeOK, NEW c \in Creates,
         \/ SeedCounter(c) \/ ReadCounter(c) \/ ClaimNumber(c)
         \/ LookForCode(c) \/ InsertRow(c) \/ CreateFails(c)
  PROVE  CodesTypeOK'
<1>1. CASE SeedCounter(c)
  <2>1. [step |-> "read", n |-> 0, attempt |-> 0, skipped |-> 0, since |-> moves]
          \in CreateCall
    BY CodesAssumption DEF CreateCall, CodesTypeOK
  <2> QED BY <1>1, <2>1 DEF SeedCounter, CodesTypeOK
<1>2. CASE ReadCounter(c)
  <2>1. Shown(c) \in Nat
    BY DEF Shown, CodesTypeOK
  <2>2. creates[c] # AtRest
    BY <1>2 DEF ReadCounter, AtRest
  <2> QED BY <1>2, <2>1, <2>2, CreateCallType DEF ReadCounter, CodesTypeOK
<1>3. CASE ClaimNumber(c)
  <2>1. creates[c] # AtRest
    BY <1>3 DEF ClaimNumber, AtRest
  <2>2. creates[c].n \in Nat
    BY <2>1, CreateCallType DEF CreateCall
  <2>3. CASE Shown(c) = creates[c].n
    <3>1. NextNumber(creates[c].n) \in Nat
      BY <2>2 DEF NextNumber
    <3>2. [creates[c] EXCEPT !.step = "look"] \in CreateCall
      BY <2>1, CreateCallType
    <3> QED BY <1>3, <2>3, <3>1, <3>2 DEF ClaimNumber, CodesTypeOK
  <2>4. CASE Shown(c) # creates[c].n
    BY <1>3, <2>1, <2>4, ClaimLostType DEF ClaimNumber, CodesTypeOK
  <2> QED BY <2>3, <2>4
<1>4. CASE LookForCode(c)
  <2>1. creates[c] # AtRest
    BY <1>4 DEF LookForCode, AtRest
  <2> QED BY <1>4, <2>1, CreateCallType, RollBackType DEF LookForCode, CodesTypeOK
<1>5. CASE InsertRow(c)
  <2>1. creates[c] # AtRest
    BY <1>5 DEF InsertRow, AtRest
  <2>2. creates[c].n \in Nat
    BY <2>1, CreateCallType DEF CreateCall
  <2>3. codes \subseteq Nat /\ written \in Nat /\ moves \in Nat
    BY DEF CodesTypeOK
  <2>4. codes' \subseteq Nat
    BY <1>5, <2>2, <2>3 DEF InsertRow
  <2>5. counter' \in Nat /\ moves' \in Nat
    BY <1>5, <2>3 DEF InsertRow
  <2> QED BY <1>5, <2>4, <2>5, RollBackType DEF InsertRow, CodesTypeOK
<1>6. CASE CreateFails(c)
  BY <1>6, RollBackType DEF CreateFails, CodesTypeOK
<1> QED BY <1>1, <1>2, <1>3, <1>4, <1>5, <1>6

(***************************************************************************)
(* So does every statement of a starting service.                          *)
(***************************************************************************)
LEMMA RaisesKeepType ==
  ASSUME CodesTypeOK, NEW r \in Raises,
         ReadHighest(r) \/ ReadHeld(r) \/ WriteRaised(r)
  PROVE  CodesTypeOK'
<1>1. CASE ReadHighest(r)
  <2>1. \A top \in codes : [step |-> "held", next |-> top + 1] \in RaiseCall
    BY DEF CodesTypeOK, RaiseCall
  <2> QED BY <1>1, <2>1 DEF ReadHighest, CodesTypeOK
<1>2. CASE ReadHeld(r)
  <2>1. raises[r] \in RaiseCall
    BY <1>2 DEF ReadHeld, CodesTypeOK, AtRest
  <2>2. /\ [raises[r] EXCEPT !.step = "create"] \in RaiseCall
        /\ [raises[r] EXCEPT !.step = "update"] \in RaiseCall
    BY <2>1 DEF RaiseCall
  <2> QED BY <1>2, <2>2 DEF ReadHeld, RaiseReturns, CodesTypeOK
<1>3. CASE WriteRaised(r)
  <2>1. raises[r] \in RaiseCall
    BY <1>3 DEF WriteRaised, CodesTypeOK, AtRest
  <2>2. raises[r].next \in Nat
    BY <2>1 DEF RaiseCall
  <2> QED BY <1>3, <2>2 DEF WriteRaised, RaiseReturns, CodesTypeOK
<1> QED BY <1>1, <1>2, <1>3

(***************************************************************************)
(* The counter, the codes and every call in flight always have their type; *)
(* in particular no claim is tried beyond the attempts and no code passed  *)
(* beyond the skips (nextCodeFrom, nextCode).                              *)
(***************************************************************************)
THEOREM CodesTypeCorrect == CodesSpec => []CodesTypeOK
<1>1. CodesInit => CodesTypeOK
  BY CodesAssumption DEF CodesInit, CodesTypeOK
<1>2. CodesTypeOK /\ [CodesNext]_codeVars => CodesTypeOK'
  <2>1. CodesTypeOK /\ UNCHANGED codeVars => CodesTypeOK'
    BY DEF CodesTypeOK, codeVars
  <2> QED BY <2>1, CreatesKeepType, RaisesKeepType DEF CodesNext
<1> QED BY <1>1, <1>2, PTL DEF CodesSpec

-----------------------------------------------------------------------------
(***************************************************************************)
(* The lock: a create that has claimed its code holds the counter row, and *)
(* the number it wrote there is the next one.                              *)
(***************************************************************************)
ClaimIsLocked ==
  \A c \in Creates :
    creates[c].step \in {"look", "insert"} =>
      holder = c /\ written = creates[c].n + 1

(***************************************************************************)
(* A statement of one create leaves the slots of the others alone.         *)
(***************************************************************************)
LEMMA OthersStand ==
  ASSUME CodesTypeOK, NEW c \in Creates, NEW d \in Creates, d # c,
         \/ SeedCounter(c) \/ ReadCounter(c) \/ ClaimNumber(c)
         \/ LookForCode(c) \/ InsertRow(c) \/ CreateFails(c)
  PROVE  creates'[d] = creates[d]
BY DEF CodesTypeOK, SeedCounter, ReadCounter, ClaimNumber, ClaimLost, LookForCode,
       InsertRow, CreateFails, RollBack

(***************************************************************************)
(* The lock keeps every other create's statement from the counter row.     *)
(***************************************************************************)
LEMMA LockKeepsOthersOut ==
  ASSUME CodesTypeOK, ClaimIsLocked, NEW c \in Creates, NEW d \in Creates, d # c,
         creates[d].step \in {"look", "insert"},
         \/ SeedCounter(c) \/ ReadCounter(c) \/ ClaimNumber(c)
         \/ LookForCode(c) \/ InsertRow(c) \/ CreateFails(c)
  PROVE  UNCHANGED <<holder, written, codes>>
<1>1. holder = d /\ holder # c /\ holder # Free
  BY CodesAssumption DEF ClaimIsLocked
<1>2. CASE SeedCounter(c)
  BY <1>1, <1>2 DEF SeedCounter
<1>3. CASE ReadCounter(c)
  BY <1>3 DEF ReadCounter
<1>4. CASE ClaimNumber(c)
  BY <1>1, <1>4 DEF ClaimNumber
<1>5. CASE LookForCode(c)
  BY <1>1, <1>5 DEF LookForCode, RollBack
<1>6. CASE InsertRow(c)
  BY <1>1, <1>6 DEF InsertRow, ClaimIsLocked
<1>7. CASE CreateFails(c)
  BY <1>1, <1>7 DEF CreateFails, RollBack
<1> QED BY <1>2, <1>3, <1>4, <1>5, <1>6, <1>7

(***************************************************************************)
(* A create comes to hold a claimed code only by its claim, and keeps the  *)
(* lock while it looks for rows with the code.                             *)
(***************************************************************************)
LEMMA OwnClaimLocks ==
  ASSUME CodesTypeOK, ClaimIsLocked, NEW c \in Creates,
         \/ SeedCounter(c) \/ ReadCounter(c) \/ ClaimNumber(c)
         \/ LookForCode(c) \/ InsertRow(c) \/ CreateFails(c),
         creates'[c].step \in {"look", "insert"}
  PROVE  /\ holder' = c /\ written' = creates'[c].n + 1
         /\ creates'[c].step = "insert" =>
              UNCHANGED codes /\ creates'[c].n \notin codes
<1>1. c \in DOMAIN creates
  BY DEF CodesTypeOK
<1>2. CASE SeedCounter(c)
  BY <1>1, <1>2 DEF SeedCounter
<1>3. CASE ReadCounter(c)
  <2>1. creates[c] # AtRest
    BY <1>3 DEF ReadCounter, AtRest
  <2>2. creates[c] \in CreateCall
    BY <2>1, CreateCallType
  <2>3. creates'[c] = [creates[c] EXCEPT !.step = "claim", !.n = Shown(c)]
    BY <1>1, <1>3 DEF ReadCounter
  <2> QED BY <2>2, <2>3 DEF CreateCall
<1>4. CASE ClaimNumber(c)
  <2>0. creates[c] # AtRest
    BY <1>4 DEF ClaimNumber, AtRest
  <2>1. creates[c] \in CreateCall
    BY <2>0, CreateCallType
  <2>2. CASE Shown(c) = creates[c].n
    BY <1>1, <1>4, <2>1, <2>2 DEF ClaimNumber, NextNumber, CreateCall
  <2>3. CASE Shown(c) # creates[c].n
    BY <1>1, <1>4, <2>1, <2>3 DEF ClaimNumber, ClaimLost, RollBack, AtRest, CreateCall
  <2> QED BY <2>2, <2>3
<1>5. CASE LookForCode(c)
  <2>0. creates[c] # AtRest
    BY <1>5 DEF LookForCode, AtRest
  <2>1. creates[c] \in CreateCall
    BY <2>0, CreateCallType
  <2>2. creates' = [creates EXCEPT ![c].step = "insert"]
        /\ ~CodeTaken(creates[c].n) /\ UNCHANGED holder
    BY <1>1, <1>5, <2>1 DEF LookForCode, RollBack, AtRest, CreateCall
  <2>3. holder = c /\ written = creates[c].n + 1
    BY <1>5 DEF LookForCode, ClaimIsLocked
  <2> QED BY <1>1, <1>5, <2>1, <2>2, <2>3 DEF LookForCode, CodeTaken, CreateCall
<1>6. CASE InsertRow(c)
  BY <1>1, <1>6 DEF InsertRow, RollBack, AtRest
<1>7. CASE CreateFails(c)
  BY <1>1, <1>7 DEF CreateFails, RollBack, AtRest
<1> QED BY <1>2, <1>3, <1>4, <1>5, <1>6, <1>7

(***************************************************************************)
(* Every step keeps the lock, and the code looked for free.                *)
(***************************************************************************)
LEMMA StepKeepsLock ==
  ASSUME CodesTypeOK, ClaimIsLocked, CodeIsFree, [CodesNext]_codeVars
  PROVE  ClaimIsLocked' /\ CodeIsFree'
<1>1. CASE UNCHANGED <<codes, holder, written, creates>>
  BY <1>1 DEF ClaimIsLocked, CodeIsFree
<1>2. ASSUME NEW c \in Creates,
             \/ SeedCounter(c) \/ ReadCounter(c) \/ ClaimNumber(c)
             \/ LookForCode(c) \/ InsertRow(c) \/ CreateFails(c)
      PROVE  ClaimIsLocked' /\ CodeIsFree'
  <2>1. ASSUME NEW d \in Creates, creates'[d].step \in {"look", "insert"}
        PROVE  /\ holder' = d /\ written' = creates'[d].n + 1
               /\ creates'[d].step = "insert" => creates'[d].n \notin codes'
    <3>1. CASE d = c
      BY <1>2, <2>1, <3>1, OwnClaimLocks
    <3>2. CASE d # c
      <4>1. creates'[d] = creates[d]
        BY <1>2, <3>2, OthersStand
      <4>2. UNCHANGED <<holder, written, codes>>
        BY <1>2, <2>1, <3>2, <4>1, LockKeepsOthersOut
      <4> QED BY <2>1, <4>1, <4>2 DEF ClaimIsLocked, CodeIsFree
    <3> QED BY <3>1, <3>2
  <2> QED BY <2>1 DEF ClaimIsLocked, CodeIsFree
<1>3. ASSUME NEW r \in Raises, ReadHighest(r) \/ ReadHeld(r) \/ WriteRaised(r)
      PROVE  UNCHANGED <<codes, holder, written, creates>>
  BY <1>3 DEF ReadHighest, ReadHeld, WriteRaised
<1> QED BY <1>1, <1>2, <1>3 DEF CodesNext, codeVars

(***************************************************************************)
(* The lock holds in every reachable state.                                *)
(***************************************************************************)
LEMMA LockHolds == CodesSpec => [](ClaimIsLocked /\ CodeIsFree)
<1>1. CodesInit => ClaimIsLocked /\ CodeIsFree
  BY DEF CodesInit, ClaimIsLocked, CodeIsFree, AtRest
<1> QED BY <1>1, StepKeepsLock, CodesTypeCorrect, PTL DEF CodesSpec

(***************************************************************************)
(* A create that comes to insert its row holds a code no row holds, though *)
(* starting services rewind the counter and rows were registered behind    *)
(* its back (nextCode, codeTaken, raiseSequence).                          *)
(***************************************************************************)
THEOREM InsertedCodeIsFree == CodesSpec => []CodeIsFree
BY LockHolds, PTL

(***************************************************************************)
(* No two creates are on their way to insert one code: claiming is         *)
(* exclusive until the claim commits or rolls back (nextCodeFrom).         *)
(***************************************************************************)
THEOREM ClaimsExcludeEachOther == CodesSpec => []ClaimsAreApart
<1>1. CodesTypeOK /\ ClaimIsLocked => ClaimsAreApart
  <2> SUFFICES ASSUME CodesTypeOK, ClaimIsLocked, NEW c \in Creates,
                      creates[c].step \in {"look", "insert"}
               PROVE  /\ written > creates[c].n
                      /\ \A d \in Creates \ {c} : creates[d].step \notin {"look", "insert"}
    BY DEF ClaimsAreApart
  <2>1. holder = c /\ written = creates[c].n + 1
    BY DEF ClaimIsLocked
  <2>2. creates[c].n \in Nat
    <3>1. creates[c] # AtRest
      BY DEF AtRest
    <3> QED BY <3>1, CreateCallType DEF CreateCall
  <2>3. \A d \in Creates \ {c} : creates[d].step \notin {"look", "insert"}
    BY <2>1 DEF ClaimIsLocked
  <2>4. written > creates[c].n
    BY <2>1, <2>2
  <2> QED BY <2>3, <2>4
<1> QED BY <1>1, LockHolds, CodesTypeCorrect, PTL

-----------------------------------------------------------------------------
(***************************************************************************)
(* Whether the next statement of a create, or of a start, is answered: the *)
(* guards of ReadCounter, ClaimNumber, LookForCode and InsertRow, and of   *)
(* ReadHeld and WriteRaised.                                               *)
(***************************************************************************)
CreateGoesOn(c) ==
  \/ creates[c].step \in {"read", "look"}
  \/ creates[c].step = "claim" /\ holder \in {c, Free}
  \/ creates[c].step = "insert" /\ creates[c].n \notin codes

RaiseGoesOn(r) ==
  \/ raises[r].step = "held"
  \/ raises[r].step \in {"create", "update"} /\ holder = Free

\* The lock is never left behind: who holds the row is still in flight.
HolderInFlight == holder # Free => creates[holder] # AtRest

(***************************************************************************)
(* Whoever waits waits for the create whose transaction holds the row, and *)
(* that one goes on.                                                       *)
(***************************************************************************)
WaitsForOneThatGoesOn ==
  /\ holder # Free => CreateGoesOn(holder)
  /\ \A c \in Creates : creates[c] # AtRest => CreateGoesOn(c) \/ holder \notin {c, Free}
  /\ \A r \in Raises : raises[r] # AtRest => RaiseGoesOn(r) \/ holder # Free

(***************************************************************************)
(* Every step leaves the lock with a create in flight: the statement that  *)
(* ends a create releases what it held.                                    *)
(***************************************************************************)
LEMMA StepKeepsHolderInFlight ==
  ASSUME CodesTypeOK, HolderInFlight, [CodesNext]_codeVars
  PROVE  HolderInFlight'
<1>1. CASE UNCHANGED <<holder, creates>>
  BY <1>1 DEF HolderInFlight
<1>2. ASSUME NEW c \in Creates,
             \/ SeedCounter(c) \/ ReadCounter(c) \/ ClaimNumber(c)
             \/ LookForCode(c) \/ InsertRow(c) \/ CreateFails(c)
      PROVE  HolderInFlight'
  <2>1. holder' \in {holder, c, Free}
    BY <1>2 DEF SeedCounter, ReadCounter, ClaimNumber, ClaimLost, LookForCode, InsertRow,
      CreateFails, RollBack
  <2>2. CASE holder' # c
    <3>1. holder' = Free \/ (holder' = holder /\ holder \in Creates \ {c})
      BY <2>1, <2>2 DEF CodesTypeOK
    <3> QED BY <1>2, <3>1, OthersStand DEF HolderInFlight
  <2>3. CASE holder' = c
    <3>1. c # Free /\ c \in DOMAIN creates
      BY CodesAssumption DEF CodesTypeOK
    <3>2. ~RollBack(c)
      BY <2>3, <3>1 DEF RollBack
    <3>3. CASE SeedCounter(c)
      BY <2>3, <3>1, <3>3 DEF SeedCounter, HolderInFlight, AtRest
    <3>4. CASE ReadCounter(c) \/ ClaimNumber(c) \/ LookForCode(c)
      <4>1. creates[c] # AtRest
        BY <3>4 DEF ReadCounter, ClaimNumber, LookForCode, AtRest
      <4>2. creates[c] \in CreateCall
        BY <4>1, CreateCallType
      <4>3. creates'[c].step \in {"read", "claim", "look", "insert"}
        BY <3>1, <3>2, <3>4, <4>2
        DEF ReadCounter, ClaimNumber, ClaimLost, LookForCode, CreateCall
      <4> QED BY <2>3, <4>3 DEF HolderInFlight, AtRest
    <3>5. CASE InsertRow(c) \/ CreateFails(c)
      BY <3>2, <3>5 DEF InsertRow, CreateFails
    <3> QED BY <1>2, <3>3, <3>4, <3>5
  <2> QED BY <2>2, <2>3
<1>3. ASSUME NEW r \in Raises, ReadHighest(r) \/ ReadHeld(r) \/ WriteRaised(r)
      PROVE  UNCHANGED <<holder, creates>>
  BY <1>3 DEF ReadHighest, ReadHeld, WriteRaised
<1> QED BY <1>1, <1>2, <1>3 DEF CodesNext, codeVars

(***************************************************************************)
(* However many creates and starts share a counter row, they never come to *)
(* wait for each other: the one whose transaction holds the row waits for  *)
(* nobody, whether it seeded the row or claimed from it, looks for rows    *)
(* with its code or inserts (seedSequence, nextCodeFrom, raiseSequence).   *)
(***************************************************************************)
THEOREM CounterNeverDeadlocks == CodesSpec => []WaitsForOneThatGoesOn
<1>1. CodesInit => HolderInFlight
  BY DEF CodesInit, HolderInFlight
<1>2. CodesTypeOK /\ HolderInFlight /\ CodeIsFree => WaitsForOneThatGoesOn
  <2> SUFFICES ASSUME CodesTypeOK, HolderInFlight, CodeIsFree
               PROVE  WaitsForOneThatGoesOn
    OBVIOUS
  <2>1. ASSUME NEW c \in Creates, creates[c] # AtRest
        PROVE  CreateGoesOn(c) \/ holder \notin {c, Free}
    <3>1. creates[c].step \in {"read", "claim", "look", "insert"}
      BY <2>1, CreateCallType DEF CreateCall
    <3> QED BY <2>1, <3>1 DEF CreateGoesOn, CodeIsFree
  <2>2. holder # Free => CreateGoesOn(holder)
    BY <2>1 DEF HolderInFlight, CodesTypeOK
  <2>3. ASSUME NEW r \in Raises, raises[r] # AtRest
        PROVE  RaiseGoesOn(r) \/ holder # Free
    BY <2>3 DEF RaiseGoesOn, CodesTypeOK, RaiseCall
  <2> QED BY <2>1, <2>2, <2>3 DEF WaitsForOneThatGoesOn
<1>3. CodesSpec => []HolderInFlight
  BY <1>1, StepKeepsHolderInFlight, CodesTypeCorrect, PTL DEF CodesSpec
<1> QED BY <1>2, <1>3, LockHolds, CodesTypeCorrect, PTL

(***************************************************************************)
(* Closer: a code more is passed, or a claim more is lost, or the create   *)
(* goes on to a later one of its statements, in the order of Place.        *)
(***************************************************************************)
Place(step) == CASE step = "read"  -> 0 [] step = "claim"  -> 1
                 [] step = "look"  -> 2 [] step = "insert" -> 3 [] OTHER -> 4

Closer(old, new) ==
  \/ new.skipped > old.skipped
  \/ new.skipped = old.skipped /\ new.attempt > old.attempt
  \/ /\ new.skipped = old.skipped /\ new.attempt = old.attempt
     /\ Place(new.step) > Place(old.step)

CreatesComeCloser ==
  [][\A c \in Creates :
       creates[c] # AtRest /\ creates'[c] \notin {creates[c], AtRest} =>
         Closer(creates[c], creates'[c])]_codeVars

(***************************************************************************)
(* A create is short, whatever others do to the counter meanwhile: each of *)
(* its statements comes closer to the insert, or loses one attempt more,   *)
(* and the attempts start again only behind a code that was passed.  As    *)
(* CodesTypeOK bounds both, there are Skips * (2 * Attempts + 1) + 1 of    *)
(* them after the seed at most (nextCode, nextCodeFrom).                   *)
(***************************************************************************)
THEOREM CreatesAreShort == CodesSpec => CreatesComeCloser
<1>1. CodesTypeOK /\ [CodesNext]_codeVars =>
        [\A c \in Creates :
           creates[c] # AtRest /\ creates'[c] \notin {creates[c], AtRest} =>
             Closer(creates[c], creates'[c])]_codeVars
  <2> SUFFICES ASSUME CodesTypeOK, CodesNext, NEW c \in Creates,
                      creates[c] # AtRest, creates'[c] \notin {creates[c], AtRest}
               PROVE  Closer(creates[c], creates'[c])
    BY DEF codeVars
  <2>1. creates[c] \in CreateCall /\ c \in DOMAIN creates
    BY CreateCallType DEF CodesTypeOK
  <2>2. creates[c].skipped \in Nat /\ creates[c].attempt \in Nat
    BY <2>1, CodesAssumption DEF CreateCall
  <2>3. \/ SeedCounter(c) \/ ReadCounter(c) \/ ClaimNumber(c)
        \/ LookForCode(c) \/ InsertRow(c) \/ CreateFails(c)
    BY OthersStand DEF CodesNext, ReadHighest, ReadHeld, WriteRaised
  <2>4. ~RollBack(c)
    BY <2>1 DEF RollBack
  <2>5. CASE ReadCounter(c)
    <3>1. creates'[c] = [creates[c] EXCEPT !.step = "claim", !.n = Shown(c)]
      BY <2>1, <2>5 DEF ReadCounter
    <3> QED BY <2>1, <2>5, <3>1 DEF ReadCounter, CreateCall, Closer, Place
  <2>6. CASE ClaimNumber(c)
    <3>1. CASE creates'[c] = [creates[c] EXCEPT !.step = "look"]
      BY <2>1, <2>6, <3>1 DEF ClaimNumber, CreateCall, Closer, Place
    <3>2. CASE creates'[c] = [creates[c] EXCEPT !.step = "read", !.attempt = @ + 1]
      BY <2>1, <2>2, <3>2 DEF CreateCall, Closer
    <3> QED BY <2>1, <2>4, <2>6, <3>1, <3>2 DEF ClaimNumber, ClaimLost
  <2>7. CASE LookForCode(c)
    <3>1. CASE creates'[c] = [creates[c] EXCEPT !.step = "read", !.attempt = 0,
                                !.skipped = @ + 1, !.since = moves]
      BY <2>1, <2>2, <3>1 DEF CreateCall, Closer
    <3>2. CASE creates'[c] = [creates[c] EXCEPT !.step = "insert"]
      BY <2>1, <2>7, <3>2 DEF LookForCode, CreateCall, Closer, Place
    <3> QED BY <2>1, <2>4, <2>7, <3>1, <3>2 DEF LookForCode
  <2> QED BY <2>3, <2>4, <2>5, <2>6, <2>7 DEF SeedCounter, InsertRow, CreateFails
<1> QED BY <1>1, CodesTypeCorrect, PTL DEF CodesSpec, CreatesComeCloser

-----------------------------------------------------------------------------
\* Whether the claim about to be sent is lost already.
Doomed(c) == creates[c].step = "claim" /\ Shown(c) # creates[c].n

(***************************************************************************)
(* The strengthening LosersWereOvertaken needs: the claim about to be lost *)
(* is counted with those that were.                                        *)
(***************************************************************************)
LostToMoves ==
  \A c \in Creates :
    creates[c] # AtRest =>
      creates[c].attempt + (IF Doomed(c) THEN 1 ELSE 0) <= moves - creates[c].since

(***************************************************************************)
(* What a create sees in the counter row changes by another's statement    *)
(* only where a change of the row commits.                                 *)
(***************************************************************************)
LEMMA OthersMoveByCommit ==
  ASSUME CodesTypeOK, NEW c \in Creates, NEW d \in Creates, d # c,
         \/ SeedCounter(c) \/ ReadCounter(c) \/ ClaimNumber(c)
         \/ LookForCode(c) \/ InsertRow(c) \/ CreateFails(c)
  PROVE  moves' = moves + 1 \/ (moves' = moves /\ Shown(d)' = Shown(d))
<1>1. d # Free
  BY CodesAssumption
<1>2. CASE SeedCounter(c)
  BY <1>1, <1>2 DEF SeedCounter, Shown
<1>3. CASE ReadCounter(c)
  BY <1>3 DEF ReadCounter, Shown
<1>4. CASE ClaimNumber(c)
  BY <1>1, <1>4 DEF ClaimNumber, ClaimLost, RollBack, Shown
<1>5. CASE LookForCode(c)
  BY <1>1, <1>5 DEF LookForCode, RollBack, Shown
<1>6. CASE InsertRow(c)
  BY <1>6 DEF InsertRow
<1>7. CASE CreateFails(c)
  BY <1>1, <1>7 DEF CreateFails, RollBack, Shown
<1> QED BY <1>2, <1>3, <1>4, <1>5, <1>6, <1>7

(***************************************************************************)
(* A create's own statements count each claim it loses once.               *)
(***************************************************************************)
LEMMA OwnClaimsCounted ==
  ASSUME CodesTypeOK, LostToMoves, NEW c \in Creates,
         \/ SeedCounter(c) \/ ReadCounter(c) \/ ClaimNumber(c)
         \/ LookForCode(c) \/ InsertRow(c) \/ CreateFails(c),
         creates'[c] # AtRest
  PROVE  creates'[c].attempt + (IF Doomed(c)' THEN 1 ELSE 0) <= moves' - creates'[c].since
<1>1. c \in DOMAIN creates /\ moves \in Nat
  BY DEF CodesTypeOK
<1>2. CASE SeedCounter(c)
  <2>1. creates'[c] = [step |-> "read", n |-> 0, attempt |-> 0, skipped |-> 0,
                       since |-> moves] /\ moves' = moves
    BY <1>1, <1>2 DEF SeedCounter
  <2>2. ~Doomed(c)'
    BY <2>1 DEF Doomed
  <2> QED BY <1>1, <2>1, <2>2
<1>3. ASSUME creates[c] # AtRest
      PROVE  /\ creates[c] \in CreateCall
             /\ creates[c].attempt \in Nat /\ creates[c].since \in Nat
             /\ creates[c].attempt + (IF Doomed(c) THEN 1 ELSE 0) <= moves - creates[c].since
  <2>1. creates[c] \in CreateCall
    BY <1>3, CreateCallType
  <2>2. creates[c].attempt \in 0..Attempts - 1 /\ creates[c].since \in Nat
    BY <2>1 DEF CreateCall
  <2>3. creates[c].attempt \in Nat
    BY <2>2, CodesAssumption
  <2> QED BY <1>3, <2>1, <2>2, <2>3 DEF LostToMoves
<1>4. CASE ReadCounter(c)
  <2>1. creates[c] # AtRest
    BY <1>4 DEF ReadCounter, AtRest
  <2>2. creates'[c] = [creates[c] EXCEPT !.step = "claim", !.n = Shown(c)]
        /\ Shown(c)' = Shown(c) /\ moves' = moves
    BY <1>1, <1>4 DEF ReadCounter, Shown
  <2>3. /\ creates'[c].attempt = creates[c].attempt
        /\ creates'[c].since = creates[c].since
        /\ creates'[c].n = Shown(c)
    BY <1>3, <2>1, <2>2 DEF CreateCall
  <2>4. ~Doomed(c)'
    BY <2>2, <2>3 DEF Doomed
  <2> QED BY <1>1, <1>3, <2>1, <2>2, <2>3, <2>4
<1>5. CASE ClaimNumber(c)
  <2>1. creates[c] # AtRest /\ creates[c].step = "claim" /\ moves' = moves
    BY <1>5 DEF ClaimNumber, AtRest
  <2>2. CASE Shown(c) = creates[c].n
    <3>1. creates'[c] = [creates[c] EXCEPT !.step = "look"]
      BY <1>1, <1>5, <2>2 DEF ClaimNumber
    <3>2. /\ creates'[c].attempt = creates[c].attempt
          /\ creates'[c].since = creates[c].since
          /\ creates'[c].step = "look"
      BY <1>3, <2>1, <3>1 DEF CreateCall
    <3>3. ~Doomed(c)'
      BY <3>2 DEF Doomed
    <3> QED BY <1>1, <1>3, <2>1, <3>2, <3>3
  <2>3. CASE Shown(c) # creates[c].n
    <3>1. Doomed(c)
      BY <2>1, <2>3 DEF Doomed
    <3>2. creates'[c] = [creates[c] EXCEPT !.step = "read", !.attempt = @ + 1]
      BY <1>1, <1>5, <2>3 DEF ClaimNumber, ClaimLost, RollBack
    <3>3. /\ creates'[c].attempt = creates[c].attempt + 1
          /\ creates'[c].since = creates[c].since
          /\ creates'[c].step = "read"
      BY <1>3, <2>1, <3>2 DEF CreateCall
    <3>4. ~Doomed(c)'
      BY <3>3 DEF Doomed
    <3> QED BY <1>1, <1>3, <2>1, <3>1, <3>3, <3>4
  <2> QED BY <2>2, <2>3
<1>6. CASE LookForCode(c)
  <2>1. creates[c] # AtRest /\ moves' = moves
    BY <1>6 DEF LookForCode, AtRest
  <2>2. CASE creates' = [creates EXCEPT ![c].step = "insert"]
    <3>1. /\ creates'[c].attempt = creates[c].attempt
          /\ creates'[c].since = creates[c].since
          /\ creates'[c].step = "insert"
      BY <1>1, <1>3, <2>1, <2>2 DEF CreateCall
    <3>2. ~Doomed(c)'
      BY <3>1 DEF Doomed
    <3> QED BY <1>1, <1>3, <2>1, <3>1, <3>2
  <2>3. CASE creates' = [creates EXCEPT ![c].step = "read", ![c].attempt = 0,
                           ![c].skipped = @ + 1, ![c].since = moves]
    <3>1. /\ creates'[c].attempt = 0
          /\ creates'[c].since = moves
          /\ creates'[c].step = "read"
      BY <1>1, <1>3, <2>1, <2>3 DEF CreateCall
    <3>2. ~Doomed(c)'
      BY <3>1 DEF Doomed
    <3> QED BY <1>1, <2>1, <3>1, <3>2
  <2> QED BY <1>1, <1>6, <2>2, <2>3 DEF LookForCode, RollBack
<1>7. CASE InsertRow(c)
  BY <1>1, <1>7 DEF InsertRow, RollBack
<1>8. CASE CreateFails(c)
  BY <1>1, <1>8 DEF CreateFails, RollBack
<1> QED BY <1>2, <1>4, <1>5, <1>6, <1>7, <1>8

(***************************************************************************)
(* A claim is only ever lost to a counter that moved, so no create answers *)
(* ErrConflict that was not overtaken at every attempt (nextCodeFrom).     *)
(***************************************************************************)
THEOREM LosersAreOvertaken == CodesSpec => []LosersWereOvertaken
<1>1. CodesInit => LostToMoves
  BY DEF CodesInit, LostToMoves
<1>2. CodesTypeOK /\ LostToMoves /\ [CodesNext]_codeVars => LostToMoves'
  <2> SUFFICES ASSUME CodesTypeOK, LostToMoves, [CodesNext]_codeVars,
                      NEW d \in Creates, creates'[d] # AtRest
               PROVE  creates'[d].attempt + (IF Doomed(d)' THEN 1 ELSE 0)
                        <= moves' - creates'[d].since
    BY DEF LostToMoves
  <2>1. CASE /\ creates'[d] = creates[d]
             /\ moves' = moves + 1 \/ (moves' = moves /\ Shown(d)' = Shown(d))
    <3>1. creates[d].attempt + (IF Doomed(d) THEN 1 ELSE 0) <= moves - creates[d].since
      BY <2>1 DEF LostToMoves
    <3>2. creates[d] \in CreateCall
      BY <2>1, CreateCallType
    <3>3. creates[d].attempt \in Nat /\ creates[d].since \in Nat /\ moves \in Nat
      BY <3>2, CodesAssumption DEF CreateCall, CodesTypeOK
    <3>4. moves' = moves + 1 \/ (moves' = moves /\ (Doomed(d)' <=> Doomed(d)))
      BY <2>1 DEF Doomed
    <3> QED BY <2>1, <3>1, <3>3, <3>4
  <2>2. ASSUME NEW c \in Creates,
               \/ SeedCounter(c) \/ ReadCounter(c) \/ ClaimNumber(c)
               \/ LookForCode(c) \/ InsertRow(c) \/ CreateFails(c)
        PROVE  creates'[d].attempt + (IF Doomed(d)' THEN 1 ELSE 0)
                 <= moves' - creates'[d].since
    <3>1. CASE d = c
      BY <2>2, <3>1, OwnClaimsCounted
    <3>2. CASE d # c
      BY <2>1, <2>2, <3>2, OthersStand, OthersMoveByCommit
    <3> QED BY <3>1, <3>2
  <2>3. ASSUME NEW r \in Raises, ReadHighest(r) \/ ReadHeld(r) \/ WriteRaised(r)
        PROVE  /\ creates'[d] = creates[d]
               /\ moves' = moves + 1 \/ (moves' = moves /\ Shown(d)' = Shown(d))
    BY <2>3 DEF ReadHighest, ReadHeld, WriteRaised, Shown
  <2>4. ASSUME UNCHANGED codeVars
        PROVE  creates'[d] = creates[d] /\ moves' = moves /\ Shown(d)' = Shown(d)
    BY <2>4 DEF codeVars, Shown
  <2> QED BY <2>1, <2>2, <2>3, <2>4 DEF CodesNext
<1>3. CodesTypeOK /\ LostToMoves => LosersWereOvertaken
  <2> SUFFICES ASSUME CodesTypeOK, LostToMoves, NEW c \in Creates, creates[c] # AtRest
               PROVE  creates[c].attempt <= moves - creates[c].since
    BY DEF LosersWereOvertaken
  <2>1. creates[c] \in CreateCall
    BY CreateCallType
  <2>2. creates[c].attempt \in Nat /\ creates[c].since \in Nat /\ moves \in Nat
    BY <2>1, CodesAssumption DEF CreateCall, CodesTypeOK
  <2>3. creates[c].attempt + (IF Doomed(c) THEN 1 ELSE 0) <= moves - creates[c].since
    BY DEF LostToMoves
  <2> QED BY <2>2, <2>3
<1> QED BY <1>1, <1>2, <1>3, CodesTypeCorrect, PTL DEF CodesSpec

-----------------------------------------------------------------------------
(* Levels and their default anchor. *)

(***************************************************************************)
(* The strengthening.  A call on its way to insert holds an id of its own; *)
(* there is one anchor or none; and whoever wears a level that is about to *)
(* be deleted has come to it since it was counted.                         *)
(***************************************************************************)
InsertsMinted ==
  \A c \in Calls :
    /\ calls[c].step = "create" => calls[c].level \in minted
    /\ calls[c].step = "group" => calls[c].group \in minted

OneOrNone == anchor = {} \/ \E l : anchor = {l}

CountedUnworn ==
  \A c \in Calls :
    calls[c].step \in {"kinds", "delete"} => WornBy(calls[c].level) \subseteq calls[c].late

LevelsInv == LevelsTypeOK /\ InsertsMinted /\ OneOrNone /\ CountedUnworn

(***************************************************************************)
(* A call that begins, goes on or returns by itself leaves the calls typed *)
(* and what the others hold as it was.                                     *)
(***************************************************************************)
LEMMA CallMoves ==
  ASSUME LevelsInv, NEW c \in Calls, NEW call \in LevelCall \cup {NotCalled},
         calls' = [calls EXCEPT ![c] = call], UNCHANGED <<wears, kindAt>>,
         minted \subseteq minted',
         call.step = "create" => call.level \in minted',
         call.step = "group" => call.group \in minted',
         call.step \in {"kinds", "delete"} => WornBy(call.level) \subseteq call.late
  PROVE  /\ calls' \in [Calls -> LevelCall \cup {NotCalled}]
         /\ InsertsMinted' /\ CountedUnworn'
<1>1. calls' \in [Calls -> LevelCall \cup {NotCalled}]
  BY DEF LevelsInv, LevelsTypeOK
<1>2. calls'[c] = call /\ \A d \in Calls \ {c} : calls'[d] = calls[d]
  BY DEF LevelsInv, LevelsTypeOK
<1>3. InsertsMinted'
  BY <1>2 DEF LevelsInv, InsertsMinted
<1>4. CountedUnworn'
  BY <1>2 DEF LevelsInv, CountedUnworn, WornBy
<1> QED BY <1>1, <1>3, <1>4

(***************************************************************************)
(* A group put at a level, by its creation or as an override, is noted as  *)
(* late by every removal that has counted.                                 *)
(***************************************************************************)
LEMMA GroupArrives ==
  ASSUME LevelsInv, NEW g \in Groups,
         calls' = [d \in Calls |-> calls'[d]],
         \A d \in Calls : calls'[d] = NotCalled \/ calls'[d] = Arrived(g)[d],
         DOMAIN wears' = DOMAIN wears \cup {g}, g \in minted,
         \A h \in DOMAIN wears \ {g} : wears'[h] = wears[h],
         wears' \in [DOMAIN wears' -> Worn],
         UNCHANGED <<levels, anchor, kindAt, minted>>
  PROVE  LevelsInv'
<1>t. /\ calls \in [Calls -> LevelCall \cup {NotCalled}]
      /\ DOMAIN wears \subseteq Groups
      /\ levels \cup DOMAIN wears \subseteq minted
  BY DEF LevelsInv, LevelsTypeOK
<1>1. ASSUME NEW d \in Calls
      PROVE  /\ calls'[d] \in LevelCall \cup {NotCalled}
             /\ calls'[d].step \in {calls[d].step, "idle"}
             /\ calls'[d].step = "create" => calls'[d].level = calls[d].level
             /\ calls'[d].step = "group" => calls'[d].group = calls[d].group
             /\ calls'[d].step \in {"kinds", "delete"} =>
                  /\ calls'[d].level = calls[d].level
                  /\ calls'[d].late = calls[d].late \cup {g}
  <2>1. CASE calls'[d] = NotCalled
    BY <2>1 DEF NotCalled
  <2>2. CASE calls'[d] = Arrived(g)[d] /\ calls[d].step \in {"kinds", "delete"}
    <3>1. calls[d] \in [step: {"kinds", "delete"}, level: Levels, late: SUBSET Groups]
      BY <1>t, <2>2 DEF LevelCall, NotCalled
    <3>2. calls'[d] = [calls[d] EXCEPT !.late = @ \cup {g}]
      BY <2>2 DEF Arrived
    <3>3. calls'[d] \in [step: {"kinds", "delete"}, level: Levels, late: SUBSET Groups]
      BY <3>1, <3>2
    <3> QED BY <2>2, <3>1, <3>2, <3>3 DEF LevelCall
  <2>3. CASE calls'[d] = Arrived(g)[d] /\ calls[d].step \notin {"kinds", "delete"}
    <3>1. calls'[d] = calls[d]
      BY <2>3 DEF Arrived
    <3> QED BY <1>t, <2>3, <3>1
  <2> QED BY <2>1, <2>2, <2>3
<1>2. LevelsTypeOK'
  <2>1. DOMAIN wears' \subseteq Groups
    BY <1>t
  <2>3. calls' \in [Calls -> LevelCall \cup {NotCalled}]
    BY <1>1
  <2> QED BY <1>t, <2>1, <2>3 DEF LevelsInv, LevelsTypeOK
<1>3. InsertsMinted'
  BY <1>1 DEF LevelsInv, InsertsMinted
<1>4. CountedUnworn'
  <2> SUFFICES ASSUME NEW d \in Calls, calls'[d].step \in {"kinds", "delete"},
                      NEW h \in DOMAIN wears', h # g,
                      calls'[d].level \in {wears'[h].level, wears'[h].override}
               PROVE  h \in calls'[d].late
    BY <1>1 DEF CountedUnworn, WornBy
  <2>1. h \in WornBy(calls[d].level)
    BY <1>1 DEF WornBy
  <2> QED BY <1>1, <2>1 DEF LevelsInv, CountedUnworn
<1>5. OneOrNone'
  BY DEF LevelsInv, OneOrNone
<1> QED BY <1>2, <1>3, <1>4, <1>5 DEF LevelsInv

(***************************************************************************)
(* Creating a level counts the anchors, its insert is admitted by the      *)
(* index.                                                                  *)
(***************************************************************************)
LEMMA CreationKeepsLevels ==
  ASSUME LevelsInv, NEW c \in Calls,
         \/ \E l \in Levels, anchored \in BOOLEAN : CreateLevel(c, l, anchored)
         \/ InsertLevel(c)
  PROVE  LevelsInv'
<1>1. ASSUME NEW l \in Levels, NEW anchored \in BOOLEAN, CreateLevel(c, l, anchored)
      PROVE  LevelsInv'
  <2> DEFINE call == [step |-> "create", level |-> l, anchored |-> anchored]
  <2>1. call \in LevelCall
    BY DEF LevelCall
  <2>2. minted' = minted \cup {l} /\ calls' = [calls EXCEPT ![c] = call]
    BY <1>1 DEF CreateLevel, Mint, Begin
  <2>3. UNCHANGED <<levels, anchor, wears, kindAt>>
    BY <1>1 DEF CreateLevel
  <2>4. /\ calls' \in [Calls -> LevelCall \cup {NotCalled}]
        /\ InsertsMinted' /\ CountedUnworn'
    BY <2>1, <2>2, <2>3, CallMoves
  <2> QED BY <2>2, <2>3, <2>4 DEF LevelsInv, LevelsTypeOK, OneOrNone
<1>2. CASE InsertLevel(c)
  <2>1. calls[c].level \in Levels /\ calls[c].level \in minted
    BY <1>2 DEF InsertLevel, LevelsInv, LevelsTypeOK, LevelCall, NotCalled, InsertsMinted
  <2>2. calls' = [calls EXCEPT ![c] = NotCalled] /\ UNCHANGED <<wears, kindAt, minted>>
    BY <1>2 DEF InsertLevel, Returns
  <2>3. NotCalled.step = "idle"
    BY DEF NotCalled
  <2>4. /\ calls' \in [Calls -> LevelCall \cup {NotCalled}]
        /\ InsertsMinted' /\ CountedUnworn'
    BY <2>2, <2>3, CallMoves
  <2>5. OneOrNone' /\ anchor' \subseteq levels' /\ levels' \subseteq Levels \cap minted
    BY <1>2, <2>1 DEF InsertLevel, Admitted, LevelsInv, LevelsTypeOK, OneOrNone
  <2> QED BY <2>2, <2>4, <2>5 DEF LevelsInv, LevelsTypeOK
<1> QED BY <1>1, <1>2

(***************************************************************************)
(* A change of the default anchor leaves the anchors as others saw them    *)
(* until it is committed, and then one or what was there.                  *)
(***************************************************************************)
LEMMA ChangeKeepsLevels ==
  ASSUME LevelsInv, NEW c \in Calls,
         \/ \E l \in Levels : SetDefaultAnchor(c, l)
         \/ StartClear(c) \/ ClearAnchors(c) \/ SetAnchor(c)
  PROVE  LevelsInv'
<1>m. ASSUME NEW call \in LevelCall \cup {NotCalled},
             calls' = [calls EXCEPT ![c] = call],
             call.step \in {"idle", "clear", "clearing", "set"},
             UNCHANGED <<levels, wears, kindAt, minted>>,
             OneOrNone', anchor' \subseteq levels
      PROVE  LevelsInv'
  <2>1. /\ calls' \in [Calls -> LevelCall \cup {NotCalled}]
        /\ InsertsMinted' /\ CountedUnworn'
    BY <1>m, CallMoves
  <2> QED BY <1>m, <2>1 DEF LevelsInv, LevelsTypeOK
<1>a. UNCHANGED anchor => OneOrNone' /\ anchor' \subseteq levels
  BY DEF LevelsInv, LevelsTypeOK, OneOrNone
<1>1. ASSUME NEW l \in Levels, SetDefaultAnchor(c, l) PROVE LevelsInv'
  <2>1. [step |-> "clear", level |-> l] \in LevelCall
    BY DEF LevelCall
  <2> QED BY <1>1, <1>m, <1>a, <2>1 DEF SetDefaultAnchor, Begin
<1>2. CASE StartClear(c)
  <2> DEFINE call == [step |-> "clearing", level |-> calls[c].level, snap |-> anchor]
  <2>1. calls[c].level \in Levels
    BY <1>2 DEF StartClear, LevelsInv, LevelsTypeOK, LevelCall, NotCalled
  <2>2. anchor \subseteq Levels
    BY DEF LevelsInv, LevelsTypeOK
  <2>3. call \in LevelCall
    BY <2>1, <2>2 DEF LevelCall
  <2>4. calls' = [calls EXCEPT ![c] = call]
    BY <1>2 DEF StartClear
  <2> QED BY <1>2, <1>m, <1>a, <2>3, <2>4 DEF StartClear
<1>3. CASE ClearAnchors(c)
  <2> DEFINE call == [step |-> "set", level |-> calls[c].level,
                      cleared |-> calls[c].snap \cap anchor]
  <2>1. calls[c].level \in Levels
    BY <1>3 DEF ClearAnchors, LevelsInv, LevelsTypeOK, LevelCall, NotCalled
  <2>2. anchor \subseteq Levels
    BY DEF LevelsInv, LevelsTypeOK
  <2>3. call \in LevelCall
    BY <2>1, <2>2 DEF LevelCall
  <2>4. calls' = [calls EXCEPT ![c] = call]
    BY <1>3 DEF ClearAnchors
  <2> QED BY <1>3, <1>m, <1>a, <2>3, <2>4 DEF ClearAnchors, ShownMeanwhile
<1>4. CASE SetAnchor(c)
  <2> DEFINE new    == Flagged(calls[c].level)
             others == anchor \ (calls[c].cleared \cup {calls[c].level})
  <2>1. new \subseteq levels /\ new \subseteq {calls[c].level}
    BY DEF Flagged
  <2>2. OneOrNone' /\ anchor' \subseteq levels
    <3>1. anchor \subseteq levels /\ OneOrNone
      BY DEF LevelsInv, LevelsTypeOK
    <3>2. CASE new = {}
      BY <1>4, <3>1, <3>2 DEF SetAnchor, OneOrNone
    <3>3. CASE new # {} /\ others = {}
      <4>1. anchor' = (anchor \ calls[c].cleared) \cup new
        BY <1>4, <3>3 DEF SetAnchor, Admitted
      <4>2. anchor' \subseteq {calls[c].level}
        BY <2>1, <3>3, <4>1
      <4> QED BY <2>1, <3>1, <4>1, <4>2 DEF OneOrNone
    <3>4. CASE new # {} /\ others # {}
      BY <1>4, <1>a, <3>4 DEF SetAnchor, Admitted
    <3> QED BY <3>2, <3>3, <3>4
  <2>3. calls' = [calls EXCEPT ![c] = NotCalled] /\ UNCHANGED <<levels, wears, kindAt, minted>>
    BY <1>4 DEF SetAnchor, Returns
  <2>4. NotCalled.step = "idle"
    BY DEF NotCalled
  <2> QED BY <1>m, <2>2, <2>3, <2>4
<1> QED BY <1>1, <1>2, <1>3, <1>4

(***************************************************************************)
(* A removal counts the groups of its level, finding none, and from then   *)
(* on notes those that come.                                               *)
(***************************************************************************)
LEMMA RemovalKeepsLevels ==
  ASSUME LevelsInv, NEW c \in Calls,
         \/ \E l \in Levels : DeleteLevel(c, l)
         \/ CountGroups(c) \/ CountRoleKinds(c) \/ DeleteRow(c)
  PROVE  LevelsInv'
<1>m. ASSUME NEW call \in LevelCall \cup {NotCalled},
             calls' = [calls EXCEPT ![c] = call],
             call.step \in {"idle", "groups", "kinds", "delete"},
             call.step \in {"kinds", "delete"} => WornBy(call.level) \subseteq call.late,
             levels' \subseteq levels, anchor' \subseteq anchor \cap levels',
             UNCHANGED <<wears, kindAt, minted>>
      PROVE  LevelsInv'
  <2>1. /\ calls' \in [Calls -> LevelCall \cup {NotCalled}]
        /\ InsertsMinted' /\ CountedUnworn'
    BY <1>m, CallMoves
  <2>2. OneOrNone'
    BY <1>m DEF LevelsInv, OneOrNone
  <2> QED BY <1>m, <2>1, <2>2 DEF LevelsInv, LevelsTypeOK
<1>n. NotCalled.step = "idle"
  BY DEF NotCalled
<1>a. anchor \subseteq levels
  BY DEF LevelsInv, LevelsTypeOK
<1>t. calls \in [Calls -> LevelCall \cup {NotCalled}]
  BY DEF LevelsInv, LevelsTypeOK
<1>1. ASSUME NEW l \in Levels, DeleteLevel(c, l) PROVE LevelsInv'
  <2>1. [step |-> "groups", level |-> l] \in LevelCall
    BY DEF LevelCall
  <2> QED BY <1>1, <1>m, <1>a, <2>1 DEF DeleteLevel, Begin
<1>2. CASE CountGroups(c)
  <2> DEFINE call == [step |-> "kinds", level |-> calls[c].level, late |-> {}]
  <2>1. UNCHANGED <<levels, anchor, wears, kindAt, minted>>
    BY <1>2 DEF CountGroups
  <2>2. CASE WornBy(calls[c].level) = {}
    <3>1. calls[c].level \in Levels
      BY <1>2, <1>t DEF CountGroups, LevelCall, NotCalled
    <3>2. call \in LevelCall
      BY <3>1 DEF LevelCall
    <3>3. calls' = [calls EXCEPT ![c] = call]
      BY <1>2, <2>2 DEF CountGroups
    <3> QED BY <1>m, <1>a, <2>1, <2>2, <3>2, <3>3
  <2>3. CASE WornBy(calls[c].level) # {}
    BY <1>2, <1>m, <1>a, <1>n, <2>1, <2>3 DEF CountGroups, Returns
  <2> QED BY <2>2, <2>3
<1>3. CASE CountRoleKinds(c)
  <2>1. UNCHANGED <<levels, anchor, wears, kindAt, minted>>
    BY <1>3 DEF CountRoleKinds
  <2>2. CASE Returns(c)
    BY <1>m, <1>a, <1>n, <2>1, <2>2 DEF Returns
  <2>3. CASE GoesTo(c, "delete")
    <3> DEFINE call == [calls[c] EXCEPT !.step = "delete"]
    <3>1. calls[c] \in [step: {"kinds", "delete"}, level: Levels, late: SUBSET Groups]
      BY <1>3, <1>t DEF CountRoleKinds, LevelCall, NotCalled
    <3>2. call \in [step: {"kinds", "delete"}, level: Levels, late: SUBSET Groups]
      BY <3>1
    <3>3. call.level = calls[c].level /\ call.late = calls[c].late
      BY <3>1
    <3>4. WornBy(call.level) \subseteq call.late
      BY <1>3, <3>3 DEF CountRoleKinds, LevelsInv, CountedUnworn
    <3>5. calls' = [calls EXCEPT ![c] = call]
      BY <2>3 DEF GoesTo
    <3>6. call \in LevelCall /\ call.step = "delete"
      BY <3>1, <3>2 DEF LevelCall
    <3> QED BY <1>m, <1>a, <2>1, <3>4, <3>5, <3>6
  <2> QED BY <1>3, <2>2, <2>3 DEF CountRoleKinds
<1>4. CASE DeleteRow(c)
  BY <1>4, <1>m, <1>a, <1>n DEF DeleteRow, Returns
<1> QED BY <1>1, <1>2, <1>3, <1>4

(***************************************************************************)
(* Groups come to levels, and kinds are created at them.                   *)
(***************************************************************************)
LEMMA WearingKeepsLevels ==
  ASSUME LevelsInv,
         \/ \E c \in Calls, l \in Levels, g \in Groups : CreateGroup(c, g, l)
         \/ \E c \in Calls : InsertGroup(c)
         \/ \E g \in DOMAIN wears, l \in Levels \cup {NoLevel} : EditGroup(g, l)
         \/ \E k \in RoleKinds, l \in Levels : CreateRoleKind(k, l)
  PROVE  LevelsInv'
<1>t. /\ calls \in [Calls -> LevelCall \cup {NotCalled}]
      /\ DOMAIN wears \subseteq Groups /\ wears \in [DOMAIN wears -> Worn]
      /\ DOMAIN kindAt \subseteq RoleKinds /\ kindAt \in [DOMAIN kindAt -> Levels]
      /\ DOMAIN wears \subseteq minted
  BY DEF LevelsInv, LevelsTypeOK
<1>1. ASSUME NEW c \in Calls, NEW l \in Levels, NEW g \in Groups, CreateGroup(c, g, l)
      PROVE  LevelsInv'
  <2> DEFINE call == [step |-> "group", level |-> l, group |-> g]
  <2>1. call \in LevelCall
    BY DEF LevelCall
  <2>2. minted' = minted \cup {g} /\ calls' = [calls EXCEPT ![c] = call]
    BY <1>1 DEF CreateGroup, Mint, Begin
  <2>3. UNCHANGED <<levels, anchor, wears, kindAt>>
    BY <1>1 DEF CreateGroup
  <2>4. /\ calls' \in [Calls -> LevelCall \cup {NotCalled}]
        /\ InsertsMinted' /\ CountedUnworn'
    BY <2>1, <2>2, <2>3, CallMoves
  <2> QED BY <2>2, <2>3, <2>4 DEF LevelsInv, LevelsTypeOK, OneOrNone
<1>2. ASSUME NEW c \in Calls, InsertGroup(c) PROVE LevelsInv'
  <2> DEFINE g == calls[c].group
             row == [level |-> calls[c].level, override |-> NoLevel]
  <2>1. g \in Groups /\ calls[c].level \in Levels /\ g \in minted
    BY <1>2, <1>t DEF InsertGroup, LevelCall, NotCalled, LevelsInv, InsertsMinted
  <2>2. row \in Worn
    BY <2>1 DEF Worn
  <2>3. wears' = [h \in DOMAIN wears \cup {g} |-> IF h = g THEN row ELSE wears[h]]
    BY <1>2 DEF InsertGroup
  <2>4. /\ DOMAIN wears' = DOMAIN wears \cup {g}
        /\ \A h \in DOMAIN wears \ {g} : wears'[h] = wears[h]
        /\ wears' \in [DOMAIN wears' -> Worn]
    BY <1>t, <2>2, <2>3
  <2>5. calls' = [d \in Calls |-> calls'[d]]
    BY <1>2 DEF InsertGroup, Arrived
  <2>6. \A d \in Calls : calls'[d] = NotCalled \/ calls'[d] = Arrived(g)[d]
    BY <1>2 DEF InsertGroup, Arrived
  <2>7. UNCHANGED <<levels, anchor, kindAt, minted>>
    BY <1>2 DEF InsertGroup
  <2> QED BY <2>1, <2>4, <2>5, <2>6, <2>7, GroupArrives
<1>3. ASSUME NEW g \in DOMAIN wears, NEW l \in Levels \cup {NoLevel}, EditGroup(g, l)
      PROVE  LevelsInv'
  <2>1. g \in Groups /\ g \in minted
    BY <1>t
  <2>2. wears' = [wears EXCEPT ![g] = [wears[g] EXCEPT !.override = l]]
    BY <1>3 DEF EditGroup
  <2>3. [wears[g] EXCEPT !.override = l] \in Worn
    BY <1>t DEF Worn
  <2>4. /\ DOMAIN wears' = DOMAIN wears \cup {g}
        /\ \A h \in DOMAIN wears \ {g} : wears'[h] = wears[h]
        /\ wears' \in [DOMAIN wears' -> Worn]
    BY <1>t, <2>2, <2>3
  <2>5. calls' = [d \in Calls |-> calls'[d]]
    BY <1>3 DEF EditGroup, Arrived
  <2>6. \A d \in Calls : calls'[d] = NotCalled \/ calls'[d] = Arrived(g)[d]
    BY <1>3 DEF EditGroup
  <2>7. UNCHANGED <<levels, anchor, kindAt, minted>>
    BY <1>3 DEF EditGroup
  <2> QED BY <2>1, <2>4, <2>5, <2>6, <2>7, GroupArrives
<1>4. ASSUME NEW k \in RoleKinds, NEW l \in Levels, CreateRoleKind(k, l)
      PROVE  LevelsInv'
  <2>1. kindAt' = [j \in DOMAIN kindAt \cup {k} |-> IF j = k THEN l ELSE kindAt[j]]
    BY <1>4 DEF CreateRoleKind
  <2>2. DOMAIN kindAt' \subseteq RoleKinds /\ kindAt' \in [DOMAIN kindAt' -> Levels]
    BY <1>t, <2>1
  <2>4. UNCHANGED <<levels, anchor, wears, calls, minted>>
    BY <1>4 DEF CreateRoleKind
  <2> QED BY <2>2, <2>4
    DEF LevelsInv, LevelsTypeOK, InsertsMinted, OneOrNone, CountedUnworn, WornBy
<1> QED BY <1>1, <1>2, <1>3, <1>4

(***************************************************************************)
(* The strengthened invariant holds from the empty hierarchy on.           *)
(***************************************************************************)
LEMMA LevelsInvariant == LevelsSpec => []LevelsInv
<1>1. LevelsInit => LevelsInv
  BY DEF LevelsInit, LevelsInv, LevelsTypeOK, InsertsMinted, OneOrNone, CountedUnworn,
    NotCalled
<1>2. LevelsInv /\ [LevelsNext]_levelVars => LevelsInv'
  <2> SUFFICES ASSUME LevelsInv, [LevelsNext]_levelVars PROVE LevelsInv'
    OBVIOUS
  <2>1. CASE UNCHANGED levelVars
    BY <2>1 DEF levelVars, LevelsInv, LevelsTypeOK, InsertsMinted, OneOrNone,
      CountedUnworn, WornBy
  <2>2. CASE LevelsNext
    BY <2>2, CreationKeepsLevels, ChangeKeepsLevels, RemovalKeepsLevels, WearingKeepsLevels
    DEF LevelsNext
  <2> QED BY <2>1, <2>2
<1> QED BY <1>1, <1>2, PTL DEF LevelsSpec

(***************************************************************************)
(* Levels, what wears them and the calls on them are typed; a level or a   *)
(* group there is has an id of its own.                                    *)
(***************************************************************************)
THEOREM LevelsTypeCorrect == LevelsSpec => []LevelsTypeOK
<1>1. LevelsInv => LevelsTypeOK
  BY DEF LevelsInv
<1> QED BY <1>1, LevelsInvariant, PTL

(***************************************************************************)
(* A hierarchy has one default anchor at most, however many levels are     *)
(* created, anchored and deleted at once: the index refuses what the       *)
(* counts of CreateLevel let through.                                      *)
(***************************************************************************)
THEOREM AnchorIsOne == LevelsSpec => []OneDefaultAnchor
<1>1. LevelsInv => OneDefaultAnchor
  <2>1. \A l : Cardinality({l}) = 1
    BY FS_Singleton
  <2>2. Cardinality({}) = 0
    BY FS_EmptySet
  <2> QED BY <2>1, <2>2 DEF LevelsInv, OneOrNone, OneDefaultAnchor
<1> QED BY <1>1, LevelsInvariant, PTL

(***************************************************************************)
(* The anchor goes only with a level that is deleted: with the anchor      *)
(* itself, or with the level SetDefaultAnchor was to anchor instead.       *)
(***************************************************************************)
THEOREM AnchorGoesWithALevel == LevelsSpec => AnchorLostOnlyWithALevel
<1>1. LevelsInv /\ [LevelsNext]_levelVars =>
        [anchor # {} /\ anchor' = {} =>
           \/ ~(anchor \subseteq levels')
           \/ \E c \in Calls : calls[c].step = "set" /\ calls[c].level \notin levels]_levelVars
  <2> SUFFICES ASSUME LevelsInv, LevelsNext, anchor # {}, anchor' = {}
               PROVE  \/ ~(anchor \subseteq levels')
                      \/ \E c \in Calls : calls[c].step = "set" /\ calls[c].level \notin levels
    BY DEF levelVars
  <2>1. ASSUME NEW c \in Calls, SetAnchor(c)
        PROVE  calls[c].step = "set" /\ calls[c].level \notin levels
    BY <2>1 DEF SetAnchor, Flagged
  <2>2. ASSUME NEW c \in Calls, DeleteRow(c) PROVE ~(anchor \subseteq levels')
    BY <2>2 DEF DeleteRow
  <2>3. ASSUME NEW c \in Calls, InsertLevel(c) PROVE FALSE
    BY <2>3 DEF InsertLevel
  <2>4. ASSUME NEW c \in Calls, ClearAnchors(c) PROVE FALSE
    BY <2>4 DEF ClearAnchors, ShownMeanwhile
  <2> QED BY <2>1, <2>2, <2>3, <2>4
    DEF LevelsNext, CreateLevel, SetDefaultAnchor, StartClear, DeleteLevel, CountGroups,
      CountRoleKinds, CreateGroup, InsertGroup, EditGroup, CreateRoleKind
<1> QED BY <1>1, LevelsInvariant, PTL DEF LevelsSpec, AnchorLostOnlyWithALevel

(***************************************************************************)
(* A level is deleted from under no group that stood there when            *)
(* DeleteLevel counted.                                                    *)
(***************************************************************************)
THEOREM CountedLevelsGoUnworn == LevelsSpec => DeletedLevelWasUnworn
<1>1. LevelsInv /\ [LevelsNext]_levelVars =>
        [\A l \in levels \ levels' : \A g \in DOMAIN wears :
           l \in {wears[g].level, wears[g].override} =>
             \E c \in Calls :
               /\ calls[c].step = "delete" /\ calls[c].level = l
               /\ g \in calls[c].late]_levelVars
  <2> SUFFICES ASSUME LevelsInv, LevelsNext, NEW l \in levels \ levels',
                      NEW g \in DOMAIN wears, l \in {wears[g].level, wears[g].override}
               PROVE  \E c \in Calls :
                        /\ calls[c].step = "delete" /\ calls[c].level = l
                        /\ g \in calls[c].late
    BY DEF levelVars
  <2>1. PICK c \in Calls : DeleteRow(c)
    BY DEF LevelsNext, CreateLevel, InsertLevel, SetDefaultAnchor, StartClear, ClearAnchors,
      SetAnchor, DeleteLevel, CountGroups, CountRoleKinds, CreateGroup, InsertGroup,
      EditGroup, CreateRoleKind
  <2>2. calls[c].step = "delete" /\ calls[c].level = l
    BY <2>1 DEF DeleteRow
  <2>3. g \in WornBy(l)
    BY DEF WornBy
  <2> QED BY <2>2, <2>3 DEF LevelsInv, CountedUnworn
<1> QED BY <1>1, LevelsInvariant, PTL DEF LevelsSpec, DeletedLevelWasUnworn
=============================================================================
