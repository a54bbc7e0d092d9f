------------------------------- MODULE Codes -------------------------------
(***************************************************************************)
(* The sequential code of a created row ("AC-4", "G-9") for one entity     *)
(* type: the counter row it is claimed from, the look for rows holding it  *)
(* already, and the start of the service that raises a counter lagging     *)
(* behind (store.go, code_guard.go, provision.go).                         *)
(*                                                                         *)
(* A create is one transaction.  The counter row it seeded or advanced is  *)
(* locked until it commits or rolls back, and only it sees what it wrote.  *)
(***************************************************************************)
EXTENDS Naturals, FiniteSets

CONSTANTS
  Creates,       \* creates that may be in flight together
  Raises,        \* starts of the service that may be under way
  Free,          \* the holder of an unlocked counter row
  Attempts,      \* codeSequenceAttempts: claims tried before ErrConflict
  Skips,         \* codeCollisionSkips: held codes passed before ErrConflict
  StartCounters, \* what the counter may read at first; 0 is no row
  StartCodes,    \* the sets of codes rows may hold at first
  MaxCodes       \* bound on the rows and the creates in flight

ASSUME CodesAssumption ==
  /\ Free \notin Creates
  /\ Attempts \in Nat \ {0}
  /\ Skips \in Nat \ {0}
  /\ StartCounters \subseteq Nat
  /\ StartCodes \subseteq SUBSET (Nat \ {0})
  /\ MaxCodes \in Nat

VARIABLES
  counter, \* next_number as committed; 0 where no row is
  codes,   \* the numbers of the codes committed rows hold
  holder,  \* the create whose transaction wrote the counter row, or Free
  written, \* what that transaction wrote there
  creates, \* the creates in flight
  raises,  \* the raises under way
  moves    \* history: how often the committed counter changed

codeVars == <<counter, codes, holder, written, creates, raises, moves>>

AtRest == [step |-> "idle"]

\* since is history: moves when nextCode was called.
CreateCall == [step: {"read", "claim", "look", "insert"}, n: Nat,
               attempt: 0..Attempts - 1, skipped: 0..Skips - 1, since: Nat]

RaiseCall == [step: {"held", "create", "update"}, next: Nat]

\* next_number as the create's transaction sees it.
Shown(c) == IF holder = c THEN written ELSE counter

-----------------------------------------------------------------------------
(***************************************************************************)
(* A create begins by seeding the counter, which waits for another's       *)
(* uncommitted seed and does nothing where the row is there.               *)
(***************************************************************************)
SeedCounter(c) ==
  /\ creates[c] = AtRest
  /\ Cardinality(codes) + Cardinality({d \in Creates : creates[d] # AtRest}) < MaxCodes
  /\ counter = 0 => holder = Free
  /\ creates' = [creates EXCEPT ![c] =
       [step |-> "read", n |-> 0, attempt |-> 0, skipped |-> 0, since |-> moves]]
  /\ IF counter = 0
     THEN holder' = c /\ written' = 1
     ELSE UNCHANGED <<holder, written>>
  /\ UNCHANGED <<counter, codes, raises, moves>>

ReadCounter(c) ==
  /\ creates[c].step = "read"
  /\ creates' = [creates EXCEPT ![c].step = "claim", ![c].n = Shown(c)]
  /\ UNCHANGED <<counter, codes, holder, written, raises, moves>>

\* The transaction rolls back: its seed or claim is gone, its lock released.
RollBack(c) ==
  /\ creates' = [creates EXCEPT ![c] = AtRest]
  /\ holder' = IF holder = c THEN Free ELSE holder

\* Mutant: the lost claim is tried again on the number read before.
ClaimStale(c) ==
  IF creates[c].attempt + 1 = Attempts
  THEN RollBack(c)
  ELSE creates' = [creates EXCEPT ![c].attempt = @ + 1] /\ UNCHANGED holder

\* Mutant: one claim too many is tried.
ClaimOnceMore(c) ==
  IF creates[c].attempt = Attempts
  THEN RollBack(c)
  ELSE /\ creates' = [creates EXCEPT ![c].step = "read", ![c].attempt = @ + 1]
       /\ UNCHANGED holder

\* A claim that changed no row is tried again from the read, up to Attempts.
ClaimLost(c) ==
  IF creates[c].attempt + 1 = Attempts
  THEN RollBack(c)
  ELSE /\ creates' = [creates EXCEPT ![c].step = "read", ![c].attempt = @ + 1]
       /\ UNCHANGED holder

\* Mutant: the number read is written back.
KeepNumber(n) == n

NextNumber(n) == n + 1

\* The update conditional on the number read waits for the row's holder.
ClaimNumber(c) ==
  /\ creates[c].step = "claim"
  /\ holder \in {c, Free}
  /\ IF Shown(c) = creates[c].n
     THEN /\ holder' = c
          /\ written' = NextNumber(creates[c].n)
          /\ creates' = [creates EXCEPT ![c].step = "look"]
     ELSE ClaimLost(c) /\ UNCHANGED written
  /\ UNCHANGED <<counter, codes, raises, moves>>

\* Mutant: nobody looks for a row holding the code.
NeverTaken(n) == FALSE

CodeTaken(n) == n \in codes

(***************************************************************************)
(* The manager's nextCode passes codes that rows hold, up to Skips of      *)
(* them; each further number is claimed with its own attempts.             *)
(***************************************************************************)
LookForCode(c) ==
  /\ creates[c].step = "look"
  /\ \/ /\ CodeTaken(creates[c].n)
        /\ creates[c].skipped + 1 < Skips
        /\ creates' = [creates EXCEPT ![c].step = "read", ![c].attempt = 0,
                         ![c].skipped = @ + 1, ![c].since = moves]
        /\ UNCHANGED holder
     \/ /\ CodeTaken(creates[c].n)
        /\ creates[c].skipped + 1 = Skips
        /\ RollBack(c)
     \/ /\ ~CodeTaken(creates[c].n)
        /\ creates' = [creates EXCEPT ![c].step = "insert"]
        /\ UNCHANGED holder
  /\ UNCHANGED <<counter, codes, written, raises, moves>>

\* The row with its code, and the commit; the unique index refuses a held one.
InsertRow(c) ==
  /\ creates[c].step = "insert"
  /\ creates[c].n \notin codes
  /\ codes' = codes \cup {creates[c].n}
  /\ counter' = written
  /\ moves' = moves + 1
  /\ RollBack(c)
  /\ UNCHANGED <<written, raises>>

\* A statement fails, a code is held after all, or the process stops.
CreateFails(c) ==
  /\ creates[c] # AtRest
  /\ RollBack(c)
  /\ UNCHANGED <<counter, codes, written, raises, moves>>

-----------------------------------------------------------------------------
\* raiseSequencesPastExistingCodes reads the codes, outside a transaction.
ReadHighest(r) ==
  /\ raises[r] = AtRest
  /\ \E top \in codes :
       /\ \A n \in codes : n <= top
       /\ raises' = [raises EXCEPT ![r] = [step |-> "held", next |-> top + 1]]
  /\ UNCHANGED <<counter, codes, holder, written, creates, moves>>

RaiseReturns(r) == raises' = [raises EXCEPT ![r] = AtRest]

\* raiseSequence reads the counter and leaves one that is not behind.
ReadHeld(r) ==
  /\ raises[r].step = "held"
  /\ CASE counter = 0 -> raises' = [raises EXCEPT ![r].step = "create"]
       [] counter >= raises[r].next -> RaiseReturns(r)
       [] OTHER -> raises' = [raises EXCEPT ![r].step = "update"]
  /\ UNCHANGED <<counter, codes, holder, written, creates, moves>>

(***************************************************************************)
(* It writes the number it worked out, whatever the counter has become; an *)
(* insert beaten by another is refused by the key.  Both wait for a holder.*)
(***************************************************************************)
WriteRaised(r) ==
  /\ raises[r].step \in {"create", "update"}
  /\ holder = Free
  /\ IF raises[r].step = "create" /\ counter # 0
     THEN UNCHANGED <<counter, moves>>
     ELSE counter' = raises[r].next /\ moves' = moves + 1
  /\ RaiseReturns(r)
  /\ UNCHANGED <<codes, holder, written, creates>>

-----------------------------------------------------------------------------
CodesInit ==
  /\ counter \in StartCounters
  /\ codes \in StartCodes
  /\ holder = Free
  /\ written = 0
  /\ creates = [c \in Creates |-> AtRest]
  /\ raises = [r \in Raises |-> AtRest]
  /\ moves = 0

CodesNext ==
  \/ \E c \in Creates :
       \/ SeedCounter(c) \/ ReadCounter(c) \/ ClaimNumber(c)
       \/ LookForCode(c) \/ InsertRow(c) \/ CreateFails(c)
  \/ \E r \in Raises : ReadHighest(r) \/ ReadHeld(r) \/ WriteRaised(r)

CodesSpec == CodesInit /\ [][CodesNext]_codeVars

CodesTypeOK ==
  /\ counter \in Nat
  /\ codes \subseteq Nat
  /\ holder \in Creates \cup {Free}
  /\ written \in Nat
  /\ creates \in [Creates -> CreateCall \cup {AtRest}]
  /\ raises \in [Raises -> RaiseCall \cup {AtRest}]
  /\ moves \in Nat

-----------------------------------------------------------------------------
(***************************************************************************)
(* A create that comes to insert its row holds a code no row holds, so the *)
(* insert never fails on it: though rows were registered behind the        *)
(* counter's back, others claimed, and a start rewound the counter since   *)
(* it was read (nextCode, codeTaken, raiseSequence).                       *)
(***************************************************************************)
CodeIsFree == \A c \in Creates : creates[c].step = "insert" => creates[c].n \notin codes

(***************************************************************************)
(* No two creates are on their way to insert one code, and the one that is *)
(* will leave the counter past its code.                                   *)
(***************************************************************************)
ClaimsAreApart ==
  \A c \in Creates :
    creates[c].step \in {"look", "insert"} =>
      /\ written > creates[c].n
      /\ \A d \in Creates \ {c} : creates[d].step \notin {"look", "insert"}

(***************************************************************************)
(* A claim is only ever lost to a counter that moved: a create that lost   *)
(* some saw at least as many changes commit since it called nextCode, so   *)
(* no one answers ErrConflict who was not overtaken Attempts times.        *)
(***************************************************************************)
LosersWereOvertaken ==
  \A c \in Creates :
    creates[c] # AtRest => creates[c].attempt <= moves - creates[c].since
=============================================================================
