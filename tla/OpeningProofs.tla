--------------------------- MODULE OpeningProofs ----------------------------
(***************************************************************************)
(* What the opening wrapper keeps for every script, every document and     *)
(* every way a game can call it; and what an evaluation tells of it.       *)
(***************************************************************************)
EXTENDS Rehearsal, TLAPS

LEMMA Division ==
    ASSUME NEW T \in Int, T > 0, NEW n \in Int
    PROVE  n % T = n - T * (n \div T)
OBVIOUS

LEMMA DayAndHour ==
    ASSUME NEW n \in Nat
    PROVE  /\ Day(n) \in Nat
           /\ Hour(n) \in 0 .. TurnsPerDay - 1
           /\ Day(n) * TurnsPerDay + Hour(n) = n
<1>1. TurnsPerDay \in Int /\ TurnsPerDay > 0
  BY CalendarAssumption
<1>2. Hour(n) \in 0 .. TurnsPerDay - 1
  BY <1>1 DEF Hour
<1>3. Day(n) \in Nat
  BY <1>1 DEF Day
<1>4. Hour(n) = n - TurnsPerDay * Day(n)
  BY <1>1, Division DEF Day, Hour
<1>5. TurnsPerDay * Day(n) = Day(n) * TurnsPerDay /\ Day(n) * TurnsPerDay \in Int
  BY <1>1, <1>3
<1>6. Day(n) * TurnsPerDay + Hour(n) = n
  BY <1>2, <1>3, <1>4, <1>5
<1> QED BY <1>2, <1>3, <1>6

LEMMA TurnInjective ==
    ASSUME NEW m \in Nat, NEW n \in Nat, Turn(m) = Turn(n)
    PROVE  m = n
<1>1. Day(m) = Day(n) /\ Hour(m) = Hour(n)
  BY DEF Turn
<1>2. Day(m) * TurnsPerDay + Hour(m) = m /\ Day(n) * TurnsPerDay + Hour(n) = n
  BY DayAndHour
<1> QED BY <1>1, <1>2

\* A turn that is not beyond the script is one of the script's.
LEMMA TurnWithin ==
    ASSUME NEW n \in Nat, ~BeyondScript(Turn(n))
    PROVE  n \in ScriptIndices
<1>1. Day(n) \in Nat /\ Hour(n) \in 0 .. TurnsPerDay - 1
      /\ Day(n) * TurnsPerDay + Hour(n) = n
  BY DayAndHour
<1>2. Days \in Nat /\ TurnsPerDay \in Nat \ {0}
  BY CalendarAssumption
<1>3. Day(n) <= Days - 1
  BY <1>1, <1>2 DEF BeyondScript, Turn
<1>4. Day(n) * TurnsPerDay <= (Days - 1) * TurnsPerDay
  BY <1>1, <1>2, <1>3
<1>5. (Days - 1) * TurnsPerDay = Days * TurnsPerDay - TurnsPerDay
  BY <1>2
<1>6. Days * TurnsPerDay \in Nat /\ Day(n) * TurnsPerDay \in Nat
  BY <1>1, <1>2
<1>7. n < Days * TurnsPerDay
  BY <1>1, <1>2, <1>4, <1>5, <1>6
<1> QED BY <1>6, <1>7 DEF ScriptIndices, ScriptLength

-----------------------------------------------------------------------------
(* The invariant.  The order of the recital rests on the cursor's type,    *)
(* and NeverAhead on the date guard: the game only presents turns it has   *)
(* reached.                                                                *)

Inv == TypeOK /\ RecitesInOrder /\ NeverAhead /\ OneVerdict

\* The turns the game can present.
Presented == {now, now - 1} \cap Nat

LEMMA LengthIsNat == ScriptLength \in Nat
BY CalendarAssumption DEF ScriptLength

\* A date the wrapper takes for the script's is that of the entry at the
\* cursor, which is inside the script and not ahead of the game.
LEMMA OnScriptFacts ==
    ASSUME Inv, NEW o \in Presentable(Presented), OnScript(o)
    PROVE  /\ cursor \in ScriptIndices
           /\ cursor <= now
           /\ o.date = Turn(cursor)
           /\ EntryAt(o.date) = document[cursor]
<1>1. cursor \in Nat /\ now \in Nat
  BY LengthIsNat DEF Inv, TypeOK
<1>2. o.date = Turn(cursor) /\ o.date # None /\ ~BeyondScript(Turn(cursor))
  BY DEF OnScript, Opening, ExpectedTurn
<1>3. PICK n \in Presented : o.date = Turn(n)
  BY <1>2 DEF Presentable
<1>4. n \in Nat /\ n <= now
  BY <1>1 DEF Presented
<1>5. n = cursor
  BY <1>1, <1>2, <1>3, <1>4, TurnInjective
<1>6. cursor \in ScriptIndices
  BY <1>1, <1>2, TurnWithin
<1>7. Turn(cursor)[1] * TurnsPerDay + Turn(cursor)[2] = cursor
  <2>1. Turn(cursor)[1] = Day(cursor) /\ Turn(cursor)[2] = Hour(cursor)
    BY DEF Turn
  <2> QED BY <1>1, <2>1, DayAndHour
<1>8. EntryAt(o.date) = document[cursor]
  BY <1>2, <1>7 DEF EntryAt
<1> QED BY <1>2, <1>4, <1>5, <1>6, <1>8

LEMMA InvInit == Init => Inv
<1> SUFFICES ASSUME Init PROVE Inv
  OBVIOUS
<1>1. TypeOK
  <2>1. document \in [ScriptIndices -> ScriptTurn]
    BY DocumentsAssumption DEF Init
  <2>2. played \in Seq(ScriptTurn) /\ crews \in Seq(Nat)
    BY DEF Init
  <2>3. cursor \in 0 .. ScriptLength
    BY LengthIsNat DEF Init
  <2> QED BY <2>1, <2>2, <2>3 DEF Init, TypeOK
<1>2. RecitesInOrder
  BY DEF Init, RecitesInOrder
<1>3. NeverAhead
  BY DEF Init, NeverAhead
<1>4. OneVerdict
  BY DEF Init, OneVerdict
<1> QED BY <1>1, <1>2, <1>3, <1>4 DEF Inv

\* Dates the game presents are dates.
LEMMA PresentedDates ==
    ASSUME Inv, NEW o \in Presentable(Presented)
    PROVE  /\ o.date \in (Int \X Int) \cup {None}
           /\ o.hands \in Nat
<1>1. ASSUME NEW n \in Presented PROVE Turn(n) \in Int \X Int
  <2>1. n \in Nat
    BY DEF Presented
  <2>2. Day(n) \in Int /\ Hour(n) \in Int
    BY <2>1, DayAndHour, CalendarAssumption
  <2> QED BY <2>2 DEF Turn
<1> QED BY <1>1, BoundsAssumption DEF Presentable

LEMMA ReciteStep ==
    ASSUME Inv, NEW o \in Presentable(Presented), Recite(o),
           UNCHANGED <<now, document>>, asks' \in Nat
    PROVE  Inv'
<1>1. /\ cursor \in ScriptIndices /\ cursor <= now
      /\ o.date = Turn(cursor) /\ EntryAt(o.date) = document[cursor]
  BY OnScriptFacts DEF Recite, Recitable
<1>2. document[cursor] \in ScriptTurn /\ document[cursor].date = Turn(cursor)
  BY <1>1 DEF Inv, TypeOK, Recite, Recitable, EntryUsable
<1>3. /\ cursor' = cursor + 1 /\ turns_replayed' = turns_replayed + 1
      /\ played' = Append(played, document[cursor])
      /\ crews' = Append(crews, document[cursor].hands)
      /\ UNCHANGED <<verdictVars, delegated_calls, now, document>>
  BY <1>1 DEF Recite
<1>4. document[cursor].hands \in Nat
  BY <1>2 DEF ScriptTurn
<1>5. TypeOK'
  <2>1. played' \in Seq(ScriptTurn) /\ crews' \in Seq(Nat)
    BY <1>2, <1>3, <1>4 DEF Inv, TypeOK
  <2>2. cursor' \in 0 .. ScriptLength
    BY <1>1, <1>3, LengthIsNat DEF ScriptIndices
  <2> QED BY <1>3, <2>1, <2>2 DEF Inv, TypeOK, verdictVars
<1>6. Len(played') = Len(played) + 1 /\ Len(crews') = Len(crews) + 1
  BY <1>2, <1>3, <1>4 DEF Inv, TypeOK
<1>7. RecitesInOrder'
  <2>1. /\ turns_replayed' = Len(played') /\ cursor' = Len(played')
        /\ Len(crews') = Len(played')
    BY <1>3, <1>6 DEF Inv, RecitesInOrder
  <2>2. ASSUME NEW i \in 1 .. Len(played')
        PROVE  /\ played'[i] = document'[i - 1]
               /\ played'[i].date = Turn(i - 1)
               /\ crews'[i] = played'[i].hands
    <3>1. CASE i \in 1 .. Len(played)
      <4>1. played'[i] = played[i] /\ crews'[i] = crews[i]
        BY <1>2, <1>3, <1>4, <3>1 DEF Inv, TypeOK, RecitesInOrder
      <4> QED BY <1>3, <3>1, <4>1 DEF Inv, RecitesInOrder
    <3>2. CASE i = Len(played) + 1
      <4>1. played'[i] = document[cursor] /\ crews'[i] = document[cursor].hands
        BY <1>2, <1>3, <1>4, <3>2 DEF Inv, TypeOK, RecitesInOrder
      <4>2. i - 1 = cursor
        BY <3>2 DEF Inv, TypeOK, RecitesInOrder
      <4> QED BY <1>2, <1>3, <4>1, <4>2
    <3> QED BY <1>6, <3>1, <3>2 DEF Inv, TypeOK
  <2> QED BY <2>1, <2>2 DEF RecitesInOrder
<1>8. NeverAhead'
  <2>1. Len(played) = cursor /\ cursor \in Int /\ now \in Int
    BY LengthIsNat DEF Inv, TypeOK, RecitesInOrder
  <2>2. Len(played') <= now + 1
    BY <1>1, <1>6, <2>1
  <2> QED BY <1>3, <2>2 DEF NeverAhead
<1>9. OneVerdict'
  BY <1>3 DEF Inv, OneVerdict, verdictVars
<1> QED BY <1>5, <1>7, <1>8, <1>9 DEF Inv

\* The recital and its parts stay as they are.
LEMMA RecitalKept ==
    ASSUME Inv, UNCHANGED <<scriptVars, document>>, now' \in Nat, now' >= now
    PROVE  RecitesInOrder' /\ NeverAhead'
BY DEF Inv, TypeOK, RecitesInOrder, NeverAhead, scriptVars

\* Every way of giving the seat up, with the verdict it leaves.
LEMMA SeatGivenUp ==
    ASSUME Inv, ~permanent_delegation,
           UNCHANGED <<scriptVars, document, now>>, asks' \in Nat,
           Delegate, permanent_delegation' = TRUE,
           handoff_turn' \in (Int \X Int) \cup {None},
           \/ /\ clean_handoff_done' = TRUE
              /\ UNCHANGED <<divergence_reason, divergence_turn>>
           \/ /\ UNCHANGED clean_handoff_done
              /\ divergence_reason' \in Reasons
              /\ divergence_turn' \in (Int \X Int) \cup {None}
    PROVE  Inv'
<1>1. RecitesInOrder' /\ NeverAhead'
  BY RecitalKept DEF Inv, TypeOK
<1>2. TypeOK'
  <2>1. delegated_calls' \in Nat
    BY DEF Inv, TypeOK, Delegate
  <2>2. /\ clean_handoff_done' \in BOOLEAN
        /\ divergence_reason' \in Reasons \cup {None}
        /\ divergence_turn' \in (Int \X Int) \cup {None}
    BY DEF Inv, TypeOK
  <2> QED BY <2>1, <2>2 DEF Inv, TypeOK, scriptVars
<1>3. divergence_reason = None /\ clean_handoff_done = FALSE
      /\ divergence_turn = None /\ delegated_calls = 0
  BY DEF Inv, TypeOK, OneVerdict
<1>4. OneVerdict'
  BY <1>3, NoneAssumption DEF OneVerdict, Delegate
<1> QED BY <1>1, <1>2, <1>4 DEF Inv

LEMMA DivergeStep ==
    ASSUME Inv, ~permanent_delegation, NEW o \in Presentable(Presented),
           NEW reason \in Reasons, NEW turn \in (Int \X Int) \cup {None},
           Diverge(o, reason, turn),
           UNCHANGED <<document, now>>, asks' \in Nat
    PROVE  Inv'
<1>1. divergence_reason = None
  BY DEF Inv, OneVerdict
<1>2. divergence_reason' = reason /\ divergence_turn' = turn
  BY <1>1 DEF Diverge
<1>3. handoff_turn' \in (Int \X Int) \cup {None}
  BY PresentedDates DEF Inv, TypeOK, Diverge
<1> QED BY <1>2, <1>3, SeatGivenUp DEF Diverge

LEMMA AskStep ==
    ASSUME Inv, NEW o \in Presentable(Presented), Ask(o)
    PROVE  Inv'
<1>1. UNCHANGED <<document, now>> /\ asks' \in Nat
  BY DEF Ask, Inv, TypeOK
<1>2. o.date \in (Int \X Int) \cup {None}
  BY PresentedDates
<1>3. CASE DelegateAgain(o)
  <2>1. RecitesInOrder' /\ NeverAhead'
    BY <1>1, <1>3, RecitalKept DEF DelegateAgain, Inv, TypeOK
  <2>2. TypeOK'
    BY <1>1, <1>3 DEF DelegateAgain, Delegate, Inv, TypeOK, scriptVars, verdictVars
  <2>3. OneVerdict'
    BY <1>3 DEF DelegateAgain, Delegate, Inv, TypeOK, OneVerdict, verdictVars
  <2> QED BY <2>1, <2>2, <2>3 DEF Inv
<1>4. CASE HandOff(o)
  BY <1>1, <1>2, <1>4, SeatGivenUp DEF HandOff, Opening
<1>5. CASE MalformedPhase(o)
  BY <1>1, <1>5, DivergeStep DEF MalformedPhase, Reasons
<1>6. CASE PhaseMismatch(o)
  BY <1>1, <1>2, <1>6, DivergeStep DEF PhaseMismatch, Opening, Reasons
<1>7. CASE ActionInvalid(o)
  BY <1>1, <1>2, <1>7, DivergeStep DEF ActionInvalid, OnScript, Opening, Reasons
<1>8. CASE ObservationIncomplete(o)
  BY <1>1, <1>2, <1>8, DivergeStep
     DEF ObservationIncomplete, OnScript, Opening, Reasons
<1>9. CASE HandCountMismatch(o)
  BY <1>1, <1>2, <1>9, DivergeStep
     DEF HandCountMismatch, Recitable, OnScript, Opening, Reasons
<1>10. CASE RaiseTypeError(o)
  <2>1. RecitesInOrder' /\ NeverAhead'
    BY <1>1, <1>10, RecitalKept DEF RaiseTypeError, Inv, TypeOK
  <2>2. TypeOK' /\ OneVerdict'
    BY <1>1, <1>10 DEF RaiseTypeError, Inv, TypeOK, OneVerdict, scriptVars, verdictVars
  <2> QED BY <2>1, <2>2 DEF Inv
<1>11. CASE Recite(o)
  BY <1>1, <1>11, ReciteStep
<1> QED
  BY <1>3, <1>4, <1>5, <1>6, <1>7, <1>8, <1>9, <1>10, <1>11 DEF Ask, Answer

LEMMA InvNext == Inv /\ [Next]_vars => Inv'
<1> SUFFICES ASSUME Inv, [Next]_vars PROVE Inv'
  OBVIOUS
<1>1. CASE AskAny
  BY <1>1, AskStep DEF AskAny, Presented
<1>2. CASE Tick
  <2>1. RecitesInOrder' /\ NeverAhead'
    BY <1>2, RecitalKept DEF Tick, Inv, TypeOK
  <2>2. TypeOK' /\ OneVerdict'
    BY <1>2 DEF Tick, Inv, TypeOK, OneVerdict, scriptVars, verdictVars
  <2> QED BY <2>1, <2>2 DEF Inv
<1>3. CASE UNCHANGED vars
  BY <1>3 DEF vars, gameVars, scriptVars, verdictVars,
       Inv, TypeOK, RecitesInOrder, NeverAhead, OneVerdict
<1> QED BY <1>1, <1>2, <1>3 DEF Next, GameOver

LEMMA Invariance == Spec => []Inv
<1> QED BY InvInit, InvNext, PTL DEF Spec

-----------------------------------------------------------------------------
(* Theorems. *)

\* OpeningAgent's counters, flags and recorded turns keep to their types.
THEOREM OpeningTyped == Spec => []TypeOK
<1>1. Inv => TypeOK
  BY DEF Inv
<1> QED BY <1>1, Invariance, PTL

\* Whatever calls are missed, repeated, late or garbled, the turns answered
\* from the script are its first ones, in order, at their dates and with the
\* hands they need (the cursor of OpeningAgent.__call__).
THEOREM RecitalInOrder == Spec => []RecitesInOrder
<1>1. Inv => RecitesInOrder
  BY DEF Inv
<1> QED BY <1>1, Invariance, PTL

\* No turn is answered before the game reaches it or twice.
THEOREM RecitalBehindGame == Spec => []NeverAhead
<1>1. Inv => NeverAhead
  BY DEF Inv
<1> QED BY <1>1, Invariance, PTL

\* The seat is given up with exactly one verdict (_handoff and _diverge).
THEOREM VerdictUnique == Spec => []OneVerdict
<1>1. Inv => OneVerdict
  BY DEF Inv
<1> QED BY <1>1, Invariance, PTL

-----------------------------------------------------------------------------
(* The acceptance of a game, and the promise. *)

\* A recorded handoff names a turn the game has reached.
HandoffReached ==
    handoff_turn # None => \E n \in Nat : n <= now /\ handoff_turn = Turn(n)

HandoffInv == HandoffReached /\ ValidatedNotBlamed

LEMMA HandoffInvNext == Inv /\ HandoffInv /\ [Next]_vars => HandoffInv'
<1> SUFFICES ASSUME Inv, HandoffInv, [Next]_vars PROVE HandoffInv'
  OBVIOUS
<1>1. ASSUME NEW o \in Presentable(Presented), Ask(o) PROVE HandoffInv'
  <2>1. UNCHANGED <<document, now>> /\ now \in Nat
    BY <1>1 DEF Ask, Inv, TypeOK
  <2>2. o.date # None => \E n \in Nat : n <= now /\ o.date = Turn(n)
    BY <2>1 DEF Presentable, Presented
  <2>3. HandoffReached'
    <3>1. handoff_turn' = handoff_turn \/ handoff_turn' = o.date
      BY <1>1 DEF Ask, Answer, DelegateAgain, MalformedPhase, HandOff,
        PhaseMismatch, ActionInvalid, ObservationIncomplete,
        HandCountMismatch, RaiseTypeError, Recite, Diverge, verdictVars
    <3> QED BY <2>1, <2>2, <3>1 DEF HandoffInv, HandoffReached
  <2>4. ValidatedNotBlamed'
    <3>1. CASE ActionInvalid(o)
      <4>1. /\ cursor \in ScriptIndices /\ o.date = Turn(cursor)
            /\ EntryAt(o.date) = document[cursor]
        BY <3>1, OnScriptFacts DEF ActionInvalid
      <4>2. ~(document[cursor].date = Turn(cursor) /\ document[cursor].wellFormed)
        BY <3>1, <4>1 DEF ActionInvalid, EntryUsable
      <4> QED BY <2>1, <4>1, <4>2 DEF ValidatedNotBlamed, Validated
    <3>2. CASE ~ActionInvalid(o)
      <4>1. divergence_reason' = divergence_reason
              \/ divergence_reason' # "action_invalid"
        BY <1>1, <3>2 DEF Ask, Answer, DelegateAgain, MalformedPhase, HandOff,
          PhaseMismatch, ObservationIncomplete,
          HandCountMismatch, RaiseTypeError, Recite, Diverge, verdictVars
      <4> QED BY <2>1, <4>1 DEF HandoffInv, ValidatedNotBlamed, Validated
    <3> QED BY <3>1, <3>2
  <2> QED BY <2>3, <2>4 DEF HandoffInv
<1>2. CASE AskAny
  BY <1>1, <1>2 DEF AskAny, Presented
<1>3. CASE Tick
  BY <1>3 DEF Tick, verdictVars, Inv, TypeOK, HandoffInv, HandoffReached,
    ValidatedNotBlamed, Validated
<1>4. CASE UNCHANGED vars
  BY <1>4 DEF vars, gameVars, verdictVars, HandoffInv, HandoffReached,
    ValidatedNotBlamed, Validated
<1> QED BY <1>2, <1>3, <1>4 DEF Next, GameOver

LEMMA HandoffInvariance == Spec => []HandoffInv
<1>1. Init => HandoffInv
  BY NoneAssumption
     DEF Init, HandoffInv, HandoffReached, ValidatedNotBlamed, Reasons
<1> QED BY <1>1, HandoffInvNext, Invariance, PTL DEF Spec

\* The wrapper never refuses an action of a document that validate_trace has
\* accepted, however the game calls it.
THEOREM ValidatedDocumentsPlay == Spec => []ValidatedNotBlamed
<1>1. HandoffInv => ValidatedNotBlamed
  BY DEF HandoffInv
<1> QED BY <1>1, HandoffInvariance, PTL

\* A game run_opening_game accepts was played from the whole script and
\* handed over at the turn after it.
THEOREM AcceptanceSound == Spec => []AcceptedIsWholeScript
<1>1. ASSUME Inv, HandoffInv, Accepted
      PROVE  /\ played = [i \in 1 .. ScriptLength |-> document[i - 1]]
             /\ now >= ScriptLength
             /\ delegated_calls > 0
  <2>1. Len(played) = ScriptLength
    BY <1>1 DEF Inv, RecitesInOrder, Accepted
  <2>2. played = [i \in 1 .. ScriptLength |-> played[i]]
    BY <1>1, <2>1 DEF Inv, TypeOK
  <2>3. \A i \in 1 .. ScriptLength : played[i] = document[i - 1]
    BY <1>1, <2>1 DEF Inv, RecitesInOrder
  <2>4. played = [i \in 1 .. ScriptLength |-> document[i - 1]]
    BY <2>2, <2>3
  <2>5. now >= ScriptLength
    <3>1. handoff_turn # None
      BY <1>1, NoneAssumption, CalendarAssumption DEF Accepted
    <3>2. PICK n \in Nat : n <= now /\ <<Days, 0>> = Turn(n)
      BY <1>1, <3>1 DEF HandoffInv, HandoffReached, Accepted
    <3>3. Day(n) = Days /\ Hour(n) = 0
      BY <3>2 DEF Turn
    <3>4. Days * TurnsPerDay + 0 = n
      BY <3>3, DayAndHour
    <3> QED BY <1>1, <3>2, <3>4, CalendarAssumption DEF ScriptLength, Inv, TypeOK
  <2>6. delegated_calls > 0
    BY <1>1 DEF Inv, OneVerdict, Accepted
  <2> QED BY <2>4, <2>5, <2>6
<1>2. Inv /\ HandoffInv => AcceptedIsWholeScript
  BY <1>1 DEF AcceptedIsWholeScript
<1> QED BY <1>2, Invariance, HandoffInvariance, PTL

-----------------------------------------------------------------------------
(* The refinement.  By RecitesInOrder the turns read from the dates of the *)
(* answers are 0, 1, 2, ..., so each recital appends the next number.      *)

Recited ==
    [i \in 1 .. Len(played) |->
        played[i].date[1] * TurnsPerDay + played[i].date[2]]

Counted(n) == [i \in 1 .. n |-> i - 1]

LEMMA RecitedCounted == Inv => Recited = Counted(Len(played))
<1> SUFFICES ASSUME Inv PROVE Recited = Counted(Len(played))
  OBVIOUS
<1>1. ASSUME NEW i \in 1 .. Len(played)
      PROVE  played[i].date[1] * TurnsPerDay + played[i].date[2] = i - 1
  <2>1. i - 1 \in Nat
    BY DEF Inv, TypeOK
  <2>2. played[i].date = Turn(i - 1)
    BY DEF Inv, RecitesInOrder
  <2>3. played[i].date[1] = Day(i - 1) /\ played[i].date[2] = Hour(i - 1)
    BY <2>2 DEF Turn
  <2> QED BY <2>1, <2>3, DayAndHour
<1> QED BY <1>1 DEF Recited, Counted

LEMMA AsFunction ==
    ASSUME NEW S, NEW s \in Seq(S), NEW m \in Nat, Len(s) = m
    PROVE  s = [i \in 1 .. m |-> s[i]]
OBVIOUS

LEMMA CountOn ==
    ASSUME NEW n \in Nat
    PROVE  /\ Counted(n + 1) = Append(Counted(n), n)
           /\ Len(Counted(n)) = n
<1>1. Counted(n) \in Seq(Int) /\ Len(Counted(n)) = n
  BY DEF Counted
<1>2. Append(Counted(n), n) = [i \in 1 .. n + 1 |-> i - 1]
  <2>1. Append(Counted(n), n) \in Seq(Int) /\ Len(Append(Counted(n), n)) = n + 1
    BY <1>1
  <2>2. ASSUME NEW i \in 1 .. n + 1 PROVE Append(Counted(n), n)[i] = i - 1
    <3>1. CASE i \in 1 .. n
      BY <1>1, <3>1 DEF Counted
    <3>2. CASE i = n + 1
      BY <1>1, <3>2
    <3>3. i \in 1 .. n \/ i = n + 1
      OBVIOUS
    <3> QED BY <3>1, <3>2, <3>3, Zenon
  <2>3. Append(Counted(n), n) = [i \in 1 .. n + 1 |-> Append(Counted(n), n)[i]]
    <3> DEFINE s == Append(Counted(n), n)
    <3>1. s \in Seq(Int) /\ Len(s) = n + 1 /\ n + 1 \in Nat
      BY <2>1
    <3> HIDE DEF s
    <3>2. s = [i \in 1 .. n + 1 |-> s[i]]
      BY <3>1, AsFunction
    <3> QED BY <3>2 DEF s
  <2> QED BY <2>2, <2>3
<1> QED BY <1>1, <1>2 DEF Counted

\* OpeningAgent implements a script recited from its beginning that gives its
\* seat up once and for good (module Playback).
THEOREM OpeningKeepsPromise == Spec => KeepsPromise
<1> DEFINE Seated == IF permanent_delegation THEN "successor" ELSE "script"
<1>1. Init => ScriptThenSuccessor!Init
  BY DEF Init, ScriptThenSuccessor!Init
<1>2. ASSUME Inv, Inv', [Next]_vars PROVE [ScriptThenSuccessor!Next]_ScriptThenSuccessor!vars
  <2>1. ASSUME NEW o \in Presentable(Presented), Recite(o), UNCHANGED document
        PROVE  ScriptThenSuccessor!Recite
    <3>1. Len(played) = cursor /\ cursor \in Nat /\ cursor < ScriptLength
          /\ Len(played') = cursor + 1 /\ ~permanent_delegation /\ ~permanent_delegation'
      BY <1>2, <2>1, OnScriptFacts, LengthIsNat
         DEF Recite, Recitable, OnScript, Opening, Inv, TypeOK, RecitesInOrder,
             ScriptIndices, verdictVars
    <3>2. Recited = Counted(cursor)
      BY <1>2, <3>1, RecitedCounted
    <3>3. Recited' = Counted(cursor + 1)
      <4>1. Inv' => (Recited = Counted(Len(played)))'
        BY RecitedCounted, PTL
      <4>2. Recited' = Counted(Len(played'))
        BY <1>2, <4>1 DEF Counted
      <4> QED BY <3>1, <4>2
    <3>4. Recited' = Append(Recited, Len(Recited)) /\ Len(Recited) < ScriptLength
      BY <3>1, <3>2, <3>3, CountOn
    <3> QED BY <3>1, <3>4 DEF ScriptThenSuccessor!Recite, Recited
  <2>2. CASE played' = played /\ ~permanent_delegation /\ permanent_delegation'
    BY <2>2 DEF ScriptThenSuccessor!Next, ScriptThenSuccessor!GiveUpSeat
  <2>3. CASE played' = played /\ permanent_delegation' = permanent_delegation
    BY <2>3 DEF ScriptThenSuccessor!vars
  <2>4. ASSUME NEW o \in Presentable(Presented), Ask(o)
        PROVE  \/ Recite(o) /\ UNCHANGED document
               \/ played' = played /\ (permanent_delegation => permanent_delegation')
    BY <2>4 DEF Ask, Answer, DelegateAgain, MalformedPhase, HandOff,
      PhaseMismatch, ActionInvalid, ObservationIncomplete, HandCountMismatch,
      RaiseTypeError, Diverge, verdictVars, scriptVars
  <2>5. permanent_delegation \in BOOLEAN /\ permanent_delegation' \in BOOLEAN
    BY <1>2 DEF Inv, TypeOK
  <2>6. CASE AskAny
    BY <2>1, <2>2, <2>3, <2>4, <2>5, <2>6
       DEF AskAny, Presented, ScriptThenSuccessor!Next
  <2>7. CASE Tick \/ UNCHANGED vars
    BY <2>3, <2>7 DEF Tick, vars, scriptVars, verdictVars
  <2> QED BY <1>2, <2>6, <2>7 DEF Next, GameOver
<1> QED
  BY <1>1, <1>2, Invariance, PTL DEF Spec, KeepsPromise, ScriptThenSuccessor!Spec

\* The six invariants of the wrapper together.
THEOREM OpeningHolds == Spec => []OpeningOK
BY OpeningTyped, RecitalInOrder, RecitalBehindGame, VerdictUnique, ValidatedDocumentsPlay,
   AcceptanceSound, PTL DEF OpeningOK

-----------------------------------------------------------------------------
(* The evaluation around the wrapper.  It only watches the game, so that   *)
(* what holds of the wrapper holds of it in an evaluation.                 *)

LEMMA RehearsalStep == [RehearsalNext]_played_on => [Next]_vars
<1>1. Evaluates => UNCHANGED vars
  BY DEF Evaluates, Start, Begin, Judge, OtherGame, FactoryRaises, Return
<1>2. Rehearse => Next
  BY DEF Rehearse, Next
<1>3. UNCHANGED played_on => UNCHANGED vars
  BY DEF played_on
<1> QED BY <1>1, <1>2, <1>3 DEF RehearsalNext

\* An evaluation's game is one of OpeningAgent's games.
THEOREM RehearsalIsOpening == RehearsalSpec => Spec
<1>1. RehearsalInit => Init
  BY DEF RehearsalInit
<1> QED BY <1>1, RehearsalStep, PTL DEF RehearsalSpec, Spec

\* The script is the recording's throughout.
CutOut ==
    source # None => /\ source \in Recordings /\ Extractable(source)
                     /\ document = Extracted(source)

LEMMA DocumentKept == [Next]_vars => UNCHANGED document
BY DEF Next, AskAny, Ask, Tick, GameOver, vars

LEMMA CutOutStep == CutOut /\ [RehearsalNext]_played_on => CutOut'
<1>1. [RehearsalNext]_played_on => UNCHANGED source
  BY DEF RehearsalNext, Evaluates, Start, Begin, Judge, OtherGame, FactoryRaises, Return,
     Rehearse, played_on, evaluation
<1>2. [RehearsalNext]_played_on => UNCHANGED document
  BY RehearsalStep, DocumentKept
<1> QED BY <1>1, <1>2 DEF CutOut

LEMMA CutOutAlways == RehearsalSpec => []CutOut
<1>1. RehearsalInit => CutOut
  BY DEF RehearsalInit, CutOut
<1> QED BY <1>1, CutOutStep, PTL DEF RehearsalSpec

\* Provided the recorded seats ordered about all their hands, what is recited
\* is what the recorded seat did in that hour.
LEMMA RecitedAsRecorded ==
    ASSUME OrdersEveryHand, Inv, CutOut
    PROVE  RecitesRecording
<1> SUFFICES ASSUME source # None, NEW i \in 1 .. Len(crews)
             PROVE  crews[i] = source.steps[HourIndex(source.steps, Turn(i - 1))].crew
  BY DEF RecitesRecording
<1> DEFINE n == i - 1
           at == HourIndex(source.steps, Turn(n))
<1>1. Len(crews) = Len(played) /\ Len(played) = cursor /\ cursor \in 0 .. ScriptLength
  BY DEF Inv, RecitesInOrder, TypeOK
<1>2. n \in ScriptIndices /\ i \in 1 .. Len(played)
  BY <1>1, LengthIsNat DEF ScriptIndices
<1>3. crews[i] = played[i].hands /\ played[i] = document[n]
  BY <1>2 DEF Inv, RecitesInOrder
<1>4. source \in Recordings /\ Extractable(source) /\ document = Extracted(source)
  BY DEF CutOut
<1>5. document[n].hands = source.steps[at + 1].hands
  BY <1>2, <1>4 DEF Extracted, ActingStep
<1>6. at \in 1 .. (Len(source.steps) - 1)
  BY <1>2, <1>4 DEF Extractable
<1>7. source.steps[at + 1].hands = source.steps[at].crew
  BY <1>4, <1>6 DEF OrdersEveryHand
<1> QED BY <1>3, <1>5, <1>7

-----------------------------------------------------------------------------
(* The exit code.  overall_ok, the lines and the number of games left tell *)
(* one story while the games go on.                                        *)

Verdict == [passed : BOOLEAN, whole : BOOLEAN]
NewLines == 2 .. Len(lines)

LinesTrue ==
    /\ lines \in Seq(Verdict) /\ Len(lines) >= 1 /\ lines[1] = Former
    /\ \A k \in NewLines : lines[k].passed => lines[k].whole
    /\ overall_ok \in BOOLEAN
    /\ overall_ok <=> \A k \in NewLines : lines[k].passed

\* Where the evaluation stands.
Underway ==
    /\ stage \in {"main", "games", "game", "ended"}
    /\ stage = "main" => lines = <<Former>>
    /\ stage # "ended" => exit = None
    /\ stage \in {"games", "game"} =>
          /\ request.seeds \in Nat /\ games \in 0 .. request.seeds
          /\ Len(lines) = 1 + request.seeds - games
    /\ stage = "game" => games >= 1

ExitInv == LinesTrue /\ Underway /\ ExitTellsVerdicts

LEMMA WrittenTrue ==
    ASSUME LinesTrue, NEW passed \in BOOLEAN, NEW whole \in BOOLEAN, passed => whole,
           Written(passed, whole)
    PROVE  LinesTrue' /\ Len(lines') = Len(lines) + 1
<1> DEFINE line == [passed |-> passed, whole |-> whole]
<1>1. line \in Verdict /\ line.passed = passed /\ line.whole = whole
  BY DEF Verdict
<1>2. lines' = Append(lines, line) /\ overall_ok' = (overall_ok /\ passed)
  BY DEF Written, Judged
<1> HIDE DEF line
<1>3. /\ lines' \in Seq(Verdict) /\ Len(lines') = Len(lines) + 1 /\ Len(lines) \in Nat
      /\ \A k \in 1 .. Len(lines) : lines'[k] = lines[k]
      /\ lines'[Len(lines) + 1] = line
  BY <1>1, <1>2 DEF LinesTrue
<1>4. lines'[1] = Former
  BY <1>3 DEF LinesTrue
<1>5. ASSUME NEW k \in 2 .. Len(lines') PROVE k \in NewLines \/ k = Len(lines) + 1
  BY <1>3, <1>5 DEF NewLines
<1>6. ASSUME NEW k \in 2 .. Len(lines') PROVE lines'[k].passed => lines'[k].whole
  <2>1. CASE k \in NewLines
    BY <1>3, <2>1 DEF LinesTrue, NewLines
  <2>2. CASE k = Len(lines) + 1
    BY <1>1, <1>3, <2>2
  <2> QED BY <1>5, <2>1, <2>2
<1>7. overall_ok' \in BOOLEAN
  BY <1>2
<1>8. overall_ok' <=> \A k \in 2 .. Len(lines') : lines'[k].passed
  <2>1. Len(lines) + 1 \in 2 .. Len(lines')
    BY <1>3 DEF LinesTrue
  <2>2. \A k \in NewLines : k \in 2 .. Len(lines') /\ lines'[k] = lines[k]
    BY <1>3 DEF NewLines
  <2>3. ASSUME overall_ok, passed, NEW k \in 2 .. Len(lines') PROVE lines'[k].passed
    BY <1>1, <1>3, <1>5, <2>2, <2>3 DEF LinesTrue
  <2>4. ASSUME \A k \in 2 .. Len(lines') : lines'[k].passed PROVE overall_ok /\ passed
    <3>1. passed
      BY <1>1, <1>3, <2>1, <2>4
    <3>2. \A k \in NewLines : lines[k].passed
      BY <2>2, <2>4
    <3> QED BY <3>1, <3>2 DEF LinesTrue
  <2> QED BY <1>2, <2>3, <2>4
<1> QED BY <1>3, <1>4, <1>6, <1>7, <1>8 DEF LinesTrue, NewLines

LEMMA ExitInit == RehearsalInit => ExitInv
<1> SUFFICES ASSUME RehearsalInit PROVE ExitInv
  OBVIOUS
<1>1. Former \in Verdict
  BY DEF Former, Verdict
<1>2. lines = <<Former>> /\ exit = None /\ stage = "main" /\ overall_ok = TRUE
  BY DEF RehearsalInit
<1>3. lines \in Seq(Verdict) /\ Len(lines) = 1 /\ lines[1] = Former
  BY <1>1, <1>2
<1>4. LinesTrue
  BY <1>2, <1>3 DEF LinesTrue, NewLines
<1>5. Underway
  BY <1>2 DEF Underway
<1>6. ExitTellsVerdicts
  BY <1>2, <1>3, RehearsalAssumption DEF ExitTellsVerdicts
<1> QED BY <1>4, <1>5, <1>6 DEF ExitInv

LEMMA StartKeeps == ExitInv /\ Start => ExitInv'
<1> SUFFICES ASSUME ExitInv, Start PROVE ExitInv'
  OBVIOUS
<1>1. PICK args \in CommandLines : request' = Request(args)
  BY DEF Start
<1>2. request'.seeds \in Nat
  BY <1>1, RehearsalAssumption DEF CommandLines, Request
<1>3. lines' = lines /\ overall_ok' = overall_ok /\ lines = <<Former>>
  BY DEF Start, ExitInv, Underway
<1>4. LinesTrue'
  BY <1>3 DEF ExitInv, LinesTrue, NewLines
<1>5. \/ exit' \in {2, 3} /\ stage' = "ended"
      \/ exit' = None /\ stage' = "games" /\ games' = request'.seeds
  BY DEF Start, Request
<1>6. Len(lines) = 1
  BY <1>3
<1>7. Underway'
  BY <1>2, <1>3, <1>5, <1>6 DEF Underway
<1>8. ExitTellsVerdicts'
  BY <1>3, <1>5, <1>4, RehearsalAssumption DEF ExitTellsVerdicts, LinesTrue
<1> QED BY <1>4, <1>7, <1>8 DEF ExitInv

\* While the exit code is None it tells nothing.
LEMMA NoExitYet == exit = None /\ LinesTrue => ExitTellsVerdicts
BY RehearsalAssumption DEF ExitTellsVerdicts, LinesTrue

LEMMA JudgeKeeps == ExitInv /\ AcceptedIsWholeScript /\ Judge => ExitInv'
<1> SUFFICES ASSUME ExitInv, AcceptedIsWholeScript, Judge PROVE ExitInv'
  OBVIOUS
<1>1. PICK summary \in Summaries, besides \in BOOLEAN :
          Written(Accepted /\ ~anomalous /\ ~besides /\ InEnvelope(summary),
                  played = [i \in 1 .. ScriptLength |-> document[i - 1]]
                    /\ delegated_calls > 0)
  BY DEF Judge
<1> DEFINE passed == Accepted /\ ~anomalous /\ ~besides /\ InEnvelope(summary)
           whole == played = [i \in 1 .. ScriptLength |-> document[i - 1]]
                      /\ delegated_calls > 0
<1>2. passed => whole
  BY DEF AcceptedIsWholeScript
<1>3. Written(passed, whole)
  BY <1>1
<1>4. passed \in BOOLEAN /\ whole \in BOOLEAN
  OBVIOUS
<1> HIDE DEF passed, whole
<1>5. LinesTrue' /\ Len(lines') = Len(lines) + 1
  BY <1>2, <1>3, <1>4, WrittenTrue DEF ExitInv
<1>6. games' = games - 1
  BY <1>3 DEF Written
<1>7. stage = "game" /\ stage' = "games" /\ UNCHANGED <<request, exit>>
  BY DEF Judge
<1>8. /\ exit = None /\ request.seeds \in Nat /\ games \in 0 .. request.seeds /\ games >= 1
      /\ Len(lines) = 1 + request.seeds - games
  BY <1>7 DEF ExitInv, Underway
<1>9. games' \in 0 .. request'.seeds /\ Len(lines') = 1 + request'.seeds - games'
      /\ request'.seeds \in Nat
  BY <1>5, <1>6, <1>7, <1>8 DEF ExitInv, LinesTrue
<1>10. Underway'
  BY <1>7, <1>8, <1>9 DEF Underway
<1>11. ExitTellsVerdicts'
  BY <1>5, <1>7, <1>8, RehearsalAssumption DEF ExitTellsVerdicts, LinesTrue
<1> QED BY <1>5, <1>10, <1>11 DEF ExitInv

LEMMA OtherGameKeeps == ExitInv /\ OtherGame => ExitInv'
<1> SUFFICES ASSUME ExitInv, OtherGame PROVE ExitInv'
  OBVIOUS
<1>1. PICK passed \in BOOLEAN : Written(passed, passed)
  BY DEF OtherGame
<1>2. LinesTrue' /\ Len(lines') = Len(lines) + 1
  BY <1>1, WrittenTrue DEF ExitInv
<1>3. games' = games - 1
  BY <1>1 DEF Written
<1>4. stage = "games" /\ UNCHANGED <<request, stage, exit>> /\ games \in 1 .. (request.seeds - 1)
  BY DEF OtherGame
<1>5. /\ exit = None /\ request.seeds \in Nat /\ games \in 0 .. request.seeds
      /\ Len(lines) = 1 + request.seeds - games
  BY <1>4 DEF ExitInv, Underway
<1>6. games' \in 0 .. request'.seeds /\ Len(lines') = 1 + request'.seeds - games'
      /\ request'.seeds \in Nat
  BY <1>2, <1>3, <1>4, <1>5 DEF ExitInv, LinesTrue
<1>7. Underway'
  BY <1>4, <1>5, <1>6 DEF Underway
<1>8. ExitTellsVerdicts'
  BY <1>2, <1>4, <1>5, RehearsalAssumption DEF ExitTellsVerdicts, LinesTrue
<1> QED BY <1>2, <1>7, <1>8 DEF ExitInv

\* The invocation ends, with all its games told or by a factory that raised.
LEMMA EndKeeps == ExitInv /\ (FactoryRaises \/ Return) => ExitInv'
<1> SUFFICES ASSUME ExitInv, FactoryRaises \/ Return PROVE ExitInv'
  OBVIOUS
<1>1. stage = "games" /\ stage' = "ended" /\ UNCHANGED <<request, games, overall_ok, lines>>
  BY DEF FactoryRaises, Return
<1>2. /\ request.seeds \in Nat /\ games \in 0 .. request.seeds
      /\ Len(lines) = 1 + request.seeds - games
  BY <1>1 DEF ExitInv, Underway
<1>3. LinesTrue'
  BY <1>1 DEF ExitInv, LinesTrue, NewLines
<1>4. Underway'
  BY <1>1 DEF Underway
<1>5. ExitTellsVerdicts'
  <2>1. CASE FactoryRaises
    <3>1. exit' = 1 /\ Len(lines') < 1 + request'.seeds
      BY <1>1, <1>2, <2>1 DEF FactoryRaises
    <3> QED BY <1>3, <3>1 DEF ExitTellsVerdicts, LinesTrue
  <2>2. CASE Return
    <3>1. Len(lines') = 1 + request'.seeds
      BY <1>1, <1>2, <2>2 DEF Return
    <3>2. exit' = IF overall_ok THEN 0 ELSE 1
      BY <2>2 DEF Return
    <3> QED BY <1>1, <1>3, <3>1, <3>2 DEF ExitTellsVerdicts, LinesTrue, NewLines
  <2> QED BY <2>1, <2>2
<1> QED BY <1>3, <1>4, <1>5 DEF ExitInv

LEMMA ExitStep == ExitInv /\ AcceptedIsWholeScript /\ [RehearsalNext]_played_on => ExitInv'
<1> SUFFICES ASSUME ExitInv, AcceptedIsWholeScript, [RehearsalNext]_played_on PROVE ExitInv'
  OBVIOUS
<1>1. CASE Begin
  BY <1>1 DEF Begin, ExitInv, LinesTrue, NewLines, Underway, ExitTellsVerdicts
<1>2. CASE Rehearse
  BY <1>2 DEF Rehearse, ExitInv, LinesTrue, NewLines, Underway, ExitTellsVerdicts
<1>3. CASE UNCHANGED played_on
  BY <1>3 DEF played_on, evaluation, ExitInv, LinesTrue, NewLines, Underway, ExitTellsVerdicts
<1> QED BY <1>1, <1>2, <1>3, StartKeeps, JudgeKeeps, OtherGameKeeps, EndKeeps
        DEF RehearsalNext, Evaluates

-----------------------------------------------------------------------------
\* The wrapper's invariants hold in every evaluation (OpeningAgent called from
\* run_opening_game).
THEOREM OpeningHoldsRehearsed == RehearsalSpec => []OpeningOK
BY RehearsalIsOpening, OpeningHolds

\* A script recited from its beginning, then its successor: in every evaluation
\* (OpeningAgent called from run_opening_game).
THEOREM PromiseKeptRehearsed == RehearsalSpec => KeepsPromise
BY RehearsalIsOpening, OpeningKeepsPromise

\* The exit code tells the verdicts, whatever fails on the way (main and
\* run_opening_game of opening_book/eval.py).
THEOREM ExitIsTrue == RehearsalSpec => []ExitTellsVerdicts
<1>1. OpeningOK => AcceptedIsWholeScript
  BY DEF OpeningOK
<1>2. ExitInv => ExitTellsVerdicts
  BY DEF ExitInv
<1> QED BY <1>1, <1>2, ExitInit, ExitStep, OpeningHoldsRehearsed, PTL DEF RehearsalSpec

\* The opening book around its wrapper, for every script cut out of a recording
\* whose seat ordered about all its hands (extract_opening_trace, main).
THEOREM RehearsalHolds == ASSUME OrdersEveryHand PROVE RehearsalSpec => []RehearsalSound
<1>1. Inv /\ CutOut => RecitesRecording
  BY RecitedAsRecorded
<1>2. RehearsalSpec => []Inv
  BY RehearsalIsOpening, Invariance
<1>3. RehearsalSound <=> RecitesRecording /\ ExitTellsVerdicts
  BY DEF RehearsalSound
<1> QED BY <1>1, <1>2, <1>3, CutOutAlways, ExitIsTrue, PTL
=============================================================================
