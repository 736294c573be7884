------------------------------ MODULE Opening -------------------------------
(***************************************************************************)
(* The opening book's runtime wrapper (opening_book/agent.py): it replays  *)
(* a recorded script for the first days of a game and then, or as soon as  *)
(* the game is not the one that was recorded, leaves the seat to the agent *)
(* downstream.  The game around it (an engine that is not part of the      *)
(* wrapper) moves its clock, and may ask the wrapper several times in one  *)
(* turn, not at all, late, or with an observation that lacks something.    *)
(***************************************************************************)
EXTENDS Integers, Sequences

CONSTANTS
    None,           \* Python's None
    Days,           \* days 0 .. LAST_DAY of the script
    TurnsPerDay,
    Documents,      \* the trace documents a wrapper may be built with
    MaxHands,       \* bound: hands in an observation
    MaxAsks,        \* bound: calls during one turn of the game
    LastTurn        \* bound: the game's last turn

ASSUME CalendarAssumption ==
    /\ Days \in Nat \ {0}
    /\ TurnsPerDay \in Nat \ {0}

ScriptLength == Days * TurnsPerDay
ScriptIndices == 0 .. ScriptLength - 1

Day(n) == n \div TurnsPerDay
Hour(n) == n % TurnsPerDay
Turn(n) == <<Day(n), Hour(n)>>

\* One recorded turn: its date, the hands its action orders about, and
\* whether the action has the shape and the number of market orders allowed.
ScriptTurn == [date : Int \X Int, hands : Nat, wellFormed : BOOLEAN]

ASSUME DocumentsAssumption == Documents \subseteq [ScriptIndices -> ScriptTurn]

ASSUME BoundsAssumption ==
    /\ MaxHands \in Nat
    /\ MaxAsks \in Nat
    /\ LastTurn \in Nat

\* validate_trace: every turn at its date, every action well formed.
Validated(document) ==
    \A i \in ScriptIndices :
        document[i].date = Turn(i) /\ document[i].wellFormed

Reasons ==
    {"malformed_phase", "phase_mismatch", "hand_count_mismatch",
     "action_invalid", "observation_incomplete"}

ASSUME NoneAssumption == None \notin Reasons /\ None \notin Int \X Int

-----------------------------------------------------------------------------
(* What a call can be given.  date is None when day and hour do not parse; *)
(* farm tells what stands in place of the seat's list of hands: nothing,   *)
(* because the whole farm is missing; a list; another value with a length; *)
(* a value without one, such as a number.                                  *)

HandsReadings == {"no farm", "list", "sized", "unsized"}

Observation ==
    [date : (Int \X Int) \cup {None}, farm : HandsReadings, hands : Nat]

Presentable(turns) ==
    [date : {Turn(n) : n \in turns} \cup {None},
     farm : HandsReadings, hands : 0 .. MaxHands]

VARIABLES
    now,                  \* the game's clock
    asks,                 \* calls since the clock moved
    document,             \* self._trace
    cursor,               \* index of the turn expected next
    turns_replayed,
    delegated_calls,
    permanent_delegation,
    clean_handoff_done,
    divergence_reason,
    divergence_turn,
    handoff_turn,
    played,               \* history: the turns answered from the script
    crews                 \* history: the hands observed at each of them

gameVars == <<now, asks>>
scriptVars == <<cursor, turns_replayed, played, crews>>
verdictVars ==
    <<permanent_delegation, clean_handoff_done, divergence_reason,
      divergence_turn, handoff_turn>>
vars == <<gameVars, scriptVars, verdictVars, document, delegated_calls>>

Init ==
    /\ now = 0 /\ asks = 0
    /\ document \in Documents
    /\ cursor = 0 /\ turns_replayed = 0 /\ played = <<>> /\ crews = <<>>
    /\ delegated_calls = 0
    /\ permanent_delegation = FALSE /\ clean_handoff_done = FALSE
    /\ divergence_reason = None /\ divergence_turn = None
    /\ handoff_turn = None

-----------------------------------------------------------------------------
(* The guards of a call, in the order the code applies them. *)

BeyondScript(date) ==
    \/ date[1] > Days - 1
    \/ date[1] = Days - 1 /\ date[2] >= TurnsPerDay

ExpectedTurn == Turn(cursor)

\* action_for: the script's entry at a date, refused if it carries another.
EntryAtOffByOne(date) ==     \* seeded bug
    document[(date[1] * TurnsPerDay + date[2] - 1) % ScriptLength]
EntryAt(date) == document[date[1] * TurnsPerDay + date[2]]
EntryUsable(date) == EntryAt(date).date = date /\ EntryAt(date).wellFormed

\* The wrapper compares against the script only when all of these hold.
OpeningAgain(o) == o.date # None     \* seeded bug
Opening(o) == ~permanent_delegation /\ o.date # None
OnScriptAnyDate(o) == Opening(o) /\ ~BeyondScript(o.date)     \* seeded bug
\* Seeded bug: a turn that is asked about again is answered again.
OnScriptRepeated(o) ==
    Opening(o) /\ ~BeyondScript(o.date) /\ o.date \in {ExpectedTurn, Turn(cursor - 1)}
OnScript(o) == Opening(o) /\ ~BeyondScript(o.date) /\ o.date = ExpectedTurn
Recitable(o) == OnScript(o) /\ EntryUsable(o.date) /\ o.farm # "no farm"

-----------------------------------------------------------------------------
(* The ways a call can end. *)

Delegate == delegated_calls' = delegated_calls + 1

DelegateAgain(o) ==
    /\ permanent_delegation
    /\ Delegate
    /\ UNCHANGED <<scriptVars, verdictVars>>

\* Seeded bugs: the verdict is not marked, the turn loses its hour, the seat
\* is not given up.
HandOffUnmarked(o) ==
    /\ Opening(o) /\ BeyondScript(o.date)
    /\ permanent_delegation' = TRUE
    /\ handoff_turn' = o.date
    /\ Delegate
    /\ UNCHANGED <<scriptVars, clean_handoff_done, divergence_reason, divergence_turn>>
HandOffDayOnly(o) ==
    /\ Opening(o) /\ BeyondScript(o.date)
    /\ permanent_delegation' = TRUE /\ clean_handoff_done' = TRUE
    /\ handoff_turn' = <<o.date[1]>>
    /\ Delegate
    /\ UNCHANGED <<scriptVars, divergence_reason, divergence_turn>>
HandOffForgotten(o) ==
    /\ Opening(o) /\ BeyondScript(o.date)
    /\ Delegate
    /\ UNCHANGED <<scriptVars, verdictVars>>

HandOff(o) ==
    /\ Opening(o) /\ BeyondScript(o.date)
    /\ permanent_delegation' = TRUE
    /\ clean_handoff_done' = TRUE
    /\ handoff_turn' = o.date
    /\ Delegate
    /\ UNCHANGED <<scriptVars, divergence_reason, divergence_turn>>

Diverge(o, reason, observed_turn) ==
    /\ permanent_delegation' = TRUE
    /\ IF divergence_reason = None
       THEN divergence_reason' = reason /\ divergence_turn' = observed_turn
       ELSE UNCHANGED <<divergence_reason, divergence_turn>>
    /\ handoff_turn' = IF handoff_turn = None THEN o.date ELSE handoff_turn
    /\ Delegate
    /\ UNCHANGED <<scriptVars, clean_handoff_done>>

MalformedPhase(o) ==
    /\ ~permanent_delegation /\ o.date = None
    /\ Diverge(o, "malformed_phase", None)

PhaseMismatch(o) ==
    /\ Opening(o) /\ ~BeyondScript(o.date) /\ o.date # ExpectedTurn
    /\ Diverge(o, "phase_mismatch", o.date)

ActionInvalid(o) ==
    /\ OnScript(o) /\ ~EntryUsable(o.date)
    /\ Diverge(o, "action_invalid", o.date)

ObservationIncomplete(o) ==
    /\ OnScript(o) /\ EntryUsable(o.date) /\ o.farm = "no farm"
    /\ Diverge(o, "observation_incomplete", o.date)

HandCountMismatch(o) ==
    /\ Recitable(o)
    /\ \/ o.farm = "sized"
       \/ o.farm = "list" /\ o.hands # EntryAt(o.date).hands
    /\ Diverge(o, "hand_count_mismatch", o.date)

\* The text of the divergence takes the length of what is not a list: the
\* call raises before anything is recorded or delegated.
RaiseTypeError(o) ==
    /\ Recitable(o) /\ o.farm = "unsized"
    /\ UNCHANGED <<scriptVars, verdictVars, delegated_calls>>

Recite(o) ==
    /\ Recitable(o)
    /\ o.farm = "list" /\ o.hands = EntryAt(o.date).hands
    /\ cursor' = cursor + 1
    /\ turns_replayed' = turns_replayed + 1
    /\ played' = Append(played, EntryAt(o.date))
    /\ crews' = Append(crews, o.hands)
    /\ UNCHANGED <<verdictVars, delegated_calls>>

Answer(o) ==
    \/ DelegateAgain(o) \/ MalformedPhase(o) \/ HandOff(o)
    \/ PhaseMismatch(o) \/ ActionInvalid(o) \/ ObservationIncomplete(o)
    \/ HandCountMismatch(o) \/ RaiseTypeError(o) \/ Recite(o)

\* OpeningAgent.__call__ on one observation.
Ask(o) ==
    /\ asks < MaxAsks
    /\ asks' = asks + 1
    /\ Answer(o)
    /\ UNCHANGED <<now, document>>

\* The wrapper is asked about the present turn or, late, the one before.
AskAny == \E o \in Presentable({now, now - 1} \cap Nat) : Ask(o)

\* The engine asks about its present turn with a complete observation.
AskPresent ==
    \E o \in Presentable({now}) : o.date # None /\ o.farm = "list" /\ Ask(o)

Tick ==
    /\ now < LastTurn
    /\ now' = now + 1 /\ asks' = 0
    /\ UNCHANGED <<scriptVars, verdictVars, document, delegated_calls>>

\* A game that is over keeps its final state.
GameOver == now = LastTurn /\ asks = MaxAsks /\ UNCHANGED vars

Next == AskAny \/ Tick \/ GameOver

Spec == Init /\ [][Next]_vars

\* The engine plays the game to its end and asks its seats in every turn.
FairSpec == Spec /\ WF_vars(Tick) /\ WF_vars(AskPresent)

-----------------------------------------------------------------------------
(* Properties *)

\* The diagnostics keep to their types.
TypeOK ==
    /\ now \in Nat /\ asks \in Nat
    /\ document \in [ScriptIndices -> ScriptTurn]
    /\ cursor \in 0 .. ScriptLength
    /\ turns_replayed \in Nat /\ delegated_calls \in Nat
    /\ permanent_delegation \in BOOLEAN /\ clean_handoff_done \in BOOLEAN
    /\ divergence_reason \in Reasons \cup {None}
    /\ divergence_turn \in (Int \X Int) \cup {None}
    /\ handoff_turn \in (Int \X Int) \cup {None}
    /\ played \in Seq(ScriptTurn) /\ crews \in Seq(Nat)

\* Whatever the game does to its calls, what was answered from the script is
\* the script from its first turn on, none left out, repeated or moved to
\* another date, and each time the farm had the hands the turn orders about
\* (the guards of OpeningAgent.__call__ against the cursor it keeps).
RecitesInOrder ==
    /\ turns_replayed = Len(played) /\ cursor = Len(played)
    /\ Len(crews) = Len(played)
    /\ \A i \in 1 .. Len(played) :
          /\ played[i] = document[i - 1]
          /\ played[i].date = Turn(i - 1)
          /\ crews[i] = played[i].hands

\* The script never runs ahead of the game: it has answered for no turn the
\* game has not reached, so no turn has been answered twice.
NeverAhead == Len(played) <= now + 1

\* The seat is given up with exactly one verdict, clean or diverged, and
\* kept without any; a turn is named for a divergence only if there is one.
OneVerdict ==
    /\ permanent_delegation <=>
          (clean_handoff_done \/ divergence_reason # None)
    /\ ~(clean_handoff_done /\ divergence_reason # None)
    /\ divergence_turn # None => divergence_reason # None
    /\ delegated_calls > 0 <=> permanent_delegation

\* A game that misses calls, repeats them or garbles them is never blamed on
\* the script: a document that validate_trace accepts gives no action that
\* the wrapper refuses.
ValidatedNotBlamed ==
    divergence_reason = "action_invalid" => ~Validated(document)

AcceptedByHandoff ==     \* seeded bug
    /\ divergence_reason = None
    /\ handoff_turn = <<Days, 0>> /\ clean_handoff_done

\* run_opening_game's acceptance of a finished game (opening_book/eval.py).
Accepted ==
    /\ turns_replayed = ScriptLength
    /\ divergence_reason = None
    /\ handoff_turn = <<Days, 0>> /\ clean_handoff_done

\* An accepted game was played from the whole script, and the successor's
\* first turn was the one after it, though the three counters the acceptance
\* reads are kept by different branches.
AcceptedIsWholeScript ==
    Accepted =>
        /\ played = [i \in 1 .. ScriptLength |-> document[i - 1]]
        /\ now >= ScriptLength
        /\ delegated_calls > 0

\* The wrapper keeps the promise of a script that is recited from its
\* beginning and given up once.  The turns recited are read from the dates
\* of the answers, not from the cursor.
ScriptThenSuccessor ==
    INSTANCE Playback WITH
        Length <- ScriptLength,
        recited <- [i \in 1 .. Len(played) |->
                      played[i].date[1] * TurnsPerDay + played[i].date[2]],
        seated <- IF permanent_delegation THEN "successor" ELSE "script"

KeepsPromise == ScriptThenSuccessor!Spec

\* The wrapper as a whole: it keeps to its types, recites in order and never ahead of the
\* game, gives one verdict, blames no validated document, and a game that is accepted was
\* played from the whole script.
OpeningOK == /\ TypeOK /\ RecitesInOrder /\ NeverAhead /\ OneVerdict
             /\ ValidatedNotBlamed /\ AcceptedIsWholeScript

-----------------------------------------------------------------------------
(* What the module's own description says and the code does not do. *)

\* "Any guard failure records one divergence ... and immediately delegates"
\* (opening_book/agent.py:14): a call that is not answered from the script is
\* answered downstream.
GuardFailureDelegates ==
    [][asks' > asks /\ played' = played
          => delegated_calls' > delegated_calls]_vars
=============================================================================
