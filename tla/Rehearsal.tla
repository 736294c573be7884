----------------------------- MODULE Rehearsal ------------------------------
(***************************************************************************)
(* The opening book around its wrapper: a script is cut out of the replay  *)
(* of a recorded game (opening_book/extract.py), and opening_book.eval     *)
(* plays games with it, writes down a verdict on each and ends with an     *)
(* exit code.  The first game of an invocation is the one Opening.tla      *)
(* plays call by call; of the others only the outcome is told.             *)
(*                                                                         *)
(* The official engine is external: it shows the farm at the handoff, may  *)
(* call a seat anomalous for reasons of its own, and does so whenever the  *)
(* wrapper raised.                                                         *)
(***************************************************************************)
EXTENDS Opening
LOCAL INSTANCE SequencesExt

CONSTANTS
    Recordings,      \* replays a script may have been cut out of
    MoneyRange, WheatRange,    \* the envelope's tolerances, <<lowest, highest>>
    Summaries,       \* the farms an engine may show at the handoff
    MaxGames         \* bound: seeds of one invocation

\* A step of a replay: the hour and the hands that were observed, and the action that led
\* to this step: what it orders about and whether it is well formed.
Step == [date : (Int \X Int) \cup {None}, crew : Nat, hands : Nat, wellFormed : BOOLEAN]

ASSUME RehearsalAssumption ==
    /\ MaxGames \in Nat \ {0}
    /\ \A r \in Recordings : r.steps \in Seq(Step) /\ r.official \in BOOLEAN
    /\ None \notin Recordings /\ None \notin Int

VARIABLES
    source,          \* the recording the script is from; None: a caller's own document
    request,         \* the command line
    stage,           \* "main", "games", "game", "ended"
    games,           \* seeds whose game is not over
    anomalous,       \* status anomalies of its wrapper
    overall_ok,
    lines,           \* the verdicts in the output file
    exit

evaluation == <<source, request, stage, games, anomalous, overall_ok, lines, exit>>

-----------------------------------------------------------------------------
(* extract_opening_trace. *)

\* _seat_hour_index: the first step whose observation starts that hour; 0 if none does.
HourIndex(steps, date) ==
    SelectInSeq(steps, LAMBDA step : step.date = date)

\* The action that acts on an observation is told by the step after it.
ActingStep(steps, date) == steps[HourIndex(steps, date) + 1]

Extractable(recording) ==
    LET steps == recording.steps
    IN  /\ recording.official                       \* version and provenance
        /\ \A n \in ScriptIndices :
              /\ HourIndex(steps, Turn(n)) \in 1..(Len(steps) - 1)
              /\ ActingStep(steps, Turn(n)).wellFormed

\* Seeded bug: the action that led to the hour is taken for the one that acts in it.
ExtractedTooEarly(recording) ==
    [n \in ScriptIndices |->
        [date |-> Turn(n), wellFormed |-> TRUE,
         hands |-> recording.steps[HourIndex(recording.steps, Turn(n))].hands]]
Extracted(recording) ==
    [n \in ScriptIndices |->
        [date |-> Turn(n), wellFormed |-> TRUE,
         hands |-> ActingStep(recording.steps, Turn(n)).hands]]

-----------------------------------------------------------------------------
(* The command line. *)

CommandLines ==
    [seeds : 0..MaxGames, downstream : {"pass", "checkpoint"},
     checkpoint : {"none", "missing", "found"}, mode : {"opening", "paired"},
     opponent : {"pass", "mirror"}]

UsageError(args) ==
    \/ args.seeds = 0
    \/ args.downstream = "checkpoint" /\ args.checkpoint # "found"
    \/ args.mode = "paired" /\ (args.downstream # "checkpoint" \/ args.opponent # "pass")

\* What matters of a command line that is accepted.
Request(args) == [seeds |-> args.seeds, loads |-> args.downstream = "checkpoint"]

\* detect_engine, verify_official_provenance.
Engines == {"absent", "another version", "pinned"}

Start ==
    /\ stage = "main"
    /\ \E args \in CommandLines, engine \in Engines :
          /\ request' = Request(args)
          /\ IF UsageError(args) THEN exit' = 2 /\ stage' = "ended" /\ games' = 0
             ELSE IF engine # "pinned" THEN exit' = 3 /\ stage' = "ended" /\ games' = 0
             ELSE exit' = None /\ stage' = "games" /\ games' = args.seeds
    /\ UNCHANGED <<vars, source, anomalous, overall_ok, lines>>

-----------------------------------------------------------------------------
(* A game and its verdict. *)

Within(x, range) == range[1] <= x /\ x <= range[2]

\* evaluate_handoff_envelope: money must be known, the wheat in the shed need not.
InEnvelope(summary) ==
    /\ summary.milestones
    /\ summary.money # None /\ Within(summary.money, MoneyRange)
    /\ summary.wheat = None \/ Within(summary.wheat, WheatRange)

Begin ==
    /\ stage = "games" /\ games = request.seeds /\ games > 0
    /\ stage' = "game"
    /\ UNCHANGED <<vars, source, request, games, anomalous, overall_ok, lines, exit>>

\* A call that raised leaves its seat with an error status.
Unanswered == asks' > asks /\ played' = played /\ delegated_calls' = delegated_calls

\* _status_anomalies looks at every step but the last.
Monitored == now < LastTurn

Rehearse ==
    /\ stage = "game"
    /\ AskAny \/ Tick
    /\ anomalous' = (anomalous \/ (Unanswered /\ Monitored))
    /\ UNCHANGED <<source, request, stage, games, overall_ok, lines, exit>>

\* Seeded bug: the last game decides.
JudgedByLast(passed) == overall_ok' = passed
Judged(passed) == overall_ok' = (overall_ok /\ passed)

Written(passed, whole) ==
    /\ Judged(passed)
    /\ lines' = Append(lines, [passed |-> passed, whole |-> whole])
    /\ games' = games - 1

\* run_opening_game once the engine is done; it has asked about its last turn.  Besides the
\* wrapper the engine, the mirror it plays against or the baseline of a pair may fail.
Judge ==
    /\ stage = "game" /\ now = LastTurn /\ asks > 0
    /\ \E summary \in Summaries, besides \in BOOLEAN :
          Written(Accepted /\ ~anomalous /\ ~besides /\ InEnvelope(summary),
                  played = [i \in 1..ScriptLength |-> document[i - 1]] /\ delegated_calls > 0)
    /\ stage' = "games"
    /\ UNCHANGED <<vars, source, request, anomalous, exit>>

\* A game of which only the outcome is told.
OtherGame ==
    /\ stage = "games" /\ games \in 1..(request.seeds - 1)
    /\ \E passed \in BOOLEAN : Written(passed, passed)
    /\ UNCHANGED <<vars, source, request, stage, anomalous, exit>>

\* The factory of the downstream agent cannot load its checkpoint: the invocation ends in
\* the exception, after closing its file.
FactoryRaises ==
    /\ stage = "games" /\ games > 0 /\ request.loads
    /\ stage' = "ended" /\ exit' = 1
    /\ UNCHANGED <<vars, source, request, games, anomalous, overall_ok, lines>>

Return ==
    /\ stage = "games" /\ games = 0
    /\ stage' = "ended" /\ exit' = IF overall_ok THEN 0 ELSE 1
    /\ UNCHANGED <<vars, source, request, games, anomalous, overall_ok, lines>>

-----------------------------------------------------------------------------
\* The output file has the line of a former invocation.
Former == [passed |-> FALSE, whole |-> FALSE]

RehearsalInit ==
    /\ Init
    /\ source \in Recordings \cup {None}
    /\ source # None => Extractable(source) /\ document = Extracted(source)
    /\ request = None
    /\ stage = "main" /\ games = 0 /\ anomalous = FALSE
    /\ overall_ok = TRUE /\ lines = <<Former>> /\ exit = None

Evaluates == Start \/ Begin \/ Judge \/ OtherGame \/ FactoryRaises \/ Return
RehearsalNext == Evaluates \/ Rehearse

played_on == <<vars, evaluation>>

\* The engine plays its games to their end, and nothing but a game keeps main waiting.
RehearsalSpec ==
    /\ RehearsalInit /\ [][RehearsalNext]_played_on
    /\ WF_played_on(Evaluates)
    /\ WF_played_on(Rehearse /\ Tick) /\ WF_played_on(Rehearse /\ AskPresent)

-----------------------------------------------------------------------------
(* What the evaluation can be relied on for. *)

\* Whether the recorded seats ordered about all the hands they had: the action that acts on
\* an observation, told by the next step, has an entry for each hand observed.
OrdersEveryHand ==
    \A r \in Recordings : \A k \in 1..(Len(r.steps) - 1) :
        r.steps[k + 1].hands = r.steps[k].crew

\* What is recited is what the recorded seat did: at every turn the farm has the hands the
\* recorded one had in that hour, however long the recording stayed in it
\* (extract_opening_trace, then the guards of OpeningAgent).
RecitesRecording ==
    source # None =>
        \A i \in 1..Len(crews) :
            crews[i] = source.steps[HourIndex(source.steps, Turn(i - 1))].crew

\* Exit code 0 tells of as many new verdicts as there were seeds, each of a game that was
\* recited from the script's first turn to its last and then handed over; 1 of a failed game
\* or of a loader that raised; 2 and 3 of a file that was not touched.  What former
\* invocations wrote stays (main, run_opening_game).
ExitTellsVerdicts ==
    /\ lines[1] = Former
    /\ exit = 0 => /\ Len(lines) = 1 + request.seeds
                   /\ \A k \in 2..Len(lines) : lines[k].passed /\ lines[k].whole
    /\ exit = 1 => \/ \E k \in 2..Len(lines) : ~lines[k].passed
                   \/ Len(lines) < 1 + request.seeds
    /\ exit \in {2, 3} => lines = <<Former>>

\* The opening book around the wrapper is sound.
RehearsalSound == RecitesRecording /\ ExitTellsVerdicts

\* A game that was begun gets its successor, even if the engine skipped turns, asked late or
\* sent what the wrapper raised on; and an evaluation comes to an exit code.
RehearsalEnds == ((stage = "game") ~> permanent_delegation) /\ <>(exit # None)
=============================================================================
