------------------------------- MODULE Parity -------------------------------
(***************************************************************************)
(* The comparisons that hold the fast engine to the official one           *)
(* (oracle/): the closed loop, in which four agents of their own play two  *)
(* engines, the replay of the same actions on both, and the comparison of  *)
(* two recorded rollouts (rl_manager/parity.py).                           *)
(*                                                                         *)
(* The engines and the agents are external and may differ anywhere: after  *)
(* a reset or a step the fast engine is the official one with up to one    *)
(* fact changed, and an agent may decide otherwise than its counterpart.   *)
(* "faults" remembers every difference there was, so that the report of a *)
(* run can be held against what really happened.  A value is a tree: a     *)
(* dict, a list or a scalar with its type.                                 *)
(***************************************************************************)
EXTENDS Integers, Sequences, FiniteSets, FiniteSetsExt

CONSTANTS
    None,
    Hours,        \* turnsPerDay
    LastStep,     \* the step at which a game is done
    Budgets,      \* what max_steps or max_turns may be
    Recordings    \* bound: the pairs of recorded rollouts that are compared

Seats == {0, 1}

(* Every day and turn of a rollout is recorded: nothing of it is None.     *)
IsLog(log) == log = [k \in DOMAIN log |-> log[k]] /\ \A k \in DOMAIN log : log[k] # None
IsRollout(r) ==
    /\ r = [opening |-> r.opening, inputs |-> r.inputs, plans |-> r.plans,
             joint_actions |-> r.joint_actions, final |-> r.final]
    /\ IsLog(r.opening) /\ IsLog(r.inputs) /\ IsLog(r.plans)
    /\ r.joint_actions \in Seq({r.joint_actions[t] : t \in DOMAIN r.joint_actions})
    /\ \A t \in DOMAIN r.joint_actions :
          LET joint == r.joint_actions[t]
          IN  joint = <<joint[1], joint[2]>> /\ None \notin {joint[1], joint[2]}

ASSUME ParityAssumption == /\ {Hours, LastStep} \subseteq Nat \ {0}
                           /\ Budgets \subseteq Nat
                           /\ \A pair \in Recordings : IsRollout(pair.a) /\ IsRollout(pair.b)

VARIABLES
    harness,      \* "closed_loop", "replay" or "rollouts"
    max_steps,    \* the budget of this run
    official,     \* the engines
    fast,
    turn,
    at,           \* where the harness is
    actions,      \* what the agents of each engine decided
    faults,       \* history: every difference there was
    history,      \* env.steps: the statuses of the official engine after every step
    report

parity_vars == <<harness, max_steps, official, fast, turn, at, actions, faults, history, report>>

-----------------------------------------------------------------------------
(* Values and their differences: oracle/canonical.py. *)

Scalar(type, is) == [kind |-> "scalar", type |-> type, is |-> is]
Number(n) == Scalar("number", n)                  \* an int equals a float of its value
Truth(b) == Scalar("bool", b)                     \* and a bool equals no number
Dict(entries) == [kind |-> "dict", entries |-> entries]
List(items) == [kind |-> "list", items |-> items]

\* One level of the walk: dicts by key, lists by place - a length differs at the list's own
\* path - and anything else as a whole.
Walk(Below(_, _), left, right) ==
    LET paths(f, g, k) == {<<k>> \o path : path \in Below(f[k], g[k])}
        l == left.entries
        r == right.entries
    IN  IF left.kind = "dict" /\ right.kind = "dict"
        THEN UNION {IF k \in DOMAIN l \cap DOMAIN r THEN paths(l, r, k) ELSE {<<k>>} :
                      k \in DOMAIN l \cup DOMAIN r}
        ELSE IF left.kind = "list" /\ right.kind = "list"
        THEN (IF Len(left.items) = Len(right.items) THEN {} ELSE {<<>>})
               \cup UNION {paths(left.items, right.items, k) :
                             k \in DOMAIN left.items \cap DOMAIN right.items}
        ELSE IF left = right THEN {} ELSE {<<>>}

\* The paths at which two values differ.  Values are at most three levels deep: the items of
\* the sheds of a state.
ScalarDiff(left, right) == IF left = right THEN {} ELSE {<<>>}
DictDiff(left, right) == Walk(ScalarDiff, left, right)
ListDiff(left, right) == Walk(DictDiff, left, right)
DeepDiff(left, right) == Walk(ListDiff, left, right)

\* The walk takes keys in their order and a list's length before its items.
Sooner(p, q) ==
    \/ Len(p) < Len(q) /\ \A i \in DOMAIN p : p[i] = q[i]
    \/ \E i \in DOMAIN p \cap DOMAIN q : p[i] < q[i] /\ \A j \in 1..(i - 1) : p[j] = q[j]
First(paths) == CHOOSE p \in paths : \A q \in paths : q = p \/ Sooner(p, q)

-----------------------------------------------------------------------------
(* The engines, and the two wires they are seen through. *)

\* An engine: its clock, the day an animal was placed, each seat's shed, and what only an
\* observation or only the canonical state shows.
Facts == {"placed", "shed0", "shed1", "overage0", "overage1", "rewards", "statuses"}
ASSUME NoneAssumption ==
    /\ None \notin Seats /\ None \notin Facts
    /\ None \notin {"opening_handoff", "manager_inputs", "plans", "actions", "length", "banks"}

OnlyObserved == {"overage0", "overage1"}
OnlyInState == {"rewards", "statuses"}
Shed(s) == IF s = 0 THEN "shed0" ELSE "shed1"
Overage(s) == IF s = 0 THEN "overage0" ELSE "overage1"
DayOf(engine) == engine.step \div Hours

\* The keys of the wire: dictionaries are compared in the order of their keys.
KeyDay == 1
KeyTile == 2
KeyShed == 3
KeyOverage == 4
KeyRewards == 5
KeyStatuses == 6
KeyStep == 7
KeyAge == 8
KeyPlaced == 9

\* An official observation names the placing day, omits what a shed has none of, and tells
\* only the first seat the step; a fast one gives ages, and everything.
OfficialWire(engine, s) ==
    Dict([k \in {KeyDay, KeyTile, KeyShed, KeyOverage} \cup (IF s = 0 THEN {KeyStep} ELSE {}) |->
            CASE k = KeyDay -> Number(DayOf(engine))
              [] k = KeyStep -> Number(engine.step)
              [] k = KeyTile -> Dict([p \in {KeyPlaced} |-> Number(engine["placed"])])
              [] k = KeyShed -> Dict([item \in {n \in {1} : engine[Shed(s)] # 0} |->
                                         Number(engine[Shed(s)])])
              [] k = KeyOverage -> Number(engine[Overage(s)])])
FastWire(engine, s) ==
    Dict([k \in {KeyDay, KeyStep, KeyTile, KeyShed, KeyOverage} |->
            CASE k = KeyDay -> Number(DayOf(engine))
              [] k = KeyStep -> Number(engine.step)
              [] k = KeyTile -> Dict([p \in {KeyAge} |->
                                         Number(DayOf(engine) - engine["placed"])])
              [] k = KeyShed -> Dict([item \in {1} |-> Number(engine[Shed(s)])])
              [] k = KeyOverage -> Number(engine[Overage(s)])])

\* _canonical_tile: an age stands for the day less itself.
CanonicalTile(tile, day) ==
    Dict([p \in {KeyPlaced} |->
            IF KeyAge \in DOMAIN tile.entries THEN Number(day - tile.entries[KeyAge].is)
            ELSE tile.entries[KeyPlaced]])
ZeroFilled(shed) ==
    Dict([item \in {1} |-> IF item \in DOMAIN shed.entries THEN shed.entries[item]
                           ELSE Number(0)])

\* Seeded bug: the seat without a step is left without one.
NormalObservationStepless(wire, default_step) ==
    Dict([k \in DOMAIN wire.entries |->
            CASE k = KeyTile -> CanonicalTile(wire.entries[k], wire.entries[KeyDay].is)
              [] k = KeyShed -> ZeroFilled(wire.entries[k])
              [] OTHER -> wire.entries[k]])
NormalObservation(wire, default_step) ==
    Dict([k \in DOMAIN wire.entries \cup {KeyStep} |->
            CASE k = KeyTile -> CanonicalTile(wire.entries[k], wire.entries[KeyDay].is)
              [] k = KeyShed -> ZeroFilled(wire.entries[k])
              [] k \notin DOMAIN wire.entries -> Number(default_step)
              [] OTHER -> wire.entries[k]])

Statuses(engine) == List(<<Scalar("str", engine["statuses"][1]),
                           Scalar("str", engine["statuses"][2])>>)

\* Seeded bug: a canonical state without the rewards.
CanonicalStateUnrewarded(engine, wire0, wire1) ==
    Dict([k \in {KeyStep, KeyDay, KeyTile, KeyShed, KeyStatuses} |->
            CASE k = KeyStep -> Number(engine.step)
              [] k = KeyDay -> Number(DayOf(engine))
              [] k = KeyTile -> CanonicalTile(wire0.entries[KeyTile], DayOf(engine))
              [] k = KeyShed -> List(<<ZeroFilled(wire0.entries[KeyShed]),
                                       ZeroFilled(wire1.entries[KeyShed])>>)
              [] k = KeyStatuses -> Statuses(engine)])
\* canonical_state_official, canonical_state_fast.
CanonicalState(engine, wire0, wire1) ==
    Dict([k \in {KeyStep, KeyDay, KeyTile, KeyShed, KeyRewards, KeyStatuses} |->
            CASE k = KeyStep -> Number(engine.step)
              [] k = KeyDay -> Number(DayOf(engine))
              [] k = KeyTile -> CanonicalTile(wire0.entries[KeyTile], DayOf(engine))
              [] k = KeyShed -> List(<<ZeroFilled(wire0.entries[KeyShed]),
                                       ZeroFilled(wire1.entries[KeyShed])>>)
              [] k = KeyRewards -> Number(engine["rewards"])
              [] k = KeyStatuses -> Statuses(engine)])
OfficialState(engine) ==
    CanonicalState(engine, OfficialWire(engine, 0), OfficialWire(engine, 1))
FastState(engine) == CanonicalState(engine, FastWire(engine, 0), FastWire(engine, 1))

StateDiff(o, f) == DeepDiff(OfficialState(o), FastState(f))
ObservationDiff(o, f, s) ==
    DeepDiff(NormalObservation(OfficialWire(o, s), o.step),
             NormalObservation(FastWire(f, s), o.step))

-----------------------------------------------------------------------------
(* What may happen: games, anomalies, differences. *)

Fresh == [step |-> 0, placed |-> 0, shed0 |-> 0, shed1 |-> 0, overage0 |-> 0, overage1 |-> 0,
          rewards |-> 0, statuses |-> <<"ACTIVE", "ACTIVE">>]

\* A step of the official engine: a shed may fill, an agent's status may be an error, and at
\* the end every status is DONE, whatever it was.
Played(engine) ==
    LET next == [engine EXCEPT !.step = @ + 1]
    IN  IF next.step >= LastStep
        THEN {[next EXCEPT !.statuses = <<"DONE", "DONE">>, !.rewards = 1]}
        ELSE {next, [next EXCEPT !.shed0 = 1], [next EXCEPT !.placed = DayOf(next)],
              [next EXCEPT !.statuses = <<"ERROR", "ACTIVE">>]}

Changed(engine, fact) ==
    IF fact = "statuses" THEN [engine EXCEPT !.statuses = <<"ACTIVE", "INVALID">>]
    ELSE [engine EXCEPT ![fact] = @ + 1]

\* The fast engine's counterpart of o: the same, but for at most one fact.
Mirrors(o) == {[engine |-> o, fact |-> None]}
                \cup {[engine |-> Changed(o, fact), fact |-> fact] : fact \in Facts}

\* An official status that is neither of the expected ones makes the fast one differ too.
MirrorsOf(o) ==
    IF "ERROR" \in {o["statuses"][1], o["statuses"][2]}
    THEN {[engine |-> [o EXCEPT !.statuses = <<"ACTIVE", "ACTIVE">>], fact |-> "statuses"]}
    ELSE Mirrors(o)

Fault(when, fact) == IF fact = None THEN {} ELSE {[turn |-> turn, when |-> when, fact |-> fact]}

Diverged(phase, seat, path) ==
    [kind |-> "diverged", turn |-> turn, phase |-> phase, seat |-> seat, path |-> path]
NoReport == [kind |-> "running"]
Report(kind) == [kind |-> kind, turn |-> turn, phase |-> None, seat |-> None, path |-> None]

ParityInit ==
    /\ harness \in {"closed_loop", "replay", "rollouts"}
    /\ max_steps \in Budgets
    /\ official = Fresh /\ fast = Fresh
    /\ turn = -1
    /\ at = "reset"
    /\ actions = [o |-> <<>>, f |-> <<>>]
    /\ faults = {}
    /\ history = <<>>
    /\ report = NoReport

-----------------------------------------------------------------------------
(* run_closed_loop. *)

\* Both are reset, both seats' observations are compared, then the states.
ResetBoth ==
    /\ harness \in {"closed_loop", "replay"} /\ at = "reset"
    /\ \E mirror \in Mirrors(Fresh) :
          /\ fast' = mirror.engine
          /\ faults' = Fault("reset", mirror.fact)
          /\ LET seen == {s \in Seats : harness = "closed_loop"
                                          /\ ObservationDiff(Fresh, mirror.engine, s) # {}}
                 state == StateDiff(Fresh, mirror.engine)
             IN  report' =
                    IF seen # {}
                    THEN Diverged("reset_observation", Min(seen),
                                  First(ObservationDiff(Fresh, mirror.engine, Min(seen))))
                    ELSE IF state # {}
                    THEN Diverged("reset_observation", None, First(state))
                    ELSE report
    /\ history' = <<Fresh["statuses"]>>
    /\ turn' = 0
    /\ at' = IF harness = "replay" THEN "act" ELSE "observe"
    /\ UNCHANGED <<harness, max_steps, official, actions>>

Running == report = NoReport
\* Seeded bug: the budget counts one turn too many.
OutOfTurnsLate == turn > max_steps
OutOfTurns == turn >= max_steps

Observe ==
    /\ harness = "closed_loop" /\ Running /\ at = "observe" /\ ~OutOfTurns
    /\ LET seen == {s \in Seats : ObservationDiff(official, fast, s) # {}}
       IN  report' = IF seen = {} THEN report
                      ELSE Diverged("observation", Min(seen),
                                    First(ObservationDiff(official, fast, Min(seen))))
    /\ at' = "act"
    /\ UNCHANGED <<harness, max_steps, official, fast, turn, actions, faults, history>>

\* Four agents decide, each for itself; their actions are compared before either engine moves.
Act ==
    /\ harness = "closed_loop" /\ Running /\ at = "act"
    /\ \E other \in SUBSET Seats :
          /\ actions' = [o |-> <<1, 1>>,
                         f |-> [s \in {1, 2} |-> IF s - 1 \in other THEN 2 ELSE 1]]
          /\ faults' = faults \cup {[turn |-> turn, when |-> "act", fact |-> s] : s \in other}
          /\ report' = IF other = {} THEN report ELSE Diverged("action", Min(other), <<>>)
    /\ at' = "step"
    /\ UNCHANGED <<harness, max_steps, official, fast, turn, history>>

\* The pair to replay: one list of actions for both engines, which may be at its end.
Pick ==
    /\ harness = "replay" /\ Running /\ at = "act" /\ ~OutOfTurns
    /\ actions' = [o |-> <<1, 1>>, f |-> <<1, 1>>]
    /\ at' = "step"
    /\ UNCHANGED <<harness, max_steps, official, fast, turn, faults, history, report>>

\* Seeded bug: only the statuses at the end are looked at.
AnomalousAtTheEnd(statuses) ==
    \E s \in {1, 2} : statuses[Len(statuses)][s] \notin {"ACTIVE", "DONE"}
                        /\ statuses[Len(statuses)][3 - s] = "DONE"
\* status_anomalies.
Anomalous(statuses) ==
    \E k \in DOMAIN statuses, s \in {1, 2} : statuses[k][s] \notin {"ACTIVE", "DONE"}

\* Both engines step on the actions of their own agents; the official history is validated,
\* then the states are compared.
StepBoth ==
    /\ Running /\ at = "step"
    /\ \E o \in Played(official) : \E mirror \in MirrorsOf(o) :
          /\ official' = o /\ fast' = mirror.engine
          /\ faults' = faults \cup Fault("step", mirror.fact)
          /\ history' = Append(history, o["statuses"])
          /\ LET state == StateDiff(o, mirror.engine)
                 done == o["statuses"] = <<"DONE", "DONE">>
                           /\ mirror.engine["statuses"] = <<"DONE", "DONE">>
             IN  report' = IF Anomalous(history') THEN Report("anomaly")
                            ELSE IF state # {} THEN Diverged("next_state", None, First(state))
                            ELSE IF done THEN Report("returned")
                            ELSE report
    /\ turn' = turn + 1
    /\ at' = IF harness = "replay" THEN "act" ELSE "observe"
    /\ UNCHANGED <<harness, max_steps, actions>>

Return ==
    /\ harness \in {"closed_loop", "replay"} /\ Running /\ at # "reset" /\ at # "step"
    /\ OutOfTurns \/ (harness = "replay" /\ at = "act")
    /\ report' = Report("returned")
    /\ UNCHANGED <<harness, max_steps, official, fast, turn, at, actions, faults, history>>

-----------------------------------------------------------------------------
(* compare_rollouts: two recorded episodes of the same seed and composition. *)

Get(f, key) == IF key \in DOMAIN f THEN f[key] ELSE None

\* Seeded bug: only the days both have recorded are compared.
DifferingShared(f, g) == {k \in DOMAIN f \cap DOMAIN g : f[k] # g[k]}
Differing(f, g) == {k \in DOMAIN f \cup DOMAIN g : Get(f, k) # Get(g, k)}

\* Keys are <<seat, day>> or <<turn, seat>>, compared in the order of tuples.
Earliest(keys) ==
    CHOOSE k \in keys : \A j \in keys : k[1] < j[1] \/ (k[1] = j[1] /\ k[2] <= j[2])
TurnsOf(a) == [k \in (DOMAIN a.joint_actions) \X {1, 2} |-> a.joint_actions[k[1]][k[2]]]

Phases(a, b) ==
    LET common == Min({Len(a.joint_actions), Len(b.joint_actions)})
    IN  <<[phase |-> "opening_handoff", keys |-> Differing(a.opening, b.opening)],
          [phase |-> "manager_inputs", keys |-> Differing(a.inputs, b.inputs)],
          [phase |-> "plans", keys |-> Differing(a.plans, b.plans)],
          [phase |-> "actions",
           keys |-> {k \in Differing(TurnsOf(a), TurnsOf(b)) : k[1] <= common}],
          [phase |-> "length",
           keys |-> IF Len(a.joint_actions) = Len(b.joint_actions) THEN {}
                    ELSE {<<common, 0>>}],
          [phase |-> "banks", keys |-> IF a.final = b.final THEN {} ELSE {<<0, 0>>}]>>

CompareRollouts ==
    /\ harness = "rollouts" /\ at = "reset"
    /\ \E pair \in Recordings :
          LET phases == Phases(pair.a, pair.b)
              differ == {i \in DOMAIN phases : phases[i].keys # {}}
          IN  /\ actions' = [o |-> pair.a, f |-> pair.b]
              /\ report' = IF differ = {} THEN Report("matched")
                            ELSE Diverged(phases[Min(differ)].phase, None,
                                          Earliest(phases[Min(differ)].keys))
    /\ at' = "compared"
    /\ UNCHANGED <<harness, max_steps, official, fast, turn, faults, history>>

ParityNext == ResetBoth \/ Observe \/ Act \/ Pick \/ StepBoth \/ Return \/ CompareRollouts

ParitySpec == ParityInit /\ [][ParityNext]_parity_vars

-----------------------------------------------------------------------------
(* What a report is worth. *)

ParityTypeOK ==
    /\ turn \in -1..max_steps /\ turn <= LastStep
    /\ official.step = Max({turn, 0}) /\ fast.step = official.step
    /\ harness # "rollouts" /\ Running => Len(history) = turn + 1

\* A run that returns saw no difference: every observation, action and state of every turn was
\* the same on both engines.  What only an observation shows is not compared after the last
\* step, and never by the replay (run_closed_loop, run_same_action_replay).
NothingEscapes ==
    ~Running /\ report.kind = "returned" =>
        \A d \in faults : /\ d.fact \in OnlyObserved
                          /\ harness = "replay" \/ d.turn = turn - 1

\* A reported divergence is real and the first there was: nothing differed before its turn,
\* nothing that is compared earlier in it, and its seat is one that differs - the wires'
\* aliases, gaps and omissions alone are no difference.
ReportIsFirst ==
    harness # "rollouts" /\ ~Running /\ report.kind = "diverged" =>
        LET compared == {d \in faults : harness = "closed_loop" \/ d.fact \notin OnlyObserved}
            first == [phase |-> report.phase, seat |-> report.seat]
        IN  \E d \in compared :
               /\ \A other \in compared : other.turn >= d.turn
               /\ CASE d.when = "reset" ->
                         /\ first.phase = "reset_observation"
                         /\ (first.seat = None) =
                               (harness = "replay" \/ d.fact \in OnlyInState)
                    [] d.when = "act" -> /\ first.phase = "action"
                                         /\ first.seat = Min({o.fact : o \in {x \in compared :
                                                                   x.when = "act"}})
                    [] d.when = "step" /\ d.fact \in OnlyObserved ->
                         /\ first.phase = "observation" /\ report.turn = d.turn + 1
                         /\ first.seat = IF d.fact = Overage(0) THEN 0 ELSE 1
                    [] OTHER -> first.phase = "next_state" /\ report.turn = d.turn

\* A run in which the official engine ever recorded anything but ACTIVE and DONE is reported as
\* that, whatever it ended in, and never as a divergence of the fast engine; and no other run
\* is (validate_status_history, called before the states are compared).
AnomaliesAreNamed ==
    harness # "rollouts" /\ ~Running =>
        (report.kind = "anomaly")
            = \E k \in DOMAIN history, s \in {1, 2} : history[k][s] \notin {"ACTIVE", "DONE"}

\* Two recordings match exactly if they are the same, and otherwise the first phase that
\* differs is named, days and turns one of them lacks included (compare_rollouts).
MatchedMeansSame ==
    harness = "rollouts" /\ ~Running =>
        LET a == actions.o
            b == actions.f
        IN  /\ (report.kind = "matched") = (a = b)
            /\ report.phase \in {"manager_inputs", "plans", "actions", "length", "banks"} =>
                  a.opening = b.opening
            /\ report.phase \in {"plans", "actions", "length", "banks"} => a.inputs = b.inputs
            /\ report.phase \in {"actions", "length", "banks"} => a.plans = b.plans
            /\ report.phase = "actions" =>
                  SubSeq(a.joint_actions, 1, report.path[1] - 1)
                      = SubSeq(b.joint_actions, 1, report.path[1] - 1)

(* A comparison keeps to its types, and no difference of the two runs that *)
(* the canonical state holds escapes it.                                   *)
ParitySound == ParityTypeOK /\ NothingEscapes

(* What an evaluation reports: an anomaly is named, and two runs that      *)
(* "match" recorded the same.                                              *)
EvaluationSound == AnomaliesAreNamed /\ MatchedMeansSame
=============================================================================
