# Verification of Kaggriculture

Kaggriculture is a two-player farming game with a shared market. The repository holds a
native game engine (`rust/kaggriculture_env`, called through `fast_env`), the agents that
play it (`opening_book`, `executor_v0`), the runner that lets agents play each other and
records what happened (`rl_manager`), pipelines that read replays (`replay_daily`), trainers
(`bc_manager`, `bc_manager_jax`) and a harness that compares the engine with the official
one (`oracle`). This directory holds TLA+ models of it, the TLC runs that check them on
small instances, and theorems proved by TLAPS for every instance.

Line numbers refer to the repository's files; `lib.rs` is
`rust/kaggriculture_env/src/lib.rs`.

## 1. The system

| Part | State | Operations | Interacts with |
|---|---|---|---|
| Engine: tiles, crops, animals (`lib.rs` 1200-1420, 1750-2010) | one record per tile: crop, age, yield, decay step, watering, fertilizer; structure, animal, hunger, care | PLANT, WATER, FERTILIZE, HARVEST, DIG, BUILD, PLACE, FEED, CARE, COLLECT_FERTILIZER; rot every turn; growth at night; weeds | units bring and take goods; the clock |
| Engine: units and goods (`lib.rs` 1130-1200, 1420-1560, 1840-1880, 2400-2600) | shed and its running total; per unit position, inventory, insertion stamps; hired hands; seeds; the turn in progress | moves, PICKUP, PLACE, DROP; hire and dismissal; the transfer at the day's end; the PLANT block | tiles, market, shed capacity shared by all |
| Engine: market and town (`lib.rs` 200-700, 1050-1130, 1560-1750, 2480-2560) | money, market inventory, posted prices with dirty marks, opened shops | ten order slots a turn, each traded by both players in lockstep or settled in bulk; town center and shops consume | both farms; price tables |
| Engine: batch and bank (`lib.rs` 2660-3500) | the live games, the snapshot bank | reset, reset_at, capture, restore, clear_bank, step, step_transition | Python callers; a thread pool over independent games |
| Engine: observations, masks (`lib.rs` 2030-2400, 3500-3742) | none | encode a state as numbers; offer legal actions | batch |
| `fast_env` | none beyond the engine | array protocol: decodes tiles, encodes actions; reference price function | engine |
| `executor_v0`: daily executor (`agent.py`, `manager.py`, `plan.py`) | plan of the day, sell ledger, hires, work debt, diagnostics, the seat | new day, sells, hires, survival buys, safe-mode fallback | plan provider, task generator, foreman |
| `executor_v0`: foreman, tasks | claims, seed budget, per-worker assignment, built anew every turn | generate tasks, assign, route, release | layouts, observation |
| `executor_v0`: layout, projection | none (pure) | which animal and which crop goes where; clip a plan to what is possible | tasks |
| `opening_book` agent | script cursor, handed off or diverged, diagnostics | play the scripted action, compare, delegate | downstream executor |
| `opening_book` extraction and evaluation | files of verdicts, exit code | cut a script out of a replay; play games with it and judge them | replays, agent, official engine |
| `rl_manager` runner | per episode and seat: day, plan, provider queue, digests, records | run episodes in chunks, batch decisions by day and policy, record, finalize | engine backend, executors, policies |
| `rl_manager` PPO and checkpoints | parameters, optimizer, checkpoint files | advantages, update, save, load with matching config | runner |
| `replay_daily` | per day and seat: events, observed state | turn a replay into daily records; derive plant and animal calendars from a tile; store and read | engine rules; Parquet or JSON files |
| `oracle`, `rl_manager/parity.py` | two backends side by side | reset, step, canonicalise, report the first difference | engine, official environment |
| `bc_manager`, `bc_manager_jax` | data set, networks, best and last checkpoint | filter, split, encode, train, decode | replay records, executor |
| `tools`, `scripts` | files | the plan of a recorded day, slices of a day; offline analysis, benchmarks | replays, executor |

### What is hard here

A turn of the engine is deterministic but long: orders of up to 240 hands and two players
meet on shared state - the tile, the shed's last places, the seeds, the market inventory -
in an order the rules fix. Around it, state is kept in several places and changed in several
steps. The difficulties are
* fields of a tile that outlive what they describe (a crop, an animal) and leak into its
  successor; several counters for one calendar;
* running totals and caches kept beside what they summarise (`shed_used`, insertion stamps,
  posted prices, dismissed hands);
* all-or-nothing requests decided before the first of them is served (PLANT);
* an optimisation that must equal its reference (bulk settlement and lockstep);
* one fact told twice: two encodings of an action, two readings of a replay, the live and the
  stored inputs of the manager, two decoders of its answer, two engines;
* in Python: state kept across days and changed in several steps around a call that may
  fail, ledgers reduced by what was asked instead of what happened, decisions of many games
  batched together, counters that are reset before they are read;
* files that are written while a process may be killed.

`PROJECT.json` lists each hazard at its line with the properties that cover it, or the reason
why none does.

## 2. Modules

| Module | Models | Kind |
|---|---|---|
| `Field` | one tile and everything that happens to it | pure operators |
| `Stores` | shed, carried goods, stamps | variables and actions |
| `Farm` | one player's episode: units, market slots as seen by a farm, rot, night; EXTENDS `Field`, `Stores` | state machine |
| `Masks` | what the engine offers a policy's units, once a turn; EXTENDS `Farm` | state machine: the farm with the masks of the turn |
| `MarketMasks` | what it offers in the market slots; EXTENDS `Market` | state machine: the market with what the masks were written from |
| `Lifecycle` | figures derived from one observed tile | pure operators |
| `Wire` | tiles and actions as numbers, and back; EXTENDS `Farm`, `Lifecycle` | pure operators, read off the farm |
| `Market` | both accounts, lockstep and bulk trade, posted prices, town | state machine |
| `Batch` | the engine's row of games and its snapshot bank | state machine |
| `Layout`, `Foreman` | where things should stand; the tasks of a turn and their dispatch; EXTENDS `Farm`, `Lifecycle` | pure operators over the farm |
| `Executor` | the daily executor with the farm it plays; EXTENDS `Foreman` | composed state machine |
| `Opening` | the opening book's wrapper and the game that calls it | state machine |
| `Playback` | what the wrapper promises: a script recited from its beginning, then a successor | abstract specification |
| `Rehearsal` | extraction of a script, evaluation of games with it; EXTENDS `Opening` | composed state machine |
| `SelfPlay` | the runner, the trajectory buffer, the PPO batch | state machine |
| `Training` | behaviour cloning, PPO, evaluation, and their files under crashes | state machine |
| `Replays` | the recorded game, the extractor, the command, the files | state machine |
| `ExpertPlan` | the second reading of a replay and the slice of a day; EXTENDS `Replays` | pure operators |
| `Inputs` | what the manager network sees, live and offline, and how its answer is decoded | state machine |
| `Parity` | closed loop, replay harness, comparison of rollouts | state machine |
| `MC...` | small constants, orders, documents, properties TLC alone evaluates | model checking |
| `FarmProofs`, `ExecutorProofs`, `MarketProofs`, `EngineProofs`, `OpeningProofs`, `TrainingProofs`, `SelfPlayProofs`, `InputsProofs` | lemmas and theorems | proofs |

Everywhere, a definition whose comment begins with "Seeded bug" is no part of the model: it
is the definition next to it with a plausible mistake, and `PROJECT.json` says which property
finds the mistake.

### Field, Stores and Farm: correspondence

`Farm` follows `advance_state`. `Submit` is the entry: it fixes the unit orders and computes
`blocked`, the crops whose PLANT requests - over *all* slots, hired or not - exceed the seeds
held before the turn. One action per order serves the units in index order (`next`); `Skip`
is an order whose early returns apply, `Effective` collects these returns. DROP and the
day's end store one item per step, in the order of the stamps. The market phase offers the
farm every outcome the market could have for it: any accepted number of units, as long as
shed, stock and hands allow. `EndTurn` and `Dusk` rot every tile; `Dusk` also grows the
field; `StoreCarried` empties the units; `Dawn` dismisses the hands, sprouts weeds and moves
the clock.

What is left out: money (the market decides nondeterministically), farm statistics, the other
player. `crop_age`/`crop_kind`, `structure`/`structure_kind` and `animal_on_tile`/
`animal_kind`, always written together, are one field each. Products and animals, two arrays
in the engine, are one set of items. `hires_today` equals the number of hands and is not
kept. Weed sprouting, drawn from a Python-compatible generator in the engine, is any subset
of the vacant unlocked tiles. A HARVEST, which the engine performs as one addition, is one
addition.

### Masks, Lifecycle and Wire: correspondence

`Masks` and `MarketMasks` are `write_action_masks`: operations and targets of the unit slots, and
of the market slots. A caller asks for the masks between two calls of the engine
(`action_masks_into`), so they are those of the state before the turn, and while the turn is
played every unit and every slot changes that state. The masks are therefore variables:
`MaskedNext` is a step of the farm that writes `operation_mask` and `target_mask` only when it
ends in the phase `agent`, and `ObservedNext` a step of the market that takes `observed`, the
accounts and posted prices the market's masks are a function of, only when it ends in `units`.

Held against what a turn then does, the masks are not exact, and the properties say by how much.
`MaskedIsIdle`: an order that was not offered is idle, except a PICKUP of goods that a unit before
it brought to the shed in the same turn (`Brings`), which works. `TradesTold`: a trade that
was not offered comes about only if since the masks were written money, room or goods have come
or the price has fallen (`MadePossible`), or if hiring is free: the HIRE mask asks for the plain
Fibonacci price and knows nothing of `farm_hand_cost_mult` (`lib.rs:2278` against 1107-1113), so
that with multiplier 0 a hire that costs nothing is masked from the penniless, and with more than 1
a hire is offered that is too dear. Every exception is needed: in the instances checked each
of them happens, and leaving any of them out violates the property.

`Lifecycle` is a function of a tile and has no state. It is `replay_daily/lifecycle.py`. `ComesTrue` plays the nights that are forecast with
`Overnight` of `Field`, on a tile that is kept watered and fed; `ForecastsComeTrue` asks it of
every tile as the wire decodes it.

`Wire` has the 26 numbers of a tile (`GameState::observe`) and their decoding
(`fast_env/api.py`), the codes and rows of actions, and the dispatch on them. A number divided
by its scale and rounded back is itself; what is cut off at the scale, left out, or shared
between a crop and an animal is kept. `Sight` is a tile of the farm as a caller sees it,
`ForecastsHold` what can be relied on at both ends.

### Market: correspondence

A slot is a record (`current`) so that a whole slot can be played inside a formula:
`Opened` performs HIRE and BUY_LAND, `Round` is one pass of the loop with its three branches
(`Independent`: two orders for different products, both settled in bulk; `Alone`: the rest of
the last order, settled in bulk; otherwise `Lockstep`). `BothBulk` and `AloneBulk` compute
what the engine reads from its prefix-sum tables. `TownTurn` is the end of the turn: the town
consumes, stale prices are posted, a shop may open. `UnitsAct` stands for the farms: units may
bring any number of goods to a shed, or take them.

Money is whole dollars (the engine's f32 is exact below 2^24) and prices are linear in the
inventory (market shape 0) with a floor of one dollar, which is what the bulk settlement and
the floor rule depend on. The iteration bound of a slot, 100 000 in the code, is the
constant `Escape`. A mark on a product whose inventory did not change is left out:
reposting a current price changes nothing.

### Batch: correspondence

`Batch` is `RustBatchEnv`, one action per method that changes state: `Reset`, `ResetAt`,
`CaptureStates`, `RestoreStates`, `ClearBank` and `StepAll` (for `step`, `step_transition` and
`step_into`, which differ in what they return). Arguments are short sequences of
indices and ids, legal or not; a call refused by the validation is `Refuse`. The validation
of `reset_at` and `restore_states` precedes every write, that of `capture_states` does not:
it walks (`Walked`) and leaves what it cloned before the index it refuses.

A game is a function of its seed and the turns played, so it is those two. `handles` and
`verdict` are history: which ids callers were given and of which games, and what the last
call said. The thread pool is left out: a step runs each game on data of its own, so a step
of the row is one step.

### Executor, Foreman and Layout: correspondence

`Executor` composes the agent with the engine's farm: a call of `ExecutorAgent` is one step
(`SameDay`, `NewDay` or `ManagerFails`), which leaves unit orders and a market queue; then
`Farm`'s own actions play the turn, with `Filled` tying a market outcome to the queued order,
and the agent is called again on the farm that results. What the agent remembers between turns
is `memory`. `NewDay` is `_new_day` with everything it assigns, in the code's order:
`DayClosed` stands before the manager is asked and is repeated when it failed, which is the
state a failing call leaves. `Turn` is the rest of `_act`. Tasks are `generate_tasks`, with
keys, sort keys and dependencies; `RunForeman` is the greedy loop over workers with claims,
seed budget and what is at hand; `PlanDayLayouts` is both planners and the shared mask.

Cash is not modelled: the agent may be able to afford any subset of what it wants, and the
market may fill any part of an order. `seen` and `offered` are history.

### Opening, Playback and Rehearsal: correspondence

`Opening` is `OpeningAgent.__call__`, one action per way a call can end, their guards in the
code's order: already delegating (`DelegateAgain`), day and hour that do not parse
(`MalformedPhase`), past the script (`HandOff`), another turn than expected
(`PhaseMismatch`), an action missing or not well formed (`ActionInvalid`), no farm in the
observation (`ObservationIncomplete`), other hands than recorded (`HandCountMismatch`), and
the scripted answer (`Recite`). `RaiseTypeError` is the call that fails while it writes the
text of its divergence. `_handoff` and `_diverge` are `HandOff` and `Diverge` with all they
assign; the best-effort farm summary of a divergence is left out.

The game around the wrapper is external. It has a clock (`now`) and may ask several times in
a turn, not at all, late (about the turn before), or with an observation that lacks
something. `document` is the trace the wrapper was built with: one that `validate_trace`
accepts, or one that only a caller of the class can pass. `played` and `crews` are history.
`Accepted` is the acceptance of a finished game in `opening_book/eval.py`.

`Rehearsal` puts this between its two neighbours. Before it, `Extracted` is what
`extract_opening_trace` makes of a recording whose hours may repeat, whose actions stand one
step after the observation they act on, and which may be of an unverified engine. After it,
`main` of `opening_book/eval.py`: the command line with its usage errors, the engine check, one
verdict per game (`Judge`, from acceptance, anomalies and the envelope at the handoff), a factory
that raises, the exit code. The first game of an invocation is played call by call; of the others only the
outcome is chosen. `besides` in `Judge` stands for the anomalies that have other causes than
the wrapper: the engine's, the mirror's and the baseline game's.

### SelfPlay and Training: correspondence

`SelfPlay` is `run`: `NextChunk`, then per turn `Decide` (`_collect_and_apply_decisions`, with
the buffer that may be full half-way), `Act` (openings, executors that consume their queued
plan, hashing of the joint action), `Step` (the engine and the tracking after it) and `Finish`
(`_finalize` with `seal_day_digest`, rewards and flags), and `Truncate` when the budget is
used up. `Playing` is `active`, `Asking` the seats of its games in the order of the code's two
loops and `Due` the conditions under which a seat's request is appended; `Kept(s, I)` is the list
a loop appends to when a condition holds, told by the places that are kept. `Acted` is one
game's part of `Act`: its seats are called in turn, a script that diverges (`Seen`) is handed
over first. Policies are names and a plan is identified by the request it answers and the key it
was drawn with, so that a plan that reaches another game, seat or day is seen. `PpoBatch` is
`build_ppo_batch` with `compute_gae`; discounts are 0 or 1 and the normalisation of advantages
is left out.

`Training` has three programs over one disk: `run_training` with its best and last
checkpoint and its patience, `execute_training` with rollout, update and checkpoint, and
`execute_evaluation`. Every save is the sequence of its steps on a file and its `.tmp`, and each
trainer may be killed between any two. Weights are version numbers per leaf of the tree, which
is what "which parameters play, learn and are saved" depends on. A validation total may be NaN.

### Replays, ExpertPlan and Inputs: correspondence

`Replays` records any short game (`Play`: which orders succeed and what the night brings is
free), then runs `replay_daily`'s command over a list of files: `ReadInput` extracts or
refuses one, `Convert` and `WriteTable` store rows, `Crash` may come anywhere. `Record` is what
`extract_replay` makes of a day, `RecordToRow` and `RowToRecord` are the conversions of the table.
Money, prices, stocks and shops of an observation are copied by the same lines as hands and
land and are left out. A farm is one row of two tiles, of which the farmer works the second.

`ExpertPlan` reads the same recording a second time, as `tools/expert_plan.py` does, and cuts
slices as `tools/day_slice.py` does; the fast engine of a slice may show the recorded farm
exactly, spelled differently, or another one.

`Inputs` has both roads to the manager network: `Turn` is a turn of a live game in which an
ask may fail before or after its inputs are built; `Store`, `ReadFile` and `SplitUp` are the
data set of `bc_manager`, with rows of several games anywhere in several files. `joined` is
`with_economic_context`, which `run_training` asks for with variants E and JE and not with
V0, its default, and J. Only the join of the context refuses a row that is there twice or that
belongs to no known episode (`Ambiguous`); without it nothing does, and a row trains as often as
the files have it. `read` is a history of the rows read, to say how often that is. `Decode` gives
the same heads to the decoders of `bc_manager` and `rl_manager`; integers wrap at 16 bits
where they do in the code (`Word`). The transforms of the economic channels are monotone and left out.

### Parity: correspondence

A run of `Parity` is one of three harnesses: the closed loop (`Observe`, `Act`, `StepBoth`),
the replay of one list of actions (`Pick`, `StepBoth`) or `CompareRollouts`. After a reset or a
step the fast engine is the official one with at most one fact changed, an agent may decide
otherwise than its counterpart, and the official engine may record an error status; `faults`
is the history of what really differed. Observations are trees, so that `_canonical_tile`,
`canonical_observation` and `deep_diff` are modelled by what they do: the set of the paths at
which two values differ (`DeepDiff`, level by level: the values compared are at most three
levels deep) and the first of them in the order of the walk (`First`), an age
for a placing day, a missing step of the second seat, an int that equals a float.

## 3. Runs

Every run asks the related questions of one state space at once; a property that is a
conjunction is given with its parts.

| Run | Instance | What it shows |
|---|---|---|
| `farm_life` | one tile's life on a 2x2 farm: wheat (single harvest), tomato (ongoing) or goose, one kind per behaviour, every order for it, days of 3 turns, 18 steps | `CropLife`: age and decay step tell one planting day, fertilizer and yield are the crop's own, rot ends, living plants thrive. `AnimalLife`: hunger, stock, care bonus. `BenefitsGiven`: nothing is inherited from the tile's former tenant. `ForecastsHold`: the encoded tile, order and row say the same after decoding (`WireFaithful`), and the calendars of `lifecycle.py` come true when the forecast nights are played (`ForecastsComeTrue`) |
| `farm_stores` | farmer and a hand, a shed of 3 places, one seed, land to buy, 6 steps | `FarmOK`: types, running total, stamps, empty idle hands, one use per tile, locked land bare, seeds reserved. `ArrivalOrderKept`. `HandlingSound`: goods are conserved (`StorageConserves`) and what the masks of the turn rule out is idle, but for fetching what was brought in the turn (`MaskedIsIdle`). `EpisodeEnds` |
| `market` | two players, two products two dollars above the floor, 6 dollars each, 2 slots, 2 turns: trading, investing in hands, land, seeds and animals, or spending everything in one turn and selling and investing in the next (`game`); a seed dearer than its crop, full sheds and units that clear them | `MarketSound`: no overdraft, accounts, shed, posted prices current (`MarketOK`), seats symmetric, no gain from a round trip (`TradeFair`). `BulkMatchesLockstep`: both ways of settling a slot agree. `SlotsEnd`. `TradesTold`: the masks of a turn hide no trade but what became possible after they were written |
| `opening` | recordings of 2 days of 3 turns, the scripts cut out of them, a valid and two invalid documents; up to 2 calls a turn, one turn past the script; evaluations of up to 2 games | `OpeningOK`: the recital is the script's beginning, never ahead of the game, one verdict, validated documents not blamed, accepted games played whole. `RehearsalSound`: what is recited is what the recorded seat did in those hours; the exit code tells of whole games. `KeepsPromise`: refinement of `Playback`. `RehearsalEnds` |
| `batch` | 2 games of 3 steps, a bank of 2, every call with up to 2 arguments | `BatchOK`: handles name what was captured, nobody plays on after the end. `OthersUntouched`: calls touch only what they name |
| `executor` | the agent on a 2x2 farm, days of 3 hours in bins of 2, 7 steps, a market queue of 2, two plans, two starts, a manager that may raise | `ExecutorSound`: types, a call that never raises, the sell ledger of a bin is the plan less what was put on sale. `LaborNotWasted`: whoever is sent to plant, feed, place, care, build or collect finds tile, seed and item as the task needs them, whatever the workers before did. `FeedingKept`: animals are fed before wheat is sold and before other work. `DebtCoversLosses`: what dies of a night stands in the day's debt. `FeedbackIsYesterdays` |
| `selfplay` | 3 games in chunks of 2, 3 days of 2 hours, turn budgets 5 and 4, buffers of 12 and 6 rows | `SelfPlaySound`: types, sealed digests are whole days. `DecisionsSound`: one plan per game, seat and day and it is its own; rows accepted for training are complete; credit goes to the decision that earned it. `LaborIsYesterdays`: the labor the encoder is told is the day before's. `Settles`: every run ends with a result for each game, or raises |
| `training` | 4 epochs with totals 1, 2 or NaN, patience 2; 2 PPO updates; either trainer started twice and killed between any two steps of a save | `TrainingSound`: no torn file under a final name, cloning stops when stale and not before. `BestIsBest`. `CheckpointIsOneState`. `KeptOnceSaved` |
| `training_on_policy` (violation) | the same | the games of the second update are not played by the first one's parameters |
| `parity` | 4 turns, 2 a day, budgets 3 and 5, at most one difference per turn, an agent that may decide otherwise | `ParitySound`: no difference that the canonical state holds escapes. `ReportIsFirst`: what is reported is real and the first there was, the wires' aliases and gaps alone are no difference. `EvaluationSound`: two rollouts that "match" recorded the same, and anomalies are named |
| `replays` | every game of 5 observations over days of 3 turns, extracted by a command that skips, fails and crashes | `OrdersTold`: every order is in one day's row, once (`OrdersSound`), both readings of a replay agree (`ReadingsAgree`), a slice repeats the turns of its day and is verified exactly if it began on the recorded farm (`SliceIsThatDay`). `GrantsAreObserved`: hands and land of a row are those granted, not those ordered. `ReadIsExtracted`: what is read back is what a run that ended well extracted, a torn file is never read as records |
| `inputs` | 3 days of 2 hours, asks that fail at two points, files with rows of four games and of two that nobody knows anywhere, some twice, loaded with the economic context and without, heads of which some are out of range, words of 16 values | `LiveIsStored`: a live difference that is called valid is the one of the day's stored row. `DataSound`: what trains is what was read, as often as it was read, with the context once and of a known game (`SplitsApart`), and with its own figures (`RowsAreOwn`); a game is in one split. `DecodersAgree`: the same answer gives the same plan as long as a quantity fits the tensor's entry |

### Bounds

The farm is 2x2: one tile per quadrant and all four are access tiles, so a unit can do anything
where it stands; the theorems cover larger boards. Calendars are shortened but keep their shape:
a watering window of more than one day, an ongoing crop that bears twice, an animal with a first
day and an interval, a yield cap below the number of waterings with fertilizer. 18 steps are six
days: enough for a crop to be planted, die or rot and be succeeded on the same tile, for an
animal to escape and be succeeded. In `farm_life` one behaviour has one kind of tenant
(`OneKind`, `InKind`): crops and animals never share a tile (`OneUsePerTile`, proved). Three
turns a day are what one unit needs to water, harvest and replant, or to fetch feed, feed and
care, before the night takes what it carries. `OrderUnits` bounds the units of a market order
in `Farm`, `SeedBound` the seeds held, `EpisodeSteps` the episode, `MaxStep` the turns of the
market; each is a guard named so in its module.

`LifeNext` is `Next` without the moves, drops, sales, hires and purchases of land for which the
farm of `farm_life` has no order; they happen in `farm_stores`.

In the market prices start two dollars above the floor, so trading crosses it, and demand
exceeds shed and purse. In the opening `MaxAsks` lets a turn be asked about twice, in time or
garbled, and `LastTurn` is past the script, so that a handoff can be on time or late.
`ArgBound` and `BankBound`: two arguments can be the same game twice, a legal and an illegal
one, or both games; two snapshots can be of one game at two times.

The executor's seven steps are two days and the first call of a third: a day's plan, its
record, the feedback of a whole day. `Plans` has two
that want other numbers of crops, animals and care, one of them fertilizer; `Starts` a farm with
a goose, wheat and wheat in the shed, and a bare one with a weed and a goose in the shed. The
runner has a chunk that is full and one that is not, budgets that cut a game at a day's start
and within a day, buffers that hold all decisions and that overflow half-way through a batch.
Four epochs with patience 2 contain every way to improve, stagnate, see NaN, and stop. In
`parity` the budgets are one below and one above the game's length. In `replays` five
observations are a whole day and the beginning of the next. `Word` is a small stand-in for 2^16 and lies between
the quantities that fit and those that wrap.

### Fairness

`EpisodeEnds` assumes `WF_vars(Next)`: inside the engine a turn is a call that runs finite loops
to their end, and the runner steps a game until it is done; no choice of an agent is assumed
fair. `SlotsEnd` assumes the same of the two actions that matter, `PlayRound` and `CloseSlot`.
`RehearsalEnds` assumes it of the evaluation's own steps, of the game's clock and of its calls
with a complete observation (`env.run` plays a game to its end and asks each seat in its turn);
nothing is assumed of the other calls, which may still come first and end the script early.
`Settles` assumes `WF_vars(Next)` of the runner, which is one loop. The other runs state safety
only: nobody has to start a trainer, a reader or an evaluation, and they may be killed for good.

### Where the code and its words differ

`training_on_policy` (`rl_manager/cli.py:263`): `refresh_identity` exists to "Re-derive the
fingerprint after the underlying params changed" (`ppo_adapter.py:81`) and is called after every
update, but `ppo_update` returns a new state and the loop only rebinds its name; the candidate
adapter, built before the loop, keeps the parameters it was built with.

Further disagreements of this kind are not among the runs of `PROJECT.json`. Each is a formula
that quotes the words and that TLC refutes, in the configuration named here or in that of
the run with the formula in the place of its properties:

| Configuration, property | The words, and what happens |
|---|---|
| `MCOpeningFailClosed` (with `MCOpening`), `GuardFailureDelegates` | "Any guard failure ... immediately delegates" (`opening_book/agent.py:4-16`); when `hands` has no length, the text of the divergence raises first (`agent.py:169`) |
| `MCMarketEscape` (with `MCMarket`), `BulkMatchesLockstep` | the interleaved path is the reference and a slot is given up after 100 000 rounds (`lib.rs:1628`, `lib.rs:2506`); the bound applies to that path only, an order that long settled in bulk trades more |
| `MCMarketScarce` (with `MCMarket`), `MarketInventoryNonNegative` | `debug_assert_invariants` wants a non-negative market inventory (`lib.rs:1058`); neither purchases nor the town have a floor and any positive initial inventory is accepted |
| `MCReplays`, `HiresAreAll` | hires of a day are those of the "authoritative" counter `hires_today` (`replay_daily/extractor.py:493`); who is hired in a day's last turn has left before an observation shows it |
| `MCSelfPlay`, `ContextIsYesterdays` | the "previous daily-start (day, cash) observation" (`rl_manager/runner.py:15-18`) is overwritten by the new day's own before the encoder reads it |
| `MCSelfPlay`, `KeysAreScheduleFree` | "samples attach to row identity (seed), never batch position or env scheduling order" (`rl_manager/ppo_policy.py`); the key names the first game of the batch and the row's place in it |
| `MCExecutor`, `DebtIsComplete` | "End-of-day work debt is measured from tasks still requiring work after the final primitive action" (`executor_v0/agent.py:21-23`); it is measured before that action, and a plant set in the last turn of a day misses its water unlisted |
| `MCExecutor` with `Starts <- FullC`, `EveryBuildBuilds` | "then convert the cheapest crop tile" (`executor_v0/layout.py:193`); nobody clears the crop, so the BUILD sent there is idle |
| `MCTraining`, `SavedAtomically` | "Save train state + configs + provenance atomically" (`rl_manager/ppo_checkpoint.py`); the old file is unlinked before the new one is renamed, a crash between leaves none |

Read in the code while modelling, without a configuration: the live economic history after a
failed ask keeps the failed day (`executor_v0/manager.py:131`) while the stored one does not know
of it; `train --checkpoint` names a file that is never written; a trajectory is written as two
files, one after the other, so that a crash mixes two runs; totals that are all NaN stop
cloning after one epoch; a restarted cloning overwrites a better `best.pt`; the rows of a JSON
extraction that fails midway stay in a partial file; an extraction that skips every game writes
an empty Parquet file which `read_parquet` refuses; `FastBackendAdapter.reset` keeps old rewards;
a first observation of a day that is missing makes the day before "terminal" in
`replay_daily`; `CachingPlanProvider` caches by day only; `hire_cost` overflows 32 bits for a
hand count the configuration allows (`lib.rs:1113`).

## 4. Proofs

Eight modules hold theorems, each from the named assumptions on the constants alone, for every
value of the constants.

### The farm

`FarmProofs`, for every board size, calendar, shed capacity, number of hands, finite set of
items and set of submitted orders (`FieldAssumption`, `StoresAssumption`, `FarmAssumption`, and for the forecasts
`LifecycleAssumption`, that `None` is no number):

| Theorem | Statement |
|---|---|
| `Typed` | `Spec => []TypeOK` |
| `ShedAccounts` | `Spec => []ShedAccounted` |
| `StampsOrdered`, `ArrivalOrder` | `Spec => []StampsInOrder`, `Spec => ArrivalOrderKept` |
| `OneUsePerTile` | `Spec => []TilesOneUse` |
| `LandLocked` | `Spec => []LockedLandBare` |
| `HandsLeaveEmpty` | `Spec => []IdleHandsEmpty` |
| `SeedsCoverPlants` | `Spec => []SeedsReserved` |
| `FarmHolds` | `Spec => []FarmOK`, all of them |

They follow from one inductive invariant, `Inv`, in six parts, each with its own lemma:
`ClockOK` (units and turn; the market starts with nobody being served), `FieldOK` (every tile
is a tile, has one use, and is bare on locked land), `ShedOK` and `CarryOK` (goods), `IdleOK`
and `SeedsReserved`. Three strengthenings are needed. `IdleHandsEmpty` is not inductive: the
dismissal at dawn is safe because during the night everybody below `next` has been emptied.
That BUILD keeps one use per tile needs that a tile without a structure has no animal, which
is one use again plus `None` not being a structure. That `move_to_shed` keeps each shelf within
the capacity needs that no item has more pieces than the whole shed, which comes from counting:
`Places` lists the pieces as pairs, and `PlacesAdded` and `PlacesRemoved` count what a transfer
adds or takes. There is one lemma per tile operation, built from a lemma per field, and one
per movement of goods.

Its second half is about what happens to a plant or an animal over its days:

| Theorem | Statement |
|---|---|
| `CropsLive` | `Spec => []CropLife` |
| `AnimalsLive` | `Spec => []AnimalLife` |
| `BenefitsAreGiven` | `Spec => BenefitsGiven` |

Its invariant `LifeOK` says of every tile what its crop or animal has lived through, in terms of
the day the plants believe it is (`Today`) and the turns played (`Elapsed`): those jump at
different moments, at dusk and at dawn, and a crop planted in the last turn of a day lives
through both. `FieldSteps` reduces every step of the farm to four ways the field changes - a unit
works on one tile, everything rots, everything rots and grows, weeds sprout - and each has a
lemma per tenant (`WorkLives`, `DecayedLives`, `NightLives`, `AnimalNightLives`). `YieldEarned`
rests on counting the waterings of a window (`WateringAdds`), `CareNotBanked` on how the remainder
of an age by the interval goes on (`NextRemainder`), `RotRunsOut` on a crop having borne all it
can before its decay step (`BearsInTime`).

Its last part is about what is told of the farm, and about handling:

| Theorem | Statement |
|---|---|
| `MaskedIdle`, `HandlingHolds` | `MaskedSpec => MaskedIsIdle`, `MaskedSpec => HandlingSound` |
| `ForecastsAreTrue` | `Spec => [](\A p \in Board, seen \in Tile : Shows(seen, field[p]) => ComesTrue(seen, field[p], day, step))` |
| `ForecastsAlwaysHold` | `Spec => []ForecastsHold` |

`HandlingSound` has two parts. `MaskedIdle` proves the second, of the farm with its masks
(`MaskedSpec`). `MasksCurrent` is its invariant: of a unit that has not acted yet, its
position and what it carries are as the masks have them; seeds that are left were told to everybody;
and what lies in the shed was told or has been brought by a unit that has acted (`Brings`). An order
that is not offered is a step off the board or concerns goods that are neither in the shed nor
carried, and neither changes anything. For the first, `OwnedMoves` says what is owned after one unit's
goods and one shelf have changed, from the lemmas on sums over a finite set; each of the
handling operations is such a change, and the end of the day is one for every item of a unit
in turn. Both rest on `Inv`.

`ForecastsAreTrue` compares a formula with a simulation: `lifecycle.py` computes the day of the
next yield by remainders, `ComesTrue` plays the nights with `Overnight`. `NextDayIs` is the
arithmetic of the formula, `KeptIs` what any number of nights leaves of a tile that is watered
and fed (by induction over the nights, from what one night does), and `LifeOK` gives the facts
about the tile they meet in. Its hypothesis `Shows` is what the decoded tile must have in common
with the tile; that the wire's decoding has it is `WireFaithful`.

`ForecastsAlwaysHold` joins the two, for all tables of names the wire may be given
(`WireAssumption`: no name stands twice in a table and none that is played with is missing, the
animals' feed and the fertilizer have the places at which the market's dispatch looks for them,
and calendars, stocks and the length of a game stay within the scales; the engine's 30 days of 24
turns and scale of 100 do). An observation decodes to the tile's fields (`PlantSeen`, `AnimalSeen`
and one lemma per other use of a tile) up to what is cut off at a scale, and that nothing is
takes facts about the whole game: no plant is older than the game (`Sprung`), the game ends in
time (`OnTime`, so that the day stays within the season), and the care an animal has saved up is
bounded by its calendar (`CareFits`, from `CareRecent`). `LifespanTold` is the arithmetic of the one
figure the engine withholds, an ongoing crop's decay step before its last production day. Orders
go through `UnitTaken` and `TradeTaken`, one case per kind of order.

### The executor

`ExecutorProofs`, for every board, herd, market, set of farms it may be attached to and set of
plans (`ExecutorAssumption` and the farm's assumptions):

| Theorem | Statement |
|---|---|
| `ExecutorHolds` | `ExecutorSpec => []ExecutorSound`: types, ledger, `NeverRaises` |
| `ExecutorKeepsFarm` | `ExecutorSpec => []FarmOK` |
| `FeedbackHolds` | `ExecutorSpec => FeedbackIsYesterdays` |
| `DebtHolds` | `ExecutorSpec => DebtCoversLosses` |
| `LaborHolds` | `ExecutorSpec => []LaborNotWasted` |
| `FeedHolds` | `ExecutorSpec => FeedKept`, the first half of `FeedingKept` |

The farm's step lemmas are stated for `Plays`, a step of the farm under *any* unit orders, so that
they serve `Spec`, whose orders come from a constant, and the executor, whose orders are
computed. `AgentStep` shows that every step of the executor is such a step. It rests on four
layers of lemmas about pure functions, one per function of the code:
* *layout*: `HerdLaid` and `CropsLaid`: the planners' slots lie on distinct tiles, in the pool their
  source names, and the crops' tiles avoid the animals' (`DayLaid`);
* *tasks*: `MechanicalWork`, `CropWork`, `AnimalWork` and `AllocatedWork` say what each group of
  tasks is made of, `WorkKeys` that no two of different groups share kind, target and tile, and
  `Generated` that a turn's tasks are finite, well formed and have unique keys;
* *dispatch*: `ForemanLeads`: each worker's order is one the engine accepts, and a task counts as
  done only if a worker stands there, holds what it needs and is ordered to do it;
* *queue*: `QueuedIs`: what is cut off the queue stays in the ledger.

The recursive functions of the model (greedy choice, queue, sort) are unfolded with `Recursion`, and
what their values keep is carried along with `Closure`; both come from `Induction`, which states
induction over the naturals about sets.

`FeedbackIsYesterdays` needs `Memoir`: on a day without a plan nobody is hired, because a failing
turn queues nothing. `DebtCoversLosses` needs `Watched`: until the last turn's workers have acted,
everything that would be lost is on the list or awaited by a worker that stands there with the
right order and, for an animal, wheat. `WorkSpares` says no work but planting makes a plant
drier or an animal hungrier, `WaitsOn` that no other worker takes the waiting worker's place
or wheat.

`LaborNotWasted` needs `Labored`: while the units act, no order was struck out for want of seeds,
every order still to be carried out suits its tile and its worker (`Suits`), and no two pending
orders on one tile clash. The second part alone is not inductive: a worker may spoil the tile of one
that acts later, which only the third excludes. It comes from the dispatch: `WorkOfOneTile` goes
through the sources of work that can meet on a tile, `UndoneWaitsNot` uses the dependencies
the foreman waits for, and the seed budget of `ForemanLeads` gives that the seeds suffice for all
who plant.

`FeedKept` needs `Stocked`: from the call to the last market slot, the wheat the farm has less any
sale of wheat still to come is a meal for each animal that waits for one, newcomers excepted; no
item is on sale twice; and whoever still has an animal to place stands where the observation put
the newcomers, whoever still has one to feed does not. `WheatActs` says that units at work
cost the farm no wheat but what they feed (nobody drops goods, and by `Labored` whoever places has
an animal to house), `HungryActs` that each meal eaten is one animal less to feed, `SlotServed`
that only a sale of wheat takes wheat. Sums over units come from `SumShift`.

### The market

`MarketProofs`, for any number of products, slots and turns, any demand, purse and prices
(`MarketAssumption`):

| Theorem | Statement |
|---|---|
| `MarketHolds` | `Spec => []MarketOK` |
| `TradeIsFair` | `Spec => []TradeFair` |
| `MarketIsSound` | `Spec => []MarketSound`, both of them |
| `BulkIsLockstep` | `ShedCapacity < Escape` implies `Spec => []BulkMatchesLockstep` |
| `TradesToldHold` | `ObservedSpec => TradesTold` |

`MarketInv` is `MarketOK` with the place in the turn and in the slot. Fairness is about the two
seats of one slot: `Swapped` plays the slot with the seats exchanged, and a round gives each
what the other had. `BulkIsLockstep` is the equivalence the engine's speed rests on: after any
number of rounds the slot served with bulk settlements is the one traded unit by unit, or it is
settled already and stands where the other will end (`Joined`, `Ahead`), and `SlotTallied` says that no order outlasts the rounds of a slot: who still buys has
filled a place of his shed in every round, who still sells has cleared one. Sums and rounds are
reasoned about by induction over sets of numbers (`Induction`). The hypothesis is needed:
`MCMarketEscape` is the counterexample without it, and the engine's numbers (100 against
100 000) satisfy it.

`TradesToldHold` also assumes `MasksAssumption`: what `fibonacci` computes, what `hire_cost` makes of
it, and that a dearer plot comes later. Beside `MarketInv` it rests on one invariant, `SinceObserved`:
what was observed are sound accounts, with no more hands and no more plots than there are now. It
is needed because a hand that were gone again, or a plot, would make cheaper what the masks took for
too dear; both only grow within a turn. The round is reduced to one order of one player
(`OnlyPossible`), and an order that is possible and was not offered is followed through each
condition of the masks.

### The batch

`EngineProofs`, for any number of games, seeds, arguments and bank size:

| Theorem | Statement |
|---|---|
| `BatchTyped` | `Spec => []TypeOK` |
| `HandlesKeptFaithful` | `Spec => []HandlesFaithful` |
| `NoGamePlayedOn` | `Spec => []NoTurnAfterEnd` |
| `BatchHolds` | `Spec => []BatchOK`, all of them |
| `OnlyNamedTouched` | `Spec => OthersUntouched` |

The inductive invariant is `HandlesFaithful` with the types and `InTime` of every game, live
or banked. It holds across `CaptureStates` because the bank only grows at its end: ids in
use keep their places whether or not the call succeeds.

### The comparisons of the engines

`EngineProofs`, for games of any length and calendar, any budget and any pairs of recorded
rollouts (`ParityAssumption`: the recordings are rollouts, with a joint action for every turn
and a value for every day they list; `NoneAssumption`: `None` is no seat, fact or phase):

| Theorem | Statement |
|---|---|
| `ParityHolds` | `ParitySpec => []ParitySound` |
| `ReportHolds` | `ParitySpec => []ReportIsFirst` |
| `EvaluationHolds` | `ParitySpec => []EvaluationSound` |

They rest on what the comparison of two trees tells: `DeepDiffTells` says that two values of one
shape have no differing path exactly if they are equal, `StateDiffTells` and
`ObservationDiffTells` that the states made of the two wires are equal exactly if the engines
agree on the facts the wire shows - an age and a placing day, a sparse and a dense shed, a step
and a missing one are made into the same. `MirrorTells` turns that into which of the changed
facts each comparison sees.

The inductive invariant `Shape` has three parts. `Placement`: where each harness is and what the
clocks say there. `Going`: while nothing is reported the game is not over, its statuses are
active, and the history has an entry for every turn, none an anomaly. `Watching`: what may have
differed without a report - in the closed loop nothing once the observations were compared, and
before that only what a state does not show, of the last step; in the replay only that, ever.
The last part is what makes `ReportIsFirst` true and is needed for it: it names the fault that
the first failing comparison finds, and says that no earlier one is left. A run that has
reported does nothing more (`ReportEnds`), so that each of the three properties is proved of the
step that makes the report. Of two recordings, `LogsDiffer`
and `ActionsDiffer` say that no key differs exactly if the logs are the same, and
`EarliestTurn` that up to the turn that is named the joint actions are.

### The opening

`OpeningProofs`, for every calendar, set of documents and sequence of calls:

| Theorem | Statement |
|---|---|
| `OpeningTyped` | `Spec => []TypeOK` |
| `RecitalInOrder`, `RecitalBehindGame` | `Spec => []RecitesInOrder`, `Spec => []NeverAhead` |
| `VerdictUnique` | `Spec => []OneVerdict` |
| `ValidatedDocumentsPlay` | `Spec => []ValidatedNotBlamed` |
| `AcceptanceSound` | `Spec => []AcceptedIsWholeScript` |
| `OpeningHolds` | `Spec => []OpeningOK`, all of them |
| `OpeningKeepsPromise` | `Spec => KeepsPromise`, the refinement of `Playback` |
| `RehearsalIsOpening` | `RehearsalSpec => Spec` |
| `OpeningHoldsRehearsed`, `PromiseKeptRehearsed` | `RehearsalSpec => []OpeningOK`, `RehearsalSpec => KeepsPromise` |
| `ExitIsTrue` | `RehearsalSpec => []ExitTellsVerdicts` |
| `RehearsalHolds` | `OrdersEveryHand` implies `RehearsalSpec => []RehearsalSound` |

`Inv` joins types, `RecitesInOrder`, `NeverAhead` and `OneVerdict`; each of the outcomes of a
call either keeps the recital (`RecitalKept`), gives the seat up (`SeatGivenUp`) or extends
the recital by the expected turn. The step that needs care is arithmetic: that the turn
`cursor` is `<<cursor \div T, cursor % T>>`, that `EntryAt` finds it again, and that a turn
of a date the game has reached is no later than the game (`NeverAhead`). `AcceptanceSound` adds
`HandoffReached`: a recorded handoff turn is one the game had reached. In the refinement the
turns recited are computed from the dates of the answers, so that it says something about
them and not about the cursor.

An evaluation is a run of the opening (`RehearsalIsOpening`), so all of this holds under the
command of `opening_book/eval.py` as well. `CutOut` says that a document with
a source is what `extract_opening_trace` makes of it; `RecitedAsRecorded` then turns "recites the script" into "does what the
recorded seat did". It needs that the recording orders every hand it has (`OrdersEveryHand`): the
extractor pads nothing, and a turn of fewer orders than hands makes the wrapper diverge.
`ExitInv` carries the verdicts of the games played to the exit code.

### Training

`TrainingProofs`, for any number of epochs, updates and restarts, any patience and any
validation totals, NaN included (`TrainingAssumption`; `FilesAssumption`, that a missing or a
torn file is no model):

| Theorem | Statement |
|---|---|
| `TrainingIsSound` | `Spec => []TrainingSound` |
| `BestStaysBest` | `Spec => []BestIsBest` |
| `CheckpointsAreWhole` | `Spec => []CheckpointIsOneState` |
| `ModelsAreKept` | `Spec => KeptOnceSaved` |

The invariant has two halves. `CloningOK` ties four things together: what the loop knows is the
first lowest of the totals it has seen (`Counted`), it goes on only within the patience
(`Paced`), the saves still queued hold this epoch's model, the best file's before the last one's
(`Pending`), and the two files are of epochs of their runs, the best never behind the last
(`ModelsOK`); the queue is what makes the two files agree although a crash may come between
them. `PpoOK` says that after `n` updates the state is
the `n`th and the keys used are the first `n` (`TrainerOK`), and that from the moment a `.tmp`
is written until it is renamed it holds the state being saved (`SavingPpo`). Both halves are checked by TLC as well.

### The replays

`TrainingProofs` too, for every length of a day, of a bin and of a game, all actions of the acting
seat and all invocations of the command (`ReplaysAssumption`, `ActionsAssumption`,
`InvocationsAssumption`; `NoneAssumption` and `DiffAssumption`, that "missing" and "no difference"
are no values; `PositionsAssumption`: the farmer works the second tile of a row of two):

| Theorem | Statement |
|---|---|
| `GrantsHold` | `ReplaysSpec => []GrantsAreObserved` |
| `ReadHolds` | `ReplaysSpec => []ReadIsExtracted` |
| `OrdersHold` | `ReplaysSpec => []OrdersTold` |

The invariant has three parts. `Game`: observation `i` is of turn `i - 1`, and each came from the
one before by the turn played in between (`Turned`), which is all an extractor can know. `Kept`:
the records kept are as many as the games parsed have days and seats, each of the extractor's
form. `OnDisk`: what the file may hold in each phase, whole only after a run that ended
well; that is what makes a file cut short by a crash unreadable until it is written again.

The rest is about the readers, and takes most of the proof. They loop over all observations of a
game; `Bounded` and `TurnsAre` say that a day's turns lie side by side, `Stretch`, `CountIs` and
`LengthIs` that a loop over all of them which skips those of other days counts the turns of the
day. Grants: `hires_today` only rises within a day (`HandsGrow`), so the greatest one seen is the
sum of the hires before the last turn (`ShownIs`) and the costs of the steps add up to the cost
of the sum (`ExecutionIs`); owned land only grows at its end (`LandSeen`, `UnlikeOwned`), so what
two observations differ by is what was granted between them. Reading back: a tile survives the
conversion to a row and back (`TileRound`) because every field a tile has is in the schema, and
a record does because its tiles do (`RecordRound`). The two readings are compared part by part:
`SellsAgree`, `HiresAgree`, `LandAgree`, `WorksAgree`, with `Window` for the bins. Of slices,
`NormalIs` says that two normalised tiles are equal exactly if they look alike (so that what the
comparison drops is only what the engines spell differently), `VerifiedIs` lifts it to farms, and
`RepeatedIs` gives the actions. The loops are recursive functions; `Recursion` unfolds them.

### The runner

`SelfPlayProofs`, for every set of games, castings, chunk size, number of days and hours (at
least two a day), turn budget and buffer capacity (`SelfPlayAssumption`):

| Theorem | Statement |
|---|---|
| `LaborIsTold` | `Spec => LaborIsYesterdays` |
| `SelfPlayHolds` | `Spec => []SelfPlaySound` |
| `DecisionsHold` | `Spec => []DecisionsSound` |

Three invariants, each relative to the one before. `GamesOK` is about the games alone: a game
that has been dealt plays, one that waits is `Unplayed`, clocks agree with the chunk's turn
(`ClocksOK`, `EndsOK`), the tracker's labor is that of the day it says (`LaborOK`), and the
digest of a day holds the hours so far, of the current day, all, of an earlier one
(`DigestsOK`). `DecisionsOK` is about decisions. `DecidedTo` is the first day whose decision is not
behind a game; up to it every seat's rows, queue and planned days agree (`RowsOwn`, `PlannedOK`,
`QueuesOK`, `AgentsOK`), beyond it there is nothing (`NotAhead`), a seat has one row a day
(`RowsOnce`), found through its index (`IndexOK`), and a plan is the answer to its own request
(`PlansOwn`). A buffer that is full in the middle of a batch is the case that needs care: a plan
is queued of which no row exists, but then the run has raised. `CreditOK` says that of a
finished game the last row of each seat bears the outcome and the flag and no other row does. `CreditIsOwn` also needs what
`compute_gae` computes: its backward recursion has the closed form `OwedAhead`, which is proved
by induction on the distance to the last row (`OwedIs`, `EstimateIs`).

### The inputs

`InputsProofs`, for every calendar, set of money, answers and word size (`InputsAssumption`), and
for all rows of other games and all layouts of files (`DataAssumption`):

| Theorem | Statement |
|---|---|
| `DecodersAlike` | `Spec => []DecodersAgree` |
| `LiveAsStored` | `Spec => []LiveIsStored` |
| `DataHolds` | `Spec => []DataSound` |

`LiveOK` ties the executor's memory to the rows the replay will yield. `AgentOK` is the part that
took strengthening: until an ask is answered nothing happens on the farm, so that a repeated
ask still sees the figures of the day's row, and what is remembered of a day that was answered,
and not followed by a failed ask, is what the next day's row tells.

`DataOK` is the invariant of the loader: whatever is stored was taken, if it is wanted, or is
still to be read, the report counts both, and the table is picked from what was read (`Picks`):
there is a bijection from its places to the places of selected rows. Picks are joined as files
are read (`PicksJoin`), compose when the table is split (`PicksOfPicks`), and preserve how often a
row is there (`PicksCount`), which is what "as often as it was read" rests on. Of `DataSound` the rest is about operators. `Kept`
is a sequence cut down to some places, of which `KeptIs` says that each is there once and in
order; the target of a list of goods is a sum by key, of which `SumByKey` says that it is the
sum of the list. `DataAssumption` says what the stored rows are: the vocabularies are finite, the
rows of an episode share their date and score (as `adapter.py:601` states and the code relies
on), the extractor stores one row a day and seat, and every stored row is in some file. Rows
without a game or care target, of another version, with unknown names, and rows read twice are
all allowed, and the context may be asked for or not: the loader refuses what it cannot use, with
the context also rows that are there twice or of no game, and the theorem says what is left.

### Only model-checked

* Liveness (`EpisodeEnds`, `SlotsEnd`, `RehearsalEnds`, `Settles`): TLAPS has no ENABLED.
* Of the executor `StarvingAreFed`, the second half of `FeedingKept`: whether a worker reaches the
  animal before dusk is a matter of distances and of the turns that are left, which the
  constants do not bound.

## 5. Not modelled

* `PythonRandom` is a bit-exact generator; its draws are nondeterministic choices.
* Configuration and rule validation: parsing, and equality of constant tables.
* Networks, losses, optimisers, the conversion of weights: numerics. Parameters are version
  numbers, advantages have discounts 0 or 1 and are not normalised.
* Of observations, the slots that copy one number of the state; of masks, the quantities, which offer all.
* `action_generator`, provenance, hashes, reports, benchmarks, metrics, argument parsing,
  progress output: formatting, or measurements.
* The executor's cash is a free choice, and so are prices in `Farm`; the two farms and the market
  are not composed into one game, each has the other as an environment.
* Trajectories are written and read without loss in `SelfPlay`.

## 6. Plan

What is left, in order of importance:
1. Two farms and a market in one engine, with one set of masks.
2. The files of a trajectory under crashes.
