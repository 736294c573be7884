------------------------------ MODULE Replays ------------------------------
(***************************************************************************)
(* From replays to training records (replay_daily/): a game is recorded,   *)
(* turn by turn, as the observations of two seats and the action that led  *)
(* to each; the extractor turns it into one record per seat and day; the   *)
(* command line reads a list of such files and stores the records, as      *)
(* Parquet rows or as lines of JSON; a reader takes them back.             *)
(*                                                                         *)
(* The game is external: which orders succeed, what a night brings and     *)
(* whether a tile carries a field nobody knows are free.  Of an            *)
(* observation the farm is kept; money, prices, stocks and shops are       *)
(* copied by the same lines and left out.  The derived figures of a tile   *)
(* are the subject of Lifecycle.tla: here they are a flag and a number of  *)
(* days that may be null.                                                  *)
(***************************************************************************)
EXTENDS Integers, Sequences, FiniteSets, FiniteSetsExt, SequencesExt

CONSTANTS
    None, Null,
    Hours,        \* turnsPerDay
    LastIndex,    \* bound: the index of the last observation
    BinHours,     \* hours of a selling window: 4
    Actions,      \* bound: what the acting seat may submit in a turn
    Invocations,  \* bound: the files and options a run is given
    Positions     \* bound: where the farmer stands, as <<x, y>>

ASSUME ReplaysAssumption == {Hours, LastIndex, BinHours} \subseteq Nat \ {0}
ASSUME ActionsAssumption ==
    /\ Actions \subseteq [farmer : {"PASS", "PLANT", "DIG", "HARVEST", "FERTILIZE"},
                          market : Seq({"HIRE", "BUY_LAND", "SELL"})]
    /\ None \notin Actions
ASSUME InvocationsAssumption ==
    Invocations \subseteq [inputs : Seq({"game", "other", "broken"}), format : {"parquet", "jsonl"},
                           mismatch : {"fail", "skip"}, overwrites : BOOLEAN]
\* The only tile a farmer can work on is the second of the row.
ASSUME PositionsAssumption == Positions \subseteq {<<1, 0>>}

Seats == {0, 1}
LandOrder == <<"NE", "SW", "SE">>
SchemaVersion == 3

VARIABLES
    steps,        \* the replay: observation i is steps[i + 1], after the action in it
    actor,        \* the seat that acts; the other agent submits nothing
    drift,        \* a tile carries a field outside the storage schema
    real,         \* history: what happened in each turn
    inputs,       \* the files still to be read
    options,      \* --format and --on-version-mismatch
    kept,         \* parquet_records, or the lines written so far
    parsed,       \* stats["parsed"]
    disk,         \* the file under the output's name
    phase

replays_vars == <<steps, actor, drift, real, inputs, options, kept, parsed, disk, phase>>

-----------------------------------------------------------------------------
(* Tiles, in the replay, in a record and in a row. *)

Tile(form, kind, fields) == [form |-> form, kind |-> kind, fields |-> fields]
Empty == Tile("none", None, <<>>)
Locked == Tile("string", "LOCKED", <<>>)
Weed == Tile("dict", "WEED", <<>>)
Plant(y) == Tile("dict", "PLANT", [f \in {"crop", "yield_units"} |-> IF f = "crop" THEN 1 ELSE y])

Wilted(y) ==
    Tile("dict", "PLANT",
         [f \in {"crop", "yield_units", "wilted"} |-> IF f = "yield_units" THEN y ELSE 1])
Tiles == {Empty, Locked, Weed} \cup {Plant(y) : y \in {0, 1}} \cup {Wilted(y) : y \in {0, 1}}

TileFields == {"crop", "animal", "yield_units"}
\* None, what a missing value is written as, is none of the values that are written.
ASSUME NoneAssumption ==
    /\ None \notin {"LOCKED", "WEED", "PLANT"} /\ None \notin Tiles
    /\ None \notin [{"currently_harvestable", "days_until_next_harvest"} -> {0, 1, Null}]

DerivedFields == {"currently_harvestable", "days_until_next_harvest", "days_until_next_product"}

\* canonical_tile: only a plant has derived figures, and none of an animal.
CanonicalTile(t) ==
    [tile |-> t,
     derived |-> IF t.kind # "PLANT" THEN None
                 ELSE [f \in {"currently_harvestable", "days_until_next_harvest"} |->
                          IF t.fields["yield_units"] > 0
                          THEN IF f = "currently_harvestable" THEN 1 ELSE 0
                          ELSE IF f = "currently_harvestable" THEN 0 ELSE Null]]

\* _require_known_keys: a field the schema lacks is refused.
Known(t) == DOMAIN t.tile.fields \subseteq TileFields

\* A row has a column for every field, null where there is none, and a mask of those present.
Columns(f, names) == [n \in names |-> IF n \in DOMAIN f THEN f[n] ELSE Null]
\* Seeded bug: a null figure is taken for an absent one.
NormTileUnmasked(t) ==
    [form |-> t.tile.form, tile_kind |-> t.tile.kind,
     mask |-> DOMAIN t.tile.fields,
     columns |-> Columns(t.tile.fields, TileFields),
     derived_present |-> t.derived # None,
     derived_mask |-> IF t.derived = None THEN {} ELSE {n \in DOMAIN t.derived : t.derived[n] # Null},
     derived |-> IF t.derived = None THEN None ELSE Columns(t.derived, DerivedFields)]
NormTile(t) ==
    [form |-> t.tile.form, tile_kind |-> t.tile.kind,
     mask |-> DOMAIN t.tile.fields \cap TileFields,
     columns |-> Columns(t.tile.fields, TileFields),
     derived_present |-> t.derived # None,
     derived_mask |-> IF t.derived = None THEN {} ELSE DOMAIN t.derived,
     derived |-> IF t.derived = None THEN None ELSE Columns(t.derived, DerivedFields)]
DenormTile(row) ==
    [tile |-> Tile(row.form, row.tile_kind,
                   IF row.mask = {} THEN <<>> ELSE [f \in row.mask |-> row.columns[f]]),
     derived |-> IF ~row.derived_present THEN None
                 ELSE [f \in row.derived_mask |-> row.derived[f]]]

-----------------------------------------------------------------------------
(* The game: external. *)

Farm(hires, quadrants, tiles) ==
    [hires_today |-> hires, unlocked_quadrants |-> quadrants, tiles |-> tiles]
Start == Farm(0, <<"NW">>, <<<<Locked, Empty>>>>)
Passing == [farmer |-> "PASS", market |-> <<>>]

NoFile == [format |-> "none", whole |-> FALSE, schema |-> 0, rows |-> <<>>]

ReplaysInit ==
    /\ actor \in Seats /\ drift \in BOOLEAN
    /\ steps = <<[day |-> 0, hour |-> 0, action |-> [s \in Seats |-> Passing],
                  farms |-> [s \in Seats |-> Start]]>>
    /\ real = <<>>
    /\ inputs = <<>> /\ options = None
    /\ kept = <<>> /\ parsed = 0
    /\ disk = NoFile /\ phase = "playing"

\* How many of its orders are of one kind.
OrdersOf(action, op) == Cardinality({k \in DOMAIN action.market : action.market[k] = op})

\* What the farmer's operation leaves of a tile.
Worked(t, op) ==
    CASE op = "PLANT" /\ t.kind = None -> IF drift THEN Wilted(0) ELSE Plant(0)
      [] op = "DIG" /\ t.form = "dict" -> Empty
      [] op = "HARVEST" /\ t.kind = "PLANT" -> [t EXCEPT !.fields["yield_units"] = 0]
      [] OTHER -> t
Nights(t) ==
    CASE t.kind = "PLANT" -> {[t EXCEPT !.fields["yield_units"] = 1]}
      [] t.kind = None -> {t, Weed}
      [] OTHER -> {t}

\* One turn: some of the orders to hire and to buy land succeed; a morning ends the hires.
Play ==
    /\ phase = "playing" /\ Len(steps) <= LastIndex
    /\ LET now == steps[Len(steps)]
           farm == now.farms[actor]
           dawn == now.hour + 1 = Hours
       IN  \E action \in Actions :
           \E hired \in 0..OrdersOf(action, "HIRE"),
              bought \in 0..Min({OrdersOf(action, "BUY_LAND"),
                                 1 + Len(LandOrder) - Len(farm.unlocked_quadrants)}),
              tile \in IF dawn THEN Nights(Worked(farm.tiles[1][2], action.farmer))
                       ELSE {Worked(farm.tiles[1][2], action.farmer)} :
              LET lands == SubSeq(LandOrder, Len(farm.unlocked_quadrants),
                                  Len(farm.unlocked_quadrants) + bought - 1)
              IN  /\ steps' = Append(steps,
                        [day |-> IF dawn THEN now.day + 1 ELSE now.day,
                         hour |-> IF dawn THEN 0 ELSE now.hour + 1,
                         action |-> [s \in Seats |-> IF s = actor THEN action ELSE None],
                         farms |-> [now.farms EXCEPT ![actor] =
                                      Farm(IF dawn THEN 0 ELSE farm.hires_today + hired,
                                           farm.unlocked_quadrants \o lands,
                                           <<<<Locked, tile>>>>)]])
                  /\ real' = Append(real, [day |-> now.day, hour |-> now.hour, action |-> action,
                                           hired |-> hired, lands |-> lands,
                                           worked |-> farm.tiles[1][2]])
    /\ UNCHANGED <<actor, drift, inputs, options, kept, parsed, disk, phase>>

-----------------------------------------------------------------------------
(* The extractor. *)

\* The members of a set of numbers in their order, and the sum of a sequence of numbers.
InOrder(S) == [k \in 1..Cardinality(S) |->
                 CHOOSE i \in S : Cardinality({j \in S : j < i}) = k - 1]
Total(numbers) ==
    LET sum[k \in 0..Len(numbers)] == IF k = 0 THEN 0 ELSE sum[k - 1] + numbers[k]
    IN  sum[Len(numbers)]

\* fib: the last two numbers, count times.
Fib(n) ==
    LET pair[k \in 0..n] == IF k = 0 THEN [a |-> 1, b |-> 1]
                            ELSE [a |-> pair[k - 1].b, b |-> pair[k - 1].a + pair[k - 1].b]
    IN  pair[n].a
TotalHireCost(count) == Total([i \in 1..count |-> Fib(i - 1)])

IsPrefixOf(s, t) == Len(s) <= Len(t) /\ SubSeq(t, 1, Len(s)) = s

\* Seeded bug: an order to buy land counts as bought, in the order the land is sold.
LandAdditionsOrdered(pre, post, seat, action) ==
    LET owned == Len(pre.farms[seat].unlocked_quadrants)
    IN  SubSeq(LandOrder, owned, Min({Len(LandOrder), owned + OrdersOf(action, "BUY_LAND") - 1}))
\* _observed_land_additions: only the next observation tells what was unlocked.
LandAdditions(pre, post, seat, action) ==
    LET before == pre.farms[seat].unlocked_quadrants
        after == post.farms[seat].unlocked_quadrants
        additions == SubSeq(after, Len(before) + 1, Len(after))
        expected == SubSeq(LandOrder, Len(before),
                           Min({Len(LandOrder), Len(before) + Len(additions) - 1}))
    IN  IF IsPrefixOf(before, after) /\ additions = expected THEN additions ELSE <<>>

NoEvents == [works |-> <<>>, market |-> <<>>, sells |-> <<>>, land |-> <<>>, hires |-> 0]

\* Positions are [x, y], the board is tiles[y][x]; a worker outside the board is passed over.
TileAt(tiles, position) ==
    IF position[2] + 1 \in DOMAIN tiles /\ position[1] + 1 \in DOMAIN tiles[position[2] + 1]
    THEN tiles[position[2] + 1][position[1] + 1] ELSE None

\* What one operation adds to the ledger: a harvest only where there is something to harvest.
Work(op, tile, hour) ==
    IF op = "PASS" \/ tile = None \/ (op = "HARVEST" /\ tile.kind # "PLANT") THEN <<>>
    ELSE <<[op |-> op, on |-> IF op = "PLANT" THEN None ELSE tile.kind,
            hour |-> IF op = "HARVEST" THEN hour ELSE None]>>

\* _events_from_action: the ledger of one turn, by the observation the action was decided on.
EventsFromAction(action, pre, post, seat, position) ==
    LET land == LandAdditions(pre, post, seat, action)
    IN  [works |-> Work(action.farmer, TileAt(pre.farms[seat].tiles, position), pre.hour),
         market |-> [k \in DOMAIN action.market |-> <<action.market[k], pre.hour>>],
         sells |-> [k \in 1..OrdersOf(action, "SELL") |-> pre.hour],
         land |-> [k \in 1..OrdersOf(action, "BUY_LAND") |->
                      [quadrant |-> IF k \in DOMAIN land THEN land[k] ELSE Null, hour |-> pre.hour]],
         hires |-> OrdersOf(action, "HIRE")]

\* _merge_events, of one turn after the other.
Merged(turns) ==
    [works |-> FlattenSeq([k \in DOMAIN turns |-> turns[k].works]),
     market |-> FlattenSeq([k \in DOMAIN turns |-> turns[k].market]),
     sells |-> FlattenSeq([k \in DOMAIN turns |-> turns[k].sells]),
     land |-> FlattenSeq([k \in DOMAIN turns |-> turns[k].land]),
     hires |-> Total([k \in DOMAIN turns |-> turns[k].hires])]

DaysStarted == {steps[i].day : i \in {j \in DOMAIN steps : steps[j].hour = 0}}
FirstStart(d) == Min({i \in DOMAIN steps : steps[i].day = d /\ steps[i].hour = 0})
LastOf(d) == Max({i \in DOMAIN steps : steps[i].day = d})
EndOf(d) == IF d + 1 \in DaysStarted THEN FirstStart(d + 1) ELSE Len(steps)

\* Seeded bug: an action belongs to the day of the observation it led to.
WithinDayLate(i, d) == steps[i].day = d
WithinDay(i, d) == steps[i - 1].day = d

\* What the action in step i adds to day d.
StepEvents(i, seat, d, position) ==
    IF WithinDay(i, d) /\ steps[i].action[seat] # None
    THEN EventsFromAction(steps[i].action[seat], steps[i - 1], steps[i], seat, position)
    ELSE NoEvents
DayEvents(seat, d, position) ==
    Merged([k \in 1..(EndOf(d) - FirstStart(d)) |->
               StepEvents(FirstStart(d) + k, seat, d, position)])

\* Seeded bug: the observation at the end of the day, when the hires are gone, is the count.
PreviousExecutionAtDawn(seat, d) ==
    IF d \notin DaysStarted THEN [workers_hired |-> 0, hire_cost |-> 0]
    ELSE LET last == steps[EndOf(d)].farms[seat].hires_today
         IN  [workers_hired |-> last, hire_cost |-> TotalHireCost(last)]
\* previous_execution_of_day: each rise of hires_today within the day, at its cost.
PreviousExecution(seat, d) ==
    IF d \notin DaysStarted THEN [workers_hired |-> 0, hire_cost |-> 0]
    ELSE LET turns == LastOf(d) - FirstStart(d) + 1
             seen[k \in 0..turns] ==
                 IF k = 0 THEN [workers_hired |-> 0, hire_cost |-> 0]
                 ELSE LET observed == steps[FirstStart(d) + k - 1].farms[seat].hires_today
                      IN  IF observed <= seen[k - 1].workers_hired THEN seen[k - 1]
                          ELSE [workers_hired |-> observed,
                                hire_cost |-> seen[k - 1].hire_cost + TotalHireCost(observed)
                                                - TotalHireCost(seen[k - 1].workers_hired)]
         IN  seen[turns]

State(i, seat) ==
    [day |-> steps[i].day, hour |-> steps[i].hour,
     unlocked_quadrants |-> steps[i].farms[seat].unlocked_quadrants,
     board |-> [y \in DOMAIN steps[i].farms[seat].tiles |->
                  [x \in DOMAIN steps[i].farms[seat].tiles[y] |->
                     CanonicalTile(steps[i].farms[seat].tiles[y][x])]],
     opponent_board |-> [y \in DOMAIN steps[i].farms[1 - seat].tiles |->
                           [x \in DOMAIN steps[i].farms[1 - seat].tiles[y] |->
                              CanonicalTile(steps[i].farms[1 - seat].tiles[y][x])]]]

Planted(board) ==
    Cardinality({p \in {1} \X {1, 2} : board[p[1]][p[2]].tile.kind = "PLANT"})

\* The members of s that t does not have, in their order.
Unlike(s, t) ==
    FlattenSeq([k \in DOMAIN s |-> IF \E j \in DOMAIN t : t[j] = s[k] THEN <<>> ELSE <<s[k]>>])

Record(seat, d, position) ==
    LET first == FirstStart(d)
        last == EndOf(d)
        events == DayEvents(seat, d, position)
        start == State(first, seat)
        end == State(last, seat)
    IN  [schema_version |-> SchemaVersion, seat |-> seat, day |-> d,
         start |-> start,
         previous_execution |-> PreviousExecution(seat, d - 1),
         events |-> events,
         realized |-> PreviousExecution(seat, d),
         targets |->
            [crops |-> Planted(end.board),
             new_quadrants |-> Unlike(end.unlocked_quadrants, start.unlocked_quadrants),
             sell_bins |-> [k \in DOMAIN events.sells |->
                               (events.sells[k] \div BinHours) * BinHours]],
         boundary |-> IF d + 1 \in DaysStarted THEN "next_day_start" ELSE "terminal",
         end |-> end]

\* A record for every day that has a morning.
Days(seat, position) ==
    LET days == InOrder(DaysStarted)
    IN  [k \in DOMAIN days |-> Record(seat, days[k], position)]
\* Seeded bug: one seat too few.
ExtractReplayShort(position) == Days(0, position)
\* extract_replay: those of one seat, then those of the other.
ExtractReplay(position) == Days(0, position) \o Days(1, position)

-----------------------------------------------------------------------------
(* The command line. *)

Boards(record) == <<record.start.board, record.start.opponent_board,
                    record.end.board, record.end.opponent_board>>
Storable(record) ==
    \A b \in DOMAIN Boards(record), x \in {1, 2} : Known(Boards(record)[b][1][x])

OnBoards(record, F(_)) ==
    LET each(board) == [y \in DOMAIN board |-> [x \in DOMAIN board[y] |-> F(board[y][x])]]
    IN  [record EXCEPT !.start.board = each(@), !.start.opponent_board = each(@),
                       !.end.board = each(@), !.end.opponent_board = each(@)]
RecordToRow(record) == OnBoards(record, NormTile)
RowToRecord(row) == OnBoards(row, DenormTile)

\* A run begins: its files, each the game, a replay of another version or not JSON at all, and
\* under the output's name nothing or what an older build wrote.
Invoke ==
    /\ phase = "playing" /\ Len(steps) = LastIndex + 1
    /\ \E run \in Invocations :
          /\ inputs' = run.inputs
          /\ options' = [format |-> run.format, mismatch |-> run.mismatch]
          /\ disk' = IF run.overwrites
                     THEN [format |-> run.format, whole |-> TRUE, schema |-> 2, rows |-> <<>>]
                     ELSE NoFile
    /\ phase' = "extracting"
    /\ UNCHANGED <<steps, actor, drift, real, kept, parsed>>

Exit(code) == phase' = code /\ UNCHANGED <<kept, parsed, disk>>
File(format, whole, rows) ==
    [format |-> format, whole |-> whole, schema |-> SchemaVersion, rows |-> rows]

\* The lines of JSON go to the output as they come, the rows are kept for the end.
Extract ==
    /\ phase = "extracting" /\ inputs # <<>> /\ Head(inputs) = "game"
    /\ \E position \in Positions :
          /\ kept' = kept \o ExtractReplay(position)
          /\ disk' = IF options.format = "jsonl" THEN File("jsonl", TRUE, kept') ELSE disk
    /\ parsed' = parsed + 1
    /\ phase' = phase
Refuse ==
    /\ phase = "extracting" /\ inputs # <<>>
    /\ \/ Head(inputs) = "broken" /\ Exit("exit 2")
       \/ Head(inputs) = "other" /\ Exit(IF options.mismatch = "fail" THEN "exit 3" ELSE phase)
ReadInput ==
    /\ Extract \/ Refuse
    /\ inputs' = Tail(inputs)
    /\ UNCHANGED <<steps, actor, drift, real, options>>

\* records_to_table before anything is written, then the file is written in place.
Convert ==
    /\ phase = "extracting" /\ inputs = <<>>
    /\ phase' = IF options.format = "jsonl" THEN "exit 0"
                ELSE IF \A k \in DOMAIN kept : Storable(kept[k]) THEN "writing" ELSE "raised"
    /\ disk' = IF phase' = "writing" THEN File("parquet", FALSE, <<>>) ELSE disk
    /\ UNCHANGED <<steps, actor, drift, real, inputs, options, kept, parsed>>
WriteTable ==
    /\ phase = "writing"
    /\ disk' = File("parquet", TRUE, [k \in DOMAIN kept |-> RecordToRow(kept[k])])
    /\ phase' = "exit 0"
    /\ UNCHANGED <<steps, actor, drift, real, inputs, options, kept, parsed>>

Crash ==
    /\ phase \in {"extracting", "writing"}
    /\ phase' = "crashed"
    /\ UNCHANGED <<steps, actor, drift, real, inputs, options, kept, parsed, disk>>

ReplaysNext == Play \/ Invoke \/ ReadInput \/ Convert \/ WriteTable \/ Crash

ReplaysSpec == ReplaysInit /\ [][ReplaysNext]_replays_vars

-----------------------------------------------------------------------------
(* The reader: read_parquet, table_to_records. *)

\* The schema versions among the rows of a table: none of an empty one.
SeenVersions(file) == IF file.rows = <<>> /\ file.schema = SchemaVersion THEN {} ELSE {file.schema}
Readable == disk.format = "parquet" /\ disk.whole /\ SeenVersions(disk) = {SchemaVersion}
Reread == [k \in DOMAIN disk.rows |-> RowToRecord(disk.rows[k])]

-----------------------------------------------------------------------------
(* What a record is worth. *)

Records == {kept[k] : k \in DOMAIN kept}
Ended == phase \notin {"playing", "extracting"}
MineOf(d) == {r \in Records : r.seat = actor /\ r.day = d}
\* The turns of a day follow one another.
TurnsOf(d) ==
    LET of == {i \in DOMAIN real : real[i].day = d}
    IN  IF of = {} THEN <<>> ELSE SubSeq(real, Min(of), Max(of))
Concat(turns, f(_)) == FlattenSeq([k \in DOMAIN turns |-> f(turns[k])])

ReplaysTypeOK ==
    /\ Len(steps) = Len(real) + 1 /\ Len(steps) <= LastIndex + 1
    /\ Len(kept) = parsed * 2 * Cardinality(DaysStarted)
    /\ phase \in {"playing", "extracting", "writing", "exit 0", "exit 2", "exit 3", "raised",
                  "crashed"}
    /\ \A r \in Records : r.boundary = "terminal" <=> r.day = steps[Len(steps)].day

\* Every order and every operation of a game is in exactly one record, that of the day and hour
\* at which it was decided, with the tile it met: nothing is lost or moved at a day's boundary,
\* and the seat that submitted nothing has none (extract_replay, _events_from_action).
EveryOrderOnce ==
    \A d \in DaysStarted : \A r \in MineOf(d) :
        /\ r.events.market = Concat(TurnsOf(d), LAMBDA t :
               [k \in DOMAIN t.action.market |-> <<t.action.market[k], t.hour>>])
        /\ r.events.works = Concat(TurnsOf(d), LAMBDA t : Work(t.action.farmer, t.worked, t.hour))
        /\ \A o \in Records : o.seat # actor => o.events = NoEvents

\* The land a record names is the land that was bought in that day: of the orders of a turn as
\* many have a quadrant as were granted, those that were, at the hour it was; the others, which
\* failed, have none (_observed_land_additions).
LandIsObserved ==
    \A d \in DaysStarted : \A r \in MineOf(d) :
        /\ r.events.land = Concat(TurnsOf(d), LAMBDA t :
               [k \in 1..OrdersOf(t.action, "BUY_LAND") |->
                  [quadrant |-> IF k \in DOMAIN t.lands THEN t.lands[k] ELSE Null,
                   hour |-> t.hour]])
        /\ r.targets.new_quadrants = Concat(TurnsOf(d), LAMBDA t : t.lands)

\* The hires a record calls realized are those of its day that an observation of that day
\* shows - all but those of its last turn - at their Fibonacci cost, and the next day's record
\* repeats them as the previous execution (previous_execution_of_day).
HiresAreObserved ==
    \A d \in DaysStarted : \A r \in MineOf(d) :
        LET turns == TurnsOf(d)
            shown == Total([k \in DOMAIN turns |->
                              IF turns[k].hour + 1 < Hours THEN turns[k].hired ELSE 0])
        IN  /\ r.realized = [workers_hired |-> shown, hire_cost |-> TotalHireCost(shown)]
            /\ \A next \in MineOf(d + 1) : next.previous_execution = r.realized

\* As the docstring at extractor.py:493 has it, hires_today is the authoritative counter of
\* successful hires: the realized hires of a day are its hires.
HiresAreAll ==
    \A d \in DaysStarted : \A r \in MineOf(d) :
        LET turns == TurnsOf(d)
        IN  r.realized.workers_hired = Total([k \in DOMAIN turns |-> turns[k].hired])

\* What is read back from a Parquet file is exactly what a run that ended well extracted from
\* all its games; a run that failed or crashed, a file of another schema and a file cut short
\* are never read as records (write_parquet, read_parquet).
ReadIsExtracted ==
    /\ Readable /\ phase # "playing" =>
          phase = "exit 0" /\ options.format = "parquet" /\ Reread = kept
    /\ phase = "exit 0" /\ options.format = "parquet" /\ parsed > 0 => Readable

(* Every order of a replay is in one day's row, once.                      *)
OrdersSound == ReplaysTypeOK /\ EveryOrderOnce

(* Land and hands of a row are those the game granted, not those ordered.  *)
GrantsAreObserved == LandIsObserved /\ HiresAreObserved
=============================================================================
