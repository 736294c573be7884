------------------------------- MODULE Inputs -------------------------------
(***************************************************************************)
(* What the manager network sees and what it says (bc_manager/, the plan   *)
(* providers of executor_v0/ and the decoder of rl_manager/).  The same    *)
(* figures reach it by two roads.  Live, the executor asks for a plan on   *)
(* the first turn of a day, with the labor it remembers and a tracker of   *)
(* the money of the day before; an ask that fails is repeated next turn.   *)
(* Offline, the rows of many games come from files in any order, are       *)
(* filtered by date and score, split into training and validation, and,    *)
(* where the network is of a kind that wants the economic context, joined  *)
(* day to day within their game and seat.  The network's heads are turned  *)
(* into a plan by two decoders.                                            *)
(*                                                                         *)
(* The farm is external: what a turn earns and whether it hires are free.  *)
(* The channels of the economic context are monotone transforms of money   *)
(* and of its change: the figures themselves are kept.  The board's        *)
(* encoding is shared by both roads and left out.                          *)
(***************************************************************************)
EXTENDS Integers, SequencesExt, FiniteSetsExt, Functions

CONSTANTS
    None,
    Days, Hours,          \* bounds: the length of the live game and of a day
    Moneys,               \* bound: what a farm may hold
    Hires,                \* bound: how many hands a turn may hire
    OpeningDays,          \* bound: for how many days an opening may play
    Lands,                \* number of quadrants: 4
    Resources, Shops,     \* the closed and the open vocabulary
    Crops,                \* what may be planted
    Products, BinHours,   \* what is sold, and the hours of a selling window
    QuantityCap,          \* SELL_QUANTITY_CAP: 100
    SchemaVersion,
    Others,               \* bound: the rows of other games
    Loads,                \* bound: what else the rows of the live game hold, how all
                          \* rows are laid out in files, and what is asked for
    MinScore,             \* the lowest score that is kept
    Heads,                \* bound: what the network may put out
    Word                  \* 2^16: the width of an action tensor's entry

ASSUME InputsAssumption ==
    /\ {Days, Hours, Lands, BinHours, QuantityCap} \subseteq Nat \ {0}
    /\ Word \in {2 * n : n \in 1..32768} /\ Hires \subseteq Nat /\ OpeningDays \subseteq Nat
    /\ Moneys \subseteq Int /\ None \notin Int
    /\ \A h \in Heads : h.presence \in Int /\ h.halves \in Int

Outcomes == {"fine", "encode", "model"}   \* an ask fails before or after its inputs are built

VARIABLES
    phase,
    day, hour, money, land, hires,   \* the live farm, as observed now
    opening,     \* the days played before the executor is handed the game
    agentDay, maxHires, previous,    \* _day, _max_hires_today, _previous_execution
    history,     \* EconomicHistory: the day and money it saw last
    asks,        \* history: the asks that were answered
    failed,      \* history: the days with a failed ask
    rows,        \* the daily rows that the game's replay yields
    stored,      \* history: all the rows there are
    files,       \* the files still to be read
    read,        \* history: the rows of the files read so far
    table,       \* the rows selected so far
    report,      \* rows_read and rows_excluded
    dates,       \* train_dates and val_dates
    joined,      \* with_economic_context
    data,        \* the two splits, as arrays
    said         \* heads, and the plans the two decoders make of them

farm == <<day, hour, money, land, hires, opening>>
agent == <<agentDay, maxHires, previous, history, asks, failed>>
loading == <<stored, files, read, table, report, dates, joined, data>>
vars == <<phase, farm, agent, rows, loading, said>>

-----------------------------------------------------------------------------
(* The economic context. *)

NoHistory == [day |-> None, money |-> 0]

(* EconomicHistory.observe: only yesterday's figure gives a difference. *)
AdjacentOrEarlier(h, d) == h.day # None /\ h.day < d                      \* a seeded bug
Adjacent(h, d) == h.day # None /\ h.day = d - 1

Delta(h, d, m) == IF Adjacent(h, d) THEN m - h.money ELSE None

(* economic_context: the next quadrant is valid while one is locked. *)
EconomicContext(m, n, delta) ==
    [money |-> m, next |-> IF n < Lands THEN n ELSE None,
     delta |-> IF delta = None THEN 0 ELSE delta, valid |-> delta # None]

(* derive_economic_context: within an episode and seat, by the exact day.  *)
Group(row) == <<row.episode, row.seat>>
Ambiguous(s) == \/ \E i \in DOMAIN s : s[i].episode = None
                \/ \E i, j \in DOMAIN s : i < j /\ Group(s[i]) = Group(s[j]) /\ s[i].day = s[j].day

YesterdayOfAnyone(s, i) == {j \in DOMAIN s : j = i - 1 /\ s[j].day = s[i].day - 1}   \* a seeded bug
Yesterday(s, i) == {j \in DOMAIN s : Group(s[j]) = Group(s[i]) /\ s[j].day = s[i].day - 1}

StoredContext(s, i) ==
    LET yesterday == Yesterday(s, i)
    IN EconomicContext(s[i].money, s[i].land,
                       IF yesterday = {} THEN None
                       ELSE s[i].money - s[CHOOSE j \in yesterday : TRUE].money)

-----------------------------------------------------------------------------
(* The heads of the network and the two decoders.                          *)

ArgMax(logits) == (CHOOSE i \in DOMAIN logits :
                     /\ \A j \in DOMAIN logits : logits[j] <= logits[i]
                     /\ \A j \in 1..(i - 1) : logits[j] < logits[i]) - 1

(* Quantities come in halves: where rounding could differ.                 *)
AtLeastZero(n) == IF n < 0 THEN 0 ELSE n

(* decode_daily_plan: executor_v0/manager.py. *)
PlanOf(h) == [count |-> ArgMax(h.count), land |-> ArgMax(h.land) + 1,
              sell |-> IF h.presence > 0 THEN (AtLeastZero(h.halves) + 1) \div 2 ELSE 0]

(* decode_outputs_to_action_tensors: a tensor's entry is 16 bits wide, and *)
(* DailyPlan.create refuses a negative count.                              *)
AsWord(n) == LET w == n % Word IN IF w >= Word \div 2 THEN w - Word ELSE w
RoundedToEven(halves) ==                                                   \* a seeded bug
    LET n == AtLeastZero(halves) IN IF n % 4 = 1 THEN n \div 2 ELSE (n + 1) \div 2
Rounded(halves) == (AtLeastZero(halves) + 1) \div 2

PlanOfTensors(h) ==
    LET sell == AsWord(IF h.presence > 0 THEN Rounded(h.halves) ELSE 0)
    IN IF sell < 0 THEN None
       ELSE [count |-> ArgMax(h.count), land |-> ArgMax(h.land) + 1, sell |-> sell]

-----------------------------------------------------------------------------
(* The live game. *)

Init ==
    /\ phase \in {"playing", "decoding"}
    /\ day = 0 /\ hour = 0 /\ land = 1 /\ hires = 0
    /\ money \in Moneys /\ opening \in OpeningDays
    /\ agentDay = None /\ maxHires = 0 /\ previous = 0 /\ history = NoHistory
    /\ asks = {} /\ failed = {}
    /\ rows = <<[day |-> 0, money |-> money, land |-> 1, labor |-> 0]>>
    /\ stored = <<>> /\ files = <<>> /\ read = <<>> /\ table = <<>>
    /\ report = [read |-> 0, excluded |-> 0]
    /\ dates = None /\ joined = FALSE /\ data = None /\ said = None

(* encode_live_inputs: the labor handed on, and the context by the tracker *)
(* of the game's money.                                                    *)
Encoded(labor) ==
    [day |-> day, labor |-> labor,
     context |-> EconomicContext(money, land, Delta(history, day, money))]

(* _new_day: yesterday's hires are handed on before the provider is asked, *)
(* and the day counts as begun only when it has answered.                  *)
Ask(outcome) ==
    /\ day >= opening /\ agentDay # day
    /\ previous' = IF agentDay = None THEN previous ELSE maxHires
    /\ maxHires' = hires
    /\ history' = IF outcome = "encode" THEN history ELSE [day |-> day, money |-> money]
    /\ IF outcome = "fine"
       THEN /\ agentDay' = day /\ UNCHANGED failed
            /\ asks' = asks \union {Encoded(previous')}
       ELSE failed' = failed \union {day} /\ UNCHANGED <<agentDay, asks>>

(* The observed maximum of the day's hires.                                *)
Continue ==
    /\ agentDay = day
    /\ maxHires' = Max({maxHires, hires})
    /\ UNCHANGED <<agentDay, previous, history, asks, failed>>

Opened == day < opening /\ UNCHANGED agent

(* The turn's orders, where there are any, and the clock: the last         *)
(* observation of a day is what its replay says of its hires.              *)
Acts(idle) ==
    \E m \in Moneys, h \in Hires, l \in {land, land + 1} :
        /\ idle => h = 0 /\ l = land
        /\ l <= Lands
        /\ IF hour + 1 < Hours
           THEN /\ idle => m = money
                /\ hour' = hour + 1 /\ hires' = hires + h /\ UNCHANGED <<day, rows>>
           ELSE /\ hour' = 0 /\ day' = day + 1 /\ hires' = 0
                /\ rows' = IF day + 1 < Days
                           THEN Append(rows, [day |-> day + 1, money |-> m, land |-> l,
                                              labor |-> hires])
                           ELSE rows
        /\ money' = m /\ land' = l

Turn ==
    /\ phase = "playing" /\ day < Days
    /\ \/ \E outcome \in Outcomes : Ask(outcome) /\ Acts(outcome # "fine")
       \/ Continue /\ Acts(FALSE)
       \/ Opened /\ Acts(FALSE)
    /\ UNCHANGED <<phase, opening, loading, said>>

(* One answer of the network, decoded twice.                               *)
Decode ==
    /\ phase = "decoding"
    /\ \E h \in Heads : said' = [heads |-> h, plan |-> PlanOf(h), tensors |-> PlanOfTensors(h)]
    /\ phase' = "decoded"
    /\ UNCHANGED <<farm, agent, rows, loading>>

-----------------------------------------------------------------------------
(* The dataset. *)

GameRow(r) ==
    [episode |-> 1, seat |-> 0, day |-> r.day, money |-> r.money, land |-> r.land,
     labor |-> r.labor]
RowOf(r, extra) ==
    [episode |-> 1, seat |-> 0, day |-> r.day, money |-> r.money, land |-> r.land,
     labor |-> r.labor, date |-> extra.date, score |-> extra.score, version |-> extra.version,
     shed |-> extra.shed, inventories |-> extra.inventories, shops |-> extra.shops,
     sells |-> extra.sells, care |-> extra.care, planted |-> extra.planted,
     fertilized |-> extra.fertilized]

(* A list, and a list of keys with how many there are of each.             *)
IsList(l) == l \in Seq(Range(l))
IsCount(pairs) == IsList(pairs) /\ \A i \in DOMAIN pairs : pairs[i][2] \in Nat

IsContent(row) ==
    /\ row.score \in Int
    /\ IsCount(row.shed) /\ IsCount(row.shops)
    /\ IsCount(row.planted) /\ IsCount(row.fertilized)
    /\ IsList(row.inventories) /\ \A w \in DOMAIN row.inventories : IsCount(row.inventories[w])
    /\ IsList(row.sells) /\ \A i \in DOMAIN row.sells : row.sells[i].quantity \in Int

(* An episode's rows share date and score, and a day of a seat has one row *)
(* (adapter.py:601, and what the replay extractor stores), unless nobody   *)
(* knows whose they are; every row is in some file, and may be in several. *)
ASSUME DataAssumption ==
    /\ IsFiniteSet(Resources) /\ IsFiniteSet(Shops) /\ IsFiniteSet(Crops) /\ None \notin Shops
    /\ MinScore \in Int /\ IsList(Others)
    /\ \A i \in DOMAIN Others :
          /\ IsContent(Others[i]) /\ Others[i].day \in Int /\ Others[i].money \in Int
          /\ Group(Others[i]) # <<1, 0>>
    /\ \A i, j \in DOMAIN Others :
          Others[i].episode # None /\ Group(Others[i]) = Group(Others[j]) =>
             /\ Others[i].date = Others[j].date /\ Others[i].score = Others[j].score
             /\ Others[i].day = Others[j].day => i = j
    /\ \A load \in Loads :
          /\ IsContent(load.extra) /\ IsList(load.layout) /\ load.context \in BOOLEAN
          /\ \A f \in DOMAIN load.layout : IsList(load.layout[f])
          /\ UNION {Range(load.layout[f]) : f \in DOMAIN load.layout} = 1..(Days + Len(Others))

(* The game over, its rows lie in files among those of other games, and    *)
(* run_training asks for them: with the context for variants E and JE,     *)
(* without it for V0 and J.                                                *)
Store ==
    /\ phase = "playing" /\ day = Days
    /\ \E load \in Loads :
         LET all == [i \in DOMAIN rows |-> RowOf(rows[i], load.extra)] \o Others
         IN /\ files' = [f \in DOMAIN load.layout |->
                           [i \in DOMAIN load.layout[f] |-> all[load.layout[f][i]]]]
            /\ stored' = all
            /\ dates' = load.dates /\ joined' = load.context
    /\ phase' = "reading"
    /\ UNCHANGED <<farm, agent, rows, read, table, report, data, said>>

Refuse == phase' = "refused" /\ UNCHANGED <<files, read, table, report, data>>

(* The entries of s at the places I, in their order.                       *)
Kept(s, I) ==
    LET nth(n) == CHOOSE i \in I : Cardinality({j \in I : j <= i}) = n
    IN  [n \in 1..Cardinality(I) |-> s[nth(n)]]
Filtered(s, Test(_)) == Kept(s, {i \in DOMAIN s : Test(s[i])})

(* _row_filter_mask *)
Selected(row) == row.date \in dates.train \union dates.val /\ row.score >= MinScore

(* load_train_val and load_selected_table, file by file: a file of another *)
(* schema, like overlapping dates, ends the load.                          *)
ReadFile ==
    /\ phase = "reading" /\ files # <<>>
    /\ LET file == Head(files)
       IN IF \/ dates.train \intersect dates.val # {}
             \/ \E i \in DOMAIN file : file[i].version # SchemaVersion
          THEN Refuse
          ELSE /\ table' = table \o Filtered(file, Selected)
               /\ report' = [read |-> report.read + Len(file),
                             excluded |-> report.excluded
                                          + Len(file) - Len(Filtered(file, Selected))]
               /\ files' = Tail(files) /\ read' = read \o file /\ UNCHANGED <<phase, data>>
    /\ UNCHANGED <<farm, agent, rows, stored, dates, joined, said>>

(* _map_vector: what a list of pairs gives a key, several times if it is   *)
(* there several times.                                                    *)
Amount(pairs, keys) ==
    SumFunctionOnSet([i \in DOMAIN pairs |-> pairs[i][2]],
                     {i \in DOMAIN pairs : pairs[i][1] \in keys})
Keys(pairs) == {pairs[i][1] : i \in DOMAIN pairs}

(* What the farmer and the hands carry is added up.                        *)
Carried(row, r) ==
    SumFunction([w \in DOMAIN row.inventories |-> Amount(row.inventories[w], {r})])

(* aggregate_sells: each event is bounded, then the window's are added.    *)
Window(e) == <<e.product, e.hour \div BinHours>>
Bounded(n) == Min({AtLeastZero(n), QuantityCap})
SellTarget(row, w) ==
    SumFunctionOnSet([i \in DOMAIN row.sells |-> Bounded(row.sells[i].quantity)],
                     {i \in DOMAIN row.sells : Window(row.sells[i]) = w})

Windows == Products \X (0..(24 \div BinHours - 1))

(* The closed vocabularies: goods of a start, keys of a target; a target   *)
(* without care, or of no legal land, is refused as well.                  *)
MalformedStart(row) ==
    \E pairs \in {row.shed} \union Range(row.inventories) : ~(Keys(pairs) \subseteq Resources)
MalformedTargets(row) ==
    \/ \E i \in DOMAIN row.sells : row.sells[i].product \notin Products
    \/ \E k \in Keys(row.planted) \ Crops : Amount(row.planted, {k}) # 0
    \/ \E k \in Keys(row.fertilized) \ (Crops \union {None}) : Amount(row.fertilized, {k}) # 0
    \/ row.care = None \/ row.land \notin 1..Lands

(* _input_arrays_from_starts: the shops have a channel for the ones of no  *)
(* known kind.                                                             *)
InputsOf(row) ==
    [money |-> row.money, labor |-> row.labor, unlocked |-> row.land,
     shed |-> [r \in Resources |-> Amount(row.shed, {r})],
     carried |-> [r \in Resources |-> Carried(row, r)],
     shops |-> [k \in Shops \union {None} |->
                  Amount(row.shops, IF k = None THEN Keys(row.shops) \ Shops ELSE {k})]]

(* build_targets: fertilizer on a crop nobody knows has no channel.        *)
TargetsOf(row) ==
    [planted |-> [c \in Crops |-> Amount(row.planted, {c})],
     fertilized |-> [c \in Crops |-> Amount(row.fertilized, {c})],
     land |-> row.land, care |-> row.care,
     sold |-> [w \in Windows |-> SellTarget(row, w)],
     present |-> {w \in Windows : SellTarget(row, w) > 0}]

(* table_to_arrays: the rows in their order; only the join of the economic *)
(* context refuses a row that is there twice, or of no known episode.      *)
Refused(s) ==
    \/ joined /\ Ambiguous(s)
    \/ \E row \in Range(s) : MalformedStart(row) \/ MalformedTargets(row)
Arrays(s) ==
    [i \in DOMAIN s |->
        [inputs |-> InputsOf(s[i]), targets |-> TargetsOf(s[i]),
         context |-> IF joined THEN StoredContext(s, i) ELSE None,
         meta |-> [group |-> Group(s[i]), day |-> s[i].day, date |-> s[i].date]]]

OfScoresOnly(allowed) == Filtered(table, LAMBDA row : row.score >= MinScore)   \* a seeded bug
OfDates(allowed) == Filtered(table, LAMBDA row : row.date \in allowed)

SplitUp ==
    /\ phase = "reading" /\ files = <<>>
    /\ LET splits == [train |-> OfDates(dates.train), val |-> OfDates(dates.val)]
       IN IF \E which \in DOMAIN splits : Refused(splits[which])
          THEN Refuse
          ELSE /\ data' = [which \in DOMAIN splits |-> Arrays(splits[which])]
               /\ phase' = "loaded" /\ UNCHANGED <<files, read, table, report>>
    /\ UNCHANGED <<farm, agent, rows, stored, dates, joined, said>>

Next == Turn \/ Decode \/ Store \/ ReadFile \/ SplitUp

Spec == Init /\ [][Next]_vars

-----------------------------------------------------------------------------
(* Properties. *)

AnsweredOn(d) == \E a \in asks : a.day = d
Answers == {a \in asks : a.day < Len(rows)}

(* The two roads meet (executor_v0/manager.py:130, bc_manager/live.py):    *)
(* whatever asks fail and are repeated, a difference the live tracker      *)
(* calls valid is the one the game's rows give for that day, and on a day  *)
(* without a failed ask after a day that was answered, the labor and the   *)
(* whole context are those of the row.                                     *)
LiveIsStored ==
    \A a \in Answers :
        LET i == a.day + 1
            own == StoredContext([k \in DOMAIN rows |-> GameRow(rows[k])], i)
        IN /\ a.context.valid => a.context = own
           /\ a.day \notin failed /\ AnsweredOn(a.day - 1) =>
                 a.context = own /\ a.labor = rows[i].labor

(* Every row of a split holds the figures of a row that was stored: where  *)
(* the economic context is asked for, its change of money is valid exactly *)
(* when its own game and seat have the day before, in whichever file and   *)
(* place that lies, carried goods and shops are added up with nothing      *)
(* lost, and a window's sales are all its events                           *)
(* (bc_manager/economics.py:149-155, adapter.py:437-442, 469-484).         *)
Goods(pairs) == Amount(pairs, Keys(pairs))

ContextIsOwn(context, r) ==
    LET before == {b \in Range(stored) : Group(b) = Group(r) /\ b.day = r.day - 1}
    IN /\ context.money = r.money /\ context.valid = (before # {})
       /\ \A b \in before : context.delta = r.money - b.money
InputsAreOwn(in, r) ==
    /\ in.labor = r.labor
    /\ SumFunction(in.shed) = Goods(r.shed) /\ SumFunction(in.shops) = Goods(r.shops)
    /\ SumFunction(in.carried) =
          SumFunction([w \in DOMAIN r.inventories |-> Goods(r.inventories[w])])
TargetsAreOwn(to, r) ==
    /\ SumFunction(to.planted) = Goods(r.planted)
    /\ SumFunction(to.fertilized) <= Goods(r.fertilized)
    /\ \A w \in Windows :
         LET events == {k \in DOMAIN r.sells : Window(r.sells[k]) = w /\ r.sells[k].quantity > 0}
         IN /\ (w \in to.present) = (events # {})
            /\ (\A k \in events : r.sells[k].quantity <= QuantityCap) =>
                 to.sold[w] = SumFunction([k \in events |-> r.sells[k].quantity])

RowsAreOwn ==
    phase = "loaded" =>
      \A which \in DOMAIN data : \A i \in DOMAIN data[which] :
        LET x == data[which][i]
        IN \E r \in Range(stored) :
             /\ x.meta = [group |-> Group(r), day |-> r.day, date |-> r.date]
             /\ InputsAreOwn(x.inputs, r) /\ TargetsAreOwn(x.targets, r)
             /\ IF joined THEN ContextIsOwn(x.context, r) ELSE x.context = None

(* A game is in one split only, however its rows are spread over files; a  *)
(* split has every stored row of its dates and of a sufficient score and   *)
(* no other, each as often as the files that were read have it; with the   *)
(* economic context it has each once, and none of an unknown episode;      *)
(* every row read is in a split or counted as excluded, and no row of      *)
(* another schema trains (bc_manager/adapter.py:585-640,                   *)
(* economics.py:162-175).                                                  *)
GroupsOf(s) == {s[i].meta.group : i \in DOMAIN s}
RowKey(r) == <<Group(r), r.day>>
Key(x) == <<x.meta.group, x.meta.day>>
Wanted(s, which) == {i \in DOMAIN s : s[i].date \in dates[which] /\ s[i].score >= MinScore}

SplitsApart ==
    phase = "loaded" =>
        /\ \A group \in GroupsOf(data.train) \intersect GroupsOf(data.val) : group[1] = None
        /\ \A which \in DOMAIN data :
             LET d == data[which]
                 keys == {Key(d[i]) : i \in DOMAIN d}
             IN /\ keys = {RowKey(stored[i]) : i \in Wanted(stored, which)}
                /\ \A k \in keys :
                     Cardinality({i \in DOMAIN d : Key(d[i]) = k}) =
                     Cardinality({i \in Wanted(read, which) : RowKey(read[i]) = k})
                /\ joined =>
                     /\ \A i, j \in DOMAIN d : Key(d[i]) = Key(d[j]) => i = j
                     /\ \A i \in DOMAIN d : d[i].meta.group[1] # None
        /\ report.read = report.excluded + Len(data.train) + Len(data.val)
        /\ \A r \in Range(stored) : r.version = SchemaVersion

(* The two decoders give the same plan to the same answer, as long as a    *)
(* quantity fits the tensor's entry; beyond it, the one by tensors gives   *)
(* no plan, or less (rl_manager/decode.py:3).                              *)
DecodersAgree ==
    said # None =>
        IF said.plan.sell < Word \div 2 THEN said.tensors = said.plan
        ELSE said.tensors = None \/ said.tensors.sell < said.plan.sell

(* What trains is what was read, and a game is in one split.               *)
DataSound == RowsAreOwn /\ SplitsApart
=============================================================================
