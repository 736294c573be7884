--------------------------- MODULE EngineProofs ----------------------------
(***************************************************************************)
(* What stands between a learner and the fast engine, for any number of    *)
(* games and any game's length: the batch interface keeps every call's     *)
(* promise, legal or not, and the comparisons that hold the fast engine to *)
(* the official one report what there was to report, first things first.   *)
(***************************************************************************)
EXTENDS Batch, Parity, FiniteSetTheorems, SequenceTheorems, WellFoundedInduction, TLAPS

-----------------------------------------------------------------------------
(* The batch interface. *)

\* A live or banked game has not gone on after its end.
InTime(game) == Len(game.turns) <= 1 \/ Len(game.turns) < EpisodeSteps

Inv ==
    /\ TypeOK
    /\ HandlesFaithful
    /\ \A e \in Envs : InTime(states[e])
    /\ \A i \in 1 .. Len(bank) : InTime(bank[i])

LEMMA EnvFacts == NumEnvs \in Nat /\ Envs \subseteq Int
BY BatchAssumption DEF Envs

LEMMA NewGames ==
    ASSUME NEW seed \in Seeds
    PROVE  NewGame(seed) \in Game /\ InTime(NewGame(seed))
BY DEF NewGame, Game, InTime

LEMMA PlayedGames ==
    ASSUME NEW game \in Game, InTime(game), NEW joint \in Turns
    PROVE  TurnPlayed(game, joint) \in Game /\ InTime(TurnPlayed(game, joint))
<1>1. game.seed \in Seeds /\ game.turns \in Seq(Turns) /\ Len(game.turns) \in Nat
  BY DEF Game
<1>2. CASE Done(game)
  BY <1>2 DEF TurnPlayed
<1>3. CASE ~Done(game)
  <2> DEFINE longer == Append(game.turns, joint)
  <2>1. longer \in Seq(Turns) /\ Len(longer) = Len(game.turns) + 1
    BY <1>1
  <2>2. TurnPlayed(game, joint) = [seed |-> game.seed, turns |-> longer]
    BY <1>3 DEF TurnPlayed, Game
  <2>3. game.turns = <<>> \/ Len(game.turns) + 1 < EpisodeSteps
    BY <1>1, <1>3, BatchAssumption DEF Done
  <2>4. Len(longer) <= 1 \/ Len(longer) < EpisodeSteps
    BY <1>1, <2>1, <2>3
  <2> HIDE DEF longer
  <2> QED BY <1>1, <2>1, <2>2, <2>4 DEF Game, InTime
<1> QED BY <1>2, <1>3

\* Overwriting live games with sound games leaves sound games.
LEMMA Overwritten ==
    ASSUME Inv, NEW n \in Nat, NEW indices, DOMAIN indices = 1 .. n,
           NEW games, \A i \in 1 .. n : games[i] \in Game /\ InTime(games[i])
    PROVE  /\ Overwrite(indices, games) \in [Envs -> Game]
           /\ \A e \in Envs : InTime(Overwrite(indices, games)[e])
<1>1. ASSUME NEW e \in Named(indices) PROVE PlaceOf(indices, e) \in 1 .. n
  BY DEF Named, PlaceOf
<1>2. ASSUME NEW e \in Envs
      PROVE  /\ Overwrite(indices, games)[e] \in Game
             /\ InTime(Overwrite(indices, games)[e])
  BY <1>1 DEF Overwrite, Inv, TypeOK
<1> QED BY <1>2 DEF Overwrite

\* What the calls' arguments are: sequences over the set they are drawn from.
LEMMA ShortSeqs ==
    ASSUME NEW S, NEW s \in ShortSeq(S)
    PROVE  s \in Seq(S) /\ Len(s) \in Nat /\ DOMAIN s = 1 .. Len(s)
<1>1. PICK n \in 0 .. ArgBound : s \in [1 .. n -> S]
  BY DEF ShortSeq
<1>2. n \in Nat
  BY BatchAssumption
<1> QED BY <1>1, <1>2

LEMMA InvInit == Init => Inv
<1> SUFFICES ASSUME Init PROVE Inv
  OBVIOUS
<1>1. \A e \in Envs : NewGame(e) \in Game /\ InTime(NewGame(e))
  BY NewGames, BatchAssumption DEF Envs
<1>2. TypeOK
  BY <1>1 DEF Init, TypeOK, Ok
<1>3. HandlesFaithful
  BY DEF Init, HandlesFaithful
<1>4. \A e \in Envs : InTime(states[e])
  BY <1>1 DEF Init
<1>5. \A i \in 1 .. Len(bank) : InTime(bank[i])
  BY DEF Init
<1> QED BY <1>2, <1>3, <1>4, <1>5 DEF Inv

LEMMA RefuseStep == ASSUME Inv, Refuse PROVE Inv'
BY DEF Refuse, Rejected, Inv, TypeOK, HandlesFaithful

\* A call that leaves the bank and the handles alone keeps the invariant if
\* the live games it leaves are sound.
LEMMA LiveStep ==
    ASSUME Inv, UNCHANGED <<bank, handles>>,
           states' \in [Envs -> Game], \A e \in Envs : InTime(states'[e]),
           NEW envs \in SUBSET Envs, verdict' = Ok(envs)
    PROVE  Inv'
<1>1. TypeOK'
  BY DEF Inv, TypeOK, Ok
<1>2. HandlesFaithful'
  BY DEF Inv, HandlesFaithful
<1>3. \A i \in 1 .. Len(bank') : InTime(bank'[i])
  BY DEF Inv
<1> QED BY <1>1, <1>2, <1>3 DEF Inv

LEMMA ResetStep ==
    ASSUME Inv, NEW seeds \in ShortSeq(Seeds), Reset(seeds)
    PROVE  Inv'
<1>1. CASE Len(seeds) = NumEnvs
  <2>1. seeds \in Seq(Seeds)
    BY ShortSeqs
  <2>2. ASSUME NEW e \in Envs
        PROVE  NewGame(seeds[e + 1]) \in Game /\ InTime(NewGame(seeds[e + 1]))
    <3>1. seeds[e + 1] \in Seeds
      BY <1>1, <2>1, EnvFacts DEF Envs
    <3> QED BY <3>1, NewGames
  <2>3. states' = [e \in Envs |-> NewGame(seeds[e + 1])] /\ verdict' = Ok(Envs)
        /\ UNCHANGED <<bank, handles>>
    BY <1>1 DEF Reset
  <2> QED BY <2>2, <2>3, LiveStep
<1>2. CASE Len(seeds) # NumEnvs
  BY <1>2, RefuseStep DEF Reset
<1> QED BY <1>1, <1>2

LEMMA ResetAtStep ==
    ASSUME Inv, NEW indices \in Indices, NEW seeds \in ShortSeq(Seeds),
           ResetAt(indices, seeds)
    PROVE  Inv'
<1>1. CASE ResetAtLegal(indices, seeds)
  <2> DEFINE games == [i \in DOMAIN seeds |-> NewGame(seeds[i])]
  <2>1. /\ seeds \in Seq(Seeds) /\ Len(seeds) \in Nat /\ DOMAIN seeds = 1 .. Len(seeds)
        /\ DOMAIN indices = 1 .. Len(indices)
    BY ShortSeqs DEF Indices
  <2>2. Len(indices) = Len(seeds) /\ Named(indices) \in SUBSET Envs
    BY <1>1 DEF ResetAtLegal, InRange
  <2>3. ASSUME NEW i \in 1 .. Len(seeds) PROVE games[i] \in Game /\ InTime(games[i])
    <3>1. seeds[i] \in Seeds /\ games[i] = NewGame(seeds[i])
      BY <2>1
    <3> QED BY <3>1, NewGames
  <2>4. states' = Overwrite(indices, games) /\ verdict' = Ok(Named(indices))
        /\ UNCHANGED <<bank, handles>>
    BY <1>1 DEF ResetAt
  <2> HIDE DEF games
  <2>5. /\ Overwrite(indices, games) \in [Envs -> Game]
        /\ \A e \in Envs : InTime(Overwrite(indices, games)[e])
    BY <2>1, <2>2, <2>3, Overwritten
  <2> QED BY <2>2, <2>4, <2>5, LiveStep
<1>2. CASE ~ResetAtLegal(indices, seeds)
  BY <1>2, RefuseStep DEF ResetAt
<1> QED BY <1>1, <1>2

LEMMA RestoreStep ==
    ASSUME Inv, NEW indices \in Indices, NEW bank_ids \in BankIds,
           RestoreStates(indices, bank_ids)
    PROVE  Inv'
<1>1. CASE RestoreLegal(indices, bank_ids)
  <2> DEFINE games == [i \in DOMAIN bank_ids |-> bank[bank_ids[i] + 1]]
  <2>1. /\ bank_ids \in Seq(0 .. BankBound) /\ Len(bank_ids) \in Nat
        /\ DOMAIN bank_ids = 1 .. Len(bank_ids)
        /\ DOMAIN indices = 1 .. Len(indices)
    BY ShortSeqs DEF Indices, BankIds
  <2>2. Len(indices) = Len(bank_ids) /\ Named(indices) \in SUBSET Envs
    BY <1>1 DEF RestoreLegal, InRange
  <2>3. ASSUME NEW i \in 1 .. Len(bank_ids) PROVE games[i] \in Game /\ InTime(games[i])
    <3>1. games[i] = bank[bank_ids[i] + 1] /\ bank_ids[i] \in Nat
          /\ bank_ids[i] < Len(bank)
      BY <1>1, <2>1, BatchAssumption DEF RestoreLegal
    <3>2. bank_ids[i] + 1 \in 1 .. Len(bank)
      BY <3>1 DEF Inv, TypeOK
    <3> QED BY <3>1, <3>2 DEF Inv, TypeOK
  <2>4. states' = Overwrite(indices, games) /\ verdict' = Ok(Named(indices))
        /\ UNCHANGED <<bank, handles>>
    BY <1>1 DEF RestoreStates
  <2> HIDE DEF games
  <2>5. /\ Overwrite(indices, games) \in [Envs -> Game]
        /\ \A e \in Envs : InTime(Overwrite(indices, games)[e])
    BY <2>1, <2>2, <2>3, Overwritten
  <2> QED BY <2>2, <2>4, <2>5, LiveStep
<1>2. CASE ~RestoreLegal(indices, bank_ids)
  BY <1>2, RefuseStep DEF RestoreStates
<1> QED BY <1>1, <1>2

LEMMA StepAllStep ==
    ASSUME Inv, NEW turns \in [Envs -> Turns], StepAll(turns)
    PROVE  Inv'
<1>1. ASSUME NEW e \in Envs
      PROVE  /\ TurnPlayed(states[e], turns[e]) \in Game
             /\ InTime(TurnPlayed(states[e], turns[e]))
  BY PlayedGames DEF Inv, TypeOK
<1>2. states' = [e \in Envs |-> TurnPlayed(states[e], turns[e])]
      /\ verdict' = Ok(Envs) /\ UNCHANGED <<bank, handles>>
  BY DEF StepAll
<1> QED BY <1>1, <1>2, LiveStep

LEMMA ClearStep == ASSUME Inv, ClearBank PROVE Inv'
BY DEF ClearBank, Inv, TypeOK, HandlesFaithful, Ok

LEMMA Concatenated ==
    ASSUME NEW S, NEW s \in Seq(S), NEW t \in Seq(S)
    PROVE  /\ s \o t \in Seq(S) /\ Len(s \o t) = Len(s) + Len(t)
           /\ \A i \in 1 .. Len(s) : (s \o t)[i] = s[i]
           /\ \A i \in 1 .. Len(t) : (s \o t)[Len(s) + i] = t[i]
<1>1. s \o t \in Seq(S) /\ Len(s \o t) = Len(s) + Len(t)
  OBVIOUS
<1>2. ASSUME NEW i \in 1 .. Len(s) PROVE (s \o t)[i] = s[i]
  OBVIOUS
<1>3. ASSUME NEW i \in 1 .. Len(t) PROVE (s \o t)[Len(s) + i] = t[i]
  OBVIOUS
<1> QED BY <1>1, <1>2, <1>3

\* The bank only grows at its end, so the snapshots handles name stay in
\* place, and the new handles name the places just added.
LEMMA CaptureStep ==
    ASSUME Inv, NEW indices \in Indices, CaptureStates(indices)
    PROVE  Inv'
<1>1. /\ indices \in Seq(-1 .. NumEnvs) /\ Len(indices) \in Nat
  BY ShortSeqs DEF Indices
<1>2. PICK n \in 0 .. Len(indices) :
        /\ Walked(indices, n)
        /\ bank' = bank \o Snapshots(indices, n)
        /\ \/ /\ handles' = handles \cup
                   {[id |-> Len(bank) + i - 1, game |-> states[indices[i]]] : i \in 1 .. n}
              /\ verdict' = Ok({})
           \/ verdict' = Rejected /\ UNCHANGED handles
        /\ UNCHANGED states
  BY DEF CaptureStates
<1>3. n \in Nat /\ Len(bank) \in Nat
  BY <1>1, <1>2 DEF Inv, TypeOK
<1>4. ASSUME NEW i \in 1 .. n
      PROVE  states[indices[i]] \in Game /\ InTime(states[indices[i]])
  BY <1>2 DEF Walked, Inv, TypeOK
<1> DEFINE clones == Snapshots(indices, n)
<1>5. clones \in Seq(Game) /\ Len(clones) = n
  BY <1>3, <1>4 DEF Snapshots
<1>6. \A i \in 1 .. n : clones[i] = states[indices[i]] /\ InTime(clones[i])
  BY <1>4 DEF Snapshots
<1>7. bank' = bank \o clones
  BY <1>2
<1> HIDE DEF clones
<1>8. /\ bank' \in Seq(Game) /\ Len(bank') = Len(bank) + n
      /\ \A i \in 1 .. Len(bank) : bank'[i] = bank[i]
      /\ \A i \in 1 .. n : bank'[Len(bank) + i] = clones[i]
  <2>1. bank \in Seq(Game)
    BY DEF Inv, TypeOK
  <2> QED BY <1>5, <1>7, <2>1, Concatenated
<1>9. \A h \in handles : h.id \in Nat /\ h.id < Len(bank')
                            /\ bank'[h.id + 1] = h.game
  <2> SUFFICES ASSUME NEW h \in handles
               PROVE  h.id \in Nat /\ h.id < Len(bank') /\ bank'[h.id + 1] = h.game
    OBVIOUS
  <2>1. h.id \in Nat /\ h.id < Len(bank) /\ bank[h.id + 1] = h.game
    BY DEF Inv, TypeOK, HandlesFaithful
  <2>2. h.id + 1 \in 1 .. Len(bank)
    BY <1>3, <2>1
  <2> QED BY <1>3, <1>8, <2>1, <2>2
<1>10. ASSUME NEW i \in 1 .. n,
              NEW h, h = [id |-> Len(bank) + i - 1, game |-> states[indices[i]]]
       PROVE  /\ h \in [id : Nat, game : Game]
              /\ h.id < Len(bank') /\ bank'[h.id + 1] = h.game
  <2>1. h.id = Len(bank) + i - 1 /\ h.game = states[indices[i]]
    BY <1>10
  <2>2. h.id \in Nat /\ h.id + 1 = Len(bank) + i /\ h.id < Len(bank')
    BY <1>3, <1>8, <2>1
  <2> QED BY <1>4, <1>6, <1>8, <1>10, <2>1, <2>2
<1>11. HandlesFaithful' /\ handles' \subseteq [id : Nat, game : Game]
  BY <1>2, <1>9, <1>10 DEF HandlesFaithful, Inv, TypeOK
<1>12. verdict' \in [ok : BOOLEAN, named : SUBSET Envs]
  <2>1. Ok({}) \in [ok : BOOLEAN, named : SUBSET Envs]
        /\ Rejected \in [ok : BOOLEAN, named : SUBSET Envs]
    BY DEF Ok, Rejected
  <2>2. verdict' = Ok({}) \/ verdict' = Rejected
    BY <1>2
  <2> QED BY <2>1, <2>2
<1>13. TypeOK'
  BY <1>2, <1>8, <1>11, <1>12 DEF Inv, TypeOK
<1>14. \A i \in 1 .. Len(bank') : InTime(bank'[i])
  <2> SUFFICES ASSUME NEW i \in 1 .. Len(bank') PROVE InTime(bank'[i])
    OBVIOUS
  <2>1. CASE i \in 1 .. Len(bank)
    BY <1>8, <2>1 DEF Inv
  <2>2. CASE i \notin 1 .. Len(bank)
    <3>1. i - Len(bank) \in 1 .. n /\ i = Len(bank) + (i - Len(bank))
      BY <1>3, <1>8, <2>2
    <3> QED BY <1>6, <1>8, <3>1
  <2> QED BY <2>1, <2>2
<1> QED BY <1>2, <1>11, <1>13, <1>14 DEF Inv

LEMMA InvNext == Inv /\ [Next]_vars => Inv'
<1> SUFFICES ASSUME Inv, [Next]_vars PROVE Inv'
  OBVIOUS
<1>1. CASE UNCHANGED vars
  BY <1>1 DEF vars, Inv, TypeOK, HandlesFaithful
<1> QED
  BY <1>1, ResetStep, ResetAtStep, RestoreStep, CaptureStep, ClearStep,
     StepAllStep, RefuseStep DEF Next, StepRefused, SeedLists

LEMMA Invariance == Spec => []Inv
<1> QED BY InvInit, InvNext, PTL DEF Spec

-----------------------------------------------------------------------------
(* Theorems. *)

\* The row of games, the bank and the handles keep to their types.
THEOREM BatchTyped == Spec => []TypeOK
<1>1. Inv => TypeOK
  BY DEF Inv
<1> QED BY <1>1, Invariance, PTL

\* An id that capture_states returned names the captured game until the bank
\* is cleared, also after captures that failed halfway.
THEOREM HandlesKeptFaithful == Spec => []HandlesFaithful
<1>1. Inv => HandlesFaithful
  BY DEF Inv
<1> QED BY <1>1, Invariance, PTL

\* No game, live or banked, is played on after its end.
THEOREM NoGamePlayedOn == Spec => []NoTurnAfterEnd
<1>1. ASSUME Inv PROVE NoTurnAfterEnd
  <2>1. DOMAIN states = Envs /\ DOMAIN bank = 1 .. Len(bank)
    BY <1>1 DEF Inv, TypeOK
  <2> QED BY <1>1, <2>1 DEF NoTurnAfterEnd, Named, Inv, InTime
<1> QED BY <1>1, Invariance, PTL

\* A call touches only games it names, and a refused call touches none.
THEOREM OnlyNamedTouched == Spec => OthersUntouched
<1> DEFINE Touched(e) == states'[e] # states[e] => verdict'.ok /\ e \in verdict'.named
<1>1. \A envs : Ok(envs).ok /\ Ok(envs).named = envs
  BY DEF Ok
<1>2. ASSUME Inv, [Next]_vars, NEW e \in Envs PROVE Touched(e)
  <2>1. states \in [Envs -> Game]
    BY <1>2 DEF Inv, TypeOK
  <2>2. ASSUME NEW indices, NEW games, states' = Overwrite(indices, games),
               states'[e] # states[e]
        PROVE  e \in Named(indices)
    BY <2>2 DEF Overwrite
  <2>3. CASE \E seeds \in SeedLists : Reset(seeds)
    BY <1>1, <1>2, <2>3 DEF Reset, Refuse
  <2>4. CASE \E indices \in Indices, seeds \in SeedLists : ResetAt(indices, seeds)
    BY <1>1, <2>2, <2>4 DEF ResetAt, Refuse
  <2>5. CASE \E indices \in Indices : CaptureStates(indices)
    BY <2>5 DEF CaptureStates
  <2>6. CASE \E indices \in Indices, bank_ids \in BankIds :
                RestoreStates(indices, bank_ids)
    BY <1>1, <2>2, <2>6 DEF RestoreStates, Refuse
  <2>7. CASE ClearBank
    BY <2>7 DEF ClearBank
  <2>8. CASE \E turns \in [Envs -> Turns] : StepAll(turns)
    BY <1>1, <1>2, <2>8 DEF StepAll
  <2>9. CASE StepRefused
    BY <2>9 DEF StepRefused, Refuse
  <2>10. CASE UNCHANGED vars
    BY <2>10 DEF vars
  <2> QED
    BY <1>2, <2>3, <2>4, <2>5, <2>6, <2>7, <2>8, <2>9, <2>10 DEF Next
<1>3. ASSUME Inv, [Next]_vars PROVE [\A e \in Envs : Touched(e)]_vars
  BY <1>2, <1>3
<1> QED BY <1>3, Invariance, PTL DEF Spec, OthersUntouched
\* All three: the row of games, the bank and its ids stay sound under any sequence of calls.
THEOREM BatchHolds == Spec => []BatchOK
BY BatchTyped, HandlesKeptFaithful, NoGamePlayedOn, PTL DEF BatchOK

-----------------------------------------------------------------------------
(* Values and their differences. *)

\* A dict is its entries, a list its items; of a scalar nothing is asked.
IsNode(v) ==
    \/ v.kind = "dict" /\ v = Dict([k \in DOMAIN v.entries |-> v.entries[k]])
    \/ /\ v.kind = "list" /\ Len(v.items) \in Nat
       /\ v = List([i \in 1..Len(v.items) |-> v.items[i]])
    \/ v.kind \notin {"dict", "list"}
Below(v) ==
    IF v.kind = "dict" THEN {v.entries[k] : k \in DOMAIN v.entries}
    ELSE IF v.kind = "list" THEN {v.items[k] : k \in DOMAIN v.items}
    ELSE {}
IsShallow(v) == IsNode(v) /\ \A w \in Below(v) : IsNode(w)
IsValue(v) == IsNode(v) /\ \A w \in Below(v) : IsShallow(w)

\* Two values of one level are the same if what is below them is.
LEMMA SameNodes ==
  ASSUME NEW l, NEW r, IsNode(l), IsNode(r)
  PROVE  /\ l.kind = "dict" /\ r.kind = "dict" =>
               (l = r <=> /\ DOMAIN l.entries = DOMAIN r.entries
                          /\ \A k \in DOMAIN l.entries : l.entries[k] = r.entries[k])
         /\ l.kind = "list" /\ r.kind = "list" =>
               (l = r <=> /\ Len(l.items) = Len(r.items)
                          /\ \A k \in DOMAIN l.items \cap DOMAIN r.items :
                                l.items[k] = r.items[k])
<1>1. CASE l.kind = "dict" /\ r.kind = "dict"
  <2>1. /\ l = Dict([k \in DOMAIN l.entries |-> l.entries[k]])
        /\ r = Dict([k \in DOMAIN r.entries |-> r.entries[k]])
    BY <1>1 DEF IsNode
  <2>2. ASSUME DOMAIN l.entries = DOMAIN r.entries,
               \A k \in DOMAIN l.entries : l.entries[k] = r.entries[k]
        PROVE  [k \in DOMAIN l.entries |-> l.entries[k]]
                 = [k \in DOMAIN r.entries |-> r.entries[k]]
    BY <2>2
  <2> QED BY <1>1, <2>1, <2>2
<1>2. CASE l.kind = "list" /\ r.kind = "list"
  <2>1. /\ l = List([k \in 1..Len(l.items) |-> l.items[k]]) /\ Len(l.items) \in Nat
        /\ r = List([k \in 1..Len(r.items) |-> r.items[k]]) /\ Len(r.items) \in Nat
    BY <1>2 DEF IsNode
  <2>2. /\ l.items = [k \in 1..Len(l.items) |-> l.items[k]]
        /\ r.items = [k \in 1..Len(r.items) |-> r.items[k]]
    BY <2>1 DEF List
  <2>3. DOMAIN l.items = 1..Len(l.items) /\ DOMAIN r.items = 1..Len(r.items)
    BY <2>2
  <2>4. ASSUME Len(l.items) = Len(r.items),
               \A k \in DOMAIN l.items \cap DOMAIN r.items : l.items[k] = r.items[k]
        PROVE  [k \in 1..Len(l.items) |-> l.items[k]] = [k \in 1..Len(r.items) |-> r.items[k]]
    BY <2>3, <2>4
  <2> QED BY <1>2, <2>1, <2>4
<1> QED BY <1>1, <1>2

\* The walk finds nothing exactly if there is no difference, one level at a time.
LEMMA DictDiffTells ==
  ASSUME NEW l, NEW r, IsNode(l), IsNode(r)
  PROVE  DictDiff(l, r) = {} <=> l = r
<1>1. CASE l.kind = "dict" /\ r.kind = "dict"
  <2> DEFINE D == DOMAIN l.entries \cup DOMAIN r.entries
             under(k) == IF k \in DOMAIN l.entries \cap DOMAIN r.entries
                      THEN {<<k>> \o path : path \in ScalarDiff(l.entries[k], r.entries[k])}
                      ELSE {<<k>>}
  <2>1. DictDiff(l, r) = UNION {under(k) : k \in D}
    BY <1>1 DEF DictDiff, Walk
  <2>2. ASSUME NEW k \in D
        PROVE  under(k) = {} <=> /\ k \in DOMAIN l.entries /\ k \in DOMAIN r.entries
                              /\ l.entries[k] = r.entries[k]
    BY DEF ScalarDiff
  <2> HIDE DEF under
  <2>3. DictDiff(l, r) = {} <=> \A k \in D : under(k) = {}
    BY <2>1
  <2> QED BY <1>1, <2>2, <2>3, SameNodes
<1>2. CASE l.kind = "list" /\ r.kind = "list"
  <2> DEFINE D == DOMAIN l.items \cap DOMAIN r.items
             under(k) == {<<k>> \o path : path \in ScalarDiff(l.items[k], r.items[k])}
             short == IF Len(l.items) = Len(r.items) THEN {} ELSE {<<>>}
  <2>1. DictDiff(l, r) = short \cup UNION {under(k) : k \in D}
    BY <1>2 DEF DictDiff, Walk
  <2>2. ASSUME NEW k \in D PROVE under(k) = {} <=> l.items[k] = r.items[k]
    BY DEF ScalarDiff
  <2>4. short = {} <=> Len(l.items) = Len(r.items)
    OBVIOUS
  <2> HIDE DEF under, short
  <2>3. DictDiff(l, r) = {} <=> short = {} /\ \A k \in D : under(k) = {}
    BY <2>1
  <2> QED BY <1>2, <2>2, <2>3, <2>4, SameNodes
<1>3. CASE ~(l.kind = "dict" /\ r.kind = "dict") /\ ~(l.kind = "list" /\ r.kind = "list")
  BY <1>3 DEF DictDiff, Walk
<1> QED BY <1>1, <1>2, <1>3

LEMMA ListDiffTells ==
  ASSUME NEW l, NEW r, IsShallow(l), IsShallow(r)
  PROVE  ListDiff(l, r) = {} <=> l = r
<1>0. IsNode(l) /\ IsNode(r) /\ \A w \in Below(l) \cup Below(r) : IsNode(w)
  BY DEF IsShallow
<1>1. CASE l.kind = "dict" /\ r.kind = "dict"
  <2> DEFINE D == DOMAIN l.entries \cup DOMAIN r.entries
             under(k) == IF k \in DOMAIN l.entries \cap DOMAIN r.entries
                      THEN {<<k>> \o path : path \in DictDiff(l.entries[k], r.entries[k])}
                      ELSE {<<k>>}
  <2>1. ListDiff(l, r) = UNION {under(k) : k \in D}
    BY <1>1 DEF ListDiff, Walk
  <2>2. ASSUME NEW k \in D
        PROVE  under(k) = {} <=> /\ k \in DOMAIN l.entries /\ k \in DOMAIN r.entries
                              /\ l.entries[k] = r.entries[k]
    <3>1. CASE k \in DOMAIN l.entries /\ k \in DOMAIN r.entries
      <4>1. IsNode(l.entries[k]) /\ IsNode(r.entries[k])
        BY <1>0, <1>1, <3>1 DEF Below
      <4>2. DictDiff(l.entries[k], r.entries[k]) = {} <=> l.entries[k] = r.entries[k]
        BY <4>1, DictDiffTells
      <4> QED BY <3>1, <4>2
    <3> QED BY <3>1
  <2> HIDE DEF under
  <2>3. ListDiff(l, r) = {} <=> \A k \in D : under(k) = {}
    BY <2>1
  <2> QED BY <1>0, <1>1, <2>2, <2>3, SameNodes
<1>2. CASE l.kind = "list" /\ r.kind = "list"
  <2> DEFINE D == DOMAIN l.items \cap DOMAIN r.items
             under(k) == {<<k>> \o path : path \in DictDiff(l.items[k], r.items[k])}
             short == IF Len(l.items) = Len(r.items) THEN {} ELSE {<<>>}
  <2>1. ListDiff(l, r) = short \cup UNION {under(k) : k \in D}
    BY <1>2 DEF ListDiff, Walk
  <2>2. ASSUME NEW k \in D PROVE under(k) = {} <=> l.items[k] = r.items[k]
    <3>1. IsNode(l.items[k]) /\ IsNode(r.items[k])
      BY <1>0, <1>2 DEF Below
    <3>2. DictDiff(l.items[k], r.items[k]) = {} <=> l.items[k] = r.items[k]
      BY <3>1, DictDiffTells
    <3> QED BY <3>2
  <2>4. short = {} <=> Len(l.items) = Len(r.items)
    OBVIOUS
  <2> HIDE DEF under, short
  <2>3. ListDiff(l, r) = {} <=> short = {} /\ \A k \in D : under(k) = {}
    BY <2>1
  <2> QED BY <1>0, <1>2, <2>2, <2>3, <2>4, SameNodes
<1>3. CASE ~(l.kind = "dict" /\ r.kind = "dict") /\ ~(l.kind = "list" /\ r.kind = "list")
  BY <1>3 DEF ListDiff, Walk
<1> QED BY <1>1, <1>2, <1>3

\* The comparison of two values finds a path exactly if they differ (deep_diff).
LEMMA DeepDiffTells ==
  ASSUME NEW l, NEW r, IsValue(l), IsValue(r)
  PROVE  DeepDiff(l, r) = {} <=> l = r
<1>0. IsNode(l) /\ IsNode(r) /\ \A w \in Below(l) \cup Below(r) : IsShallow(w)
  BY DEF IsValue
<1>1. CASE l.kind = "dict" /\ r.kind = "dict"
  <2> DEFINE D == DOMAIN l.entries \cup DOMAIN r.entries
             under(k) == IF k \in DOMAIN l.entries \cap DOMAIN r.entries
                      THEN {<<k>> \o path : path \in ListDiff(l.entries[k], r.entries[k])}
                      ELSE {<<k>>}
  <2>1. DeepDiff(l, r) = UNION {under(k) : k \in D}
    BY <1>1 DEF DeepDiff, Walk
  <2>2. ASSUME NEW k \in D
        PROVE  under(k) = {} <=> /\ k \in DOMAIN l.entries /\ k \in DOMAIN r.entries
                              /\ l.entries[k] = r.entries[k]
    <3>1. CASE k \in DOMAIN l.entries /\ k \in DOMAIN r.entries
      <4>1. IsShallow(l.entries[k]) /\ IsShallow(r.entries[k])
        BY <1>0, <1>1, <3>1 DEF Below
      <4>2. ListDiff(l.entries[k], r.entries[k]) = {} <=> l.entries[k] = r.entries[k]
        BY <4>1, ListDiffTells
      <4> QED BY <3>1, <4>2
    <3> QED BY <3>1
  <2> HIDE DEF under
  <2>3. DeepDiff(l, r) = {} <=> \A k \in D : under(k) = {}
    BY <2>1
  <2> QED BY <1>0, <1>1, <2>2, <2>3, SameNodes
<1>2. CASE l.kind = "list" /\ r.kind = "list"
  <2> DEFINE D == DOMAIN l.items \cap DOMAIN r.items
             under(k) == {<<k>> \o path : path \in ListDiff(l.items[k], r.items[k])}
             short == IF Len(l.items) = Len(r.items) THEN {} ELSE {<<>>}
  <2>1. DeepDiff(l, r) = short \cup UNION {under(k) : k \in D}
    BY <1>2 DEF DeepDiff, Walk
  <2>2. ASSUME NEW k \in D PROVE under(k) = {} <=> l.items[k] = r.items[k]
    <3>1. IsShallow(l.items[k]) /\ IsShallow(r.items[k])
      BY <1>0, <1>2 DEF Below
    <3>2. ListDiff(l.items[k], r.items[k]) = {} <=> l.items[k] = r.items[k]
      BY <3>1, ListDiffTells
    <3> QED BY <3>2
  <2>4. short = {} <=> Len(l.items) = Len(r.items)
    OBVIOUS
  <2> HIDE DEF under, short
  <2>3. DeepDiff(l, r) = {} <=> short = {} /\ \A k \in D : under(k) = {}
    BY <2>1
  <2> QED BY <1>0, <1>2, <2>2, <2>3, <2>4, SameNodes
<1>3. CASE ~(l.kind = "dict" /\ r.kind = "dict") /\ ~(l.kind = "list" /\ r.kind = "list")
  BY <1>3 DEF DeepDiff, Walk
<1> QED BY <1>1, <1>2, <1>3

-----------------------------------------------------------------------------
(* What the two wires are made into. *)

StatusNames == {"ACTIVE", "DONE", "ERROR", "INVALID"}
Engine == [step : Nat, placed : Int, shed0 : Int, shed1 : Int, overage0 : Int, overage1 : Int,
           rewards : Int, statuses : StatusNames \X StatusNames]

Placed(n) == Dict([p \in {KeyPlaced} |-> Number(n)])
Stock(n) == Dict([item \in {1} |-> Number(n)])

LEMMA DayIsNumber == ASSUME NEW e \in Engine PROVE DayOf(e) \in Int
  BY ParityAssumption DEF Engine, DayOf

\* The official wire and the fast one are made into the same tile and the same shed.
LEMMA SameTiles ==
  ASSUME NEW e \in Engine, NEW s \in Seats
  PROVE  LET o == OfficialWire(e, s).entries
             f == FastWire(e, s).entries
         IN  /\ CanonicalTile(o[KeyTile], DayOf(e)) = Placed(e.placed)
             /\ CanonicalTile(f[KeyTile], DayOf(e)) = Placed(e.placed)
             /\ ZeroFilled(o[KeyShed]) = Stock(e[Shed(s)])
             /\ ZeroFilled(f[KeyShed]) = Stock(e[Shed(s)])
<1> DEFINE o == OfficialWire(e, s).entries
           f == FastWire(e, s).entries
           t == Dict([p \in {KeyAge} |-> Number(DayOf(e) - e["placed"])])
           sparse == Dict([item \in {n \in {1} : e[Shed(s)] # 0} |-> Number(e[Shed(s)])])
<1>1. o[KeyTile] = Placed(e.placed)
  BY DEF OfficialWire, Placed, Dict, KeyDay, KeyTile, KeyShed, KeyOverage, KeyStep
<1>2. o[KeyShed] = sparse
  BY DEF OfficialWire, Dict, KeyDay, KeyTile, KeyShed, KeyOverage, KeyStep
<1>3. f[KeyTile] = t
  BY DEF FastWire, Dict, KeyDay, KeyTile, KeyShed, KeyOverage, KeyStep
<1>4. f[KeyShed] = Stock(e[Shed(s)])
  BY DEF FastWire, Stock, Dict, KeyDay, KeyTile, KeyShed, KeyOverage, KeyStep
<1> HIDE DEF o, f
<1>5. CanonicalTile(Placed(e.placed), DayOf(e)) = Placed(e.placed)
  BY DEF CanonicalTile, Placed, Dict, KeyAge, KeyPlaced
<1>6. CanonicalTile(t, DayOf(e)) = Placed(e.placed)
  <2>1. /\ t.entries = [p \in {KeyAge} |-> Number(DayOf(e) - e["placed"])]
    BY DEF Dict
  <2>2. KeyAge \in DOMAIN t.entries /\ t.entries[KeyAge].is = DayOf(e) - e.placed
    BY <2>1 DEF Number, Scalar
  <2>3. DayOf(e) - (DayOf(e) - e.placed) = e.placed
    BY DayIsNumber DEF Engine
  <2> HIDE DEF t
  <2> QED BY <2>2, <2>3 DEF CanonicalTile, Placed
<1>7. ZeroFilled(sparse) = Stock(e[Shed(s)])
  <2>1. sparse.entries = [item \in {n \in {1} : e[Shed(s)] # 0} |-> Number(e[Shed(s)])]
    BY DEF Dict
  <2>2. CASE e[Shed(s)] = 0
    <3>1. ~ 1 \in DOMAIN sparse.entries
      BY <2>1, <2>2
    <3> HIDE DEF sparse
    <3> QED BY <3>1, <2>2 DEF ZeroFilled, Stock
  <2>3. CASE e[Shed(s)] # 0
    <3>1. 1 \in DOMAIN sparse.entries /\ sparse.entries[1] = Number(e[Shed(s)])
      BY <2>1, <2>3
    <3> HIDE DEF sparse
    <3> QED BY <3>1 DEF ZeroFilled, Stock
  <2> QED BY <2>2, <2>3
<1>8. ZeroFilled(Stock(e[Shed(s)])) = Stock(e[Shed(s)])
  BY DEF ZeroFilled, Stock, Dict
<1> QED BY <1>1, <1>2, <1>3, <1>4, <1>5, <1>6, <1>7, <1>8 DEF o, f

\* The canonical state of an engine: what is compared after a step.
StateKeys == {KeyStep, KeyDay, KeyTile, KeyShed, KeyRewards, KeyStatuses}
StateEntries(e) ==
    [k \in StateKeys |->
        CASE k = KeyStep -> Number(e.step)
          [] k = KeyDay -> Number(DayOf(e))
          [] k = KeyTile -> Placed(e.placed)
          [] k = KeyShed -> List(<<Stock(e.shed0), Stock(e.shed1)>>)
          [] k = KeyRewards -> Number(e.rewards)
          [] k = KeyStatuses -> Statuses(e)]

LEMMA StatesAre ==
  ASSUME NEW e \in Engine
  PROVE  /\ OfficialState(e) = Dict(StateEntries(e))
         /\ FastState(e) = Dict(StateEntries(e))
<1>1. 0 \in Seats /\ 1 \in Seats /\ Shed(0) = "shed0" /\ Shed(1) = "shed1"
  BY DEF Seats, Shed
<1>2. ASSUME NEW a, NEW b,
             CanonicalTile(a.entries[KeyTile], DayOf(e)) = Placed(e.placed),
             ZeroFilled(a.entries[KeyShed]) = Stock(e.shed0),
             ZeroFilled(b.entries[KeyShed]) = Stock(e.shed1)
      PROVE  CanonicalState(e, a, b) = Dict(StateEntries(e))
  BY <1>2 DEF CanonicalState, StateEntries, StateKeys
<1>3. OfficialState(e) = Dict(StateEntries(e))
  BY <1>1, <1>2, SameTiles DEF OfficialState
<1>4. FastState(e) = Dict(StateEntries(e))
  BY <1>1, <1>2, SameTiles DEF FastState
<1> QED BY <1>3, <1>4

\* The normal observation of a seat.
SeenKeys == {KeyDay, KeyTile, KeyShed, KeyOverage, KeyStep}
SeenEntries(e, s) ==
    [k \in SeenKeys |->
        CASE k = KeyDay -> Number(DayOf(e))
          [] k = KeyTile -> Placed(e.placed)
          [] k = KeyShed -> Stock(e[Shed(s)])
          [] k = KeyOverage -> Number(e[Overage(s)])
          [] k = KeyStep -> Number(e.step)]

LEMMA SeenAre ==
  ASSUME NEW e \in Engine, NEW s \in Seats
  PROVE  /\ NormalObservation(OfficialWire(e, s), e.step) = Dict(SeenEntries(e, s))
         /\ \A default : NormalObservation(FastWire(e, s), default) = Dict(SeenEntries(e, s))
<1> DEFINE o == OfficialWire(e, s).entries
           f == FastWire(e, s).entries
<1> USE DEF KeyDay, KeyTile, KeyShed, KeyOverage, KeyStep
<1>1. /\ DOMAIN o = {KeyDay, KeyTile, KeyShed, KeyOverage} \cup (IF s = 0 THEN {KeyStep} ELSE {})
      /\ o[KeyDay] = Number(DayOf(e))
      /\ o[KeyOverage] = Number(e[Overage(s)])
      /\ s = 0 => o[KeyStep] = Number(e.step)
  BY DEF OfficialWire, Dict
<1>2. /\ DOMAIN f = SeenKeys
      /\ f[KeyDay] = Number(DayOf(e))
      /\ f[KeyOverage] = Number(e[Overage(s)])
      /\ f[KeyStep] = Number(e.step)
  BY DEF FastWire, Dict, SeenKeys
<1>3. /\ CanonicalTile(o[KeyTile], DayOf(e)) = Placed(e.placed)
      /\ CanonicalTile(f[KeyTile], DayOf(e)) = Placed(e.placed)
      /\ ZeroFilled(o[KeyShed]) = Stock(e[Shed(s)])
      /\ ZeroFilled(f[KeyShed]) = Stock(e[Shed(s)])
  BY SameTiles
<1>4. Number(DayOf(e)).is = DayOf(e)
  BY DEF Number, Scalar
<1>5. s = 0 \/ s = 1
  BY DEF Seats
<1> HIDE DEF o, f
<1>6. ASSUME NEW d, NEW w, NEW a, a = w.entries,
             a[KeyDay] = Number(DayOf(e)),
             DOMAIN a \cup {KeyStep} = SeenKeys,
             a[KeyOverage] = Number(e[Overage(s)]),
             CanonicalTile(a[KeyTile], DayOf(e)) = Placed(e.placed),
             ZeroFilled(a[KeyShed]) = Stock(e[Shed(s)]),
             IF KeyStep \in DOMAIN a THEN a[KeyStep] = Number(e.step) ELSE d = e.step
      PROVE  NormalObservation(w, d) = Dict(SeenEntries(e, s))
  <2> DEFINE n == [k \in DOMAIN w.entries \cup {KeyStep} |->
            CASE k = KeyTile -> CanonicalTile(w.entries[k], w.entries[KeyDay].is)
              [] k = KeyShed -> ZeroFilled(w.entries[k])
              [] k \notin DOMAIN w.entries -> Number(d)
              [] OTHER -> w.entries[k]]
  <2>1. NormalObservation(w, d) = Dict(n)
    BY DEF NormalObservation
  <2>2. DOMAIN n = SeenKeys /\ DOMAIN a \subseteq SeenKeys
    BY <1>6
  <2>3. {KeyTile, KeyShed, KeyDay, KeyOverage} \subseteq DOMAIN a
    BY <1>6 DEF SeenKeys
  <2>4. n[KeyTile] = Placed(e.placed)
    BY <1>4, <1>6, <2>2, <2>3
  <2>5. n[KeyShed] = Stock(e[Shed(s)])
    BY <1>6, <2>2, <2>3
  <2>6. n[KeyDay] = Number(DayOf(e))
    BY <1>6, <2>2, <2>3
  <2>7. n[KeyOverage] = Number(e[Overage(s)])
    BY <1>6, <2>2, <2>3
  <2>8. n[KeyStep] = Number(e.step)
    BY <1>6, <2>2, <2>3
  <2>9. n = [k \in DOMAIN n |-> n[k]]
    OBVIOUS
  <2> HIDE DEF n
  <2>10. ASSUME NEW k \in SeenKeys PROVE n[k] = SeenEntries(e, s)[k]
    BY <2>4, <2>5, <2>6, <2>7, <2>8 DEF SeenKeys, SeenEntries
  <2>11. n = SeenEntries(e, s)
    BY <2>2, <2>9, <2>10 DEF SeenEntries
  <2> QED BY <2>1, <2>11
<1>7. NormalObservation(OfficialWire(e, s), e.step) = Dict(SeenEntries(e, s))
  <2>1. DOMAIN o \cup {KeyStep} = SeenKeys
    BY <1>1 DEF SeenKeys
  <2>2. IF KeyStep \in DOMAIN o THEN o[KeyStep] = Number(e.step) ELSE e.step = e.step
    BY <1>1, <1>5
  <2> QED BY <1>1, <1>3, <1>6, <2>1, <2>2 DEF o
<1>8. ASSUME NEW d PROVE NormalObservation(FastWire(e, s), d) = Dict(SeenEntries(e, s))
  <2>1. DOMAIN f \cup {KeyStep} = SeenKeys /\ KeyStep \in DOMAIN f
    BY <1>2 DEF SeenKeys
  <2> QED BY <1>2, <1>3, <1>6, <2>1 DEF f
<1> QED BY <1>7, <1>8

\* Numbers and dicts of numbers are values, of any depth that is needed.
LEMMA Numbers ==
  /\ \A n : IsShallow(Number(n)) /\ IsNode(Number(n)) /\ IsShallow(Placed(n)) /\ IsNode(Placed(n))
  /\ \A n : IsShallow(Stock(n)) /\ IsNode(Stock(n))
  /\ \A a, b : IsShallow(List(<<Stock(a), Stock(b)>>))
  /\ \A e : IsShallow(Statuses(e))
<1>1. ASSUME NEW n, NEW t PROVE IsNode(Scalar(t, n)) /\ IsShallow(Scalar(t, n))
  BY DEF IsShallow, IsNode, Below, Scalar
<1>2. ASSUME NEW n PROVE IsNode(Placed(n)) /\ IsShallow(Placed(n))
  <2>1. Placed(n).kind = "dict" /\ Placed(n).entries = [p \in {KeyPlaced} |-> Number(n)]
    BY DEF Placed, Dict
  <2>2. IsNode(Placed(n))
    BY <2>1 DEF IsNode, Placed
  <2>3. Below(Placed(n)) = {Number(n)}
    BY <2>1 DEF Below
  <2> QED BY <1>1, <2>2, <2>3 DEF IsShallow, Number
<1>3. ASSUME NEW n PROVE IsNode(Stock(n)) /\ IsShallow(Stock(n))
  <2>1. Stock(n).kind = "dict" /\ Stock(n).entries = [p \in {1} |-> Number(n)]
    BY DEF Stock, Dict
  <2>2. IsNode(Stock(n))
    BY <2>1 DEF IsNode, Stock
  <2>3. Below(Stock(n)) = {Number(n)}
    BY <2>1 DEF Below
  <2> QED BY <1>1, <2>2, <2>3 DEF IsShallow, Number
<1>4. ASSUME NEW x, NEW y, IsNode(x), IsNode(y) PROVE IsShallow(List(<<x, y>>))
  <2>1. List(<<x, y>>).kind = "list" /\ List(<<x, y>>).items = <<x, y>>
    BY DEF List
  <2>2. Len(<<x, y>>) = 2 /\ <<x, y>> = [i \in 1..2 |-> <<x, y>>[i]] /\ DOMAIN <<x, y>> = 1..2
    OBVIOUS
  <2>3. IsNode(List(<<x, y>>))
    BY <2>1, <2>2 DEF IsNode
  <2>4. Below(List(<<x, y>>)) = {x, y}
    BY <2>1, <2>2 DEF Below
  <2> QED BY <1>4, <2>3, <2>4 DEF IsShallow
<1>5. \A a, b : IsShallow(List(<<Stock(a), Stock(b)>>))
  BY <1>3, <1>4
<1>6. \A e : IsShallow(Statuses(e))
  BY <1>1, <1>4 DEF Statuses
<1>7. \A n : IsShallow(Number(n)) /\ IsNode(Number(n))
  BY <1>1 DEF Number
<1> QED BY <1>2, <1>3, <1>5, <1>6, <1>7

\* A dict of such values is one.
LEMMA DictIsValue ==
  ASSUME NEW f, NEW D, f = [k \in D |-> f[k]], \A k \in D : IsShallow(f[k])
  PROVE  IsValue(Dict(f))
<1>1. Dict(f).kind = "dict" /\ Dict(f).entries = f /\ DOMAIN f = D
  BY DEF Dict
<1>2. IsNode(Dict(f))
  BY <1>1 DEF IsNode
<1>3. Below(Dict(f)) = {f[k] : k \in D}
  BY <1>1 DEF Below
<1> QED BY <1>2, <1>3 DEF IsValue

LEMMA DictSame == ASSUME NEW f, NEW g PROVE Dict(f) = Dict(g) <=> f = g
<1>1. Dict(f).entries = f /\ Dict(g).entries = g
  BY DEF Dict
<1> QED BY <1>1

\* What stands for a number tells it.
LEMMA NumbersTell ==
  /\ \A m, n : Number(m) = Number(n) => m = n
  /\ \A m, n : Placed(m) = Placed(n) => m = n
  /\ \A m, n : Stock(m) = Stock(n) => m = n
<1>1. \A m, n : Number(m) = Number(n) => m = n
  BY DEF Number, Scalar
<1>2. ASSUME NEW m, NEW n, Placed(m) = Placed(n) PROVE m = n
  <2>1. Placed(m).entries[KeyPlaced] = Number(m) /\ Placed(n).entries[KeyPlaced] = Number(n)
    BY DEF Placed, Dict
  <2> QED BY <1>1, <1>2, <2>1
<1>3. ASSUME NEW m, NEW n, Stock(m) = Stock(n) PROVE m = n
  <2>1. Stock(m).entries[1] = Number(m) /\ Stock(n).entries[1] = Number(n)
    BY DEF Stock, Dict
  <2> QED BY <1>1, <1>3, <2>1
<1> QED BY <1>1, <1>2, <1>3

\* Two states differ exactly if a fact that a state holds does: nothing is lost in the wires,
\* and nothing made up.
LEMMA StateDiffTells ==
  ASSUME NEW o \in Engine, NEW f \in Engine
  PROVE  StateDiff(o, f) = {} <=>
           /\ o.step = f.step /\ o.placed = f.placed /\ o.shed0 = f.shed0 /\ o.shed1 = f.shed1
           /\ o.rewards = f.rewards /\ o.statuses = f.statuses
<1> USE DEF KeyStep, KeyDay, KeyTile, KeyShed, KeyRewards, KeyStatuses
<1>1. ASSUME NEW e \in Engine
      PROVE  /\ StateEntries(e) = [k \in StateKeys |-> StateEntries(e)[k]]
             /\ StateEntries(e)[KeyStep] = Number(e.step)
             /\ StateEntries(e)[KeyDay] = Number(DayOf(e))
             /\ StateEntries(e)[KeyTile] = Placed(e.placed)
             /\ StateEntries(e)[KeyShed] = List(<<Stock(e.shed0), Stock(e.shed1)>>)
             /\ StateEntries(e)[KeyRewards] = Number(e.rewards)
             /\ StateEntries(e)[KeyStatuses] = Statuses(e)
  BY DEF StateEntries, StateKeys
<1>2. ASSUME NEW e \in Engine PROVE IsValue(Dict(StateEntries(e)))
  <2>1. /\ IsShallow(Number(e.step)) /\ IsShallow(Number(DayOf(e))) /\ IsShallow(Placed(e.placed))
        /\ IsShallow(List(<<Stock(e.shed0), Stock(e.shed1)>>))
        /\ IsShallow(Number(e.rewards)) /\ IsShallow(Statuses(e))
    BY Numbers
  <2>2. \A k \in StateKeys : IsShallow(StateEntries(e)[k])
    BY <1>1, <2>1 DEF StateKeys
  <2> QED BY <1>1, <2>2, DictIsValue
<1>3. StateDiff(o, f) = {} <=> StateEntries(o) = StateEntries(f)
  BY <1>2, StatesAre, DeepDiffTells, DictSame DEF StateDiff
<1>5. ASSUME StateEntries(o) = StateEntries(f)
      PROVE  /\ o.step = f.step /\ o.placed = f.placed /\ o.rewards = f.rewards
             /\ o.shed0 = f.shed0 /\ o.shed1 = f.shed1 /\ o.statuses = f.statuses
  <2>1. o.step = f.step /\ o.placed = f.placed /\ o.rewards = f.rewards
    <3>1. /\ Number(o.step) = Number(f.step) /\ Number(o.rewards) = Number(f.rewards)
          /\ Placed(o.placed) = Placed(f.placed)
      BY <1>1, <1>5
    <3> QED BY <3>1, NumbersTell
  <2>2. /\ List(<<Stock(o.shed0), Stock(o.shed1)>>) = List(<<Stock(f.shed0), Stock(f.shed1)>>)
        /\ Statuses(o) = Statuses(f)
    BY <1>1, <1>5
  <2>3. \A a, b : List(a) = List(b) => a = b
    BY DEF List
  <2>4. <<Stock(o.shed0), Stock(o.shed1)>> = <<Stock(f.shed0), Stock(f.shed1)>>
    BY <2>2, <2>3
  <2>5. o.shed0 = f.shed0 /\ o.shed1 = f.shed1
    BY <2>4, NumbersTell
  <2>6. /\ Scalar("str", o.statuses[1]) = Scalar("str", f.statuses[1])
        /\ Scalar("str", o.statuses[2]) = Scalar("str", f.statuses[2])
    BY <2>2, <2>3 DEF Statuses
  <2>7. o.statuses[1] = f.statuses[1] /\ o.statuses[2] = f.statuses[2]
    BY <2>6 DEF Scalar
  <2>8. /\ o.statuses = <<o.statuses[1], o.statuses[2]>>
        /\ f.statuses = <<f.statuses[1], f.statuses[2]>>
    BY DEF Engine
  <2> QED BY <2>1, <2>5, <2>7, <2>8
<1>6. ASSUME o.step = f.step, o.placed = f.placed, o.shed0 = f.shed0, o.shed1 = f.shed1,
             o.rewards = f.rewards, o.statuses = f.statuses
      PROVE  StateEntries(o) = StateEntries(f)
  <2>1. \A k \in StateKeys : StateEntries(o)[k] = StateEntries(f)[k]
    BY <1>1, <1>6 DEF StateKeys, DayOf, Statuses
  <2> QED BY <1>1, <2>1
<1> QED BY <1>3, <1>5, <1>6

\* A seat's observations differ exactly if one of the facts it is shown does.
LEMMA ObservationDiffTells ==
  ASSUME NEW o \in Engine, NEW f \in Engine, NEW s \in Seats
  PROVE  ObservationDiff(o, f, s) = {} <=>
           /\ o.step = f.step /\ o.placed = f.placed
           /\ o[Shed(s)] = f[Shed(s)] /\ o[Overage(s)] = f[Overage(s)]
<1> USE DEF KeyStep, KeyDay, KeyTile, KeyShed, KeyOverage
<1>1. ASSUME NEW e \in Engine
      PROVE  /\ SeenEntries(e, s) = [k \in SeenKeys |-> SeenEntries(e, s)[k]]
             /\ SeenEntries(e, s)[KeyStep] = Number(e.step)
             /\ SeenEntries(e, s)[KeyDay] = Number(DayOf(e))
             /\ SeenEntries(e, s)[KeyTile] = Placed(e.placed)
             /\ SeenEntries(e, s)[KeyShed] = Stock(e[Shed(s)])
             /\ SeenEntries(e, s)[KeyOverage] = Number(e[Overage(s)])
  BY DEF SeenEntries, SeenKeys
<1>2. ASSUME NEW e \in Engine PROVE IsValue(Dict(SeenEntries(e, s)))
  <2>1. \A k \in SeenKeys : IsShallow(SeenEntries(e, s)[k])
    BY <1>1, Numbers DEF SeenKeys
  <2> QED BY <1>1, <2>1, DictIsValue
<1>3. ObservationDiff(o, f, s) = {} <=> SeenEntries(o, s) = SeenEntries(f, s)
  <2>1. /\ NormalObservation(OfficialWire(o, s), o.step) = Dict(SeenEntries(o, s))
        /\ NormalObservation(FastWire(f, s), o.step) = Dict(SeenEntries(f, s))
    BY SeenAre
  <2>2. ObservationDiff(o, f, s) = DeepDiff(Dict(SeenEntries(o, s)), Dict(SeenEntries(f, s)))
    BY <2>1 DEF ObservationDiff
  <2>3. IsValue(Dict(SeenEntries(o, s))) /\ IsValue(Dict(SeenEntries(f, s)))
    BY <1>2
  <2> QED BY <2>2, <2>3, DeepDiffTells, DictSame
<1>5. ASSUME SeenEntries(o, s) = SeenEntries(f, s)
      PROVE  /\ o.step = f.step /\ o.placed = f.placed
             /\ o[Shed(s)] = f[Shed(s)] /\ o[Overage(s)] = f[Overage(s)]
  BY <1>1, <1>5, NumbersTell
<1>6. ASSUME o.step = f.step, o.placed = f.placed,
             o[Shed(s)] = f[Shed(s)], o[Overage(s)] = f[Overage(s)]
      PROVE  SeenEntries(o, s) = SeenEntries(f, s)
  <2>1. \A k \in SeenKeys : SeenEntries(o, s)[k] = SeenEntries(f, s)[k]
    BY <1>1, <1>6 DEF SeenKeys, DayOf
  <2> QED BY <1>1, <2>1
<1> QED BY <1>3, <1>5, <1>6

-----------------------------------------------------------------------------
(* The engines. *)

Active == <<"ACTIVE", "ACTIVE">>

LEMMA NoneIsNothing ==
  /\ \A fact \in Facts : None # fact
  /\ \A s \in Seats : None # s
  BY NoneAssumption

LEMMA FreshIs == Fresh \in Engine /\ Fresh.step = 0 /\ Fresh.statuses = Active
  BY DEF Fresh, Engine, StatusNames, Active

\* A step of the official engine ends the game at LastStep, and only there.
LEMMA PlayedIs ==
  ASSUME NEW e \in Engine, e.statuses = Active, NEW o \in Played(e)
  PROVE  /\ o \in Engine /\ o.step = e.step + 1
         /\ o.statuses \in {Active, <<"DONE", "DONE">>, <<"ERROR", "ACTIVE">>}
         /\ o.statuses = <<"DONE", "DONE">> <=> e.step + 1 >= LastStep
<1> DEFINE next == [e EXCEPT !.step = @ + 1]
<1>1. next \in Engine /\ next.step = e.step + 1 /\ next.statuses = Active /\ DayOf(next) \in Int
  <2>1. next \in Engine /\ next.step = e.step + 1 /\ next.statuses = Active
    BY DEF Engine
  <2> HIDE DEF next
  <2> QED BY <2>1, DayIsNumber
<1>2. Played(e) = IF next.step >= LastStep
                  THEN {[next EXCEPT !.statuses = <<"DONE", "DONE">>, !.rewards = 1]}
                  ELSE {next, [next EXCEPT !.shed0 = 1], [next EXCEPT !.placed = DayOf(next)],
                        [next EXCEPT !.statuses = <<"ERROR", "ACTIVE">>]}
  BY DEF Played
<1>3. Active # <<"DONE", "DONE">> /\ <<"ERROR", "ACTIVE">> # <<"DONE", "DONE">>
  BY DEF Active
<1> HIDE DEF next
<1>4. CASE next.step >= LastStep
  <2>1. o = [next EXCEPT !.statuses = <<"DONE", "DONE">>, !.rewards = 1]
    BY <1>2, <1>4
  <2> DEFINE ended == [next EXCEPT !.statuses = <<"DONE", "DONE">>]
  <2>2. ended \in Engine /\ ended.step = next.step /\ ended.statuses = <<"DONE", "DONE">>
    BY <1>1 DEF Engine, StatusNames
  <2>3. o = [ended EXCEPT !.rewards = 1]
    BY <1>1, <2>1 DEF Engine
  <2> HIDE DEF ended
  <2>4. o \in Engine /\ o.step = ended.step /\ o.statuses = ended.statuses
    BY <2>2, <2>3 DEF Engine
  <2> QED BY <1>1, <1>4, <2>2, <2>4
<1>5. CASE ~(next.step >= LastStep)
  <2>1. \/ o = next \/ o = [next EXCEPT !.shed0 = 1] \/ o = [next EXCEPT !.placed = DayOf(next)]
        \/ o = [next EXCEPT !.statuses = <<"ERROR", "ACTIVE">>]
    BY <1>2, <1>5
  <2>2. o \in Engine /\ o.step = next.step /\ o.statuses \in {Active, <<"ERROR", "ACTIVE">>}
    <3>1. CASE o = next
      BY <1>1, <3>1
    <3>2. CASE o = [next EXCEPT !.shed0 = 1]
      BY <1>1, <3>2 DEF Engine
    <3>3. CASE o = [next EXCEPT !.placed = DayOf(next)]
      BY <1>1, <3>3 DEF Engine
    <3>4. CASE o = [next EXCEPT !.statuses = <<"ERROR", "ACTIVE">>]
      BY <1>1, <3>4 DEF Engine, StatusNames
    <3> QED BY <2>1, <3>1, <3>2, <3>3, <3>4
  <2> QED BY <1>1, <1>3, <1>5, <2>2
<1> QED BY <1>4, <1>5

\* One fact of an engine changed: that fact is another, and no other is.
LEMMA ChangedIs ==
  ASSUME NEW o \in Engine, o.statuses # <<"ACTIVE", "INVALID">>, NEW fact \in Facts
  PROVE  LET f == Changed(o, fact)
         IN  /\ f \in Engine /\ f.step = o.step /\ f[fact] # o[fact]
             /\ \A other \in Facts : other # fact => f[other] = o[other]
<1>1. CASE fact = "statuses"
  BY <1>1 DEF Changed, Engine, StatusNames, Facts
<1>2. CASE fact # "statuses"
  <2>1. Changed(o, fact) = [o EXCEPT ![fact] = o[fact] + 1]
    BY <1>2 DEF Changed
  <2>2. fact \in {"placed", "shed0", "shed1", "overage0", "overage1", "rewards"} /\ fact # "step"
    BY <1>2 DEF Facts
  <2>3. o[fact] \in Int
    BY <2>2 DEF Engine
  <2>4. [o EXCEPT ![fact] = o[fact] + 1] \in Engine
    BY <2>2, <2>3 DEF Engine
  <2>5. DOMAIN o = {"step", "placed", "shed0", "shed1", "overage0", "overage1", "rewards",
                    "statuses"}
    BY DEF Engine
  <2> QED BY <2>1, <2>2, <2>3, <2>4, <2>5 DEF Facts
<1> QED BY <1>1, <1>2

\* What the comparisons see of one changed fact: a state all but what only observations have,
\* a seat what it is shown.
LEMMA MirrorTells ==
  ASSUME NEW o \in Engine, o.statuses # <<"ACTIVE", "INVALID">>, NEW mirror \in Mirrors(o)
  PROVE  /\ mirror.engine \in Engine /\ mirror.engine.step = o.step
         /\ mirror.fact \in Facts \cup {None}
         /\ StateDiff(o, mirror.engine) = {} <=> mirror.fact \in OnlyObserved \cup {None}
         /\ \A s \in Seats : ObservationDiff(o, mirror.engine, s) = {}
               <=> mirror.fact \notin {"placed", Shed(s), Overage(s)}
         /\ \A fact \in Facts : o[fact] # mirror.engine[fact] <=> fact = mirror.fact
<1> DEFINE f == mirror.engine
<1>1. /\ f \in Engine /\ f.step = o.step /\ mirror.fact \in Facts \cup {None}
      /\ \A fact \in Facts : o[fact] # f[fact] <=> fact = mirror.fact
  <2>1. CASE mirror = [engine |-> o, fact |-> None]
    BY <2>1, NoneIsNothing
  <2>2. ASSUME NEW fact \in Facts, mirror = [engine |-> Changed(o, fact), fact |-> fact]
        PROVE  /\ f \in Engine /\ f.step = o.step /\ mirror.fact \in Facts \cup {None}
               /\ \A other \in Facts : o[other] # f[other] <=> other = mirror.fact
    <3>1. mirror.fact = fact /\ f = Changed(o, fact)
      BY <2>2
    <3> QED BY <3>1, ChangedIs
  <2> QED BY <2>1, <2>2 DEF Mirrors
<1> HIDE DEF f
<1>2. StateDiff(o, f) = {} <=> mirror.fact \in OnlyObserved \cup {None}
  <2>1. StateDiff(o, f) = {} <=>
           mirror.fact \notin {"placed", "shed0", "shed1", "rewards", "statuses"}
    BY <1>1, StateDiffTells DEF Facts
  <2>2. mirror.fact \in Facts \cup {None}
    BY <1>1
  <2>3. None \notin {"placed", "shed0", "shed1", "rewards", "statuses"}
    BY NoneIsNothing DEF Facts
  <2> QED BY <2>1, <2>2, <2>3 DEF Facts, OnlyObserved
<1>3. ASSUME NEW s \in Seats
      PROVE  ObservationDiff(o, f, s) = {} <=> mirror.fact \notin {"placed", Shed(s), Overage(s)}
  <2>1. {"placed", Shed(s), Overage(s)} \subseteq Facts
    BY DEF Facts, Shed, Overage
  <2>2. ObservationDiff(o, f, s) = {} <=>
           /\ o.placed = f.placed /\ o[Shed(s)] = f[Shed(s)] /\ o[Overage(s)] = f[Overage(s)]
    BY <1>1, ObservationDiffTells
  <2>3. o.placed # f.placed <=> "placed" = mirror.fact
    BY <1>1, <2>1
  <2>4. o[Shed(s)] # f[Shed(s)] <=> Shed(s) = mirror.fact
    BY <1>1, <2>1
  <2>5. o[Overage(s)] # f[Overage(s)] <=> Overage(s) = mirror.fact
    BY <1>1, <2>1
  <2> QED BY <2>2, <2>3, <2>4, <2>5
<1> QED BY <1>1, <1>2, <1>3 DEF f

-----------------------------------------------------------------------------
(* The runs. *)

\* Where a harness is, and what the clocks say there.
Placement ==
    /\ harness \in {"closed_loop", "replay", "rollouts"} /\ max_steps \in Nat /\ turn \in Int
    /\ harness = "closed_loop" => at \in {"reset", "observe", "act", "step"}
    /\ harness = "replay" => at \in {"reset", "act", "step"}
    /\ harness = "rollouts" => at \in {"reset", "compared"}
    /\ official \in Engine /\ fast \in Engine
    /\ at = "reset" => /\ turn = -1 /\ official = Fresh /\ fast = Fresh
                       /\ faults = {} /\ history = <<>> /\ Running
    /\ at = "compared" => turn = -1 /\ official.step = 0 /\ fast.step = 0 /\ ~Running
    /\ at \in {"observe", "act", "step"} =>
          /\ turn \in 0..max_steps /\ turn <= LastStep
          /\ official.step = turn /\ fast.step = turn

\* A run that goes on: the game is not over, and there was no anomaly.
Going ==
    Running /\ at \in {"observe", "act", "step"} =>
        /\ turn < LastStep /\ official.statuses = Active
        /\ history \in Seq(StatusNames \X StatusNames) /\ Len(history) = turn + 1
        /\ ~Anomalous(history)
        /\ at = "step" \/ (harness = "closed_loop" /\ at = "act") => turn < max_steps

\* What a run that goes on may have missed: the closed loop nothing once it has looked at the
\* observations, before that only what a state does not show; the replay only that, ever.
Watching ==
    Running /\ at \in {"observe", "act", "step"} =>
        /\ harness = "closed_loop" /\ at # "observe" => faults = {}
        /\ harness = "closed_loop" /\ at = "observe" =>
              /\ official.placed = fast.placed
              /\ official.shed0 = fast.shed0 /\ official.shed1 = fast.shed1
              /\ \A s \in Seats : official[Overage(s)] # fast[Overage(s)] <=>
                    [turn |-> turn - 1, when |-> "step", fact |-> Overage(s)] \in faults
              /\ \A d \in faults : \E s \in Seats :
                    d = [turn |-> turn - 1, when |-> "step", fact |-> Overage(s)]
        /\ harness = "replay" => \A d \in faults : d.fact \in OnlyObserved

Shape == Placement /\ Going /\ Watching

\* A report is none only of a run that goes on.
LEMMA Reported ==
  /\ \A phase, seat, path : Diverged(phase, seat, path) # NoReport
  /\ \A kind \in {"anomaly", "returned", "matched"} : Report(kind) # NoReport
<1>1. ASSUME NEW phase, NEW seat, NEW path PROVE Diverged(phase, seat, path) # NoReport
  <2>1. Diverged(phase, seat, path).kind = "diverged" /\ NoReport.kind = "running"
    BY DEF Diverged, NoReport
  <2> QED BY <2>1
<1>2. ASSUME NEW kind \in {"anomaly", "returned", "matched"} PROVE Report(kind) # NoReport
  <2>1. Report(kind).kind = kind /\ NoReport.kind = "running"
    BY DEF Report, NoReport
  <2> QED BY <2>1
<1> QED BY <1>1, <1>2

\* A status history is anomalous if one of its entries is.
LEMMA AnomalousAppend ==
  ASSUME NEW h \in Seq(StatusNames \X StatusNames), NEW st \in StatusNames \X StatusNames
  PROVE  /\ Append(h, st) \in Seq(StatusNames \X StatusNames)
         /\ Len(Append(h, st)) = Len(h) + 1
         /\ Anomalous(Append(h, st)) <=>
               Anomalous(h) \/ \E s \in {1, 2} : st[s] \notin {"ACTIVE", "DONE"}
<1>1. /\ Append(h, st) \in Seq(StatusNames \X StatusNames) /\ Len(Append(h, st)) = Len(h) + 1
      /\ DOMAIN h = 1..Len(h) /\ DOMAIN Append(h, st) = 1..(Len(h) + 1) /\ Len(h) \in Nat
      /\ \A k \in 1..Len(h) : Append(h, st)[k] = h[k]
      /\ Append(h, st)[Len(h) + 1] = st
  OBVIOUS
<1>2. \A k \in 1..(Len(h) + 1) : k \in 1..Len(h) \/ k = Len(h) + 1
  BY <1>1
<1>3. Len(h) + 1 \in 1..(Len(h) + 1) /\ \A k \in 1..Len(h) : k \in 1..(Len(h) + 1)
  BY <1>1
<1> QED BY <1>1, <1>2, <1>3 DEF Anomalous

LEMMA FreshHistory ==
  /\ <<Active>> \in Seq(StatusNames \X StatusNames) /\ Len(<<Active>>) = 1
  /\ ~Anomalous(<<Active>>)
<1>1. Active \in StatusNames \X StatusNames /\ Active[1] = "ACTIVE" /\ Active[2] = "ACTIVE"
  BY DEF Active, StatusNames
<1>2. DOMAIN <<Active>> = {1} /\ <<Active>>[1] = Active
  OBVIOUS
<1> QED BY <1>1, <1>2 DEF Anomalous

LEMMA Bounds == /\ Hours \in Nat /\ LastStep \in Nat /\ LastStep >= 1
                /\ \A b \in Budgets : b \in Nat
  BY ParityAssumption

LEMMA ShapeInit == ParityInit => Shape
<1> SUFFICES ASSUME ParityInit PROVE Shape
  OBVIOUS
<1>1. Placement
  BY FreshIs, Bounds DEF ParityInit, Placement, Running
<1> QED BY <1>1 DEF Shape, Going, Watching, ParityInit

\* After a reset.
LEMMA ShapeReset ==
  ASSUME Shape, ResetBoth
  PROVE  Shape'
<1> USE DEF Shape
<1>1. PICK mirror \in Mirrors(Fresh) :
          /\ fast' = mirror.engine
          /\ faults' = Fault("reset", mirror.fact)
          /\ LET seen == {s \in Seats : harness = "closed_loop"
                                          /\ ObservationDiff(Fresh, mirror.engine, s) # {}}
                 state == StateDiff(Fresh, mirror.engine)
             IN  report' =
                    IF seen # {}
                    THEN Diverged("reset_observation", Min(seen),
                                  First(ObservationDiff(Fresh, mirror.engine, Min(seen))))
                    ELSE IF state # {}
                    THEN Diverged("reset_observation", None, First(state))
                    ELSE report
  BY DEF ResetBoth
<1>2. /\ harness \in {"closed_loop", "replay"} /\ at = "reset" /\ turn' = 0
      /\ history' = <<Active>> /\ official' = official /\ harness' = harness
      /\ max_steps' = max_steps /\ at' = IF harness = "replay" THEN "act" ELSE "observe"
  BY FreshIs DEF ResetBoth
<1>3. Fresh.statuses # <<"ACTIVE", "INVALID">>
  BY FreshIs DEF Active
<1>4. /\ mirror.engine \in Engine /\ mirror.engine.step = 0
      /\ mirror.fact \in Facts \cup {None}
      /\ StateDiff(Fresh, mirror.engine) = {} <=> mirror.fact \in OnlyObserved \cup {None}
      /\ \A s \in Seats : ObservationDiff(Fresh, mirror.engine, s) = {}
            <=> mirror.fact \notin {"placed", Shed(s), Overage(s)}
      /\ \A fact \in Facts : Fresh[fact] # mirror.engine[fact] <=> fact = mirror.fact
  BY <1>3, FreshIs, MirrorTells
<1>5. Placement'
  <2>1. turn' \in 0..max_steps' /\ turn' <= LastStep
    BY <1>2, Bounds DEF Placement
  <2> QED BY <1>1, <1>2, <1>4, <2>1, FreshIs DEF Placement
<1>6. Going'
  <2>1. turn' < LastStep /\ Len(history') = turn' + 1 /\ ~Anomalous(history')
        /\ history' \in Seq(StatusNames \X StatusNames)
    BY <1>2, Bounds, FreshHistory DEF Anomalous
  <2>2. official'.statuses = Active
    BY <1>2, FreshIs DEF Placement
  <2>3. at' # "step" /\ ~(harness' = "closed_loop" /\ at' = "act")
    BY <1>2
  <2> QED BY <2>1, <2>2, <2>3 DEF Going
<1>7. Watching'
  <2>1. ASSUME Running'
        PROVE  /\ harness = "closed_loop" => mirror.fact = None
               /\ mirror.fact \in OnlyObserved \cup {None}
    <3>1. report' = NoReport
      BY <2>1 DEF Running
    <3>2. /\ ~ \E s \in Seats : /\ harness = "closed_loop"
                                /\ ObservationDiff(Fresh, mirror.engine, s) # {}
          /\ StateDiff(Fresh, mirror.engine) = {}
      BY <1>1, <3>1, Reported
    <3>3. mirror.fact \in OnlyObserved \cup {None}
      BY <1>4, <3>2
    <3>4. ASSUME harness = "closed_loop" PROVE mirror.fact \notin OnlyObserved
      <4>1. \A s \in Seats : mirror.fact # Overage(s)
        BY <1>4, <3>2, <3>4
      <4>2. OnlyObserved = {Overage(0), Overage(1)} /\ 0 \in Seats /\ 1 \in Seats
        BY DEF OnlyObserved, Overage, Seats
      <4> QED BY <4>1, <4>2
    <3> QED BY <3>3, <3>4
  <2>2. \A d \in faults' : d.fact = mirror.fact /\ mirror.fact # None
    BY <1>1 DEF Fault
  <2>3. ASSUME Running', harness' = "closed_loop"
        PROVE  /\ official'.placed = fast'.placed
               /\ official'.shed0 = fast'.shed0 /\ official'.shed1 = fast'.shed1
               /\ \A s \in Seats : official'[Overage(s)] = fast'[Overage(s)]
               /\ faults' = {}
    <3>1. mirror.fact = None
      BY <1>2, <2>1, <2>3
    <3>2. faults' = {}
      BY <2>2, <3>1
    <3>3. \A fact \in Facts : Fresh[fact] = mirror.engine[fact]
      BY <1>4, <3>1, NoneIsNothing
    <3>4. official' = Fresh /\ fast' = mirror.engine
      BY <1>1, <1>2 DEF Placement
    <3>5. \A s \in Seats : Overage(s) \in Facts
      BY DEF Facts, Overage
    <3>6. "placed" \in Facts /\ "shed0" \in Facts /\ "shed1" \in Facts
      BY DEF Facts
    <3> QED BY <3>2, <3>3, <3>4, <3>5, <3>6
  <2>4. ASSUME Running' PROVE \A d \in faults' : d.fact \in OnlyObserved
    BY <2>1, <2>2, <2>4
  <2>5. ASSUME Running', harness' = "closed_loop", NEW s \in Seats
        PROVE  official'[Overage(s)] # fast'[Overage(s)] <=>
                  [turn |-> turn' - 1, when |-> "step", fact |-> Overage(s)] \in faults'
    BY <2>3, <2>5
  <2>6. harness' = "closed_loop" => at' = "observe"
    BY <1>2
  <2> QED BY <2>3, <2>4, <2>5, <2>6 DEF Watching
<1> QED BY <1>5, <1>6, <1>7

\* After the observations were compared: nothing differs, or that is reported.
LEMMA ShapeObserve ==
  ASSUME Shape, Observe
  PROVE  Shape'
<1> USE DEF Shape
<1>1. /\ harness = "closed_loop" /\ Running /\ at = "observe" /\ turn < max_steps
      /\ turn \in 0..max_steps /\ max_steps \in Nat
      /\ UNCHANGED <<harness, max_steps, official, fast, turn, actions, faults, history>>
      /\ at' = "act"
  BY DEF Observe, OutOfTurns, Placement
<1>2. Placement'
  BY <1>1 DEF Placement
<1>3. Going'
  BY <1>1 DEF Going, Anomalous, Running
<1>4. Watching'
  <2>1. ASSUME Running' PROVE faults' = {}
    <3>1. report' = NoReport
      BY <2>1 DEF Running
    <3>2. \A s \in Seats : ObservationDiff(official, fast, s) = {}
      <4>1. report' = IF {s \in Seats : ObservationDiff(official, fast, s) # {}} = {} THEN report
                      ELSE Diverged("observation",
                             Min({s \in Seats : ObservationDiff(official, fast, s) # {}}),
                             First(ObservationDiff(official, fast,
                                Min({s \in Seats : ObservationDiff(official, fast, s) # {}}))))
        BY DEF Observe
      <4>2. {s \in Seats : ObservationDiff(official, fast, s) # {}} = {}
        BY <3>1, <4>1, Reported
      <4> QED BY <4>2
    <3>3. official \in Engine /\ fast \in Engine
      BY DEF Placement
    <3>4. \A s \in Seats : official[Overage(s)] = fast[Overage(s)]
      BY <3>2, <3>3, ObservationDiffTells
    <3> QED BY <1>1, <3>4 DEF Watching
  <2> QED BY <1>1, <2>1 DEF Watching
<1> QED BY <1>2, <1>3, <1>4

\* After the actions were compared.
LEMMA ShapeAct ==
  ASSUME Shape, Act
  PROVE  Shape'
<1> USE DEF Shape
<1>1. PICK other \in SUBSET Seats :
          /\ faults' = faults \cup {[turn |-> turn, when |-> "act", fact |-> s] : s \in other}
          /\ report' = IF other = {} THEN report ELSE Diverged("action", Min(other), <<>>)
  BY DEF Act
<1>2. /\ harness = "closed_loop" /\ Running /\ at = "act"
      /\ UNCHANGED <<harness, max_steps, official, fast, turn, history>>
      /\ at' = "step"
  BY DEF Act
<1>3. Placement'
  BY <1>2 DEF Placement
<1>4. Going'
  BY <1>2 DEF Going, Anomalous, Running
<1>5. Watching'
  <2>1. Running' => other = {}
    BY <1>1, Reported DEF Running
  <2>2. faults = {}
    BY <1>2 DEF Watching
  <2> QED BY <1>1, <1>2, <2>1, <2>2 DEF Watching
<1> QED BY <1>3, <1>4, <1>5

LEMMA ShapePick ==
  ASSUME Shape, Pick
  PROVE  Shape'
<1> USE DEF Shape
<1>1. /\ harness = "replay" /\ Running /\ at = "act" /\ turn < max_steps
      /\ UNCHANGED <<harness, max_steps, official, fast, turn, faults, history, report>>
      /\ at' = "step"
  BY DEF Pick, OutOfTurns, Placement
<1> QED BY <1>1 DEF Placement, Going, Watching, Anomalous, Running

LEMMA ShapeReturn ==
  ASSUME Shape, Return
  PROVE  Shape'
<1> USE DEF Shape
<1>1. /\ at # "reset" /\ harness # "rollouts"
      /\ UNCHANGED <<harness, max_steps, official, fast, turn, at, actions, faults, history>>
      /\ ~Running'
  <2>1. report' = Report("returned")
    BY DEF Return
  <2>2. ~Running'
    BY <2>1, Reported DEF Running
  <2> QED BY <2>2 DEF Return
<1> QED BY <1>1 DEF Placement, Going, Watching

LEMMA ShapeCompare ==
  ASSUME Shape, CompareRollouts
  PROVE  Shape'
<1> USE DEF Shape
<1>1. /\ harness = "rollouts" /\ at = "reset" /\ at' = "compared"
      /\ UNCHANGED <<harness, max_steps, official, fast, turn, faults, history>>
  BY DEF CompareRollouts
<1>2. ~Running'
  <2>1. PICK pair \in Recordings :
           LET phases == Phases(pair.a, pair.b)
               differ == {i \in DOMAIN phases : phases[i].keys # {}}
           IN  report' = IF differ = {} THEN Report("matched")
                         ELSE Diverged(phases[Min(differ)].phase, None,
                                       Earliest(phases[Min(differ)].keys))
    BY DEF CompareRollouts
  <2> QED BY <2>1, Reported DEF Running
<1> QED BY <1>1, <1>2, FreshIs DEF Placement, Going, Watching

-----------------------------------------------------------------------------
(* One step of both engines. *)

\* What may come of a step, and what the comparison of the states sees of it.
LEMMA StepTells ==
  ASSUME Shape, Running, at = "step", NEW o \in Played(official), NEW mirror \in MirrorsOf(o)
  PROVE  /\ harness \in {"closed_loop", "replay"}
         /\ turn \in Nat /\ turn < max_steps /\ turn < LastStep
         /\ o \in Engine /\ o.step = turn + 1
         /\ mirror.engine \in Engine /\ mirror.engine.step = turn + 1
         /\ o.statuses \in {Active, <<"DONE", "DONE">>, <<"ERROR", "ACTIVE">>}
         /\ o.statuses = <<"DONE", "DONE">> <=> turn + 1 >= LastStep
         /\ Anomalous(Append(history, o.statuses)) <=> o.statuses = <<"ERROR", "ACTIVE">>
         /\ o.statuses # <<"ERROR", "ACTIVE">> => mirror \in Mirrors(o)
         /\ o.statuses # <<"ACTIVE", "INVALID">>
<1> USE DEF Shape
<1>1. /\ harness \in {"closed_loop", "replay"} /\ turn \in Nat /\ turn < max_steps
      /\ turn < LastStep /\ official \in Engine /\ official.step = turn
      /\ official.statuses = Active /\ history \in Seq(StatusNames \X StatusNames)
      /\ ~Anomalous(history)
  <2>1. turn \in 0..max_steps /\ max_steps \in Nat
    BY DEF Placement
  <2> QED BY <2>1 DEF Placement, Going
<1>2. /\ o \in Engine /\ o.step = turn + 1
      /\ o.statuses \in {Active, <<"DONE", "DONE">>, <<"ERROR", "ACTIVE">>}
      /\ o.statuses = <<"DONE", "DONE">> <=> turn + 1 >= LastStep
  BY <1>1, PlayedIs
<1>3. Anomalous(Append(history, o.statuses)) <=> o.statuses = <<"ERROR", "ACTIVE">>
  <2>1. o.statuses \in StatusNames \X StatusNames
    BY <1>2 DEF Engine
  <2>2. Anomalous(Append(history, o.statuses)) <=>
           \E s \in {1, 2} : o.statuses[s] \notin {"ACTIVE", "DONE"}
    BY <1>1, <2>1, AnomalousAppend
  <2> QED BY <1>2, <2>2 DEF Active
<1>4. o.statuses # <<"ERROR", "ACTIVE">> => mirror \in Mirrors(o)
  BY <1>2 DEF MirrorsOf, Active
<1>5. o.statuses # <<"ACTIVE", "INVALID">>
  BY <1>2 DEF Active
<1>6. mirror.engine \in Engine /\ mirror.engine.step = turn + 1
  <2>1. CASE mirror \in Mirrors(o)
    BY <1>2, <1>5, <2>1, MirrorTells
  <2>2. CASE o.statuses = <<"ERROR", "ACTIVE">>
    <3>1. mirror = [engine |-> [o EXCEPT !.statuses = <<"ACTIVE", "ACTIVE">>], fact |-> "statuses"]
      BY <2>2 DEF MirrorsOf
    <3>2. mirror.engine = [o EXCEPT !.statuses = <<"ACTIVE", "ACTIVE">>]
      BY <3>1
    <3> QED BY <1>2, <3>2 DEF Engine, StatusNames
  <2> QED BY <1>4, <2>1, <2>2
<1> QED BY <1>1, <1>2, <1>3, <1>4, <1>5, <1>6

\* The step that takes the official engine to o and the fast one to its mirror.
StepTo(o, mirror) ==
    /\ official' = o /\ fast' = mirror.engine
    /\ faults' = faults \cup Fault("step", mirror.fact)
    /\ history' = Append(history, o["statuses"])
    /\ LET state == StateDiff(o, mirror.engine)
           done == o["statuses"] = <<"DONE", "DONE">>
                     /\ mirror.engine["statuses"] = <<"DONE", "DONE">>
       IN  report' = IF Anomalous(history') THEN Report("anomaly")
                      ELSE IF state # {} THEN Diverged("next_state", None, First(state))
                      ELSE IF done THEN Report("returned")
                      ELSE report

LEMMA ShapeStep ==
  ASSUME Shape, StepBoth
  PROVE  Shape'
<1> USE DEF Shape
<1>0. PICK o \in Played(official) : \E mirror \in MirrorsOf(o) : StepTo(o, mirror)
  BY DEF StepBoth, StepTo
<1>1. PICK mirror \in MirrorsOf(o) : StepTo(o, mirror)
  BY <1>0
<1> USE DEF StepTo
<1>2. /\ Running /\ at = "step" /\ turn' = turn + 1
      /\ at' = IF harness = "replay" THEN "act" ELSE "observe"
      /\ UNCHANGED <<harness, max_steps, actions>>
  BY DEF StepBoth
<1>3. /\ harness \in {"closed_loop", "replay"}
      /\ turn \in Nat /\ turn < max_steps /\ turn < LastStep
      /\ o \in Engine /\ o.step = turn + 1
      /\ mirror.engine \in Engine /\ mirror.engine.step = turn + 1
      /\ o.statuses \in {Active, <<"DONE", "DONE">>, <<"ERROR", "ACTIVE">>}
      /\ o.statuses = <<"DONE", "DONE">> <=> turn + 1 >= LastStep
      /\ Anomalous(Append(history, o.statuses)) <=> o.statuses = <<"ERROR", "ACTIVE">>
      /\ o.statuses # <<"ERROR", "ACTIVE">> => mirror \in Mirrors(o)
      /\ o.statuses # <<"ACTIVE", "INVALID">>
  BY <1>2, StepTells
<1>4. max_steps \in Nat /\ LastStep \in Nat
  BY Bounds DEF Placement
<1>5. Placement'
  <2>1. turn' \in 0..max_steps' /\ turn' <= LastStep
    BY <1>2, <1>3, <1>4
  <2> QED BY <1>1, <1>2, <1>3, <2>1 DEF Placement
<1>6. ASSUME Running'
      PROVE  /\ ~Anomalous(history') /\ o.statuses = Active
             /\ mirror \in Mirrors(o) /\ StateDiff(o, mirror.engine) = {}
  <2>1. report' = NoReport
    BY <1>6 DEF Running
  <2>2. /\ ~Anomalous(history') /\ StateDiff(o, mirror.engine) = {}
        /\ ~(o.statuses = <<"DONE", "DONE">> /\ mirror.engine.statuses = <<"DONE", "DONE">>)
    BY <1>1, <2>1, Reported
  <2>3. Anomalous(history') <=> o.statuses = <<"ERROR", "ACTIVE">>
    BY <1>1, <1>3 DEF Anomalous
  <2>4. o.statuses = mirror.engine.statuses
    BY <1>3, <2>2, StateDiffTells
  <2> QED BY <1>3, <2>2, <2>3, <2>4
<1>7. Going'
  <2>1. ASSUME Running' PROVE turn' < LastStep /\ official'.statuses = Active
    <3>1. Active # <<"DONE", "DONE">>
      BY DEF Active
    <3>2. o.statuses = Active
      BY <1>6, <2>1
    <3>3. ~(turn + 1 >= LastStep)
      BY <1>3, <3>1, <3>2
    <3>4. turn' < LastStep
      BY <1>2, <1>3, <1>4, <3>3
    <3> QED BY <1>1, <3>2, <3>4 DEF StepTo
  <2>2. history \in Seq(StatusNames \X StatusNames) /\ Len(history) = turn + 1
    BY <1>2 DEF Going
  <2>3. o.statuses \in StatusNames \X StatusNames
    BY <1>3 DEF Engine
  <2>4. history' \in Seq(StatusNames \X StatusNames) /\ Len(history') = turn' + 1
    BY <1>1, <1>2, <2>2, <2>3, AnomalousAppend
  <2>5. Running' => ~Anomalous(history)'
    BY <1>6 DEF Anomalous
  <2>6. at' # "step" /\ ~(harness' = "closed_loop" /\ at' = "act")
    BY <1>2
  <2> QED BY <2>1, <2>4, <2>5, <2>6 DEF Going
<1>8. Watching'
  <2>1. ASSUME Running'
        PROVE  /\ mirror.fact \in OnlyObserved \cup {None}
               /\ \A fact \in Facts : o[fact] # mirror.engine[fact] <=> fact = mirror.fact
    BY <1>3, <1>6, <2>1, MirrorTells
  <2>2. ASSUME NEW d \in faults'
        PROVE  \/ d \in faults
               \/ mirror.fact # None /\ d = [turn |-> turn, when |-> "step", fact |-> mirror.fact]
    BY <1>1, <2>2 DEF Fault
  <2>3. ASSUME Running', harness' = "closed_loop"
        PROVE  /\ at' = "observe"
               /\ official'.placed = fast'.placed
               /\ official'.shed0 = fast'.shed0 /\ official'.shed1 = fast'.shed1
               /\ \A s \in Seats : official'[Overage(s)] # fast'[Overage(s)] <=>
                     [turn |-> turn' - 1, when |-> "step", fact |-> Overage(s)] \in faults'
               /\ \A d \in faults' : \E s \in Seats :
                     d = [turn |-> turn' - 1, when |-> "step", fact |-> Overage(s)]
    <3>1. at' = "observe" /\ faults = {} /\ turn' - 1 = turn
      BY <1>2, <1>3, <2>3 DEF Watching
    <3>2. "placed" \in Facts /\ "shed0" \in Facts /\ "shed1" \in Facts
          /\ \A s \in Seats : Overage(s) \in Facts
      BY DEF Facts, Overage
    <3>3. mirror.fact \notin {"placed", "shed0", "shed1"}
      BY <2>1, <2>3, NoneIsNothing, <3>2 DEF OnlyObserved
    <3>4. OnlyObserved = {Overage(0), Overage(1)} /\ Seats = {0, 1}
      BY DEF OnlyObserved, Overage, Seats
    <3>5. ASSUME NEW s \in Seats
          PROVE  official'[Overage(s)] # fast'[Overage(s)] <=>
                     [turn |-> turn' - 1, when |-> "step", fact |-> Overage(s)] \in faults'
      <4>1. official'[Overage(s)] # fast'[Overage(s)] <=> Overage(s) = mirror.fact
        BY <1>1, <2>1, <2>3, <3>2
      <4>2. CASE Overage(s) = mirror.fact
        <5>1. mirror.fact # None
          BY <3>2, <4>2, NoneIsNothing
        <5> QED BY <1>1, <3>1, <4>1, <4>2, <5>1 DEF Fault
      <4>3. CASE Overage(s) # mirror.fact
        <5>1. ASSUME [turn |-> turn' - 1, when |-> "step", fact |-> Overage(s)] \in faults'
              PROVE  FALSE
          <6>1. [turn |-> turn' - 1, when |-> "step", fact |-> Overage(s)]
                   = [turn |-> turn, when |-> "step", fact |-> mirror.fact]
            BY <2>2, <3>1, <5>1
          <6> QED BY <4>3, <6>1
        <5> QED BY <4>1, <4>3, <5>1
      <4> QED BY <4>2, <4>3
    <3>6. ASSUME NEW d \in faults'
          PROVE  \E s \in Seats : d = [turn |-> turn' - 1, when |-> "step", fact |-> Overage(s)]
      BY <2>1, <2>2, <2>3, <3>1, <3>4, <3>6
    <3> QED BY <1>1, <2>1, <2>3, <3>1, <3>2, <3>3, <3>5, <3>6
  <2>4. ASSUME Running', harness' = "replay" PROVE \A d \in faults' : d.fact \in OnlyObserved
    <3>1. \A d \in faults : d.fact \in OnlyObserved
      BY <1>2, <2>4 DEF Watching
    <3> QED BY <2>1, <2>2, <2>4, <3>1
  <2> QED BY <2>3, <2>4 DEF Watching
<1> QED BY <1>5, <1>7, <1>8

-----------------------------------------------------------------------------
(* Every run. *)

\* A run that has reported does nothing more.
LEMMA ReportEnds ==
  ASSUME Shape, ~Running
  PROVE  ~ParityNext
  BY DEF Shape, Placement, ParityNext, ResetBoth, Observe, Act, Pick, StepBoth, Return,
         CompareRollouts

LEMMA ShapeNext ==
  ASSUME Shape, [ParityNext]_parity_vars
  PROVE  Shape'
<1>1. CASE UNCHANGED parity_vars
  BY <1>1 DEF Shape, Placement, Going, Watching, Running, Anomalous, parity_vars
<1> QED BY <1>1, ShapeReset, ShapeObserve, ShapeAct, ShapePick, ShapeStep, ShapeReturn,
           ShapeCompare DEF ParityNext

LEMMA ShapeAlways == ParitySpec => []Shape
  BY ShapeInit, ShapeNext, PTL DEF ParitySpec

-----------------------------------------------------------------------------
(* The clocks, and what a run that returns cannot have missed. *)

LEMMA ShapeTypes ==
  ASSUME Shape
  PROVE  ParityTypeOK
<1> USE DEF Shape
<1>1. /\ max_steps \in Nat /\ LastStep \in Nat /\ LastStep >= 1
      /\ at \in {"reset", "compared", "observe", "act", "step"}
  BY Bounds DEF Placement
<1>2. ASSUME NEW t \in Nat PROVE Max({t, 0}) = t
  <2>1. t >= t /\ t >= 0 /\ (0 >= t => t = 0)
    BY <1>2
  <2> QED BY <2>1 DEF Max
<1>3. Max({-1, 0}) = 0
  <2>1. 0 >= 0 /\ 0 >= -1 /\ ~(-1 >= 0)
    OBVIOUS
  <2>2. \A x \in {-1, 0} : (\A y \in {-1, 0} : x >= y) <=> x = 0
    BY <2>1
  <2> QED BY <2>2 DEF Max
<1>4. CASE at \in {"reset", "compared"}
  <2>1. turn = -1 /\ official.step = 0 /\ fast.step = 0
    BY <1>4, FreshIs DEF Placement
  <2>2. turn \in -1..max_steps /\ turn <= LastStep
    BY <1>1, <2>1
  <2>3. Max({turn, 0}) = 0
    BY <1>3, <2>1
  <2>4. harness # "rollouts" /\ Running => Len(history) = turn + 1
    <3>1. harness # "rollouts" => history = <<>>
      BY <1>4 DEF Placement
    <3> QED BY <2>1, <3>1
  <2> QED BY <2>1, <2>2, <2>3, <2>4 DEF ParityTypeOK
<1>5. CASE at \in {"observe", "act", "step"}
  <2>1. turn \in 0..max_steps /\ turn <= LastStep /\ official.step = turn /\ fast.step = turn
    BY <1>5 DEF Placement
  <2>2. Max({turn, 0}) = turn
    BY <1>1, <1>2, <2>1
  <2>3. turn \in -1..max_steps
    BY <1>1, <2>1
  <2>4. Running => Len(history) = turn + 1
    BY <1>5 DEF Going
  <2> QED BY <2>1, <2>2, <2>3, <2>4 DEF ParityTypeOK
<1> QED BY <1>1, <1>4, <1>5

\* What a report says of itself.
LEMMA Fields ==
  /\ \A phase, seat, path :
        LET r == Diverged(phase, seat, path)
        IN  /\ r.kind = "diverged" /\ r.turn = turn /\ r.phase = phase
            /\ r.seat = seat /\ r.path = path
  /\ \A kind : LET r == Report(kind)
               IN  r.kind = kind /\ r.phase = None
  /\ NoReport.kind = "running"
  BY DEF Diverged, Report, NoReport

\* A run returns from where nothing differed but what no comparison that follows would show.
LEMMA ReturnTells ==
  ASSUME Shape, Return
  PROVE  NothingEscapes'
<1> USE DEF Shape
<1>1. /\ harness \in {"closed_loop", "replay"} /\ Running /\ at \in {"observe", "act"}
      /\ UNCHANGED <<harness, turn, faults>>
  BY DEF Return, Placement
<1>2. ASSUME NEW d \in faults
      PROVE  d.fact \in OnlyObserved /\ (harness = "replay" \/ d.turn = turn - 1)
  <2>1. CASE harness = "replay"
    BY <1>1, <1>2, <2>1 DEF Watching
  <2>2. CASE harness = "closed_loop"
    <3>1. PICK s \in Seats : d = [turn |-> turn - 1, when |-> "step", fact |-> Overage(s)]
      BY <1>1, <1>2, <2>2 DEF Watching
    <3>2. d.fact = Overage(s) /\ d.turn = turn - 1
      BY <3>1
    <3> QED BY <3>2 DEF OnlyObserved, Overage
  <2> QED BY <1>1, <2>1, <2>2
<1> QED BY <1>1, <1>2 DEF NothingEscapes

\* A step after which the game is over: the states are compared once more.
LEMMA LastStepTells ==
  ASSUME Shape, StepBoth
  PROVE  NothingEscapes'
<1> USE DEF Shape
<1>0. PICK o \in Played(official) : \E mirror \in MirrorsOf(o) : StepTo(o, mirror)
  BY DEF StepBoth, StepTo
<1>1. PICK mirror \in MirrorsOf(o) : StepTo(o, mirror)
  BY <1>0
<1>2. /\ Running /\ at = "step" /\ turn' = turn + 1 /\ UNCHANGED harness
  BY DEF StepBoth
<1>3. /\ harness \in {"closed_loop", "replay"} /\ turn \in Nat /\ o \in Engine
      /\ Anomalous(Append(history, o.statuses)) <=> o.statuses = <<"ERROR", "ACTIVE">>
      /\ o.statuses # <<"ERROR", "ACTIVE">> => mirror \in Mirrors(o)
      /\ o.statuses # <<"ACTIVE", "INVALID">>
  BY <1>2, StepTells
<1>4. SUFFICES ASSUME ~Running', report'.kind = "returned", NEW d \in faults'
               PROVE  d.fact \in OnlyObserved /\ (harness' = "replay" \/ d.turn = turn' - 1)
  BY DEF NothingEscapes
<1>5. ~Anomalous(history') /\ StateDiff(o, mirror.engine) = {}
  <2>1. Report("anomaly").kind # "returned"
        /\ Diverged("next_state", None, First(StateDiff(o, mirror.engine))).kind # "returned"
    BY Fields
  <2> QED BY <1>1, <1>4, <2>1 DEF StepTo
<1>6. mirror \in Mirrors(o)
  <2>1. history' = Append(history, o.statuses)
    BY <1>1 DEF StepTo
  <2> QED BY <1>3, <1>5, <2>1 DEF Anomalous
<1>7. mirror.fact \in OnlyObserved \cup {None}
  BY <1>3, <1>5, <1>6, MirrorTells
<1>8. CASE d \in faults
  BY <1>2, <1>3, <1>8 DEF Watching
<1>9. CASE d \notin faults
  <2>1. mirror.fact # None /\ d = [turn |-> turn, when |-> "step", fact |-> mirror.fact]
    BY <1>1, <1>9 DEF StepTo, Fault
  <2>2. d.fact = mirror.fact /\ d.turn = turn' - 1
    BY <1>2, <1>3, <2>1
  <2> QED BY <1>7, <2>1, <2>2
<1> QED BY <1>8, <1>9

\* No other step returns.
LEMMA OthersGoOn ==
  ASSUME Shape, ResetBoth \/ Observe \/ Act \/ Pick \/ CompareRollouts
  PROVE  Running' \/ report'.kind \in {"diverged", "matched"}
<1>1. \A phase, seat, path : Diverged(phase, seat, path).kind = "diverged"
  BY Fields
<1>2. Report("matched").kind = "matched"
  BY Fields
<1>3. CASE ResetBoth
  <2>1. Running
    BY <1>3 DEF ResetBoth, Shape, Placement
  <2>2. report' = report \/ \E phase, seat, path : report' = Diverged(phase, seat, path)
    BY <1>3 DEF ResetBoth
  <2> QED BY <1>1, <2>1, <2>2 DEF Running
<1>4. CASE Observe
  <2>2. report' = report \/ \E phase, seat, path : report' = Diverged(phase, seat, path)
    BY <1>4 DEF Observe
  <2> QED BY <1>1, <1>4, <2>2 DEF Running, Observe
<1>5. CASE Act
  <2>2. report' = report \/ \E phase, seat, path : report' = Diverged(phase, seat, path)
    BY <1>5 DEF Act
  <2> QED BY <1>1, <1>5, <2>2 DEF Running, Act
<1>6. CASE Pick
  BY <1>6 DEF Pick, Running
<1>7. CASE CompareRollouts
  <2>2. report' = Report("matched") \/ \E phase, seat, path : report' = Diverged(phase, seat, path)
    BY <1>7 DEF CompareRollouts
  <2> QED BY <1>1, <1>2, <2>2
<1> QED BY <1>3, <1>4, <1>5, <1>6, <1>7

LEMMA EscapesNext ==
  ASSUME Shape, NothingEscapes, [ParityNext]_parity_vars
  PROVE  NothingEscapes'
<1>1. CASE UNCHANGED parity_vars
  BY <1>1 DEF NothingEscapes, Running, parity_vars
<1>2. CASE ResetBoth \/ Observe \/ Act \/ Pick \/ CompareRollouts
  BY <1>2, OthersGoOn DEF NothingEscapes
<1> QED BY <1>1, <1>2, ReturnTells, LastStepTells DEF ParityNext

\* A comparison keeps to its clocks, and no difference of the two runs that the canonical
\* state holds escapes it: run_closed_loop, run_same_action_replay.
THEOREM ParityHolds == ParitySpec => []ParitySound
<1>1. ParityInit => NothingEscapes
  BY DEF ParityInit, NothingEscapes, Running
<1>2. Shape /\ NothingEscapes /\ [ParityNext]_parity_vars => NothingEscapes'
  BY EscapesNext
<1>3. Shape /\ NothingEscapes => ParitySound
  BY ShapeTypes DEF ParitySound
<1> QED BY <1>1, <1>2, <1>3, ShapeAlways, PTL DEF ParitySpec

-----------------------------------------------------------------------------
(* A divergence that is reported is the first there was. *)

\* The least of some seats is one of them.
LEMMA LeastSeat ==
  ASSUME NEW S \in SUBSET Seats, S # {}
  PROVE  Min(S) \in S
<1>1. \E x \in S : \A y \in S : x =< y
  <2>1. CASE 0 \in S
    BY <2>1 DEF Seats
  <2>2. CASE 0 \notin S
    <3>1. S = {1}
      BY <2>2 DEF Seats
    <3> QED BY <3>1
  <2> QED BY <2>1, <2>2
<1> QED BY <1>1 DEF Min

\* What a reset leaves.
ResetTo(mirror) ==
    /\ fast' = mirror.engine
    /\ faults' = Fault("reset", mirror.fact)
    /\ LET seen == {s \in Seats : harness = "closed_loop"
                                    /\ ObservationDiff(Fresh, mirror.engine, s) # {}}
           state == StateDiff(Fresh, mirror.engine)
       IN  report' =
              IF seen # {}
              THEN Diverged("reset_observation", Min(seen),
                            First(ObservationDiff(Fresh, mirror.engine, Min(seen))))
              ELSE IF state # {}
              THEN Diverged("reset_observation", None, First(state))
              ELSE report

LEMMA ResetReports ==
  ASSUME Shape, ResetBoth
  PROVE  ReportIsFirst'
<1> USE DEF Shape
<1>1. PICK mirror \in Mirrors(Fresh) : ResetTo(mirror)
  BY DEF ResetBoth, ResetTo
<1> DEFINE seen == {s \in Seats : harness = "closed_loop"
                                    /\ ObservationDiff(Fresh, mirror.engine, s) # {}}
           state == StateDiff(Fresh, mirror.engine)
           fault == [turn |-> turn, when |-> "reset", fact |-> mirror.fact]
<1>2. /\ harness \in {"closed_loop", "replay"} /\ UNCHANGED harness /\ report = NoReport
  BY DEF ResetBoth, Placement, Running
<1>3. /\ mirror.fact \in Facts \cup {None}
      /\ state = {} <=> mirror.fact \in OnlyObserved \cup {None}
      /\ \A s \in Seats : ObservationDiff(Fresh, mirror.engine, s) = {}
            <=> mirror.fact \notin {"placed", Shed(s), Overage(s)}
  <2>1. Fresh.statuses # <<"ACTIVE", "INVALID">>
    BY FreshIs DEF Active
  <2> QED BY <2>1, FreshIs, MirrorTells
<1>4. /\ seen \subseteq Seats
      /\ report' = IF seen # {}
              THEN Diverged("reset_observation", Min(seen),
                            First(ObservationDiff(Fresh, mirror.engine, Min(seen))))
              ELSE IF state # {}
              THEN Diverged("reset_observation", None, First(state))
              ELSE report
      /\ faults' = Fault("reset", mirror.fact)
  BY <1>1 DEF ResetTo
<1>5. seen # {} <=> harness = "closed_loop" /\ mirror.fact \notin OnlyInState \cup {None}
  <2>1. Seats = {0, 1}
        /\ Facts = {"placed", Shed(0), Shed(1), Overage(0), Overage(1)} \cup OnlyInState
    BY DEF Seats, Facts, Shed, Overage, OnlyInState
  <2>2. OnlyInState \cap {"placed", Shed(0), Shed(1), Overage(0), Overage(1)} = {}
    BY DEF Shed, Overage, OnlyInState
  <2>3. None \notin Facts
    BY NoneIsNothing
  <2>4. seen # {} <=> /\ harness = "closed_loop"
                      /\ mirror.fact \in {"placed", Shed(0), Shed(1), Overage(0), Overage(1)}
    BY <1>3, <2>1
  <2> QED BY <1>3, <2>1, <2>2, <2>3, <2>4
<1> HIDE DEF seen, state
<1>6. SUFFICES ASSUME ~Running', report'.kind = "diverged"
      PROVE  LET compared == {d \in faults' :
                                 harness' = "closed_loop" \/ d.fact \notin OnlyObserved}
                 first == [phase |-> report'.phase, seat |-> report'.seat]
             IN  \E d \in compared :
               /\ \A other \in compared : other.turn >= d.turn
               /\ d.when = "reset"
               /\ first.phase = "reset_observation"
               /\ (first.seat = None) = (harness' = "replay" \/ d.fact \in OnlyInState)
  BY <1>2 DEF ReportIsFirst
<1>7. seen # {} \/ state # {}
  BY <1>2, <1>4, <1>6 DEF Running
<1>8. mirror.fact # None
  BY <1>3, <1>5, <1>7
<1>9. faults' = {fault}
  BY <1>4, <1>8 DEF Fault
<1>10. harness = "closed_loop" \/ mirror.fact \notin OnlyObserved
  BY <1>2, <1>3, <1>5, <1>7
<1>11. report'.phase = "reset_observation"
       /\ report'.seat = IF seen # {} THEN Min(seen) ELSE None
  BY <1>4, <1>7, Fields
<1>12. report'.seat = None <=> harness = "replay" \/ mirror.fact \in OnlyInState
  <2>1. seen # {} => Min(seen) # None
    BY <1>4, LeastSeat, NoneIsNothing
  <2>2. report'.seat = None <=> seen = {}
    BY <1>11, <2>1
  <2> QED BY <1>2, <1>5, <1>8, <2>2
<1>13. fault.turn >= fault.turn /\ fault.when = "reset" /\ fault.fact = mirror.fact
  BY DEF Placement
<1> HIDE DEF fault
<1> DEFINE compared == {d \in faults' : harness' = "closed_loop" \/ d.fact \notin OnlyObserved}
<1>14. compared = {fault}
  BY <1>2, <1>9, <1>10, <1>13
<1>15. (report'.seat = None) = (harness' = "replay" \/ fault.fact \in OnlyInState)
  BY <1>2, <1>12, <1>13
<1> QED BY <1>11, <1>13, <1>14, <1>15

LEMMA ObserveReports ==
  ASSUME Shape, Observe
  PROVE  ReportIsFirst'
<1> USE DEF Shape
<1> DEFINE seen == {s \in Seats : ObservationDiff(official, fast, s) # {}}
<1>1. /\ harness = "closed_loop" /\ Running /\ at = "observe" /\ turn \in Int
      /\ UNCHANGED <<harness, faults>>
      /\ report' = IF seen = {} THEN report
                   ELSE Diverged("observation", Min(seen),
                                 First(ObservationDiff(official, fast, Min(seen))))
  BY DEF Observe, Placement
<1>2. ASSUME seen # {}
      PROVE  [turn |-> turn - 1, when |-> "step", fact |-> Overage(Min(seen))] \in faults
             /\ Min(seen) \in Seats
  <2>1. Min(seen) \in seen
    BY <1>2, LeastSeat
  <2> DEFINE m == Min(seen)
  <2>2. m \in Seats /\ ObservationDiff(official, fast, m) # {}
    BY <2>1
  <2> HIDE DEF m, seen
  <2>3. official \in Engine /\ fast \in Engine /\ official.step = fast.step
    BY <1>1 DEF Placement
  <2>4. official.placed = fast.placed /\ official.shed0 = fast.shed0 /\ official.shed1 = fast.shed1
    BY <1>1 DEF Watching
  <2>5. official[Shed(m)] = fast[Shed(m)]
    BY <2>4 DEF Shed
  <2>6. official[Overage(m)] # fast[Overage(m)]
    BY <2>2, <2>3, <2>4, <2>5, ObservationDiffTells
  <2>7. [turn |-> turn - 1, when |-> "step", fact |-> Overage(m)] \in faults
    BY <1>1, <2>2, <2>6 DEF Watching
  <2> QED BY <2>2, <2>7 DEF m
<1>3. \A d \in faults : d.turn = turn - 1
  BY <1>1 DEF Watching
<1> HIDE DEF seen
<1>4. SUFFICES ASSUME ~Running', report'.kind = "diverged"
      PROVE  LET first == [phase |-> report'.phase, seat |-> report'.seat]
             IN  \E d \in faults :
               /\ \A other \in faults : other.turn >= d.turn
               /\ d.when = "step" /\ d.fact \in OnlyObserved
               /\ first.phase = "observation" /\ report'.turn = d.turn + 1
               /\ first.seat = IF d.fact = Overage(0) THEN 0 ELSE 1
  <2>1. "step" # "reset" /\ "step" # "act"
    OBVIOUS
  <2>2. \A d : harness' = "closed_loop" \/ d.fact \notin OnlyObserved
    BY <1>1
  <2>3. {d \in faults' : harness' = "closed_loop" \/ d.fact \notin OnlyObserved} = faults
    BY <1>1, <2>2
  <2> QED BY <1>1, <2>1, <2>3 DEF ReportIsFirst
<1>5. seen # {}
  BY <1>1, <1>4 DEF Running
<1> DEFINE d == [turn |-> turn - 1, when |-> "step", fact |-> Overage(Min(seen))]
<1>6. d \in faults /\ Min(seen) \in Seats
  BY <1>2, <1>5
<1>7. report'.phase = "observation" /\ report'.seat = Min(seen) /\ report'.turn = turn
  BY <1>1, <1>5, Fields
<1>8. d.turn = turn - 1 /\ d.when = "step" /\ d.fact = Overage(Min(seen))
  OBVIOUS
<1> HIDE DEF d
<1>9. d.fact \in OnlyObserved /\ Min(seen) = IF d.fact = Overage(0) THEN 0 ELSE 1
  BY <1>6, <1>8 DEF OnlyObserved, Overage, Seats
<1>10. turn = d.turn + 1 /\ \A other \in faults : other.turn >= d.turn
  BY <1>1, <1>3, <1>8
<1> QED BY <1>6, <1>7, <1>8, <1>9, <1>10

LEMMA ActReports ==
  ASSUME Shape, Act
  PROVE  ReportIsFirst'
<1> USE DEF Shape
<1>1. PICK other \in SUBSET Seats :
          /\ faults' = faults \cup {[turn |-> turn, when |-> "act", fact |-> s] : s \in other}
          /\ report' = IF other = {} THEN report ELSE Diverged("action", Min(other), <<>>)
  BY DEF Act
<1>2. /\ harness = "closed_loop" /\ Running /\ at = "act" /\ UNCHANGED harness /\ turn \in Int
      /\ faults = {}
  BY DEF Act, Placement, Watching
<1> DEFINE now == {[turn |-> turn, when |-> "act", fact |-> s] : s \in other}
           compared == {d \in faults' : harness' = "closed_loop" \/ d.fact \notin OnlyObserved}
           acted == {o.fact : o \in {x \in compared : x.when = "act"}}
<1>3. compared = now
  BY <1>1, <1>2
<1>4. acted = other
  <2>1. {x \in now : x.when = "act"} = now
    OBVIOUS
  <2>2. {o.fact : o \in now} = other
    <3>1. \A s \in other : [turn |-> turn, when |-> "act", fact |-> s].fact = s
      OBVIOUS
    <3> QED BY <3>1
  <2> QED BY <1>3, <2>1, <2>2
<1>5. SUFFICES ASSUME ~Running', report'.kind = "diverged"
      PROVE  \E d \in compared :
               /\ \A x \in compared : x.turn >= d.turn
               /\ d.when = "act"
               /\ report'.phase = "action" /\ report'.seat = Min(acted)
  <2>1. "act" # "reset" /\ [phase |-> report'.phase, seat |-> report'.seat].phase = report'.phase
        /\ [phase |-> report'.phase, seat |-> report'.seat].seat = report'.seat
    OBVIOUS
  <2> QED BY <1>2, <2>1 DEF ReportIsFirst
<1>6. other # {}
  BY <1>1, <1>2, <1>5 DEF Running
<1>7. Min(other) \in other
  BY <1>6, LeastSeat
<1>8. report'.phase = "action" /\ report'.seat = Min(other)
  BY <1>1, <1>6, Fields
<1> DEFINE d == [turn |-> turn, when |-> "act", fact |-> Min(other)]
<1>9. d \in compared /\ d.when = "act" /\ d.turn = turn
  BY <1>3, <1>7
<1>10. \A x \in compared : x.turn >= d.turn
  BY <1>2, <1>3, <1>9
<1> QED BY <1>4, <1>8, <1>9, <1>10

LEMMA StepReports ==
  ASSUME Shape, StepBoth
  PROVE  ReportIsFirst'
<1> USE DEF Shape
<1>0. PICK o \in Played(official) : \E mirror \in MirrorsOf(o) : StepTo(o, mirror)
  BY DEF StepBoth, StepTo
<1>1. PICK mirror \in MirrorsOf(o) : StepTo(o, mirror)
  BY <1>0
<1>2. /\ Running /\ at = "step" /\ UNCHANGED harness
  BY DEF StepBoth
<1>3. /\ harness \in {"closed_loop", "replay"} /\ turn \in Nat /\ o \in Engine
      /\ Anomalous(Append(history, o.statuses)) <=> o.statuses = <<"ERROR", "ACTIVE">>
      /\ o.statuses # <<"ERROR", "ACTIVE">> => mirror \in Mirrors(o)
      /\ o.statuses # <<"ACTIVE", "INVALID">>
  BY <1>2, StepTells
<1> DEFINE compared == {d \in faults' : harness' = "closed_loop" \/ d.fact \notin OnlyObserved}
           fault == [turn |-> turn, when |-> "step", fact |-> mirror.fact]
<1>4. SUFFICES ASSUME ~Running', report'.kind = "diverged"
      PROVE  \E d \in compared :
               /\ \A x \in compared : x.turn >= d.turn
               /\ d.when = "step" /\ d.fact \notin OnlyObserved
               /\ report'.phase = "next_state" /\ report'.turn = d.turn
  <2>1. "step" # "reset" /\ "step" # "act"
        /\ [phase |-> report'.phase, seat |-> report'.seat].phase = report'.phase
    OBVIOUS
  <2> QED BY <2>1 DEF ReportIsFirst
<1>5. /\ ~Anomalous(history') /\ StateDiff(o, mirror.engine) # {}
      /\ report'.phase = "next_state" /\ report'.turn = turn
  <2>1. Report("anomaly").kind # "diverged" /\ Report("returned").kind # "diverged"
        /\ NoReport.kind # "diverged"
    BY Fields
  <2>2. ~Anomalous(history') /\ StateDiff(o, mirror.engine) # {}
    BY <1>1, <1>2, <1>4, <2>1 DEF StepTo, Running
  <2>3. report' = Diverged("next_state", None, First(StateDiff(o, mirror.engine)))
    BY <1>1, <2>2 DEF StepTo
  <2> QED BY <2>2, <2>3, Fields
<1>6. mirror \in Mirrors(o)
  <2>1. history' = Append(history, o.statuses)
    BY <1>1 DEF StepTo
  <2> QED BY <1>3, <1>5, <2>1 DEF Anomalous
<1>7. mirror.fact \in Facts /\ mirror.fact \notin OnlyObserved /\ mirror.fact # None
  <2>1. mirror.fact \in Facts \cup {None} /\ mirror.fact \notin OnlyObserved \cup {None}
    BY <1>3, <1>5, <1>6, MirrorTells
  <2> QED BY <2>1
<1>8. faults' = faults \cup {fault}
  BY <1>1, <1>7 DEF StepTo, Fault
<1>9. \A d \in faults : ~(harness' = "closed_loop" \/ d.fact \notin OnlyObserved)
  BY <1>2, <1>3 DEF Watching
<1>10. fault.turn = turn /\ fault.when = "step" /\ fault.fact = mirror.fact
  OBVIOUS
<1> HIDE DEF fault
<1>11. compared = {fault}
  BY <1>7, <1>8, <1>9, <1>10
<1>12. fault.turn >= fault.turn
  BY <1>3, <1>10
<1> QED BY <1>5, <1>7, <1>10, <1>11, <1>12

\* No step but those reports a divergence of the engines.
LEMMA NothingElseReports ==
  ASSUME Shape, Pick \/ Return \/ CompareRollouts
  PROVE  ReportIsFirst'
<1>1. CASE Pick
  BY <1>1 DEF Pick, Running, ReportIsFirst
<1>2. CASE Return
  <2>1. report'.kind = "returned"
    BY <1>2, Fields DEF Return
  <2> QED BY <2>1 DEF ReportIsFirst
<1>3. CASE CompareRollouts
  BY <1>3 DEF CompareRollouts, ReportIsFirst
<1> QED BY <1>1, <1>2, <1>3

LEMMA ReportNext ==
  ASSUME Shape, ReportIsFirst, [ParityNext]_parity_vars
  PROVE  ReportIsFirst'
<1>1. CASE UNCHANGED parity_vars
  BY <1>1 DEF ReportIsFirst, Running, parity_vars
<1> QED BY <1>1, ResetReports, ObserveReports, ActReports, StepReports, NothingElseReports
        DEF ParityNext

\* A reported divergence is real and the first there was, and its seat is one that differs:
\* the wires' aliases, gaps and omissions alone are no difference.
THEOREM ReportHolds == ParitySpec => []ReportIsFirst
<1>1. ParityInit => ReportIsFirst
  BY DEF ParityInit, ReportIsFirst, Running
<1>2. Shape /\ ReportIsFirst /\ [ParityNext]_parity_vars => ReportIsFirst'
  BY ReportNext
<1> QED BY <1>1, <1>2, ShapeAlways, PTL DEF ParitySpec

-----------------------------------------------------------------------------
(* What an evaluation reports. *)

\* A set of naturals that is not empty has a least member.
LEMMA LeastNatural ==
  ASSUME NEW T \in SUBSET Nat, T # {}
  PROVE  \E x \in T : \A y \in T : x <= y
<1> DEFINE R == {ss \in Nat \X Nat : ss[1] < ss[2]}
<1>1. OpToRel(<, Nat) = R
  BY DEF OpToRel
<1>2. IsWellFoundedOn(R, Nat)
  BY <1>1, NatLessThanWellFounded
<1> HIDE DEF R
<1>3. PICK x \in T : \A y \in T : ~(<<y, x>> \in R)
  BY <1>2, WFMin
<1> USE DEF R
<1>4. ASSUME NEW y \in T PROVE x <= y
  <2>1. SUFFICES ASSUME y < x PROVE FALSE
    OBVIOUS
  <2>2. <<y, x>> \in Nat \X Nat /\ <<y, x>>[1] < <<y, x>>[2]
    BY <2>1
  <2> QED BY <2>2, <1>3
<1> QED BY <1>4

LEMMA MinIsLeast ==
  ASSUME NEW T \in SUBSET Nat, T # {}
  PROVE  Min(T) \in T /\ \A y \in T : Min(T) <= y
  BY LeastNatural DEF Min

\* Two logs differ somewhere unless they are the same: neither holds a None.
LEMMA LogsDiffer ==
  ASSUME NEW f, NEW g, IsLog(f), IsLog(g)
  PROVE  Differing(f, g) = {} <=> f = g
<1>1. /\ f = [k \in DOMAIN f |-> f[k]] /\ g = [k \in DOMAIN g |-> g[k]]
      /\ (\A k \in DOMAIN f : f[k] # None) /\ (\A k \in DOMAIN g : g[k] # None)
  BY DEF IsLog
<1>2. ASSUME Differing(f, g) = {} PROVE f = g
  <2>1. \A k \in DOMAIN f \cup DOMAIN g : Get(f, k) = Get(g, k)
    BY <1>2 DEF Differing
  <2>2. \A k \in DOMAIN f : k \in DOMAIN g /\ f[k] = g[k]
    BY <1>1, <2>1 DEF Get
  <2>3. \A k \in DOMAIN g : k \in DOMAIN f
    BY <1>1, <2>1 DEF Get
  <2>4. DOMAIN f = DOMAIN g
    BY <2>2, <2>3
  <2> QED BY <1>1, <2>2, <2>4
<1>3. ASSUME f = g PROVE Differing(f, g) = {}
  BY <1>3 DEF Differing
<1> QED BY <1>2, <1>3

\* The phases of a comparison, in their order.
Phased(p, a, b, common) ==
    /\ DOMAIN p = 1..6
    /\ p[1].phase = "opening_handoff" /\ p[1].keys = Differing(a.opening, b.opening)
    /\ p[2].phase = "manager_inputs" /\ p[2].keys = Differing(a.inputs, b.inputs)
    /\ p[3].phase = "plans" /\ p[3].keys = Differing(a.plans, b.plans)
    /\ p[4].phase = "actions"
    /\ p[4].keys = {k \in Differing(TurnsOf(a), TurnsOf(b)) : k[1] <= common}
    /\ p[5].phase = "length"
    /\ p[5].keys = IF Len(a.joint_actions) = Len(b.joint_actions) THEN {} ELSE {<<common, 0>>}
    /\ p[6].phase = "banks" /\ p[6].keys = IF a.final = b.final THEN {} ELSE {<<0, 0>>}

LEMMA PhasesAre ==
  ASSUME NEW a, NEW b
  PROVE  Phased(Phases(a, b), a, b, Min({Len(a.joint_actions), Len(b.joint_actions)}))
<1> DEFINE common == Min({Len(a.joint_actions), Len(b.joint_actions)})
           p == Phases(a, b)
<1>1. p = <<[phase |-> "opening_handoff", keys |-> Differing(a.opening, b.opening)],
            [phase |-> "manager_inputs", keys |-> Differing(a.inputs, b.inputs)],
            [phase |-> "plans", keys |-> Differing(a.plans, b.plans)],
            [phase |-> "actions",
             keys |-> {k \in Differing(TurnsOf(a), TurnsOf(b)) : k[1] <= common}],
            [phase |-> "length",
             keys |-> IF Len(a.joint_actions) = Len(b.joint_actions) THEN {}
                      ELSE {<<common, 0>>}],
            [phase |-> "banks", keys |-> IF a.final = b.final THEN {} ELSE {<<0, 0>>}]>>
  BY DEF Phases
<1> HIDE DEF p, common
<1>2. DOMAIN p = 1..6
  BY <1>1
<1>3. /\ p[1] = [phase |-> "opening_handoff", keys |-> Differing(a.opening, b.opening)]
      /\ p[2] = [phase |-> "manager_inputs", keys |-> Differing(a.inputs, b.inputs)]
      /\ p[3] = [phase |-> "plans", keys |-> Differing(a.plans, b.plans)]
  BY <1>1
<1>4. p[4] = [phase |-> "actions",
              keys |-> {k \in Differing(TurnsOf(a), TurnsOf(b)) : k[1] <= common}]
  BY <1>1
<1>5. p[5] = [phase |-> "length",
              keys |-> IF Len(a.joint_actions) = Len(b.joint_actions) THEN {}
                       ELSE {<<common, 0>>}]
  BY <1>1
<1>6. p[6] = [phase |-> "banks", keys |-> IF a.final = b.final THEN {} ELSE {<<0, 0>>}]
  BY <1>1
<1>7. Phased(p, a, b, common)
  BY <1>2, <1>3, <1>4, <1>5, <1>6 DEF Phased
<1> QED BY <1>7 DEF p, common

\* The joint actions of a rollout: a pair for every turn, none of them None.
LEMMA JointActions ==
  ASSUME NEW a, IsRollout(a)
  PROVE  /\ a.joint_actions \in Seq({a.joint_actions[t] : t \in DOMAIN a.joint_actions})
         /\ Len(a.joint_actions) \in Nat
         /\ DOMAIN a.joint_actions = 1..Len(a.joint_actions)
         /\ \A t \in 1..Len(a.joint_actions) :
               /\ a.joint_actions[t] = <<a.joint_actions[t][1], a.joint_actions[t][2]>>
               /\ a.joint_actions[t][1] # None /\ a.joint_actions[t][2] # None
<1>1. a.joint_actions \in Seq({a.joint_actions[t] : t \in DOMAIN a.joint_actions})
  BY DEF IsRollout
<1>2. Len(a.joint_actions) \in Nat /\ DOMAIN a.joint_actions = 1..Len(a.joint_actions)
  BY <1>1
<1> QED BY <1>1, <1>2 DEF IsRollout

LEMMA TurnsAre ==
  ASSUME NEW a, IsRollout(a)
  PROVE  /\ DOMAIN TurnsOf(a) = (1..Len(a.joint_actions)) \X {1, 2}
         /\ \A t \in 1..Len(a.joint_actions), s \in {1, 2} :
               TurnsOf(a)[<<t, s>>] = a.joint_actions[t][s]
  BY JointActions DEF TurnsOf

\* The turns both rollouts have, and where they differ.
LEMMA ActionsDiffer ==
  ASSUME NEW a, NEW b, IsRollout(a), IsRollout(b)
  PROVE  LET la == Len(a.joint_actions)
             lb == Len(b.joint_actions)
             common == Min({la, lb})
             keys == {k \in Differing(TurnsOf(a), TurnsOf(b)) : k[1] <= common}
         IN  /\ common \in Nat /\ common <= la /\ common <= lb /\ common \in {la, lb}
             /\ keys \subseteq (1..common) \X {1, 2}
             /\ \A t \in 1..common : a.joint_actions[t] = b.joint_actions[t]
                   <=> <<t, 1>> \notin keys /\ <<t, 2>> \notin keys
<1> DEFINE la == Len(a.joint_actions)
           lb == Len(b.joint_actions)
           common == Min({la, lb})
           keys == {k \in Differing(TurnsOf(a), TurnsOf(b)) : k[1] <= common}
<1>1. la \in Nat /\ lb \in Nat
  BY JointActions
<1>2. common \in {la, lb} /\ common <= la /\ common <= lb
  <2>1. {la, lb} \in SUBSET Nat /\ {la, lb} # {}
    BY <1>1
  <2> HIDE DEF la, lb
  <2> QED BY <2>1, MinIsLeast
<1>3. common \in Nat
  BY <1>1, <1>2
<1> HIDE DEF common
<1>4. /\ DOMAIN TurnsOf(a) = (1..la) \X {1, 2} /\ DOMAIN TurnsOf(b) = (1..lb) \X {1, 2}
      /\ \A t \in 1..la, s \in {1, 2} : TurnsOf(a)[<<t, s>>] = a.joint_actions[t][s]
      /\ \A t \in 1..lb, s \in {1, 2} : TurnsOf(b)[<<t, s>>] = b.joint_actions[t][s]
  BY TurnsAre
<1>5. keys \subseteq (1..common) \X {1, 2}
  <2> SUFFICES ASSUME NEW k \in keys PROVE k \in (1..common) \X {1, 2}
    OBVIOUS
  <2>1. k \in (1..la) \X {1, 2} \/ k \in (1..lb) \X {1, 2}
    BY <1>4 DEF Differing
  <2>2. k = <<k[1], k[2]>> /\ k[2] \in {1, 2} /\ k[1] \in Int /\ 1 <= k[1]
    <3>1. CASE k \in (1..la) \X {1, 2}
      BY <1>1, <3>1
    <3>2. CASE k \in (1..lb) \X {1, 2}
      BY <1>1, <3>2
    <3> QED BY <2>1, <3>1, <3>2
  <2>3. k[1] <= common
    OBVIOUS
  <2>4. k[1] \in 1..common
    BY <1>3, <2>2, <2>3
  <2> QED BY <2>2, <2>4
<1>6. ASSUME NEW t \in 1..common, NEW s \in {1, 2}
      PROVE  <<t, s>> \in keys <=> a.joint_actions[t][s] # b.joint_actions[t][s]
  <2>1. t \in 1..la /\ t \in 1..lb /\ t <= common
    BY <1>1, <1>2, <1>3
  <2>2. <<t, s>> \in DOMAIN TurnsOf(a) /\ <<t, s>> \in DOMAIN TurnsOf(b) /\ <<t, s>>[1] <= common
    BY <1>4, <2>1
  <2>3. Get(TurnsOf(a), <<t, s>>) = a.joint_actions[t][s]
        /\ Get(TurnsOf(b), <<t, s>>) = b.joint_actions[t][s]
    BY <1>4, <2>1, <2>2 DEF Get
  <2> QED BY <2>2, <2>3 DEF Differing
<1> HIDE DEF keys
<1>7. ASSUME NEW t \in 1..common
      PROVE  a.joint_actions[t] = b.joint_actions[t]
                <=> <<t, 1>> \notin keys /\ <<t, 2>> \notin keys
  <2>1. t \in 1..la /\ t \in 1..lb
    BY <1>1, <1>2, <1>3
  <2>2. a.joint_actions[t] = <<a.joint_actions[t][1], a.joint_actions[t][2]>>
        /\ b.joint_actions[t] = <<b.joint_actions[t][1], b.joint_actions[t][2]>>
    BY <2>1, JointActions
  <2>3. <<t, 1>> \in keys <=> a.joint_actions[t][1] # b.joint_actions[t][1]
    BY <1>6
  <2>4. <<t, 2>> \in keys <=> a.joint_actions[t][2] # b.joint_actions[t][2]
    BY <1>6
  <2> QED BY <2>2, <2>3, <2>4
<1> QED BY <1>2, <1>3, <1>5, <1>7 DEF common, keys

\* The earliest of the keys of turns: no key is of an earlier turn.
LEMMA EarliestTurn ==
  ASSUME NEW n \in Nat, NEW keys \in SUBSET ((1..n) \X {1, 2}), keys # {}
  PROVE  LET e == Earliest(keys)
         IN  e \in keys /\ \A j \in keys : e[1] <= j[1]
<1>1. \A k \in keys : k[1] \in 1..n /\ k[2] \in {1, 2} /\ k = <<k[1], k[2]>>
  OBVIOUS
<1> DEFINE T == {2 * k[1] + k[2] : k \in keys}
<1>2. T \in SUBSET Nat /\ T # {}
  BY <1>1
<1>3. PICK x \in T : \A y \in T : x <= y
  BY <1>2, LeastNatural
<1>4. PICK k \in keys : x = 2 * k[1] + k[2]
  BY <1>3
<1>5. ASSUME NEW j \in keys PROVE k[1] < j[1] \/ (k[1] = j[1] /\ k[2] <= j[2])
  <2>1. 2 * k[1] + k[2] <= 2 * j[1] + j[2]
    BY <1>3, <1>4
  <2>2. k[1] \in Int /\ j[1] \in Int /\ k[2] \in {1, 2} /\ j[2] \in {1, 2}
    BY <1>1
  <2> QED BY <2>1, <2>2
<1>6. \E e \in keys : \A j \in keys : e[1] < j[1] \/ (e[1] = j[1] /\ e[2] <= j[2])
  BY <1>5
<1> DEFINE e == Earliest(keys)
<1>7. e \in keys /\ \A j \in keys : e[1] < j[1] \/ (e[1] = j[1] /\ e[2] <= j[2])
  BY <1>6 DEF Earliest
<1> HIDE DEF e
<1>8. \A j \in keys : e[1] <= j[1]
  <2> TAKE j \in keys
  <2>1. e[1] \in Int /\ j[1] \in Int
    BY <1>1, <1>7
  <2> QED BY <1>7, <2>1
<1> QED BY <1>7, <1>8 DEF e

\* Turns that agree are sequences that agree.
LEMMA SameTurns ==
  ASSUME NEW f, NEW g, NEW S, NEW U, f \in Seq(S), g \in Seq(U), NEW n \in Nat,
         n <= Len(f), n <= Len(g), \A t \in 1..n : f[t] = g[t]
  PROVE  SubSeq(f, 1, n) = SubSeq(g, 1, n)
<1>1. Len(f) \in Nat /\ Len(g) \in Nat /\ DOMAIN f = 1..Len(f) /\ DOMAIN g = 1..Len(g)
  OBVIOUS
<1>2. \A t \in 1..n : f[t] \in S /\ g[t] \in U
  BY <1>1
<1>3. /\ SubSeq(f, 1, n) \in Seq(S) /\ Len(SubSeq(f, 1, n)) = n
      /\ \A t \in 1..n : SubSeq(f, 1, n)[t] = f[t]
  <2>1. n - 1 + 1 = n /\ (1 <= n \/ n = 0)
    OBVIOUS
  <2>2. \A t \in 1..n : 1 + t - 1 = t
    OBVIOUS
  <2> QED BY <1>2, <2>1, <2>2, SubSeqProperties
<1>4. /\ SubSeq(g, 1, n) \in Seq(U) /\ Len(SubSeq(g, 1, n)) = n
      /\ \A t \in 1..n : SubSeq(g, 1, n)[t] = g[t]
  <2>1. n - 1 + 1 = n /\ (1 <= n \/ n = 0)
    OBVIOUS
  <2>2. \A t \in 1..n : 1 + t - 1 = t
    OBVIOUS
  <2> QED BY <1>2, <2>1, <2>2, SubSeqProperties
<1> QED BY <1>3, <1>4

\* What a comparison of a and b says, given the report it made: MatchedMeansSame of the two.
Says(a, b, kind, phase, path) ==
    /\ (kind = "matched") = (a = b)
    /\ phase \in {"manager_inputs", "plans", "actions", "length", "banks"} =>
          a.opening = b.opening
    /\ phase \in {"plans", "actions", "length", "banks"} => a.inputs = b.inputs
    /\ phase \in {"actions", "length", "banks"} => a.plans = b.plans
    /\ phase = "actions" =>
          SubSeq(a.joint_actions, 1, path[1] - 1) = SubSeq(b.joint_actions, 1, path[1] - 1)

LEMMA IsTuple ==
  ASSUME NEW S, NEW f \in Seq(S)
  PROVE  f = [t \in 1..Len(f) |-> f[t]]
  OBVIOUS

\* Rollouts of which no phase differs are the same.
LEMMA NoneDiffers ==
  ASSUME NEW a, NEW b, IsRollout(a), IsRollout(b)
  PROVE  {i \in DOMAIN Phases(a, b) : Phases(a, b)[i].keys # {}} = {} <=> a = b
<1> DEFINE p == Phases(a, b)
           la == Len(a.joint_actions)
           lb == Len(b.joint_actions)
           common == Min({la, lb})
<1>1. /\ DOMAIN p = 1..6
      /\ p[1].keys = Differing(a.opening, b.opening)
      /\ p[2].keys = Differing(a.inputs, b.inputs)
      /\ p[3].keys = Differing(a.plans, b.plans)
      /\ p[4].keys = {k \in Differing(TurnsOf(a), TurnsOf(b)) : k[1] <= common}
      /\ p[5].keys = IF la = lb THEN {} ELSE {<<common, 0>>}
      /\ p[6].keys = IF a.final = b.final THEN {} ELSE {<<0, 0>>}
  <2>1. Phased(p, a, b, common)
    BY PhasesAre
  <2> HIDE DEF p, common
  <2> QED BY <2>1 DEF Phased
<1> HIDE DEF p
<1>2. /\ IsLog(a.opening) /\ IsLog(a.inputs) /\ IsLog(a.plans)
      /\ IsLog(b.opening) /\ IsLog(b.inputs) /\ IsLog(b.plans)
      /\ a = [opening |-> a.opening, inputs |-> a.inputs, plans |-> a.plans,
              joint_actions |-> a.joint_actions, final |-> a.final]
      /\ b = [opening |-> b.opening, inputs |-> b.inputs, plans |-> b.plans,
              joint_actions |-> b.joint_actions, final |-> b.final]
  BY DEF IsRollout
<1>3. /\ p[1].keys = {} <=> a.opening = b.opening
      /\ p[2].keys = {} <=> a.inputs = b.inputs
      /\ p[3].keys = {} <=> a.plans = b.plans
      /\ p[5].keys = {} <=> la = lb
      /\ p[6].keys = {} <=> a.final = b.final
  <2>1. /\ Differing(a.opening, b.opening) = {} <=> a.opening = b.opening
        /\ Differing(a.inputs, b.inputs) = {} <=> a.inputs = b.inputs
        /\ Differing(a.plans, b.plans) = {} <=> a.plans = b.plans
    BY <1>2, LogsDiffer
  <2>2. {<<common, 0>>} # {} /\ {<<0, 0>>} # {}
    OBVIOUS
  <2> HIDE DEF la, lb, common
  <2> QED BY <1>1, <2>1, <2>2
<1>4. la = lb => (p[4].keys = {} <=> a.joint_actions = b.joint_actions)
  <2> SUFFICES ASSUME la = lb PROVE p[4].keys = {} <=> a.joint_actions = b.joint_actions
    OBVIOUS
  <2>1. /\ common \in {la, lb}
        /\ p[4].keys \subseteq (1..common) \X {1, 2}
        /\ \A t \in 1..common : a.joint_actions[t] = b.joint_actions[t]
              <=> <<t, 1>> \notin p[4].keys /\ <<t, 2>> \notin p[4].keys
    BY <1>1, ActionsDiffer
  <2> HIDE DEF common
  <2> DEFINE keys == p[4].keys
  <2> HIDE DEF keys
  <2>2. keys \subseteq (1..la) \X {1, 2}
        /\ \A t \in 1..la : a.joint_actions[t] = b.joint_actions[t]
              <=> <<t, 1>> \notin keys /\ <<t, 2>> \notin keys
    BY <2>1 DEF keys
  <2>3. ASSUME NEW k \in keys PROVE \E t \in 1..la : k = <<t, 1>> \/ k = <<t, 2>>
    <3>1. k \in (1..la) \X {1, 2}
      BY <2>2
    <3>2. k[1] \in 1..la /\ k[2] \in {1, 2} /\ k = <<k[1], k[2]>>
      BY <3>1
    <3> QED BY <3>2
  <2>4. keys = {} <=> \A t \in 1..la : a.joint_actions[t] = b.joint_actions[t]
    BY <2>2, <2>3
  <2>5. p[4].keys = {} <=> \A t \in 1..la : a.joint_actions[t] = b.joint_actions[t]
    BY <2>4 DEF keys
  <2>6. (\A t \in 1..la : a.joint_actions[t] = b.joint_actions[t])
           <=> a.joint_actions = b.joint_actions
    <3>1. /\ a.joint_actions \in Seq({a.joint_actions[t] : t \in DOMAIN a.joint_actions})
          /\ b.joint_actions \in Seq({b.joint_actions[t] : t \in DOMAIN b.joint_actions})
      BY JointActions
    <3>2. a.joint_actions = [t \in 1..la |-> a.joint_actions[t]]
      BY <3>1, IsTuple
    <3>3. b.joint_actions = [t \in 1..lb |-> b.joint_actions[t]]
      BY <3>1, IsTuple
    <3> QED BY <3>2, <3>3
  <2> QED BY <2>5, <2>6
<1>5. {i \in DOMAIN p : p[i].keys # {}} = {} <=> \A i \in 1..6 : p[i].keys = {}
  BY <1>1
<1>6. (\A i \in 1..6 : p[i].keys = {}) <=>
         p[1].keys = {} /\ p[2].keys = {} /\ p[3].keys = {}
         /\ p[4].keys = {} /\ p[5].keys = {} /\ p[6].keys = {}
  OBVIOUS
<1>7. a = b <=> /\ a.opening = b.opening /\ a.inputs = b.inputs /\ a.plans = b.plans
                /\ a.joint_actions = b.joint_actions /\ a.final = b.final
  BY <1>2
<1>8. a.joint_actions = b.joint_actions => la = lb
  OBVIOUS
<1> HIDE DEF la, lb
<1> QED BY <1>3, <1>4, <1>5, <1>6, <1>7, <1>8 DEF p

\* The phase that is named comes after those that do not differ.
LEMMA FirstPhase ==
  ASSUME NEW a, NEW b, IsRollout(a), IsRollout(b), NEW m \in DOMAIN Phases(a, b),
         Phases(a, b)[m].keys # {},
         \A i \in DOMAIN Phases(a, b) : Phases(a, b)[i].keys # {} => m <= i
  PROVE  Says(a, b, "diverged", Phases(a, b)[m].phase, Earliest(Phases(a, b)[m].keys))
<1> DEFINE p == Phases(a, b)
           common == Min({Len(a.joint_actions), Len(b.joint_actions)})
<1>1. /\ DOMAIN p = 1..6
      /\ p[1].keys = Differing(a.opening, b.opening) /\ p[1].phase = "opening_handoff"
      /\ p[2].keys = Differing(a.inputs, b.inputs) /\ p[2].phase = "manager_inputs"
      /\ p[3].keys = Differing(a.plans, b.plans) /\ p[3].phase = "plans"
      /\ p[4].keys = {k \in Differing(TurnsOf(a), TurnsOf(b)) : k[1] <= common}
      /\ p[4].phase = "actions" /\ p[5].phase = "length" /\ p[6].phase = "banks"
  <2>1. Phased(p, a, b, common)
    BY PhasesAre
  <2> HIDE DEF p, common
  <2> QED BY <2>1 DEF Phased
<1>2. a # b
  <2>1. m \in {i \in DOMAIN Phases(a, b) : Phases(a, b)[i].keys # {}}
    OBVIOUS
  <2> QED BY <2>1, NoneDiffers
<1> HIDE DEF p
<1>3. m \in 1..6 /\ p[m].keys # {} /\ \A i \in 1..6 : p[i].keys # {} => m <= i
  BY <1>1 DEF p
<1>4. /\ m > 1 => a.opening = b.opening
      /\ m > 2 => a.inputs = b.inputs
      /\ m > 3 => a.plans = b.plans
  <2>1. (m > 1 => p[1].keys = {}) /\ (m > 2 => p[2].keys = {}) /\ (m > 3 => p[3].keys = {})
    BY <1>3
  <2>2. /\ IsLog(a.opening) /\ IsLog(a.inputs) /\ IsLog(a.plans)
        /\ IsLog(b.opening) /\ IsLog(b.inputs) /\ IsLog(b.plans)
    BY DEF IsRollout
  <2> QED BY <1>1, <2>1, <2>2, LogsDiffer
<1>5. /\ p[m].phase \in {"manager_inputs", "plans", "actions", "length", "banks"} => m > 1
      /\ p[m].phase \in {"plans", "actions", "length", "banks"} => m > 2
      /\ p[m].phase \in {"actions", "length", "banks"} => m > 3
      /\ p[m].phase = "actions" => m = 4
  <2>1. m = 1 \/ m = 2 \/ m = 3 \/ m = 4 \/ m = 5 \/ m = 6
    BY <1>3
  <2> QED BY <1>1, <2>1
<1>6. ASSUME m = 4
      PROVE  LET e == Earliest(p[m].keys)
             IN  SubSeq(a.joint_actions, 1, e[1] - 1) = SubSeq(b.joint_actions, 1, e[1] - 1)
  <2> DEFINE keys == p[4].keys
             e == Earliest(keys)
  <2>1. /\ common \in Nat /\ common <= Len(a.joint_actions) /\ common <= Len(b.joint_actions)
        /\ keys \subseteq (1..common) \X {1, 2}
        /\ \A t \in 1..common : a.joint_actions[t] = b.joint_actions[t]
              <=> <<t, 1>> \notin keys /\ <<t, 2>> \notin keys
    BY <1>1, ActionsDiffer
  <2> HIDE DEF common, keys
  <2>2. keys \in SUBSET ((1..common) \X {1, 2}) /\ keys # {}
    BY <1>3, <1>6, <2>1 DEF keys
  <2>3. e \in keys /\ \A j \in keys : e[1] <= j[1]
    BY <2>1, <2>2, EarliestTurn
  <2> HIDE DEF e
  <2>4. e[1] \in 1..common
    BY <2>2, <2>3
  <2>5. ASSUME NEW t \in 1..(e[1] - 1) PROVE a.joint_actions[t] = b.joint_actions[t]
    <3>1. t \in 1..common /\ ~(e[1] <= t)
      BY <2>1, <2>4
    <3>2. <<t, 1>>[1] = t /\ <<t, 2>>[1] = t
      OBVIOUS
    <3>3. <<t, 1>> \notin keys /\ <<t, 2>> \notin keys
      BY <2>3, <3>1, <3>2
    <3> QED BY <2>1, <3>1, <3>3
  <2>6. e[1] - 1 \in Nat /\ e[1] - 1 <= Len(a.joint_actions) /\ e[1] - 1 <= Len(b.joint_actions)
    <3>1. Len(a.joint_actions) \in Nat /\ Len(b.joint_actions) \in Nat
      BY JointActions
    <3> QED BY <2>1, <2>4, <3>1
  <2>7. SubSeq(a.joint_actions, 1, e[1] - 1) = SubSeq(b.joint_actions, 1, e[1] - 1)
    <3>1. /\ a.joint_actions \in Seq({a.joint_actions[t] : t \in DOMAIN a.joint_actions})
          /\ b.joint_actions \in Seq({b.joint_actions[t] : t \in DOMAIN b.joint_actions})
      BY JointActions
    <3> QED BY <2>5, <2>6, <3>1, SameTurns
  <2> QED BY <1>6, <2>7 DEF e, keys
<1>7. ("diverged" = "matched") = (a = b)
  BY <1>2
<1> QED BY <1>4, <1>5, <1>6, <1>7 DEF p, Says

LEMMA CompareTells ==
  ASSUME Shape, CompareRollouts
  PROVE  MatchedMeansSame'
<1>1. PICK pair \in Recordings :
          LET phases == Phases(pair.a, pair.b)
              differ == {i \in DOMAIN phases : phases[i].keys # {}}
          IN  /\ actions' = [o |-> pair.a, f |-> pair.b]
              /\ report' = IF differ = {} THEN Report("matched")
                            ELSE Diverged(phases[Min(differ)].phase, None,
                                          Earliest(phases[Min(differ)].keys))
  BY DEF CompareRollouts
<1> DEFINE a == pair.a
           b == pair.b
           phases == Phases(a, b)
           differ == {i \in DOMAIN phases : phases[i].keys # {}}
<1>2. IsRollout(a) /\ IsRollout(b)
  BY ParityAssumption
<1>3. actions'.o = a /\ actions'.f = b
  BY <1>1
<1>4. report' = IF differ = {} THEN Report("matched")
                ELSE Diverged(phases[Min(differ)].phase, None, Earliest(phases[Min(differ)].keys))
  BY <1>1
<1>5. differ = {} <=> a = b
  BY <1>2, NoneDiffers
<1>6. DOMAIN phases = 1..6
  <2>1. Phased(phases, a, b, Min({Len(a.joint_actions), Len(b.joint_actions)}))
    BY PhasesAre
  <2> HIDE DEF phases
  <2> QED BY <2>1 DEF Phased
<1> HIDE DEF a, b
<1>7. Says(a, b, report'.kind, report'.phase, report'.path)
  <2>1. CASE differ = {}
    <3>1. report'.kind = "matched" /\ report'.phase = None
      BY <1>4, <2>1, Fields
    <3>2. a = b
      BY <1>5, <2>1
    <3>3. None # "actions"
      BY NoneAssumption
    <3> QED BY <3>1, <3>2, <3>3 DEF Says
  <2>2. CASE differ # {}
    <3>1. differ \in SUBSET Nat
      BY <1>6
    <3> DEFINE m == Min(differ)
    <3>2. m \in differ /\ \A i \in differ : m <= i
      BY <2>2, <3>1, MinIsLeast
    <3>3. report' = Diverged(phases[m].phase, None, Earliest(phases[m].keys))
      BY <1>4, <2>2
    <3> HIDE DEF m
    <3>4. m \in DOMAIN phases /\ phases[m].keys # {}
          /\ \A i \in DOMAIN phases : phases[i].keys # {} => m <= i
      BY <3>2
    <3>5. Says(a, b, "diverged", phases[m].phase, Earliest(phases[m].keys))
      BY <1>2, <3>4, FirstPhase
    <3>6. report'.kind = "diverged" /\ report'.phase = phases[m].phase
          /\ report'.path = Earliest(phases[m].keys)
      BY <3>3, Fields
    <3> QED BY <3>5, <3>6
  <2> QED BY <2>1, <2>2
<1> QED BY <1>3, <1>7 DEF MatchedMeansSame, Says

\* A run that goes on or reports a divergence has seen no anomaly, one that steps names it.
LEMMA StepNames ==
  ASSUME Shape, StepBoth
  PROVE  AnomaliesAreNamed'
<1>0. PICK o \in Played(official) : \E mirror \in MirrorsOf(o) : StepTo(o, mirror)
  BY DEF StepBoth, StepTo
<1>1. PICK mirror \in MirrorsOf(o) : StepTo(o, mirror)
  BY <1>0
<1>2. SUFFICES ASSUME ~Running' PROVE (report'.kind = "anomaly") = Anomalous(history')
  BY DEF AnomaliesAreNamed, Anomalous
<1>3. CASE Anomalous(history')
  <2>1. report'.kind = "anomaly"
    BY <1>1, <1>3, Fields DEF StepTo
  <2> QED BY <1>3, <2>1 DEF Anomalous
<1>4. CASE ~Anomalous(history')
  <2>1. \/ report' = Diverged("next_state", None, First(StateDiff(o, mirror.engine)))
        \/ report' = Report("returned") \/ report' = report
    BY <1>1, <1>4 DEF StepTo
  <2>2. report = NoReport
    BY DEF StepBoth, Running
  <2>3. report'.kind # "anomaly"
    BY <2>1, <2>2, Fields
  <2> QED BY <1>4, <2>3 DEF Anomalous
<1> QED BY <1>3, <1>4

LEMMA OthersName ==
  ASSUME Shape, ResetBoth \/ Observe \/ Act \/ Pick \/ Return \/ CompareRollouts
  PROVE  AnomaliesAreNamed'
<1> SUFFICES ASSUME harness' # "rollouts", ~Running'
             PROVE  (report'.kind = "anomaly") = Anomalous(history')
  BY DEF AnomaliesAreNamed, Anomalous
<1>1. report'.kind # "anomaly"
  <2>1. CASE Return
    <3>1. report'.kind = "returned"
      BY <2>1, Fields DEF Return
    <3> QED BY <3>1
  <2>2. CASE ResetBoth \/ Observe \/ Act \/ Pick \/ CompareRollouts
    BY <2>2, OthersGoOn
  <2> QED BY <2>1, <2>2
<1>2. ~Anomalous(history')
  <2>1. CASE ResetBoth
    BY <2>1, FreshIs, FreshHistory DEF ResetBoth
  <2>2. CASE Observe \/ Act \/ Pick \/ Return
    <3>1. Running /\ at \in {"observe", "act", "step"} /\ history' = history
      BY <2>2 DEF Observe, Act, Pick, Return, Shape, Placement
    <3>2. ~Anomalous(history)
      BY <3>1 DEF Shape, Going
    <3> QED BY <3>1, <3>2 DEF Anomalous
  <2>3. CASE CompareRollouts
    BY <2>3 DEF CompareRollouts
  <2> QED BY <2>1, <2>2, <2>3
<1> QED BY <1>1, <1>2 DEF Anomalous

LEMMA EvaluationNext ==
  ASSUME Shape, EvaluationSound, [ParityNext]_parity_vars
  PROVE  EvaluationSound'
<1>1. CASE UNCHANGED parity_vars
  BY <1>1 DEF EvaluationSound, AnomaliesAreNamed, MatchedMeansSame, Running, parity_vars
<1>2. ASSUME ParityNext PROVE AnomaliesAreNamed'
  BY <1>2, StepNames, OthersName DEF ParityNext
<1>3. ASSUME ParityNext PROVE MatchedMeansSame'
  <2>1. CASE CompareRollouts
    BY <2>1, CompareTells
  <2>2. CASE ~CompareRollouts
    <3>1. harness' # "rollouts"
      BY <1>3, <2>2 DEF ParityNext, ResetBoth, Observe, Act, Pick, StepBoth, Return,
                        Shape, Placement
    <3> QED BY <3>1 DEF MatchedMeansSame
  <2> QED BY <2>1, <2>2
<1> QED BY <1>1, <1>2, <1>3 DEF EvaluationSound

\* What an evaluation reports: an anomaly of the official engine is named and no other run is
\* called one, and two recordings match exactly if they are the same.
THEOREM EvaluationHolds == ParitySpec => []EvaluationSound
<1>1. ParityInit => EvaluationSound
  BY DEF ParityInit, EvaluationSound, AnomaliesAreNamed, MatchedMeansSame, Running
<1>2. Shape /\ EvaluationSound /\ [ParityNext]_parity_vars => EvaluationSound'
  BY EvaluationNext
<1> QED BY <1>1, <1>2, ShapeAlways, PTL DEF ParitySpec
=============================================================================
