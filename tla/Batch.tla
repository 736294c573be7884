------------------------------- MODULE Batch --------------------------------
(***************************************************************************)
(* The engine's batch interface (RustBatchEnv in lib.rs): a row of games   *)
(* that are stepped together, restarted one by one, copied into a bank of  *)
(* snapshots and restored from it.  A game is a deterministic function of  *)
(* its seed and of the turns played, so it is represented by those two;    *)
(* what a turn does is module Farm's and module Market's subject.          *)
(***************************************************************************)
EXTENDS Naturals, Integers, Sequences, FiniteSets

CONSTANTS
    NumEnvs,          \* num_envs
    Seeds,
    Turns,            \* what both players of a game submit in one turn
    EpisodeSteps,     \* episode_steps
    ArgBound,         \* bound: environments named in one call
    BankBound         \* bound: snapshots taken between two clear_bank calls

ASSUME BatchAssumption ==
    /\ NumEnvs \in Nat \ {0}           \* "num_envs must be positive"
    /\ 0 .. NumEnvs - 1 \subseteq Seeds
    /\ EpisodeSteps \in Nat
    /\ ArgBound \in Nat
    /\ BankBound \in Nat

Envs == 0 .. NumEnvs - 1
Game == [seed : Seeds, turns : Seq(Turns)]

VARIABLES
    states,      \* the live games
    bank,        \* the snapshots, a snapshot's id being its place from 0
    handles,     \* history: the ids callers were given and still may use,
                 \* each with the game it was taken of
    verdict      \* history: the last call's result and whom it named

vars == <<states, bank, handles, verdict>>

NewGame(seed) == [seed |-> seed, turns |-> <<>>]

\* state.done is set when step + 1 reaches episode_steps after a turn.
Done(game) == game.turns # <<>> /\ Len(game.turns) + 1 >= EpisodeSteps

TurnPlayedOn(game, turn) == [game EXCEPT !.turns = Append(@, turn)]   \* seeded bug

TurnPlayed(game, turn) ==
    IF Done(game) THEN game
    ELSE [game EXCEPT !.turns = Append(@, turn)]

Ok(envs) == [ok |-> TRUE, named |-> envs]
Rejected == [ok |-> FALSE, named |-> {}]

\* RustBatchEnv::new seeds the games with their own numbers.
Init ==
    /\ states = [e \in Envs |-> NewGame(e)]
    /\ bank = <<>>
    /\ handles = {}
    /\ verdict = Ok(Envs)

-----------------------------------------------------------------------------
(* Arguments of a call, legal or not. *)

ShortSeq(S) == UNION {[1 .. n -> S] : n \in 0 .. ArgBound}

Indices == ShortSeq(-1 .. NumEnvs)

Named(f) == {f[x] : x \in DOMAIN f}
InRangeOffByOne(indices) == Named(indices) \subseteq 0 .. NumEnvs   \* seeded bug
InRange(indices) == Named(indices) \subseteq Envs
AllDifferent(indices) ==
    \A i, j \in DOMAIN indices : indices[i] = indices[j] => i = j
PlaceOf(indices, e) == CHOOSE i \in DOMAIN indices : indices[i] = e

Refuse ==
    /\ verdict' = Rejected
    /\ UNCHANGED <<states, bank, handles>>

\* The live games after the named ones were overwritten, all of them at once:
\* the arguments were validated before.
Overwrite(indices, games) ==
    [e \in Envs |->
        IF e \in Named(indices) THEN games[PlaceOf(indices, e)] ELSE states[e]]

-----------------------------------------------------------------------------
(* The calls. *)

Reset(seeds) ==
    IF Len(seeds) = NumEnvs
    THEN /\ states' = [e \in Envs |-> NewGame(seeds[e + 1])]
         /\ verdict' = Ok(Envs)
         /\ UNCHANGED <<bank, handles>>
    ELSE Refuse

ResetAtLegal(indices, seeds) ==
    /\ Len(indices) = Len(seeds)
    /\ InRange(indices) /\ AllDifferent(indices)

\* Seeded bug: games are reset while the indices are still being validated.
ResetAtInPlace(indices, seeds) ==
    IF Len(indices) = Len(seeds)
    THEN /\ states' = Overwrite(indices,
                          [i \in DOMAIN seeds |-> NewGame(seeds[i])])
         /\ verdict' = IF ResetAtLegal(indices, seeds)
                       THEN Ok(Named(indices)) ELSE Rejected
         /\ UNCHANGED <<bank, handles>>
    ELSE Refuse

ResetAt(indices, seeds) ==
    IF ResetAtLegal(indices, seeds)
    THEN /\ states' = Overwrite(indices,
                          [i \in DOMAIN seeds |-> NewGame(seeds[i])])
         /\ verdict' = Ok(Named(indices))
         /\ UNCHANGED <<bank, handles>>
    ELSE Refuse

\* capture_states walks through the indices and stops at their end or before
\* the first it refuses.
Walked(indices, n) ==
    /\ \A i \in 1 .. n : indices[i] \in Envs
    /\ n < Len(indices) => indices[n + 1] \notin Envs

SnapshotsReversed(indices, n) == [i \in 1 .. n |-> states[indices[n + 1 - i]]]   \* seeded bug
Snapshots(indices, n) == [i \in 1 .. n |-> states[indices[i]]]

\* It clones on its way: what was cloned before a refused index stays in the
\* bank, and no id of it is returned.
CaptureStates(indices) ==
    \E n \in 0 .. Len(indices) :
        /\ Walked(indices, n)
        /\ Len(bank) + n <= BankBound
        /\ bank' = bank \o Snapshots(indices, n)
        /\ IF n = Len(indices)
           THEN /\ handles' = handles \cup
                     {[id |-> Len(bank) + i - 1, game |-> states[indices[i]]]
                         : i \in 1 .. n}
                /\ verdict' = Ok({})
           ELSE verdict' = Rejected /\ UNCHANGED handles
        /\ UNCHANGED states

RestoreLegal(indices, bank_ids) ==
    /\ Len(indices) = Len(bank_ids)
    /\ InRange(indices) /\ AllDifferent(indices)
    /\ \A i \in DOMAIN bank_ids : bank_ids[i] < Len(bank)

RestoreStates(indices, bank_ids) ==
    IF RestoreLegal(indices, bank_ids)
    THEN /\ states' = Overwrite(indices,
                          [i \in DOMAIN bank_ids |-> bank[bank_ids[i] + 1]])
         /\ verdict' = Ok(Named(indices))
         /\ UNCHANGED <<bank, handles>>
    ELSE Refuse

\* The ids start again from 0; nothing tells the holders of the old ones.
ClearBank ==
    /\ bank' = <<>>
    /\ handles' = {}
    /\ verdict' = Ok({})
    /\ UNCHANGED states

\* step, step_transition, step_into: every game that is not over advances.
StepAll(turns) ==
    /\ states' = [e \in Envs |-> TurnPlayed(states[e], turns[e])]
    /\ verdict' = Ok(Envs)
    /\ UNCHANGED <<bank, handles>>

\* The same calls with arrays of a wrong shape.
StepRefused == Refuse

BankIds == ShortSeq(0 .. BankBound)
SeedLists == ShortSeq(Seeds)

Next ==
    \/ \E seeds \in SeedLists : Reset(seeds)
    \/ \E indices \in Indices, seeds \in SeedLists : ResetAt(indices, seeds)
    \/ \E indices \in Indices : CaptureStates(indices)
    \/ \E indices \in Indices, bank_ids \in BankIds :
          RestoreStates(indices, bank_ids)
    \/ ClearBank
    \/ \E turns \in [Envs -> Turns] : StepAll(turns)
    \/ StepRefused

Spec == Init /\ [][Next]_vars

-----------------------------------------------------------------------------
(* Properties *)

TypeOK ==
    /\ states \in [Envs -> Game]
    /\ bank \in Seq(Game)
    /\ handles \subseteq [id : Nat, game : Game]
    /\ verdict \in [ok : BOOLEAN, named : SUBSET Envs]

\* An id that capture_states returned names, until the bank is cleared, the
\* game that was captured: not one played on since, not a snapshot left by a
\* call that failed halfway, and never nothing.
HandlesFaithful ==
    \A h \in handles : h.id < Len(bank) /\ bank[h.id + 1] = h.game

\* A call touches only games it names, and none at all if it is refused,
\* though it may have walked through part of its arguments by then (reset_at,
\* restore_states, capture_states).
OthersUntouched ==
    [][\A e \in Envs :
          states'[e] # states[e] => verdict'.ok /\ e \in verdict'.named]_vars

\* No game, live or in the bank, has a turn from after its end, though games
\* that are over are stepped together with those that are not, captured and
\* restored (a first turn is always played).
NoTurnAfterEnd ==
    \A game \in Named(states) \cup Named(bank) :
        Len(game.turns) <= 1 \/ Len(game.turns) < EpisodeSteps

\* The bank as a whole: it keeps to its types, its ids name what was captured, and no game,
\* live or banked, is played on after its end.
BatchOK == TypeOK /\ HandlesFaithful /\ NoTurnAfterEnd
=============================================================================
