------------------------------ MODULE Training ------------------------------
(***************************************************************************)
(* Training and its files: behaviour cloning (bc_manager/training.py),     *)
(* which keeps a best and a last checkpoint; PPO (rl_manager/cli.py,       *)
(* ppo.py), which starts from the best one and writes a checkpoint after   *)
(* every update; the evaluation that reads both.  The three are programs   *)
(* of their own over one disk; each may be killed between any two steps    *)
(* and started again.                                                      *)
(*                                                                         *)
(* Weights are the names of what was last done to them: the epoch of a     *)
(* cloning run, the update a leaf of the PPO tree was last changed by.     *)
(* A file is absent, torn, or holds what was written to it; a checkpoint   *)
(* has a file and its ".tmp".                                              *)
(***************************************************************************)
EXTENDS Integers, Sequences, FiniteSets

CONSTANTS
    Absent, Torn, NaN, Infinity,
    Epochs, Patience,    \* TrainingConfig.epochs, early_stopping_patience
    Totals,              \* the validation totals an epoch can end with
    Updates,             \* --updates
    StepsPerUpdate,      \* ppo_config.epochs * (rows / minibatch_size)
    CloningRuns,         \* bound: how often each trainer is started
    PpoRuns

ASSUME TrainingAssumption ==
    /\ {Epochs, Patience, Updates, StepsPerUpdate, CloningRuns, PpoRuns}
          \subseteq Nat \ {0}
    /\ Totals \subseteq Int \cup {NaN}
    /\ {NaN, Infinity} \cap Int = {} /\ NaN # Infinity

VARIABLES
    models,        \* "best" and "last" of bc_manager.training
    checkpoints,   \* checkpoints[k]: ppo_update_00000k.npz
    cloning,       \* run_training
    ppo,           \* execute_training
    evaluated      \* the train state execute_evaluation plays

vars == <<models, checkpoints, cloning, ppo, evaluated>>

\* What the files hold: a cloned model, a state of the PPO trainer.
Model == [run: Nat, epoch: Nat, totals: Seq(Totals)]
Source == [run: Nat, epoch: Nat]

\* {"base": the copy of the cloned policy, "value": the new head}.
Leaves == {"trunk", "sell_quantity", "value"}
TrainState == [source: Source \cup {Absent}, version: [Leaves -> Nat], rng: Nat, step: Nat]

ASSUME FilesAssumption ==
    /\ Absent # Torn
    /\ {Absent, Torn} \cap Model = {}
    /\ {Absent, Torn} \cap TrainState = {}

Whole(file) == file \notin {Absent, Torn}
NoFiles == [file |-> Absent, tmp |-> Absent]

-----------------------------------------------------------------------------
(* Saving: the steps of a writer, and the slot of files it writes. *)

\* save_ppo_checkpoint (and save_native): write the ".tmp", unlink, rename.
UnlinkFirst == <<"open", "write", "unlink", "rename">>
\* save_checkpoint: write the ".tmp", os.replace.
ReplaceSteps == <<"open", "write", "rename">>

\* Seeded bug: the file is written under its own name.
WrittenInPlace(slot, step, content) ==
    CASE step = "open"  -> [slot EXCEPT !.file = Torn]
      [] step = "write" -> [slot EXCEPT !.file = content]
      [] OTHER -> slot
Written(slot, step, content) ==
    CASE step = "open"   -> [slot EXCEPT !.tmp = Torn]
      [] step = "write"  -> [slot EXCEPT !.tmp = content]
      [] step = "unlink" -> [slot EXCEPT !.file = Absent]
      [] step = "rename" -> [file |-> slot.tmp, tmp |-> Absent]

-----------------------------------------------------------------------------
(* Behaviour cloning: run_training. *)

Idle == [at |-> "off", run |-> 0, epoch |-> 0, best_epoch |-> -1,
         best_total |-> Infinity, totals |-> <<>>, saves |-> <<>>]

\* Comparisons with NaN are false, with infinity true.
Below(total, bound) == total # NaN /\ (bound = Infinity \/ total < bound)

\* Seeded bug: an epoch is compared with the one before it.
ImprovedOnLast(c, total) ==
    Below(total, IF c.totals = <<>> \/ c.totals[Len(c.totals)] = NaN
                 THEN Infinity ELSE c.totals[Len(c.totals)])
Improved(c, total) == Below(total, c.best_total)

\* Seeded bug: the best checkpoint is unlinked before the new one takes its name.
SaveOfUnlinking(path, content) == [path |-> path, content |-> content, steps |-> UnlinkFirst]
SaveOf(path, content) == [path |-> path, content |-> content, steps |-> ReplaceSteps]

StartCloning ==
    /\ cloning.at \in {"off", "done"} /\ cloning.run < CloningRuns
    /\ cloning' = [Idle EXCEPT !.at = "epoch", !.run = cloning.run + 1]
    /\ UNCHANGED <<models, checkpoints, ppo, evaluated>>

\* train_one_epoch, evaluate, and what is to be saved.
Epoch ==
    /\ cloning.at = "epoch"
    /\ \E total \in Totals :
          LET c == [cloning EXCEPT !.epoch = @ + 1, !.totals = Append(@, total)]
              content == [run |-> c.run, epoch |-> c.epoch, totals |-> c.totals]
              better == Improved(cloning, total)
          IN  cloning' =
                 [c EXCEPT !.at = "save",
                           !.best_epoch = IF better THEN c.epoch ELSE @,
                           !.best_total = IF better THEN total ELSE @,
                           !.saves = (IF better THEN <<SaveOf("best", content)>> ELSE <<>>)
                                       \o <<SaveOf("last", content)>>]
    /\ UNCHANGED <<models, checkpoints, ppo, evaluated>>

\* One step of save_checkpoint, for the first file still to be saved.
SaveModel ==
    /\ cloning.at = "save" /\ cloning.saves # <<>>
    /\ LET save == Head(cloning.saves)
           left == Tail(save.steps)
       IN  /\ models' = [models EXCEPT ![save.path] =
                            Written(@, Head(save.steps), save.content)]
           /\ cloning' = [cloning EXCEPT !.saves =
                             IF left = <<>> THEN Tail(@) ELSE [@ EXCEPT ![1].steps = left]]
    /\ UNCHANGED <<checkpoints, ppo, evaluated>>

\* Seeded bug: one epoch more than the patience allows.
OutOfPatienceLate(c) == c.epoch - c.best_epoch > Patience
OutOfPatience(c) == c.epoch - c.best_epoch >= Patience

CheckPatience ==
    /\ cloning.at = "save" /\ cloning.saves = <<>>
    /\ cloning' = [cloning EXCEPT !.at = IF OutOfPatience(cloning) \/ cloning.epoch = Epochs
                                         THEN "done" ELSE "epoch"]
    /\ UNCHANGED <<models, checkpoints, ppo, evaluated>>

KillCloning ==
    /\ cloning.at \in {"epoch", "save"}
    /\ cloning' = [cloning EXCEPT !.at = "off", !.saves = <<>>]
    /\ UNCHANGED <<models, checkpoints, ppo, evaluated>>

-----------------------------------------------------------------------------
(* PPO: execute_training. *)

\* frozen_leaf_mask: what the optimizer may change.
Mutable == Leaves \ {"sell_quantity"}

NoState == [source |-> Absent, version |-> [l \in Leaves |-> 0], rng |-> 0, step |-> 0]
Away == [at |-> "off", run |-> 0, update |-> 0, state |-> NoState, candidate |-> NoState.version,
         batch |-> Absent, keys |-> <<>>, save |-> Absent, steps |-> <<>>]

\* load_torch_checkpoint, init_train_state, ppo_batched_policy_from_state.
StartPpo ==
    /\ ppo.at \in {"off", "done"} /\ ppo.run < PpoRuns
    /\ Whole(models["best"].file)
    /\ ppo' = [Away EXCEPT !.at = "rollout", !.run = ppo.run + 1,
                           !.state.source = [run |-> models["best"].file.run,
                                             epoch |-> models["best"].file.epoch]]
    /\ UNCHANGED <<models, checkpoints, cloning, evaluated>>

\* runner.run, build_ppo_batch: the rows hold the log-probabilities of the policy that played.
Rollout ==
    /\ ppo.at = "rollout"
    /\ ppo' = [ppo EXCEPT !.at = "update", !.batch = ppo.candidate]
    /\ UNCHANGED <<models, checkpoints, cloning, evaluated>>

\* Seeded bug: the next update shuffles by the same key.
AdvancedKeepingKey(s, n) ==
    [s EXCEPT !.version = [l \in Leaves |-> IF l \in Mutable THEN n ELSE @[l]],
              !.step = @ + StepsPerUpdate]
\* ppo_update: split(rng) gives the key of this shuffle and the next rng.
Advanced(s, n) ==
    [s EXCEPT !.version = [l \in Leaves |-> IF l \in Mutable THEN n ELSE @[l]],
              !.rng = @ + 1, !.step = @ + StepsPerUpdate]

\* The new state is a new tree: the candidate that plays keeps the one it was made with, and
\* refresh_identity names that one again.
Update ==
    /\ ppo.at = "update"
    /\ LET next == Advanced(ppo.state, ppo.update + 1)
       IN  ppo' = [ppo EXCEPT !.at = "save", !.state = next,
                              !.keys = Append(@, ppo.state.rng), !.batch = Absent,
                              !.save = next, !.steps = UnlinkFirst]
    /\ UNCHANGED <<models, checkpoints, cloning, evaluated>>

\* One step of save_ppo_checkpoint.
SavePpo ==
    /\ ppo.at = "save" /\ ppo.steps # <<>>
    /\ checkpoints' = [checkpoints EXCEPT ![ppo.update] =
                          Written(@, Head(ppo.steps), ppo.save)]
    /\ ppo' = [ppo EXCEPT !.steps = Tail(@)]
    /\ UNCHANGED <<models, cloning, evaluated>>

NextUpdate ==
    /\ ppo.at = "save" /\ ppo.steps = <<>>
    /\ ppo' = [ppo EXCEPT !.at = IF ppo.update + 1 = Updates THEN "done" ELSE "rollout",
                          !.update = @ + 1, !.save = Absent]
    /\ UNCHANGED <<models, checkpoints, cloning, evaluated>>

\* Killed, or a step of it raised.
KillPpo ==
    /\ ppo.at \in {"rollout", "update", "save"}
    /\ ppo' = [Away EXCEPT !.run = ppo.run]
    /\ UNCHANGED <<models, checkpoints, cloning, evaluated>>

\* execute_evaluation, load_ppo_checkpoint: an unreadable file is refused.
Evaluate ==
    /\ Whole(models["best"].file)
    /\ \E k \in DOMAIN checkpoints :
          /\ Whole(checkpoints[k].file)
          /\ evaluated' = checkpoints[k].file
    /\ UNCHANGED <<models, checkpoints, cloning, ppo>>

-----------------------------------------------------------------------------
Init ==
    /\ models = [path \in {"best", "last"} |-> NoFiles]
    /\ checkpoints = [k \in 0..(Updates - 1) |-> NoFiles]
    /\ cloning = Idle
    /\ ppo = Away
    /\ evaluated = Absent

Next == \/ StartCloning \/ Epoch \/ SaveModel \/ CheckPatience \/ KillCloning
        \/ StartPpo \/ Rollout \/ Update \/ SavePpo \/ NextUpdate \/ KillPpo
        \/ Evaluate

\* Nobody has to start a trainer, and either may be killed for good.
Spec == Init /\ [][Next]_vars

-----------------------------------------------------------------------------
(* What the files promise. *)

\* Whatever is killed, no file has half a checkpoint under its own name (save_checkpoint,
\* save_ppo_checkpoint), so every reader finds a whole one or none.
TrainingTypeOK ==
    /\ \A path \in {"best", "last"} : models[path].file # Torn
    /\ \A k \in DOMAIN checkpoints : checkpoints[k].file # Torn
    /\ cloning.epoch \in 0..Epochs /\ cloning.best_epoch \in {-1} \cup 1..cloning.epoch
    /\ ppo.update \in 0..Updates /\ Len(ppo.keys) <= Updates

\* The best checkpoint holds the first epoch with the lowest validation total of its run, and
\* is never older than the last one of that run (run_training).
BestIsBest ==
    LET best == models["best"].file
        last == models["last"].file
    IN  /\ Whole(best) =>
              LET seen == {k \in DOMAIN best.totals : best.totals[k] # NaN}
              IN  /\ best.epoch \in seen
                  /\ \A k \in seen : /\ best.totals[best.epoch] <= best.totals[k]
                                     /\ best.totals[best.epoch] = best.totals[k] => best.epoch <= k
        /\ Whole(best) /\ Whole(last) /\ last.run = best.run /\ last.epoch > best.epoch =>
              \A k \in (best.epoch + 1)..last.epoch :
                  last.totals[k] = NaN \/ best.totals[best.epoch] <= last.totals[k]

\* A checkpoint that has been saved is there for good: a killed trainer leaves the one before
\* (save_checkpoint).
KeptOnceSaved ==
    [][\A path \in {"best", "last"} : Whole(models[path].file) => Whole(models'[path].file)]_vars

\* Cloning goes on exactly while it may still improve: it stops at the last epoch, or after
\* Patience epochs without a lower total (run_training).
StopsWhenStale ==
    /\ cloning.at = "epoch" /\ cloning.best_epoch > 0 =>
          cloning.epoch - cloning.best_epoch < Patience
    /\ cloning.at = "done" /\ cloning.epoch < Epochs /\ cloning.best_epoch > 0 =>
          \A k \in (cloning.epoch - Patience + 1)..cloning.epoch :
              cloning.totals[k] = NaN \/ cloning.totals[k] >= cloning.best_total

\* A checkpoint is one state of the trainer: what is evaluated has the parameters, the step
\* and the random key of one update, the sell-quantity head of the cloned policy, and the
\* update after it shuffles by a key no earlier one used (ppo_update, frozen_leaf_mask).
CheckpointIsOneState ==
    /\ evaluated # Absent =>
          \E n \in 1..Updates :
              /\ evaluated.version = [l \in Leaves |-> IF l = "sell_quantity" THEN 0 ELSE n]
              /\ evaluated.step = n * StepsPerUpdate
    /\ \A i, j \in DOMAIN ppo.keys : ppo.keys[i] = ppo.keys[j] => i = j
    /\ \A k \in DOMAIN checkpoints :
          Whole(checkpoints[k].file) /\ ppo.state.source = checkpoints[k].file.source
                  /\ k + 2 <= Len(ppo.keys) =>
              ppo.keys[k + 2] = checkpoints[k].file.rng

\* "Re-derive the fingerprint after the underlying params changed" (ppo_adapter.py): the rows
\* an update learns from were played with the parameters it starts from.
OnPolicy == ppo.at = "update" => ppo.batch = ppo.state.version

\* "Save train state + configs + provenance atomically" (ppo_checkpoint.py).
SavedAtomically ==
    [][\A k \in DOMAIN checkpoints :
          Whole(checkpoints[k].file) => Whole(checkpoints'[k].file)]_vars

(* The loop keeps to its types and stops when the losses stop falling.     *)
TrainingSound == TrainingTypeOK /\ StopsWhenStale
=============================================================================
