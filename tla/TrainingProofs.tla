--------------------------- MODULE TrainingProofs ---------------------------
(***************************************************************************)
(* Theorems about what training leaves behind and what it is fed.          *)
(*                                                                         *)
(* About Training.tla, for every number of epochs, updates and starts,     *)
(* every patience and every validation total: what the files of a trainer  *)
(* hold, whenever it is killed.  The two trainers write files of their     *)
(* own, so the inductive invariant is a part per trainer, each with its    *)
(* files.                                                                  *)
(*                                                                         *)
(* About Replays.tla and ExpertPlan.tla, for every length of a day and of  *)
(* a game, every set of actions and every run of the command line: what    *)
(* the records of a replay hold.  Game says what every recorded game is -  *)
(* the clock, and how each observation came of the one before - Kept that  *)
(* the records kept are the extractor's, OnDisk what the file holds in     *)
(* each phase.                                                             *)
(***************************************************************************)
EXTENDS Training, ExpertPlan, FiniteSetsExt, SequencesExt, FiniteSetTheorems, SequenceTheorems,
        WellFoundedInduction, TLAPS

Paths == {"best", "last"}

-----------------------------------------------------------------------------
(* Behaviour cloning. *)

\* Epoch b is the first one with the lowest total.
First(totals, b) ==
    /\ b \in 1..Len(totals) /\ totals[b] # NaN
    /\ \A k \in 1..Len(totals) :
          totals[k] # NaN => /\ totals[b] <= totals[k]
                             /\ totals[b] = totals[k] => b <= k

\* What the save_checkpoint calls of this epoch write.
Now == [run |-> cloning.run, epoch |-> cloning.epoch, totals |-> cloning.totals]

Save == [path: Paths, content: Model, steps: Seq({"open", "write", "rename"})]
Cloning == [at: {"off", "epoch", "save", "done"}, run: Nat, epoch: 0..Epochs,
            best_epoch: {-1} \cup 1..Epochs, best_total: Int \cup {Infinity},
            totals: Seq(Totals),
            saves: Seq(Save)]

Counted ==
    /\ cloning \in Cloning
    /\ Len(cloning.totals) = cloning.epoch
    /\ IF cloning.best_epoch = -1
       THEN /\ cloning.best_total = Infinity
            /\ \A k \in 1..cloning.epoch : cloning.totals[k] = NaN
       ELSE /\ First(cloning.totals, cloning.best_epoch)
            /\ cloning.best_total = cloning.totals[cloning.best_epoch]

Paced ==
    /\ cloning.at = "epoch" => /\ cloning.epoch < Epochs
                               /\ cloning.best_epoch > 0 => ~OutOfPatience(cloning)
    /\ cloning.at = "done" => cloning.epoch = Epochs \/ OutOfPatience(cloning)

\* The save under way and the one that may follow.
Saving(save) ==
    /\ save.content = Now /\ save.path \in Paths
    /\ save.path = "best" => cloning.best_epoch = cloning.epoch
    /\ \/ save.steps = ReplaceSteps
       \/ save.steps = <<"write", "rename">>
       \/ save.steps = <<"rename">> /\ models[save.path].tmp = Now

Pending ==
    /\ cloning.at # "save" => cloning.saves = <<>>
    /\ cloning.at = "save" =>
          /\ cloning.epoch \in 1..Epochs
          /\ \/ cloning.saves = <<>>
             \/ /\ Len(cloning.saves) = 1 /\ cloning.saves[1].path = "last"
                /\ Saving(cloning.saves[1])
             \/ /\ Len(cloning.saves) = 2 /\ cloning.saves[2] = SaveOf("last", Now)
                /\ cloning.saves[1].path = "best" /\ Saving(cloning.saves[1])

BestToCome == cloning.saves # <<>> /\ cloning.saves[1].path = "best"

Stored(file) == file = Absent \/ /\ file \in Model /\ file.run <= cloning.run
                                 /\ Len(file.totals) = file.epoch
                                 /\ file.run = cloning.run => file.epoch <= cloning.epoch

\* What the best file of this run is to the run itself, unless a save of it is under way.
BestIsOurs ==
    LET best == models["best"].file IN
    best # Absent /\ cloning.at # "off" /\ best.run = cloning.run /\ ~BestToCome =>
        /\ cloning.best_epoch = best.epoch
        /\ cloning.best_total = best.totals[best.epoch]

\* The best file against the last one.
Consistent(best, last) ==
    /\ best # Absent => First(best.totals, best.epoch)
    /\ best # Absent /\ last # Absent /\ last.run = best.run /\ last.epoch > best.epoch =>
          \A k \in (best.epoch + 1)..last.epoch :
              last.totals[k] = NaN \/ best.totals[best.epoch] <= last.totals[k]

ModelsOK ==
    /\ DOMAIN models = Paths
    /\ \A path \in Paths : models[path] = [file |-> models[path].file, tmp |-> models[path].tmp]
    /\ \A path \in Paths : Stored(models[path].file)
    /\ BestIsOurs
    /\ Consistent(models["best"].file, models["last"].file)

CloningOK == Counted /\ Paced /\ Pending /\ ModelsOK

LEMMA FileFacts ==
  /\ Absent # Torn
  /\ \A c \in Model : Whole(c)
  /\ \A c \in TrainState : Whole(c)
BY FilesAssumption DEF Whole

LEMMA NumberFacts ==
  /\ Epochs \in Nat /\ Epochs >= 1 /\ Patience \in Nat /\ Patience >= 1
  /\ Updates \in Nat /\ Updates >= 1 /\ StepsPerUpdate \in Nat
  /\ NaN \notin Int /\ Infinity \notin Int /\ NaN # Infinity
  /\ \A total \in Totals : total = NaN \/ total \in Int
BY TrainingAssumption

LEMMA ReplaceFacts ==
  /\ Head(ReplaceSteps) = "open" /\ Tail(ReplaceSteps) = <<"write", "rename">>
  /\ Head(<<"write", "rename">>) = "write" /\ Tail(<<"write", "rename">>) = <<"rename">>
  /\ Head(<<"rename">>) = "rename" /\ Tail(<<"rename">>) = <<>>
  /\ <<"write", "rename">> # <<>> /\ <<"rename">> # <<>>
  /\ ReplaceSteps \in Seq({"open", "write", "rename"})
  /\ <<"write", "rename">> \in Seq({"open", "write", "rename"})
  /\ <<"rename">> \in Seq({"open", "write", "rename"})
BY DEF ReplaceSteps

LEMMA Joined ==
  ASSUME NEW S, NEW a \in S, NEW b \in S
  PROVE  <<a>> \o <<b>> = <<a, b>> /\ <<>> \o <<b>> = <<b>>
<1> DEFINE two == <<a>> \o <<b>>
<1>1. <<a>> \in Seq(S) /\ <<b>> \in Seq(S) /\ <<>> \in Seq(S) /\ <<a, b>> \in Seq(S)
  OBVIOUS
<1>2. <<>> \o <<b>> = <<b>>
  BY <1>1, ConcatEmptySeq
<1>3. /\ two \in Seq(S) /\ Len(two) = 2 /\ Len(<<a, b>>) = 2
      /\ two[1] = a /\ two[2] = b
  BY <1>1
<1>4. \A i \in 1..2 : two[i] = <<a, b>>[i]
  <2>1. \A i \in 1..2 : i = 1 \/ i = 2
    OBVIOUS
  <2> QED BY <1>3, <2>1
<1>5. two = <<a, b>>
  <2> HIDE DEF two
  <2> QED BY <1>1, <1>3, <1>4, SeqEqual
<1> QED BY <1>2, <1>5

LEMMA WrittenFields ==
  ASSUME NEW f, NEW t, NEW c, NEW slot, slot = [file |-> f, tmp |-> t]
  PROVE  /\ Written(slot, "open", c) = [file |-> f, tmp |-> Torn]
         /\ Written(slot, "write", c) = [file |-> f, tmp |-> c]
         /\ Written(slot, "unlink", c) = [file |-> Absent, tmp |-> t]
         /\ Written(slot, "rename", c) = [file |-> t, tmp |-> Absent]
BY DEF Written

LEMMA CloningKeeps == ASSUME CloningOK, UNCHANGED <<models, cloning>> PROVE CloningOK'
BY DEF CloningOK, Counted, Paced, Pending, ModelsOK, First, Now, OutOfPatience, Saving,
       BestToCome, Stored, BestIsOurs, Consistent

LEMMA CloningInit == Init => CloningOK
<1> SUFFICES ASSUME Init PROVE CloningOK
  OBVIOUS
<1>1. /\ cloning = [at |-> "off", run |-> 0, epoch |-> 0, best_epoch |-> -1,
                    best_total |-> Infinity, totals |-> <<>>, saves |-> <<>>]
      /\ DOMAIN models = Paths
      /\ \A path \in Paths : models[path] = [file |-> Absent, tmp |-> Absent]
  BY DEF Init, Idle, NoFiles, Paths
<1>2. Counted /\ Paced /\ Pending
  BY <1>1, NumberFacts DEF Counted, Paced, Pending, Cloning
<1>3. ModelsOK
  BY <1>1 DEF ModelsOK, Stored, BestIsOurs, Consistent, Paths
<1> QED BY <1>2, <1>3 DEF CloningOK

LEMMA CloningStarts == ASSUME CloningOK, StartCloning PROVE CloningOK'
<1>1. /\ cloning.run \in Nat /\ models' = models
      /\ cloning' = [at |-> "epoch", run |-> cloning.run + 1, epoch |-> 0, best_epoch |-> -1,
                     best_total |-> Infinity, totals |-> <<>>, saves |-> <<>>]
  BY DEF StartCloning, Idle, CloningOK, Counted, Cloning
<1>2. Counted' /\ Paced' /\ Pending'
  BY <1>1, NumberFacts DEF Counted, Paced, Pending, Cloning
<1>3. \A path \in Paths : Stored(models[path].file)' /\ (models[path].file # Absent =>
                                  models[path].file.run < cloning'.run)
  BY <1>1 DEF CloningOK, ModelsOK, Stored, Model
<1>4. BestIsOurs'
  BY <1>1, <1>3 DEF BestIsOurs, Paths, CloningOK, ModelsOK, Stored, Model
<1>5. ModelsOK'
  BY <1>1, <1>3, <1>4 DEF CloningOK, ModelsOK, Consistent, First
<1> QED BY <1>2, <1>5 DEF CloningOK

LEMMA CloningKilled == ASSUME CloningOK, KillCloning PROVE CloningOK'
<1>1. /\ cloning \in Cloning /\ models' = models
      /\ cloning' = [cloning EXCEPT !.at = "off", !.saves = <<>>]
  BY DEF KillCloning, CloningOK, Counted
<1>2. /\ cloning' \in Cloning /\ cloning'.at = "off" /\ cloning'.saves = <<>>
      /\ cloning'.run = cloning.run /\ cloning'.epoch = cloning.epoch
      /\ cloning'.totals = cloning.totals /\ cloning'.best_epoch = cloning.best_epoch
      /\ cloning'.best_total = cloning.best_total
  <2>1. <<>> \in Seq(Save)
    OBVIOUS
  <2> QED BY <1>1, <2>1 DEF Cloning
<1>3. Counted' /\ Paced' /\ Pending'
  BY <1>2 DEF CloningOK, Counted, Paced, Pending, First
<1>4. ModelsOK'
  BY <1>1, <1>2 DEF CloningOK, ModelsOK, Stored, BestIsOurs, Consistent, First
<1> QED BY <1>3, <1>4 DEF CloningOK

LEMMA CloningChecked == ASSUME CloningOK, CheckPatience PROVE CloningOK'
<1>1. /\ cloning \in Cloning /\ models' = models /\ cloning.at = "save"
      /\ cloning.saves = <<>> /\ cloning.epoch \in 1..Epochs
      /\ cloning' = [cloning EXCEPT !.at = IF OutOfPatience(cloning) \/ cloning.epoch = Epochs
                                          THEN "done" ELSE "epoch"]
  BY DEF CheckPatience, CloningOK, Counted, Pending
<1>2. /\ cloning' \in Cloning /\ cloning'.saves = <<>>
      /\ cloning'.at = IF OutOfPatience(cloning) \/ cloning.epoch = Epochs
                       THEN "done" ELSE "epoch"
      /\ cloning'.run = cloning.run /\ cloning'.epoch = cloning.epoch
      /\ cloning'.totals = cloning.totals /\ cloning'.best_epoch = cloning.best_epoch
      /\ cloning'.best_total = cloning.best_total
  BY <1>1 DEF Cloning
<1>3. Counted' /\ Pending'
  BY <1>2 DEF CloningOK, Counted, Pending, First
<1>4. Paced'
  BY <1>1, <1>2, NumberFacts DEF Paced, OutOfPatience
<1>5. ModelsOK'
  BY <1>1, <1>2 DEF CloningOK, ModelsOK, Stored, BestIsOurs, BestToCome, Consistent, First
<1> QED BY <1>3, <1>4, <1>5 DEF CloningOK

\* A new total is the first lowest one, or leaves the one that was.
LEMMA FirstAppended ==
  ASSUME NEW totals \in Seq(Totals), NEW total \in Totals, NEW b
  PROVE  LET after == Append(totals, total)
             n == Len(totals) + 1
         IN  /\ after \in Seq(Totals) /\ Len(after) = n /\ after[n] = total
             /\ \A k \in 1..Len(totals) : after[k] = totals[k]
             /\ First(totals, b) /\ ~Below(total, totals[b]) => First(after, b)
             /\ First(totals, b) /\ Below(total, totals[b]) => First(after, n)
             /\ total # NaN /\ (\A k \in 1..Len(totals) : totals[k] = NaN) => First(after, n)
<1> DEFINE after == Append(totals, total)
           n == Len(totals) + 1
<1>1. /\ after \in Seq(Totals) /\ Len(after) = n /\ after[n] = total /\ n \in Nat
      /\ \A k \in 1..Len(totals) : after[k] = totals[k]
      /\ 1..n = (1..Len(totals)) \cup {n}
  OBVIOUS
<1>2. \A k \in 1..Len(totals) : totals[k] = NaN \/ totals[k] \in Int
  BY NumberFacts
<1>3. total = NaN \/ total \in Int
  BY NumberFacts
<1>4. Len(totals) \in Nat
  OBVIOUS
<1> HIDE DEF after, n
<1>n. n = Len(totals) + 1
  BY DEF n
<1>5. ASSUME First(totals, b), ~Below(total, totals[b]) PROVE First(after, b)
  <2>1. b \in 1..Len(totals) /\ totals[b] \in Int /\ totals[b] # Infinity
    BY <1>2, <1>5, NumberFacts DEF First
  <2>2. total # NaN => totals[b] <= total
    BY <1>3, <1>5, <2>1 DEF Below
  <2>3. ASSUME NEW k \in 1..n, after[k] # NaN
        PROVE  after[b] <= after[k] /\ (after[b] = after[k] => b <= k)
    BY <1>1, <1>4, <1>5, <1>n, <2>1, <2>2, <2>3 DEF First
  <2> QED BY <1>1, <1>4, <1>n, <1>5, <2>1, <2>3 DEF First
<1>6. ASSUME total # NaN,
             \A k \in 1..Len(totals) : totals[k] # NaN => total < totals[k]
      PROVE  First(after, n)
  <2>1. ASSUME NEW k \in 1..n, after[k] # NaN
        PROVE  after[n] <= after[k] /\ (after[n] = after[k] => n <= k)
    BY <1>1, <1>2, <1>3, <1>4, <1>6, <1>n, <2>1
  <2> QED BY <1>1, <1>4, <1>6, <1>n, <2>1 DEF First
<1>7. ASSUME First(totals, b), Below(total, totals[b]) PROVE First(after, n)
  <2>1. b \in 1..Len(totals) /\ totals[b] \in Int /\ totals[b] # Infinity
    BY <1>2, <1>7, NumberFacts DEF First
  <2>2. total \in Int /\ total # NaN /\ total < totals[b]
    BY <1>3, <1>7, <2>1 DEF Below
  <2>3. \A k \in 1..Len(totals) : totals[k] # NaN => total < totals[k]
    BY <1>2, <1>7, <2>1, <2>2 DEF First
  <2> QED BY <1>6, <2>2, <2>3
<1>8. total # NaN /\ (\A k \in 1..Len(totals) : totals[k] = NaN) => First(after, n)
  BY <1>6
<1> QED BY <1>1, <1>5, <1>7, <1>8 DEF after, n

LEMMA EpochEnds == ASSUME CloningOK, Epoch PROVE CloningOK'
<1>0. /\ cloning \in Cloning /\ cloning.at = "epoch" /\ cloning.epoch < Epochs
      /\ models' = models /\ Len(cloning.totals) = cloning.epoch /\ cloning.saves = <<>>
  BY DEF Epoch, CloningOK, Counted, Paced, Pending
<1>1. PICK total \in Totals :
         LET c == [cloning EXCEPT !.epoch = @ + 1, !.totals = Append(@, total)]
             content == [run |-> c.run, epoch |-> c.epoch, totals |-> c.totals]
             better == Improved(cloning, total)
         IN  cloning' =
                [c EXCEPT !.at = "save",
                          !.best_epoch = IF better THEN c.epoch ELSE @,
                          !.best_total = IF better THEN total ELSE @,
                          !.saves = (IF better THEN <<SaveOf("best", content)>> ELSE <<>>)
                                      \o <<SaveOf("last", content)>>]
  BY DEF Epoch
<1> DEFINE better == Below(total, cloning.best_total)
           after == Append(cloning.totals, total)
           n == cloning.epoch + 1
           content == [run |-> cloning.run, epoch |-> n, totals |-> after]
           queue == (IF better THEN <<SaveOf("best", content)>> ELSE <<>>)
                       \o <<SaveOf("last", content)>>
<1>2. /\ cloning'.at = "save" /\ cloning'.run = cloning.run /\ cloning'.epoch = n
      /\ cloning'.totals = after /\ cloning'.saves = queue
      /\ cloning'.best_epoch = IF better THEN n ELSE cloning.best_epoch
      /\ cloning'.best_total = IF better THEN total ELSE cloning.best_total
      /\ cloning' = [at |-> cloning'.at, run |-> cloning'.run, epoch |-> cloning'.epoch,
                     best_epoch |-> cloning'.best_epoch, best_total |-> cloning'.best_total,
                     totals |-> cloning'.totals, saves |-> cloning'.saves]
  BY <1>0, <1>1 DEF Cloning, Improved
<1>3. /\ n \in 1..Epochs /\ after \in Seq(Totals) /\ Len(after) = n /\ after[n] = total
      /\ cloning.run \in Nat /\ cloning.epoch \in Nat /\ cloning.best_epoch \in Int
      /\ \A k \in 1..cloning.epoch : after[k] = cloning.totals[k]
      /\ 1..n = (1..cloning.epoch) \cup {n}
  BY <1>0, NumberFacts, FirstAppended DEF Cloning
<1>4. content \in Model
  BY <1>3, NumberFacts DEF Model
<1> DEFINE s(path) == [path |-> path, content |-> content, steps |-> ReplaceSteps]
<1>5. /\ queue = (IF better THEN <<s("best"), s("last")>> ELSE <<s("last")>>)
      /\ queue \in Seq(Save)
  <2>1. s("best") \in Save /\ s("last") \in Save
    BY <1>4, ReplaceFacts DEF Save, Paths
  <2>2. SaveOf("best", content) = s("best") /\ SaveOf("last", content) = s("last")
    BY DEF SaveOf
  <2> HIDE DEF s, content, better
  <2>3. /\ <<s("best")>> \o <<s("last")>> = <<s("best"), s("last")>>
        /\ <<>> \o <<s("last")>> = <<s("last")>>
    BY <2>1, Joined
  <2>4. queue = (IF better THEN <<s("best"), s("last")>> ELSE <<s("last")>>)
    BY <2>2, <2>3
  <2> HIDE DEF queue
  <2>5. queue \in Seq(Save)
    BY <2>1, <2>4
  <2> QED BY <2>4, <2>5
<1>6. Now' = content
  BY <1>2 DEF Now
<1> HIDE DEF better, after, n, content, queue
<1>7. IF cloning'.best_epoch = -1
      THEN /\ cloning'.best_total = Infinity
           /\ \A k \in 1..n : after[k] = NaN
      ELSE /\ First(after, cloning'.best_epoch)
           /\ cloning'.best_total = after[cloning'.best_epoch]
  <2>0. cloning.totals \in Seq(Totals) /\ n # -1 /\ (total = NaN \/ total \in Int)
        /\ n = Len(cloning.totals) + 1 /\ after = Append(cloning.totals, total)
    BY <1>0, <1>3, NumberFacts DEF Cloning, n, after
  <2>1. CASE cloning.best_epoch = -1
    <3>1. cloning.best_total = Infinity /\ \A k \in 1..cloning.epoch : cloning.totals[k] = NaN
      BY <2>1 DEF CloningOK, Counted
    <3>2. better <=> total # NaN
      BY <3>1 DEF better, Below
    <3>3. CASE total # NaN
      <4>1. First(after, n)
        BY <1>0, <2>0, <3>1, <3>3, FirstAppended
      <4> QED BY <1>2, <1>3, <2>0, <3>2, <3>3, <4>1
    <3>4. CASE total = NaN
      <4>1. \A k \in 1..n : after[k] = NaN
        BY <1>3, <3>1, <3>4
      <4> QED BY <1>2, <2>1, <3>1, <3>2, <3>4, <4>1
    <3> QED BY <3>3, <3>4
  <2>2. CASE cloning.best_epoch # -1
    <3>1. /\ First(cloning.totals, cloning.best_epoch)
          /\ cloning.best_total = cloning.totals[cloning.best_epoch]
          /\ cloning.best_epoch \in 1..cloning.epoch
      BY <1>0, <2>2 DEF CloningOK, Counted, First
    <3>2. CASE better
      <4>1. First(after, n)
        BY <2>0, <3>1, <3>2, FirstAppended DEF better
      <4> QED BY <1>2, <1>3, <2>0, <3>2, <4>1
    <3>3. CASE ~better
      <4>1. First(after, cloning.best_epoch)
        BY <2>0, <3>1, <3>3, FirstAppended DEF better
      <4> QED BY <1>2, <1>3, <2>2, <3>1, <3>3, <4>1
    <3> QED BY <3>2, <3>3
  <2> QED BY <2>1, <2>2
<1>8. Counted'
  <2>1. cloning' \in Cloning
    <3>1. /\ cloning'.best_epoch \in {-1} \cup 1..Epochs
          /\ cloning'.best_total \in Int \cup {Infinity}
      BY <1>0, <1>2, <1>3, NumberFacts DEF Cloning, better, Below
    <3>2. n \in 0..Epochs
      BY <1>3, NumberFacts
    <3> HIDE DEF s
    <3> QED BY <1>2, <1>3, <1>5, <3>1, <3>2 DEF Cloning
  <2> QED BY <1>2, <1>3, <1>7, <2>1 DEF Counted
<1>9. Paced'
  BY <1>2 DEF Paced
<1>10. Pending'
  <2>1. CASE better
    <3>1. cloning'.saves = <<s("best"), s("last")>> /\ cloning'.best_epoch = cloning'.epoch
      BY <1>2, <1>5, <2>1
    <3> QED BY <1>2, <1>3, <1>6, <3>1 DEF Pending, Saving, SaveOf, Paths
  <2>2. CASE ~better
    <3>1. cloning'.saves = <<s("last")>>
      BY <1>2, <1>5, <2>2
    <3> QED BY <1>2, <1>3, <1>6, <3>1 DEF Pending, Saving, SaveOf, Paths
  <2> QED BY <2>1, <2>2
<1>11. ModelsOK'
  <2>1. \A path \in Paths : Stored(models[path].file)'
    BY <1>0, <1>2, <1>3, NumberFacts DEF CloningOK, ModelsOK, Stored, Model, Cloning, n
  <2>2. BestIsOurs'
    <3>1. CASE better
      BY <1>2, <1>5, <3>1 DEF BestIsOurs, BestToCome
    <3>2. CASE ~better
      BY <1>0, <1>2, <3>2 DEF CloningOK, ModelsOK, BestIsOurs, BestToCome
    <3> QED BY <3>1, <3>2
  <2> QED BY <1>0, <2>1, <2>2 DEF CloningOK, ModelsOK, Consistent, First
<1> QED BY <1>8, <1>9, <1>10, <1>11 DEF CloningOK

\* The first save of the queue, and what the queue is after one step of it.
LEMMA SaveUnderWay ==
  ASSUME CloningOK, SaveModel
  PROVE  LET save == cloning.saves[1]
             left == Tail(save.steps)
             queue == IF left = <<>> THEN Tail(cloning.saves)
                                     ELSE [cloning.saves EXCEPT ![1].steps = left]
         IN  /\ cloning.at = "save" /\ Saving(save) /\ save \in Save
             /\ models' = [models EXCEPT ![save.path] =
                              Written(@, Head(save.steps), save.content)]
             /\ cloning' = [cloning EXCEPT !.saves = queue]
             /\ \/ Len(cloning.saves) = 1 /\ save.path = "last"
                \/ /\ Len(cloning.saves) = 2 /\ save.path = "best"
                   /\ cloning.saves[2] = SaveOf("last", Now)
<1> DEFINE save == cloning.saves[1]
<1>1. /\ cloning.at = "save" /\ cloning.saves # <<>> /\ cloning.saves \in Seq(Save)
      /\ Pending
  BY DEF SaveModel, CloningOK, Counted, Cloning
<1>2. Head(cloning.saves) = save
  BY <1>1
<1>3. /\ Saving(save)
      /\ \/ Len(cloning.saves) = 1 /\ save.path = "last"
         \/ /\ Len(cloning.saves) = 2 /\ save.path = "best"
            /\ cloning.saves[2] = SaveOf("last", Now)
  BY <1>1 DEF Pending
<1>4. save \in Save
  BY <1>1, <1>3
<1> QED BY <1>1, <1>2, <1>3, <1>4 DEF SaveModel

\* The clone is what it was, but for its queue of saves.
LEMMA QueueOnly ==
  ASSUME CloningOK, NEW queue \in Seq(Save), cloning.at = "save",
         cloning' = [cloning EXCEPT !.saves = queue]
  PROVE  /\ cloning'.at = "save" /\ cloning'.saves = queue /\ Now' = Now
         /\ cloning'.run = cloning.run /\ cloning'.epoch = cloning.epoch
         /\ cloning'.best_epoch = cloning.best_epoch
         /\ cloning'.best_total = cloning.best_total /\ cloning'.totals = cloning.totals
         /\ Counted' /\ Paced'
<1>1. cloning \in Cloning
  BY DEF CloningOK, Counted
<1>2. /\ cloning' \in Cloning /\ cloning'.at = "save" /\ cloning'.saves = queue
      /\ cloning'.run = cloning.run /\ cloning'.epoch = cloning.epoch
      /\ cloning'.best_epoch = cloning.best_epoch
      /\ cloning'.best_total = cloning.best_total /\ cloning'.totals = cloning.totals
  BY <1>1 DEF Cloning
<1>3. Counted' /\ Paced'
  BY <1>2 DEF CloningOK, Counted, Paced, First
<1> QED BY <1>2, <1>3 DEF Now

\* Opening and writing touch the ".tmp" only.
LEMMA TmpWritten ==
  ASSUME CloningOK, SaveModel, cloning.saves[1].steps # <<"rename">> PROVE CloningOK'
<1> DEFINE save == cloning.saves[1]
           left == Tail(save.steps)
           item == [save EXCEPT !.steps = left]
           queue == [cloning.saves EXCEPT ![1] = item]
           file == models[save.path].file
           tmp == models[save.path].tmp
<1>1. /\ Saving(save) /\ save \in Save /\ cloning.at = "save"
      /\ models' = [models EXCEPT ![save.path] = Written(@, Head(save.steps), save.content)]
      /\ cloning' = [cloning EXCEPT !.saves =
                        IF left = <<>> THEN Tail(cloning.saves)
                                       ELSE [cloning.saves EXCEPT ![1].steps = left]]
      /\ \/ Len(cloning.saves) = 1 /\ save.path = "last"
         \/ /\ Len(cloning.saves) = 2 /\ save.path = "best"
            /\ cloning.saves[2] = SaveOf("last", Now)
  BY SaveUnderWay
<1>2. /\ \/ save.steps = ReplaceSteps /\ left = <<"write", "rename">>
            /\ Head(save.steps) = "open" /\ left # <<"rename">>
         \/ save.steps = <<"write", "rename">> /\ left = <<"rename">>
            /\ Head(save.steps) = "write"
      /\ left # <<>> /\ left \in Seq({"open", "write", "rename"})
  <2>1. <<"write", "rename">> # <<"rename">>
    OBVIOUS
  <2>2. save.steps # <<"rename">>
    OBVIOUS
  <2>3. save.steps = ReplaceSteps \/ save.steps = <<"write", "rename">>
    BY <1>1, <2>2 DEF Saving
  <2> HIDE DEF save
  <2> QED BY <2>1, <2>3, ReplaceFacts
<1>3. /\ cloning.saves \in Seq(Save)
      /\ [cloning.saves EXCEPT ![1].steps = left] = queue
      /\ item \in Save /\ item.steps = left /\ item.path = save.path
      /\ item.content = save.content
  <2>1. cloning.saves \in Seq(Save)
    BY DEF CloningOK, Counted, Cloning
  <2>2. [cloning.saves EXCEPT ![1].steps = left] = queue
    BY <1>1, <2>1
  <2> HIDE DEF queue, left, save
  <2> QED BY <1>1, <1>2, <2>1, <2>2 DEF Save
<1>4. cloning' = [cloning EXCEPT !.saves = queue]
  BY <1>1, <1>2, <1>3
<1> HIDE DEF left, item
<1>5. /\ queue \in Seq(Save) /\ Len(queue) = Len(cloning.saves) /\ queue[1] = item
      /\ Len(cloning.saves) = 2 => queue[2] = cloning.saves[2]
      /\ queue # <<>> /\ cloning.saves # <<>>
  BY <1>1, <1>3
<1> HIDE DEF queue
<1>6. /\ cloning'.at = "save" /\ cloning'.saves = queue /\ Now' = Now
      /\ cloning'.run = cloning.run /\ cloning'.epoch = cloning.epoch
      /\ cloning'.best_epoch = cloning.best_epoch
      /\ cloning'.best_total = cloning.best_total /\ cloning'.totals = cloning.totals
      /\ Counted' /\ Paced'
  BY <1>1, <1>4, <1>5, QueueOnly
<1>7. /\ save.path \in Paths /\ models[save.path] = [file |-> file, tmp |-> tmp]
      /\ DOMAIN models = Paths /\ save.content = Now
      /\ save.path = "best" => cloning.best_epoch = cloning.epoch
      /\ \A path \in Paths :
            models[path] = [file |-> models[path].file, tmp |-> models[path].tmp]
  BY <1>1 DEF CloningOK, ModelsOK, Saving
<1> HIDE DEF save
<1>8. \E new : /\ Written(models[save.path], Head(save.steps), save.content)
                      = [file |-> file, tmp |-> new]
               /\ left = <<"rename">> => new = Now
  <2>1. CASE Head(save.steps) = "open" /\ left # <<"rename">>
    <3>1. Written(models[save.path], "open", save.content) = [file |-> file, tmp |-> Torn]
      BY <1>7, WrittenFields
    <3> QED BY <2>1, <3>1
  <2>2. CASE Head(save.steps) = "write"
    <3>1. Written(models[save.path], "write", save.content) = [file |-> file, tmp |-> Now]
      BY <1>7, WrittenFields
    <3> QED BY <2>2, <3>1
  <2> QED BY <1>2, <2>1, <2>2
<1>9. PICK new : /\ models' = [models EXCEPT ![save.path] = [file |-> file, tmp |-> new]]
                 /\ left = <<"rename">> => new = Now
  BY <1>1, <1>8
<1>10. /\ DOMAIN models' = Paths /\ models'[save.path].tmp = new
       /\ \A path \in Paths :
             /\ models'[path].file = models[path].file
             /\ models'[path] = [file |-> models'[path].file, tmp |-> models'[path].tmp]
  <2>1. \A path \in Paths : models'[path] = IF path = save.path THEN [file |-> file, tmp |-> new]
                                                                ELSE models[path]
    BY <1>7, <1>9
  <2>2. DOMAIN models' = Paths
    BY <1>7, <1>9
  <2> QED BY <1>7, <2>1, <2>2
<1>11. Saving(cloning.saves[1])'
  <2>1. \/ left = <<"write", "rename">>
        \/ left = <<"rename">> /\ models'[save.path].tmp = Now
    BY <1>2, <1>9, <1>10
  <2>2. cloning'.saves[1] = item
    BY <1>5, <1>6
  <2> QED BY <1>3, <1>6, <1>7, <2>1, <2>2 DEF Saving
<1>12. Pending'
  BY <1>1, <1>3, <1>5, <1>6, <1>11 DEF Pending, CloningOK, SaveOf
<1>13. ModelsOK'
  <2>1. BestToCome' <=> BestToCome
    BY <1>3, <1>5, <1>6 DEF BestToCome, save
  <2>2. BestIsOurs'
    BY <1>1, <1>6, <1>10, <2>1 DEF CloningOK, ModelsOK, BestIsOurs, Paths
  <2>3. \A path \in Paths : Stored(models[path].file)'
    BY <1>6, <1>10 DEF CloningOK, ModelsOK, Stored
  <2>4. Consistent(models["best"].file, models["last"].file)'
    BY <1>10 DEF CloningOK, ModelsOK, Consistent, First, Paths
  <2> QED BY <1>10, <2>2, <2>3, <2>4 DEF ModelsOK
<1> QED BY <1>6, <1>12, <1>13 DEF CloningOK

\* The rename gives the whole content its name.
LEMMA Renamed ==
  ASSUME CloningOK, SaveModel, cloning.saves[1].steps = <<"rename">> PROVE CloningOK'
<1> DEFINE save == cloning.saves[1]
           queue == Tail(cloning.saves)
<1>1. /\ Saving(save) /\ save \in Save /\ cloning.at = "save"
      /\ models' = [models EXCEPT ![save.path] = Written(@, "rename", save.content)]
      /\ cloning' = [cloning EXCEPT !.saves = queue]
      /\ \/ Len(cloning.saves) = 1 /\ save.path = "last"
         \/ /\ Len(cloning.saves) = 2 /\ save.path = "best"
            /\ cloning.saves[2] = SaveOf("last", Now)
  BY SaveUnderWay, ReplaceFacts
<1>2. /\ save.path \in Paths /\ DOMAIN models = Paths /\ Now \in Model
      /\ save.path = "best" => cloning.best_epoch = cloning.epoch
      /\ models[save.path].tmp = Now /\ cloning.epoch \in 1..Epochs
      /\ \A path \in Paths :
            models[path] = [file |-> models[path].file, tmp |-> models[path].tmp]
  <2>1. <<"rename">> # ReplaceSteps /\ <<"rename">> # <<"write", "rename">>
    BY DEF ReplaceSteps
  <2>2. cloning.saves # <<>>
    BY DEF SaveModel
  <2> QED BY <1>1, <2>1, <2>2 DEF Saving, Save, CloningOK, ModelsOK, Pending
<1>3. /\ queue \in Seq(Save)
      /\ Len(cloning.saves) = 1 => queue = <<>>
      /\ Len(cloning.saves) = 2 => Len(queue) = 1 /\ queue[1] = cloning.saves[2]
  <2>1. cloning.saves \in Seq(Save) /\ cloning.saves # <<>>
    BY DEF CloningOK, Counted, Cloning, SaveModel
  <2>2. /\ queue \in Seq(Save) /\ Len(queue) = Len(cloning.saves) - 1
        /\ \A i \in 1..Len(queue) : queue[i] = cloning.saves[i + 1]
    BY <2>1, HeadTailProperties
  <2> HIDE DEF queue
  <2>3. queue # <<>> => Len(queue) \in Nat \ {0}
    BY <2>2, EmptySeq
  <2> QED BY <2>1, <2>2, <2>3
<1> HIDE DEF queue
<1>4. /\ cloning'.at = "save" /\ cloning'.saves = queue /\ Now' = Now
      /\ cloning'.run = cloning.run /\ cloning'.epoch = cloning.epoch
      /\ cloning'.best_epoch = cloning.best_epoch
      /\ cloning'.best_total = cloning.best_total /\ cloning'.totals = cloning.totals
      /\ Counted' /\ Paced'
  BY <1>1, <1>3, QueueOnly
<1> HIDE DEF save
<1>5. \A path \in Paths :
         models'[path] = IF path = save.path THEN [file |-> Now, tmp |-> Absent]
                                             ELSE models[path]
  <2>1. Written(models[save.path], "rename", save.content) = [file |-> Now, tmp |-> Absent]
    BY <1>2, WrittenFields
  <2> QED BY <1>1, <1>2, <2>1
<1>6. /\ DOMAIN models' = Paths
      /\ \A path \in Paths :
            /\ models'[path] = [file |-> models'[path].file, tmp |-> models'[path].tmp]
            /\ models'[path].file = IF path = save.path THEN Now ELSE models[path].file
  <2>1. DOMAIN models' = Paths
    BY <1>1, <1>2
  <2> QED BY <1>2, <1>5, <2>1
<1>7. /\ Now.run = cloning.run /\ Now.epoch = cloning.epoch /\ Now.totals = cloning.totals
      /\ Now # Absent /\ cloning.run \in Nat /\ cloning.epoch \in Nat
      /\ Len(cloning.totals) = cloning.epoch
  BY <1>2, FilesAssumption DEF Now, CloningOK, Counted, Cloning
<1>8. \A path \in Paths : Stored(models[path].file)'
  BY <1>2, <1>4, <1>6, <1>7 DEF CloningOK, ModelsOK, Stored
<1> DEFINE best == models["best"].file
           last == models["last"].file
<1>9. /\ Stored(best) /\ Stored(last) /\ Consistent(best, last) /\ BestIsOurs
      /\ \/ cloning.best_epoch = -1
         \/ /\ First(cloning.totals, cloning.best_epoch)
            /\ cloning.best_total = cloning.totals[cloning.best_epoch]
  BY DEF CloningOK, ModelsOK, Paths, Counted
<1>10. CASE Len(cloning.saves) = 1 /\ save.path = "last"
  <2>1. cloning'.saves = <<>> /\ ~BestToCome'
    BY <1>3, <1>4, <1>10 DEF BestToCome
  <2>2. Pending'
    BY <1>2, <1>4, <2>1 DEF Pending
  <2>3. models'["best"].file = best /\ models'["last"].file = Now
    BY <1>6, <1>10 DEF Paths
  <2>4. ~BestToCome
    BY <1>10 DEF BestToCome, save
  <2>5. BestIsOurs'
    BY <1>1, <1>4, <1>9, <2>3, <2>4 DEF BestIsOurs
  <2>6. Consistent(models["best"].file, models["last"].file)'
    <3>1. best # Absent => First(best.totals, best.epoch)
      BY <1>9 DEF Consistent
    <3>2. ASSUME best # Absent, Now.run = best.run, Now.epoch > best.epoch,
                 NEW k \in (best.epoch + 1)..Now.epoch
          PROVE  Now.totals[k] = NaN \/ best.totals[best.epoch] <= Now.totals[k]
      <4>1. /\ cloning.best_epoch = best.epoch
            /\ cloning.best_total = best.totals[best.epoch]
        BY <1>1, <1>7, <1>9, <2>4, <3>2 DEF BestIsOurs
      <4>2. best.epoch >= 1 /\ best.epoch \in Nat
        BY <1>9, <3>1, <3>2 DEF Stored, Model, First
      <4>3. First(cloning.totals, best.epoch)
            /\ cloning.totals[best.epoch] = best.totals[best.epoch]
        BY <1>9, <4>1, <4>2
      <4>4. k \in 1..Len(cloning.totals)
        BY <1>7, <3>2, <4>2
      <4> QED BY <1>7, <4>3, <4>4 DEF First
    <3> HIDE DEF best
    <3>3. Consistent(best, Now)
      BY <3>1, <3>2 DEF Consistent
    <3> QED BY <2>3, <3>3 DEF Consistent, First
  <2> QED BY <1>4, <1>6, <1>8, <2>2, <2>5, <2>6 DEF CloningOK, ModelsOK
<1>11. CASE /\ Len(cloning.saves) = 2 /\ save.path = "best"
            /\ cloning.saves[2] = SaveOf("last", Now)
  <2>1. Len(cloning'.saves) = 1 /\ cloning'.saves[1] = SaveOf("last", Now)
    BY <1>3, <1>4, <1>11
  <2>2. /\ cloning'.saves[1].path = "last" /\ cloning'.saves[1].content = Now
        /\ cloning'.saves[1].steps = ReplaceSteps
    BY <2>1 DEF SaveOf
  <2>3. Pending' /\ ~BestToCome'
    BY <1>2, <1>4, <2>1, <2>2 DEF Pending, Saving, Paths, BestToCome
  <2>4. models'["best"].file = Now /\ models'["last"].file = last
    BY <1>6, <1>11 DEF Paths
  <2>5. /\ cloning.best_epoch = cloning.epoch /\ First(cloning.totals, cloning.epoch)
        /\ cloning.best_total = cloning.totals[cloning.epoch]
    BY <1>2, <1>7, <1>9, <1>11
  <2>6. BestIsOurs'
    BY <1>4, <1>7, <2>4, <2>5 DEF BestIsOurs
  <2>7. Consistent(models["best"].file, models["last"].file)'
    <3>1. last # Absent /\ last.run = Now.run => last.epoch <= Now.epoch /\ last.epoch \in Nat
      BY <1>7, <1>9 DEF Stored, Model
    <3> HIDE DEF last
    <3>2. Consistent(Now, last)
      BY <1>7, <2>5, <3>1 DEF Consistent
    <3> QED BY <2>4, <3>2 DEF Consistent, First
  <2> QED BY <1>4, <1>6, <1>8, <2>3, <2>6, <2>7 DEF CloningOK, ModelsOK
<1> QED BY <1>1, <1>10, <1>11

LEMMA CloningStep == ASSUME CloningOK, [Next]_vars PROVE CloningOK'
<1>1. CASE SaveModel
  BY <1>1, TmpWritten, Renamed
<1>2. CASE UNCHANGED <<models, cloning>>
  BY <1>2, CloningKeeps
<1>3. CASE StartPpo \/ Rollout \/ Update \/ SavePpo \/ NextUpdate \/ KillPpo \/ Evaluate
  BY <1>2, <1>3 DEF StartPpo, Rollout, Update, SavePpo, NextUpdate, KillPpo, Evaluate
<1>4. CASE UNCHANGED vars
  BY <1>2, <1>4 DEF vars
<1> QED BY <1>1, <1>3, <1>4, CloningStarts, EpochEnds, CloningChecked, CloningKilled DEF Next


-----------------------------------------------------------------------------
(* PPO. *)

\* The state after n updates.
Trained(state, n) ==
    /\ state \in TrainState
    /\ state.version = [l \in Leaves |-> IF l \in Mutable THEN n ELSE 0]
    /\ state.rng = n /\ state.step = n * StepsPerUpdate

Ppo == [at: {"off", "rollout", "update", "save", "done"}, run: Nat, update: 0..Updates,
        state: TrainState, candidate: [Leaves -> Nat],
        batch: [Leaves -> Nat] \cup {Absent}, keys: Seq(Nat),
        save: TrainState \cup {Absent},
        steps: Seq({"open", "write", "unlink", "rename"})]

UpdatesDone == IF ppo.at = "save" THEN ppo.update + 1 ELSE ppo.update

TrainerOK ==
    /\ ppo \in Ppo
    /\ ppo.at \in {"rollout", "update", "save"} => ppo.update < Updates
    /\ Trained(ppo.state, UpdatesDone)
    /\ Len(ppo.keys) = UpdatesDone
    /\ \A i \in 1..UpdatesDone : ppo.keys[i] = i - 1

SavingPpo ==
    ppo.at = "save" =>
       /\ ppo.save = ppo.state
       /\ \/ ppo.steps = <<>>
          \/ ppo.steps = UnlinkFirst
          \/ ppo.steps = <<"write", "unlink", "rename">>
          \/ /\ ppo.steps \in {<<"unlink", "rename">>, <<"rename">>}
             /\ checkpoints[ppo.update].tmp = ppo.save

CheckpointsOK ==
    /\ DOMAIN checkpoints = 0..(Updates - 1)
    /\ \A k \in 0..(Updates - 1) :
          /\ checkpoints[k] = [file |-> checkpoints[k].file, tmp |-> checkpoints[k].tmp]
          /\ checkpoints[k].file = Absent \/ Trained(checkpoints[k].file, k + 1)

EvaluatedOK == evaluated = Absent \/ \E n \in 1..Updates : Trained(evaluated, n)

PpoOK == TrainerOK /\ SavingPpo /\ CheckpointsOK /\ EvaluatedOK

LEMMA UnlinkFacts ==
  /\ Head(UnlinkFirst) = "open" /\ Tail(UnlinkFirst) = <<"write", "unlink", "rename">>
  /\ Head(<<"write", "unlink", "rename">>) = "write"
  /\ Tail(<<"write", "unlink", "rename">>) = <<"unlink", "rename">>
  /\ Head(<<"unlink", "rename">>) = "unlink" /\ Tail(<<"unlink", "rename">>) = <<"rename">>
  /\ UnlinkFirst \in Seq({"open", "write", "unlink", "rename"})
  /\ <<"write", "unlink", "rename">> \in Seq({"open", "write", "unlink", "rename"})
  /\ <<"unlink", "rename">> \in Seq({"open", "write", "unlink", "rename"})
  /\ <<"rename">> \in Seq({"open", "write", "unlink", "rename"})
BY DEF UnlinkFirst

LEMMA PpoKeeps == ASSUME PpoOK, UNCHANGED <<checkpoints, ppo, evaluated>> PROVE PpoOK'
BY DEF PpoOK, TrainerOK, UpdatesDone, Trained, SavingPpo, CheckpointsOK, EvaluatedOK

\* Nothing trained yet.
LEMMA AwaySound ==
  ASSUME NEW run \in Nat
  PROVE  LET away == [Away EXCEPT !.run = run] IN
         /\ away \in Ppo /\ away.at = "off" /\ away.update = 0 /\ away.keys = <<>>
         /\ away.state = NoState /\ Trained(NoState, 0)
<1>1. /\ NoState = [source |-> Absent, version |-> [l \in Leaves |-> 0], rng |-> 0, step |-> 0]
      /\ [l \in Leaves |-> 0] \in [Leaves -> Nat] /\ NoState \in TrainState
  BY DEF NoState, TrainState
<1>2. Trained(NoState, 0)
  <2>1. [l \in Leaves |-> 0] = [l \in Leaves |-> IF l \in Mutable THEN 0 ELSE 0]
    OBVIOUS
  <2>2. 0 * StepsPerUpdate = 0
    BY NumberFacts
  <2> QED BY <1>1, <2>1, <2>2 DEF Trained
<1>3. /\ 0 \in 0..Updates /\ <<>> \in Seq(Nat)
      /\ <<>> \in Seq({"open", "write", "unlink", "rename"})
      /\ NoState.version \in [Leaves -> Nat]
  BY <1>1, NumberFacts
<1> DEFINE away == [Away EXCEPT !.run = run]
<1>4. away = [at |-> "off", run |-> run, update |-> 0, state |-> NoState,
              candidate |-> NoState.version, batch |-> Absent, keys |-> <<>>,
              save |-> Absent, steps |-> <<>>]
  BY DEF Away
<1> HIDE DEF away
<1>5. away \in Ppo /\ away.at = "off" /\ away.update = 0 /\ away.keys = <<>>
      /\ away.state = NoState
  BY <1>1, <1>3, <1>4 DEF Ppo
<1> QED BY <1>2, <1>5 DEF away

LEMMA PpoInit == Init => PpoOK
<1> SUFFICES ASSUME Init PROVE PpoOK
  OBVIOUS
<1>1. Away = [Away EXCEPT !.run = 0]
  BY DEF Away
<1>2. /\ ppo \in Ppo /\ ppo.at = "off" /\ ppo.update = 0 /\ ppo.keys = <<>>
      /\ ppo.state = NoState /\ Trained(NoState, 0)
  BY <1>1, AwaySound DEF Init
<1>3. TrainerOK /\ SavingPpo
  BY <1>2 DEF TrainerOK, UpdatesDone, SavingPpo
<1>4. CheckpointsOK /\ EvaluatedOK
  BY DEF Init, NoFiles, CheckpointsOK, EvaluatedOK
<1> QED BY <1>3, <1>4 DEF PpoOK

LEMMA PpoLeaves == ASSUME PpoOK, KillPpo PROVE PpoOK'
<1>1. ppo' = [Away EXCEPT !.run = ppo.run] /\ ppo.run \in Nat
      /\ UNCHANGED <<checkpoints, evaluated>>
  BY DEF KillPpo, PpoOK, TrainerOK, Ppo
<1>2. /\ ppo' \in Ppo /\ ppo'.at = "off" /\ ppo'.update = 0 /\ ppo'.keys = <<>>
      /\ ppo'.state = NoState /\ Trained(NoState, 0)
  BY <1>1, AwaySound
<1>3. TrainerOK' /\ SavingPpo'
  BY <1>2 DEF TrainerOK, UpdatesDone, SavingPpo, Trained
<1>4. CheckpointsOK' /\ EvaluatedOK'
  BY <1>1 DEF PpoOK, CheckpointsOK, EvaluatedOK, Trained
<1> QED BY <1>3, <1>4 DEF PpoOK

LEMMA PpoStarts == ASSUME PpoOK, CloningOK, StartPpo PROVE PpoOK'
<1> DEFINE away == [Away EXCEPT !.run = ppo.run + 1]
           source == [run |-> models["best"].file.run, epoch |-> models["best"].file.epoch]
           begun == [NoState EXCEPT !.source = source]
<1>1. ppo.run + 1 \in Nat /\ UNCHANGED <<checkpoints, evaluated>> /\ source \in Source
  <2>1. models["best"].file \in Model
    BY FileFacts DEF StartPpo, CloningOK, ModelsOK, Stored, Paths, Whole
  <2> QED BY <2>1 DEF StartPpo, PpoOK, TrainerOK, Ppo, Model, Source
<1>2. /\ away \in Ppo /\ away.at = "off" /\ away.update = 0 /\ away.keys = <<>>
      /\ away.state = NoState /\ Trained(NoState, 0)
  BY <1>1, AwaySound
<1>3. ppo' = [away EXCEPT !.at = "rollout", !.state = begun]
  BY DEF StartPpo, Away
<1>4. begun \in TrainState /\ Trained(begun, 0)
  BY <1>1, <1>2 DEF Trained, TrainState
<1> HIDE DEF away, begun, source
<1>5. /\ ppo' \in Ppo /\ ppo'.at = "rollout" /\ ppo'.update = 0 /\ ppo'.keys = <<>>
      /\ ppo'.state = begun
  BY <1>2, <1>3, <1>4 DEF Ppo
<1>6. TrainerOK' /\ SavingPpo'
  BY <1>4, <1>5, NumberFacts DEF TrainerOK, UpdatesDone, SavingPpo, Trained
<1>7. CheckpointsOK' /\ EvaluatedOK'
  BY <1>1 DEF PpoOK, CheckpointsOK, EvaluatedOK, Trained
<1> QED BY <1>6, <1>7 DEF PpoOK

LEMMA PpoPlays == ASSUME PpoOK, Rollout PROVE PpoOK'
<1>1. ppo \in Ppo /\ ppo.at = "rollout" /\ UNCHANGED <<checkpoints, evaluated>>
      /\ ppo' = [ppo EXCEPT !.at = "update", !.batch = ppo.candidate]
  BY DEF Rollout, PpoOK, TrainerOK
<1>2. /\ ppo' \in Ppo /\ ppo'.at = "update" /\ ppo'.update = ppo.update
      /\ ppo'.keys = ppo.keys /\ ppo'.state = ppo.state
  BY <1>1 DEF Ppo
<1>3. TrainerOK' /\ SavingPpo'
  BY <1>1, <1>2 DEF PpoOK, TrainerOK, UpdatesDone, SavingPpo, Trained
<1>4. CheckpointsOK' /\ EvaluatedOK'
  BY <1>1 DEF PpoOK, CheckpointsOK, EvaluatedOK, Trained
<1> QED BY <1>3, <1>4 DEF PpoOK

LEMMA AdvancedTrained ==
  ASSUME NEW state, NEW n \in Nat, Trained(state, n) PROVE Trained(Advanced(state, n + 1), n + 1)
<1> DEFINE s == Advanced(state, n + 1)
<1>1. state \in TrainState /\ state.rng = n /\ state.step = n * StepsPerUpdate
      /\ state.version = [l \in Leaves |-> IF l \in Mutable THEN n ELSE 0]
  BY DEF Trained
<1> DEFINE after == [l \in Leaves |-> IF l \in Mutable THEN n + 1 ELSE state.version[l]]
<1>2. /\ s.source = state.source /\ s.rng = state.rng + 1
      /\ s.step = state.step + StepsPerUpdate /\ s.version = after
      /\ s = [source |-> s.source, version |-> s.version, rng |-> s.rng, step |-> s.step]
  <2>1. s = [state EXCEPT !.version = after, !.rng = state.rng + 1,
                          !.step = state.step + StepsPerUpdate]
    BY DEF Advanced
  <2> HIDE DEF s, after
  <2> QED BY <1>1, <2>1 DEF TrainState
<1> HIDE DEF s
<1>3. s.version = [l \in Leaves |-> IF l \in Mutable THEN n + 1 ELSE 0]
  BY <1>1, <1>2
<1>4. s.step = (n + 1) * StepsPerUpdate /\ s.step \in Nat
  <2>1. n * StepsPerUpdate \in Nat /\ (n + 1) * StepsPerUpdate = n * StepsPerUpdate + StepsPerUpdate
    BY NumberFacts
  <2> QED BY <1>1, <1>2, <2>1, NumberFacts
<1>5. s \in TrainState
  <2>1. s.version \in [Leaves -> Nat]
    BY <1>3
  <2> QED BY <1>1, <1>2, <1>4, <2>1 DEF TrainState
<1> QED BY <1>1, <1>2, <1>3, <1>4, <1>5 DEF Trained, s

LEMMA PpoUpdates == ASSUME PpoOK, Update PROVE PpoOK'
<1> DEFINE trained == Advanced(ppo.state, ppo.update + 1)
           used == Append(ppo.keys, ppo.state.rng)
<1>1. /\ ppo \in Ppo /\ ppo.at = "update" /\ UNCHANGED <<checkpoints, evaluated>>
      /\ ppo' = [ppo EXCEPT !.at = "save", !.state = trained, !.keys = used,
                            !.batch = Absent, !.save = trained, !.steps = UnlinkFirst]
      /\ ppo.update < Updates /\ ppo.update \in Nat /\ Trained(ppo.state, ppo.update)
      /\ ppo.keys \in Seq(Nat) /\ Len(ppo.keys) = ppo.update
      /\ \A i \in 1..ppo.update : ppo.keys[i] = i - 1
  BY DEF Update, PpoOK, TrainerOK, Ppo, UpdatesDone
<1>2. Trained(trained, ppo.update + 1) /\ trained \in TrainState
  <2>1. Trained(trained, ppo.update + 1)
    BY <1>1, AdvancedTrained
  <2> QED BY <2>1 DEF Trained
<1>3. /\ used \in Seq(Nat) /\ Len(used) = ppo.update + 1
      /\ \A i \in 1..(ppo.update + 1) : used[i] = i - 1
  BY <1>1 DEF Trained, TrainState
<1> HIDE DEF trained, used
<1>4. /\ ppo' \in Ppo /\ ppo'.at = "save" /\ ppo'.update = ppo.update
      /\ ppo'.keys = used /\ ppo'.state = trained /\ ppo'.save = trained
      /\ ppo'.steps = UnlinkFirst
  BY <1>1, <1>2, <1>3, UnlinkFacts DEF Ppo
<1>5. TrainerOK' /\ SavingPpo'
  BY <1>1, <1>2, <1>3, <1>4 DEF TrainerOK, UpdatesDone, SavingPpo, Trained
<1>6. CheckpointsOK' /\ EvaluatedOK'
  BY <1>1 DEF PpoOK, CheckpointsOK, EvaluatedOK, Trained
<1> QED BY <1>5, <1>6 DEF PpoOK

LEMMA PpoGoesOn == ASSUME PpoOK, NextUpdate PROVE PpoOK'
<1>1. /\ ppo \in Ppo /\ ppo.at = "save" /\ UNCHANGED <<checkpoints, evaluated>>
      /\ ppo' = [ppo EXCEPT !.at = IF ppo.update + 1 = Updates THEN "done" ELSE "rollout",
                            !.update = ppo.update + 1, !.save = Absent]
      /\ ppo.update < Updates /\ ppo.update \in Nat
  BY DEF NextUpdate, PpoOK, TrainerOK, Ppo
<1>2. /\ ppo' \in Ppo /\ ppo'.update = ppo.update + 1
      /\ ppo'.at = (IF ppo.update + 1 = Updates THEN "done" ELSE "rollout")
      /\ ppo'.keys = ppo.keys /\ ppo'.state = ppo.state
  <2>1. ppo.update + 1 \in 0..Updates
    BY <1>1, NumberFacts
  <2> QED BY <1>1, <2>1 DEF Ppo
<1>3. TrainerOK' /\ SavingPpo'
  BY <1>1, <1>2, NumberFacts DEF PpoOK, TrainerOK, UpdatesDone, SavingPpo, Trained
<1>4. CheckpointsOK' /\ EvaluatedOK'
  BY <1>1 DEF PpoOK, CheckpointsOK, EvaluatedOK, Trained
<1> QED BY <1>3, <1>4 DEF PpoOK

LEMMA PpoSaves == ASSUME PpoOK, SavePpo PROVE PpoOK'
<1> DEFINE k == ppo.update
           left == Tail(ppo.steps)
           file == checkpoints[k].file
           tmp == checkpoints[k].tmp
<1>1. /\ ppo \in Ppo /\ ppo.at = "save" /\ UNCHANGED evaluated
      /\ ppo' = [ppo EXCEPT !.steps = left]
      /\ checkpoints' = [checkpoints EXCEPT ![k] = Written(@, Head(ppo.steps), ppo.save)]
      /\ k \in 0..(Updates - 1) /\ k \in Nat /\ ppo.save = ppo.state
      /\ Trained(ppo.state, k + 1)
  BY NumberFacts DEF SavePpo, PpoOK, TrainerOK, UpdatesDone, SavingPpo, Ppo
<1>2. /\ checkpoints[k] = [file |-> file, tmp |-> tmp]
      /\ DOMAIN checkpoints = 0..(Updates - 1)
  BY <1>1 DEF PpoOK, CheckpointsOK
<1>3. \/ /\ ppo.steps = UnlinkFirst
         /\ Written(checkpoints[k], Head(ppo.steps), ppo.save) = [file |-> file, tmp |-> Torn]
         /\ left = <<"write", "unlink", "rename">>
      \/ /\ ppo.steps = <<"write", "unlink", "rename">>
         /\ Written(checkpoints[k], Head(ppo.steps), ppo.save) = [file |-> file, tmp |-> ppo.save]
         /\ left = <<"unlink", "rename">>
      \/ /\ ppo.steps = <<"unlink", "rename">>
         /\ Written(checkpoints[k], Head(ppo.steps), ppo.save) = [file |-> Absent, tmp |-> ppo.save]
         /\ left = <<"rename">>
      \/ /\ ppo.steps = <<"rename">>
         /\ Written(checkpoints[k], Head(ppo.steps), ppo.save) = [file |-> ppo.save, tmp |-> Absent]
         /\ left = <<>>
  <2>1. \/ ppo.steps = UnlinkFirst
        \/ ppo.steps = <<"write", "unlink", "rename">>
        \/ /\ ppo.steps \in {<<"unlink", "rename">>, <<"rename">>}
           /\ tmp = ppo.save
    BY <1>1 DEF SavePpo, PpoOK, SavingPpo
  <2> HIDE DEF k
  <2>2. CASE ppo.steps = UnlinkFirst
    BY <1>2, <2>2, UnlinkFacts, WrittenFields
  <2>3. CASE ppo.steps = <<"write", "unlink", "rename">>
    BY <1>2, <2>3, UnlinkFacts, WrittenFields
  <2>4. CASE ppo.steps = <<"unlink", "rename">> /\ tmp = ppo.save
    BY <1>2, <2>4, UnlinkFacts, WrittenFields
  <2>5. CASE ppo.steps = <<"rename">> /\ tmp = ppo.save
    BY <1>2, <2>5, ReplaceFacts, WrittenFields
  <2> QED BY <2>1, <2>2, <2>3, <2>4, <2>5
<1>4. PICK f, t :
         /\ Written(checkpoints[k], Head(ppo.steps), ppo.save) = [file |-> f, tmp |-> t]
         /\ f \in {file, Absent, ppo.save}
         /\ \/ left = <<>> \/ left = <<"write", "unlink", "rename">>
            \/ left \in {<<"unlink", "rename">>, <<"rename">>} /\ t = ppo.save
  <2> HIDE DEF k, left
  <2> QED BY <1>3
<1>5. left \in Seq({"open", "write", "unlink", "rename"})
  <2>1. <<>> \in Seq({"open", "write", "unlink", "rename"})
    OBVIOUS
  <2> HIDE DEF left
  <2> QED BY <1>3, <2>1, UnlinkFacts
<1> HIDE DEF left
<1>6. /\ ppo' \in Ppo /\ ppo'.at = "save" /\ ppo'.update = k
      /\ ppo'.keys = ppo.keys /\ ppo'.state = ppo.state /\ ppo'.save = ppo.save
      /\ ppo'.steps = left
  BY <1>1, <1>5 DEF Ppo
<1> HIDE DEF k
<1>7. /\ DOMAIN checkpoints' = 0..(Updates - 1)
      /\ \A j \in 0..(Updates - 1) :
            checkpoints'[j] = IF j = k THEN [file |-> f, tmp |-> t] ELSE checkpoints[j]
  BY <1>1, <1>2, <1>4
<1>8. SavingPpo'
  BY <1>1, <1>4, <1>6, <1>7 DEF SavingPpo
<1>9. CheckpointsOK'
  <2>1. f = Absent \/ Trained(f, k + 1)
    BY <1>1, <1>4 DEF PpoOK, CheckpointsOK
  <2>2. ASSUME NEW j \in 0..(Updates - 1)
        PROVE  /\ checkpoints'[j] = [file |-> checkpoints'[j].file, tmp |-> checkpoints'[j].tmp]
               /\ checkpoints'[j].file = Absent \/ Trained(checkpoints'[j].file, j + 1)
    BY <1>7, <2>1 DEF PpoOK, CheckpointsOK
  <2> QED BY <1>7, <2>2 DEF CheckpointsOK, Trained
<1>10. TrainerOK'
  BY <1>1, <1>6 DEF PpoOK, TrainerOK, UpdatesDone, Trained, k
<1>11. EvaluatedOK'
  BY <1>1 DEF PpoOK, EvaluatedOK, Trained
<1> QED BY <1>8, <1>9, <1>10, <1>11 DEF PpoOK

LEMMA PpoEvaluated == ASSUME PpoOK, Evaluate PROVE PpoOK'
<1>1. UNCHANGED <<checkpoints, ppo>>
  BY DEF Evaluate
<1>2. PICK k \in 0..(Updates - 1) : /\ Whole(checkpoints[k].file)
                                    /\ evaluated' = checkpoints[k].file
  BY DEF Evaluate, PpoOK, CheckpointsOK
<1>3. Trained(evaluated', k + 1) /\ k + 1 \in 1..Updates
  BY <1>2, NumberFacts DEF PpoOK, CheckpointsOK, Whole
<1>4. EvaluatedOK'
  BY <1>3 DEF EvaluatedOK, Trained
<1>5. TrainerOK' /\ SavingPpo' /\ CheckpointsOK'
  BY <1>1 DEF PpoOK, TrainerOK, UpdatesDone, Trained, SavingPpo, CheckpointsOK
<1> QED BY <1>4, <1>5 DEF PpoOK

LEMMA PpoStep == ASSUME CloningOK, PpoOK, [Next]_vars PROVE PpoOK'
<1>1. CASE UNCHANGED <<checkpoints, ppo, evaluated>>
  BY <1>1, PpoKeeps
<1>2. CASE StartCloning \/ Epoch \/ SaveModel \/ CheckPatience \/ KillCloning \/ UNCHANGED vars
  BY <1>1, <1>2 DEF StartCloning, Epoch, SaveModel, CheckPatience, KillCloning, vars
<1> QED BY <1>2, PpoStarts, PpoPlays, PpoUpdates, PpoSaves, PpoGoesOn, PpoLeaves, PpoEvaluated
        DEF Next

-----------------------------------------------------------------------------
(* The theorems. *)

LEMMA TrainingInductive == Spec => [](CloningOK /\ PpoOK)
<1>1. Init => CloningOK /\ PpoOK
  BY CloningInit, PpoInit
<1>2. (CloningOK /\ PpoOK) /\ [Next]_vars => (CloningOK /\ PpoOK)'
  BY CloningStep, PpoStep
<1> QED BY <1>1, <1>2, PTL DEF Spec

\* Killed at any step, neither trainer leaves half a file under a file's own name, and
\* cloning goes on exactly while the validation total may still fall (run_training,
\* save_checkpoint, save_ppo_checkpoint).
THEOREM TrainingIsSound == Spec => []TrainingSound
<1>1. CloningOK /\ PpoOK => TrainingTypeOK
  <2> SUFFICES ASSUME CloningOK, PpoOK PROVE TrainingTypeOK
    OBVIOUS
  <2>1. \A path \in {"best", "last"} : models[path].file # Torn
    BY FileFacts DEF CloningOK, ModelsOK, Stored, Paths, Whole
  <2>2. \A k \in DOMAIN checkpoints : checkpoints[k].file # Torn
    BY FileFacts DEF PpoOK, CheckpointsOK, Trained, Whole
  <2>3. cloning.epoch \in 0..Epochs /\ cloning.best_epoch \in {-1} \cup 1..cloning.epoch
    BY DEF CloningOK, Counted, Cloning, First
  <2>4. ppo.update \in 0..Updates /\ Len(ppo.keys) <= Updates
    BY NumberFacts DEF PpoOK, TrainerOK, UpdatesDone, Ppo
  <2> QED BY <2>1, <2>2, <2>3, <2>4 DEF TrainingTypeOK
<1>2. CloningOK => StopsWhenStale
  <2> SUFFICES ASSUME CloningOK, cloning.best_epoch > 0
               PROVE  /\ cloning.at = "epoch" => cloning.epoch - cloning.best_epoch < Patience
                      /\ cloning.at = "done" /\ cloning.epoch < Epochs =>
                            \A k \in (cloning.epoch - Patience + 1)..cloning.epoch :
                                \/ cloning.totals[k] = NaN
                                \/ cloning.totals[k] >= cloning.best_total
    BY DEF StopsWhenStale
  <2>1. /\ cloning.epoch \in Nat /\ cloning.best_epoch \in 1..cloning.epoch
        /\ Len(cloning.totals) = cloning.epoch
        /\ First(cloning.totals, cloning.best_epoch)
        /\ cloning.best_total = cloning.totals[cloning.best_epoch]
        /\ cloning.totals \in Seq(Totals)
    BY DEF CloningOK, Counted, Cloning, First
  <2>2. cloning.at = "epoch" => cloning.epoch - cloning.best_epoch < Patience
    BY <2>1, NumberFacts DEF CloningOK, Paced, OutOfPatience
  <2>3. ASSUME cloning.at = "done", cloning.epoch < Epochs,
               NEW k \in (cloning.epoch - Patience + 1)..cloning.epoch
        PROVE  cloning.totals[k] = NaN \/ cloning.totals[k] >= cloning.best_total
    <3>1. cloning.epoch - cloning.best_epoch >= Patience
      BY <2>1, <2>3 DEF CloningOK, Paced, OutOfPatience
    <3>2. k \in 1..cloning.epoch
      BY <2>1, <2>3, <3>1, NumberFacts
    <3>3. \A j \in 1..cloning.epoch : cloning.totals[j] = NaN \/ cloning.totals[j] \in Int
      BY <2>1, NumberFacts
    <3> QED BY <2>1, <3>2, <3>3 DEF First
  <2> QED BY <2>2, <2>3
<1> QED BY <1>1, <1>2, TrainingInductive, PTL DEF TrainingSound

\* Whenever cloning is killed, the best file holds the first epoch with the lowest total of
\* its run, and the last file of that run shows no better one (run_training).
THEOREM BestStaysBest == Spec => []BestIsBest
<1>1. CloningOK => BestIsBest
  <2> SUFFICES ASSUME CloningOK PROVE BestIsBest
    OBVIOUS
  <2> DEFINE best == models["best"].file
             last == models["last"].file
  <2>1. /\ Consistent(best, last) /\ Stored(best) /\ Stored(last)
        /\ Whole(best) => best # Absent /\ DOMAIN best.totals = 1..Len(best.totals)
        /\ Whole(last) => last # Absent
    BY DEF CloningOK, ModelsOK, Paths, Stored, Model, Whole
  <2> HIDE DEF best, last
  <2>2. ASSUME Whole(best)
        PROVE  LET seen == {k \in DOMAIN best.totals : best.totals[k] # NaN} IN
               /\ best.epoch \in seen
               /\ \A k \in seen : /\ best.totals[best.epoch] <= best.totals[k]
                                  /\ best.totals[best.epoch] = best.totals[k] => best.epoch <= k
    BY <2>1, <2>2 DEF Consistent, First
  <2> QED BY <2>1, <2>2 DEF BestIsBest, Consistent, best, last
<1> QED BY <1>1, TrainingInductive, PTL

\* What is evaluated is one state of the PPO trainer: all its parameters, its step and its
\* random key after one update, with the sell-quantity head of the cloned policy; and no
\* two updates shuffle by one key (ppo_update, frozen_leaf_mask, save_ppo_checkpoint).
THEOREM CheckpointsAreWhole == Spec => []CheckpointIsOneState
<1>1. PpoOK => CheckpointIsOneState
  <2> SUFFICES ASSUME PpoOK PROVE CheckpointIsOneState
    OBVIOUS
  <2>1. ASSUME evaluated # Absent
        PROVE  \E n \in 1..Updates :
                  /\ evaluated.version = [l \in Leaves |-> IF l = "sell_quantity" THEN 0 ELSE n]
                  /\ evaluated.step = n * StepsPerUpdate
    <3>1. PICK n \in 1..Updates : Trained(evaluated, n)
      BY <2>1 DEF PpoOK, EvaluatedOK
    <3>2. [l \in Leaves |-> IF l \in Mutable THEN n ELSE 0]
             = [l \in Leaves |-> IF l = "sell_quantity" THEN 0 ELSE n]
      BY DEF Mutable
    <3> QED BY <3>1, <3>2 DEF Trained
  <2>2. /\ DOMAIN ppo.keys = 1..UpdatesDone /\ UpdatesDone \in Nat
        /\ \A i \in 1..UpdatesDone : ppo.keys[i] = i - 1
        /\ Len(ppo.keys) = UpdatesDone
    BY DEF PpoOK, TrainerOK, UpdatesDone, Ppo
  <2>3. \A i, j \in DOMAIN ppo.keys : ppo.keys[i] = ppo.keys[j] => i = j
    BY <2>2
  <2>4. ASSUME NEW k \in DOMAIN checkpoints, Whole(checkpoints[k].file), k + 2 <= Len(ppo.keys)
        PROVE  ppo.keys[k + 2] = checkpoints[k].file.rng
    <3>1. k \in 0..(Updates - 1) /\ checkpoints[k].file.rng = k + 1
      BY <2>4 DEF PpoOK, CheckpointsOK, Whole, Trained
    <3>2. k + 2 \in 1..UpdatesDone
      BY <2>2, <2>4, <3>1, NumberFacts
    <3> QED BY <2>2, <3>1, <3>2
  <2> QED BY <2>1, <2>3, <2>4 DEF CheckpointIsOneState
<1> QED BY <1>1, TrainingInductive, PTL

\* Once there is a cloned policy there always is one: a kill leaves the one before
\* (save_checkpoint's os.replace).
THEOREM ModelsAreKept == Spec => KeptOnceSaved
<1> DEFINE Kept == \A path \in {"best", "last"} :
                     Whole(models[path].file) => Whole(models'[path].file)
<1>1. CloningOK /\ [Next]_vars => [Kept]_vars
  <2> SUFFICES ASSUME CloningOK, [Next]_vars, NEW path \in {"best", "last"},
                      Whole(models[path].file)
               PROVE  Whole(models'[path].file)
    OBVIOUS
  <2>1. CASE UNCHANGED models
    BY <2>1
  <2>2. CASE SaveModel
    <3> DEFINE save == cloning.saves[1]
               step == Head(save.steps)
    <3>1. /\ models' = [models EXCEPT ![save.path] = Written(@, step, save.content)]
          /\ Saving(save) /\ save \in Save
      BY <2>2, SaveUnderWay
    <3>2. /\ models[path] = [file |-> models[path].file, tmp |-> models[path].tmp]
          /\ path \in DOMAIN models
      BY DEF CloningOK, ModelsOK, Paths
    <3>3. step \in {"open", "write"} \/ (step = "rename" /\ models[save.path].tmp = Now)
      <4>1. \/ save.steps = ReplaceSteps \/ save.steps = <<"write", "rename">>
            \/ save.steps = <<"rename">> /\ models[save.path].tmp = Now
        BY <3>1 DEF Saving
      <4> HIDE DEF save
      <4> QED BY <4>1, ReplaceFacts
    <3>4. Whole(Now)
      BY <3>1, FileFacts DEF Saving, Save
    <3> HIDE DEF step
    <3>5. CASE path # save.path
      BY <3>1, <3>2, <3>5
    <3>6. CASE path = save.path
      <4>1. models'[path] = Written(models[path], step, save.content)
        BY <3>1, <3>2, <3>6
      <4>2. Written(models[path], step, save.content).file \in {models[path].file, Now}
        BY <3>2, <3>3, <3>6, WrittenFields
      <4> QED BY <3>4, <4>1, <4>2
    <3> QED BY <3>5, <3>6
  <2> QED BY <2>1, <2>2 DEF Next, vars, StartCloning, Epoch, CheckPatience, KillCloning,
                            StartPpo, Rollout, Update, SavePpo, NextUpdate, KillPpo, Evaluate
<1>2. Spec => [][Kept]_vars
  BY <1>1, TrainingInductive, PTL DEF Spec
<1> QED BY <1>2 DEF KeptOnceSaved

-----------------------------------------------------------------------------
(* Induction over the naturals as a fact about sets, and what it gives for *)
(* functions that are defined from one place to the next.                  *)

\* A set of naturals that is not empty has a least member.
LEMMA LeastNatural ==
  ASSUME NEW T \in SUBSET Nat, T # {}
  PROVE  \E x \in T : \A y \in T : x <= y
<1> DEFINE R == {ss \in Nat \X Nat : ss[1] < ss[2]}
<1>1. OpToRel(<, Nat) = R
  BY DEF OpToRel
<1>2. IsWellFoundedOn(R, Nat)
  BY <1>1, NatLessThanWellFounded
<1> HIDE DEF R
<1>3. PICK x \in T : \A y \in T : ~(<<y, x>> \in R)
  BY <1>2, WFMin
<1> USE DEF R
<1>4. ASSUME NEW y \in T PROVE x <= y
  <2>1. SUFFICES ASSUME y < x PROVE FALSE
    OBVIOUS
  <2>2. <<y, x>> \in Nat \X Nat /\ <<y, x>>[1] < <<y, x>>[2]
    BY <2>1
  <2> QED BY <2>2, <1>3
<1> QED BY <1>4

\* A set that has 0 and, with every number, the next is all of Nat.
LEMMA Induction ==
  ASSUME NEW T \in SUBSET Nat, 0 \in T, \A n \in T : n + 1 \in T
  PROVE  T = Nat
<1>1. SUFFICES ASSUME Nat \ T # {} PROVE FALSE
  OBVIOUS
<1>2. PICK x \in Nat \ T : \A y \in Nat \ T : x <= y
  BY <1>1, LeastNatural
<1>3. x - 1 \in Nat
  BY <1>2
<1>4. x - 1 \in T
  BY <1>2, <1>3
<1> QED BY <1>2, <1>3, <1>4

\* What the first place has and every place hands on, all places have.
LEMMA Everywhere ==
  ASSUME NEW n \in Nat, NEW W, 0 \in W, \A k \in 1..n : k - 1 \in W => k \in W
  PROVE  \A k \in 0..n : k \in W
<1> DEFINE T == {m \in Nat : m <= n => m \in W}
<1>1. 0 \in T
  OBVIOUS
<1>2. ASSUME NEW m \in T PROVE m + 1 \in T
  <2>1. CASE m + 1 <= n
    <3>1. m <= n /\ m + 1 \in 1..n /\ (m + 1) - 1 = m
      BY <2>1
    <3> QED BY <3>1
  <2>2. CASE ~(m + 1 <= n)
    BY <2>2
  <2> QED BY <2>1, <2>2
<1> HIDE DEF T
<1>3. T = Nat
  <2>1. T \subseteq Nat
    BY DEF T
  <2> QED BY <2>1, <1>1, <1>2, Induction
<1> QED BY <1>3 DEF T

\* f goes from base by the functions G.
Unfolds(f, n, S, base, G) ==
  f \in [0..n -> S] /\ f[0] = base /\ \A k \in 1..n : f[k] = G[k][f[k - 1]]

\* A function is defined from one place to the next by any choice of the next value.
LEMMA Recursion ==
  ASSUME NEW n \in Nat, NEW S, NEW base \in S, NEW G \in [1..n -> [S -> S]]
  PROVE  \E f : Unfolds(f, n, S, base, G)
<1> DEFINE P(m, f) == f \in [0..m -> S] /\ f[0] = base /\ \A k \in 1..m : f[k] = G[k][f[k - 1]]
           T == {m \in Nat : m <= n => \E f : P(m, f)}
<1>1. 0 \in T
  <2> DEFINE g == [k \in 0..0 |-> base]
  <2>1. (\A k \in 0..0 : k = 0) /\ 0 \in 0..0 /\ (\A k \in 1..0 : FALSE)
    OBVIOUS
  <2>a. g \in [0..0 -> S] /\ g[0] = base
    BY <2>1
  <2> HIDE DEF g
  <2>2. P(0, g)
    BY <2>1, <2>a
  <2> HIDE DEF P
  <2>3. \E f : P(0, f)
    BY <2>2
  <2> QED BY <2>3
<1>2. ASSUME NEW m \in T PROVE m + 1 \in T
  <2> HIDE DEF P
  <2> SUFFICES ASSUME m + 1 <= n PROVE \E f : P(m + 1, f)
    OBVIOUS
  <2>1. PICK f : P(m, f)
    OBVIOUS
  <2> USE DEF P
  <2> DEFINE g == [k \in 0..(m + 1) |-> IF k = m + 1 THEN G[m + 1][f[m]] ELSE f[k]]
  <2>2. m + 1 \in 1..n /\ f[m] \in S /\ G[m + 1][f[m]] \in S
    BY <2>1
  <2>3. g \in [0..(m + 1) -> S]
    <3>1. ASSUME NEW k \in 0..(m + 1) PROVE g[k] \in S
      <4>1. CASE k = m + 1
        BY <4>1, <2>2
      <4>2. CASE k # m + 1
        <5>1. k \in 0..m
          BY <4>2
        <5> QED BY <4>2, <5>1, <2>1
      <4> QED BY <4>1, <4>2
    <3> QED BY <3>1
  <2>4. g[0] = base
    BY <2>1
  <2>5. ASSUME NEW k \in 1..(m + 1) PROVE g[k] = G[k][g[k - 1]]
    <3>1. CASE k = m + 1
      <4>1. k - 1 = m /\ m \in 0..(m + 1) /\ m # m + 1
        BY <3>1
      <4> QED BY <4>1, <3>1
    <3>2. CASE k # m + 1
      <4>1. k \in 1..m /\ k - 1 \in 0..(m + 1) /\ k - 1 # m + 1 /\ k \in 0..(m + 1)
        BY <3>2
      <4> QED BY <4>1, <3>2, <2>1
    <3> QED BY <3>1, <3>2
  <2> HIDE DEF g
  <2> QED BY <2>3, <2>4, <2>5
<1> HIDE DEF T
<1>3. T = Nat
  <2>1. T \subseteq Nat
    BY DEF T
  <2> QED BY <2>1, <1>1, <1>2, Induction
<1>4. PICK f : P(n, f)
  BY <1>3 DEF T
<1>5. Unfolds(f, n, S, base, G)
  BY <1>4 DEF Unfolds
<1> QED BY <1>5


\* A function on the places 1..n is a sequence.
LEMMA Tuple ==
  ASSUME NEW V, NEW n \in Nat, NEW s, s = [k \in 1..n |-> s[k]], \A k \in 1..n : s[k] \in V
  PROVE  s \in Seq(V) /\ Len(s) = n
<1>1. s \in [1..n -> V]
  OBVIOUS
<1> QED BY <1>1

\* A sequence is the function of its elements.
LEMMA IsTuple ==
  ASSUME NEW V, NEW s \in Seq(V)
  PROVE  s = [k \in 1..Len(s) |-> s[k]] /\ Len(s) \in Nat /\ DOMAIN s = 1..Len(s)
         /\ \A k \in 1..Len(s) : s[k] \in V
OBVIOUS

LEMMA SameSeq ==
  ASSUME NEW V, NEW s \in Seq(V), NEW t \in Seq(V), Len(s) = Len(t),
         \A k \in 1..Len(s) : s[k] = t[k]
  PROVE  s = t
OBVIOUS

LEMMA JoinIs ==
  ASSUME NEW V, NEW s \in Seq(V), NEW t \in Seq(V)
  PROVE  /\ s \o t \in Seq(V) /\ Len(s \o t) = Len(s) + Len(t)
         /\ \A k \in 1..Len(s) : (s \o t)[k] = s[k]
         /\ \A k \in 1..Len(t) : (s \o t)[Len(s) + k] = t[k]
OBVIOUS

\* p are the running totals of s, or its running concatenations.
Sums(p, s) ==
    p \in [0..Len(s) -> Int] /\ p[0] = 0 /\ \A k \in 1..Len(s) : p[k] = p[k - 1] + s[k]
Runs(p, V, s) ==
    p \in [0..Len(s) -> Seq(V)] /\ p[0] = <<>> /\ \A k \in 1..Len(s) : p[k] = p[k - 1] \o s[k]

\* The total of numbers is what their running totals come to.
LEMMA TotalIs ==
  ASSUME NEW s \in Seq(Int), NEW p, Sums(p, s)
  PROVE  Total(s) = p[Len(s)]
<1> DEFINE n == Len(s)
           Step(g) == [k \in 0..n |-> IF k = 0 THEN 0 ELSE g[k - 1] + s[k]]
           sum == CHOOSE g : g = Step(g)
<1>1. n \in Nat
  OBVIOUS
<1>2. p = Step(p)
  <2>1. ASSUME NEW k \in 0..n PROVE p[k] = Step(p)[k]
    <3>1. CASE k = 0
      BY <3>1 DEF Sums
    <3>2. CASE k # 0
      <4>1. k \in 1..n
        BY <3>2
      <4> QED BY <4>1, <3>2 DEF Sums
    <3> QED BY <3>1, <3>2
  <2>2. DOMAIN Step(p) = 0..n /\ p = [k \in 0..n |-> p[k]]
    BY DEF Sums
  <2>3. Step(p) = [k \in 0..n |-> Step(p)[k]]
    BY <2>2
  <2> HIDE DEF Step
  <2> QED BY <2>1, <2>2, <2>3
<1>3. sum = Step(sum)
  BY <1>2
<1>4. Total(s) = sum[n]
  BY DEF Total
<1> HIDE DEF sum, n
<1>5. sum[0] = 0 /\ \A k \in 1..n : sum[k] = sum[k - 1] + s[k]
  <2>1. sum[0] = 0
    BY <1>3, <1>1
  <2>2. ASSUME NEW k \in 1..n PROVE sum[k] = sum[k - 1] + s[k]
    <3>1. k \in 0..n /\ k # 0
      BY <1>1
    <3> QED BY <1>3, <3>1
  <2> QED BY <2>1, <2>2
<1> HIDE DEF Step
<1> DEFINE W == {k \in 0..n : sum[k] = p[k]}
<1>6. \A k \in 0..n : k \in W
  <2>1. 0 \in W
    BY <1>5, <1>1 DEF Sums
  <2>2. ASSUME NEW k \in 1..n, k - 1 \in W PROVE k \in W
    <3>1. k - 1 \in 0..n /\ k \in 0..n
      BY <1>1
    <3>2. sum[k - 1] = p[k - 1]
      BY <3>1, <2>2
    <3>3. sum[k] = p[k]
      BY <3>2, <1>5 DEF Sums, n
    <3> QED BY <3>1, <3>3
  <2> HIDE DEF W
  <2> QED BY <1>1, <2>1, <2>2, Everywhere
<1>7. sum[n] = p[n]
  <2>1. n \in 0..n
    BY <1>1
  <2> QED BY <2>1, <1>6
<1>8. Total(s) = p[n]
  BY <1>4, <1>7
<1> QED BY <1>8 DEF n

\* Sequences put one after the other are what their running concatenations come to.
LEMMA FlatIs ==
  ASSUME NEW V, NEW s \in Seq(Seq(V)), NEW p, Runs(p, V, s)
  PROVE  FlattenSeq(s) = p[Len(s)]
<1> DEFINE n == Len(s)
           Step(g) == [k \in 1..n |-> IF k = 1 THEN s[k] ELSE g[k - 1] \o s[k]]
           flat == CHOOSE g : g = Step(g)
<1>1. n \in Nat /\ DOMAIN s = 1..n /\ \A k \in 1..n : s[k] \in Seq(V)
  OBVIOUS
<1>2. p \in [0..n -> Seq(V)] /\ p[0] = <<>> /\ \A k \in 1..n : p[k] = p[k - 1] \o s[k]
  BY DEF Runs
<1>c. ASSUME 1 \in 1..n PROVE p[1] = s[1]
  <2>1. p[1] = p[1 - 1] \o s[1] /\ s[1] \in Seq(V)
    BY <1>c, <1>1, <1>2
  <2>2. 1 - 1 = 0
    OBVIOUS
  <2>3. p[1] = <<>> \o s[1]
    BY <2>1, <2>2, <1>2
  <2> QED BY <2>1, <2>3
<1>a. CASE n = 0
  <2>1. s = <<>>
    BY <1>a
  <2>2. FlattenSeq(s) = s
    BY <1>a DEF FlattenSeq
  <2> QED BY <2>1, <2>2, <1>a, <1>2
<1>b. CASE n # 0
  <2> DEFINE q == [k \in 1..n |-> p[k]]
  <2>2. q = Step(q)
    <3>1. ASSUME NEW k \in 1..n PROVE q[k] = Step(q)[k]
      <4>1. CASE k = 1
        BY <4>1, <1>c
      <4>2. CASE k # 1
        <5>1. k - 1 \in 1..n
          BY <4>2
        <5> QED BY <5>1, <4>2, <1>2
      <4> QED BY <4>1, <4>2
    <3>2. DOMAIN Step(q) = 1..n
      OBVIOUS
    <3>3. Step(q) = [k \in 1..n |-> Step(q)[k]]
      BY <3>2
    <3>4. q = [k \in 1..n |-> q[k]]
      OBVIOUS
    <3> HIDE DEF Step, q
    <3> QED BY <3>1, <3>3, <3>4
  <2>3. flat = Step(flat)
    BY <2>2
  <2>4. FlattenSeq(s) = flat[n]
    BY <1>b DEF FlattenSeq
  <2> HIDE DEF n, flat, q
  <2>5. flat[1] = s[1] /\ \A k \in 1..n : k # 1 => flat[k] = flat[k - 1] \o s[k]
    <3>1. flat[1] = s[1]
      <4>1. 1 \in 1..n
        BY <1>b, <1>1
      <4> QED BY <2>3, <4>1
    <3>2. ASSUME NEW k \in 1..n, k # 1 PROVE flat[k] = flat[k - 1] \o s[k]
      BY <2>3, <3>2
    <3> QED BY <3>1, <3>2
  <2> HIDE DEF Step
  <2> DEFINE W == {k \in 0..n : k # 0 => flat[k] = p[k]}
  <2>6. \A k \in 0..n : k \in W
    <3>1. 0 \in W
      BY <1>1
    <3>2. ASSUME NEW k \in 1..n, k - 1 \in W PROVE k \in W
      <4>1. k - 1 \in 0..n /\ k \in 0..n /\ k # 0
        BY <1>1
      <4>2. CASE k = 1
        <5>2. p[1] = s[1]
          BY <4>2, <1>c
        <5> QED BY <5>2, <4>1, <4>2, <2>5
      <4>3. CASE k # 1
        <5>1. flat[k - 1] = p[k - 1]
          BY <4>1, <4>3, <3>2
        <5>2. flat[k] = flat[k - 1] \o s[k]
          BY <2>5, <4>3
        <5>3. flat[k] = p[k]
          BY <5>1, <5>2, <1>2
        <5> QED BY <5>3, <4>1
      <4> QED BY <4>2, <4>3
    <3> HIDE DEF W
    <3> QED BY <1>1, <3>1, <3>2, Everywhere
  <2>7. flat[n] = p[n]
    <3>1. n \in 0..n
      BY <1>1
    <3> QED BY <3>1, <2>6, <1>b
  <2>8. FlattenSeq(s) = p[n]
    BY <2>4, <2>7
  <2> QED BY <2>8 DEF n
<1> QED BY <1>a, <1>b

\* There are running concatenations, and running totals.
LEMMA Running ==
  ASSUME NEW V, NEW s \in Seq(Seq(V))
  PROVE  \E p : Runs(p, V, s)
<1> DEFINE n == Len(s)
           G == [k \in 1..n |-> [t \in Seq(V) |-> t \o s[k]]]
<1>0. n \in Nat /\ \A k \in 1..n : s[k] \in Seq(V)
  OBVIOUS
<1>1. G \in [1..n -> [Seq(V) -> Seq(V)]]
  BY <1>0
<1>2. <<>> \in Seq(V)
  OBVIOUS
<1> HIDE DEF G, n
<1>3. PICK p : Unfolds(p, n, Seq(V), <<>>, G)
  BY <1>0, <1>1, <1>2, Recursion
<1>4. p \in [0..n -> Seq(V)] /\ p[0] = <<>> /\ \A k \in 1..n : p[k] = G[k][p[k - 1]]
  BY <1>3 DEF Unfolds
<1>5. ASSUME NEW k \in 1..n PROVE p[k] = p[k - 1] \o s[k]
  <2>1. k - 1 \in 0..n /\ p[k - 1] \in Seq(V)
    BY <1>0, <1>4
  <2> QED BY <2>1, <1>4 DEF G
<1>6. Runs(p, V, s)
  BY <1>4, <1>5 DEF Runs, n
<1> QED BY <1>6

LEMMA RunningTotals ==
  ASSUME NEW s \in Seq(Nat)
  PROVE  \E p : Sums(p, s) /\ p \in [0..Len(s) -> Nat]
<1> DEFINE n == Len(s)
           G == [k \in 1..n |-> [t \in Nat |-> t + s[k]]]
<1>0. n \in Nat /\ \A k \in 1..n : s[k] \in Nat
  OBVIOUS
<1>1. G \in [1..n -> [Nat -> Nat]]
  BY <1>0
<1> HIDE DEF G, n
<1>3. PICK p : Unfolds(p, n, Nat, 0, G)
  BY <1>0, <1>1, Recursion
<1>4. p \in [0..n -> Nat] /\ p[0] = 0 /\ \A k \in 1..n : p[k] = G[k][p[k - 1]]
  BY <1>3 DEF Unfolds
<1>5. ASSUME NEW k \in 1..n PROVE p[k] = p[k - 1] + s[k]
  <2>1. k - 1 \in 0..n /\ p[k - 1] \in Nat
    BY <1>0, <1>4
  <2> QED BY <2>1, <1>4 DEF G
<1>6. p \in [0..n -> Int]
  BY <1>4
<1>7. Sums(p, s)
  BY <1>4, <1>5, <1>6 DEF Sums, n
<1> QED BY <1>4, <1>7 DEF n

\* So they are a sequence, and the total of natural numbers is one.
LEMMA FlatSeq ==
  ASSUME NEW V, NEW s \in Seq(Seq(V))
  PROVE  FlattenSeq(s) \in Seq(V)
<1>1. PICK p : Runs(p, V, s)
  BY Running
<1>2. FlattenSeq(s) = p[Len(s)]
  BY <1>1, FlatIs
<1>3. Len(s) \in 0..Len(s)
  OBVIOUS
<1> QED BY <1>1, <1>2, <1>3 DEF Runs

LEMMA TotalNat ==
  ASSUME NEW s \in Seq(Nat)
  PROVE  Total(s) \in Nat
<1>1. PICK p : Sums(p, s) /\ p \in [0..Len(s) -> Nat]
  BY RunningTotals
<1>2. Total(s) = p[Len(s)]
  <2>1. s \in Seq(Int)
    OBVIOUS
  <2> QED BY <2>1, <1>1, TotalIs
<1>3. Len(s) \in 0..Len(s)
  OBVIOUS
<1> QED BY <1>1, <1>2, <1>3

\* Nothing put after nothing is nothing; the total of nothing is nothing.
LEMMA FlatNothing ==
  ASSUME NEW n \in Nat, NEW s, s = [k \in 1..n |-> <<>>]
  PROVE  FlattenSeq(s) = <<>>
<1> DEFINE p == [k \in 0..n |-> <<>>]
<1>1. s \in Seq(Seq({})) /\ Len(s) = n /\ \A k \in 1..n : s[k] = <<>>
  OBVIOUS
<1>2. Runs(p, {}, s)
  BY <1>1 DEF Runs
<1>3. p[n] = <<>>
  OBVIOUS
<1> HIDE DEF p
<1> QED BY <1>1, <1>2, <1>3, FlatIs

LEMMA TotalNothing ==
  ASSUME NEW n \in Nat, NEW s, s = [k \in 1..n |-> 0]
  PROVE  Total(s) = 0
<1> DEFINE p == [k \in 0..n |-> 0]
<1>1. s \in Seq(Int) /\ Len(s) = n /\ \A k \in 1..n : s[k] = 0
  OBVIOUS
<1>2. Sums(p, s)
  BY <1>1 DEF Sums
<1>3. p[n] = 0
  OBVIOUS
<1> HIDE DEF p
<1> QED BY <1>1, <1>2, <1>3, TotalIs

-----------------------------------------------------------------------------
(* The recorded game. *)

\* The least and the greatest of a set are known by what they are.
LEMMA MinIs ==
  ASSUME NEW S \in SUBSET Int, NEW x \in S, \A y \in S : x <= y
  PROVE  Min(S) = x
<1>1. \A z \in S : (\A y \in S : z <= y) => z = x
  OBVIOUS
<1>2. \E z \in S : \A y \in S : z <= y
  OBVIOUS
<1>3. Min(S) \in S /\ \A y \in S : Min(S) <= y
  BY <1>2 DEF Min
<1> QED BY <1>1, <1>3

LEMMA MaxIs ==
  ASSUME NEW S \in SUBSET Int, NEW x \in S, \A y \in S : y <= x
  PROVE  Max(S) = x
<1>1. \A z \in S : (\A y \in S : z >= y) => z = x
  OBVIOUS
<1>2. \E z \in S : \A y \in S : z >= y
  OBVIOUS
<1>3. Max(S) \in S /\ \A y \in S : Max(S) >= y
  BY <1>2 DEF Max
<1> QED BY <1>1, <1>3

\* The quadrants in the order they come to be owned; a farm has a number of them.
AllLand == <<"NW", "NE", "SW", "SE">>
Owned(n) == SubSeq(AllLand, 1, n)
Quadrants == {"NW", "NE", "SW", "SE"}

Acts == [farmer : {"PASS", "PLANT", "DIG", "HARVEST", "FERTILIZE"},
         market : Seq({"HIRE", "BUY_LAND", "SELL"})]
Farms == [hires_today : Nat, unlocked_quadrants : {Owned(n) : n \in 1..4},
          tiles : {<<<<Locked, t>>>> : t \in Tiles}]
Steps == [day : Nat, hour : Nat, action : [Seats -> Acts \cup {None}], farms : [Seats -> Farms]]
Turns == [day : Nat, hour : Nat, action : Actions, hired : Nat, lands : Seq(Quadrants),
          worked : Tiles]

\* What a turn made of the observation before it.
Turned(seat, before, turn, after) ==
    LET farm == before.farms[seat]
        next == after.farms[seat]
    IN  /\ turn.day = before.day /\ turn.hour = before.hour
        /\ turn.worked = farm.tiles[1][2]
        /\ after.action = [s \in Seats |-> IF s = seat THEN turn.action ELSE None]
        /\ Len(turn.lands) <= OrdersOf(turn.action, "BUY_LAND")
        /\ next.unlocked_quadrants = farm.unlocked_quadrants \o turn.lands
        /\ next.hires_today = IF before.hour + 1 = Hours THEN 0 ELSE farm.hires_today + turn.hired

Game ==
    /\ actor \in Seats /\ drift \in BOOLEAN
    /\ steps \in Seq(Steps) /\ real \in Seq(Turns)
    /\ Len(steps) = Len(real) + 1 /\ Len(steps) <= LastIndex + 1
    /\ \A i \in 1..Len(steps) :
          /\ steps[i].day * Hours + steps[i].hour = i - 1 /\ steps[i].hour < Hours
          /\ steps[i].hour = 0 => steps[i].farms[actor].hires_today = 0
    /\ \A i \in 1..Len(real) : Turned(actor, steps[i], real[i], steps[i + 1])

LEMMA Bounds == Hours \in Nat /\ Hours > 0 /\ BinHours \in Nat /\ BinHours > 0 /\ LastIndex \in Nat
  BY ReplaysAssumption

\* One day more is Hours more.
LEMMA DayLength ==
  ASSUME NEW a \in Nat, NEW b \in Nat
  PROVE  /\ a * Hours \in Nat /\ b * Hours \in Nat
         /\ (a + 1) * Hours = a * Hours + Hours
         /\ a < b => a * Hours + Hours <= b * Hours
<1>1. a * Hours \in Nat /\ b * Hours \in Nat
  BY Bounds
<1>2. (a + 1) * Hours = a * Hours + Hours
  BY Bounds
<1>3. ASSUME a < b PROVE a * Hours + Hours <= b * Hours
  <2>1. PICK c \in Nat : b = a + 1 + c
    <3>1. b - a - 1 \in Nat /\ b = a + 1 + (b - a - 1)
      BY <1>3
    <3> QED BY <3>1
  <2>2. b * Hours = a * Hours + Hours + c * Hours
    BY <2>1, Bounds
  <2>3. c * Hours \in Nat
    BY Bounds
  <2> QED BY <2>2, <2>3, <1>1, Bounds
<1> QED BY <1>1, <1>2, <1>3

\* A time has one day and one hour.
LEMMA OneTime ==
  ASSUME NEW a \in Nat, NEW b \in Nat, NEW h \in Nat, NEW g \in Nat, h < Hours, g < Hours,
         a * Hours + h = b * Hours + g
  PROVE  a = b /\ h = g
<1>1. ~(a < b)
  <2>1. a < b => a * Hours + Hours <= b * Hours
    BY DayLength
  <2> QED BY <2>1, DayLength, Bounds
<1>2. ~(b < a)
  <2>1. b < a => b * Hours + Hours <= a * Hours
    BY DayLength
  <2> QED BY <2>1, DayLength, Bounds
<1>3. a = b
  BY <1>1, <1>2
<1>4. h = g
  <2>1. a * Hours \in Nat
    BY DayLength
  <2> QED BY <1>3, <2>1
<1> QED BY <1>3, <1>4

\* The day and the hour of an observation.
LEMMA Clock ==
  ASSUME Game, NEW i \in 1..Len(steps), NEW d \in Nat, NEW h \in Nat, h < Hours,
         i = d * Hours + h + 1
  PROVE  steps[i].day = d /\ steps[i].hour = h
<1>1. steps[i] \in Steps
  BY DEF Game
<1>2. steps[i].day \in Nat /\ steps[i].hour \in Nat /\ steps[i].hour < Hours
      /\ steps[i].day * Hours + steps[i].hour = i - 1
  BY <1>1 DEF Game, Steps
<1>3. steps[i].day * Hours + steps[i].hour = d * Hours + h
  <2>1. d * Hours \in Nat
    BY DayLength
  <2> QED BY <1>2, <2>1
<1> QED BY <1>2, <1>3, OneTime

\* The observations of a day are those from its morning to before the next.
LEMMA DayOf ==
  ASSUME Game, NEW i \in 1..Len(steps), NEW d \in Nat
  PROVE  /\ steps[i].day = d <=> d * Hours + 1 <= i /\ i <= d * Hours + Hours
         /\ steps[i].day = d /\ steps[i].hour = 0 <=> i = d * Hours + 1
         /\ steps[i].day = d => steps[i].hour = i - 1 - d * Hours
<1>1. steps[i] \in Steps
  BY DEF Game
<1>2. steps[i].day \in Nat /\ steps[i].hour \in Nat /\ steps[i].hour < Hours
      /\ steps[i].day * Hours + steps[i].hour = i - 1
  BY <1>1 DEF Game, Steps
<1>3. d * Hours \in Nat
  BY DayLength
<1>4. ASSUME d * Hours + 1 <= i, i <= d * Hours + Hours
      PROVE  steps[i].day = d /\ steps[i].hour = i - 1 - d * Hours
  <2>1. i - 1 - d * Hours \in Nat /\ i - 1 - d * Hours < Hours
        /\ i = d * Hours + (i - 1 - d * Hours) + 1
    BY <1>3, <1>4, Bounds
  <2> QED BY <2>1, Clock
<1>5. ASSUME steps[i].day = d
      PROVE  d * Hours + 1 <= i /\ i <= d * Hours + Hours /\ steps[i].hour = i - 1 - d * Hours
  BY <1>2, <1>3, <1>5, Bounds
<1>6. ASSUME i = d * Hours + 1 PROVE steps[i].day = d /\ steps[i].hour = 0
  <2>1. d * Hours + 1 <= i /\ i <= d * Hours + Hours /\ i - 1 - d * Hours = 0
    BY <1>3, <1>6, Bounds
  <2> QED BY <2>1, <1>4
<1>7. ASSUME steps[i].day = d, steps[i].hour = 0 PROVE i = d * Hours + 1
  BY <1>5, <1>7, <1>3
<1>8. steps[i].day = d <=> d * Hours + 1 <= i /\ i <= d * Hours + Hours
  BY <1>4, <1>5
<1>9. steps[i].day = d /\ steps[i].hour = 0 <=> i = d * Hours + 1
  BY <1>6, <1>7
<1> QED BY <1>5, <1>8, <1>9

\* A day has begun once its morning is observed; the days follow one another.
LEMMA Begun ==
  ASSUME Game, NEW d \in Nat
  PROVE  d \in DaysStarted <=> d * Hours + 1 <= Len(steps)
<1>1. DOMAIN steps = 1..Len(steps) /\ Len(steps) \in Nat
  BY DEF Game
<1>2. ASSUME d \in DaysStarted PROVE d * Hours + 1 <= Len(steps)
  <2>1. PICK i \in 1..Len(steps) : steps[i].hour = 0 /\ steps[i].day = d
    BY <1>1, <1>2 DEF DaysStarted
  <2>2. i = d * Hours + 1
    BY <2>1, DayOf
  <2> QED BY <2>2, <1>1
<1>3. ASSUME d * Hours + 1 <= Len(steps) PROVE d \in DaysStarted
  <2>0. d * Hours \in Nat
    BY DayLength
  <2>1. d * Hours + 1 \in 1..Len(steps)
    BY <1>1, <1>3, <2>0
  <2>2. steps[d * Hours + 1].day = d /\ steps[d * Hours + 1].hour = 0
    BY <2>1, DayOf
  <2> QED BY <1>1, <2>1, <2>2 DEF DaysStarted
<1> QED BY <1>2, <1>3

LEMMA DaysAre ==
  ASSUME Game
  PROVE  /\ steps[Len(steps)].day \in Nat /\ DaysStarted = 0..steps[Len(steps)].day
         /\ 0 \in DaysStarted
<1> DEFINE last == steps[Len(steps)].day
<1>1. DOMAIN steps = 1..Len(steps) /\ Len(steps) \in 1..Len(steps) /\ Len(steps) \in Nat
  BY DEF Game
<1>2. last \in Nat /\ last * Hours + 1 <= Len(steps) /\ Len(steps) <= last * Hours + Hours
  <2>1. steps[Len(steps)] \in Steps
    BY <1>1 DEF Game
  <2>2. last \in Nat
    BY <2>1 DEF Steps
  <2> QED BY <2>2, <1>1, DayOf
<1>3. DaysStarted \subseteq Nat
  <2>1. ASSUME NEW i \in 1..Len(steps) PROVE steps[i].day \in Nat
    <3>1. steps[i] \in Steps
      BY DEF Game
    <3> QED BY <3>1 DEF Steps
  <2> QED BY <1>1, <2>1 DEF DaysStarted
<1> HIDE DEF last
<1>4. ASSUME NEW d \in Nat PROVE d \in DaysStarted <=> d <= last
  <2>1. d \in DaysStarted <=> d * Hours + 1 <= Len(steps)
    BY Begun
  <2>2. d < last => d * Hours + Hours <= last * Hours
    BY <1>2, DayLength
  <2>3. last < d => last * Hours + Hours <= d * Hours
    BY <1>2, DayLength
  <2>4. d * Hours \in Nat /\ last * Hours \in Nat
    BY <1>2, DayLength
  <2> QED BY <2>1, <2>2, <2>3, <2>4, <1>1, <1>2, Bounds
<1>5. DaysStarted = 0..last
  <2>1. ASSUME NEW d \in DaysStarted PROVE d \in 0..last
    <3>1. d \in Nat
      BY <1>3
    <3>2. d <= last
      BY <1>4, <3>1
    <3> QED BY <3>1, <3>2, <1>2
  <2>2. ASSUME NEW d \in 0..last PROVE d \in DaysStarted
    <3>1. d \in Nat /\ d <= last
      BY <1>2
    <3> QED BY <1>4, <3>1
  <2> QED BY <2>1, <2>2
<1> QED BY <1>2, <1>5 DEF last

\* Where a day begins and ends, and its turns.
LEMMA Bounded ==
  ASSUME Game, NEW d \in DaysStarted
  PROVE  /\ d \in Nat /\ FirstStart(d) = d * Hours + 1 /\ FirstStart(d) \in 1..Len(steps)
         /\ EndOf(d) = IF d * Hours + Hours + 1 <= Len(steps) THEN d * Hours + Hours + 1
                       ELSE Len(steps)
         /\ LastOf(d) = IF d * Hours + Hours <= Len(steps) THEN d * Hours + Hours ELSE Len(steps)
         /\ EndOf(d) \in 1..Len(steps) /\ EndOf(d) - FirstStart(d) \in 0..Hours
<1> DEFINE m == d * Hours
<1>1. DOMAIN steps = 1..Len(steps) /\ Len(steps) \in Nat
  BY DEF Game
<1>2. d \in Nat /\ d + 1 \in Nat
  BY DaysAre
<1>3. m \in Nat /\ (d + 1) * Hours = m + Hours
  BY <1>2, DayLength
<1>4. m + 1 <= Len(steps)
  BY <1>2, Begun
<1>5. \A i \in 1..Len(steps) : /\ steps[i].day = d <=> m + 1 <= i /\ i <= m + Hours
                               /\ steps[i].day = d /\ steps[i].hour = 0 <=> i = m + 1
  BY <1>2, DayOf
<1>6. d + 1 \in DaysStarted <=> m + Hours + 1 <= Len(steps)
  BY <1>2, <1>3, Begun
<1>7. \A i \in 1..Len(steps) : steps[i].day = d + 1 /\ steps[i].hour = 0 <=> i = m + Hours + 1
  BY <1>2, <1>3, DayOf
<1> HIDE DEF m
<1>8. FirstStart(d) = m + 1
  <2> DEFINE S == {i \in DOMAIN steps : steps[i].day = d /\ steps[i].hour = 0}
  <2>1. m + 1 \in 1..Len(steps)
    BY <1>1, <1>3, <1>4
  <2>2. S = {m + 1}
    BY <1>1, <1>5, <2>1
  <2> HIDE DEF S
  <2>3. S \in SUBSET Int /\ m + 1 \in S /\ \A y \in S : m + 1 <= y
    BY <2>2, <1>3
  <2>4. Min(S) = m + 1
    BY <2>3, MinIs
  <2> QED BY <2>4 DEF S, FirstStart
<1>9. ASSUME d + 1 \in DaysStarted PROVE FirstStart(d + 1) = m + Hours + 1
  <2> DEFINE S == {i \in DOMAIN steps : steps[i].day = d + 1 /\ steps[i].hour = 0}
  <2>1. m + Hours + 1 \in 1..Len(steps)
    BY <1>1, <1>3, <1>6, <1>9, Bounds
  <2>2. S = {m + Hours + 1}
    BY <1>1, <1>7, <2>1
  <2> HIDE DEF S
  <2>3. S \in SUBSET Int /\ m + Hours + 1 \in S /\ \A y \in S : m + Hours + 1 <= y
    BY <2>2, <1>3, Bounds
  <2>4. Min(S) = m + Hours + 1
    BY <2>3, MinIs
  <2> QED BY <2>4 DEF S, FirstStart
<1>10. EndOf(d) = IF m + Hours + 1 <= Len(steps) THEN m + Hours + 1 ELSE Len(steps)
  BY <1>6, <1>9 DEF EndOf
<1>11. LastOf(d) = IF m + Hours <= Len(steps) THEN m + Hours ELSE Len(steps)
  <2> DEFINE S == {i \in DOMAIN steps : steps[i].day = d}
             last == IF m + Hours <= Len(steps) THEN m + Hours ELSE Len(steps)
  <2>1. last \in 1..Len(steps) /\ m + 1 <= last /\ last <= m + Hours
        /\ \A i \in 1..Len(steps) : i <= m + Hours => i <= last
    BY <1>1, <1>3, <1>4, Bounds
  <2> HIDE DEF last
  <2>2. last \in S /\ \A i \in S : i <= last
    BY <2>1, <1>1, <1>5
  <2>3. S \in SUBSET Int
    BY <1>1
  <2> HIDE DEF S
  <2>4. Max(S) = last
    BY <2>2, <2>3, MaxIs
  <2>5. LastOf(d) = last
    BY <2>4 DEF S, LastOf
  <2> QED BY <2>5 DEF last
<1>12. EndOf(d) \in 1..Len(steps) /\ EndOf(d) - FirstStart(d) \in 0..Hours
       /\ FirstStart(d) \in 1..Len(steps)
  BY <1>1, <1>3, <1>4, <1>8, <1>10, Bounds
<1> QED BY <1>2, <1>8, <1>10, <1>11, <1>12 DEF m

\* The turns of a day: the observation each acted on and the one it led to are in the day, or
\* the last leads to the next morning.
LEMMA TurnsAre ==
  ASSUME Game, NEW d \in DaysStarted
  PROVE  /\ TurnsOf(d) = [k \in 1..(EndOf(d) - FirstStart(d)) |-> real[FirstStart(d) + k - 1]]
         /\ TurnsOf(d) \in Seq(Turns)
         /\ Len(TurnsOf(d)) = EndOf(d) - FirstStart(d)
<1> DEFINE m == d * Hours
           n == EndOf(d) - FirstStart(d)
           of == {i \in DOMAIN real : real[i].day = d}
<1>1. DOMAIN real = 1..Len(real) /\ Len(real) \in Nat /\ Len(steps) = Len(real) + 1
      /\ real \in Seq(Turns)
  BY DEF Game
<1>2. d \in Nat /\ m \in Nat
  BY Bounded, DayLength
<1>3. /\ FirstStart(d) = m + 1 /\ FirstStart(d) \in 1..Len(steps)
      /\ EndOf(d) = IF m + Hours + 1 <= Len(steps) THEN m + Hours + 1 ELSE Len(steps)
      /\ n \in 0..Hours
  BY Bounded
<1>4. \A i \in 1..Len(real) : real[i].day = d <=> m + 1 <= i /\ i <= m + Hours
  <2>1. ASSUME NEW i \in 1..Len(real) PROVE real[i].day = d <=> m + 1 <= i /\ i <= m + Hours
    <3>1. i \in 1..Len(steps)
      BY <1>1
    <3>2. real[i].day = steps[i].day
      BY DEF Game, Turned
    <3> QED BY <3>1, <3>2, <1>2, DayOf
  <2> QED BY <2>1
<1> HIDE DEF m
<1>5. n = IF m + Hours + 1 <= Len(steps) THEN Hours ELSE Len(real) - m
  BY <1>1, <1>2, <1>3, Bounds
<1> HIDE DEF n
<1>a. n \in Nat /\ n <= Hours /\ m + n <= Len(real) /\ (m + n = Len(real) \/ n = Hours)
  BY <1>1, <1>2, <1>3, <1>5, Bounds DEF n
<1>b. /\ \A i \in 1..Len(real) : m + 1 <= i /\ i <= m + Hours <=> i \in (m + 1)..(m + n)
      /\ (m + 1)..(m + n) \subseteq 1..Len(real)
  <2> DEFINE L == Len(real)
  <2>1. L \in Nat /\ m \in Nat /\ n \in Nat /\ n <= Hours /\ m + n <= L
        /\ (m + n = L \/ n = Hours) /\ Hours \in Nat
    BY <1>1, <1>2, <1>a, Bounds
  <2> HIDE DEF L
  <2>2. \A i \in 1..L : m + 1 <= i /\ i <= m + Hours <=> i \in (m + 1)..(m + n)
    BY <2>1
  <2>3. (m + 1)..(m + n) \subseteq 1..L
    BY <2>1
  <2> QED BY <2>2, <2>3 DEF L
<1>6. of = (m + 1)..(m + n)
  BY <1>1, <1>4, <1>b
<1>7. TurnsOf(d) = IF of = {} THEN <<>> ELSE SubSeq(real, Min(of), Max(of))
  BY DEF TurnsOf
<1> HIDE DEF of
<1>8. CASE n = 0
  <2>1. of = {}
    BY <1>2, <1>6, <1>8
  <2>2. TurnsOf(d) = <<>>
    BY <2>1, <1>7
  <2>3. TurnsOf(d) = [k \in 1..n |-> real[FirstStart(d) + k - 1]]
    BY <2>2, <1>8
  <2> QED BY <2>2, <2>3, <1>8 DEF n
<1>9. CASE n # 0
  <2>1. m + 1 \in of /\ m + n \in of /\ of \in SUBSET Int
        /\ (\A y \in of : m + 1 <= y) /\ (\A y \in of : y <= m + n)
    BY <1>2, <1>3, <1>6, <1>9
  <2>2. Min(of) = m + 1 /\ Max(of) = m + n
    BY <2>1, MinIs, MaxIs
  <2>3. TurnsOf(d) = SubSeq(real, m + 1, m + n)
    BY <2>1, <2>2, <1>7
  <2>4. m + 1 \in Int /\ m + n \in Int /\ n \in Nat /\ m + 1 <= m + n
    BY <1>2, <1>9, <1>a
  <2>a. \A i \in (m + 1)..(m + n) : real[i] \in Turns
    BY <1>1, <1>b
  <2>5. TurnsOf(d) = [k \in 1..n |-> real[m + k]] /\ TurnsOf(d) \in Seq(Turns)
        /\ Len(TurnsOf(d)) = n
    <3> DEFINE s == SubSeq(real, m + 1, m + n)
    <3>1. /\ s \in Seq(Turns) /\ Len(s) = n /\ \A k \in 1..n : s[k] = real[m + k]
      <4>1. /\ Len(s) = (m + n) - (m + 1) + 1
            /\ \A k \in 1..((m + n) - (m + 1) + 1) : s[k] = real[(m + 1) + k - 1]
        BY <2>4, <2>a, SubSeqProperties
      <4>2. (m + n) - (m + 1) + 1 = n /\ \A k \in 1..n : (m + 1) + k - 1 = m + k
        BY <2>4, <1>2
      <4>3. s \in Seq(Turns)
        BY <2>4, <2>a, SubSeqProperties
      <4> QED BY <4>1, <4>2, <4>3
    <3> HIDE DEF s
    <3>2. s = [k \in 1..n |-> s[k]]
      BY <3>1, IsTuple
    <3>3. s = [k \in 1..n |-> real[m + k]]
      BY <3>1, <3>2
    <3> QED BY <3>1, <3>3, <2>3 DEF s
  <2>6. \A k \in 1..n : FirstStart(d) + k - 1 = m + k
    BY <1>2, <1>3
  <2>7. TurnsOf(d) = [k \in 1..n |-> real[FirstStart(d) + k - 1]]
    BY <2>5, <2>6
  <2> QED BY <2>5, <2>7 DEF n
<1> QED BY <1>8, <1>9
-----------------------------------------------------------------------------
(* What a game can show. *)

\* The kinds of tile: only a plant has fields.
LEMMA TileKinds ==
  /\ None \notin {"LOCKED", "WEED", "PLANT"} /\ None \notin Tiles
  /\ Empty.form = "none" /\ Empty.kind = None /\ Empty.fields = <<>>
  /\ Locked.form = "string" /\ Locked.kind = "LOCKED" /\ Locked.fields = <<>>
  /\ Weed.form = "dict" /\ Weed.kind = "WEED" /\ Weed.fields = <<>>
  /\ Empty \in Tiles /\ Locked \in Tiles /\ Weed \in Tiles
BY NoneAssumption DEF Empty, Locked, Weed, Tile, Tiles

LEMMA Plants ==
  ASSUME NEW y \in {0, 1}
  PROVE  /\ Plant(y).form = "dict" /\ Plant(y).kind = "PLANT"
         /\ DOMAIN Plant(y).fields = {"crop", "yield_units"}
         /\ Plant(y).fields["crop"] = 1 /\ Plant(y).fields["yield_units"] = y
         /\ Wilted(y).form = "dict" /\ Wilted(y).kind = "PLANT"
         /\ DOMAIN Wilted(y).fields = {"crop", "yield_units", "wilted"}
         /\ Wilted(y).fields["crop"] = 1 /\ Wilted(y).fields["yield_units"] = y
         /\ Wilted(y).fields["wilted"] = 1
         /\ Plant(y) \in Tiles /\ Wilted(y) \in Tiles
BY DEF Plant, Wilted, Tile, Tiles

LEMMA TileCases ==
  ASSUME NEW t \in Tiles
  PROVE  t = Empty \/ t = Locked \/ t = Weed \/ \E y \in {0, 1} : t = Plant(y) \/ t = Wilted(y)
BY DEF Tiles

\* A harvest, a night: the units of a plant are set.
LEMMA Yields ==
  ASSUME NEW y \in {0, 1}, NEW z \in {0, 1}
  PROVE  /\ [Plant(y) EXCEPT !.fields["yield_units"] = z] = Plant(z)
         /\ [Wilted(y) EXCEPT !.fields["yield_units"] = z] = Wilted(z)
<1>1. [Plant(y) EXCEPT !.fields["yield_units"] = z] = Plant(z)
  <2> DEFINE f == [n \in {"crop", "yield_units"} |-> IF n = "crop" THEN 1 ELSE y]
             g == [n \in {"crop", "yield_units"} |-> IF n = "crop" THEN 1 ELSE z]
  <2>1. [f EXCEPT !["yield_units"] = z] = g
    OBVIOUS
  <2> HIDE DEF f, g
  <2>2. [[form |-> "dict", kind |-> "PLANT", fields |-> f] EXCEPT !.fields["yield_units"] = z]
          = [form |-> "dict", kind |-> "PLANT", fields |-> g]
    BY <2>1
  <2> QED BY <2>2 DEF Plant, Tile, f, g
<1>2. [Wilted(y) EXCEPT !.fields["yield_units"] = z] = Wilted(z)
  <2> DEFINE f == [n \in {"crop", "yield_units", "wilted"} |-> IF n = "yield_units" THEN y ELSE 1]
             g == [n \in {"crop", "yield_units", "wilted"} |-> IF n = "yield_units" THEN z ELSE 1]
  <2>1. [f EXCEPT !["yield_units"] = z] = g
    OBVIOUS
  <2> HIDE DEF f, g
  <2>2. [[form |-> "dict", kind |-> "PLANT", fields |-> f] EXCEPT !.fields["yield_units"] = z]
          = [form |-> "dict", kind |-> "PLANT", fields |-> g]
    BY <2>1
  <2> QED BY <2>2 DEF Wilted, Tile, f, g
<1> QED BY <1>1, <1>2

LEMMA WorkedTile ==
  ASSUME NEW t \in Tiles, NEW op
  PROVE  Worked(t, op) \in Tiles
<1>1. CASE op = "PLANT" /\ t.kind = None
  <2>1. Worked(t, op) = IF drift THEN Wilted(0) ELSE Plant(0)
    BY <1>1 DEF Worked
  <2> QED BY <2>1, Plants
<1>2. CASE ~(op = "PLANT" /\ t.kind = None) /\ op = "DIG" /\ t.form = "dict"
  <2>1. Worked(t, op) = Empty
    BY <1>2 DEF Worked
  <2> QED BY <2>1, TileKinds
<1>3. CASE op = "HARVEST" /\ t.kind = "PLANT"
  <2>1. Worked(t, op) = [t EXCEPT !.fields["yield_units"] = 0]
    BY <1>3 DEF Worked
  <2>2. PICK y \in {0, 1} : t = Plant(y) \/ t = Wilted(y)
    BY <1>3, TileCases, TileKinds
  <2>3. 0 \in {0, 1}
    OBVIOUS
  <2>4. [t EXCEPT !.fields["yield_units"] = 0] \in {Plant(0), Wilted(0)}
    BY <2>2, <2>3, Yields
  <2> QED BY <2>1, <2>3, <2>4, Plants
<1>4. CASE ~(op = "PLANT" /\ t.kind = None) /\ ~(op = "DIG" /\ t.form = "dict")
           /\ ~(op = "HARVEST" /\ t.kind = "PLANT")
  BY <1>4 DEF Worked
<1> QED BY <1>1, <1>2, <1>3, <1>4

LEMMA NightTiles ==
  ASSUME NEW t \in Tiles
  PROVE  Nights(t) \subseteq Tiles
<1>1. CASE t.kind = "PLANT"
  <2>1. Nights(t) = {[t EXCEPT !.fields["yield_units"] = 1]}
    BY <1>1, TileKinds DEF Nights
  <2>2. PICK y \in {0, 1} : t = Plant(y) \/ t = Wilted(y)
    BY <1>1, TileCases, TileKinds
  <2>3. 1 \in {0, 1}
    OBVIOUS
  <2>4. [t EXCEPT !.fields["yield_units"] = 1] \in {Plant(1), Wilted(1)}
    BY <2>2, <2>3, Yields
  <2> QED BY <2>1, <2>3, <2>4, Plants
<1>2. CASE t.kind = None
  <2>1. Nights(t) = {t, Weed}
    BY <1>2, TileKinds DEF Nights
  <2> QED BY <2>1, TileKinds
<1>3. CASE t.kind # "PLANT" /\ t.kind # None
  BY <1>3 DEF Nights
<1> QED BY <1>1, <1>2, <1>3

\* As many orders of a kind as are submitted.
LEMMA OrderCount ==
  ASSUME NEW a \in Acts, NEW op
  PROVE  OrdersOf(a, op) \in Nat
<1>1. PICK n \in Nat : DOMAIN a.market = 1..n
  BY DEF Acts
<1>2. IsFiniteSet(1..n)
  BY FS_Interval
<1>3. IsFiniteSet({k \in DOMAIN a.market : a.market[k] = op})
  BY <1>1, <1>2, FS_Subset
<1> QED BY <1>3, FS_CardinalityType DEF OrdersOf

\* What is owned.
LEMMA OwnedIs ==
  ASSUME NEW m \in 1..4
  PROVE  /\ Owned(m) \in Seq(Quadrants) /\ Len(Owned(m)) = m
         /\ \A k \in 1..m : Owned(m)[k] = AllLand[k]
<1>1. \A i \in 1..m : AllLand[i] \in Quadrants
  <2>1. ASSUME NEW i \in 1..m PROVE AllLand[i] \in Quadrants
    <3>1. i \in {1, 2, 3, 4}
      OBVIOUS
    <3> QED BY <3>1 DEF AllLand, Quadrants
  <2> QED BY <2>1
<1>2. 1 \in Int /\ m \in Int /\ m - 1 + 1 = m /\ 1 <= m /\ \A k \in 1..m : 1 + k - 1 = k
  OBVIOUS
<1> QED BY <1>1, <1>2, SubSeqProperties DEF Owned

\* Land is bought in its order.
LEMMA LandBought ==
  ASSUME NEW n \in 1..4, NEW b \in 0..(4 - n)
  PROVE  /\ Owned(n) \o SubSeq(LandOrder, n, n + b - 1) = Owned(n + b)
         /\ SubSeq(LandOrder, n, n + b - 1) \in Seq(Quadrants)
         /\ Len(SubSeq(LandOrder, n, n + b - 1)) = b
         /\ n + b \in 1..4
<1> DEFINE s == SubSeq(LandOrder, n, n + b - 1)
           l == Owned(n)
           r == Owned(n + b)
<1>1. /\ s \in Seq(Quadrants) /\ Len(s) = b /\ \A k \in 1..b : s[k] = LandOrder[n + k - 1]
  <2>1. \A i \in n..(n + b - 1) : LandOrder[i] \in Quadrants
    <3>1. ASSUME NEW i \in n..(n + b - 1) PROVE LandOrder[i] \in Quadrants
      <4>1. i \in {1, 2, 3}
        OBVIOUS
      <4> QED BY <4>1 DEF LandOrder, Quadrants
    <3> QED BY <3>1
  <2>2. n \in Int /\ n + b - 1 \in Int /\ (n + b - 1) - n + 1 = b
        /\ (n <= n + b - 1 <=> b # 0)
    OBVIOUS
  <2> QED BY <2>1, <2>2, SubSeqProperties
<1>2. \A m \in 1..4 : /\ Owned(m) \in Seq(Quadrants) /\ Len(Owned(m)) = m
                      /\ \A k \in 1..m : Owned(m)[k] = AllLand[k]
  BY OwnedIs
<1>3. n + b \in 1..4
  OBVIOUS
<1> HIDE DEF s, l, r
<1>4. l \o s = r
  <2>1. l \in Seq(Quadrants) /\ Len(l) = n /\ r \in Seq(Quadrants) /\ Len(r) = n + b
    BY <1>2, <1>3 DEF l, r
  <2>2. l \o s \in Seq(Quadrants) /\ Len(l \o s) = n + b
    BY <1>1, <2>1
  <2>3. ASSUME NEW k \in 1..(n + b) PROVE (l \o s)[k] = r[k]
    <3>1. r[k] = AllLand[k]
      BY <1>2, <1>3 DEF r
    <3>2. CASE k <= n
      <4>1. (l \o s)[k] = l[k]
        BY <3>2, <2>1, <1>1
      <4>2. l[k] = AllLand[k]
        BY <3>2, <1>2 DEF l
      <4> QED BY <3>1, <4>1, <4>2
    <3>3. CASE ~(k <= n)
      <4>1. (l \o s)[k] = s[k - n] /\ k - n \in 1..b
        BY <3>3, <2>1, <1>1
      <4>2. s[k - n] = LandOrder[k - 1]
        <5>1. s[k - n] = LandOrder[n + (k - n) - 1]
          BY <4>1, <1>1
        <5>2. n + (k - n) - 1 = k - 1
          OBVIOUS
        <5> QED BY <5>1, <5>2
      <4>3. LandOrder[k - 1] = AllLand[k]
        <5>1. k \in {2, 3, 4}
          BY <3>3
        <5> QED BY <5>1 DEF LandOrder, AllLand
      <4> QED BY <3>1, <4>1, <4>2, <4>3
    <3> QED BY <3>2, <3>3
  <2> QED BY <2>1, <2>2, <2>3
<1> QED BY <1>1, <1>3, <1>4 DEF s, l, r


\* What a turn adds to the replay, if so many are hired, so much land is bought and the tile
\* comes to be so.
Latest == steps[Len(steps)]
Mine == Latest.farms[actor]
Dawn == Latest.hour + 1 = Hours
Lands(bought) ==
    SubSeq(LandOrder, Len(Mine.unlocked_quadrants), Len(Mine.unlocked_quadrants) + bought - 1)
After(a, hired, bought, tile) ==
    [day |-> IF Dawn THEN Latest.day + 1 ELSE Latest.day,
     hour |-> IF Dawn THEN 0 ELSE Latest.hour + 1,
     action |-> [s \in Seats |-> IF s = actor THEN a ELSE None],
     farms |-> [Latest.farms EXCEPT ![actor] =
                  Farm(IF Dawn THEN 0 ELSE Mine.hires_today + hired,
                       Mine.unlocked_quadrants \o Lands(bought), <<<<Locked, tile>>>>)]]
Took(a, hired, bought) ==
    [day |-> Latest.day, hour |-> Latest.hour, action |-> a, hired |-> hired,
     lands |-> Lands(bought),
     worked |-> Mine.tiles[1][2]]
Made(a, hired, bought, tile) ==
    /\ steps' = Append(steps, After(a, hired, bought, tile))
    /\ real' = Append(real, Took(a, hired, bought))
Tilled(a) ==
    IF Dawn THEN Nights(Worked(Mine.tiles[1][2], a.farmer))
    ELSE {Worked(Mine.tiles[1][2], a.farmer)}

LEMMA PlayIs ==
  ASSUME Play
  PROVE  \E a \in Actions :
            \E hired \in 0..OrdersOf(a, "HIRE"),
               bought \in 0..Min({OrdersOf(a, "BUY_LAND"),
                                  1 + Len(LandOrder) - Len(Mine.unlocked_quadrants)}),
               tile \in Tilled(a) : Made(a, hired, bought, tile)
BY DEF Play, Latest, Mine, Dawn, Lands, After, Took, Made, Tilled

LEMMA SmallerOf ==
  ASSUME NEW a \in Nat, NEW b \in Nat
  PROVE  Min({a, b}) \in Nat /\ Min({a, b}) <= a /\ Min({a, b}) <= b /\ Min({a, b}) \in {a, b}
<1>1. CASE a <= b
  <2>1. {a, b} \in SUBSET Int /\ a \in {a, b} /\ \A y \in {a, b} : a <= y
    BY <1>1
  <2>2. Min({a, b}) = a
    BY <2>1, MinIs
  <2> QED BY <2>2, <1>1
<1>2. CASE ~(a <= b)
  <2>1. {a, b} \in SUBSET Int /\ b \in {a, b} /\ \A y \in {a, b} : b <= y
    BY <1>2
  <2>2. Min({a, b}) = b
    BY <2>1, MinIs
  <2> QED BY <2>2, <1>2
<1> QED BY <1>1, <1>2

\* The farm before a turn.
LEMMA FarmNow ==
  ASSUME Game
  PROVE  /\ Latest \in Steps /\ Mine \in Farms /\ Len(steps) \in 1..Len(steps)
         /\ Mine.hires_today \in Nat /\ Mine.tiles[1][2] \in Tiles
         /\ \E n \in 1..4 : Mine.unlocked_quadrants = Owned(n) /\ Len(Mine.unlocked_quadrants) = n
<1>1. Len(steps) \in 1..Len(steps)
  BY DEF Game
<1>2. Latest \in Steps
  BY <1>1 DEF Game, Latest
<1>3. Mine \in Farms
  BY <1>2 DEF Steps, Game, Mine
<1>4. Mine.hires_today \in Nat /\ Mine.unlocked_quadrants \in {Owned(n) : n \in 1..4}
      /\ Mine.tiles \in {<<<<Locked, t>>>> : t \in Tiles}
  BY <1>3 DEF Farms
<1>5. Mine.tiles[1][2] \in Tiles
  <2>1. PICK t \in Tiles : Mine.tiles = <<<<Locked, t>>>>
    BY <1>4
  <2> QED BY <2>1
<1>6. \E n \in 1..4 : Mine.unlocked_quadrants = Owned(n) /\ Len(Mine.unlocked_quadrants) = n
  BY <1>4, OwnedIs
<1> QED BY <1>1, <1>2, <1>3, <1>4, <1>5, <1>6

LEMMA IsAct ==
  ASSUME NEW a \in Actions
  PROVE  a \in Acts /\ a # None
BY ActionsAssumption DEF Acts

LEMMA GameGoesOn ==
  ASSUME Game, Play
  PROVE  Game'
<1>1. PICK a \in Actions :
            \E hired \in 0..OrdersOf(a, "HIRE"),
               bought \in 0..Min({OrdersOf(a, "BUY_LAND"),
                                  1 + Len(LandOrder) - Len(Mine.unlocked_quadrants)}),
               tile \in Tilled(a) : Made(a, hired, bought, tile)
  BY PlayIs
<1>2. PICK hired \in 0..OrdersOf(a, "HIRE"),
           bought \in 0..Min({OrdersOf(a, "BUY_LAND"),
                              1 + Len(LandOrder) - Len(Mine.unlocked_quadrants)}),
           tile \in Tilled(a) : Made(a, hired, bought, tile)
  BY <1>1
<1> DEFINE x == After(a, hired, bought, tile)
           t == Took(a, hired, bought)
           L == Len(steps)
<1>3. /\ Latest \in Steps /\ Mine \in Farms /\ L \in 1..L
      /\ Mine.hires_today \in Nat /\ Mine.tiles[1][2] \in Tiles
  BY FarmNow
<1>4. PICK n \in 1..4 : Mine.unlocked_quadrants = Owned(n) /\ Len(Mine.unlocked_quadrants) = n
  BY FarmNow
<1>5. a \in Acts /\ OrdersOf(a, "HIRE") \in Nat /\ OrdersOf(a, "BUY_LAND") \in Nat
  BY IsAct, OrderCount
<1>6. bought \in 0..(4 - n) /\ bought <= OrdersOf(a, "BUY_LAND") /\ hired \in Nat
  <2>1. Len(LandOrder) = 3
    BY DEF LandOrder
  <2>2. 4 - n \in Nat /\ 1 + 3 - n = 4 - n
    OBVIOUS
  <2>3. bought \in 0..Min({OrdersOf(a, "BUY_LAND"), 4 - n})
    BY <1>4, <2>1, <2>2
  <2>4. /\ Min({OrdersOf(a, "BUY_LAND"), 4 - n}) \in Nat
        /\ Min({OrdersOf(a, "BUY_LAND"), 4 - n}) <= OrdersOf(a, "BUY_LAND")
        /\ Min({OrdersOf(a, "BUY_LAND"), 4 - n}) <= 4 - n
    BY <1>5, <2>2, SmallerOf
  <2> QED BY <2>3, <2>4, <2>2, <1>5
<1>7. /\ Mine.unlocked_quadrants \o Lands(bought) = Owned(n + bought) /\ n + bought \in 1..4
      /\ Lands(bought) \in Seq(Quadrants) /\ Len(Lands(bought)) = bought
  BY <1>4, <1>6, LandBought DEF Lands
<1>8. tile \in Tiles
  <2>1. Worked(Mine.tiles[1][2], a.farmer) \in Tiles
    BY <1>3, WorkedTile
  <2>2. Nights(Worked(Mine.tiles[1][2], a.farmer)) \subseteq Tiles
    BY <2>1, NightTiles
  <2> QED BY <2>1, <2>2 DEF Tilled
<1>9. actor \in Seats
  BY DEF Game
<1>10. /\ Latest.day \in Nat /\ Latest.hour \in Nat /\ Latest.hour < Hours
       /\ Latest.day * Hours + Latest.hour = L - 1
       /\ Latest.farms \in [Seats -> Farms]
  BY <1>3 DEF Game, Steps, Latest
<1> DEFINE f == Farm(IF Dawn THEN 0 ELSE Mine.hires_today + hired,
                     Mine.unlocked_quadrants \o Lands(bought), <<<<Locked, tile>>>>)
<1>11. f \in Farms /\ f.hires_today = (IF Dawn THEN 0 ELSE Mine.hires_today + hired)
       /\ f.unlocked_quadrants = Mine.unlocked_quadrants \o Lands(bought)
  BY <1>3, <1>6, <1>7, <1>8 DEF Farms, Farm
<1>12. /\ x.farms = [Latest.farms EXCEPT ![actor] = f]
       /\ x.day = (IF Dawn THEN Latest.day + 1 ELSE Latest.day)
       /\ x.hour = (IF Dawn THEN 0 ELSE Latest.hour + 1)
       /\ x.action = [s \in Seats |-> IF s = actor THEN a ELSE None]
       /\ x = [day |-> x.day, hour |-> x.hour, action |-> x.action, farms |-> x.farms]
  BY DEF After
<1>13. /\ t.day = Latest.day /\ t.hour = Latest.hour /\ t.action = a /\ t.hired = hired
       /\ t.lands = Lands(bought) /\ t.worked = Mine.tiles[1][2]
       /\ t \in Turns
  BY <1>3, <1>6, <1>7, <1>10 DEF Took, Turns
<1> HIDE DEF f
<1>14. x.farms \in [Seats -> Farms] /\ x.farms[actor] = f
  BY <1>9, <1>10, <1>11, <1>12
<1>15. /\ x.day \in Nat /\ x.hour \in Nat /\ x.hour < Hours
       /\ x.day * Hours + x.hour = L
  <2>1. CASE Dawn
    <3>1. x.day = Latest.day + 1 /\ x.hour = 0 /\ Latest.hour + 1 = Hours
      BY <2>1, <1>12 DEF Dawn
    <3>2. (Latest.day + 1) * Hours = Latest.day * Hours + Hours /\ Latest.day * Hours \in Nat
      BY <1>10, DayLength
    <3>3. x.day * Hours = Latest.day * Hours + Hours
      BY <3>1, <3>2
    <3> DEFINE y == x.day * Hours
               z == Latest.day * Hours
    <3>4. z \in Nat /\ z + Latest.hour = L - 1 /\ y = z + Hours
      BY <3>2, <3>3, <1>10
    <3> HIDE DEF x, y, z
    <3>5. y + x.hour = L
      BY <3>1, <3>4, <1>3, <1>10, Bounds
    <3> QED BY <3>1, <3>5, <1>10, Bounds DEF y
  <2>2. CASE ~Dawn
    <3>1. x.day = Latest.day /\ x.hour = Latest.hour + 1 /\ Latest.hour + 1 # Hours
      BY <2>2, <1>12 DEF Dawn
    <3>2. Latest.day * Hours \in Nat
      BY <1>10, DayLength
    <3> DEFINE y == x.day * Hours
               z == Latest.day * Hours
    <3>4. z \in Nat /\ z + Latest.hour = L - 1 /\ y = z
      BY <3>1, <3>2, <1>10
    <3> HIDE DEF x, y, z
    <3>5. y + x.hour = L
      BY <3>1, <3>4, <1>3, <1>10
    <3>6. x.hour < Hours
      BY <3>1, <1>10, Bounds
    <3> QED BY <3>1, <3>5, <3>6, <1>10 DEF y
  <2> QED BY <2>1, <2>2
<1>16. x.action \in [Seats -> Acts \cup {None}]
  BY <1>5, <1>12
<1>17. x \in Steps
  BY <1>12, <1>14, <1>15, <1>16 DEF Steps
<1>18. steps' = Append(steps, x) /\ real' = Append(real, t) /\ actor' = actor /\ drift' = drift
       /\ L <= LastIndex
  BY <1>2 DEF Made, Play
<1>19. Turned(actor, Latest, t, x)
  <2>1. x.farms[actor].hires_today = IF Latest.hour + 1 = Hours THEN 0
                                     ELSE Latest.farms[actor].hires_today + t.hired
    BY <1>11, <1>13, <1>14 DEF Dawn, Mine
  <2>2. x.farms[actor].unlocked_quadrants = Latest.farms[actor].unlocked_quadrants \o t.lands
    BY <1>11, <1>13, <1>14 DEF Mine
  <2>3. Len(t.lands) <= OrdersOf(t.action, "BUY_LAND")
    BY <1>6, <1>7, <1>13
  <2> QED BY <2>1, <2>2, <2>3, <1>12, <1>13 DEF Turned, Mine
<1>20. x.hour = 0 => x.farms[actor].hires_today = 0
  <2>1. ASSUME x.hour = 0 PROVE Dawn
    BY <2>1, <1>12, <1>10
  <2> QED BY <2>1, <1>11, <1>14
<1> HIDE DEF x, t
<1>21. steps \in Seq(Steps) /\ real \in Seq(Turns) /\ L = Len(real) + 1
  BY DEF Game
<1>22. steps' \in Seq(Steps) /\ real' \in Seq(Turns) /\ Len(steps') = L + 1 /\ Len(real') = L
       /\ (\A i \in 1..L : steps'[i] = steps[i]) /\ steps'[L + 1] = x
       /\ (\A i \in 1..Len(real) : real'[i] = real[i]) /\ real'[L] = t
  BY <1>13, <1>17, <1>18, <1>21
<1>23. ASSUME NEW i \in 1..(L + 1)
       PROVE  /\ steps'[i].day * Hours + steps'[i].hour = i - 1 /\ steps'[i].hour < Hours
              /\ steps'[i].hour = 0 => steps'[i].farms[actor].hires_today = 0
  <2>1. CASE i \in 1..L
    BY <2>1, <1>22 DEF Game
  <2>2. CASE i = L + 1
    BY <2>2, <1>22, <1>15, <1>20, <1>3
  <2> QED BY <2>1, <2>2, <1>3
<1>24. ASSUME NEW i \in 1..L PROVE Turned(actor, steps'[i], real'[i], steps'[i + 1])
  <2>1. CASE i \in 1..Len(real)
    <3>1. i \in 1..L /\ i + 1 \in 1..L
      BY <2>1, <1>21
    <3> QED BY <2>1, <3>1, <1>22 DEF Game
  <2>2. CASE i = L
    <3>1. steps'[i] = Latest /\ steps'[i + 1] = x /\ real'[i] = t
      BY <2>2, <1>22, <1>3 DEF Latest
    <3> QED BY <3>1, <1>19
  <2> QED BY <2>1, <2>2, <1>21
<1>26. /\ actor' \in Seats /\ drift' \in BOOLEAN
       /\ steps' \in Seq(Steps) /\ real' \in Seq(Turns)
       /\ Len(steps') = Len(real') + 1 /\ Len(steps') <= LastIndex + 1
  <2>1. drift \in BOOLEAN
    BY DEF Game
  <2> QED BY <2>1, <1>9, <1>18, <1>22, <1>3, Bounds
<1>27. \A i \in 1..Len(steps') :
          /\ steps'[i].day * Hours + steps'[i].hour = i - 1 /\ steps'[i].hour < Hours
          /\ steps'[i].hour = 0 => steps'[i].farms[actor'].hires_today = 0
  BY <1>18, <1>22, <1>23
<1>28. \A i \in 1..Len(real') : Turned(actor', steps'[i], real'[i], steps'[i + 1])
  BY <1>18, <1>22, <1>24
<1> QED BY <1>26, <1>27, <1>28 DEF Game

LEMMA GameStarts ==
  ASSUME ReplaysInit
  PROVE  Game
<1> DEFINE x == [day |-> 0, hour |-> 0, action |-> [s \in Seats |-> Passing],
                 farms |-> [s \in Seats |-> Start]]
<1>1. actor \in Seats /\ drift \in BOOLEAN /\ steps = <<x>> /\ real = <<>>
  BY DEF ReplaysInit
<1>2. Start \in Farms /\ Start.hires_today = 0
  <2>1. <<"NW">> = Owned(1)
    <3>1. Owned(1) \in Seq(Quadrants) /\ Len(Owned(1)) = 1 /\ Owned(1)[1] = "NW"
      BY OwnedIs DEF AllLand
    <3>2. Owned(1) = [k \in 1..1 |-> Owned(1)[k]]
      BY <3>1, IsTuple
    <3> HIDE DEF Owned
    <3>3. Owned(1) = [k \in 1..1 |-> "NW"]
      BY <3>1, <3>2
    <3> QED BY <3>3
  <2>2. 1 \in 1..4 /\ Empty \in Tiles
    BY TileKinds
  <2> QED BY <2>1, <2>2 DEF Start, Farm, Farms
<1>3. Passing \in Acts
  BY DEF Passing, Acts
<1>4. x \in Steps /\ x.day = 0 /\ x.hour = 0 /\ \A s \in Seats : x.farms[s] = Start
  BY <1>2, <1>3 DEF Steps
<1> HIDE DEF x
<1>5. steps \in Seq(Steps) /\ Len(steps) = 1 /\ steps[1] = x /\ real \in Seq(Turns) /\ Len(real) = 0
  BY <1>1, <1>4
<1>6. ASSUME NEW i \in 1..Len(steps)
      PROVE  /\ steps[i].day * Hours + steps[i].hour = i - 1 /\ steps[i].hour < Hours
             /\ steps[i].hour = 0 => steps[i].farms[actor].hires_today = 0
  <2>1. i = 1
    BY <1>5
  <2> QED BY <2>1, <1>1, <1>2, <1>4, <1>5, Bounds
<1> QED BY <1>1, <1>5, <1>6, Bounds DEF Game

\* The game stands once it is recorded.
LEMMA GameKept ==
  ASSUME Game, [ReplaysNext]_replays_vars
  PROVE  Game'
<1>1. CASE Play
  BY <1>1, GameGoesOn
<1>2. ASSUME UNCHANGED <<steps, actor, drift, real>> PROVE Game'
  BY <1>2 DEF Game
<1>3. CASE Invoke
  BY <1>3, <1>2 DEF Invoke
<1>4. CASE ReadInput
  BY <1>4, <1>2 DEF ReadInput
<1>5. CASE Convert
  BY <1>5, <1>2 DEF Convert
<1>6. CASE WriteTable
  BY <1>6, <1>2 DEF WriteTable
<1>7. CASE Crash
  BY <1>7, <1>2 DEF Crash
<1>8. CASE UNCHANGED replays_vars
  BY <1>8, <1>2 DEF replays_vars
<1> QED BY <1>1, <1>3, <1>4, <1>5, <1>6, <1>7, <1>8 DEF ReplaysNext
-----------------------------------------------------------------------------
(* The ledger of a day. *)

\* What each turn of a day adds to a seat's ledger.
Ledger(seat, d, position) ==
    [k \in 1..(EndOf(d) - FirstStart(d)) |-> StepEvents(FirstStart(d) + k, seat, d, position)]

LEMMA LedgerIs ==
  ASSUME NEW seat, NEW d, NEW position
  PROVE  /\ DayEvents(seat, d, position) = Merged(Ledger(seat, d, position))
         /\ DOMAIN Ledger(seat, d, position) = 1..(EndOf(d) - FirstStart(d))
BY DEF Ledger, DayEvents

\* The turns of a day lie between its observations, one after the other.
LEMMA TurnOf ==
  ASSUME Game, NEW d \in DaysStarted, NEW k \in 1..(EndOf(d) - FirstStart(d))
  PROVE  LET i == FirstStart(d) + k
         IN  /\ i \in 2..Len(steps) /\ i - 1 \in 1..Len(steps)
             /\ TurnsOf(d)[k] = real[i - 1] /\ TurnsOf(d)[k] \in Turns
             /\ Turned(actor, steps[i - 1], real[i - 1], steps[i])
             /\ steps[i - 1].day = d /\ steps[i - 1].hour = k - 1
             /\ steps[i - 1] \in Steps /\ steps[i] \in Steps
<1> DEFINE i == FirstStart(d) + k
<1>1. /\ d \in Nat /\ FirstStart(d) = d * Hours + 1 /\ FirstStart(d) \in 1..Len(steps)
      /\ EndOf(d) \in 1..Len(steps) /\ EndOf(d) - FirstStart(d) \in 0..Hours
  BY Bounded
<1>2. d * Hours \in Nat /\ Len(steps) \in Nat /\ Len(steps) = Len(real) + 1
  BY <1>1, DayLength DEF Game
<1>3. i \in 2..Len(steps) /\ i - 1 \in 1..Len(steps) /\ i - 1 \in 1..Len(real)
      /\ (i - 1) + 1 = i /\ i - 1 = FirstStart(d) + k - 1
      /\ d * Hours + 1 <= i - 1 /\ i - 1 <= d * Hours + Hours /\ (i - 1) - 1 - d * Hours = k - 1
  BY <1>1, <1>2, Bounds
<1>4. TurnsOf(d)[k] = real[i - 1] /\ TurnsOf(d)[k] \in Turns
  <2>1. TurnsOf(d)[k] = real[FirstStart(d) + k - 1]
    BY TurnsAre
  <2>2. real[i - 1] \in Turns
    BY <1>3 DEF Game
  <2> QED BY <2>1, <2>2, <1>3
<1> HIDE DEF i
<1>5. Turned(actor, steps[i - 1], real[i - 1], steps[i])
  BY <1>3 DEF Game
<1>6. steps[i - 1].day = d /\ steps[i - 1].hour = k - 1
  BY <1>1, <1>3, DayOf
<1>7. steps[i - 1] \in Steps /\ steps[i] \in Steps
  BY <1>3 DEF Game
<1> QED BY <1>3, <1>4, <1>5, <1>6, <1>7 DEF i

\* The ledger of the seat that acts has its actions, that of the other nothing.
LEMMA StepIs ==
  ASSUME Game, NEW d \in DaysStarted, NEW k \in 1..(EndOf(d) - FirstStart(d)), NEW position
  PROVE  LET i == FirstStart(d) + k
         IN  /\ Ledger(actor, d, position)[k]
                  = EventsFromAction(TurnsOf(d)[k].action, steps[i - 1], steps[i], actor, position)
             /\ \A s \in Seats : s # actor => Ledger(s, d, position)[k] = NoEvents
<1> DEFINE i == FirstStart(d) + k
           t == TurnsOf(d)[k]
<1>1. /\ i \in 2..Len(steps) /\ t = real[i - 1] /\ t \in Turns
      /\ Turned(actor, steps[i - 1], t, steps[i]) /\ steps[i - 1].day = d
  BY TurnOf
<1>2. \A s : Ledger(s, d, position)[k] = StepEvents(i, s, d, position)
  BY DEF Ledger
<1> HIDE DEF i, t
<1>3. actor \in Seats /\ \A s \in Seats : steps[i].action[s] = IF s = actor THEN t.action ELSE None
  <2>1. steps[i].action = [s \in Seats |-> IF s = actor THEN t.action ELSE None]
    BY <1>1 DEF Turned
  <2>2. actor \in Seats
    BY DEF Game
  <2> QED BY <2>1, <2>2
<1>4. t.action \in Actions /\ t.action # None
  <2>1. t.action \in Actions
    BY <1>1 DEF Turns
  <2> QED BY <2>1, IsAct
<1>5. WithinDay(i, d)
  BY <1>1 DEF WithinDay
<1>6. StepEvents(i, actor, d, position)
        = EventsFromAction(t.action, steps[i - 1], steps[i], actor, position)
  BY <1>3, <1>4, <1>5 DEF StepEvents
<1>7. \A s \in Seats : s # actor => StepEvents(i, s, d, position) = NoEvents
  BY <1>3 DEF StepEvents
<1> QED BY <1>2, <1>6, <1>7 DEF i, t

-----------------------------------------------------------------------------
(* Land. *)

\* A farm in an observation.
LEMMA FarmAt ==
  ASSUME Game, NEW i \in 1..Len(steps), NEW s \in Seats
  PROVE  /\ steps[i].farms[s] \in Farms
         /\ Len(steps[i].farms[s].unlocked_quadrants) \in 1..4
         /\ steps[i].farms[s].unlocked_quadrants = Owned(Len(steps[i].farms[s].unlocked_quadrants))
         /\ \E t \in Tiles : steps[i].farms[s].tiles = <<<<Locked, t>>>>
         /\ steps[i].farms[s].hires_today \in Nat
<1>1. steps[i] \in Steps
  BY DEF Game
<1>2. steps[i].farms[s] \in Farms
  BY <1>1 DEF Steps
<1>3. PICK n \in 1..4 : steps[i].farms[s].unlocked_quadrants = Owned(n)
  BY <1>2 DEF Farms
<1>4. Len(Owned(n)) = n
  BY OwnedIs
<1> QED BY <1>2, <1>3, <1>4 DEF Farms

\* What an observation shows to be unlocked is what was bought in the turn.
LEMMA LandSeen ==
  ASSUME Game, NEW i \in 2..Len(steps), NEW t \in Turns, NEW a,
         Turned(actor, steps[i - 1], t, steps[i])
  PROVE  LandAdditions(steps[i - 1], steps[i], actor, a) = t.lands
<1> DEFINE before == steps[i - 1].farms[actor].unlocked_quadrants
           after == steps[i].farms[actor].unlocked_quadrants
           m == Len(before)
           n == Len(after)
<1>1. i \in 1..Len(steps) /\ i - 1 \in 1..Len(steps) /\ actor \in Seats
  BY DEF Game
<1>2. m \in 1..4 /\ before = Owned(m) /\ n \in 1..4 /\ after = Owned(n)
  BY <1>1, FarmAt
<1>3. after = before \o t.lands /\ t.lands \in Seq(Quadrants)
  BY DEF Turned, Turns
<1> HIDE DEF before, after
<1>4. /\ before \in Seq(Quadrants) /\ after \in Seq(Quadrants)
      /\ \A k \in 1..m : before[k] = AllLand[k]
      /\ \A k \in 1..n : after[k] = AllLand[k]
  BY <1>2, OwnedIs
<1>5. n = m + Len(t.lands) /\ Len(t.lands) \in Nat
      /\ (\A k \in 1..m : after[k] = before[k])
      /\ \A k \in 1..Len(t.lands) : after[m + k] = t.lands[k]
  <2>1. Len(before \o t.lands) = Len(before) + Len(t.lands)
    BY <1>3, <1>4
  <2>2. \A k \in 1..m : (before \o t.lands)[k] = before[k]
    BY <1>3, <1>4
  <2>3. \A k \in 1..Len(t.lands) : (before \o t.lands)[m + k] = t.lands[k]
    BY <1>3, <1>4
  <2> QED BY <2>1, <2>2, <2>3, <1>3
<1> DEFINE L == Len(t.lands)
           additions == SubSeq(after, m + 1, n)
<1> HIDE DEF m, n
<1>6. additions = t.lands
  <2>1. (\A j \in (m + 1)..n : after[j] \in Quadrants) /\ m + 1 \in Int /\ n \in Int
    BY <1>2, <1>4 DEF n
  <2>2. additions \in Seq(Quadrants) /\ Len(additions) = (IF m + 1 <= n THEN n - (m + 1) + 1 ELSE 0)
        /\ \A k \in 1..(n - (m + 1) + 1) : additions[k] = after[(m + 1) + k - 1]
    BY <2>1, SubSeqProperties
  <2>3. L \in Nat /\ n - (m + 1) + 1 = L /\ (m + 1 <= n <=> L # 0)
    BY <1>2, <1>5
  <2>4. Len(additions) = L
    BY <2>2, <2>3
  <2>5. ASSUME NEW k \in 1..L PROVE additions[k] = t.lands[k]
    <3>1. (m + 1) + k - 1 = m + k
      BY <1>2
    <3> QED BY <2>2, <2>3, <3>1, <1>5
  <2> HIDE DEF additions
  <2> QED BY <2>2, <2>4, <2>5, <1>3, SameSeq
<1>7. IsPrefixOf(before, after)
  <2> DEFINE s == SubSeq(after, 1, m)
  <2>1. /\ \A j \in 1..m : after[j] \in Quadrants
        /\ 1 \in Int /\ m \in Int /\ m - 1 + 1 = m /\ 1 <= m
    BY <1>2, <1>4, <1>5 DEF n
  <2>2. s \in Seq(Quadrants) /\ Len(s) = m /\ \A k \in 1..m : s[k] = after[1 + k - 1]
    BY <2>1, SubSeqProperties
  <2>3. \A k \in 1..m : s[k] = before[k]
    <3>1. ASSUME NEW k \in 1..m PROVE s[k] = before[k]
      <4>1. 1 + k - 1 = k
        BY <1>2
      <4> QED BY <2>2, <4>1, <1>5
    <3> QED BY <3>1
  <2> HIDE DEF s
  <2>4. s = before
    BY <2>2, <2>3, <1>4 DEF m
  <2>5. Len(before) <= Len(after)
    BY <1>2, <1>5 DEF m, n
  <2> QED BY <2>4, <2>5 DEF s, m, IsPrefixOf
<1>8. SubSeq(LandOrder, m, Min({Len(LandOrder), m + Len(additions) - 1})) = t.lands
  <2>1. Len(LandOrder) = 3
    BY DEF LandOrder
  <2>2. Min({3, m + L - 1}) = m + L - 1
    <3>1. m + L - 1 \in Int /\ m + L - 1 <= 3
      BY <1>2, <1>5
    <3>2. {3, m + L - 1} \in SUBSET Int /\ m + L - 1 \in {3, m + L - 1}
          /\ \A y \in {3, m + L - 1} : m + L - 1 <= y
      BY <3>1
    <3> QED BY <3>2, MinIs
  <2>3. L \in 0..(4 - m)
    BY <1>2, <1>5
  <2> DEFINE s == SubSeq(LandOrder, m, m + L - 1)
  <2>4. s \in Seq(Quadrants) /\ Len(s) = L /\ Owned(m) \o s = Owned(m + L)
    BY <1>2, <2>3, LandBought
  <2>5. before \o s = before \o t.lands
    <3>1. m + L = n
      BY <1>5
    <3> QED BY <3>1, <2>4, <1>2, <1>3 DEF m, n
  <2> HIDE DEF s
  <2>6. ASSUME NEW k \in 1..L PROVE s[k] = t.lands[k]
    <3>1. (before \o s)[m + k] = s[k]
      BY <2>4, <1>4, <1>2 DEF m
    <3>2. (before \o t.lands)[m + k] = t.lands[k]
      BY <1>3, <1>5
    <3> QED BY <3>1, <3>2, <2>5
  <2>7. s = t.lands
    BY <2>4, <2>6, <1>3, SameSeq
  <2> QED BY <2>1, <2>2, <2>7, <1>6 DEF s
<1> QED BY <1>6, <1>7, <1>8 DEF LandAdditions, before, after, m, n

LEMMA MergedIs ==
  ASSUME NEW L
  PROVE  /\ Merged(L).works = FlattenSeq([k \in DOMAIN L |-> L[k].works])
         /\ Merged(L).market = FlattenSeq([k \in DOMAIN L |-> L[k].market])
         /\ Merged(L).sells = FlattenSeq([k \in DOMAIN L |-> L[k].sells])
         /\ Merged(L).land = FlattenSeq([k \in DOMAIN L |-> L[k].land])
         /\ Merged(L).hires = Total([k \in DOMAIN L |-> L[k].hires])
BY DEF Merged

\* The land of a ledger is that of its turns.
LEMMA LandOf ==
  ASSUME Game, NEW d \in DaysStarted, NEW position
  PROVE  DayEvents(actor, d, position).land
           = Concat(TurnsOf(d), LAMBDA t :
               [k \in 1..OrdersOf(t.action, "BUY_LAND") |->
                  [quadrant |-> IF k \in DOMAIN t.lands THEN t.lands[k] ELSE Null,
                   hour |-> t.hour]])
<1> DEFINE n == EndOf(d) - FirstStart(d)
           L == Ledger(actor, d, position)
           Bought(t) == [k \in 1..OrdersOf(t.action, "BUY_LAND") |->
                           [quadrant |-> IF k \in DOMAIN t.lands THEN t.lands[k] ELSE Null,
                            hour |-> t.hour]]
<1>1. DOMAIN L = 1..n /\ DOMAIN TurnsOf(d) = 1..n
  BY LedgerIs, TurnsAre
<1>2. ASSUME NEW k \in 1..n PROVE L[k].land = Bought(TurnsOf(d)[k])
  <2> DEFINE i == FirstStart(d) + k
             t == TurnsOf(d)[k]
  <2>1. /\ i \in 2..Len(steps) /\ t = real[i - 1] /\ t \in Turns
        /\ Turned(actor, steps[i - 1], t, steps[i])
    BY TurnOf
  <2>2. L[k] = EventsFromAction(t.action, steps[i - 1], steps[i], actor, position)
    BY StepIs
  <2> HIDE DEF i, t, L
  <2>3. LandAdditions(steps[i - 1], steps[i], actor, t.action) = t.lands
    BY <2>1, LandSeen
  <2>4. steps[i - 1].hour = t.hour
    BY <2>1 DEF Turned
  <2>5. L[k].land = Bought(t)
    BY <2>2, <2>3, <2>4 DEF EventsFromAction
  <2> QED BY <2>5 DEF t
<1>3. DayEvents(actor, d, position).land = FlattenSeq([k \in DOMAIN L |-> L[k].land])
  BY LedgerIs, MergedIs
<1> HIDE DEF L
<1>4. [k \in DOMAIN L |-> L[k].land] = [k \in DOMAIN TurnsOf(d) |-> Bought(TurnsOf(d)[k])]
  <2> HIDE DEF Bought, n
  <2> QED BY <1>1, <1>2
<1>5. DayEvents(actor, d, position).land
        = FlattenSeq([k \in DOMAIN TurnsOf(d) |-> Bought(TurnsOf(d)[k])])
  BY <1>3, <1>4
<1> QED BY <1>5 DEF Concat

\* The quadrants after the m-th up to the n-th.
Later(m, n) == SubSeq(AllLand, m + 1, n)

LEMMA LaterIs ==
  ASSUME NEW m \in 1..4, NEW n \in 1..4, m <= n
  PROVE  Later(m, n) \in Seq(Quadrants) /\ Len(Later(m, n)) = n - m
         /\ \A k \in 1..(n - m) : Later(m, n)[k] = AllLand[m + k]
<1>1. \A i \in (m + 1)..n : AllLand[i] \in Quadrants
  <2>1. ASSUME NEW i \in (m + 1)..n PROVE AllLand[i] \in Quadrants
    <3>1. i \in {1, 2, 3, 4}
      OBVIOUS
    <3> QED BY <3>1 DEF AllLand, Quadrants
  <2> QED BY <2>1
<1>2. m + 1 \in Int /\ n \in Int /\ n - (m + 1) + 1 = n - m
      /\ (IF m + 1 <= n THEN n - (m + 1) + 1 ELSE 0) = n - m
      /\ \A k \in 1..(n - m) : (m + 1) + k - 1 = m + k
  OBVIOUS
<1>3. Later(m, n) \in Seq(Quadrants)
  BY <1>1, <1>2, SubSeqProperties DEF Later
<1>4. Len(Later(m, n)) = IF m + 1 <= n THEN n - (m + 1) + 1 ELSE 0
  BY <1>1, <1>2, SubSeqProperties DEF Later
<1>5. \A k \in 1..(n - (m + 1) + 1) : Later(m, n)[k] = AllLand[(m + 1) + k - 1]
  BY <1>1, <1>2, SubSeqProperties DEF Later
<1> QED BY <1>2, <1>3, <1>4, <1>5

LEMMA LaterAndLater ==
  ASSUME NEW m \in 1..4, NEW a \in 1..4, NEW b \in 1..4, m <= a, a <= b
  PROVE  Later(m, a) \o Later(a, b) = Later(m, b)
<1> DEFINE s == Later(m, a)
           t == Later(a, b)
           u == Later(m, b)
<1>1. /\ s \in Seq(Quadrants) /\ Len(s) = a - m /\ \A k \in 1..(a - m) : s[k] = AllLand[m + k]
      /\ t \in Seq(Quadrants) /\ Len(t) = b - a /\ \A k \in 1..(b - a) : t[k] = AllLand[a + k]
      /\ u \in Seq(Quadrants) /\ Len(u) = b - m /\ \A k \in 1..(b - m) : u[k] = AllLand[m + k]
  <2>1. s \in Seq(Quadrants) /\ Len(s) = a - m /\ \A k \in 1..(a - m) : s[k] = AllLand[m + k]
    BY LaterIs
  <2>2. t \in Seq(Quadrants) /\ Len(t) = b - a /\ \A k \in 1..(b - a) : t[k] = AllLand[a + k]
    BY LaterIs
  <2>3. m <= b
    OBVIOUS
  <2>4. u \in Seq(Quadrants) /\ Len(u) = b - m /\ \A k \in 1..(b - m) : u[k] = AllLand[m + k]
    BY <2>3, LaterIs
  <2> QED BY <2>1, <2>2, <2>4
<1> HIDE DEF s, t, u
<1>2. s \o t \in Seq(Quadrants) /\ Len(s \o t) = b - m
  BY <1>1
<1>3. ASSUME NEW k \in 1..(b - m) PROVE (s \o t)[k] = u[k]
  <2>1. CASE k <= a - m
    <3>1. (s \o t)[k] = s[k] /\ k \in 1..(a - m)
      BY <2>1, <1>1
    <3> QED BY <3>1, <1>1
  <2>2. CASE ~(k <= a - m)
    <3>a. k - (a - m) \in 1..(b - a) /\ a + (k - (a - m)) = m + k
          /\ (a - m) + (k - (a - m)) = k
      BY <2>2
    <3>b. \A j \in 1..Len(t) : (s \o t)[Len(s) + j] = t[j]
      BY <1>1, JoinIs
    <3>c. (s \o t)[(a - m) + (k - (a - m))] = t[k - (a - m)]
      BY <3>a, <3>b, <1>1
    <3>1. (s \o t)[k] = t[k - (a - m)] /\ k - (a - m) \in 1..(b - a) /\ a + (k - (a - m)) = m + k
      BY <3>a, <3>c
    <3>2. t[k - (a - m)] = AllLand[a + (k - (a - m))]
      BY <3>1, <1>1
    <3> QED BY <3>1, <3>2, <1>1
  <2> QED BY <2>1, <2>2
<1>4. s \o t = u
  BY <1>1, <1>2, <1>3, SameSeq
<1> QED BY <1>4 DEF s, t, u

\* What is owned in the end and was not in the beginning.
LEMMA UnlikeOwned ==
  ASSUME NEW m \in 1..4, NEW n \in 1..4, m <= n
  PROVE  Unlike(Owned(n), Owned(m)) = Later(m, n)
<1> DEFINE s == Owned(n)
           t == Owned(m)
           u == [k \in DOMAIN s |-> IF \E j \in DOMAIN t : t[j] = s[k] THEN <<>> ELSE <<s[k]>>]
           p == [k \in 0..n |-> IF k <= m THEN <<>> ELSE Later(m, k)]
<1>1. /\ s \in Seq(Quadrants) /\ DOMAIN s = 1..n /\ \A k \in 1..n : s[k] = AllLand[k]
      /\ t \in Seq(Quadrants) /\ DOMAIN t = 1..m /\ \A k \in 1..m : t[k] = AllLand[k]
  <2>1. s \in Seq(Quadrants) /\ Len(s) = n /\ \A k \in 1..n : s[k] = AllLand[k]
    BY OwnedIs
  <2>2. t \in Seq(Quadrants) /\ Len(t) = m /\ \A k \in 1..m : t[k] = AllLand[k]
    BY OwnedIs
  <2> HIDE DEF s, t
  <2> QED BY <2>1, <2>2
<1>2. \A j \in 1..4, k \in 1..4 : AllLand[j] = AllLand[k] => j = k
  <2>1. 1..4 = {1, 2, 3, 4}
    OBVIOUS
  <2> QED BY <2>1 DEF AllLand
<1> HIDE DEF s, t
<1>3. ASSUME NEW k \in 1..n
      PROVE  (k <= m => u[k] = <<>>) /\ (~(k <= m) => u[k] = <<AllLand[k]>>)
  <2>1. u[k] = IF \E j \in 1..m : t[j] = s[k] THEN <<>> ELSE <<s[k]>>
    BY <1>1
  <2>2. k \in 1..4 /\ \A j \in 1..m : j \in 1..4
    OBVIOUS
  <2>3. (\E j \in 1..m : t[j] = s[k]) <=> k <= m
    <3>1. ASSUME k <= m PROVE \E j \in 1..m : t[j] = s[k]
      <4>1. k \in 1..m /\ t[k] = s[k]
        BY <1>1, <3>1
      <4> QED BY <4>1
    <3>2. ASSUME NEW j \in 1..m, t[j] = s[k] PROVE k <= m
      <4>1. AllLand[j] = AllLand[k]
        BY <1>1, <3>2
      <4> QED BY <4>1, <2>2, <1>2
    <3> QED BY <3>1, <3>2
  <2> QED BY <2>1, <2>3, <1>1
<1>4. \A k \in 1..n : AllLand[k] \in Quadrants
  BY <1>1
<1>5. DOMAIN u = 1..n
  BY <1>1
<1> HIDE DEF u
<1>6. u = [k \in 1..n |-> u[k]]
  BY <1>5, <1>1 DEF u
<1>7. u \in Seq(Seq(Quadrants)) /\ Len(u) = n
  <2>1. ASSUME NEW k \in 1..n PROVE u[k] \in Seq(Quadrants)
    <3>1. CASE k <= m
      <4>1. <<>> \in Seq(Quadrants)
        OBVIOUS
      <4> QED BY <3>1, <4>1, <1>3
    <3>2. CASE ~(k <= m)
      <4>1. <<AllLand[k]>> \in Seq(Quadrants)
        BY <1>4
      <4> QED BY <3>2, <4>1, <1>3
    <3> QED BY <3>1, <3>2
  <2> QED BY <2>1, <1>6, Tuple
<1>8. p \in [0..n -> Seq(Quadrants)] /\ p[0] = <<>>
  <2>1. ASSUME NEW k \in 0..n PROVE (IF k <= m THEN <<>> ELSE Later(m, k)) \in Seq(Quadrants)
    <3>1. CASE k <= m
      BY <3>1
    <3>2. CASE ~(k <= m)
      <4>1. k \in 1..4 /\ m <= k
        BY <3>2
      <4> QED BY <3>2, <4>1, LaterIs
    <3> QED BY <3>1, <3>2
  <2> QED BY <2>1
<1>9. ASSUME NEW k \in 1..n PROVE p[k] = p[k - 1] \o u[k]
  <2>0. k - 1 \in 0..n /\ k \in 0..n
    OBVIOUS
  <2>1. CASE k <= m
    <3>1. p[k] = <<>> /\ p[k - 1] = <<>> /\ u[k] = <<>>
      BY <2>0, <2>1, <1>3
    <3> QED BY <3>1
  <2>2. CASE k = m + 1
    <3>0. ~(k <= m) /\ k - 1 <= m
      BY <2>2
    <3>a. u[k] = <<AllLand[k]>>
      BY <3>0, <1>3
    <3>b. p[k] = Later(m, k) /\ p[k - 1] = <<>>
      BY <2>0, <3>0
    <3>1. p[k] = Later(m, k) /\ p[k - 1] = <<>> /\ u[k] = <<AllLand[k]>>
      BY <3>a, <3>b
    <3>2. Later(m, k) \in Seq(Quadrants) /\ Len(Later(m, k)) = 1 /\ Later(m, k)[1] = AllLand[k]
      <4>1. k \in 1..4 /\ m <= k /\ k - m = 1 /\ 1 \in 1..(k - m) /\ m + 1 = k
        BY <2>2
      <4> QED BY <4>1, LaterIs
    <3>3. <<AllLand[k]>> \in Seq(Quadrants)
      BY <1>4
    <3>4. Later(m, k) = <<AllLand[k]>>
      BY <3>2, <3>3
    <3>5. <<>> \o <<AllLand[k]>> = <<AllLand[k]>>
      BY <3>3
    <3> HIDE DEF p
    <3> QED BY <3>1, <3>4, <3>5
  <2>3. CASE ~(k <= m + 1)
    <3>1. p[k] = Later(m, k) /\ p[k - 1] = Later(m, k - 1) /\ u[k] = <<AllLand[k]>>
      BY <2>0, <2>3, <1>3
    <3>2. k \in 1..4 /\ k - 1 \in 1..4 /\ m <= k - 1 /\ k - 1 <= k
      BY <2>3
    <3>3. Later(m, k) = Later(m, k - 1) \o Later(k - 1, k)
      BY <3>2, LaterAndLater
    <3>4. Later(k - 1, k) = <<AllLand[k]>>
      <4> DEFINE j == k - 1
      <4>1. j \in 1..4 /\ k \in 1..4 /\ j <= k /\ k - j = 1 /\ j + 1 = k /\ 1 \in 1..1
        BY <3>2
      <4> HIDE DEF j
      <4>a. Later(j, k) \in Seq(Quadrants) /\ Len(Later(j, k)) = k - j
            /\ \A l \in 1..(k - j) : Later(j, k)[l] = AllLand[j + l]
        BY <4>1, LaterIs
      <4>2. Later(k - 1, k) \in Seq(Quadrants) /\ Len(Later(k - 1, k)) = 1
            /\ Later(k - 1, k)[1] = AllLand[k]
        BY <4>1, <4>a DEF j
      <4>3. <<AllLand[k]>> \in Seq(Quadrants)
        BY <1>4
      <4> QED BY <4>2, <4>3
    <3> QED BY <3>1, <3>3, <3>4
  <2>4. k <= m \/ k = m + 1 \/ ~(k <= m + 1)
    OBVIOUS
  <2> QED BY <2>1, <2>2, <2>3, <2>4, Zenon
<1> HIDE DEF p
<1>10. Runs(p, Quadrants, u)
  BY <1>7, <1>8, <1>9 DEF Runs
<1>11. FlattenSeq(u) = p[n]
  BY <1>7, <1>10, FlatIs
<1>12. p[n] = Later(m, n)
  <2>1. CASE n = m
    <3>1. Later(m, n) = <<>>
      <4>1. Later(m, n) \in Seq(Quadrants) /\ Len(Later(m, n)) = 0
        BY <2>1, LaterIs
      <4> QED BY <4>1
    <3>2. p[n] = <<>>
      BY <2>1 DEF p
    <3> QED BY <3>1, <3>2
  <2>2. CASE n # m
    BY <2>2 DEF p
  <2> QED BY <2>1, <2>2
<1>13. Unlike(s, t) = FlattenSeq(u)
  BY DEF Unlike, u
<1> QED BY <1>11, <1>12, <1>13 DEF s, t

\* The land of a day is that between its morning and the next.
LEMMA NewLand ==
  ASSUME Game, NEW d \in DaysStarted
  PROVE  Unlike(steps[EndOf(d)].farms[actor].unlocked_quadrants,
                steps[FirstStart(d)].farms[actor].unlocked_quadrants)
           = Concat(TurnsOf(d), LAMBDA t : t.lands)
<1> DEFINE n == EndOf(d) - FirstStart(d)
           len == [k \in 0..n |-> Len(steps[FirstStart(d) + k].farms[actor].unlocked_quadrants)]
           u == [k \in DOMAIN TurnsOf(d) |-> TurnsOf(d)[k].lands]
           m == len[0]
           p == [k \in 0..n |-> Later(m, len[k])]
<1>1. n \in Nat /\ FirstStart(d) \in 1..Len(steps) /\ EndOf(d) \in 1..Len(steps)
      /\ FirstStart(d) \in Nat /\ EndOf(d) \in Nat /\ Len(steps) \in Nat
      /\ DOMAIN TurnsOf(d) = 1..n
  BY Bounded, TurnsAre DEF Game
<1>2. ASSUME NEW k \in 0..n
      PROVE  /\ len[k] \in 1..4
             /\ steps[FirstStart(d) + k].farms[actor].unlocked_quadrants = Owned(len[k])
  <2>1. FirstStart(d) + k \in 1..Len(steps) /\ actor \in Seats
    BY <1>1 DEF Game
  <2> QED BY <2>1, FarmAt
<1>3. ASSUME NEW k \in 1..n
      PROVE  /\ len[k - 1] \in 1..4 /\ len[k] \in 1..4 /\ len[k - 1] <= len[k]
             /\ u[k] = Later(len[k - 1], len[k])
  <2> DEFINE i == FirstStart(d) + k
             t == TurnsOf(d)[k]
             a == len[k - 1]
             b == len[k]
  <2>1. k \in 0..n /\ k - 1 \in 0..n /\ FirstStart(d) + (k - 1) = i - 1
    BY <1>1
  <2>2. a \in 1..4 /\ b \in 1..4 /\ steps[i - 1].farms[actor].unlocked_quadrants = Owned(a)
        /\ steps[i].farms[actor].unlocked_quadrants = Owned(b)
    BY <2>1, <1>2
  <2>3. t = real[i - 1] /\ t \in Turns /\ Turned(actor, steps[i - 1], t, steps[i])
    BY TurnOf
  <2>4. u[k] = t.lands
    BY <1>1
  <2> HIDE DEF i, t, a, b, u, len
  <2>5. Owned(b) = Owned(a) \o t.lands /\ t.lands \in Seq(Quadrants)
    BY <2>2, <2>3 DEF Turned, Turns
  <2>6. /\ Owned(a) \in Seq(Quadrants) /\ Len(Owned(a)) = a
        /\ Owned(b) \in Seq(Quadrants) /\ Len(Owned(b)) = b
        /\ \A j \in 1..b : Owned(b)[j] = AllLand[j]
    BY <2>2, OwnedIs
  <2>7. b = a + Len(t.lands) /\ a <= b
    <3>1. Len(Owned(a) \o t.lands) = Len(Owned(a)) + Len(t.lands)
      BY <2>5, <2>6, JoinIs
    <3>2. b = a + Len(t.lands)
      BY <3>1, <2>5, <2>6
    <3>3. Len(t.lands) \in Nat
      BY <2>5
    <3> QED BY <3>2, <3>3, <2>2
  <2>8. Later(a, b) \in Seq(Quadrants) /\ Len(Later(a, b)) = b - a
        /\ \A j \in 1..(b - a) : Later(a, b)[j] = AllLand[a + j]
    BY <2>2, <2>7, LaterIs
  <2>9. Len(t.lands) = b - a
    BY <2>2, <2>5, <2>7
  <2>10. ASSUME NEW j \in 1..(b - a) PROVE t.lands[j] = Later(a, b)[j]
    <3>1. (Owned(a) \o t.lands)[a + j] = t.lands[j]
      BY <2>2, <2>5, <2>6, <2>9
    <3>2. a + j \in 1..b
      BY <2>2
    <3>3. Owned(b)[a + j] = AllLand[a + j]
      BY <3>2, <2>6
    <3> QED BY <3>1, <3>3, <2>5, <2>8
  <2>11. t.lands = Later(a, b)
    BY <2>5, <2>8, <2>9, <2>10, SameSeq
  <2> QED BY <2>2, <2>4, <2>7, <2>11 DEF a, b
<1> DEFINE W == {k \in 0..n : m <= len[k]}
<1>4. \A k \in 0..n : k \in W
  <2>1. 0 \in W
    BY <1>1, <1>2
  <2>2. ASSUME NEW k \in 1..n, k - 1 \in W PROVE k \in W
    <3> HIDE DEF len
    <3>1. m \in 1..4 /\ m <= len[k - 1] /\ k \in 0..n
      BY <1>1, <1>2, <2>2
    <3>2. len[k - 1] \in 1..4 /\ len[k] \in 1..4 /\ len[k - 1] <= len[k]
      BY <1>3
    <3>3. m <= len[k]
      BY <3>1, <3>2
    <3> QED BY <3>1, <3>3
  <2> HIDE DEF W
  <2> QED BY <1>1, <2>1, <2>2, Everywhere
<1> HIDE DEF len
<1>5. m \in 1..4 /\ \A k \in 0..n : len[k] \in 1..4 /\ m <= len[k]
  BY <1>1, <1>2, <1>4
<1> HIDE DEF m
<1>6. \A k \in 0..n : Later(m, len[k]) \in Seq(Quadrants)
  BY <1>5, LaterIs
<1>7. u \in Seq(Seq(Quadrants)) /\ Len(u) = n
  <2>1. u = [k \in 1..n |-> u[k]]
    BY <1>1
  <2>2. ASSUME NEW k \in 1..n PROVE u[k] \in Seq(Quadrants)
    <3>1. len[k - 1] \in 1..4 /\ len[k] \in 1..4 /\ len[k - 1] <= len[k]
          /\ u[k] = Later(len[k - 1], len[k])
      BY <1>3
    <3> HIDE DEF u
    <3> QED BY <3>1, LaterIs
  <2> HIDE DEF u
  <2> QED BY <1>1, <2>1, <2>2, Tuple
<1>8. p \in [0..n -> Seq(Quadrants)]
  BY <1>6
<1>9. p[0] = <<>>
  <2>1. 0 \in 0..n /\ p[0] = Later(m, m)
    BY <1>1 DEF m
  <2>2. Later(m, m) \in Seq(Quadrants) /\ Len(Later(m, m)) = 0
    <3>1. m <= m /\ m - m = 0
      BY <1>5
    <3> QED BY <3>1, <1>5, LaterIs
  <2> QED BY <2>1, <2>2
<1>10. ASSUME NEW k \in 1..n PROVE p[k] = p[k - 1] \o u[k]
  <2>1. k \in 0..n /\ k - 1 \in 0..n
    BY <1>1
  <2>2. p[k] = Later(m, len[k]) /\ p[k - 1] = Later(m, len[k - 1])
    BY <2>1
  <2>3. len[k - 1] <= len[k] /\ u[k] = Later(len[k - 1], len[k])
    BY <1>3
  <2>4. Later(m, len[k - 1]) \o Later(len[k - 1], len[k]) = Later(m, len[k])
    BY <2>1, <2>3, <1>5, LaterAndLater
  <2> HIDE DEF p, u
  <2> QED BY <2>2, <2>3, <2>4
<1> HIDE DEF p, u
<1>11. Runs(p, Quadrants, u)
  BY <1>7, <1>8, <1>9, <1>10 DEF Runs
<1>12. FlattenSeq(u) = p[n]
  BY <1>7, <1>11, FlatIs
<1>13. p[n] = Later(m, len[n])
  BY <1>1 DEF p
<1>14. /\ steps[EndOf(d)].farms[actor].unlocked_quadrants = Owned(len[n])
       /\ steps[FirstStart(d)].farms[actor].unlocked_quadrants = Owned(m)
  <2>1. /\ 0 \in 0..n /\ n \in 0..n
        /\ FirstStart(d) + 0 = FirstStart(d) /\ FirstStart(d) + n = EndOf(d)
    BY <1>1
  <2> QED BY <2>1, <1>2 DEF m
<1>15. Unlike(Owned(len[n]), Owned(m)) = Later(m, len[n])
  <2>1. n \in 0..n
    BY <1>1
  <2> QED BY <2>1, <1>5, UnlikeOwned
<1>16. Concat(TurnsOf(d), LAMBDA t : t.lands) = FlattenSeq(u)
  BY DEF Concat, u
<1> QED BY <1>12, <1>13, <1>14, <1>15, <1>16

-----------------------------------------------------------------------------
(* Hands. *)

\* A number of the Fibonacci sequence, and the cost of so many hands, are natural numbers.
LEMMA FibNat ==
  ASSUME NEW n \in Nat
  PROVE  Fib(n) \in Nat
<1> DEFINE S == [a : Nat, b : Nat]
           base == [a |-> 1, b |-> 1]
           G == [k \in 1..n |-> [x \in S |-> [a |-> x.b, b |-> x.a + x.b]]]
           Step(g) == [k \in 0..n |-> IF k = 0 THEN [a |-> 1, b |-> 1]
                                      ELSE [a |-> g[k - 1].b, b |-> g[k - 1].a + g[k - 1].b]]
           pair == CHOOSE g : g = Step(g)
<1>1. base \in S /\ G \in [1..n -> [S -> S]]
  <2>1. ASSUME NEW x \in S PROVE [a |-> x.b, b |-> x.a + x.b] \in S
    OBVIOUS
  <2>2. base \in S
    OBVIOUS
  <2> HIDE DEF S
  <2> QED BY <2>1, <2>2
<1>2. PICK f : Unfolds(f, n, S, base, G)
  <2> HIDE DEF S, base, G
  <2> QED BY <1>1, Recursion
<1>3. f \in [0..n -> S] /\ f[0] = base /\ \A k \in 1..n : f[k] = G[k][f[k - 1]]
  BY <1>2 DEF Unfolds
<1>4. f = Step(f)
  <2>1. ASSUME NEW k \in 0..n PROVE f[k] = Step(f)[k]
    <3>1. CASE k = 0
      BY <3>1, <1>3
    <3>2. CASE k # 0
      <4>1. k \in 1..n /\ k - 1 \in 0..n
        BY <3>2
      <4>2. f[k] = G[k][f[k - 1]] /\ f[k - 1] \in S
        BY <4>1, <1>3
      <4>3. f[k] = [a |-> f[k - 1].b, b |-> f[k - 1].a + f[k - 1].b]
        BY <4>1, <4>2
      <4> QED BY <4>3, <3>2
    <3> QED BY <3>1, <3>2
  <2>2. f = [k \in 0..n |-> f[k]] /\ DOMAIN Step(f) = 0..n
    BY <1>3
  <2>3. Step(f) = [k \in 0..n |-> Step(f)[k]]
    BY <2>2
  <2> HIDE DEF Step
  <2> QED BY <2>1, <2>2, <2>3
<1>5. pair = Step(pair)
  BY <1>4
<1>6. Fib(n) = pair[n].a
  BY DEF Fib
<1> HIDE DEF pair
<1>7. /\ pair[0] = base
      /\ \A k \in 1..n : pair[k] = [a |-> pair[k - 1].b, b |-> pair[k - 1].a + pair[k - 1].b]
  <2>1. pair[0] = base
    BY <1>5
  <2>2. ASSUME NEW k \in 1..n
        PROVE  pair[k] = [a |-> pair[k - 1].b, b |-> pair[k - 1].a + pair[k - 1].b]
    <3>1. k \in 0..n /\ k # 0
      OBVIOUS
    <3> QED BY <1>5, <3>1
  <2> QED BY <2>1, <2>2
<1> HIDE DEF Step
<1> DEFINE W == {k \in 0..n : pair[k] \in S}
<1>8. \A k \in 0..n : k \in W
  <2>1. 0 \in W
    BY <1>1, <1>7
  <2>2. ASSUME NEW k \in 1..n, k - 1 \in W PROVE k \in W
    <3>1. pair[k - 1] \in S /\ k \in 0..n
      BY <2>2
    <3>2. pair[k] = [a |-> pair[k - 1].b, b |-> pair[k - 1].a + pair[k - 1].b]
      BY <1>7
    <3>3. pair[k - 1].a \in Nat /\ pair[k - 1].b \in Nat
      BY <3>1
    <3>4. pair[k] \in S
      BY <3>2, <3>3
    <3> QED BY <3>1, <3>4
  <2> HIDE DEF W
  <2> QED BY <2>1, <2>2, Everywhere
<1>9. pair[n] \in S
  <2>1. n \in 0..n
    OBVIOUS
  <2> QED BY <2>1, <1>8
<1> QED BY <1>6, <1>9

LEMMA HireCost ==
  ASSUME NEW n \in Nat
  PROVE  TotalHireCost(n) \in Nat /\ (n = 0 => TotalHireCost(n) = 0)
<1> DEFINE s == [i \in 1..n |-> Fib(i - 1)]
<1>1. \A i \in 1..n : Fib(i - 1) \in Nat
  <2>1. \A i \in 1..n : i - 1 \in Nat
    OBVIOUS
  <2> QED BY <2>1, FibNat
<1>2. s \in Seq(Nat) /\ Len(s) = n
  <2>1. s = [i \in 1..n |-> s[i]] /\ \A i \in 1..n : s[i] \in Nat
    BY <1>1
  <2> HIDE DEF s
  <2> QED BY <2>1, Tuple
<1>3. TotalHireCost(n) = Total(s)
  BY DEF TotalHireCost
<1>4. Total(s) \in Nat
  <2> HIDE DEF s
  <2> QED BY <1>2, TotalNat
<1>5. ASSUME n = 0 PROVE Total(s) = 0
  <2>1. s = [k \in 1..n |-> 0]
    BY <1>5
  <2> HIDE DEF s
  <2> QED BY <2>1, TotalNothing
<1> QED BY <1>3, <1>4, <1>5

\* How many hands the observations of a day have seen hired: in the k-th of them.
Seen(d, k) == steps[FirstStart(d) + k].farms[actor].hires_today
Tally(n) == [workers_hired |-> n, hire_cost |-> TotalHireCost(n)]

\* Within a day the hands become more, by those hired.
LEMMA HandsGrow ==
  ASSUME Game, NEW d \in DaysStarted
  PROVE  /\ LastOf(d) - FirstStart(d) \in Nat /\ FirstStart(d) \in Nat
         /\ LastOf(d) - FirstStart(d) \in 0..(Hours - 1)
         /\ EndOf(d) - FirstStart(d) = IF EndOf(d) - FirstStart(d) = Hours
                                       THEN LastOf(d) - FirstStart(d) + 1
                                       ELSE LastOf(d) - FirstStart(d)
         /\ \A k \in 0..(LastOf(d) - FirstStart(d)) : Seen(d, k) \in Nat
         /\ Seen(d, 0) = 0
         /\ \A k \in 1..(LastOf(d) - FirstStart(d)) :
               /\ k \in 1..(EndOf(d) - FirstStart(d))
               /\ TurnsOf(d)[k].hired \in Nat /\ TurnsOf(d)[k].hour = k - 1 /\ k < Hours
               /\ Seen(d, k) = Seen(d, k - 1) + TurnsOf(d)[k].hired
<1> DEFINE F == FirstStart(d)
           n == EndOf(d) - F
           l == LastOf(d) - F
           m == d * Hours
<1>1. /\ d \in Nat /\ F = m + 1 /\ F \in 1..Len(steps)
      /\ EndOf(d) = IF m + Hours + 1 <= Len(steps) THEN m + Hours + 1 ELSE Len(steps)
      /\ LastOf(d) = IF m + Hours <= Len(steps) THEN m + Hours ELSE Len(steps)
      /\ EndOf(d) \in 1..Len(steps) /\ n \in 0..Hours
  BY Bounded
<1>2. m \in Nat /\ Len(steps) \in Nat
  BY <1>1, DayLength DEF Game
<1> HIDE DEF m
<1>3. l \in Nat /\ l \in 0..(Hours - 1) /\ n = (IF n = Hours THEN l + 1 ELSE l)
      /\ F + l <= Len(steps) /\ F \in Nat
  <2> DEFINE L == Len(steps)
             E == EndOf(d)
             Z == LastOf(d)
  <2>1. /\ F = m + 1 /\ F <= L /\ m \in Nat /\ L \in Nat
        /\ E = (IF m + Hours + 1 <= L THEN m + Hours + 1 ELSE L)
        /\ Z = (IF m + Hours <= L THEN m + Hours ELSE L)
    BY <1>1, <1>2
  <2> HIDE DEF L, E, Z, F
  <2> DEFINE good(e, z) == /\ z \in Nat /\ z \in 0..(Hours - 1)
                           /\ e = (IF e = Hours THEN z + 1 ELSE z)
                           /\ F + z <= L
  <2>2. good(E - F, Z - F)
    <3>1. CASE m + Hours + 1 <= L
      <4>1. E = m + Hours + 1 /\ Z = m + Hours
        BY <2>1, <3>1, Bounds
      <4>2. E - F = Hours /\ Z - F = Hours - 1 /\ F + (Hours - 1) <= L
        BY <4>1, <2>1, <3>1, Bounds
      <4> HIDE DEF good
      <4>3. good(Hours, Hours - 1)
        BY <4>2, Bounds DEF good
      <4> QED BY <4>2, <4>3
    <3>2. CASE ~(m + Hours + 1 <= L)
      <4>1. E = L /\ Z = L
        BY <2>1, <3>2, Bounds
      <4>2. L - F \in 0..(Hours - 1) /\ L - F # Hours /\ F + (L - F) <= L
        BY <2>1, <3>2, Bounds
      <4> QED BY <4>1, <4>2
    <3> QED BY <3>1, <3>2
  <2>3. n = E - F /\ l = Z - F /\ F \in Nat
    BY <2>1 DEF E, Z
  <2> HIDE DEF n, l
  <2> QED BY <2>2, <2>3 DEF L
<1>4. ASSUME NEW k \in 0..l PROVE Seen(d, k) \in Nat
  <2>1. F + k \in 1..Len(steps) /\ actor \in Seats
    BY <1>1, <1>2, <1>3 DEF Game
  <2> QED BY <2>1, FarmAt DEF Seen
<1>5. Seen(d, 0) = 0
  <2>1. F + 0 = F /\ F \in 1..Len(steps)
    BY <1>1, <1>3
  <2>2. steps[F].hour = 0
    BY <1>1, <2>1, DayOf DEF m
  <2> QED BY <2>1, <2>2 DEF Seen, Game
<1>6. ASSUME NEW k \in 1..l
      PROVE  /\ k \in 1..n /\ TurnsOf(d)[k].hired \in Nat /\ TurnsOf(d)[k].hour = k - 1 /\ k < Hours
             /\ Seen(d, k) = Seen(d, k - 1) + TurnsOf(d)[k].hired
  <2> DEFINE i == F + k
             t == TurnsOf(d)[k]
  <2>1. k \in 1..n /\ k < Hours /\ F + (k - 1) = i - 1 /\ (k - 1) + 1 # Hours
    BY <1>3, Bounds
  <2>2. t = real[i - 1] /\ t \in Turns /\ Turned(actor, steps[i - 1], t, steps[i])
        /\ steps[i - 1].hour = k - 1
    BY <2>1, TurnOf
  <2> HIDE DEF i, t
  <2>3. t.hired \in Nat /\ t.hour = k - 1
    BY <2>2 DEF Turns, Turned
  <2>4. steps[i].farms[actor].hires_today = steps[i - 1].farms[actor].hires_today + t.hired
    BY <2>1, <2>2 DEF Turned
  <2>5. Seen(d, k) = Seen(d, k - 1) + t.hired
    BY <2>1, <2>4 DEF Seen, i
  <2> QED BY <2>1, <2>3, <2>5 DEF t
<1> QED BY <1>3, <1>4, <1>5, <1>6

\* The counter read over a day: as many as its last observation shows, at their cost.
LEMMA ExecutionIs ==
  ASSUME Game, NEW d \in DaysStarted
  PROVE  PreviousExecution(actor, d) = Tally(Seen(d, LastOf(d) - FirstStart(d)))
<1> DEFINE F == FirstStart(d)
           l == LastOf(d) - F
           turns == l + 1
           obs(k) == steps[F + k - 1].farms[actor].hires_today
           Step(g) == [k \in 0..turns |->
                 IF k = 0 THEN [workers_hired |-> 0, hire_cost |-> 0]
                 ELSE IF obs(k) <= g[k - 1].workers_hired THEN g[k - 1]
                      ELSE [workers_hired |-> obs(k),
                            hire_cost |-> g[k - 1].hire_cost + TotalHireCost(obs(k))
                                            - TotalHireCost(g[k - 1].workers_hired)]]
           w == [k \in 0..turns |-> Tally(IF k = 0 THEN 0 ELSE Seen(d, k - 1))]
           seen == CHOOSE g : g = Step(g)
<1>1. /\ l \in Nat /\ F \in Nat
      /\ \A k \in 0..l : Seen(d, k) \in Nat
      /\ Seen(d, 0) = 0
      /\ \A k \in 1..l : TurnsOf(d)[k].hired \in Nat
                         /\ Seen(d, k) = Seen(d, k - 1) + TurnsOf(d)[k].hired
  BY HandsGrow
<1>2. PreviousExecution(actor, d) = seen[turns]
  BY DEF PreviousExecution
<1> HIDE DEF l, F
<1>3. \A k \in 1..turns : obs(k) = Seen(d, k - 1) /\ k - 1 \in 0..l
  <2>1. ASSUME NEW k \in 1..turns PROVE obs(k) = Seen(d, k - 1) /\ k - 1 \in 0..l
    <3>1. F + (k - 1) = F + k - 1 /\ k - 1 \in 0..l
      BY <1>1
    <3> QED BY <3>1 DEF Seen, F
  <2> QED BY <2>1
<1> HIDE DEF obs, seen
<1>4. ASSUME NEW g, NEW k \in 1..turns,
             g[k - 1] = Tally(IF k - 1 = 0 THEN 0 ELSE Seen(d, k - 2))
      PROVE  Step(g)[k] = Tally(Seen(d, k - 1))
  <2> DEFINE before == IF k - 1 = 0 THEN 0 ELSE Seen(d, k - 2)
             now == Seen(d, k - 1)
  <2>1. k \in 0..turns /\ k # 0 /\ obs(k) = now
    BY <1>1, <1>3
  <2>2. before \in Nat /\ now \in Nat /\ before <= now
    <3>1. CASE k = 1
      <4>1. k - 1 = 0 /\ 0 \in 0..l
        BY <3>1, <1>1
      <4> QED BY <4>1, <1>1
    <3>2. CASE k # 1
      <4>1. k - 1 \in 1..l /\ k - 2 \in 0..l /\ k - 1 \in 0..l /\ (k - 1) - 1 = k - 2 /\ k - 1 # 0
        BY <3>2, <1>1
      <4>2. now = Seen(d, k - 2) + TurnsOf(d)[k - 1].hired /\ TurnsOf(d)[k - 1].hired \in Nat
        BY <4>1, <1>1
      <4>3. Seen(d, k - 2) \in Nat
        BY <4>1, <1>1
      <4> QED BY <4>1, <4>2, <4>3
    <3> QED BY <3>1, <3>2
  <2> HIDE DEF before, now
  <2>3. TotalHireCost(before) \in Nat /\ TotalHireCost(now) \in Nat
    BY <2>2, HireCost
  <2>4. g[k - 1].workers_hired = before /\ g[k - 1].hire_cost = TotalHireCost(before)
        /\ g[k - 1] = Tally(before)
    BY <1>4 DEF Tally, before
  <2>5. Step(g)[k] = IF now <= before THEN g[k - 1]
                     ELSE [workers_hired |-> now,
                           hire_cost |-> TotalHireCost(before) + TotalHireCost(now)
                                           - TotalHireCost(before)]
    BY <2>1, <2>4
  <2> HIDE DEF Step
  <2>6. CASE now <= before
    <3>1. now = before
      BY <2>2, <2>6
    <3> QED BY <3>1, <2>4, <2>5, <2>6 DEF now
  <2>7. CASE ~(now <= before)
    <3>1. TotalHireCost(before) + TotalHireCost(now) - TotalHireCost(before) = TotalHireCost(now)
      BY <2>3
    <3> QED BY <3>1, <2>5, <2>7 DEF Tally, now
  <2> QED BY <2>6, <2>7
<1>5. \A k \in 1..turns :
         /\ w[k] = Tally(Seen(d, k - 1))
         /\ w[k - 1] = Tally(IF k - 1 = 0 THEN 0 ELSE Seen(d, k - 2))
  <2>1. ASSUME NEW k \in 1..turns
        PROVE  /\ w[k] = Tally(Seen(d, k - 1))
               /\ w[k - 1] = Tally(IF k - 1 = 0 THEN 0 ELSE Seen(d, k - 2))
    <3>1. k \in 0..turns /\ k - 1 \in 0..turns /\ k # 0 /\ (k - 1) - 1 = k - 2
      BY <1>1
    <3> QED BY <3>1
  <2> QED BY <2>1
<1>6. w[0] = Tally(0) /\ Tally(0) = [workers_hired |-> 0, hire_cost |-> 0]
  <2>1. 0 \in 0..turns
    BY <1>1
  <2> QED BY <2>1, HireCost DEF Tally
<1>7. \A g : Step(g)[0] = Tally(0)
  <2>1. 0 \in 0..turns
    BY <1>1
  <2> QED BY <2>1, <1>6
<1>8. DOMAIN w = 0..turns /\ w = [k \in 0..turns |-> w[k]]
  OBVIOUS
<1>9. \A g : Step(g) = [k \in 0..turns |-> Step(g)[k]]
  OBVIOUS
<1> HIDE DEF w, Step
<1>10. w = Step(w)
  <2>1. ASSUME NEW k \in 0..turns PROVE w[k] = Step(w)[k]
    <3>1. CASE k = 0
      BY <3>1, <1>6, <1>7
    <3>2. CASE k # 0
      <4>1. k \in 1..turns
        BY <3>2, <1>1
      <4>2. /\ w[k] = Tally(Seen(d, k - 1))
            /\ w[k - 1] = Tally(IF k - 1 = 0 THEN 0 ELSE Seen(d, k - 2))
        BY <4>1, <1>5
      <4>3. Step(w)[k] = Tally(Seen(d, k - 1))
        BY <4>1, <4>2, <1>4
      <4> QED BY <4>2, <4>3
    <3> QED BY <3>1, <3>2
  <2> QED BY <2>1, <1>8, <1>9
<1>11. seen = Step(seen)
  BY <1>10 DEF seen
<1> DEFINE W == {k \in 0..turns : seen[k] = w[k]}
<1>12. \A k \in 0..turns : k \in W
  <2>1. 0 \in W
    <3>1. seen[0] = Step(seen)[0] /\ 0 \in 0..turns
      BY <1>1, <1>11
    <3> QED BY <3>1, <1>6, <1>7
  <2>2. ASSUME NEW k \in 1..turns, k - 1 \in W PROVE k \in W
    <3>1. k \in 0..turns /\ seen[k - 1] = w[k - 1]
      BY <1>1, <2>2
    <3>2. w[k] = Tally(Seen(d, k - 1)) /\ w[k - 1] = Tally(IF k - 1 = 0 THEN 0 ELSE Seen(d, k - 2))
      BY <1>5
    <3>3. Step(seen)[k] = Tally(Seen(d, k - 1))
      BY <3>1, <3>2, <1>4
    <3> QED BY <3>1, <3>2, <3>3, <1>11
  <2>3. turns \in Nat
    BY <1>1
  <2> HIDE DEF W, turns
  <2> QED BY <2>1, <2>2, <2>3, Everywhere
<1>13. turns \in 1..turns /\ turns \in 0..turns /\ turns - 1 = l
  BY <1>1
<1>14. seen[turns] = Tally(Seen(d, l))
  BY <1>5, <1>12, <1>13
<1> QED BY <1>2, <1>14 DEF l, F

\* Those are the hands hired in its turns but for the last.
LEMMA ShownIs ==
  ASSUME Game, NEW d \in DaysStarted
  PROVE  Total([k \in DOMAIN TurnsOf(d) |->
                  IF TurnsOf(d)[k].hour + 1 < Hours THEN TurnsOf(d)[k].hired ELSE 0])
           = Seen(d, LastOf(d) - FirstStart(d))
<1> DEFINE n == EndOf(d) - FirstStart(d)
           l == LastOf(d) - FirstStart(d)
           s == [k \in DOMAIN TurnsOf(d) |->
                   IF TurnsOf(d)[k].hour + 1 < Hours THEN TurnsOf(d)[k].hired ELSE 0]
           p == [k \in 0..n |-> Seen(d, IF k <= l THEN k ELSE l)]
<1>1. /\ l \in Nat /\ l \in 0..(Hours - 1) /\ n = (IF n = Hours THEN l + 1 ELSE l)
      /\ \A k \in 0..l : Seen(d, k) \in Nat
      /\ Seen(d, 0) = 0
      /\ \A k \in 1..l : /\ k \in 1..n /\ TurnsOf(d)[k].hired \in Nat
                         /\ TurnsOf(d)[k].hour = k - 1 /\ k < Hours
                         /\ Seen(d, k) = Seen(d, k - 1) + TurnsOf(d)[k].hired
  BY HandsGrow
<1>2. DOMAIN TurnsOf(d) = 1..n /\ n \in 0..Hours
  BY TurnsAre, Bounded
<1> HIDE DEF l, n
<1>3. n \in Nat /\ l <= n /\ (\A k \in 1..n : k <= l \/ (k = l + 1 /\ k = Hours))
      /\ (\A k \in 1..n : k <= l => k \in 1..l)
  BY <1>1, <1>2, Bounds
<1>4. \A k \in 1..l : s[k] = TurnsOf(d)[k].hired
  <2>1. ASSUME NEW k \in 1..l PROVE s[k] = TurnsOf(d)[k].hired
    <3>1. k \in 1..n /\ TurnsOf(d)[k].hour = k - 1 /\ (k - 1) + 1 < Hours
      BY <1>1
    <3> QED BY <3>1, <1>2
  <2> QED BY <2>1
<1>5. ASSUME NEW k \in 1..n, ~(k <= l) PROVE s[k] = 0
  <2>1. k = Hours
    BY <1>3, <1>5
  <2>2. TurnsOf(d)[k].hour = k - 1
    <3>1. k \in 1..(EndOf(d) - FirstStart(d))
      BY DEF n
    <3> DEFINE i == FirstStart(d) + k
    <3>a. FirstStart(d) + (k - 1) = i - 1
      <4>1. FirstStart(d) \in Nat
        BY HandsGrow
      <4> QED BY <4>1, <1>3
    <3>2. TurnsOf(d)[k] = real[i - 1] /\ Turned(actor, steps[i - 1], real[i - 1], steps[i])
          /\ steps[i - 1].hour = k - 1
      BY <3>1, <3>a, TurnOf
    <3> HIDE DEF i
    <3> QED BY <3>2 DEF Turned
  <2>3. ~((k - 1) + 1 < Hours)
    BY <2>1, Bounds
  <2> QED BY <2>2, <2>3, <1>2
<1>6. s \in Seq(Int) /\ Len(s) = n
  <2>1. s = [k \in 1..n |-> s[k]]
    BY <1>2
  <2>2. ASSUME NEW k \in 1..n PROVE s[k] \in Int
    <3> HIDE DEF s
    <3>1. CASE k <= l
      <4>1. k \in 1..l
        BY <3>1, <1>3
      <4>2. s[k] = TurnsOf(d)[k].hired /\ TurnsOf(d)[k].hired \in Nat
        BY <4>1, <1>1, <1>4
      <4> QED BY <4>2
    <3>2. CASE ~(k <= l)
      BY <3>2, <1>5
    <3> QED BY <3>1, <3>2
  <2> HIDE DEF s
  <2> QED BY <1>3, <2>1, <2>2, Tuple
<1>7. \A k \in 0..n : (k <= l => p[k] = Seen(d, k)) /\ (~(k <= l) => p[k] = Seen(d, l))
  OBVIOUS
<1>8. p \in [0..n -> Int]
  <2>1. ASSUME NEW k \in 0..n PROVE Seen(d, IF k <= l THEN k ELSE l) \in Int
    <3>1. (IF k <= l THEN k ELSE l) \in 0..l
      BY <1>1
    <3> QED BY <3>1, <1>1
  <2> QED BY <2>1
<1> HIDE DEF p, s
<1>9. p[0] = 0
  <2>1. 0 \in 0..n /\ 0 <= l
    BY <1>1, <1>3
  <2> QED BY <2>1, <1>1, <1>7
<1>10. ASSUME NEW k \in 1..n PROVE p[k] = p[k - 1] + s[k]
  <2>0. k \in 0..n /\ k - 1 \in 0..n
    BY <1>3
  <2>1. CASE k <= l
    <3>1. k \in 1..l /\ k - 1 <= l
      BY <2>1, <1>1, <1>3
    <3>2. p[k] = Seen(d, k) /\ p[k - 1] = Seen(d, k - 1)
      BY <2>0, <2>1, <3>1, <1>7
    <3>3. Seen(d, k) = Seen(d, k - 1) + TurnsOf(d)[k].hired /\ s[k] = TurnsOf(d)[k].hired
      BY <3>1, <1>1, <1>4
    <3> QED BY <3>2, <3>3
  <2>2. CASE ~(k <= l)
    <3>1. k = l + 1 /\ k - 1 = l /\ k - 1 <= l
      BY <2>2, <1>1, <1>3
    <3>2. p[k] = Seen(d, l) /\ p[k - 1] = Seen(d, k - 1)
      BY <2>0, <2>2, <3>1, <1>7
    <3>3. s[k] = 0 /\ Seen(d, l) \in Nat
      BY <2>2, <1>1, <1>5
    <3> QED BY <3>1, <3>2, <3>3
  <2> QED BY <2>1, <2>2
<1>11. Sums(p, s)
  BY <1>6, <1>8, <1>9, <1>10 DEF Sums
<1>12. Total(s) = p[n]
  BY <1>6, <1>11, TotalIs
<1>13. p[n] = Seen(d, l)
  <2>1. n \in 0..n
    BY <1>3
  <2>2. CASE n <= l
    <3>1. n = l
      BY <2>2, <1>1, <1>3
    <3> QED BY <2>1, <2>2, <3>1, <1>7
  <2>3. CASE ~(n <= l)
    BY <2>1, <2>3, <1>7
  <2> QED BY <2>2, <2>3
<1> QED BY <1>12, <1>13 DEF s, l

-----------------------------------------------------------------------------
(* What a run has extracted. *)

\* The days in their order.
LEMMA InOrderIs ==
  ASSUME NEW n \in Nat
  PROVE  InOrder(0..n) = [k \in 1..(n + 1) |-> k - 1] /\ Cardinality(0..n) = n + 1
<1> DEFINE S == 0..n
<1>1. Cardinality(S) = n + 1
  BY FS_Interval
<1>2. ASSUME NEW i \in S PROVE Cardinality({j \in S : j < i}) = i
  <2>1. {j \in S : j < i} = 0..(i - 1)
    OBVIOUS
  <2>2. Cardinality(0..(i - 1)) = IF 0 > i - 1 THEN 0 ELSE (i - 1) - 0 + 1
    BY FS_Interval
  <2>3. i \in Nat /\ (IF 0 > i - 1 THEN 0 ELSE (i - 1) - 0 + 1) = i
    OBVIOUS
  <2> HIDE DEF S
  <2>4. Cardinality(0..(i - 1)) = i
    BY <2>2, <2>3
  <2> QED BY <2>1, <2>4
<1>3. ASSUME NEW k \in 1..(n + 1)
      PROVE  (CHOOSE i \in S : Cardinality({j \in S : j < i}) = k - 1) = k - 1
  <2>1. k - 1 \in S
    OBVIOUS
  <2>2. Cardinality({j \in S : j < k - 1}) = k - 1
    BY <2>1, <1>2
  <2> HIDE DEF S
  <2> QED BY <2>1, <2>2, <1>2
<1>4. InOrder(S) = [k \in 1..(n + 1) |-> k - 1]
  BY <1>1, <1>3 DEF InOrder
<1> QED BY <1>1, <1>4

LEMMA DayCount == Game => Cardinality(DaysStarted) \in Nat \ {0}
<1>1. ASSUME Game PROVE Cardinality(DaysStarted) \in Nat \ {0}
  <2> DEFINE last == steps[Len(steps)].day
  <2>1. DaysStarted = 0..last /\ last \in Nat
    BY <1>1, DaysAre
  <2> HIDE DEF last
  <2>2. Cardinality(0..last) = last + 1
    BY <2>1, InOrderIs
  <2> QED BY <2>1, <2>2
<1> QED BY <1>1

\* The records the extractor makes of the game.
AllRecords == {Record(s, d, p) : s \in Seats, d \in DaysStarted, p \in Positions}

LEMMA DaysMade ==
  ASSUME Game, NEW s \in Seats, NEW p \in Positions
  PROVE  Days(s, p) \in Seq(AllRecords) /\ Len(Days(s, p)) = Cardinality(DaysStarted)
<1> DEFINE last == steps[Len(steps)].day
           days == InOrder(DaysStarted)
<1>1. last \in Nat /\ DaysStarted = 0..last
  BY DaysAre
<1> HIDE DEF last
<1>2. days = [k \in 1..(last + 1) |-> k - 1] /\ Cardinality(DaysStarted) = last + 1
  BY <1>1, InOrderIs
<1>3. \A k \in 1..(last + 1) : days[k] \in DaysStarted
  BY <1>1, <1>2
<1>4. Days(s, p) = [k \in 1..(last + 1) |-> Record(s, days[k], p)]
  BY <1>2 DEF Days
<1>5. \A k \in 1..(last + 1) : Record(s, days[k], p) \in AllRecords
  BY <1>3 DEF AllRecords
<1> DEFINE r == [k \in 1..(last + 1) |-> Record(s, days[k], p)]
<1>6. \A k \in 1..(last + 1) : r[k] \in AllRecords
  BY <1>5
<1>7. r = [k \in 1..(last + 1) |-> r[k]]
  OBVIOUS
<1> HIDE DEF r
<1>8. r \in Seq(AllRecords) /\ Len(r) = last + 1
  <2>1. last + 1 \in Nat
    BY <1>1
  <2> QED BY <2>1, <1>6, <1>7, Tuple
<1> QED BY <1>2, <1>4, <1>8 DEF r

\* Every record kept is one of the game, and there are as many as the replays parsed make.
Kept ==
    /\ parsed \in Nat /\ kept \in Seq(AllRecords)
    /\ Len(kept) = parsed * 2 * Cardinality(DaysStarted)
    /\ phase = "playing" => kept = <<>> /\ parsed = 0
    /\ phase \in {"playing", "extracting", "writing", "exit 0", "exit 2", "exit 3", "raised",
                  "crashed"}

LEMMA Enough ==
  ASSUME Game, Kept, NEW p \in Positions
  PROVE  /\ kept \o ExtractReplay(p) \in Seq(AllRecords)
         /\ Len(kept \o ExtractReplay(p)) = (parsed + 1) * 2 * Cardinality(DaysStarted)
<1> DEFINE a == Days(0, p)
           b == Days(1, p)
           c == Cardinality(DaysStarted)
<1>1. a \in Seq(AllRecords) /\ Len(a) = c /\ b \in Seq(AllRecords) /\ Len(b) = c
  BY DaysMade DEF Seats
<1>2. c \in Nat
  BY DayCount
<1>3. ExtractReplay(p) = a \o b
  BY DEF ExtractReplay
<1> HIDE DEF a, b, c
<1>4. a \o b \in Seq(AllRecords) /\ Len(a \o b) = c + c
  BY <1>1, <1>2, JoinIs
<1> DEFINE e == a \o b
<1> HIDE DEF e
<1>5. e \in Seq(AllRecords) /\ Len(e) = c + c /\ kept \in Seq(AllRecords)
  BY <1>4 DEF e, Kept
<1>6. kept \o e \in Seq(AllRecords) /\ Len(kept \o e) = Len(kept) + Len(e)
  BY <1>5, JoinIs
<1>7. (parsed + 1) * 2 * c = parsed * 2 * c + (c + c)
  <2>1. parsed \in Nat
    BY DEF Kept
  <2>2. (parsed + 1) * 2 = parsed * 2 + 2 /\ parsed * 2 \in Nat
    BY <2>1
  <2> DEFINE q == parsed * 2
  <2> HIDE DEF q
  <2>3. (q + 2) * c = q * c + (c + c)
    <3>1. q \in Nat
      BY <2>2 DEF q
    <3> QED BY <3>1, <1>2
  <2> QED BY <2>2, <2>3 DEF q
<1>8. Len(kept) = parsed * 2 * c
  BY DEF Kept, c
<1> QED BY <1>3, <1>5, <1>6, <1>7, <1>8 DEF c, e

LEMMA KeptStarts == ASSUME Game, ReplaysInit PROVE Kept
<1>1. kept = <<>> /\ parsed = 0 /\ phase = "playing"
  BY DEF ReplaysInit
<1>2. Cardinality(DaysStarted) \in Nat
  BY DayCount
<1>3. 0 * 2 * Cardinality(DaysStarted) = 0
  BY <1>2
<1> QED BY <1>1, <1>3 DEF Kept

LEMMA KeptStands ==
  ASSUME Game, Kept, [ReplaysNext]_replays_vars
  PROVE  Kept'
<1>a. ASSUME steps' = steps
      PROVE  AllRecords' = AllRecords /\ DaysStarted' = DaysStarted
  BY <1>a DEF AllRecords, Record, FirstStart, EndOf, LastOf, DaysStarted, DayEvents, StepEvents,
              WithinDay, State, PreviousExecution
<1>b. ASSUME UNCHANGED <<steps, kept, parsed>>, phase' # "playing" \/ phase' = phase,
             phase' \in {"playing", "extracting", "writing", "exit 0", "exit 2", "exit 3",
                         "raised", "crashed"}
      PROVE  Kept'
  BY <1>a, <1>b DEF Kept
<1>1. CASE Play
  <2>1. phase = "playing" /\ UNCHANGED <<kept, parsed, phase>>
    BY <1>1 DEF Play
  <2>2. kept = <<>> /\ parsed = 0
    BY <2>1 DEF Kept
  <2>3. Game'
    BY <1>1, GameGoesOn
  <2>4. Cardinality(DaysStarted)' \in Nat
    <3>1. (Cardinality(DaysStarted) \in Nat \ {0})'
      BY <2>3, DayCount, PTL
    <3> QED BY <3>1
  <2>5. 0 * 2 * Cardinality(DaysStarted)' = 0
    BY <2>4
  <2> QED BY <2>1, <2>2, <2>5 DEF Kept
<1>2. CASE Invoke
  BY <1>2, <1>b DEF Invoke
<1>3. CASE ReadInput
  <2>1. CASE Extract
    <3>1. PICK p \in Positions : kept' = kept \o ExtractReplay(p)
      BY <2>1 DEF Extract
    <3>2. parsed' = parsed + 1 /\ phase' = phase /\ phase = "extracting" /\ steps' = steps
      BY <1>3, <2>1 DEF Extract, ReadInput
    <3>3. kept' \in Seq(AllRecords) /\ Len(kept') = parsed' * 2 * Cardinality(DaysStarted)
      BY <3>1, <3>2, Enough
    <3> QED BY <3>2, <3>3, <1>a DEF Kept
  <2>2. CASE Refuse
    <3>1. UNCHANGED <<steps, kept, parsed>> /\ phase' \in {"exit 2", "exit 3", phase}
          /\ phase = "extracting"
      BY <1>3, <2>2 DEF Refuse, ReadInput, Exit
    <3> QED BY <3>1, <1>b
  <2> QED BY <1>3, <2>1, <2>2 DEF ReadInput
<1>4. CASE Convert
  BY <1>4, <1>b DEF Convert
<1>5. CASE WriteTable
  BY <1>5, <1>b DEF WriteTable
<1>6. CASE Crash
  BY <1>6, <1>b DEF Crash
<1>7. CASE UNCHANGED replays_vars
  BY <1>7, <1>b DEF replays_vars, Kept
<1> QED BY <1>1, <1>2, <1>3, <1>4, <1>5, <1>6, <1>7 DEF ReplaysNext

\* A record of the acting seat on a day is the extractor's.
LEMMA MineIs ==
  ASSUME Kept, NEW d, NEW r \in MineOf(d)
  PROVE  d \in DaysStarted /\ \E p \in Positions : r = Record(actor, d, p)
<1>1. PICK k \in DOMAIN kept : r = kept[k]
  BY DEF MineOf, Records
<1>2. r \in AllRecords
  <2>1. kept \in Seq(AllRecords)
    BY DEF Kept
  <2> QED BY <1>1, <2>1, IsTuple
<1>3. PICK s \in Seats, e \in DaysStarted, p \in Positions : r = Record(s, e, p)
  BY <1>2 DEF AllRecords
<1>4. r.seat = s /\ r.day = e
  BY <1>3 DEF Record
<1>5. r.seat = actor /\ r.day = d
  BY DEF MineOf
<1> QED BY <1>3, <1>4, <1>5

LEMMA RecordIs ==
  ASSUME NEW s, NEW d, NEW p
  PROVE  /\ Record(s, d, p).seat = s /\ Record(s, d, p).day = d
         /\ Record(s, d, p).events = DayEvents(s, d, p)
         /\ Record(s, d, p).realized = PreviousExecution(s, d)
         /\ Record(s, d, p).previous_execution = PreviousExecution(s, d - 1)
         /\ Record(s, d, p).targets.new_quadrants
              = Unlike(steps[EndOf(d)].farms[s].unlocked_quadrants,
                       steps[FirstStart(d)].farms[s].unlocked_quadrants)
BY DEF Record, State

LEMMA GrantsAre ==
  ASSUME Game, Kept
  PROVE  GrantsAreObserved
<1>1. ASSUME NEW d \in DaysStarted, NEW r \in MineOf(d)
      PROVE  /\ r.events.land = Concat(TurnsOf(d), LAMBDA t :
                   [k \in 1..OrdersOf(t.action, "BUY_LAND") |->
                      [quadrant |-> IF k \in DOMAIN t.lands THEN t.lands[k] ELSE Null,
                       hour |-> t.hour]])
             /\ r.targets.new_quadrants = Concat(TurnsOf(d), LAMBDA t : t.lands)
  <2>1. PICK p \in Positions : r = Record(actor, d, p)
    BY MineIs
  <2>2. r.events = DayEvents(actor, d, p)
        /\ r.targets.new_quadrants
             = Unlike(steps[EndOf(d)].farms[actor].unlocked_quadrants,
                      steps[FirstStart(d)].farms[actor].unlocked_quadrants)
    BY <2>1, RecordIs
  <2>3. DayEvents(actor, d, p).land
          = Concat(TurnsOf(d), LAMBDA t :
               [k \in 1..OrdersOf(t.action, "BUY_LAND") |->
                  [quadrant |-> IF k \in DOMAIN t.lands THEN t.lands[k] ELSE Null,
                   hour |-> t.hour]])
    BY LandOf
  <2>4. Unlike(steps[EndOf(d)].farms[actor].unlocked_quadrants,
               steps[FirstStart(d)].farms[actor].unlocked_quadrants)
          = Concat(TurnsOf(d), LAMBDA t : t.lands)
    BY NewLand
  <2> QED BY <2>2, <2>3, <2>4
<1>2. LandIsObserved
  BY <1>1 DEF LandIsObserved
<1>3. ASSUME NEW d \in DaysStarted, NEW r \in MineOf(d)
      PROVE  LET turns == TurnsOf(d)
                 shown == Total([k \in DOMAIN turns |->
                              IF turns[k].hour + 1 < Hours THEN turns[k].hired ELSE 0])
             IN  /\ r.realized = [workers_hired |-> shown, hire_cost |-> TotalHireCost(shown)]
                 /\ \A next \in MineOf(d + 1) : next.previous_execution = r.realized
  <2> DEFINE shown == Total([k \in DOMAIN TurnsOf(d) |->
                 IF TurnsOf(d)[k].hour + 1 < Hours THEN TurnsOf(d)[k].hired ELSE 0])
  <2>1. PICK p \in Positions : r = Record(actor, d, p)
    BY MineIs
  <2>2. r.realized = PreviousExecution(actor, d)
    BY <2>1, RecordIs
  <2>3. shown = Seen(d, LastOf(d) - FirstStart(d))
    BY ShownIs
  <2>4. PreviousExecution(actor, d) = Tally(Seen(d, LastOf(d) - FirstStart(d)))
    BY ExecutionIs
  <2>5. r.realized = Tally(shown)
    BY <2>2, <2>3, <2>4
  <2>6. ASSUME NEW next \in MineOf(d + 1) PROVE next.previous_execution = r.realized
    <3>1. PICK q \in Positions : next = Record(actor, d + 1, q)
      BY MineIs
    <3>2. next.previous_execution = PreviousExecution(actor, (d + 1) - 1)
      BY <3>1, RecordIs
    <3>3. (d + 1) - 1 = d
      BY Bounded
    <3> QED BY <2>2, <3>2, <3>3
  <2> HIDE DEF shown
  <2>7. /\ r.realized = [workers_hired |-> shown, hire_cost |-> TotalHireCost(shown)]
        /\ \A next \in MineOf(d + 1) : next.previous_execution = r.realized
    BY <2>5, <2>6 DEF Tally
  <2> QED BY <2>7 DEF shown
<1>4. HiresAreObserved
  BY <1>3 DEF HiresAreObserved
<1> QED BY <1>2, <1>4 DEF GrantsAreObserved

LEMMA GameHolds == ReplaysSpec => [](Game /\ Kept)
<1>1. ReplaysInit => Game /\ Kept
  BY GameStarts, KeptStarts
<1>2. Game /\ Kept /\ [ReplaysNext]_replays_vars => (Game /\ Kept)'
  BY GameKept, KeptStands
<1> QED BY <1>1, <1>2, PTL DEF ReplaysSpec

\* Whatever is played, extracted and stored: land and hands of a row are those granted.
THEOREM GrantsHold == ReplaysSpec => []GrantsAreObserved
<1>1. Game /\ Kept => GrantsAreObserved
  BY GrantsAre
<1> QED BY <1>1, GameHolds, PTL

-----------------------------------------------------------------------------
(* Rows. *)

LEMMA ColumnsIs ==
  ASSUME NEW f, NEW names, DOMAIN f \subseteq names
  PROVE  \A n \in DOMAIN f : Columns(f, names)[n] = f[n]
BY DEF Columns

\* A tile with the fields of the schema survives the table.
LEMMA TileRound ==
  ASSUME NEW t \in Tiles, Known(CanonicalTile(t))
  PROVE  DenormTile(NormTile(CanonicalTile(t))) = CanonicalTile(t)
<1> DEFINE c == CanonicalTile(t)
           names == {"currently_harvestable", "days_until_next_harvest"}
           row == NormTile(c)
<1>1. \/ t \in {Empty, Locked, Weed}
      \/ \E y \in {0, 1} : t = Plant(y)
      \/ \E y \in {0, 1} : t = Wilted(y)
  BY DEF Tiles
<1>2. \A y \in {0, 1} : t # Wilted(y)
  <2>1. ASSUME NEW y \in {0, 1}, t = Wilted(y) PROVE FALSE
    <3>1. c.tile = t
      BY DEF CanonicalTile
    <3>2. t.fields = [f \in {"crop", "yield_units", "wilted"} |->
                        IF f = "yield_units" THEN y ELSE 1]
      BY <2>1 DEF Wilted, Tile
    <3>3. "wilted" \in DOMAIN c.tile.fields
      BY <3>1, <3>2
    <3> QED BY <3>3 DEF Known, TileFields
  <2> QED BY <2>1
<1>3. /\ t = Tile(t.form, t.kind, t.fields)
      /\ \/ t.fields = <<>> /\ t.kind # "PLANT"
         \/ t.fields \in [{"crop", "yield_units"} -> {0, 1}] /\ t.kind = "PLANT"
  <2>1. CASE t \in {Empty, Locked, Weed}
    BY <2>1, NoneAssumption DEF Empty, Locked, Weed, Tile
  <2>2. CASE \E y \in {0, 1} : t = Plant(y)
    <3>1. PICK y \in {0, 1} : t = Plant(y)
      BY <2>2
    <3> QED BY <3>1 DEF Plant, Tile
  <2> QED BY <1>1, <1>2, <2>1, <2>2
<1>4. c = [tile |-> t, derived |-> c.derived]
      /\ (t.kind # "PLANT" => c.derived = None)
      /\ (t.kind = "PLANT" => c.derived \in [names -> {0, 1, Null}] /\ c.derived # None)
  <2>1. c = [tile |-> t, derived |-> c.derived] /\ (t.kind # "PLANT" => c.derived = None)
    BY DEF CanonicalTile
  <2>2. t.kind = "PLANT" => c.derived \in [names -> {0, 1, Null}]
    BY DEF CanonicalTile
  <2> HIDE DEF c
  <2> QED BY <2>1, <2>2, NoneAssumption
<1> DEFINE d == c.derived
<1>5. c.tile = t /\ d = c.derived
  BY <1>4
<1> HIDE DEF c, d
<1>6. /\ row.form = t.form /\ row.tile_kind = t.kind
      /\ row.mask = DOMAIN t.fields \cap TileFields
      /\ row.columns = Columns(t.fields, TileFields)
      /\ row.derived_present = (d # None)
      /\ row.derived_mask = (IF d = None THEN {} ELSE DOMAIN d)
      /\ row.derived = (IF d = None THEN None ELSE Columns(d, DerivedFields))
  BY <1>5 DEF NormTile
<1>7. DenormTile(row) = [tile |-> Tile(row.form, row.tile_kind,
                            IF row.mask = {} THEN <<>> ELSE [f \in row.mask |-> row.columns[f]]),
                         derived |-> IF ~row.derived_present THEN None
                                     ELSE [f \in row.derived_mask |-> row.derived[f]]]
  BY DEF DenormTile
<1> HIDE DEF row
<1>8. (IF row.mask = {} THEN <<>> ELSE [f \in row.mask |-> row.columns[f]]) = t.fields
  <2>1. CASE t.fields = <<>>
    <3>1. row.mask = {}
      BY <2>1, <1>6
    <3> QED BY <2>1, <3>1
  <2>2. CASE t.fields \in [{"crop", "yield_units"} -> {0, 1}]
    <3>1. row.mask = {"crop", "yield_units"} /\ {"crop", "yield_units"} \subseteq TileFields
      BY <2>2, <1>6 DEF TileFields
    <3>2. \A f \in {"crop", "yield_units"} : row.columns[f] = t.fields[f]
      <4>1. DOMAIN t.fields = {"crop", "yield_units"}
        BY <2>2
      <4> QED BY <4>1, <3>1, <1>6, ColumnsIs
    <3>3. [f \in row.mask |-> row.columns[f]] = t.fields
      BY <2>2, <3>1, <3>2
    <3> QED BY <3>1, <3>3
  <2> QED BY <1>3, <2>1, <2>2
<1>9. (IF ~row.derived_present THEN None ELSE [f \in row.derived_mask |-> row.derived[f]]) = d
  <2>1. CASE d = None
    BY <2>1, <1>6
  <2>2. CASE d # None
    <3>1. d \in [names -> {0, 1, Null}]
      BY <2>2, <1>4 DEF d
    <3>2. row.derived_present /\ row.derived_mask = names /\ row.derived = Columns(d, DerivedFields)
          /\ names \subseteq DerivedFields
      BY <2>2, <3>1, <1>6 DEF DerivedFields
    <3>3. \A f \in names : row.derived[f] = d[f]
      <4>1. DOMAIN d = names
        BY <3>1
      <4> QED BY <4>1, <3>2, ColumnsIs
    <3>4. [f \in row.derived_mask |-> row.derived[f]] = d
      BY <3>1, <3>2, <3>3
    <3> QED BY <3>2, <3>4
  <2> QED BY <2>1, <2>2
<1>10. DenormTile(row) = [tile |-> Tile(t.form, t.kind, t.fields), derived |-> d]
  BY <1>6, <1>7, <1>8, <1>9
<1> QED BY <1>3, <1>4, <1>10 DEF row, d, c

\* A board in a record, in a row, and read back from one.
Board(t) == <<<<CanonicalTile(Locked), CanonicalTile(t)>>>>
Rows(board) == [y \in DOMAIN board |-> [x \in DOMAIN board[y] |-> NormTile(board[y][x])]]
Reads(board) == [y \in DOMAIN board |-> [x \in DOMAIN board[y] |-> DenormTile(board[y][x])]]

LEMMA BoardRound ==
  ASSUME NEW t \in Tiles, \A x \in {1, 2} : Known(Board(t)[1][x])
  PROVE  Reads(Rows(Board(t))) = Board(t)
<1> DEFINE a == CanonicalTile(Locked)
           b == CanonicalTile(t)
<1>1. Board(t)[1][1] = a /\ Board(t)[1][2] = b /\ Locked \in Tiles
  BY DEF Board, Tiles
<1>2. Known(a) /\ Known(b)
  BY <1>1
<1>3. DenormTile(NormTile(a)) = a /\ DenormTile(NormTile(b)) = b
  BY <1>1, <1>2, TileRound
<1>4. Board(t) = <<<<a, b>>>>
  BY DEF Board
<1> HIDE DEF a, b
<1>5. Rows(<<<<a, b>>>>) = <<<<NormTile(a), NormTile(b)>>>>
  BY DEF Rows
<1> DEFINE c == NormTile(a)
           d == NormTile(b)
<1>6. DenormTile(c) = a /\ DenormTile(d) = b
  BY <1>3
<1> HIDE DEF c, d
<1>7. Reads(<<<<c, d>>>>) = <<<<DenormTile(c), DenormTile(d)>>>>
  BY DEF Reads
<1> QED BY <1>4, <1>5, <1>6, <1>7 DEF c, d

\* A record with its boards replaced: what OnBoards leaves alone and what it changes.
Boarded(r) ==
    /\ r = [f \in DOMAIN r |-> r[f]] /\ {"start", "end"} \subseteq DOMAIN r
    /\ \A g \in {"start", "end"} : r[g] = [f \in DOMAIN r[g] |-> r[g][f]]
                                  /\ {"board", "opponent_board"} \subseteq DOMAIN r[g]
Replaced(r, w) ==
    /\ DOMAIN w = DOMAIN r
    /\ \A f \in DOMAIN r : f \notin {"start", "end"} => w[f] = r[f]
    /\ \A g \in {"start", "end"} :
          /\ DOMAIN w[g] = DOMAIN r[g]
          /\ \A f \in DOMAIN r[g] : f \notin {"board", "opponent_board"} => w[g][f] = r[g][f]

LEMMA RowIs ==
  ASSUME NEW r, Boarded(r)
  PROVE  RecordToRow(r)
           = [r EXCEPT !.start.board = Rows(r.start.board),
                       !.start.opponent_board = Rows(r.start.opponent_board),
                       !.end.board = Rows(r.end.board),
                       !.end.opponent_board = Rows(r.end.opponent_board)]
BY DEF RecordToRow, OnBoards, Rows, Boarded

LEMMA ReadIs ==
  ASSUME NEW r, Boarded(r)
  PROVE  RowToRecord(r)
           = [r EXCEPT !.start.board = Reads(r.start.board),
                       !.start.opponent_board = Reads(r.start.opponent_board),
                       !.end.board = Reads(r.end.board),
                       !.end.opponent_board = Reads(r.end.opponent_board)]
BY DEF RowToRecord, OnBoards, Reads, Boarded

\* The same boards in the same frame make the same record.
LEMMA SameFrame ==
  ASSUME NEW r, NEW w, NEW v, Boarded(r), Boarded(v), Replaced(r, w), Replaced(w, v),
         v.start.board = r.start.board, v.start.opponent_board = r.start.opponent_board,
         v.end.board = r.end.board, v.end.opponent_board = r.end.opponent_board
  PROVE  v = r
<1>1. \A g \in {"start", "end"} : v[g] = r[g]
  <2>1. ASSUME NEW g \in {"start", "end"} PROVE v[g] = r[g]
    <3>1. DOMAIN v[g] = DOMAIN r[g]
      BY DEF Replaced
    <3>2. ASSUME NEW f \in DOMAIN r[g] PROVE v[g][f] = r[g][f]
      <4>1. CASE f \in {"board", "opponent_board"}
        BY <4>1
      <4>2. CASE f \notin {"board", "opponent_board"}
        BY <4>2 DEF Replaced
      <4> QED BY <4>1, <4>2
    <3>3. v[g] = [f \in DOMAIN v[g] |-> v[g][f]] /\ r[g] = [f \in DOMAIN r[g] |-> r[g][f]]
      BY DEF Boarded
    <3> QED BY <3>1, <3>2, <3>3
  <2> QED BY <2>1
<1>2. DOMAIN v = DOMAIN r
  BY DEF Replaced
<1>3. ASSUME NEW f \in DOMAIN r PROVE v[f] = r[f]
  <2>1. CASE f \in {"start", "end"}
    BY <2>1, <1>1
  <2>2. CASE f \notin {"start", "end"}
    BY <2>2 DEF Replaced
  <2> QED BY <2>1, <2>2
<1>4. v = [f \in DOMAIN v |-> v[f]] /\ r = [f \in DOMAIN r |-> r[f]]
  BY DEF Boarded
<1> QED BY <1>2, <1>3, <1>4

\* The boards of a record are boards, its own and the other seat's.
LEMMA StateIs ==
  ASSUME Game, NEW i \in 1..Len(steps), NEW s \in Seats
  PROVE  /\ \E t \in Tiles : State(i, s).board = Board(t)
         /\ \E t \in Tiles : State(i, s).opponent_board = Board(t)
         /\ State(i, s) = [f \in DOMAIN State(i, s) |-> State(i, s)[f]]
         /\ {"board", "opponent_board"} \subseteq DOMAIN State(i, s)
<1> DEFINE Faces(tiles) == [y \in DOMAIN tiles |->
                              [x \in DOMAIN tiles[y] |-> CanonicalTile(tiles[y][x])]]
<1>1. ASSUME NEW e \in Seats PROVE \E t \in Tiles : Faces(steps[i].farms[e].tiles) = Board(t)
  <2>1. steps[i] \in Steps
    BY DEF Game
  <2>2. steps[i].farms[e] \in Farms
    BY <2>1 DEF Steps
  <2>3. PICK t \in Tiles : steps[i].farms[e].tiles = <<<<Locked, t>>>>
    BY <2>2 DEF Farms
  <2>4. Faces(<<<<Locked, t>>>>) = Board(t)
    BY DEF Board
  <2> QED BY <2>3, <2>4
<1>2. 1 - s \in Seats
  BY DEF Seats
<1>3. State(i, s).board = Faces(steps[i].farms[s].tiles)
      /\ State(i, s).opponent_board = Faces(steps[i].farms[1 - s].tiles)
  BY DEF State
<1>4. /\ State(i, s) = [f \in DOMAIN State(i, s) |-> State(i, s)[f]]
      /\ {"board", "opponent_board"} \subseteq DOMAIN State(i, s)
  BY DEF State
<1> HIDE DEF Faces
<1> QED BY <1>1, <1>2, <1>3, <1>4

\* A record the schema can hold is read back as it was.
LEMMA RecordRound ==
  ASSUME Game, NEW r \in AllRecords, Storable(r)
  PROVE  RowToRecord(RecordToRow(r)) = r
<1>1. PICK s \in Seats, d \in DaysStarted, p \in Positions : r = Record(s, d, p)
  BY DEF AllRecords
<1>2. /\ r.start = State(FirstStart(d), s) /\ r.end = State(EndOf(d), s)
      /\ r = [f \in DOMAIN r |-> r[f]] /\ {"start", "end"} \subseteq DOMAIN r
  BY <1>1 DEF Record
<1>3. FirstStart(d) \in 1..Len(steps) /\ EndOf(d) \in 1..Len(steps)
  BY Bounded
<1>4. \A g \in {"start", "end"} : /\ r[g] = [f \in DOMAIN r[g] |-> r[g][f]]
                                  /\ {"board", "opponent_board"} \subseteq DOMAIN r[g]
  BY <1>2, <1>3, StateIs
<1>5. Boarded(r)
  BY <1>2, <1>4 DEF Boarded
<1>6. /\ \E t \in Tiles : r.start.board = Board(t)
      /\ \E t \in Tiles : r.start.opponent_board = Board(t)
      /\ \E t \in Tiles : r.end.board = Board(t)
      /\ \E t \in Tiles : r.end.opponent_board = Board(t)
  BY <1>2, <1>3, StateIs
<1>7. /\ \A x \in {1, 2} : Known(r.start.board[1][x])
      /\ \A x \in {1, 2} : Known(r.start.opponent_board[1][x])
      /\ \A x \in {1, 2} : Known(r.end.board[1][x])
      /\ \A x \in {1, 2} : Known(r.end.opponent_board[1][x])
  BY DEF Storable, Boards
<1>8. \A b : (\E t \in Tiles : b = Board(t)) /\ (\A x \in {1, 2} : Known(b[1][x]))
               => Reads(Rows(b)) = b
  BY BoardRound
<1>9. /\ Reads(Rows(r.start.board)) = r.start.board
      /\ Reads(Rows(r.start.opponent_board)) = r.start.opponent_board
      /\ Reads(Rows(r.end.board)) = r.end.board
      /\ Reads(Rows(r.end.opponent_board)) = r.end.opponent_board
  BY <1>6, <1>7, <1>8
<1> DEFINE w == RecordToRow(r)
           v == RowToRecord(w)
<1>a. w = [r EXCEPT !.start.board = Rows(r.start.board),
                    !.start.opponent_board = Rows(r.start.opponent_board),
                    !.end.board = Rows(r.end.board),
                    !.end.opponent_board = Rows(r.end.opponent_board)]
  BY <1>5, RowIs
<1> HIDE DEF w
<1>10. /\ Boarded(w) /\ Replaced(r, w)
       /\ w.start.board = Rows(r.start.board)
       /\ w.start.opponent_board = Rows(r.start.opponent_board)
       /\ w.end.board = Rows(r.end.board)
       /\ w.end.opponent_board = Rows(r.end.opponent_board)
  BY <1>5, <1>a DEF Boarded, Replaced
<1>b. v = [w EXCEPT !.start.board = Reads(w.start.board),
                    !.start.opponent_board = Reads(w.start.opponent_board),
                    !.end.board = Reads(w.end.board),
                    !.end.opponent_board = Reads(w.end.opponent_board)]
  BY <1>10, ReadIs
<1> HIDE DEF v
<1>11. /\ Boarded(v) /\ Replaced(w, v)
       /\ v.start.board = Reads(w.start.board)
       /\ v.start.opponent_board = Reads(w.start.opponent_board)
       /\ v.end.board = Reads(w.end.board)
       /\ v.end.opponent_board = Reads(w.end.opponent_board)
  BY <1>10, <1>b DEF Boarded, Replaced
<1>12. v = r
  BY <1>5, <1>9, <1>10, <1>11, SameFrame
<1> QED BY <1>12 DEF v, w

-----------------------------------------------------------------------------
(* The file. *)

\* What an older build wrote.
Older(format) == [format |-> format, whole |-> TRUE, schema |-> 2, rows |-> <<>>]

\* The rows of the records kept; none of them has a field the schema lacks.
Table == [k \in DOMAIN kept |-> RecordToRow(kept[k])]
Sound == \A k \in DOMAIN kept : Storable(kept[k])

LEMMA SameTable == kept' = kept => Table' = Table /\ Sound' = Sound
BY DEF Table, Sound

\* What is under the output's name, in each phase of a run.
OnDisk ==
    /\ phase = "playing" => disk = NoFile
    /\ phase # "playing" => options \in [format : {"parquet", "jsonl"}, mismatch : {"fail", "skip"}]
    /\ phase # "playing" /\ options.format = "jsonl" => disk.format # "parquet"
    /\ phase \notin {"playing", "exit 0"} /\ options.format = "parquet" =>
          disk \in {NoFile, Older("parquet"), File("parquet", FALSE, <<>>)}
    /\ phase = "writing" => options.format = "parquet"
    /\ phase = "writing" \/ (phase = "exit 0" /\ options.format = "parquet") =>
          Sound
    /\ phase = "exit 0" /\ options.format = "parquet" => disk = File("parquet", TRUE, Table)

LEMMA StoredStarts == ReplaysInit => OnDisk
BY DEF ReplaysInit, OnDisk

LEMMA StoredStands ==
  ASSUME OnDisk, Kept, [ReplaysNext]_replays_vars
  PROVE  OnDisk'
<1>0. /\ phase = "playing" => disk = NoFile
      /\ phase # "playing" =>
            options \in [format : {"parquet", "jsonl"}, mismatch : {"fail", "skip"}]
  BY DEF OnDisk
<1>1. CASE Play
  BY <1>1 DEF Play, OnDisk
<1>2. CASE Invoke
  <2>1. PICK run \in Invocations :
           /\ options' = [format |-> run.format, mismatch |-> run.mismatch]
           /\ disk' = IF run.overwrites THEN Older(run.format) ELSE NoFile
    BY <1>2 DEF Invoke, Older
  <2>2. run.format \in {"parquet", "jsonl"} /\ run.mismatch \in {"fail", "skip"}
    BY InvocationsAssumption
  <2>3. phase' = "extracting"
    BY <1>2 DEF Invoke
  <2>4. options'.format = run.format
        /\ options' \in [format : {"parquet", "jsonl"}, mismatch : {"fail", "skip"}]
    BY <2>1, <2>2
  <2>5. run.format = "jsonl" => disk'.format # "parquet"
    BY <2>1 DEF Older, NoFile
  <2>6. run.format = "parquet" => disk' \in {NoFile, Older("parquet")}
    BY <2>1
  <2>7. run.format = "parquet" => disk' \in {NoFile, Older("parquet"), File("parquet", FALSE, <<>>)}
    BY <2>6
  <2> QED BY <2>3, <2>4, <2>5, <2>7 DEF OnDisk
<1>3. CASE ReadInput
  <2>1. CASE Extract
    <3>1. /\ phase = "extracting" /\ phase' = phase /\ options' = options
          /\ disk' = IF options.format = "jsonl" THEN File("jsonl", TRUE, kept') ELSE disk
      BY <1>3, <2>1 DEF ReadInput, Extract
    <3>2. options.format = "jsonl" => disk'.format # "parquet"
      BY <3>1 DEF File
    <3>3. options.format = "parquet" => disk' = disk
      BY <3>1
    <3> QED BY <3>1, <3>2, <3>3 DEF OnDisk
  <2>2. CASE Refuse
    <3>1. /\ phase = "extracting" /\ phase' \in {"exit 2", "exit 3", phase}
          /\ UNCHANGED <<options, disk, kept>>
      BY <1>3, <2>2 DEF ReadInput, Refuse, Exit
    <3> QED BY <3>1 DEF OnDisk
  <2> QED BY <1>3, <2>1, <2>2 DEF ReadInput
<1>4. CASE Convert
  <2>1. /\ phase = "extracting" /\ UNCHANGED <<options, kept>>
        /\ phase' = IF options.format = "jsonl" THEN "exit 0"
                    ELSE IF \A k \in DOMAIN kept : Storable(kept[k]) THEN "writing" ELSE "raised"
        /\ disk' = IF phase' = "writing" THEN File("parquet", FALSE, <<>>) ELSE disk
    BY <1>4 DEF Convert
  <2>2. CASE options.format = "jsonl"
    <3>1. phase' = "exit 0" /\ disk' = disk /\ options'.format = "jsonl"
      BY <2>1, <2>2
    <3> QED BY <2>1, <3>1 DEF OnDisk
  <2>3. CASE options.format # "jsonl" /\ \A k \in DOMAIN kept : Storable(kept[k])
    <3>1. phase' = "writing" /\ disk' = File("parquet", FALSE, <<>>) /\ options.format = "parquet"
      BY <2>1, <2>3, <1>0
    <3>2. Sound'
      BY <2>1, <2>3, SameTable DEF Sound
    <3> QED BY <1>0, <2>1, <3>1, <3>2 DEF OnDisk
  <2>4. CASE options.format # "jsonl" /\ ~(\A k \in DOMAIN kept : Storable(kept[k]))
    <3>1. phase' = "raised" /\ disk' = disk
      BY <2>1, <2>4
    <3> QED BY <2>1, <3>1 DEF OnDisk
  <2> QED BY <2>2, <2>3, <2>4
<1>5. CASE WriteTable
  <2>1. /\ phase = "writing" /\ phase' = "exit 0" /\ UNCHANGED <<options, kept>>
        /\ disk' = File("parquet", TRUE, [k \in DOMAIN kept |-> RecordToRow(kept[k])])
    BY <1>5 DEF WriteTable
  <2>2. options.format = "parquet" /\ Sound
    BY <2>1 DEF OnDisk
  <2>3. Sound'
    BY <2>1, <2>2, SameTable
  <2>4. disk' = File("parquet", TRUE, Table')
    BY <2>1, SameTable DEF Table
  <2> QED BY <1>0, <2>1, <2>2, <2>3, <2>4 DEF OnDisk
<1>6. CASE Crash
  BY <1>6 DEF Crash, OnDisk
<1>7. CASE UNCHANGED replays_vars
  <2>1. UNCHANGED <<phase, disk, options, kept>>
    BY <1>7 DEF replays_vars
  <2> QED BY <2>1, SameTable DEF OnDisk
<1> QED BY <1>1, <1>2, <1>3, <1>4, <1>5, <1>6, <1>7 DEF ReplaysNext

LEMMA ReadIsKept ==
  ASSUME Game, Kept, OnDisk
  PROVE  ReadIsExtracted
<1> DEFINE rows == [k \in DOMAIN kept |-> RecordToRow(kept[k])]
<1>1. ASSUME phase = "exit 0", options.format = "parquet" PROVE Reread = kept
  <2>1. disk.rows = rows /\ \A k \in DOMAIN kept : Storable(kept[k])
    <3>1. disk = File("parquet", TRUE, Table) /\ Sound
      BY <1>1 DEF OnDisk
    <3> QED BY <3>1 DEF File, Table, Sound
  <2>2. kept \in Seq(AllRecords)
    BY DEF Kept
  <2>3. kept = [k \in 1..Len(kept) |-> kept[k]] /\ DOMAIN kept = 1..Len(kept)
        /\ \A k \in 1..Len(kept) : kept[k] \in AllRecords
    BY <2>2, IsTuple
  <2>4. Reread = [k \in DOMAIN kept |-> RowToRecord(RecordToRow(kept[k]))]
    BY <2>1 DEF Reread
  <2>5. \A k \in DOMAIN kept : RowToRecord(RecordToRow(kept[k])) = kept[k]
    BY <2>1, <2>3, RecordRound
  <2> QED BY <2>3, <2>4, <2>5
<1>2. ASSUME Readable, phase # "playing" PROVE phase = "exit 0" /\ options.format = "parquet"
  <2>1. disk.format = "parquet" /\ disk.whole /\ SeenVersions(disk) = {SchemaVersion}
    BY <1>2 DEF Readable
  <2>2. options.format = "parquet"
    <3>1. options \in [format : {"parquet", "jsonl"}, mismatch : {"fail", "skip"}]
          /\ (options.format = "jsonl" => disk.format # "parquet")
      BY <1>2 DEF OnDisk
    <3> QED BY <3>1, <2>1
  <2>3. disk \notin {NoFile, Older("parquet"), File("parquet", FALSE, <<>>)}
    <3>1. disk # NoFile
      BY <2>1 DEF NoFile
    <3>2. disk # File("parquet", FALSE, <<>>)
      BY <2>1 DEF File
    <3>3. ASSUME disk = Older("parquet") PROVE FALSE
      <4>1. SeenVersions(disk) = {2}
        BY <3>3 DEF Older, SeenVersions, SchemaVersion
      <4> QED BY <4>1, <2>1 DEF SchemaVersion
    <3> QED BY <3>1, <3>2, <3>3
  <2> QED BY <1>2, <2>2, <2>3 DEF OnDisk
<1>3. ASSUME phase = "exit 0", options.format = "parquet", parsed > 0 PROVE Readable
  <2>1. disk = File("parquet", TRUE, rows)
    BY <1>3 DEF OnDisk, Table
  <2>2. kept \in Seq(AllRecords) /\ Len(kept) = parsed * 2 * Cardinality(DaysStarted)
        /\ parsed \in Nat
    BY DEF Kept
  <2>3. Len(kept) > 0
    <3>1. Cardinality(DaysStarted) \in Nat \ {0}
      BY DayCount
    <3> DEFINE c == Cardinality(DaysStarted)
               q == parsed * 2
    <3> HIDE DEF c
    <3>2. q \in Nat /\ q > 0
      <4>1. parsed \in Nat /\ parsed > 0
        BY <1>3, <2>2
      <4> QED BY <4>1
    <3> HIDE DEF q
    <3>3. q * c > 0
      BY <3>1, <3>2 DEF c
    <3> QED BY <3>3, <2>2 DEF c, q
  <2>4. rows # <<>>
    <3>1. DOMAIN kept = 1..Len(kept) /\ Len(kept) \in Nat
      BY <2>2, IsTuple
    <3>2. 1 \in DOMAIN rows
      BY <2>3, <3>1
    <3> QED BY <3>2
  <2> HIDE DEF rows
  <2>5. disk.format = "parquet" /\ disk.whole /\ disk.rows # <<>> /\ disk.schema = SchemaVersion
    BY <2>1, <2>4 DEF File
  <2> QED BY <2>5 DEF Readable, SeenVersions
<1> QED BY <1>1, <1>2, <1>3 DEF ReadIsExtracted

LEMMA RunHolds == ReplaysSpec => [](Game /\ Kept /\ OnDisk)
<1>1. ReplaysInit => Game /\ Kept /\ OnDisk
  BY GameStarts, KeptStarts, StoredStarts
<1>2. Game /\ Kept /\ OnDisk /\ [ReplaysNext]_replays_vars => (Game /\ Kept /\ OnDisk)'
  BY GameKept, KeptStands, StoredStands
<1> QED BY <1>1, <1>2, PTL DEF ReplaysSpec

\* What is read back is what a run that ended well extracted, and nothing else is.
THEOREM ReadHolds == ReplaysSpec => []ReadIsExtracted
<1>1. Game /\ Kept /\ OnDisk => ReadIsExtracted
  BY ReadIsKept
<1> QED BY <1>1, RunHolds, PTL

-----------------------------------------------------------------------------
(* Every order is told once. *)

\* Where the farmer stands is the tile that was worked.
LEMMA WorkedAt ==
  ASSUME Game, NEW i \in 2..Len(steps), NEW t, NEW p \in Positions,
         Turned(actor, steps[i - 1], t, steps[i])
  PROVE  TileAt(steps[i - 1].farms[actor].tiles, p) = t.worked
<1>1. p = <<1, 0>>
  BY PositionsAssumption
<1>2. i - 1 \in 1..Len(steps) /\ actor \in Seats
  BY DEF Game
<1>3. PICK u \in Tiles : steps[i - 1].farms[actor].tiles = <<<<Locked, u>>>>
  BY <1>2, FarmAt
<1>4. t.worked = u
  BY <1>3 DEF Turned
<1>5. TileAt(<<<<Locked, u>>>>, <<1, 0>>) = u
  BY DEF TileAt
<1> QED BY <1>1, <1>3, <1>4, <1>5

\* The orders and the work of a day's ledger are those of its turns.
LEMMA TurnsTold ==
  ASSUME Game, NEW d \in DaysStarted, NEW p \in Positions
  PROVE  /\ DayEvents(actor, d, p).market
              = Concat(TurnsOf(d), LAMBDA t :
                  [k \in DOMAIN t.action.market |-> <<t.action.market[k], t.hour>>])
         /\ DayEvents(actor, d, p).works
              = Concat(TurnsOf(d), LAMBDA t : Work(t.action.farmer, t.worked, t.hour))
<1> DEFINE n == EndOf(d) - FirstStart(d)
           L == Ledger(actor, d, p)
           Orders(t) == [k \in DOMAIN t.action.market |-> <<t.action.market[k], t.hour>>]
           Works(t) == Work(t.action.farmer, t.worked, t.hour)
<1>1. DOMAIN L = 1..n /\ DOMAIN TurnsOf(d) = 1..n
  BY LedgerIs, TurnsAre
<1>2. ASSUME NEW k \in 1..n
      PROVE  L[k].market = Orders(TurnsOf(d)[k]) /\ L[k].works = Works(TurnsOf(d)[k])
  <2> DEFINE i == FirstStart(d) + k
             t == TurnsOf(d)[k]
  <2>1. /\ i \in 2..Len(steps) /\ t = real[i - 1] /\ t \in Turns
        /\ Turned(actor, steps[i - 1], t, steps[i])
    BY TurnOf
  <2>2. L[k] = EventsFromAction(t.action, steps[i - 1], steps[i], actor, p)
    BY StepIs
  <2> HIDE DEF i, t, L
  <2>3. TileAt(steps[i - 1].farms[actor].tiles, p) = t.worked
    BY <2>1, WorkedAt
  <2>4. steps[i - 1].hour = t.hour
    BY <2>1 DEF Turned
  <2>5. L[k].market = Orders(t) /\ L[k].works = Works(t)
    BY <2>2, <2>3, <2>4 DEF EventsFromAction
  <2> QED BY <2>5 DEF t
<1>3. /\ DayEvents(actor, d, p).market = FlattenSeq([k \in DOMAIN L |-> L[k].market])
      /\ DayEvents(actor, d, p).works = FlattenSeq([k \in DOMAIN L |-> L[k].works])
  BY LedgerIs, MergedIs
<1> HIDE DEF L
<1>4. /\ [k \in DOMAIN L |-> L[k].market] = [k \in DOMAIN TurnsOf(d) |-> Orders(TurnsOf(d)[k])]
      /\ [k \in DOMAIN L |-> L[k].works] = [k \in DOMAIN TurnsOf(d) |-> Works(TurnsOf(d)[k])]
  <2> HIDE DEF Orders, Works, n
  <2> QED BY <1>1, <1>2
<1>5. /\ DayEvents(actor, d, p).market
           = FlattenSeq([k \in DOMAIN TurnsOf(d) |-> Orders(TurnsOf(d)[k])])
      /\ DayEvents(actor, d, p).works
           = FlattenSeq([k \in DOMAIN TurnsOf(d) |-> Works(TurnsOf(d)[k])])
  BY <1>3, <1>4
<1> QED BY <1>5 DEF Concat

\* The seat that submits nothing has an empty ledger.
LEMMA NothingTold ==
  ASSUME Game, NEW d \in DaysStarted, NEW s \in Seats, s # actor, NEW p
  PROVE  DayEvents(s, d, p) = NoEvents
<1> DEFINE n == EndOf(d) - FirstStart(d)
           L == Ledger(s, d, p)
<1>1. DOMAIN L = 1..n /\ n \in Nat
  BY LedgerIs, Bounded
<1>2. \A k \in 1..n : L[k] = NoEvents
  BY StepIs
<1>3. DayEvents(s, d, p) = Merged(L)
  BY LedgerIs
<1> HIDE DEF L, n
<1>4. /\ [k \in DOMAIN L |-> L[k].works] = [k \in 1..n |-> <<>>]
      /\ [k \in DOMAIN L |-> L[k].market] = [k \in 1..n |-> <<>>]
      /\ [k \in DOMAIN L |-> L[k].sells] = [k \in 1..n |-> <<>>]
      /\ [k \in DOMAIN L |-> L[k].land] = [k \in 1..n |-> <<>>]
      /\ [k \in DOMAIN L |-> L[k].hires] = [k \in 1..n |-> 0]
  BY <1>1, <1>2 DEF NoEvents
<1>5. FlattenSeq([k \in 1..n |-> <<>>]) = <<>> /\ Total([k \in 1..n |-> 0]) = 0
  BY <1>1, FlatNothing, TotalNothing
<1>6. Merged(L) = [works |-> <<>>, market |-> <<>>, sells |-> <<>>, land |-> <<>>, hires |-> 0]
  BY <1>4, <1>5 DEF Merged
<1> QED BY <1>3, <1>6 DEF NoEvents

LEMMA OrdersAre ==
  ASSUME Game, Kept
  PROVE  OrdersSound
<1>1. ASSUME NEW d \in DaysStarted, NEW r \in MineOf(d)
      PROVE  /\ r.events.market = Concat(TurnsOf(d), LAMBDA t :
                    [k \in DOMAIN t.action.market |-> <<t.action.market[k], t.hour>>])
             /\ r.events.works
                  = Concat(TurnsOf(d), LAMBDA t : Work(t.action.farmer, t.worked, t.hour))
  <2>1. PICK p \in Positions : r = Record(actor, d, p)
    BY MineIs
  <2>2. r.events = DayEvents(actor, d, p)
    BY <2>1, RecordIs
  <2> QED BY <2>2, TurnsTold
<1>2. ASSUME NEW o \in Records
      PROVE  \E s \in Seats, e \in DaysStarted, p \in Positions : o = Record(s, e, p)
  <2>1. PICK k \in DOMAIN kept : o = kept[k]
    BY DEF Records
  <2>2. kept \in Seq(AllRecords)
    BY DEF Kept
  <2>3. o \in AllRecords
    BY <2>1, <2>2, IsTuple
  <2> QED BY <2>3 DEF AllRecords
<1>3. ASSUME NEW o \in Records, o.seat # actor PROVE o.events = NoEvents
  <2>1. PICK s \in Seats, e \in DaysStarted, p \in Positions : o = Record(s, e, p)
    BY <1>2
  <2>2. s # actor /\ o.events = DayEvents(s, e, p)
    BY <2>1, <1>3, RecordIs
  <2> QED BY <2>2, NothingTold
<1>4. EveryOrderOnce
  BY <1>1, <1>3 DEF EveryOrderOnce
<1>5. ASSUME NEW o \in Records
      PROVE  o.boundary = "terminal" <=> o.day = steps[Len(steps)].day
  <2>1. PICK s \in Seats, e \in DaysStarted, p \in Positions : o = Record(s, e, p)
    BY <1>2
  <2>2. o.day = e /\ o.boundary = IF e + 1 \in DaysStarted THEN "next_day_start" ELSE "terminal"
    BY <2>1 DEF Record
  <2> DEFINE last == steps[Len(steps)].day
  <2>3. last \in Nat /\ DaysStarted = 0..last
    BY DaysAre
  <2> HIDE DEF last
  <2>4. e + 1 \in DaysStarted <=> e # last
    BY <2>3
  <2> QED BY <2>2, <2>4 DEF last
<1>6. ReplaysTypeOK
  <2>1. Len(steps) = Len(real) + 1 /\ Len(steps) <= LastIndex + 1
    BY DEF Game
  <2> QED BY <2>1, <1>5 DEF ReplaysTypeOK, Kept
<1> QED BY <1>4, <1>6 DEF OrdersSound

-----------------------------------------------------------------------------
(* Counting in sequences put one after the other. *)

\* s has w in the n places after a, and nothing elsewhere.
Holds(s, w, a, n) ==
    /\ a \in Nat /\ n \in Nat /\ a + n <= Len(s)
    /\ \A i \in 1..Len(s) : i \notin (a + 1)..(a + n) => s[i] = <<>>
    /\ w = [k \in 1..n |-> s[a + k]]

\* What lies outside such a stretch adds nothing.
LEMMA Stretch ==
  ASSUME NEW V, NEW s \in Seq(Seq(V)), NEW a, NEW n, NEW w, Holds(s, w, a, n)
  PROVE  FlattenSeq(s) = FlattenSeq(w)
<1> DEFINE L == Len(s)
<1>0. /\ a \in Nat /\ n \in Nat /\ a + n <= L
      /\ \A i \in 1..L : i \notin (a + 1)..(a + n) => s[i] = <<>>
      /\ w = [k \in 1..n |-> s[a + k]]
  BY DEF Holds
<1>1. /\ L \in Nat /\ a + n <= L /\ \A i \in 1..L : s[i] \in Seq(V)
      /\ a \in Nat /\ n \in Nat
  BY <1>0
<1>2. \A k \in 1..n : a + k \in 1..L /\ w[k] = s[a + k] /\ w[k] \in Seq(V)
  BY <1>0, <1>1
<1>3. w \in Seq(Seq(V)) /\ Len(w) = n
  <2>1. w = [k \in 1..n |-> w[k]]
    BY <1>0
  <2>2. w \in [1..n -> Seq(V)]
    BY <2>1, <1>2
  <2> QED BY <2>2, <1>1
<1>4. PICK q : Runs(q, V, w)
  BY <1>3, Running
<1>5. q \in [0..n -> Seq(V)] /\ q[0] = <<>> /\ \A k \in 1..n : q[k] = q[k - 1] \o w[k]
  BY <1>3, <1>4 DEF Runs
<1> HIDE DEF L
<1> DEFINE at(i) == IF i <= a THEN 0 ELSE IF i <= a + n THEN i - a ELSE n
           p == [i \in 0..L |-> q[at(i)]]
<1>6. \A i \in 0..L : at(i) \in 0..n
  BY <1>1
<1>7. p \in [0..L -> Seq(V)]
  BY <1>5, <1>6
<1>8. p[0] = <<>>
  <2>1. at(0) = 0 /\ 0 \in 0..L
    BY <1>1
  <2> QED BY <2>1, <1>5
<1>9. ASSUME NEW i \in 1..L PROVE p[i] = p[i - 1] \o s[i]
  <2>1. p[i] = q[at(i)] /\ p[i - 1] = q[at(i - 1)] /\ p[i - 1] \in Seq(V)
    <3>1. i \in 0..L /\ i - 1 \in 0..L
      BY <1>1
    <3> QED BY <3>1, <1>7
  <2>2. CASE i \in (a + 1)..(a + n)
    <3>1. at(i) = i - a /\ at(i - 1) = (i - a) - 1 /\ i - a \in 1..n /\ a + (i - a) = i
      BY <2>2, <1>1
    <3>2. q[i - a] = q[(i - a) - 1] \o w[i - a] /\ w[i - a] = s[i]
      BY <3>1, <1>2, <1>5
    <3> HIDE DEF p, at
    <3> QED BY <3>1, <3>2, <2>1
  <2>3. CASE i \notin (a + 1)..(a + n)
    <3>1. at(i) = at(i - 1)
      BY <2>3, <1>1
    <3>2. s[i] = <<>>
      BY <2>3, <1>0 DEF L
    <3> HIDE DEF p, at
    <3>3. p[i - 1] \o <<>> = p[i - 1]
      BY <2>1
    <3> QED BY <3>1, <3>2, <3>3, <2>1
  <2> QED BY <2>2, <2>3
<1>10. p[L] = q[n]
  <2>1. at(L) = n /\ L \in 0..L
    BY <1>1
  <2> QED BY <2>1
<1> HIDE DEF p, at
<1>11. Runs(p, V, s)
  BY <1>7, <1>8, <1>9 DEF Runs, L
<1>12. FlattenSeq(s) = p[L] /\ FlattenSeq(w) = q[n]
  <2>1. FlattenSeq(s) = p[L]
    BY <1>11, FlatIs DEF L
  <2>2. FlattenSeq(w) = q[Len(w)]
    BY <1>3, <1>4, FlatIs
  <2> QED BY <2>1, <2>2, <1>3
<1> QED BY <1>10, <1>12

\* As long as all of them together.
LEMMA LengthIs ==
  ASSUME NEW V, NEW s \in Seq(Seq(V)), NEW l, l = [k \in 1..Len(s) |-> Len(s[k])]
  PROVE  Len(FlattenSeq(s)) = Total(l) /\ Len(FlattenSeq(s)) \in Nat
<1> DEFINE n == Len(s)
<1>1. n \in Nat /\ \A k \in 1..n : s[k] \in Seq(V)
  OBVIOUS
<1>2. PICK p : Runs(p, V, s)
  BY Running
<1>3. p \in [0..n -> Seq(V)] /\ p[0] = <<>> /\ \A k \in 1..n : p[k] = p[k - 1] \o s[k]
  BY <1>2 DEF Runs
<1>4. FlattenSeq(s) = p[n]
  BY <1>2, FlatIs
<1> DEFINE q == [k \in 0..n |-> Len(p[k])]
<1>a. l = [k \in 1..n |-> Len(s[k])]
  OBVIOUS
<1> HIDE DEF n
<1>5. \A k \in 0..n : q[k] \in Nat /\ q[k] = Len(p[k])
  <2>1. \A k \in 0..n : Len(p[k]) \in Nat
    <3>1. \A k \in 0..n : p[k] \in Seq(V)
      BY <1>3
    <3> QED BY <3>1
  <2> QED BY <2>1
<1>6. l \in Seq(Int) /\ Len(l) = n /\ \A k \in 1..n : l[k] = Len(s[k])
  <2>1. \A k \in 1..n : Len(s[k]) \in Int
    BY <1>1
  <2>2. l = [k \in 1..n |-> l[k]] /\ \A k \in 1..n : l[k] \in Int
    BY <2>1, <1>a
  <2>3. l \in Seq(Int) /\ Len(l) = n
    BY <2>2, <1>1, Tuple
  <2> QED BY <2>3, <1>a
<1>7. ASSUME NEW k \in 1..n PROVE q[k] = q[k - 1] + l[k]
  <2>1. k \in 0..n /\ k - 1 \in 0..n
    BY <1>1
  <2>2. p[k - 1] \in Seq(V) /\ s[k] \in Seq(V) /\ p[k] = p[k - 1] \o s[k]
    BY <2>1, <1>1, <1>3
  <2>3. Len(p[k]) = Len(p[k - 1]) + Len(s[k])
    BY <2>2, JoinIs
  <2> QED BY <2>1, <2>3, <1>5, <1>6
<1>8. q[0] = 0 /\ q \in [0..n -> Int]
  <2>1. 0 \in 0..n
    BY <1>1
  <2>2. q = [k \in 0..n |-> q[k]]
    OBVIOUS
  <2>3. q[0] = 0
    BY <2>1, <1>3
  <2> HIDE DEF q
  <2> QED BY <2>2, <2>3, <1>5
<1>9. q[n] = Len(p[n]) /\ q[n] \in Nat
  <2>1. n \in 0..n
    BY <1>1
  <2> QED BY <2>1, <1>5
<1> HIDE DEF q
<1>10. Sums(q, l)
  BY <1>6, <1>7, <1>8 DEF Sums
<1>11. Total(l) = q[n]
  BY <1>6, <1>10, TotalIs
<1> QED BY <1>4, <1>9, <1>11

\* The members of a sequence in a set; of sequences of at most one they are counted once each.
Count(s, Q) == Cardinality({k \in DOMAIN s : s[k] \in Q})

LEMMA OneMore ==
  ASSUME NEW V, NEW s \in Seq(V), NEW x \in V, NEW Q
  PROVE  Count(s \o <<x>>, Q) = IF x \in Q THEN Count(s, Q) + 1 ELSE Count(s, Q)
<1> DEFINE n == Len(s)
           A == {k \in DOMAIN s : s[k] \in Q}
           t == s \o <<x>>
           B == {k \in DOMAIN t : t[k] \in Q}
<1>1. n \in Nat /\ DOMAIN s = 1..n
  OBVIOUS
<1>2. DOMAIN t = 1..(n + 1) /\ (\A k \in 1..n : t[k] = s[k]) /\ t[n + 1] = x
  OBVIOUS
<1> HIDE DEF t, n
<1>3. IsFiniteSet(A) /\ n + 1 \notin A
  <2>1. IsFiniteSet(1..n) /\ A \subseteq 1..n
    BY <1>1, FS_Interval
  <2> HIDE DEF A
  <2>2. IsFiniteSet(A)
    BY <2>1, FS_Subset
  <2>3. n + 1 \notin 1..n
    BY <1>1
  <2> QED BY <2>1, <2>2, <2>3
<1>4. B = IF x \in Q THEN A \cup {n + 1} ELSE A
  BY <1>1, <1>2
<1>5. Cardinality(A) \in Nat /\ Cardinality(A \cup {n + 1}) = Cardinality(A) + 1
  <2> HIDE DEF A
  <2>1. Cardinality(A) \in Nat
    BY <1>3, FS_CardinalityType
  <2>2. Cardinality(A \cup {n + 1}) = IF n + 1 \in A THEN Cardinality(A) ELSE Cardinality(A) + 1
    BY <1>3, FS_AddElement
  <2> QED BY <2>1, <2>2, <1>3
<1> HIDE DEF A, B
<1>7. Count(s, Q) = Cardinality(A) /\ Count(t, Q) = Cardinality(B)
  BY DEF Count, A, B
<1> QED BY <1>4, <1>5, <1>7 DEF t

LEMMA CountIs ==
  ASSUME NEW V, NEW s \in Seq(Seq(V)), NEW Q, NEW I \in SUBSET (1..Len(s)),
         \A i \in 1..Len(s) : s[i] = <<>> \/ \E x \in V : s[i] = <<x>>,
         \A i \in 1..Len(s) : i \in I <=> s[i] # <<>> /\ s[i][1] \in Q
  PROVE  Count(FlattenSeq(s), Q) = Cardinality(I)
<1> DEFINE n == Len(s)
           upto(k) == {i \in 1..k : i \in I}
<1>1. n \in Nat /\ \A k \in 1..n : s[k] \in Seq(V)
  OBVIOUS
<1>2. PICK p : Runs(p, V, s)
  BY Running
<1>3. p \in [0..n -> Seq(V)] /\ p[0] = <<>> /\ \A k \in 1..n : p[k] = p[k - 1] \o s[k]
  BY <1>2 DEF Runs
<1>4. FlattenSeq(s) = p[n]
  BY <1>2, FlatIs
<1>a. /\ \A i \in 1..n : s[i] = <<>> \/ \E x \in V : s[i] = <<x>>
      /\ \A i \in 1..n : i \in I <=> s[i] # <<>> /\ s[i][1] \in Q
  OBVIOUS
<1>b. I \in SUBSET (1..n)
  OBVIOUS
<1> HIDE DEF n
<1> DEFINE W == {k \in 0..n : Count(p[k], Q) = Cardinality(upto(k))}
<1>5. \A k \in 0..n : k \in W
  <2>1. 0 \in W
    <3>1. 1..0 = {} /\ upto(0) = {} /\ Cardinality({}) = 0
      BY FS_EmptySet
    <3>2. Count(<<>>, Q) = 0
      <4>1. {k \in DOMAIN <<>> : <<>>[k] \in Q} = {}
        OBVIOUS
      <4> QED BY <4>1, <3>1 DEF Count
    <3>3. Count(p[0], Q) = Cardinality(upto(0)) /\ 0 \in 0..n
      BY <3>1, <3>2, <1>1, <1>3
    <3> HIDE DEF upto
    <3> QED BY <3>3
  <2>2. ASSUME NEW k \in 1..n, k - 1 \in W PROVE k \in W
    <3>1. k \in 0..n /\ k - 1 \in 0..n /\ k \in Nat /\ k - 1 \in Nat
      BY <1>1
    <3>2. Count(p[k - 1], Q) = Cardinality(upto(k - 1)) /\ p[k - 1] \in Seq(V)
          /\ p[k] = p[k - 1] \o s[k]
      BY <3>1, <2>2, <1>3
    <3>3. IsFiniteSet(upto(k - 1)) /\ k \notin upto(k - 1)
      <4>1. IsFiniteSet(1..(k - 1)) /\ upto(k - 1) \subseteq 1..(k - 1) /\ k \notin 1..(k - 1)
        BY <3>1, FS_Interval
      <4> HIDE DEF upto
      <4> QED BY <4>1, FS_Subset
    <3>4. upto(k) = IF k \in I THEN upto(k - 1) \cup {k} ELSE upto(k - 1)
      BY <3>1
    <3> HIDE DEF upto
    <3>5. Cardinality(upto(k - 1) \cup {k}) = Cardinality(upto(k - 1)) + 1
      BY <3>3, FS_AddElement
    <3>6. CASE s[k] = <<>>
      <4>1. p[k] = p[k - 1] /\ k \notin I
        BY <3>6, <3>2, <1>a
      <4> QED BY <4>1, <3>1, <3>2, <3>4
    <3>7. CASE s[k] # <<>>
      <4>1. PICK x \in V : s[k] = <<x>>
        BY <3>7, <1>a
      <4>2. k \in I <=> x \in Q
        <5>1. s[k][1] = x
          BY <4>1
        <5>2. k \in I <=> s[k] # <<>> /\ s[k][1] \in Q
          BY <1>a
        <5> QED BY <5>1, <5>2, <3>7
      <4>3. Count(p[k - 1] \o <<x>>, Q) = IF x \in Q THEN Count(p[k - 1], Q) + 1
                                          ELSE Count(p[k - 1], Q)
        <5> DEFINE r == p[k - 1]
        <5>1. r \in Seq(V) /\ x \in V
          BY <3>2
        <5> HIDE DEF r
        <5>2. Count(r \o <<x>>, Q) = IF x \in Q THEN Count(r, Q) + 1 ELSE Count(r, Q)
          BY <5>1, OneMore
        <5> QED BY <5>2 DEF r
      <4> QED BY <4>1, <4>2, <4>3, <3>1, <3>2, <3>4, <3>5
    <3> QED BY <3>6, <3>7
  <2> HIDE DEF W
  <2> QED BY <1>1, <2>1, <2>2, Everywhere
<1>6. Count(p[n], Q) = Cardinality(upto(n)) /\ upto(n) = I
  <2>1. n \in 0..n
    BY <1>1
  <2>2. upto(n) = I
    BY <1>b
  <2> HIDE DEF upto
  <2> QED BY <2>1, <2>2, <1>5
<1> HIDE DEF upto
<1> QED BY <1>4, <1>6

-----------------------------------------------------------------------------
(* The second reading. *)

\* The actions that acted on a day's observations are those of its turns.
LEMMA ActedIs ==
  ASSUME Game, NEW d \in DaysStarted
  PROVE  LET a == FirstStart(d)
             n == EndOf(d) - FirstStart(d)
         IN  /\ a \in Nat /\ n \in Nat /\ a + n <= Len(steps) /\ n <= Hours
             /\ DOMAIN steps = 1..Len(steps) /\ Len(steps) \in Nat
             /\ \A i \in 1..Len(steps) : ActedOn(i, d) <=> i \in (a + 1)..(a + n)
<1> DEFINE m == d * Hours
           a == FirstStart(d)
           n == EndOf(d) - FirstStart(d)
           L == Len(steps)
<1>1. /\ d \in Nat /\ a = m + 1 /\ a \in 1..L
      /\ EndOf(d) = IF m + Hours + 1 <= L THEN m + Hours + 1 ELSE L
      /\ EndOf(d) \in 1..L /\ n \in 0..Hours
  BY Bounded
<1>2. m \in Nat /\ L \in Nat /\ DOMAIN steps = 1..L
  BY <1>1, DayLength DEF Game
<1>3. \A i \in 1..L : ActedOn(i, d) <=> i > 1 /\ m + 1 <= i - 1 /\ i - 1 <= m + Hours
  <2>1. ASSUME NEW i \in 1..L
        PROVE  ActedOn(i, d) <=> i > 1 /\ m + 1 <= i - 1 /\ i - 1 <= m + Hours
    <3>1. CASE i > 1
      <4>1. i - 1 \in 1..L
        BY <3>1, <1>2
      <4>2. steps[i - 1].day = d <=> m + 1 <= i - 1 /\ i - 1 <= m + Hours
        BY <4>1, <1>1, DayOf
      <4> QED BY <3>1, <4>2 DEF ActedOn
    <3>2. CASE ~(i > 1)
      BY <3>2 DEF ActedOn
    <3> QED BY <3>1, <3>2
  <2> QED BY <2>1
<1> DEFINE E == EndOf(d)
<1>4. E = (IF m + Hours + 1 <= L THEN m + Hours + 1 ELSE L) /\ E \in 1..L /\ a + n = E
  BY <1>1
<1> HIDE DEF m, a, L, E, n
<1>5. \A i \in 1..L : ActedOn(i, d) <=> i \in (a + 1)..E
  <2>1. ASSUME NEW i \in 1..L PROVE ActedOn(i, d) <=> i \in (a + 1)..E
    <3>1. ActedOn(i, d) <=> i > 1 /\ m + 1 <= i - 1 /\ i - 1 <= m + Hours
      BY <1>3
    <3>2. i \in (a + 1)..E <=> m + 2 <= i /\ i <= E
      BY <1>1, <1>2, <1>4
    <3>3. i <= E <=> i <= m + Hours + 1
      BY <1>2, <1>4, Bounds
    <3> QED BY <3>1, <3>2, <3>3, <1>2, Bounds
  <2> QED BY <2>1
<1>6. a \in Nat /\ n \in Nat /\ a + n <= L /\ n <= Hours
  BY <1>1, <1>2, <1>4, Bounds
<1>7. \A i \in 1..L : ActedOn(i, d) <=> i \in (a + 1)..(a + n)
  BY <1>4, <1>5
<1> QED BY <1>2, <1>6, <1>7 DEF a, n, L

\* The last observation of a day's story, as either reading finds it.
LEMMA EndSeen ==
  ASSUME Game, NEW d \in DaysStarted
  PROVE  EndOfDayObservation(d) = steps[EndOf(d)]
<1> DEFINE mornings == {i \in DOMAIN steps : steps[i].day = d + 1 /\ steps[i].hour = 0}
<1>1. d + 1 \in DaysStarted <=> mornings # {}
  BY DEF DaysStarted
<1>2. FirstStart(d + 1) = Min(mornings)
  BY DEF FirstStart
<1>3. EndOfDayObservation(d) = steps[IF mornings = {} THEN Len(steps) ELSE Min(mornings)]
  BY DEF EndOfDayObservation
<1> HIDE DEF mornings
<1> QED BY <1>1, <1>2, <1>3 DEF EndOf

\* What a turn adds to a seat's ledger: its action, or nothing.
LEMMA StepTold ==
  ASSUME Game, NEW d \in DaysStarted, NEW k \in 1..(EndOf(d) - FirstStart(d)),
         NEW s \in Seats, NEW p
  PROVE  LET i == FirstStart(d) + k
             a == steps[i].action[s]
         IN  /\ a # None =>
                  /\ a \in Acts
                  /\ Ledger(s, d, p)[k] = EventsFromAction(a, steps[i - 1], steps[i], s, p)
             /\ a = None => Ledger(s, d, p)[k] = NoEvents
             /\ steps[i - 1].hour \in 0..(Hours - 1)
             /\ i \in 2..Len(steps)
<1> DEFINE i == FirstStart(d) + k
<1>1. /\ i \in 2..Len(steps) /\ steps[i - 1].day = d /\ steps[i] \in Steps
      /\ steps[i - 1].hour = k - 1
  BY TurnOf
<1>2. k \in Nat /\ k >= 1 /\ k <= Hours
  BY Bounded, Bounds
<1>3. Ledger(s, d, p)[k] = StepEvents(i, s, d, p)
  BY DEF Ledger
<1> HIDE DEF i
<1>4. steps[i].action[s] \in Acts \cup {None}
  BY <1>1 DEF Steps
<1>5. steps[i - 1].hour \in 0..(Hours - 1)
  BY <1>1, <1>2, Bounds
<1> QED BY <1>1, <1>3, <1>4, <1>5 DEF StepEvents, WithinDay, i

\* The hours of a seat's orders of a kind, by the second reading; in the turns of the day.
Ordered(s, d, op) ==
    FlattenSeq([i \in DOMAIN steps |->
        IF ActedOn(i, d) /\ steps[i].action[s] # None
        THEN [n \in 1..OrdersOf(steps[i].action[s], op) |-> steps[i - 1].hour] ELSE <<>>])
Placed(s, d, op, k) ==
    IF steps[FirstStart(d) + k].action[s] # None
    THEN [n \in 1..OrdersOf(steps[FirstStart(d) + k].action[s], op) |->
             steps[(FirstStart(d) + k) - 1].hour] ELSE <<>>

LEMMA CollectIs ==
  ASSUME NEW s, NEW d, NEW p
  PROVE  /\ CollectDayEvents(s, d, p).sells = Ordered(s, d, "SELL")
         /\ CollectDayEvents(s, d, p).hires_submitted = Len(Ordered(s, d, "HIRE"))
         /\ CollectDayEvents(s, d, p).land_buys = Len(Ordered(s, d, "BUY_LAND"))
BY DEF CollectDayEvents, Ordered

LEMMA PlacedIs ==
  ASSUME Game, NEW d \in DaysStarted, NEW s \in Seats, NEW op,
         NEW k \in 1..(EndOf(d) - FirstStart(d))
  PROVE  /\ Placed(s, d, op, k) \in Seq(0..(Hours - 1))
         /\ steps[FirstStart(d) + k].action[s] # None =>
               /\ OrdersOf(steps[FirstStart(d) + k].action[s], op) \in Nat
               /\ Len(Placed(s, d, op, k)) = OrdersOf(steps[FirstStart(d) + k].action[s], op)
         /\ steps[FirstStart(d) + k].action[s] = None => Placed(s, d, op, k) = <<>>
<1> DEFINE i == FirstStart(d) + k
           a == steps[i].action[s]
           h == steps[i - 1].hour
           c == OrdersOf(a, op)
           w == [n \in 1..c |-> h]
<1>1. (a # None => a \in Acts) /\ h \in 0..(Hours - 1)
  BY StepTold
<1>2. Placed(s, d, op, k) = IF a # None THEN w ELSE <<>>
  BY DEF Placed
<1> HIDE DEF i, a, h
<1>3. ASSUME a # None PROVE c \in Nat /\ w \in Seq(0..(Hours - 1)) /\ Len(w) = c
  <2>1. c \in Nat
    BY <1>1, <1>3, OrderCount
  <2> HIDE DEF c
  <2> QED BY <2>1, <1>1
<1> HIDE DEF w
<1>4. CASE a # None
  BY <1>2, <1>3, <1>4 DEF i, a, c
<1>5. CASE a = None
  <2>1. <<>> \in Seq(0..(Hours - 1))
    OBVIOUS
  <2> QED BY <2>1, <1>2, <1>5 DEF i, a
<1> QED BY <1>4, <1>5

LEMMA OrderedIs ==
  ASSUME Game, NEW d \in DaysStarted, NEW s \in Seats, NEW op, NEW w,
         w = [k \in 1..(EndOf(d) - FirstStart(d)) |-> Placed(s, d, op, k)]
  PROVE  /\ Ordered(s, d, op) = FlattenSeq(w)
         /\ w \in Seq(Seq(0..(Hours - 1))) /\ Len(w) = EndOf(d) - FirstStart(d)
<1> DEFINE a == FirstStart(d)
           n == EndOf(d) - FirstStart(d)
           L == Len(steps)
           f == [i \in DOMAIN steps |->
                   IF ActedOn(i, d) /\ steps[i].action[s] # None
                   THEN [j \in 1..OrdersOf(steps[i].action[s], op) |-> steps[i - 1].hour]
                   ELSE <<>>]
           V == 0..(Hours - 1)
<1>1. /\ a \in Nat /\ n \in Nat /\ a + n <= L
      /\ DOMAIN steps = 1..L /\ L \in Nat
      /\ \A i \in 1..L : ActedOn(i, d) <=> i \in (a + 1)..(a + n)
  BY ActedIs
<1>2. \A k \in 1..n : w[k] = Placed(s, d, op, k) /\ Placed(s, d, op, k) \in Seq(V)
  BY PlacedIs
<1>3. w \in Seq(Seq(V)) /\ Len(w) = n
  <2>1. w \in [1..n -> Seq(V)]
    BY <1>2
  <2> QED BY <2>1, <1>1
<1>4. Ordered(s, d, op) = FlattenSeq(f)
  BY DEF Ordered
<1>5. ASSUME NEW k \in 1..n PROVE a + k \in 1..L /\ f[a + k] = Placed(s, d, op, k)
  <2>1. a + k \in 1..L /\ a + k \in (a + 1)..(a + n)
    BY <1>1
  <2>2. ActedOn(a + k, d)
    BY <2>1, <1>1
  <2> DEFINE i == a + k
  <2>3. f[i] = IF ActedOn(i, d) /\ steps[i].action[s] # None
               THEN [j \in 1..OrdersOf(steps[i].action[s], op) |-> steps[i - 1].hour]
               ELSE <<>>
    <3>1. i \in DOMAIN steps
      BY <2>1, <1>1
    <3> HIDE DEF i
    <3> QED BY <3>1
  <2> HIDE DEF f
  <2> QED BY <2>1, <2>2, <2>3 DEF Placed
<1>6. ASSUME NEW i \in 1..L, i \notin (a + 1)..(a + n) PROVE f[i] = <<>>
  <2>1. ~ActedOn(i, d) /\ i \in DOMAIN steps
    BY <1>1, <1>6
  <2> QED BY <2>1
<1>7. f \in Seq(Seq(V)) /\ Len(f) = L
  <2>1. ASSUME NEW i \in 1..L PROVE f[i] \in Seq(V)
    <3>1. CASE i \in (a + 1)..(a + n)
      <4>1. i - a \in 1..n /\ a + (i - a) = i
        BY <3>1, <1>1
      <4>2. f[a + (i - a)] = Placed(s, d, op, i - a)
        BY <4>1, <1>5
      <4> HIDE DEF f, V
      <4> QED BY <4>1, <4>2, <1>2
    <3>2. CASE i \notin (a + 1)..(a + n)
      <4>1. f[i] = <<>>
        BY <3>2, <1>6
      <4> HIDE DEF f
      <4> QED BY <4>1
    <3> QED BY <3>1, <3>2
  <2>2. f = [i \in 1..L |-> f[i]]
    BY <1>1
  <2> HIDE DEF f, L, V
  <2>3. f \in [1..L -> Seq(V)]
    BY <2>1, <2>2
  <2> QED BY <2>3, <1>1
<1>8. w = [k \in 1..n |-> f[a + k]]
  <2>1. \A k \in 1..n : f[a + k] = Placed(s, d, op, k)
    BY <1>5
  <2> HIDE DEF f
  <2> QED BY <2>1
<1> HIDE DEF f, V, a, n
<1>9. FlattenSeq(f) = FlattenSeq(w)
  <2>1. a \in Nat /\ n \in Nat /\ a + n <= Len(f)
    BY <1>1, <1>7
  <2>2. \A i \in 1..Len(f) : i \notin (a + 1)..(a + n) => f[i] = <<>>
    BY <1>6, <1>7
  <2>3. Holds(f, w, a, n)
    BY <2>1, <2>2, <1>8 DEF Holds
  <2> QED BY <2>3, <1>7, Stretch
<1> QED BY <1>3, <1>4, <1>9 DEF n, V

\* Both readings have the sales of a day, at the same hours.
LEMMA SellsAgree ==
  ASSUME Game, NEW d \in DaysStarted, NEW s \in Seats, NEW p
  PROVE  /\ Ordered(s, d, "SELL") = DayEvents(s, d, p).sells
         /\ DayEvents(s, d, p).sells \in Seq(0..(Hours - 1))
<1> DEFINE n == EndOf(d) - FirstStart(d)
           L == Ledger(s, d, p)
           w == [k \in 1..n |-> Placed(s, d, "SELL", k)]
<1>1. DOMAIN L = 1..n /\ DayEvents(s, d, p).sells = FlattenSeq([k \in DOMAIN L |-> L[k].sells])
  BY LedgerIs, MergedIs
<1>2. ASSUME NEW k \in 1..n PROVE L[k].sells = Placed(s, d, "SELL", k)
  <2> DEFINE i == FirstStart(d) + k
             a == steps[i].action[s]
  <2>1. /\ a # None => L[k] = EventsFromAction(a, steps[i - 1], steps[i], s, p)
        /\ a = None => L[k] = NoEvents
    BY StepTold
  <2>2. Placed(s, d, "SELL", k) = IF a # None
                                  THEN [j \in 1..OrdersOf(a, "SELL") |-> steps[i - 1].hour]
                                  ELSE <<>>
    BY DEF Placed
  <2> HIDE DEF i, a, L
  <2>3. CASE a # None
    <3> DEFINE e == EventsFromAction(a, steps[i - 1], steps[i], s, p)
    <3>a. e.sells = [j \in 1..OrdersOf(a, "SELL") |-> steps[i - 1].hour]
      BY DEF EventsFromAction
    <3> HIDE DEF e
    <3>b. L[k].sells = e.sells
      BY <2>1, <2>3 DEF e
    <3>1. L[k].sells = [j \in 1..OrdersOf(a, "SELL") |-> steps[i - 1].hour]
      BY <3>a, <3>b
    <3> QED BY <2>2, <2>3, <3>1
  <2>4. CASE a = None
    BY <2>1, <2>2, <2>4 DEF NoEvents
  <2> QED BY <2>3, <2>4
<1>3. Ordered(s, d, "SELL") = FlattenSeq(w) /\ w \in Seq(Seq(0..(Hours - 1)))
  BY OrderedIs
<1> HIDE DEF L
<1>4. [k \in DOMAIN L |-> L[k].sells] = w
  BY <1>1, <1>2
<1>5. FlattenSeq(w) \in Seq(0..(Hours - 1))
  <2> HIDE DEF w
  <2> QED BY <1>3, FlatSeq
<1> QED BY <1>1, <1>3, <1>4, <1>5

\* As many hands are ordered.
LEMMA HiresAgree ==
  ASSUME Game, NEW d \in DaysStarted, NEW s \in Seats, NEW p
  PROVE  Len(Ordered(s, d, "HIRE")) = DayEvents(s, d, p).hires
<1> DEFINE n == EndOf(d) - FirstStart(d)
           L == Ledger(s, d, p)
           w == [k \in 1..n |-> Placed(s, d, "HIRE", k)]
           l == [k \in 1..n |-> L[k].hires]
<1>1. DOMAIN L = 1..n /\ DayEvents(s, d, p).hires = Total([k \in DOMAIN L |-> L[k].hires])
  BY LedgerIs, MergedIs
<1>2. ASSUME NEW k \in 1..n PROVE L[k].hires = Len(Placed(s, d, "HIRE", k))
  <2> DEFINE i == FirstStart(d) + k
             a == steps[i].action[s]
  <2>1. /\ a # None => L[k] = EventsFromAction(a, steps[i - 1], steps[i], s, p)
        /\ a = None => L[k] = NoEvents
    BY StepTold
  <2>2. /\ a # None => Len(Placed(s, d, "HIRE", k)) = OrdersOf(a, "HIRE")
        /\ a = None => Placed(s, d, "HIRE", k) = <<>>
    BY PlacedIs
  <2> HIDE DEF i, a, L
  <2>3. CASE a # None
    BY <2>1, <2>2, <2>3 DEF EventsFromAction
  <2>4. CASE a = None
    BY <2>1, <2>2, <2>4 DEF NoEvents
  <2> QED BY <2>3, <2>4
<1>3. Ordered(s, d, "HIRE") = FlattenSeq(w) /\ w \in Seq(Seq(0..(Hours - 1))) /\ Len(w) = n
  BY OrderedIs
<1> HIDE DEF L, n
<1>4. l = [k \in 1..n |-> Len(w[k])] /\ [k \in DOMAIN L |-> L[k].hires] = l
  BY <1>1, <1>2
<1>5. Len(FlattenSeq(w)) = Total(l)
  <2> HIDE DEF w, l
  <2> QED BY <1>3, <1>4, LengthIs
<1> QED BY <1>1, <1>3, <1>4, <1>5

\* Sequences have their elements from some set.
LEMMA SomeSet ==
  ASSUME NEW n \in Nat, NEW s, s = [k \in 1..n |-> s[k]],
         \A k \in 1..n : \E c \in Nat : s[k] = [j \in 1..c |-> s[k][j]]
  PROVE  \E V : s \in Seq(Seq(V)) /\ Len(s) = n
<1> DEFINE V == UNION {{s[k][j] : j \in DOMAIN s[k]} : k \in 1..n}
<1>1. ASSUME NEW k \in 1..n PROVE s[k] \in Seq(V)
  <2>1. PICK c \in Nat : s[k] = [j \in 1..c |-> s[k][j]]
    OBVIOUS
  <2>2. DOMAIN s[k] = 1..c
    BY <2>1
  <2>3. \A j \in 1..c : s[k][j] \in V
    BY <2>2
  <2> HIDE DEF V
  <2>4. s[k] \in [1..c -> V]
    BY <2>1, <2>3
  <2> QED BY <2>4
<1> HIDE DEF V
<1>2. s \in [1..n -> Seq(V)]
  BY <1>1
<1>3. s \in Seq(Seq(V)) /\ Len(s) = n
  BY <1>2
<1> QED BY <1>3

\* As much land is ordered.
LEMMA LandAgree ==
  ASSUME Game, NEW d \in DaysStarted, NEW s \in Seats, NEW p
  PROVE  Len(Ordered(s, d, "BUY_LAND")) = Len(DayEvents(s, d, p).land)
<1> DEFINE n == EndOf(d) - FirstStart(d)
           L == Ledger(s, d, p)
           w == [k \in 1..n |-> Placed(s, d, "BUY_LAND", k)]
           v == [k \in 1..n |-> L[k].land]
           l == [k \in 1..n |-> Len(w[k])]
<1>1. DOMAIN L = 1..n /\ DayEvents(s, d, p).land = FlattenSeq([k \in DOMAIN L |-> L[k].land])
  BY LedgerIs, MergedIs
<1>a. n \in Nat
  BY ActedIs
<1>2. ASSUME NEW k \in 1..n
      PROVE  /\ \E c \in Nat : L[k].land = [j \in 1..c |-> L[k].land[j]]
             /\ Len(L[k].land) = Len(Placed(s, d, "BUY_LAND", k))
  <2> DEFINE i == FirstStart(d) + k
             a == steps[i].action[s]
             x == L[k].land
             c == OrdersOf(a, "BUY_LAND")
  <2>1. /\ a # None => L[k] = EventsFromAction(a, steps[i - 1], steps[i], s, p)
        /\ a = None => L[k] = NoEvents
    BY StepTold
  <2>2. /\ a # None => Len(Placed(s, d, "BUY_LAND", k)) = c /\ c \in Nat
        /\ a = None => Placed(s, d, "BUY_LAND", k) = <<>>
    BY PlacedIs
  <2>3. CASE a # None
    <3> DEFINE land == LandAdditions(steps[i - 1], steps[i], s, a)
    <3> HIDE DEF i, a, L
    <3> DEFINE e == EventsFromAction(a, steps[i - 1], steps[i], s, p)
    <3>a. e.land = [j \in 1..c |-> [quadrant |-> IF j \in DOMAIN land THEN land[j] ELSE Null,
                                    hour |-> steps[i - 1].hour]]
      BY DEF EventsFromAction
    <3> HIDE DEF e
    <3>b. x = e.land
      BY <2>1, <2>3 DEF e
    <3>1. x = [j \in 1..c |-> [quadrant |-> IF j \in DOMAIN land THEN land[j] ELSE Null,
                               hour |-> steps[i - 1].hour]]
      BY <3>a, <3>b
    <3> HIDE DEF x, c
    <3>2. c \in Nat
      BY <2>2, <2>3
    <3>3. DOMAIN x = 1..c /\ x = [j \in 1..c |-> x[j]]
      BY <3>1
    <3>4. Len(x) = c
      BY <3>2, <3>3
    <3> QED BY <2>2, <2>3, <3>2, <3>3, <3>4 DEF x
  <2>4. CASE a = None
    <3>1. x = <<>>
      BY <2>1, <2>4 DEF NoEvents
    <3> HIDE DEF i, a, L, x
    <3>2. 0 \in Nat /\ x = [j \in 1..0 |-> x[j]] /\ Len(x) = 0
      BY <3>1
    <3>3. \E b \in Nat : x = [j \in 1..b |-> x[j]]
      BY <3>2
    <3> QED BY <2>2, <2>4, <3>1, <3>3 DEF x
  <2> QED BY <2>3, <2>4
<1>3. Ordered(s, d, "BUY_LAND") = FlattenSeq(w) /\ w \in Seq(Seq(0..(Hours - 1))) /\ Len(w) = n
  BY OrderedIs
<1> HIDE DEF L, n
<1>4. [k \in DOMAIN L |-> L[k].land] = v
  BY <1>1
<1>5. /\ v = [k \in 1..n |-> v[k]]
      /\ \A k \in 1..n : \E c \in Nat : v[k] = [j \in 1..c |-> v[k][j]]
      /\ \A k \in 1..n : Len(v[k]) = Len(w[k])
  BY <1>2
<1>6. l = [k \in 1..n |-> Len(v[k])]
  BY <1>5
<1> HIDE DEF v
<1>7. \E V : v \in Seq(Seq(V)) /\ Len(v) = n
  BY <1>a, <1>5, SomeSet
<1>8. PICK V : v \in Seq(Seq(V)) /\ Len(v) = n
  BY <1>7
<1>9. Len(FlattenSeq(v)) = Total(l)
  <2>1. l = [k \in 1..Len(v) |-> Len(v[k])]
    BY <1>6, <1>8
  <2> HIDE DEF l
  <2> QED BY <2>1, <1>8, LengthIs
<1>10. Len(FlattenSeq(w)) = Total(l)
  <2>1. l = [k \in 1..Len(w) |-> Len(w[k])]
    BY <1>3
  <2> HIDE DEF w, l
  <2> QED BY <2>1, <1>3, LengthIs
<1> QED BY <1>1, <1>3, <1>4, <1>9, <1>10

\* The work of a kind done on plants, and where in the replay it was done, by the second reading.
OpNames == {"PASS", "PLANT", "DIG", "HARVEST", "FERTILIZE"}
Kinds == {None, "LOCKED", "WEED", "PLANT"}
WorkSet == [op : OpNames, on : Kinds, hour : Nat \cup {None}]
OnPlants(op) == {x \in WorkSet : x.op = op /\ x.on = "PLANT"}
WorkedOn(s, d, p, op) ==
    {i \in DOMAIN steps :
        /\ ActedOn(i, d) /\ steps[i].action[s] # None
        /\ steps[i].action[s].farmer = op
        /\ LET t == TileUnder(steps[i - 1].farms[s].tiles, p) IN t # None /\ t.kind = "PLANT"}

LEMMA WorkAt ==
  ASSUME Game, NEW i \in 2..Len(steps), NEW s \in Seats, NEW p \in Positions, NEW a \in Acts,
         NEW op \in {"FERTILIZE", "HARVEST"}
  PROVE  LET w == Work(a.farmer, TileAt(steps[i - 1].farms[s].tiles, p), steps[i - 1].hour)
             t == TileUnder(steps[i - 1].farms[s].tiles, p)
         IN  /\ w = <<>> \/ \E x \in WorkSet : w = <<x>>
             /\ w # <<>> /\ w[1] \in OnPlants(op) <=> a.farmer = op /\ t # None /\ t.kind = "PLANT"
<1> DEFINE tiles == steps[i - 1].farms[s].tiles
           h == steps[i - 1].hour
           f == a.farmer
           w == Work(f, TileAt(tiles, p), h)
           t == TileUnder(tiles, p)
<1>1. p = <<1, 0>>
  BY PositionsAssumption
<1>2. i - 1 \in 1..Len(steps)
  BY DEF Game
<1>3. PICK u \in Tiles : tiles = <<<<Locked, u>>>>
  BY <1>2, FarmAt
<1>4. h \in Nat
  <2>1. steps[i - 1] \in Steps
    BY <1>2 DEF Game
  <2> QED BY <2>1 DEF Steps
<1>5. f \in OpNames
  BY DEF Acts, OpNames
<1> HIDE DEF tiles, h, f
<1>6. TileAt(tiles, p) = u /\ t = IF u.form = "dict" THEN u ELSE None
  BY <1>1, <1>3 DEF TileAt, TileUnder
<1>7. u.kind \in Kinds /\ u # None /\ (u.kind = "PLANT" => u.form = "dict")
  <2>1. u = Empty \/ u = Locked \/ u = Weed \/ \E y \in {0, 1} : u = Plant(y) \/ u = Wilted(y)
    BY TileCases
  <2>2. \A y \in {0, 1} : /\ Plant(y).form = "dict" /\ Plant(y).kind = "PLANT"
                          /\ Wilted(y).form = "dict" /\ Wilted(y).kind = "PLANT"
    BY Plants
  <2> QED BY <2>1, <2>2, TileKinds DEF Kinds
<1> DEFINE x == [op |-> f, on |-> IF f = "PLANT" THEN None ELSE u.kind,
                 hour |-> IF f = "HARVEST" THEN h ELSE None]
<1>8. /\ x.op = f /\ x.on = (IF f = "PLANT" THEN None ELSE u.kind)
      /\ x \in WorkSet
  BY <1>4, <1>5, <1>7 DEF WorkSet, Kinds
<1>9. w = IF f = "PASS" \/ u = None \/ (f = "HARVEST" /\ u.kind # "PLANT") THEN <<>> ELSE <<x>>
  BY <1>6 DEF Work
<1> HIDE DEF x, w, t
<1>10. w = <<>> \/ \E z \in WorkSet : w = <<z>>
  BY <1>8, <1>9
<1>11. <<x>> # <<>> /\ <<x>>[1] = x
  OBVIOUS
<1>12. ASSUME w # <<>>, w[1] \in OnPlants(op) PROVE f = op /\ t # None /\ t.kind = "PLANT"
  <2>1. w = <<x>>
    BY <1>9, <1>12
  <2>2. x.op = op /\ x.on = "PLANT"
    BY <2>1, <1>11, <1>12 DEF OnPlants
  <2>3. f = op /\ f # "PLANT" /\ u.kind = "PLANT"
    BY <2>2, <1>8
  <2> QED BY <2>3, <1>6, <1>7
<1>13. ASSUME f = op, t # None, t.kind = "PLANT" PROVE w # <<>> /\ w[1] \in OnPlants(op)
  <2>1. t = u /\ u.kind = "PLANT"
    BY <1>6, <1>13
  <2>2. f # "PASS" /\ f # "PLANT"
    BY <1>13
  <2>3. w = <<x>>
    BY <2>1, <2>2, <1>7, <1>9
  <2>4. x \in OnPlants(op)
    BY <2>1, <2>2, <1>8, <1>13 DEF OnPlants
  <2> QED BY <2>3, <2>4, <1>11
<1> QED BY <1>10, <1>12, <1>13 DEF w, t, tiles, h, f

LEMMA CountsAre ==
  ASSUME NEW s, NEW d, NEW p
  PROVE  /\ CollectDayEvents(s, d, p).fert_counts = Cardinality(WorkedOn(s, d, p, "FERTILIZE"))
         /\ CollectDayEvents(s, d, p).harvest_counts = Cardinality(WorkedOn(s, d, p, "HARVEST"))
BY DEF CollectDayEvents, WorkedOn

\* Both readings count the work done on plants alike.
LEMMA WorksAgree ==
  ASSUME Game, NEW d \in DaysStarted, NEW s \in Seats, NEW p \in Positions,
         NEW op \in {"FERTILIZE", "HARVEST"}
  PROVE  /\ Cardinality(WorkedOn(s, d, p, op)) = Count(DayEvents(s, d, p).works, OnPlants(op))
         /\ DayEvents(s, d, p).works \in Seq(WorkSet)
         /\ Cardinality(WorkedOn(s, d, p, op)) \in Nat
<1> DEFINE a == FirstStart(d)
           n == EndOf(d) - FirstStart(d)
           S == Len(steps)
           L == Ledger(s, d, p)
           w == [k \in 1..n |-> L[k].works]
           f == [i \in 1..S |-> IF i \in (a + 1)..(a + n) THEN L[i - a].works ELSE <<>>]
           I == WorkedOn(s, d, p, op)
<1>1. /\ a \in Nat /\ n \in Nat /\ a + n <= S
      /\ DOMAIN steps = 1..S /\ S \in Nat
      /\ \A i \in 1..S : ActedOn(i, d) <=> i \in (a + 1)..(a + n)
  BY ActedIs
<1>2. DOMAIN L = 1..n /\ DayEvents(s, d, p).works = FlattenSeq([k \in DOMAIN L |-> L[k].works])
  BY LedgerIs, MergedIs
<1>3. ASSUME NEW k \in 1..n
      PROVE  /\ L[k].works = <<>> \/ \E x \in WorkSet : L[k].works = <<x>>
             /\ a + k \in I <=> L[k].works # <<>> /\ L[k].works[1] \in OnPlants(op)
  <2> DEFINE i == a + k
             b == steps[i].action[s]
             e == EventsFromAction(b, steps[i - 1], steps[i], s, p)
             v == Work(b.farmer, TileAt(steps[i - 1].farms[s].tiles, p), steps[i - 1].hour)
             t == TileUnder(steps[i - 1].farms[s].tiles, p)
  <2>1. /\ b # None => b \in Acts /\ L[k] = e
        /\ b = None => L[k] = NoEvents
        /\ i \in 2..S
    BY StepTold
  <2>2. e.works = v
    BY DEF EventsFromAction
  <2>3. ActedOn(i, d) /\ i \in DOMAIN steps
    <3>1. i \in (a + 1)..(a + n) /\ i \in 1..S
      BY <1>1
    <3> QED BY <3>1, <1>1
  <2>4. b # None => /\ v = <<>> \/ \E x \in WorkSet : v = <<x>>
                    /\ v # <<>> /\ v[1] \in OnPlants(op)
                          <=> b.farmer = op /\ t # None /\ t.kind = "PLANT"
    BY <2>1, WorkAt
  <2>5. i \in I <=> b # None /\ b.farmer = op /\ t # None /\ t.kind = "PLANT"
    BY <2>3 DEF WorkedOn
  <2> HIDE DEF i, b, e, v, t, I, L
  <2>6. CASE b # None
    <3>1. L[k].works = v
      BY <2>1, <2>2, <2>6
    <3> QED BY <3>1, <2>4, <2>5, <2>6 DEF i
  <2>7. CASE b = None
    <3>1. L[k].works = <<>>
      BY <2>1, <2>7 DEF NoEvents
    <3> QED BY <3>1, <2>5, <2>7 DEF i
  <2> QED BY <2>6, <2>7
<1>4. I \subseteq (a + 1)..(a + n) /\ I \in SUBSET (1..S)
  <2>1. I \subseteq 1..S /\ \A i \in I : ActedOn(i, d)
    BY <1>1 DEF WorkedOn
  <2> HIDE DEF I
  <2> QED BY <2>1, <1>1
<1> HIDE DEF L, I, a, n, S
<1>5. \A i \in 1..S : /\ i \in (a + 1)..(a + n) =>
                           f[i] = L[i - a].works /\ i - a \in 1..n /\ a + (i - a) = i
                      /\ i \notin (a + 1)..(a + n) => f[i] = <<>>
  BY <1>1
<1>6. \A i \in 1..S : f[i] = <<>> \/ \E x \in WorkSet : f[i] = <<x>>
  <2> HIDE DEF f
  <2> QED BY <1>3, <1>5
<1>7. \A i \in 1..S : i \in I <=> f[i] # <<>> /\ f[i][1] \in OnPlants(op)
  <2> HIDE DEF f
  <2>1. ASSUME NEW i \in 1..S PROVE i \in I <=> f[i] # <<>> /\ f[i][1] \in OnPlants(op)
    <3>1. CASE i \in (a + 1)..(a + n)
      <4>1. f[i] = L[i - a].works /\ i - a \in 1..n /\ a + (i - a) = i
        BY <3>1, <1>5
      <4> DEFINE k == i - a
      <4>2. k \in 1..n /\ a + k = i /\ f[i] = L[k].works
        BY <4>1
      <4> HIDE DEF k
      <4>3. a + k \in I <=> L[k].works # <<>> /\ L[k].works[1] \in OnPlants(op)
        BY <4>2, <1>3
      <4> QED BY <4>2, <4>3
    <3>2. CASE i \notin (a + 1)..(a + n)
      BY <3>2, <1>4, <1>5
    <3> QED BY <3>1, <3>2
  <2> QED BY <2>1
<1>8. f \in Seq(Seq(WorkSet)) /\ Len(f) = S
  <2>1. f = [i \in 1..S |-> f[i]]
    OBVIOUS
  <2>2. ASSUME NEW i \in 1..S PROVE f[i] \in Seq(WorkSet)
    <3> HIDE DEF f
    <3>1. f[i] = <<>> \/ \E x \in WorkSet : f[i] = <<x>>
      BY <1>6
    <3> HIDE DEF WorkSet
    <3>2. \A x \in WorkSet : <<x>> \in Seq(WorkSet)
      OBVIOUS
    <3>3. <<>> \in Seq(WorkSet)
      OBVIOUS
    <3> QED BY <3>1, <3>2, <3>3
  <2> HIDE DEF f
  <2>3. f \in [1..S -> Seq(WorkSet)]
    BY <2>1, <2>2
  <2> QED BY <2>3, <1>1
<1>9. w = [k \in 1..n |-> f[a + k]]
  <2>1. \A k \in 1..n : f[a + k] = L[k].works
    <3>1. ASSUME NEW k \in 1..n PROVE f[a + k] = L[k].works
      <4>1. a + k \in 1..S /\ a + k \in (a + 1)..(a + n) /\ (a + k) - a = k
        BY <1>1
      <4> HIDE DEF f
      <4>2. f[a + k] = L[(a + k) - a].works
        BY <4>1, <1>5
      <4> QED BY <4>1, <4>2
    <3> QED BY <3>1
  <2> HIDE DEF f
  <2> QED BY <2>1
<1> HIDE DEF f
<1>10. Holds(f, w, a, n)
  <2>1. \A i \in 1..Len(f) : i \notin (a + 1)..(a + n) => f[i] = <<>>
    BY <1>5, <1>8
  <2>2. a \in Nat /\ n \in Nat /\ a + n <= Len(f)
    BY <1>1, <1>8
  <2> QED BY <2>1, <2>2, <1>9 DEF Holds
<1>11. FlattenSeq(f) = FlattenSeq(w)
  BY <1>8, <1>10, Stretch
<1>12. DayEvents(s, d, p).works = FlattenSeq(w)
  BY <1>2
<1>13. Count(FlattenSeq(f), OnPlants(op)) = Cardinality(I)
  <2>1. I \in SUBSET (1..Len(f))
    BY <1>4, <1>8
  <2>2. /\ \A i \in 1..Len(f) : f[i] = <<>> \/ \E x \in WorkSet : f[i] = <<x>>
        /\ \A i \in 1..Len(f) : i \in I <=> f[i] # <<>> /\ f[i][1] \in OnPlants(op)
    BY <1>6, <1>7, <1>8
  <2> QED BY <2>1, <2>2, <1>8, CountIs
<1>14. FlattenSeq(f) \in Seq(WorkSet)
  BY <1>8, FlatSeq
<1>15. Cardinality(I) \in Nat
  <2>1. IsFiniteSet(1..S)
    BY <1>1, FS_Interval
  <2>2. IsFiniteSet(I)
    BY <2>1, <1>4, FS_Subset
  <2> QED BY <2>2, FS_CardinalityType
<1> QED BY <1>11, <1>12, <1>13, <1>14, <1>15 DEF I

-----------------------------------------------------------------------------
(* The plan of a day against its record. *)

Bin(h) == (h \div BinHours) * BinHours
Anchors == {n \in 0..(Hours - 1) : n % BinHours = 0}

LEMMA PlanIs ==
  ASSUME NEW s, NEW d, NEW p
  PROVE  LET plan == ExtractDailyPlan(s, d, p)
             events == CollectDayEvents(s, d, p)
             farm == EndOfDayObservation(d).farms[s]
         IN  /\ plan.crop_targets = BoardCounts(farm.tiles, "PLANT")
             /\ plan.land_count = Max({1, Min({4, Len(farm.unlocked_quadrants)})})
             /\ plan.fertilizer_by_crop
                  = Min({events.fert_counts, BoardCounts(farm.tiles, "PLANT")})
BY DEF ExtractDailyPlan

LEMMA QuantitiesAre ==
  ASSUME NEW s, NEW d, NEW p
  PROVE  ExtractDailyPlan(s, d, p).sell_quantities
           = [anchor \in Anchors |->
                Cardinality({k \in DOMAIN CollectDayEvents(s, d, p).sells :
                               Bin(CollectDayEvents(s, d, p).sells[k]) = anchor})]
BY DEF ExtractDailyPlan, Bin, Anchors

LEMMA TargetsAre ==
  ASSUME NEW s, NEW d, NEW p
  PROVE  LET record == Record(s, d, p)
             events == DayEvents(s, d, p)
         IN  /\ record.events = events
             /\ record.end = State(EndOf(d), s)
             /\ record.targets.crops = Planted(State(EndOf(d), s).board)
             /\ record.targets.sell_bins
                  = [k \in DOMAIN events.sells |-> Bin(events.sells[k])]
BY DEF Record, Bin

\* Both readings count the plants on a board alike.
LEMMA PlantsSeen ==
  ASSUME NEW t \in Tiles
  PROVE  /\ BoardCounts(<<<<Locked, t>>>>, "PLANT") = Planted(Board(t))
         /\ Planted(Board(t)) \in Nat
<1> DEFINE tiles == <<<<Locked, t>>>>
           P == {1} \X {1, 2}
           A == {p \in P : tiles[p[1]][p[2]].form = "dict" /\ tiles[p[1]][p[2]].kind = "PLANT"}
           B == {p \in P : Board(t)[p[1]][p[2]].tile.kind = "PLANT"}
<1>1. P = {<<1, 1>>, <<1, 2>>}
  OBVIOUS
<1>2. UNION {{y} \X DOMAIN tiles[y] : y \in DOMAIN tiles} = P
  <2>1. DOMAIN tiles = {1} /\ DOMAIN tiles[1] = {1, 2}
    OBVIOUS
  <2>2. {{y} \X DOMAIN tiles[y] : y \in DOMAIN tiles} = {P}
    BY <2>1
  <2> QED BY <2>2
<1>3. BoardCounts(tiles, "PLANT") = Cardinality(A) /\ Planted(Board(t)) = Cardinality(B)
  BY <1>2 DEF BoardCounts, Planted
<1>4. \A u : CanonicalTile(u).tile = u
  BY DEF CanonicalTile
<1>5. \A x \in {1, 2} : Board(t)[1][x].tile = tiles[1][x]
  BY <1>4 DEF Board
<1>6. \A x \in {1, 2} : tiles[1][x].kind = "PLANT" => tiles[1][x].form = "dict"
  <2>1. t.kind = "PLANT" => t.form = "dict"
    BY TileCases, TileKinds, Plants
  <2>2. Locked.kind # "PLANT"
    BY TileKinds
  <2> QED BY <2>1, <2>2
<1> HIDE DEF tiles, P
<1>7. \A p \in P : p[1] = 1 /\ p[2] \in {1, 2}
  BY <1>1
<1>8. A = B
  BY <1>5, <1>6, <1>7
<1>9. Cardinality(B) \in Nat
  <2>1. IsFiniteSet(P)
    <3>1. P = {<<1, 1>>} \cup {<<1, 2>>}
      BY <1>1
    <3>2. IsFiniteSet({<<1, 1>>})
      BY FS_Singleton
    <3> QED BY <3>1, <3>2, FS_AddElement
  <2>2. B \subseteq P
    OBVIOUS
  <2> HIDE DEF B
  <2>3. IsFiniteSet(B)
    BY <2>1, <2>2, FS_Subset
  <2> QED BY <2>3, FS_CardinalityType
<1> QED BY <1>3, <1>8, <1>9 DEF tiles

LEMMA BoardIs ==
  ASSUME NEW i, NEW s, NEW t, steps[i].farms[s].tiles = <<<<Locked, t>>>>
  PROVE  State(i, s).board = Board(t)
<1> DEFINE Faces(tiles) == [y \in DOMAIN tiles |->
                              [x \in DOMAIN tiles[y] |-> CanonicalTile(tiles[y][x])]]
<1>1. State(i, s).board = Faces(steps[i].farms[s].tiles)
  BY DEF State
<1>2. Faces(<<<<Locked, t>>>>) = Board(t)
  BY DEF Board
<1> HIDE DEF Faces
<1> QED BY <1>1, <1>2

\* A farm has as many quadrants as the plan makes of it.
LEMMA LandIs ==
  ASSUME NEW n \in 1..4
  PROVE  Max({1, Min({4, n})}) = n
<1>1. Min({4, n}) = n
  <2>1. {4, n} \in SUBSET Int /\ n \in {4, n} /\ \A y \in {4, n} : n <= y
    OBVIOUS
  <2> QED BY <2>1, MinIs
<1>2. {1, n} \in SUBSET Int /\ n \in {1, n} /\ \A y \in {1, n} : y <= n
  OBVIOUS
<1>3. Max({1, n}) = n
  BY <1>2, MaxIs
<1> QED BY <1>1, <1>3

\* The hour a selling window begins at.
LEMMA Window ==
  ASSUME NEW h \in 0..(Hours - 1)
  PROVE  Bin(h) \in Anchors
<1> DEFINE B == BinHours
           q == h \div B
           m == q * B
<1>1. B \in Nat /\ B > 0 /\ Hours \in Nat /\ h \in Nat /\ h <= Hours - 1
  BY Bounds
<1> HIDE DEF B
<1>2. q \in Nat /\ h = B * q + (h % B) /\ h % B \in 0..(B - 1)
  BY <1>1
<1> HIDE DEF q
<1>3. m \in Nat /\ m = B * q
  BY <1>1, <1>2
<1>4. m <= h
  <2> HIDE DEF m
  <2> QED BY <1>1, <1>2, <1>3
<1>5. m % B = 0
  <2> HIDE DEF m
  <2> DEFINE k == m \div B
             r == m % B
  <2>1. k \in Int /\ m = B * k + r /\ r \in 0..(B - 1)
    BY <1>1, <1>3
  <2> HIDE DEF k, r
  <2>2. B * q = B * k + r
    BY <1>3, <2>1
  <2>3. CASE q = k
    <3> DEFINE z == B * k
    <3>1. z \in Int
      BY <1>1, <2>1
    <3> HIDE DEF z
    <3>2. z = z + r
      BY <2>2, <2>3 DEF z
    <3>3. r = 0
      BY <3>1, <3>2, <2>1
    <3> QED BY <3>3 DEF r
  <2>4. CASE q > k
    <3>1. PICK e \in Nat : q = k + 1 + e
      BY <2>4, <1>2, <2>1
    <3>2. B * q = B * k + B + B * e
      BY <3>1, <1>1, <2>1
    <3> DEFINE z == B * k
               v == B * e
    <3>3. z \in Int /\ v \in Nat
      BY <1>1, <2>1, <3>1
    <3> HIDE DEF z, v
    <3>4. z + B + v = z + r
      BY <2>2, <3>2 DEF z, v
    <3> QED BY <3>3, <3>4, <1>1, <2>1
  <2>5. CASE q < k
    <3>1. PICK e \in Nat : k = q + 1 + e
      BY <2>5, <1>2, <2>1
    <3>2. B * k = B * q + B + B * e
      BY <3>1, <1>1, <1>2
    <3> DEFINE z == B * q
               v == B * e
    <3>3. z \in Int /\ v \in Nat
      BY <1>1, <1>2, <3>1
    <3> HIDE DEF z, v
    <3>4. z = z + B + v + r
      BY <2>2, <3>2 DEF z, v
    <3> QED BY <3>3, <3>4, <1>1, <2>1
  <2> QED BY <2>3, <2>4, <2>5, <1>2, <2>1
<1> HIDE DEF m
<1>6. m \in 0..(Hours - 1)
  BY <1>1, <1>3, <1>4
<1> QED BY <1>5, <1>6 DEF m, q, B, Bin, Anchors

LEMMA DoneIs ==
  ASSUME NEW works \in Seq(WorkSet), NEW op
  PROVE  Cardinality({k \in DOMAIN works : works[k].op = op /\ works[k].on = "PLANT"})
           = Count(works, OnPlants(op))
<1>1. \A k \in DOMAIN works : works[k] \in WorkSet
  OBVIOUS
<1>2. {k \in DOMAIN works : works[k].op = op /\ works[k].on = "PLANT"}
        = {k \in DOMAIN works : works[k] \in OnPlants(op)}
  BY <1>1 DEF OnPlants
<1> QED BY <1>2 DEF Count

LEMMA ReadingsAre == Game => ReadingsAgree
<1> SUFFICES ASSUME Game, NEW s \in Seats, NEW d \in DaysStarted, NEW p \in Positions
             PROVE  LET plan == ExtractDailyPlan(s, d, p)
                        events == CollectDayEvents(s, d, p)
                        record == Record(s, d, p)
                        works == record.events.works
                        done(op) == Cardinality({k \in DOMAIN works :
                                       works[k].op = op /\ works[k].on = "PLANT"})
                    IN  /\ plan.crop_targets = record.targets.crops
                        /\ plan.land_count = Len(record.end.unlocked_quadrants)
                        /\ plan.fertilizer_by_crop <= done("FERTILIZE")
                        /\ events.harvest_counts = done("HARVEST")
                        /\ events.hires_submitted = record.events.hires
                        /\ events.land_buys = Len(record.events.land)
                        /\ \A anchor \in DOMAIN plan.sell_quantities :
                              plan.sell_quantities[anchor]
                                 = Cardinality({k \in DOMAIN record.targets.sell_bins :
                                                  record.targets.sell_bins[k] = anchor})
                        /\ \A k \in DOMAIN record.targets.sell_bins :
                              record.targets.sell_bins[k] \in DOMAIN plan.sell_quantities
  BY DEF ReadingsAgree
<1> DEFINE plan == ExtractDailyPlan(s, d, p)
           events == CollectDayEvents(s, d, p)
           record == Record(s, d, p)
           told == DayEvents(s, d, p)
           done(op) == Cardinality({k \in DOMAIN told.works :
                          told.works[k].op = op /\ told.works[k].on = "PLANT"})
           farm == steps[EndOf(d)].farms[s]
<1>1. EndOf(d) \in 1..Len(steps)
  BY Bounded
<1>2. EndOfDayObservation(d).farms[s] = farm
  BY EndSeen
<1>3. PICK t \in Tiles : farm.tiles = <<<<Locked, t>>>>
  BY <1>1, FarmAt
<1>4. /\ record.events = told /\ record.end = State(EndOf(d), s)
      /\ record.targets.crops = Planted(State(EndOf(d), s).board)
      /\ record.targets.sell_bins = [k \in DOMAIN told.sells |-> Bin(told.sells[k])]
  BY TargetsAre
<1>5. State(EndOf(d), s).board = Board(t)
  BY <1>3, BoardIs
<1>6. State(EndOf(d), s).unlocked_quadrants = farm.unlocked_quadrants
  BY DEF State
<1>7. /\ plan.crop_targets = BoardCounts(farm.tiles, "PLANT")
      /\ plan.land_count = Max({1, Min({4, Len(farm.unlocked_quadrants)})})
      /\ plan.fertilizer_by_crop = Min({events.fert_counts, BoardCounts(farm.tiles, "PLANT")})
      /\ plan.sell_quantities
           = [anchor \in Anchors |->
                Cardinality({k \in DOMAIN events.sells : Bin(events.sells[k]) = anchor})]
  <2> DEFINE seen == EndOfDayObservation(d).farms[s]
  <2>1. /\ plan.crop_targets = BoardCounts(seen.tiles, "PLANT")
        /\ plan.land_count = Max({1, Min({4, Len(seen.unlocked_quadrants)})})
        /\ plan.fertilizer_by_crop
             = Min({events.fert_counts, BoardCounts(seen.tiles, "PLANT")})
    BY PlanIs
  <2>2. plan.sell_quantities
          = [anchor \in Anchors |->
               Cardinality({k \in DOMAIN events.sells : Bin(events.sells[k]) = anchor})]
    BY QuantitiesAre
  <2>3. seen = farm
    BY <1>2
  <2> HIDE DEF plan, events, farm, seen
  <2> QED BY <2>1, <2>2, <2>3
<1>8. Len(farm.unlocked_quadrants) \in 1..4
  BY <1>1, FarmAt
<1>9. /\ events.fert_counts = Cardinality(WorkedOn(s, d, p, "FERTILIZE"))
      /\ events.harvest_counts = Cardinality(WorkedOn(s, d, p, "HARVEST"))
  BY CountsAre
<1>10. \A op \in {"FERTILIZE", "HARVEST"} :
          /\ Cardinality(WorkedOn(s, d, p, op)) = Count(told.works, OnPlants(op))
          /\ told.works \in Seq(WorkSet)
          /\ Cardinality(WorkedOn(s, d, p, op)) \in Nat
  BY WorksAgree
<1>11. events.hires_submitted = told.hires /\ events.land_buys = Len(told.land)
  BY CollectIs, HiresAgree, LandAgree
<1>12. events.sells = told.sells /\ told.sells \in Seq(0..(Hours - 1))
  BY CollectIs, SellsAgree
<1> HIDE DEF plan, events, record, told, farm
<1>13. \A op \in {"FERTILIZE", "HARVEST"} : done(op) = Cardinality(WorkedOn(s, d, p, op))
  BY <1>10, DoneIs
<1>14. plan.crop_targets = record.targets.crops /\ BoardCounts(farm.tiles, "PLANT") \in Nat
  BY <1>3, <1>4, <1>5, <1>7, PlantsSeen
<1>15. plan.land_count = Len(record.end.unlocked_quadrants)
  BY <1>4, <1>6, <1>7, <1>8, LandIs
<1> HIDE DEF done
<1>16. plan.fertilizer_by_crop <= done("FERTILIZE") /\ events.harvest_counts = done("HARVEST")
  BY <1>7, <1>9, <1>10, <1>13, <1>14, SmallerOf
<1>17. \A k \in DOMAIN told.sells : Bin(told.sells[k]) \in Anchors
  <2>1. \A k \in DOMAIN told.sells : told.sells[k] \in 0..(Hours - 1)
    BY <1>12, IsTuple
  <2> QED BY <2>1, Window
<1>18. \A k \in DOMAIN record.targets.sell_bins :
          record.targets.sell_bins[k] \in DOMAIN plan.sell_quantities
  BY <1>4, <1>7, <1>17
<1>19. ASSUME NEW anchor \in DOMAIN plan.sell_quantities
       PROVE  plan.sell_quantities[anchor]
                = Cardinality({k \in DOMAIN record.targets.sell_bins :
                                 record.targets.sell_bins[k] = anchor})
  <2>1. anchor \in Anchors
    BY <1>7
  <2>2. {k \in DOMAIN events.sells : Bin(events.sells[k]) = anchor}
          = {k \in DOMAIN record.targets.sell_bins : record.targets.sell_bins[k] = anchor}
    BY <1>4, <1>12
  <2> QED BY <2>1, <2>2, <1>7
<1> QED BY <1>4, <1>11, <1>14, <1>15, <1>16, <1>18, <1>19
        DEF plan, events, record, done

-----------------------------------------------------------------------------
(* A slice of a day. *)

\* The opponent of the seat that acts does in the slice what it did in the day.
LEMMA RepeatedIs ==
  ASSUME Game, Recorded, NEW s \in Seats, NEW d \in DaysStarted, NEW engine, s # actor
  PROVE  DaySlice(s, d, engine).repeated = [k \in DOMAIN TurnsOf(d) |-> TurnsOf(d)[k].action]
<1> DEFINE m == d * Hours
           n == EndOf(d) - FirstStart(d)
           turns == Min({Hours, LastIndex + 1 - (m + 1)})
<1>1. /\ m \in Nat /\ FirstStart(d) = m + 1 /\ m + 1 \in 1..Len(steps)
      /\ EndOf(d) = IF m + Hours + 1 <= Len(steps) THEN m + Hours + 1 ELSE Len(steps)
  BY Bounded, DayLength
<1>2. Len(steps) = LastIndex + 1 /\ LastIndex \in Nat /\ Hours \in Nat
  BY Bounds DEF Recorded
<1>3. DaySlice(s, d, engine).repeated = [h \in 1..turns |-> steps[(m + 1) + h].action[1 - s]]
  BY DEF DaySlice
<1> HIDE DEF m
<1>4. turns = n
  <2> DEFINE e == LastIndex + 1 - (m + 1)
  <2>1. e \in Nat /\ n = IF Hours <= e THEN Hours ELSE e
    BY <1>1, <1>2
  <2> HIDE DEF e, n
  <2>2. CASE Hours <= e
    <3>1. {Hours, e} \in SUBSET Int /\ Hours \in {Hours, e} /\ \A y \in {Hours, e} : Hours <= y
      BY <2>1, <2>2, <1>2
    <3>2. Min({Hours, e}) = Hours
      BY <3>1, MinIs
    <3> QED BY <3>2, <2>1, <2>2 DEF e
  <2>3. CASE ~(Hours <= e)
    <3>1. {Hours, e} \in SUBSET Int /\ e \in {Hours, e} /\ \A y \in {Hours, e} : e <= y
      BY <2>1, <2>3, <1>2
    <3>2. Min({Hours, e}) = e
      BY <3>1, MinIs
    <3> QED BY <3>2, <2>1, <2>3 DEF e
  <2> QED BY <2>2, <2>3
<1>5. DOMAIN TurnsOf(d) = 1..n
  BY TurnsAre
<1>6. ASSUME NEW k \in 1..n PROVE steps[(m + 1) + k].action[1 - s] = TurnsOf(d)[k].action
  <2>1. LET i == FirstStart(d) + k
        IN  /\ TurnsOf(d)[k] = real[i - 1]
            /\ Turned(actor, steps[i - 1], real[i - 1], steps[i])
    BY TurnOf DEF n
  <2>2. 1 - s = actor
    BY DEF Game, Seats
  <2>3. actor \in Seats
    BY DEF Game
  <2>4. steps[FirstStart(d) + k].action[actor] = TurnsOf(d)[k].action
    BY <2>1, <2>3 DEF Turned
  <2> QED BY <2>2, <2>4, <1>1
<1> HIDE DEF n, turns
<1> QED BY <1>3, <1>4, <1>5, <1>6

\* A tile as an engine shows it, on a farm of two tiles.
SeenBy(engine, t) ==
    CASE engine = "exact" -> t
      [] engine = "terse" -> Terse(t)
      [] engine = "aged" -> Aged(t)
      [] engine = "astray" -> Astray(t)

IsTile(t) == \E form, kind, fields : t = Tile(form, kind, fields)
IsFarm(farm, a, b) ==
    \E hires, quadrants : farm = Farm(hires, quadrants, <<<<a, b>>>>)
Refaced(farm, a, b) == Farm(farm.hires_today, farm.unlocked_quadrants, <<<<a, b>>>>)

LEMMA TileMade ==
  ASSUME NEW form, NEW kind, NEW fields
  PROVE  IsTile(Tile(form, kind, fields))
BY DEF IsTile

LEMMA FarmMade ==
  ASSUME NEW hires, NEW quadrants, NEW a, NEW b
  PROVE  IsFarm(Farm(hires, quadrants, <<<<a, b>>>>), a, b)
BY DEF IsFarm

LEMMA TileIs ==
  ASSUME NEW t, IsTile(t), NEW engine \in Engines
  PROVE  IsTile(SeenBy(engine, t))
<1>1. PICK form, kind, fields : t = Tile(form, kind, fields)
  BY DEF IsTile
<1>2. t = [form |-> form, kind |-> kind, fields |-> fields]
  BY <1>1 DEF Tile
<1>3. \A w : [t EXCEPT !.fields = w] = Tile(form, kind, w)
  BY <1>2 DEF Tile
<1>4. CASE engine = "exact"
  BY <1>4 DEF SeenBy
<1>5. CASE engine = "terse"
  <2> DEFINE w == [f \in {g \in DOMAIN t.fields : t.fields[g] # 0} |-> t.fields[f]]
  <2>1. SeenBy(engine, t) = [t EXCEPT !.fields = w]
    BY <1>5 DEF SeenBy, Terse
  <2> HIDE DEF w
  <2> QED BY <2>1, <1>3, TileMade
<1>6. CASE engine = "aged"
  <2> DEFINE w == [f \in DOMAIN t.fields \cup {"age"} |-> IF f = "age" THEN 1 ELSE t.fields[f]]
  <2>1. SeenBy(engine, t) = t \/ SeenBy(engine, t) = [t EXCEPT !.fields = w]
    BY <1>6 DEF SeenBy, Aged
  <2> HIDE DEF w
  <2> QED BY <2>1, <1>3, TileMade
<1>7. CASE engine = "astray"
  <2> DEFINE w == [fields EXCEPT !["yield_units"] = 1 - @]
  <2>1. SeenBy(engine, t) = t \/ SeenBy(engine, t) = [t EXCEPT !.fields["yield_units"] = 1 - @]
    BY <1>7 DEF SeenBy, Astray
  <2>2. [t EXCEPT !.fields["yield_units"] = 1 - @] = [t EXCEPT !.fields = w]
    BY <1>2
  <2> HIDE DEF w
  <2> QED BY <2>1, <2>2, <1>3, TileMade
<1> QED BY <1>4, <1>5, <1>6, <1>7 DEF Engines

LEMMA ShownFarm ==
  ASSUME NEW farm, NEW a, NEW b, IsFarm(farm, a, b), NEW engine \in Engines
  PROVE  Shown(engine, farm) = Refaced(farm, SeenBy(engine, a), SeenBy(engine, b))
<1>1. PICK hires, quadrants :
         farm = [hires_today |-> hires, unlocked_quadrants |-> quadrants, tiles |-> <<<<a, b>>>>]
  BY DEF IsFarm, Farm
<1>2. CASE engine = "exact"
  BY <1>1, <1>2 DEF Shown, SeenBy, Refaced, Farm
<1>3. CASE engine = "terse"
  BY <1>1, <1>3 DEF Shown, SeenBy, Refaced, Farm, OfTiles
<1>4. CASE engine = "aged"
  BY <1>1, <1>4 DEF Shown, SeenBy, Refaced, Farm, OfTiles
<1>5. CASE engine = "astray"
  BY <1>1, <1>5 DEF Shown, SeenBy, Refaced, Farm, OfTiles
<1> QED BY <1>2, <1>3, <1>4, <1>5 DEF Engines

LEMMA NormalFarm ==
  ASSUME NEW farm, NEW a, NEW b, IsFarm(farm, a, b)
  PROVE  OfTiles(farm, NormalizeTile) = Refaced(farm, NormalizeTile(a), NormalizeTile(b))
<1>1. PICK hires, quadrants :
         farm = [hires_today |-> hires, unlocked_quadrants |-> quadrants, tiles |-> <<<<a, b>>>>]
  BY DEF IsFarm, Farm
<1> QED BY <1>1 DEF Refaced, Farm, OfTiles

\* Two tiles are alike once they are normalized if they look alike.
LooksLike(s, t) ==
    /\ s.form = t.form /\ s.kind = t.kind
    /\ \A f \in (DOMAIN s.fields \cup DOMAIN t.fields) \ Cosmetic : Shows(s, f) = Shows(t, f)

LEMMA NormalIs ==
  ASSUME NEW s, NEW t, IsTile(s), IsTile(t)
  PROVE  NormalizeTile(s) = NormalizeTile(t) <=> LooksLike(s, t)
<1> DEFINE Left(u) == {g \in DOMAIN u.fields : g \notin Cosmetic /\ u.fields[g] # 0}
           Rest(u) == [f \in Left(u) |-> u.fields[f]]
<1>1. \A u : IsTile(u) => NormalizeTile(u) = [form |-> u.form, kind |-> u.kind, fields |-> Rest(u)]
  BY DEF IsTile, Tile, NormalizeTile
<1>2. NormalizeTile(s) = NormalizeTile(t)
        <=> s.form = t.form /\ s.kind = t.kind /\ Rest(s) = Rest(t)
  <2> HIDE DEF Rest
  <2> QED BY <1>1
<1>3. ASSUME Rest(s) = Rest(t), NEW f \in (DOMAIN s.fields \cup DOMAIN t.fields) \ Cosmetic
      PROVE  Shows(s, f) = Shows(t, f)
  <2>1. Left(s) = DOMAIN Rest(s) /\ Left(t) = DOMAIN Rest(t)
    OBVIOUS
  <2>2. f \in Left(s) <=> f \in Left(t)
    BY <2>1, <1>3
  <2>3. CASE f \in Left(s)
    <3>1. Rest(s)[f] = s.fields[f] /\ Rest(t)[f] = t.fields[f]
      BY <2>2, <2>3
    <3> QED BY <3>1, <2>2, <2>3, <1>3 DEF Shows
  <2>4. CASE f \notin Left(s)
    BY <2>2, <2>4 DEF Shows
  <2> QED BY <2>3, <2>4
<1>4. ASSUME \A f \in (DOMAIN s.fields \cup DOMAIN t.fields) \ Cosmetic : Shows(s, f) = Shows(t, f)
      PROVE  Rest(s) = Rest(t)
  <2>1. \A f \in (DOMAIN s.fields \cup DOMAIN t.fields) \ Cosmetic :
           f \in Left(s) <=> f \in Left(t)
    BY <1>4 DEF Shows
  <2>2. Left(s) = Left(t)
    BY <2>1
  <2>3. \A f \in Left(s) : s.fields[f] = t.fields[f]
    BY <2>2, <1>4 DEF Shows
  <2> QED BY <2>2, <2>3
<1> QED BY <1>2, <1>3, <1>4 DEF LooksLike

\* The boundary of a slice is verified if the engine's farm looks like the recorded one.
LEMMA VerifiedIs ==
  ASSUME NEW farm, NEW a, NEW b, IsFarm(farm, a, b), IsTile(a), IsTile(b), NEW engine \in Engines
  PROVE  FirstDiff(OfTiles(Shown(engine, farm), NormalizeTile), OfTiles(farm, NormalizeTile)) = None
           <=> SameToTheEye(Shown(engine, farm), farm)
<1> DEFINE x == SeenBy(engine, a)
           y == SeenBy(engine, b)
           shown == Shown(engine, farm)
           left == OfTiles(shown, NormalizeTile)
           right == OfTiles(farm, NormalizeTile)
<1>1. shown = Refaced(farm, x, y)
  BY ShownFarm
<1>2. IsFarm(shown, x, y) /\ shown.hires_today = farm.hires_today
      /\ shown.unlocked_quadrants = farm.unlocked_quadrants /\ shown.tiles = <<<<x, y>>>>
  <2> HIDE DEF x, y, shown
  <2>1. IsFarm(shown, x, y)
    BY <1>1, FarmMade DEF Refaced
  <2>2. shown.hires_today = farm.hires_today
        /\ shown.unlocked_quadrants = farm.unlocked_quadrants /\ shown.tiles = <<<<x, y>>>>
    BY <1>1 DEF Refaced, Farm
  <2> QED BY <2>1, <2>2
<1>3. farm.tiles = <<<<a, b>>>>
  BY DEF IsFarm, Farm
<1>4. IsTile(x) /\ IsTile(y)
  BY TileIs
<1> HIDE DEF x, y, shown
<1>5. left = Refaced(shown, NormalizeTile(x), NormalizeTile(y))
      /\ right = Refaced(farm, NormalizeTile(a), NormalizeTile(b))
  BY <1>2, NormalFarm
<1>6. /\ left.hires_today = right.hires_today
      /\ left.unlocked_quadrants = right.unlocked_quadrants
      /\ left.tiles = <<<<NormalizeTile(x), NormalizeTile(y)>>>>
      /\ right.tiles = <<<<NormalizeTile(a), NormalizeTile(b)>>>>
  BY <1>2, <1>5 DEF Refaced, Farm
<1> HIDE DEF left, right
<1>7. FirstDiff(left, right) = None <=> left.tiles = right.tiles
  BY <1>6, DiffAssumption DEF FirstDiff
<1>8. left.tiles = right.tiles
        <=> NormalizeTile(x) = NormalizeTile(a) /\ NormalizeTile(y) = NormalizeTile(b)
  BY <1>6
<1>9. left.tiles = right.tiles <=> LooksLike(x, a) /\ LooksLike(y, b)
  BY <1>4, <1>8, NormalIs
<1>10. SameToTheEye(shown, farm)
         <=> \A i \in DOMAIN shown.tiles, j \in {1, 2} :
                LooksLike(shown.tiles[i][j], farm.tiles[i][j])
  BY <1>2 DEF SameToTheEye, LooksLike
<1>11. SameToTheEye(shown, farm) <=> LooksLike(x, a) /\ LooksLike(y, b)
  BY <1>2, <1>3, <1>10
<1> QED BY <1>7, <1>9, <1>11 DEF left, right, shown

LEMMA SlicesAre == Game => SliceIsThatDay
<1> SUFFICES ASSUME Game, Recorded, NEW s \in Seats, NEW d \in DaysStarted, NEW engine \in Engines
             PROVE  LET recorded == steps[FirstStart(d)].farms[s]
                        slice == DaySlice(s, d, engine)
                    IN  /\ slice.boundary_verified
                             <=> SameToTheEye(Shown(engine, recorded), recorded)
                        /\ s # actor =>
                             slice.repeated = [k \in DOMAIN TurnsOf(d) |-> TurnsOf(d)[k].action]
  BY DEF SliceIsThatDay
<1> DEFINE farm == steps[FirstStart(d)].farms[s]
<1>1. FirstStart(d) = d * Hours + 1 /\ FirstStart(d) \in 1..Len(steps)
  BY Bounded
<1>2. farm \in Farms
  BY <1>1, FarmAt
<1>3. PICK t \in Tiles : farm.tiles = <<<<Locked, t>>>>
  BY <1>1, FarmAt
<1>4. farm = Farm(farm.hires_today, farm.unlocked_quadrants, farm.tiles)
  <2> HIDE DEF farm
  <2> QED BY <1>2 DEF Farms, Farm
<1>5. IsFarm(farm, Locked, t)
  <2> HIDE DEF farm
  <2> QED BY <1>3, <1>4 DEF IsFarm
<1>6. IsTile(Locked) /\ IsTile(t)
  <2>1. \A u \in Tiles : IsTile(u)
    <3>1. IsTile(Empty) /\ IsTile(Locked) /\ IsTile(Weed)
      BY TileMade DEF Empty, Locked, Weed
    <3>2. \A y \in {0, 1} : IsTile(Plant(y)) /\ IsTile(Wilted(y))
      BY TileMade DEF Plant, Wilted
    <3> QED BY <3>1, <3>2, TileCases
  <2> QED BY <2>1, TileKinds
<1>7. DaySlice(s, d, engine).boundary_verified
        = (FirstDiff(OfTiles(Shown(engine, farm), NormalizeTile), OfTiles(farm, NormalizeTile))
             = None)
  BY <1>1 DEF DaySlice
<1> HIDE DEF farm
<1>8. DaySlice(s, d, engine).boundary_verified <=> SameToTheEye(Shown(engine, farm), farm)
  BY <1>5, <1>6, <1>7, VerifiedIs
<1> QED BY <1>8, RepeatedIs DEF farm

\* Every order of a replay is told once, by both readings alike, and replayed in its turn: as
\* the extractor does (extract_replay), as the plan of a day does (extract_daily_plan), and as
\* the slice of a day does (run_day_slice).
THEOREM OrdersHold == ReplaysSpec => []OrdersTold
<1>1. Game /\ Kept => OrdersTold
  BY OrdersAre, ReadingsAre, SlicesAre DEF OrdersTold
<1> QED BY <1>1, GameHolds, PTL
=============================================================================
