------------------------------ MODULE SelfPlay ------------------------------
(***************************************************************************)
(* The self-play runner (rl_manager/runner.py): games are played in chunks *)
(* of num_envs, in lockstep; at the first hour of every managed day the    *)
(* requests of all games and seats are grouped by policy, every group is   *)
(* answered in one batch, and each answer is recorded in the trajectory    *)
(* buffer and queued for the executor of its seat.  What a turn tells      *)
(* about a day - labor, cash, the joint actions - reaches the rows later,  *)
(* at the day's end or at the end of the game.                             *)
(*                                                                         *)
(* An observation is what the runner reads of it: the step and the hires   *)
(* of the day; a plan is identified by the request whose encoding it       *)
(* answers and by the random key it was drawn with; the digest of a day is *)
(* the sequence of turns that went into it.  The engine, the policy and    *)
(* the opening are external: a game lasts Days * Hours - 1 turns, a seat's *)
(* opening hands over to its executor when the managed days begin, or      *)
(* before when it diverges.                                                *)
(***************************************************************************)
EXTENDS Integers, SequencesExt

CONSTANTS
    None,
    NumEpisodes,     \* the specs of one run
    NumEnvs,         \* RunnerConfig.num_envs
    StartDay,        \* manager_start_day (4)
    Days, Hours,     \* of a game (30, 24)
    Budgets,         \* the values of max_turns (719)
    Capacities,      \* the capacities of the trajectory buffer
    Castings,        \* the compositions of the run's episodes, as functions of the episode
    Hirers,          \* bound: the <<episode, seat>> pairs that may hire
    Estimates,       \* the critic's value of the day a request is about
    Gamma, Lambda    \* of compute_gae: 0 or 1, as fractions are not modelled

Episodes == 1..NumEpisodes
Seats == {0, 1}
Dates == 0..(Days - 1)
Compositions == {"e_vs_e", "candidate_vs_frozen", "frozen_vs_candidate"}

ASSUME SelfPlayAssumption ==
    /\ {NumEpisodes, NumEnvs, Days} \subseteq Nat \ {0}
    /\ Hours \in Nat \ {0, 1}
    /\ Budgets \subseteq Nat /\ Capacities \subseteq Nat
    /\ None \notin Int
    /\ StartDay \in Dates
    /\ Castings \subseteq [Episodes -> Compositions]
    /\ Hirers \subseteq Episodes \X Seats
    /\ Estimates \in [Dates -> Int]
    /\ {Gamma, Lambda} \subseteq {0, 1}

VARIABLES
    casting,     \* spec.composition of every episode
    max_turns,
    capacity,
    waiting,     \* the specs whose chunk has not begun
    chunk,       \* the episodes of the chunk in lockstep
    state,       \* _EpisodeState of every episode
    rows,        \* the trajectory buffer
    results,     \* EpisodeResults, in the order they were appended
    turn,
    phase

vars == <<casting, max_turns, capacity, waiting, chunk, state, rows, results, turn, phase>>
setup == <<casting, max_turns, capacity>>

-----------------------------------------------------------------------------
\* The entries of a sequence at the places I, in their order (SelectSeq, which no prover can
\* expand, told by place).
Kept(s, I) ==
    LET nth(n) == CHOOSE i \in I : Cardinality({j \in I : j <= i}) = n
    IN  [n \in 1..Cardinality(I) |-> s[nth(n)]]

-----------------------------------------------------------------------------
(* Compositions and the engine, as the runner sees it. *)

\* seat_policies.
Policy(e, s) ==
    CASE casting[e] = "candidate_vs_frozen" /\ s = 0 -> "candidate"
      [] casting[e] = "frozen_vs_candidate" /\ s = 1 -> "candidate"
      [] OTHER -> "frozen"
PolicyOrder == <<"candidate", "frozen">>               \* sorted(groups)
Trainable(e, s) == Policy(e, s) = "candidate"

Day(st) == st.step \div Hours
Hour(st) == st.step % Hours

BothSeats(x) == [s \in Seats |-> x]

\* _EpisodeState.__init__ and the engine after reset.
Unplayed ==
    [step |-> 0, hires |-> BothSeats(0), done |-> FALSE, truncated |-> FALSE,
     finalized |-> FALSE, last_seen_day |-> BothSeats(-1),
     daily_start |-> BothSeats(None), previous_execution |-> BothSeats(0),
     hires_current_day |-> BothSeats(0), planned_days |-> BothSeats({}),
     transition_index |-> {}, day_hashers |-> [d \in Dates |-> <<>>],
     day_digests |-> [d \in Dates |-> <<>>], queued |-> BothSeats({}),
     consumed |-> BothSeats({}), agent_day |-> BothSeats(None),
     diverged |-> BothSeats(FALSE)]

Init ==
    /\ casting \in Castings
    /\ max_turns \in Budgets
    /\ capacity \in Capacities
    /\ waiting = [k \in Episodes |-> k]
    /\ chunk = <<>>
    /\ state = [e \in Episodes |-> Unplayed]
    /\ rows = <<>>
    /\ results = <<>>
    /\ turn = 0
    /\ phase = "chunk"

-----------------------------------------------------------------------------
(* Day boundaries. *)

\* Seeded bug: the day is sealed again, from nothing, at the other seat's rollover.
SealDayAgain(st, d) ==
    [st EXCEPT !.day_digests[d] = st.day_hashers[d], !.day_hashers[d] = <<>>]
\* seal_day_digest.
SealDay(st, d) ==
    IF st.day_hashers[d] = <<>> THEN st
    ELSE [st EXCEPT !.day_digests[d] = st.day_hashers[d], !.day_hashers[d] = <<>>]

\* _note_day_start: the labor of the finished day is what was seen of it.
NoteDayStart(st, s) ==
    LET finished == st.last_seen_day[s]
        closed == IF finished < 0 THEN st
                  ELSE SealDay([st EXCEPT !.previous_execution[s] =
                                   st.hires_current_day[s]], finished)
    IN  IF Day(st) <= finished THEN st
        ELSE [closed EXCEPT !.last_seen_day[s] = Day(st),
                            !.hires_current_day[s] = st.hires[s],
                            !.daily_start[s] = Day(st)]

\* Seeded bug: the last observation of a day replaces what was seen before the rollover.
TrackedLast(st, s) ==
    NoteDayStart([st EXCEPT !.hires_current_day[s] = st.hires[s]], s)
Tracked(st, s) ==
    NoteDayStart([st EXCEPT !.hires_current_day[s] = Max({@, st.hires[s]})], s)

TrackPostStep(st) == Tracked(Tracked(st, 0), 1)
ObserveReset(st) == NoteDayStart(NoteDayStart(st, 0), 1)

\* run: the next num_envs specs.
NextChunk ==
    /\ phase = "chunk" /\ waiting # <<>>
    /\ LET size == Min({NumEnvs, Len(waiting)})
       IN  /\ chunk' = SubSeq(waiting, 1, size)
           /\ waiting' = SubSeq(waiting, size + 1, Len(waiting))
    /\ state' = [e \in Episodes |-> IF \E k \in DOMAIN chunk' : chunk'[k] = e
                                    THEN ObserveReset(Unplayed) ELSE state[e]]
    /\ turn' = 0
    /\ phase' = "decide"
    /\ UNCHANGED <<setup, rows, results>>

NoMoreChunks ==
    /\ phase = "chunk" /\ waiting = <<>>
    /\ phase' = "returned"
    /\ UNCHANGED <<setup, waiting, chunk, state, rows, results, turn>>

-----------------------------------------------------------------------------
(* The batched decisions of a day. *)

\* The active games.
Playing == {e \in Range(chunk) : ~state[e].done}
LoopOver == turn >= max_turns \/ Playing = {}

Request(e, s) == [episode |-> e, seat |-> s, day |-> Day(state[e])]

\* The seats of the chunk's games, one game after the other.
Asking == [i \in 1..(2 * Len(chunk)) |-> Request(chunk[(i + 1) \div 2], (i + 1) % 2)]
Due(r) == /\ ~state[r.episode].done
          /\ Hour(state[r.episode]) = 0
          /\ r.day >= StartDay
          /\ r.day \notin state[r.episode].planned_days[r.seat]
Requests == Kept(Asking, {i \in DOMAIN Asking : Due(Asking[i])})

Group(p) == Kept(Asking, {i \in DOMAIN Asking :
                            /\ Due(Asking[i])
                            /\ Policy(Asking[i].episode, Asking[i].seat) = p})

\* prng_id and sample_action_indices: the key names the batch's first episode, and every
\* row folds in its place in the batch.
KeyOf(group, k) == [episode |-> group[1].episode, day |-> group[1].day, row |-> k]

\* Seeded bug: outputs are matched with the requests of all policies.
AnswerOfAll(group, k) == [for |-> Requests[k], key |-> KeyOf(group, k)]
Answer(group, k) == [for |-> group[k], key |-> KeyOf(group, k)]

Row(decision) ==
    LET st == state[decision.request.episode]
        s == decision.request.seat
    IN  [episode |-> decision.request.episode, seat |-> s, day |-> decision.request.day,
         trainable |-> Trainable(decision.request.episode, s), plan |-> decision.plan,
         workers_hired |-> st.previous_execution[s], prev_start |-> st.daily_start[s],
         value |-> Estimates[decision.request.day],
         digest |-> <<>>, reward |-> 0, terminated |-> FALSE, truncated |-> FALSE]

Decided(group) ==
    [k \in DOMAIN group |-> [request |-> group[k], plan |-> Answer(group, k)]]
Batch == Decided(Group(PolicyOrder[1])) \o Decided(Group(PolicyOrder[2]))

\* Seeded bug: the buffer grows past its capacity.
RoomUnbounded == 2 * NumEpisodes * Days
Room == capacity - Len(rows)

\* _record_transition: a plan is queued, then its row is appended; a full buffer raises, with
\* the plan queued and no row.
Recorded(e, batch) ==
    LET mine(n, s) == {k \in 1..Min({n, Len(batch)}) :
                          batch[k].request.episode = e /\ batch[k].request.seat = s}
    IN  [state[e] EXCEPT
            !.queued = [s \in Seats |->
                @[s] \cup {[day |-> Day(state[e]), plan |-> batch[k].plan] : k \in mine(Room + 1, s)}],
            !.transition_index = @ \cup UNION
                {{[seat |-> s, day |-> Day(state[e]), row |-> Len(rows) + k] : k \in mine(Room, s)} :
                    s \in Seats},
            !.planned_days = [s \in Seats |->
                @[s] \cup {Day(state[e]) : k \in mine(Room, s)}]]

\* _collect_and_apply_decisions.
Decide ==
    /\ phase = "decide" /\ ~LoopOver
    /\ LET batch == Batch
       IN  /\ state' = [e \in Episodes |-> Recorded(e, batch)]
           /\ rows' = rows \o [k \in 1..Min({Room, Len(batch)}) |-> Row(batch[k])]
           /\ phase' = IF Len(batch) > Room THEN "raised" ELSE "act"
    /\ UNCHANGED <<setup, waiting, chunk, results, turn>>

-----------------------------------------------------------------------------
(* One turn of all active games. *)

\* Playback before the managed days; the executor asks for a plan once a day, and a
\* missing plan is an error.
Delegated(st, s) == st.diverged[s] \/ Day(st) >= StartDay
Asks(st, s) == Delegated(st, s) /\ st.agent_day[s] # Day(st)
PlansFor(st, s) == {q \in st.queued[s] : q.day = Day(st)}

\* QueuedPlanProvider.daily_plan.
Consumed(st, s) ==
    IF ~Asks(st, s) THEN st
    ELSE [st EXCEPT !.queued[s] = @ \ PlansFor(st, s),
                    !.consumed[s] = @ \cup PlansFor(st, s),
                    !.agent_day[s] = Day(st)]

Hashed(st) == [st EXCEPT !.day_hashers[Day(st)] = Append(@, Hour(st))]

\* A seat whose script failed is its executor's from then on.
Seen(e, failed) ==
    [state[e] EXCEPT !.diverged = [s \in Seats |-> @[s] \/ <<e, s>> \in failed]]

Acted(e, failed) ==
    IF e \in Playing THEN Hashed(Consumed(Consumed(Seen(e, failed), 0), 1)) ELSE state[e]

\* A scripted seat may diverge; its executor then finds no plan and the run ends.
Failures == {{}} \cup {{<<e, s>>} : e \in Playing, s \in Seats}
Act ==
    /\ phase = "act"
    /\ \E failed \in Failures :
          /\ \A f \in failed : Day(state[f[1]]) < StartDay
          /\ state' = [e \in Episodes |-> Acted(e, failed)]
          /\ phase' = IF \E e \in Playing, s \in Seats :
                             Asks(Seen(e, failed), s) /\ PlansFor(Seen(e, failed), s) = {}
                      THEN "raised" ELSE "step"
    /\ UNCHANGED <<setup, waiting, chunk, rows, results, turn>>

\* The engine (external): hires_today starts from nothing every day.
Stepped(st, hiring) ==
    LET next == st.step + 1
        same == next % Hours # 0
    IN  [st EXCEPT
            !.step = next,
            !.hires = [s \in Seats |-> (IF same THEN @[s] ELSE 0)
                                         + (IF same /\ s \in hiring THEN 1 ELSE 0)],
            !.done = next + 1 >= Days * Hours]

-----------------------------------------------------------------------------
(* The end of a game. *)

LastOf(st, s) ==
    LET own == {t \in st.transition_index : t.seat = s}
    IN  IF own = {} THEN {} ELSE {t \in own : \A o \in own : o.day <= t.day}

\* Seeded bug: a game the budget cut short is recorded as one that ended.
PatchedEnded(st, e, reward) ==
    [k \in DOMAIN rows |->
        LET own == {t \in st.transition_index : t.row = k}
            last == {t \in LastOf(st, 0) \cup LastOf(st, 1) : t.row = k}
            digested == IF own = {} THEN rows[k]
                        ELSE [rows[k] EXCEPT !.digest = st.day_digests[rows[k].day]]
        IN  IF last = {} THEN digested
            ELSE [digested EXCEPT !.reward = reward[rows[k].seat], !.terminated = TRUE]]

\* The rows of episode e once its digests, rewards and flags are patched in.
Patched(st, e, reward) ==
    [k \in DOMAIN rows |->
        LET own == {t \in st.transition_index : t.row = k}
            last == {t \in LastOf(st, 0) \cup LastOf(st, 1) : t.row = k}
            digested == IF own = {} THEN rows[k]
                        ELSE [rows[k] EXCEPT !.digest = st.day_digests[rows[k].day]]
        IN  IF last = {} THEN digested
            ELSE [digested EXCEPT !.reward = reward[rows[k].seat],
                                  !.terminated = ~st.truncated,
                                  !.truncated = st.truncated]]

Outcomes == {BothSeats(0), [s \in Seats |-> 1 - 2 * s], [s \in Seats |-> 2 * s - 1]}

\* _finalize, for the game e whose tracked state is st.
Finalized(e, st, reward) ==
    LET sealed == SealDay([st EXCEPT !.finalized = TRUE], Day(st))
    IN  /\ state' = [state EXCEPT ![e] = sealed]
        /\ rows' = Patched(sealed, e, reward)
        /\ results' = Append(results, [episode |-> e, rewards |-> reward,
                                       terminated |-> ~st.truncated,
                                       transitions |-> Cardinality(st.transition_index)])

Step ==
    /\ phase = "step"
    /\ \E who \in {{}} \cup {{h} : h \in Hirers} :
          state' = [e \in Episodes |->
                       IF e \in Playing
                       THEN TrackPostStep(Stepped(state[e], {h[2] : h \in {h \in who : h[1] = e}}))
                       ELSE state[e]]
    /\ turn' = turn + 1
    /\ phase' = "finish"
    /\ UNCHANGED <<setup, waiting, chunk, rows, results>>

NewlyDone == Kept(chunk, {k \in DOMAIN chunk : state[chunk[k]].done /\ ~state[chunk[k]].finalized})

Finish ==
    /\ phase = "finish" /\ NewlyDone # <<>>
    /\ \E reward \in Outcomes : Finalized(NewlyDone[1], state[NewlyDone[1]], reward)
    /\ UNCHANGED <<setup, waiting, chunk, turn, phase>>

NextTurn ==
    /\ phase = "finish" /\ NewlyDone = <<>>
    /\ phase' = "decide"
    /\ UNCHANGED <<setup, waiting, chunk, state, rows, results, turn>>

\* Seeded bug: the games the budget cuts short are left without a result.
UnfinishedForgotten == <<>>
Unfinished == Kept(chunk, {k \in DOMAIN chunk : ~state[chunk[k]].finalized})

\* The turn budget is exhausted: the rest of the chunk is truncated.
Truncate ==
    /\ phase = "decide" /\ LoopOver /\ Unfinished # <<>>
    /\ \E reward \in Outcomes :
          Finalized(Unfinished[1], [state[Unfinished[1]] EXCEPT !.truncated = TRUE], reward)
    /\ UNCHANGED <<setup, waiting, chunk, turn, phase>>

ChunkDone ==
    /\ phase = "decide" /\ LoopOver /\ Unfinished = <<>>
    /\ phase' = "chunk"
    /\ UNCHANGED <<setup, waiting, chunk, state, rows, results, turn>>

Next == \/ NextChunk \/ NoMoreChunks \/ Decide \/ Act \/ Step \/ Finish \/ NextTurn
        \/ Truncate \/ ChunkDone

\* The runner is one sequential loop.
Spec == Init /\ [][Next]_vars /\ WF_vars(Next)

-----------------------------------------------------------------------------
(* compute_gae and build_ppo_batch: which buffers a PPO update accepts. *)

\* valid_trainable_rows, in the buffer's order.
Trained == {k \in DOMAIN rows : rows[k].trainable}
TrainedRows == Kept([k \in DOMAIN rows |-> k], Trained)

GaeGroup(k) == {j \in Trained : rows[j].episode = rows[k].episode /\ rows[j].seat = rows[k].seat}
GaeAccepts ==
    /\ Trained # {}
    /\ \A k \in Trained :
          LET days == {rows[j].day : j \in GaeGroup(k)}
              last == rows[k].day = Max(days)
          IN  /\ Cardinality(days) = Cardinality(GaeGroup(k))
              /\ days = Min(days)..Max(days)
              /\ rows[k].terminated = last
              /\ ~rows[k].truncated               \* no bootstrap values are given

\* The group's row of the day after; there is none after the last, whose game ended.
RowAfter(k) == {j \in GaeGroup(k) : rows[j].day = rows[k].day + 1}
AtNext(k, f) == IF RowAfter(k) = {} THEN 0 ELSE f[CHOOSE j \in RowAfter(k) : TRUE]

\* Seeded bug: the critic's value of the next day is taken for the row that follows in the
\* batch, whosever it is.
TdErrorOfNeighbour(k) ==
    rows[k].reward + Gamma * (IF k + 1 \in Trained THEN rows[k + 1].value ELSE 0) - rows[k].value
TdError(k) ==
    rows[k].reward + Gamma * AtNext(k, [j \in Trained |-> rows[j].value]) - rows[k].value

\* The estimates of a group are summed up backwards; that they are normalized over the
\* batch afterwards is left out.
Advantages ==
    LET advantage[k \in Trained] ==
            TdError(k) + Gamma * Lambda * AtNext(k, advantage)
    IN  advantage

PpoBatch ==
    [i \in DOMAIN TrainedRows |->
        LET row == rows[TrainedRows[i]]
            advantage == Advantages[TrainedRows[i]]
        IN  [plan |-> row.plan, advantages |-> advantage, values |-> row.value,
             returns |-> advantage + row.value]]

-----------------------------------------------------------------------------
(* What the runner promises. *)

SelfPlayTypeOK ==
    /\ phase \in {"chunk", "decide", "act", "step", "finish", "returned", "raised"}
    /\ turn \in 0..max_turns
    /\ Len(rows) <= capacity
    /\ \A e \in Episodes : /\ state[e].step \in 0..(Days * Hours - 1)
                           /\ \A s \in Seats : Cardinality(state[e].queued[s]) <= 1

\* One decision a day and seat: no row is recorded twice, the executor of a seat plays by
\* the plan that answers its own game, seat and day, and that plan is in the buffer
\* (_collect_and_apply_decisions, QueuedPlanProvider).
OwnPlanOncePerDay ==
    /\ \A j, k \in DOMAIN rows :
          (rows[j].episode = rows[k].episode /\ rows[j].seat = rows[k].seat
              /\ rows[j].day = rows[k].day) => j = k
    /\ \A e \in Episodes, s \in Seats : \A q \in state[e].consumed[s] :
          /\ q.plan.for = [episode |-> e, seat |-> s, day |-> q.day]
          /\ \E k \in DOMAIN rows : rows[k].plan = q.plan

\* A finished game's digests are those of its own days: every turn of the day in order,
\* whoever's rollover sealed it (seal_day_digest, issue #9).
DigestsAreWholeDays ==
    \A k \in DOMAIN rows :
        LET st == state[rows[k].episode]
            d == rows[k].day
            played == IF d < Day(st) THEN Hours
                      ELSE IF st.done THEN Hours - 1 ELSE Hour(st)
        IN  st.finalized => rows[k].digest = [h \in 1..played |-> h - 1]

\* The buffer a PPO update accepts holds complete games: every managed day of a trained
\* seat, rewarded on the last one only.  What a raised or truncated run leaves is refused.
AcceptedIsComplete ==
    phase \in {"returned", "raised"} /\ GaeAccepts =>
        \A k \in Trained :
            /\ {rows[j].day : j \in GaeGroup(k)} = StartDay..(Days - 1)
            /\ state[rows[k].episode].finalized
            /\ rows[k].reward # 0 => rows[k].day = Days - 1

\* Without discounts, the return of every decision in the batch of an update is what its own
\* seat was paid at the end of its own game, wherever the lockstep put its row among those
\* of other games and days (compute_gae, build_ppo_batch).
CreditIsOwn ==
    phase = "returned" /\ GaeAccepts /\ Gamma = 1 /\ Lambda = 1 =>
        \A i \in DOMAIN PpoBatch :
            \E k \in DOMAIN results :
                /\ results[k].episode = PpoBatch[i].plan.for.episode
                /\ results[k].rewards[PpoBatch[i].plan.for.seat] = PpoBatch[i].returns

\* The labor the encoder is told of at a day's first turn is what the engine showed at
\* the last turn of the day before, although it is counted from nothing again by then
\* (track_post_step, _note_day_start).
LaborIsYesterdays ==
    [][\A e \in Episodes, s \in Seats :
          phase = "step" /\ state'[e].last_seen_day[s] # state[e].last_seen_day[s] =>
              state'[e].previous_execution[s] = state[e].hires[s]]_vars

\* Every run ends, with a result for each of its episodes unless it raised.
Settles == <>(\/ phase = "raised"
              \/ phase = "returned" /\ {results[k].episode : k \in DOMAIN results} = Episodes)

\* "runner-owned previous daily-start (day, cash) observation" (runner.py): the cash the
\* encoder compares with is that of the day before.
ContextIsYesterdays == \A k \in DOMAIN rows : rows[k].prev_start = rows[k].day - 1

\* "samples attach to row identity (seed), never batch position or env scheduling order"
\* (ppo_policy.py): the key is the one the game would have had alone.
KeysAreScheduleFree ==
    \A k \in DOMAIN rows : rows[k].trainable =>
        rows[k].plan.key = [episode |-> rows[k].episode, day |-> rows[k].day, row |-> 1]

(* The rollout as a whole: it keeps to its types, and a digest once sealed *)
(* is that of the whole day.                                               *)
SelfPlaySound == SelfPlayTypeOK /\ DigestsAreWholeDays

(* A row is the seat's own decision of its own day, taken once, and a row  *)
(* that is accepted for training is complete and gets its own credit.      *)
DecisionsSound == OwnPlanOncePerDay /\ AcceptedIsComplete /\ CreditIsOwn
=============================================================================
