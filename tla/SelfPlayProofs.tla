--------------------------- MODULE SelfPlayProofs ----------------------------
(***************************************************************************)
(* What the self-play runner keeps for every number of games, every chunk  *)
(* size and calendar, every casting, budget and capacity: the labor of the *)
(* day before, whole digests, one decision a day, and complete trained     *)
(* games with their own credit.                                            *)
(***************************************************************************)
EXTENDS SelfPlay, FiniteSetTheorems, NaturalsInduction, WellFoundedInduction, TLAPS

-----------------------------------------------------------------------------
(* The calendar. *)

LEMMA Calendar ==
  /\ NumEpisodes \in Nat /\ NumEnvs \in Nat /\ NumEnvs >= 1
  /\ Days \in Nat /\ Days >= 1 /\ Hours \in Nat /\ Hours >= 2
  /\ StartDay \in Nat /\ StartDay < Days /\ Days * Hours \in Nat
BY SelfPlayAssumption DEF Dates

LEMMA Remainder ==
  ASSUME NEW n \in Int, NEW k \in Int, k > 0
  PROVE  n \div k \in Int /\ n % k = n - k * (n \div k) /\ n % k \in 0..(k - 1)
OBVIOUS

LEMMA Monotone ==
  ASSUME NEW m \in Int, NEW n \in Int, m <= n, NEW k \in Nat
  PROVE  m * k \in Int /\ n * k \in Int /\ m * k <= n * k
OBVIOUS

\* The quotient and the remainder are told by the number.
LEMMA QuotientIs ==
  ASSUME NEW n \in Nat, NEW k \in Nat, k > 0, NEW q \in Int, NEW r \in 0..(k - 1),
         n = k * q + r
  PROVE  n \div k = q /\ n % k = r
<1> DEFINE p == n \div k
<1>1. p \in Int /\ n % k = n - k * p /\ n % k \in 0..(k - 1)
  BY Remainder
<1> HIDE DEF p
<1>2. k * p \in Int /\ k * q \in Int /\ k * p = p * k /\ k * q = q * k
      /\ k * (p + 1) = k * p + k /\ k * (q + 1) = k * q + k
      /\ k * (p + 1) = (p + 1) * k /\ k * (q + 1) = (q + 1) * k
  BY <1>1
<1>3. p = q
  <2>1. CASE p >= q + 1
    <3>1. (q + 1) * k <= p * k
      BY <2>1, <1>1, Monotone
    <3> QED BY <3>1, <1>1, <1>2
  <2>2. CASE q >= p + 1
    <3>1. (p + 1) * k <= q * k
      BY <2>2, <1>1, Monotone
    <3> QED BY <3>1, <1>1, <1>2
  <2> QED BY <2>1, <2>2, <1>1
<1> QED BY <1>1, <1>2, <1>3 DEF p

\* The day and the hour of a step, and of the next one.
LEMMA Clocked ==
  ASSUME NEW n \in Nat
  PROVE  /\ n \div Hours \in Nat /\ n % Hours \in 0..(Hours - 1)
         /\ n = Hours * (n \div Hours) + (n % Hours)
<1> DEFINE q == n \div Hours
<1>1. Hours \in Nat /\ Hours > 0
  BY Calendar
<1>2. q \in Int /\ n % Hours = n - Hours * q /\ n % Hours \in 0..(Hours - 1)
  BY <1>1, Remainder
<1> HIDE DEF q
<1>3. q >= 0
  <2>1. SUFFICES ASSUME q + 1 <= 0 PROVE FALSE
    BY <1>2
  <2>2. (q + 1) * Hours <= 0 * Hours
    BY <2>1, <1>1, <1>2, Monotone
  <2>3. (q + 1) * Hours = Hours * q + Hours /\ 0 * Hours = 0 /\ Hours * q \in Int
    BY <1>1, <1>2
  <2> QED BY <2>2, <2>3, <1>1, <1>2
<1>4. Hours * q \in Int
  BY <1>1, <1>2
<1> QED BY <1>1, <1>2, <1>3, <1>4 DEF q

LEMMA NextHour ==
  ASSUME NEW n \in Nat
  PROVE  IF n % Hours = Hours - 1
         THEN (n + 1) \div Hours = (n \div Hours) + 1 /\ (n + 1) % Hours = 0
         ELSE (n + 1) \div Hours = n \div Hours /\ (n + 1) % Hours = (n % Hours) + 1
<1> DEFINE q == n \div Hours
           r == n % Hours
<1>1. /\ Hours \in Nat /\ Hours > 0
      /\ q \in Nat /\ r \in 0..(Hours - 1) /\ n = Hours * q + r
  BY Calendar, Clocked
<1> HIDE DEF q, r
<1>2. Hours * q \in Int /\ Hours * (q + 1) = Hours * q + Hours
  BY <1>1
<1>3. CASE r = Hours - 1
  <2>1. n + 1 = Hours * (q + 1) + 0 /\ 0 \in 0..(Hours - 1) /\ q + 1 \in Int
    BY <1>1, <1>2, <1>3
  <2>2. (n + 1) \div Hours = q + 1 /\ (n + 1) % Hours = 0
    BY <2>1, <1>1, QuotientIs
  <2> QED BY <2>2, <1>3 DEF q, r
<1>4. CASE r # Hours - 1
  <2>1. n + 1 = Hours * q + (r + 1) /\ r + 1 \in 0..(Hours - 1) /\ q \in Int
    BY <1>1, <1>2, <1>4
  <2>2. (n + 1) \div Hours = q /\ (n + 1) % Hours = r + 1
    BY <2>1, <1>1, QuotientIs
  <2> QED BY <2>2, <1>4 DEF q, r
<1> QED BY <1>3, <1>4

\* The last step of a game is one before the last of its last day.
LEMMA LastStep ==
  ASSUME NEW n \in Nat, n <= Days * Hours - 1
  PROVE  /\ n \div Hours \in Dates
         /\ n = Days * Hours - 1 => n \div Hours = Days - 1 /\ n % Hours = Hours - 1
<1> DEFINE q == n \div Hours
<1>1. /\ Hours \in Nat /\ Hours > 0 /\ Days \in Nat /\ Days >= 1
      /\ q \in Nat /\ n % Hours \in 0..(Hours - 1) /\ n = Hours * q + (n % Hours)
  BY Calendar, Clocked
<1> HIDE DEF q
<1>2. /\ Days * Hours \in Nat /\ Hours * q \in Nat /\ q * Hours = Hours * q
      /\ (Days - 1) * Hours = Days * Hours - Hours
      /\ Hours * (Days - 1) = (Days - 1) * Hours
  BY <1>1
<1>3. q <= Days - 1
  <2>1. SUFFICES ASSUME Days <= q PROVE FALSE
    BY <1>1
  <2>2. Days * Hours <= q * Hours
    BY <2>1, <1>1, Monotone
  <2> QED BY <2>2, <1>1, <1>2
<1>4. ASSUME n = Days * Hours - 1
      PROVE  n \div Hours = Days - 1 /\ n % Hours = Hours - 1
  <2>1. n = Hours * (Days - 1) + (Hours - 1) /\ Hours - 1 \in 0..(Hours - 1) /\ Days - 1 \in Int
    BY <1>4, <1>1, <1>2
  <2> QED BY <2>1, <1>1, QuotientIs
<1> QED BY <1>1, <1>3, <1>4 DEF q, Dates

-----------------------------------------------------------------------------
(* The entries kept of a sequence, and the smaller and larger of two. *)

LEMMA MinOfTwo ==
  ASSUME NEW m \in Int, NEW n \in Int
  PROVE  Min({m, n}) = IF m <= n THEN m ELSE n
<1> DEFINE x == IF m <= n THEN m ELSE n
<1>1. x \in {m, n} /\ \A y \in {m, n} : x <= y
  OBVIOUS
<1>2. \A z \in {m, n} : (\A y \in {m, n} : z <= y) => z = x
  OBVIOUS
<1> HIDE DEF x
<1>3. Min({m, n}) = x
  BY <1>1, <1>2 DEF Min
<1> QED BY <1>3 DEF x

LEMMA MaxOfTwo ==
  ASSUME NEW m \in Int, NEW n \in Int
  PROVE  Max({m, n}) = IF m <= n THEN n ELSE m
<1> DEFINE x == IF m <= n THEN n ELSE m
<1>1. x \in {m, n} /\ \A y \in {m, n} : x >= y
  OBVIOUS
<1>2. \A z \in {m, n} : (\A y \in {m, n} : z >= y) => z = x
  OBVIOUS
<1> HIDE DEF x
<1>3. Max({m, n}) = x
  BY <1>1, <1>2 DEF Max
<1> QED BY <1>3 DEF x

\* How many of the places I there are up to i.
Rank(i, I) == Cardinality({j \in I : j <= i})

LEMMA RankIs ==
  ASSUME NEW N \in Nat, NEW I \in SUBSET (1..N)
  PROVE  /\ IsFiniteSet(I)
         /\ \A i \in I : Rank(i, I) \in 1..Cardinality(I)
         /\ \A i, k \in I : Rank(i, I) = Rank(k, I) => i = k
         /\ \A n \in 1..Cardinality(I) : \E i \in I : Rank(i, I) = n
<1> DEFINE Upto(i) == {j \in I : j <= i}
           c == Cardinality(I)
           rank == [i \in I |-> Rank(i, I)]
<1>1. IsFiniteSet(1..N) /\ IsFiniteSet(I) /\ c \in Nat
  <2>1. IsFiniteSet(1..N)
    BY FS_Interval
  <2>2. IsFiniteSet(I)
    BY <2>1, FS_Subset
  <2> QED BY <2>1, <2>2, FS_CardinalityType
<1>2. ASSUME NEW i \in I
      PROVE  Upto(i) \in SUBSET I /\ IsFiniteSet(Upto(i)) /\ Rank(i, I) = Cardinality(Upto(i))
             /\ Cardinality(Upto(i)) \in Nat /\ Cardinality(Upto(i)) <= c
             /\ Cardinality(Upto(i)) # 0
  <2>1. Upto(i) \in SUBSET I /\ i \in Upto(i)
    OBVIOUS
  <2>2. IsFiniteSet(Upto(i)) /\ Cardinality(Upto(i)) <= c
    BY <2>1, <1>1, FS_Subset
  <2>3. Cardinality(Upto(i)) \in Nat
    BY <2>2, FS_CardinalityType
  <2>4. Cardinality(Upto(i)) # 0
    BY <2>1, <2>2, FS_EmptySet
  <2> QED BY <2>1, <2>2, <2>3, <2>4 DEF Rank
<1>3. \A i \in I : Rank(i, I) \in 1..c
  <2> SUFFICES ASSUME NEW i \in I PROVE Rank(i, I) \in 1..c
    OBVIOUS
  <2> DEFINE u == Cardinality(Upto(i))
  <2>1. u \in Nat /\ u <= c /\ u # 0 /\ Rank(i, I) = u
    BY <1>2
  <2> HIDE DEF u, c
  <2> QED BY <2>1, <1>1
<1>4. ASSUME NEW i \in I, NEW k \in I, i < k PROVE Rank(i, I) # Rank(k, I)
  <2>1. Upto(i) \in SUBSET Upto(k)
    <3>1. i \in Int /\ k \in Int /\ \A j \in I : j \in Int
      OBVIOUS
    <3>2. \A j \in I : j <= i => j <= k
      BY <3>1, <1>4
    <3> QED BY <3>2
  <2>2. k \in Upto(k) /\ k \notin Upto(i)
    BY <1>4
  <2>3. IsFiniteSet(Upto(k))
    BY <1>2
  <2>4. Cardinality(Upto(k)) = Cardinality(Upto(i)) => Upto(k) = Upto(i)
    BY <2>1, <2>3, FS_Subset
  <2> HIDE DEF Upto
  <2> QED BY <2>2, <2>4, <1>2
<1>5. \A i, k \in I : Rank(i, I) = Rank(k, I) => i = k
  <2> SUFFICES ASSUME NEW i \in I, NEW k \in I, Rank(i, I) = Rank(k, I), i # k PROVE FALSE
    OBVIOUS
  <2>1. i < k \/ k < i
    OBVIOUS
  <2> QED BY <2>1, <1>4
<1>6. rank \in Injection(I, 1..c)
  <2>1. rank \in [I -> 1..c]
    BY <1>3
  <2> QED BY <2>1, <1>5 DEF Injection, IsInjective
<1>7. IsFiniteSet(1..c) /\ Cardinality(1..c) = c
  BY <1>1, FS_Interval
<1>8. rank \in Surjection(I, 1..c)
  <2> HIDE DEF rank
  <2> QED BY <1>6, <1>7, FS_Injection
<1>9. \A n \in 1..c : \E i \in I : rank[i] = n
  <2> HIDE DEF rank
  <2> QED BY <1>8 DEF Surjection
<1> QED BY <1>1, <1>3, <1>5, <1>9

\* What is kept of a sequence is what stands at the places, each once.
LEMMA KeptIs ==
  ASSUME NEW S, NEW s \in Seq(S), NEW I \in SUBSET (1..Len(s))
  PROVE  /\ Kept(s, I) \in Seq(S) /\ DOMAIN Kept(s, I) = 1..Len(Kept(s, I))
         /\ \A n \in 1..Len(Kept(s, I)) : \E i \in I : Kept(s, I)[n] = s[i] /\ Rank(i, I) = n
         /\ \A i \in I : \E n \in 1..Len(Kept(s, I)) : Kept(s, I)[n] = s[i] /\ Rank(i, I) = n
<1> DEFINE c == Cardinality(I)
           nth(n) == CHOOSE i \in I : Rank(i, I) = n
<1>1. /\ Len(s) \in Nat /\ IsFiniteSet(I) /\ c \in Nat
      /\ \A i \in I : Rank(i, I) \in 1..c
      /\ \A i, k \in I : Rank(i, I) = Rank(k, I) => i = k
      /\ \A n \in 1..c : \E i \in I : Rank(i, I) = n
  <2>1. Len(s) \in Nat
    OBVIOUS
  <2>2. IsFiniteSet(I) /\ \A i \in I : Rank(i, I) \in 1..c
    BY <2>1, RankIs
  <2>3. \A i, k \in I : Rank(i, I) = Rank(k, I) => i = k
    BY <2>1, RankIs
  <2>4. \A n \in 1..c : \E i \in I : Rank(i, I) = n
    BY <2>1, RankIs
  <2> QED BY <2>1, <2>2, <2>3, <2>4, FS_CardinalityType
<1>2. Kept(s, I) = [n \in 1..c |-> s[nth(n)]]
  BY DEF Kept, Rank
<1>3. \A n \in 1..c : nth(n) \in I /\ Rank(nth(n), I) = n
  BY <1>1
<1> HIDE DEF nth, c
<1>4. \A i \in I : s[i] \in S
  OBVIOUS
<1>5. Kept(s, I) \in Seq(S) /\ Len(Kept(s, I)) = c /\ DOMAIN Kept(s, I) = 1..c
  <2> DEFINE f == [n \in 1..c |-> s[nth(n)]]
  <2>1. \A n \in 1..c : s[nth(n)] \in S
    BY <1>3, <1>4
  <2>2. f \in [1..c -> S]
    BY <2>1
  <2> HIDE DEF f
  <2>3. f \in Seq(S) /\ Len(f) = c /\ DOMAIN f = 1..c
    BY <2>2, <1>1
  <2> QED BY <2>3, <1>2 DEF f
<1>6. \A n \in 1..c : Kept(s, I)[n] = s[nth(n)]
  BY <1>2
<1>7. ASSUME NEW i \in I PROVE \E n \in 1..c : Kept(s, I)[n] = s[i] /\ Rank(i, I) = n
  <2>1. Rank(i, I) \in 1..c /\ nth(Rank(i, I)) = i
    BY <1>1, <1>3
  <2> QED BY <2>1, <1>6
<1> QED BY <1>3, <1>5, <1>6, <1>7

-----------------------------------------------------------------------------
(* The tracked state of a game, and what each operation on it keeps. *)

Asked == [episode : Episodes, seat : Seats, day : Dates]
Plans == [for : Asked, key : [episode : Episodes, day : Dates, row : Nat]]
Planned == [day : Dates, plan : Plans]
Indexed == [seat : Seats, day : Dates, row : Nat]

EpisodeState ==
  [step : Nat, hires : [Seats -> Nat], done : BOOLEAN, truncated : BOOLEAN,
   finalized : BOOLEAN, last_seen_day : [Seats -> Int],
   daily_start : [Seats -> Int \cup {None}], previous_execution : [Seats -> Nat],
   hires_current_day : [Seats -> Nat], planned_days : [Seats -> SUBSET Dates],
   transition_index : SUBSET Indexed, day_hashers : [Dates -> Seq(Nat)],
   day_digests : [Dates -> Seq(Nat)], queued : [Seats -> SUBSET Planned],
   consumed : [Seats -> SUBSET Planned], agent_day : [Seats -> Int \cup {None}],
   diverged : [Seats -> BOOLEAN]]

SamePlay(a, b) == a.step = b.step /\ a.hires = b.hires /\ a.done = b.done
SameEnd(a, b) == a.truncated = b.truncated /\ a.finalized = b.finalized
SameLabor(a, b) ==
  /\ a.last_seen_day = b.last_seen_day
  /\ a.hires_current_day = b.hires_current_day
  /\ a.previous_execution = b.previous_execution
SameDecisions(a, b) ==
  /\ a.planned_days = b.planned_days /\ a.transition_index = b.transition_index
  /\ a.queued = b.queued /\ a.consumed = b.consumed
SameAgents(a, b) == a.agent_day = b.agent_day /\ a.diverged = b.diverged
SameDigests(a, b) == a.day_hashers = b.day_hashers /\ a.day_digests = b.day_digests

LEMMA SealDayIs ==
  ASSUME NEW st \in EpisodeState, NEW d \in Dates
  PROVE  LET r == SealDay(st, d)
         IN  /\ r \in EpisodeState
             /\ SamePlay(r, st) /\ SameEnd(r, st) /\ SameLabor(r, st) /\ SameDecisions(r, st)
             /\ SameAgents(r, st)
             /\ r.day_hashers = [st.day_hashers EXCEPT ![d] = <<>>]
             /\ r.day_digests = IF st.day_hashers[d] = <<>> THEN st.day_digests
                                ELSE [st.day_digests EXCEPT ![d] = st.day_hashers[d]]
<1> DEFINE h == [st.day_hashers EXCEPT ![d] = <<>>]
           g == [st.day_digests EXCEPT ![d] = st.day_hashers[d]]
           r == [st EXCEPT !.day_digests = g, !.day_hashers = h]
<1>1. st.day_hashers \in [Dates -> Seq(Nat)] /\ st.day_digests \in [Dates -> Seq(Nat)]
  BY DEF EpisodeState
<1>2. h \in [Dates -> Seq(Nat)] /\ g \in [Dates -> Seq(Nat)]
  BY <1>1
<1>3. st.day_hashers[d] = <<>> => h = st.day_hashers
  BY <1>1
<1>4. SealDay(st, d) = IF st.day_hashers[d] = <<>> THEN st ELSE r
  BY DEF SealDay
<1> HIDE DEF h, g
<1>5. /\ r \in EpisodeState
      /\ SamePlay(r, st) /\ SameEnd(r, st) /\ SameLabor(r, st) /\ SameDecisions(r, st)
      /\ SameAgents(r, st)
      /\ r.day_hashers = h /\ r.day_digests = g
  BY <1>2 DEF EpisodeState, SamePlay, SameEnd, SameLabor, SameDecisions, SameAgents
<1>6. /\ SamePlay(st, st) /\ SameEnd(st, st) /\ SameLabor(st, st) /\ SameDecisions(st, st)
      /\ SameAgents(st, st)
  BY DEF SamePlay, SameEnd, SameLabor, SameDecisions, SameAgents
<1> HIDE DEF r
<1>7. CASE st.day_hashers[d] = <<>>
  BY <1>3, <1>4, <1>6, <1>7 DEF h
<1>8. CASE st.day_hashers[d] # <<>>
  BY <1>4, <1>5, <1>8 DEF h, g
<1> QED BY <1>7, <1>8

\* An episode's day is one of the calendar.
LEMMA DayIs ==
  ASSUME NEW st \in EpisodeState, st.step <= Days * Hours - 1
  PROVE  /\ Day(st) \in Dates /\ Hour(st) \in 0..(Hours - 1)
         /\ st.step = Days * Hours - 1 => Day(st) = Days - 1 /\ Hour(st) = Hours - 1
<1>1. st.step \in Nat
  BY DEF EpisodeState
<1> QED BY <1>1, Clocked, LastStep DEF Day, Hour

LEMMA NoteDayStartIs ==
  ASSUME NEW st \in EpisodeState, NEW s \in Seats, st.step <= Days * Hours - 1,
         st.last_seen_day[s] >= -1, st.last_seen_day[s] <= Day(st)
  PROVE  LET r == NoteDayStart(st, s)
             seen == st.last_seen_day[s]
             rolled == 0 <= seen /\ seen < Day(st)
         IN  /\ r \in EpisodeState
             /\ SamePlay(r, st) /\ SameEnd(r, st) /\ SameDecisions(r, st) /\ SameAgents(r, st)
             /\ r.last_seen_day = [st.last_seen_day EXCEPT ![s] = Day(st)]
             /\ r.hires_current_day = IF seen < Day(st)
                                      THEN [st.hires_current_day EXCEPT ![s] = st.hires[s]]
                                      ELSE st.hires_current_day
             /\ r.previous_execution = IF rolled
                                       THEN [st.previous_execution EXCEPT
                                               ![s] = st.hires_current_day[s]]
                                       ELSE st.previous_execution
             /\ r.day_hashers = IF rolled THEN [st.day_hashers EXCEPT ![seen] = <<>>]
                                ELSE st.day_hashers
             /\ r.day_digests = IF rolled /\ st.day_hashers[seen] # <<>>
                                THEN [st.day_digests EXCEPT ![seen] = st.day_hashers[seen]]
                                ELSE st.day_digests
<1> DEFINE seen == st.last_seen_day[s]
           PE == [st.previous_execution EXCEPT ![s] = st.hires_current_day[s]]
           LS == [st.last_seen_day EXCEPT ![s] = Day(st)]
           HC == [st.hires_current_day EXCEPT ![s] = st.hires[s]]
           DH == [st.day_hashers EXCEPT ![seen] = <<>>]
           DD == [st.day_digests EXCEPT ![seen] = st.day_hashers[seen]]
           before == [st EXCEPT !.previous_execution[s] = st.hires_current_day[s]]
           closed == IF seen < 0 THEN st ELSE SealDay(before, seen)
           r == [closed EXCEPT !.last_seen_day[s] = Day(st), !.hires_current_day[s] = st.hires[s],
                               !.daily_start[s] = Day(st)]
<1>1. Day(st) \in Dates /\ Day(st) \in Nat /\ seen \in Int /\ Days \in Nat /\ Dates = 0..(Days - 1)
  <2>1. Day(st) \in Dates
    BY DayIs
  <2>2. seen \in Int
    BY DEF EpisodeState
  <2> HIDE DEF seen
  <2> QED BY <2>1, <2>2, Calendar DEF Dates
<1>2. before \in EpisodeState /\ SamePlay(before, st) /\ SameEnd(before, st)
      /\ SameDecisions(before, st) /\ SameAgents(before, st) /\ SameDigests(before, st)
      /\ before.last_seen_day = st.last_seen_day
      /\ before.hires_current_day = st.hires_current_day
      /\ before.previous_execution = PE
  <2> DEFINE p == PE
  <2>1. p \in [Seats -> Nat]
    BY DEF EpisodeState
  <2>2. before = [st EXCEPT !.previous_execution = p]
    BY DEF EpisodeState
  <2> HIDE DEF p, before
  <2>3. before \in EpisodeState /\ SamePlay(before, st) /\ SameEnd(before, st)
      /\ SameDecisions(before, st) /\ SameAgents(before, st) /\ SameDigests(before, st)
      /\ before.last_seen_day = st.last_seen_day
      /\ before.hires_current_day = st.hires_current_day
      /\ before.previous_execution = p
    BY <2>1, <2>2 DEF EpisodeState, SamePlay, SameEnd, SameDecisions, SameAgents, SameDigests
  <2> QED BY <2>3 DEF p
<1> HIDE DEF before
<1>3. /\ closed \in EpisodeState /\ SamePlay(closed, st) /\ SameEnd(closed, st)
      /\ SameDecisions(closed, st) /\ SameAgents(closed, st)
      /\ closed.last_seen_day = st.last_seen_day
      /\ closed.hires_current_day = st.hires_current_day
      /\ closed.previous_execution = IF seen < 0 THEN st.previous_execution
                    ELSE PE
      /\ seen < Day(st) =>
           /\ closed.day_hashers = IF seen < 0 THEN st.day_hashers
                                   ELSE DH
           /\ closed.day_digests = IF seen < 0 \/ st.day_hashers[seen] = <<>> THEN st.day_digests
                                   ELSE DD
  <2>1. CASE seen < 0
    BY <2>1 DEF SamePlay, SameEnd, SameDecisions, SameAgents
  <2>2. CASE ~(seen < 0)
    <3>1. seen \in Dates
      BY <2>2, <1>1
    <3> DEFINE q == SealDay(before, seen)
    <3>2. /\ q \in EpisodeState
          /\ SamePlay(q, before) /\ SameEnd(q, before) /\ SameLabor(q, before)
          /\ SameDecisions(q, before) /\ SameAgents(q, before)
          /\ q.day_hashers = [before.day_hashers EXCEPT ![seen] = <<>>]
          /\ q.day_digests = IF before.day_hashers[seen] = <<>> THEN before.day_digests
                             ELSE [before.day_digests EXCEPT ![seen] = before.day_hashers[seen]]
      BY <3>1, <1>2, SealDayIs
    <3>3. closed = q
      BY <2>2
    <3> HIDE DEF q, closed
    <3>4. /\ q.previous_execution = PE
          /\ q.last_seen_day = st.last_seen_day /\ q.hires_current_day = st.hires_current_day
      BY <3>2, <1>2 DEF SameLabor
    <3>5. /\ q.day_hashers = DH
          /\ q.day_digests = IF st.day_hashers[seen] = <<>> THEN st.day_digests
                             ELSE DD
      BY <3>2, <1>2 DEF SameDigests
    <3>6. SamePlay(q, st) /\ SameEnd(q, st) /\ SameDecisions(q, st) /\ SameAgents(q, st)
      BY <3>2, <1>2 DEF SamePlay, SameEnd, SameDecisions, SameAgents
    <3> HIDE DEF seen, PE, DH, DD
    <3> QED BY <3>2, <3>3, <3>4, <3>5, <3>6, <2>2
  <2> QED BY <2>1, <2>2
<1>4. NoteDayStart(st, s) = IF Day(st) <= seen THEN st ELSE r
  BY DEF NoteDayStart, before
<1> HIDE DEF closed
<1>5. r \in EpisodeState /\ SamePlay(r, closed) /\ SameEnd(r, closed)
      /\ SameDecisions(r, closed) /\ SameAgents(r, closed) /\ SameDigests(r, closed)
      /\ r.last_seen_day = [closed.last_seen_day EXCEPT ![s] = Day(st)]
      /\ r.hires_current_day = [closed.hires_current_day EXCEPT ![s] = st.hires[s]]
      /\ r.previous_execution = closed.previous_execution
  <2> DEFINE l == [closed.last_seen_day EXCEPT ![s] = Day(st)]
             h == [closed.hires_current_day EXCEPT ![s] = st.hires[s]]
             w == [closed.daily_start EXCEPT ![s] = Day(st)]
  <2>1. Day(st) \in Int /\ st.hires[s] \in Nat
    BY <1>1 DEF EpisodeState
  <2>2. /\ closed.last_seen_day \in [Seats -> Int] /\ closed.hires_current_day \in [Seats -> Nat]
        /\ closed.daily_start \in [Seats -> Int \cup {None}]
    BY <1>3 DEF EpisodeState
  <2>3. l \in [Seats -> Int] /\ h \in [Seats -> Nat] /\ w \in [Seats -> Int \cup {None}]
    BY <2>1, <2>2
  <2>4. r = [closed EXCEPT !.last_seen_day = l, !.hires_current_day = h, !.daily_start = w]
    BY <1>3 DEF EpisodeState
  <2> HIDE DEF l, h, w, r
  <2>5. r \in EpisodeState /\ SamePlay(r, closed) /\ SameEnd(r, closed)
      /\ SameDecisions(r, closed) /\ SameAgents(r, closed) /\ SameDigests(r, closed)
      /\ r.last_seen_day = l /\ r.hires_current_day = h
      /\ r.previous_execution = closed.previous_execution
    BY <2>3, <2>4, <1>3
       DEF EpisodeState, SamePlay, SameEnd, SameDecisions, SameAgents, SameDigests
  <2> QED BY <2>5 DEF l, h
<1> HIDE DEF r
<1>6. CASE seen < Day(st)
  <2>1. NoteDayStart(st, s) = r
    BY <1>1, <1>4, <1>6
  <2>2. /\ SamePlay(r, st) /\ SameEnd(r, st) /\ SameDecisions(r, st) /\ SameAgents(r, st)
    BY <1>3, <1>5 DEF SamePlay, SameEnd, SameDecisions, SameAgents
  <2>3. seen < 0 <=> ~(0 <= seen)
    BY <1>1
  <2>4. /\ r.last_seen_day = LS
        /\ r.hires_current_day = HC
        /\ r.previous_execution = IF seen < 0 THEN st.previous_execution
                    ELSE PE
        /\ r.day_hashers = IF seen < 0 THEN st.day_hashers
                           ELSE DH
        /\ r.day_digests = IF seen < 0 \/ st.day_hashers[seen] = <<>> THEN st.day_digests
                           ELSE DD
    <3> HIDE DEF seen, PE, DH, DD
    <3>1. r.last_seen_day = LS /\ r.hires_current_day = HC
      BY <1>3, <1>5
    <3> QED BY <1>3, <1>5, <1>6, <3>1 DEF SameDigests
  <2> HIDE DEF PE, DH, DD, LS, HC
  <2>5. CASE seen < 0
    BY <1>5, <1>6, <2>1, <2>2, <2>3, <2>4, <2>5 DEF seen, PE, DH, DD, LS, HC
  <2>6. CASE ~(seen < 0)
    BY <1>5, <1>6, <2>1, <2>2, <2>3, <2>4, <2>6 DEF seen, PE, DH, DD, LS, HC
  <2> QED BY <2>5, <2>6
<1>7. CASE ~(seen < Day(st))
  <2>1. NoteDayStart(st, s) = st
    BY <1>1, <1>4, <1>7
  <2>2. st.last_seen_day = LS
    <3>1. seen = Day(st) /\ st.last_seen_day \in [Seats -> Int]
      BY <1>1, <1>7 DEF EpisodeState
    <3> QED BY <3>1
  <2>3. SamePlay(st, st) /\ SameEnd(st, st) /\ SameDecisions(st, st) /\ SameAgents(st, st)
    BY DEF SamePlay, SameEnd, SameDecisions, SameAgents
  <2> QED BY <1>7, <2>1, <2>2, <2>3
<1> QED BY <1>6, <1>7

\* The turns that go into a digest, in their order.
SoFar(n) == [h \in 1..n |-> h - 1]

\* What was seen of the labor, and what went into the digests, n turns into the day.
Begun(st) == \A s \in Seats : st.last_seen_day[s] = Day(st)
LaborSeen(st) == \A s \in Seats : st.hires_current_day[s] = st.hires[s]
Digested(st, n) ==
  \A d \in Dates :
    /\ st.day_hashers[d] = IF d = Day(st) THEN SoFar(n) ELSE <<>>
    /\ st.day_digests[d] = IF d < Day(st) THEN SoFar(Hours) ELSE <<>>

LEMMA SoFarIs ==
  ASSUME NEW n \in Nat
  PROVE  /\ SoFar(n) \in Seq(Nat)
         /\ SoFar(n) = <<>> <=> n = 0
         /\ Append(SoFar(n), n) = SoFar(n + 1)
<1>1. SoFar(n) \in [1..n -> Nat] /\ SoFar(n + 1) \in [1..(n + 1) -> Nat]
  BY DEF SoFar
<1>2. SoFar(n) \in Seq(Nat) /\ Len(SoFar(n)) = n /\ SoFar(n + 1) \in Seq(Nat)
      /\ Len(SoFar(n + 1)) = n + 1
  BY <1>1
<1>3. SoFar(n) = <<>> <=> n = 0
  BY <1>2
<1>4. Append(SoFar(n), n) = SoFar(n + 1)
  <2>1. Append(SoFar(n), n) \in Seq(Nat) /\ Len(Append(SoFar(n), n)) = n + 1
    BY <1>2
  <2>2. \A i \in 1..(n + 1) : Append(SoFar(n), n)[i] = SoFar(n + 1)[i]
    <3> TAKE i \in 1..(n + 1)
    <3>1. CASE i = n + 1
      BY <3>1, <1>2 DEF SoFar
    <3>2. CASE i \in 1..n
      BY <3>2, <1>2 DEF SoFar
    <3>3. i = n + 1 \/ i \in 1..n
      OBVIOUS
    <3> QED BY <3>1, <3>2, <3>3
  <2> QED BY <2>1, <2>2, <1>2
<1> QED BY <1>2, <1>3, <1>4

LEMMA SteppedIs ==
  ASSUME NEW st \in EpisodeState, NEW hiring
  PROVE  LET r == Stepped(st, hiring)
         IN  /\ r \in EpisodeState /\ r.step = st.step + 1
             /\ r.done <=> st.step + 2 >= Days * Hours
             /\ SameEnd(r, st) /\ SameLabor(r, st) /\ SameDecisions(r, st)
             /\ SameAgents(r, st) /\ SameDigests(r, st)
             /\ \A s \in Seats : IF (st.step + 1) % Hours = 0 THEN r.hires[s] = 0
                                 ELSE r.hires[s] >= st.hires[s]
<1> DEFINE same == (st.step + 1) % Hours # 0
           h == [s \in Seats |-> (IF same THEN st.hires[s] ELSE 0)
                                   + (IF same /\ s \in hiring THEN 1 ELSE 0)]
           over == (st.step + 1) + 1 >= Days * Hours
           r == [st EXCEPT !.step = st.step + 1, !.hires = h, !.done = over]
<1>1. st.step \in Nat /\ st.hires \in [Seats -> Nat] /\ Days * Hours \in Nat
  BY Calendar DEF EpisodeState
<1>2. Stepped(st, hiring) = r
  <2>1. h = [s \in Seats |-> (IF same THEN st.hires[s] ELSE 0)
                               + (IF same /\ s \in hiring THEN 1 ELSE 0)]
    OBVIOUS
  <2> QED BY DEF Stepped, EpisodeState
<1>3. /\ h \in [Seats -> Nat]
      /\ \A s \in Seats : IF same THEN h[s] >= st.hires[s] ELSE h[s] = 0
  BY <1>1
<1>4. over \in BOOLEAN /\ (over <=> st.step + 2 >= Days * Hours)
  BY <1>1
<1> HIDE DEF h, over
<1>5. r \in EpisodeState /\ r.step = st.step + 1 /\ r.hires = h /\ r.done = over
      /\ SameEnd(r, st) /\ SameLabor(r, st) /\ SameDecisions(r, st)
      /\ SameAgents(r, st) /\ SameDigests(r, st)
  <2>1. r \in EpisodeState
    <3> DEFINE n == st.step + 1
    <3>1. n \in Nat
      BY <1>1
    <3>2. h \in [Seats -> Nat] /\ over \in BOOLEAN
      BY <1>3, <1>4
    <3>3. r = [st EXCEPT !.step = n, !.hires = h, !.done = over]
      OBVIOUS
    <3> HIDE DEF n, r
    <3> QED BY <3>1, <3>2, <3>3 DEF EpisodeState
  <2>2. r.step = st.step + 1 /\ r.hires = h /\ r.done = over
    BY DEF EpisodeState
  <2>3. SameEnd(r, st) /\ SameLabor(r, st) /\ SameDecisions(r, st)
        /\ SameAgents(r, st) /\ SameDigests(r, st)
    BY DEF EpisodeState, SameEnd, SameLabor, SameDecisions, SameAgents, SameDigests
  <2> QED BY <2>1, <2>2, <2>3
<1> HIDE DEF r
<1> QED BY <1>2, <1>3, <1>4, <1>5

LEMMA TrackedIs ==
  ASSUME NEW st \in EpisodeState, NEW s \in Seats, st.step <= Days * Hours - 1,
         st.last_seen_day[s] >= -1, st.last_seen_day[s] <= Day(st)
  PROVE  LET r == Tracked(st, s)
             seen == st.last_seen_day[s]
             most == IF st.hires_current_day[s] <= st.hires[s] THEN st.hires[s]
                     ELSE st.hires_current_day[s]
             rolled == 0 <= seen /\ seen < Day(st)
         IN  /\ r \in EpisodeState
             /\ SamePlay(r, st) /\ SameEnd(r, st) /\ SameDecisions(r, st) /\ SameAgents(r, st)
             /\ r.last_seen_day = [st.last_seen_day EXCEPT ![s] = Day(st)]
             /\ r.hires_current_day = [st.hires_current_day EXCEPT
                                         ![s] = IF seen < Day(st) THEN st.hires[s] ELSE most]
             /\ r.previous_execution = IF rolled
                                       THEN [st.previous_execution EXCEPT ![s] = most]
                                       ELSE st.previous_execution
             /\ r.day_hashers = IF rolled THEN [st.day_hashers EXCEPT ![seen] = <<>>]
                                ELSE st.day_hashers
             /\ r.day_digests = IF rolled /\ st.day_hashers[seen] # <<>>
                                THEN [st.day_digests EXCEPT ![seen] = st.day_hashers[seen]]
                                ELSE st.day_digests
<1> DEFINE most == IF st.hires_current_day[s] <= st.hires[s] THEN st.hires[s]
                   ELSE st.hires_current_day[s]
           c == [st.hires_current_day EXCEPT ![s] = most]
           mid == [st EXCEPT !.hires_current_day = c]
           r == NoteDayStart(mid, s)
           seen == st.last_seen_day[s]
           rolled == 0 <= seen /\ seen < Day(st)
<1>1. /\ st.hires_current_day \in [Seats -> Nat] /\ st.hires \in [Seats -> Nat]
      /\ st.hires_current_day[s] \in Nat /\ st.hires[s] \in Nat
  BY DEF EpisodeState
<1>2. Max({st.hires_current_day[s], st.hires[s]}) = most /\ most \in Nat
  BY <1>1, MaxOfTwo
<1>3. Tracked(st, s) = r
  BY <1>2 DEF Tracked, EpisodeState
<1>4. /\ c \in [Seats -> Nat] /\ c[s] = most /\ [c EXCEPT ![s] = st.hires[s]] =
            [st.hires_current_day EXCEPT ![s] = st.hires[s]]
  BY <1>1, <1>2
<1> HIDE DEF c, most
<1>5. /\ mid \in EpisodeState /\ SamePlay(mid, st) /\ SameEnd(mid, st)
      /\ SameDecisions(mid, st) /\ SameAgents(mid, st) /\ SameDigests(mid, st)
      /\ mid.hires_current_day = c /\ mid.last_seen_day = st.last_seen_day
      /\ mid.previous_execution = st.previous_execution
  BY <1>4 DEF EpisodeState, SamePlay, SameEnd, SameDecisions, SameAgents, SameDigests
<1>6. Day(mid) = Day(st) /\ mid.step = st.step /\ mid.hires = st.hires
  BY <1>5 DEF SamePlay, Day
<1> HIDE DEF mid, r
<1>7. /\ r \in EpisodeState
      /\ SamePlay(r, mid) /\ SameEnd(r, mid) /\ SameDecisions(r, mid) /\ SameAgents(r, mid)
      /\ r.last_seen_day = [st.last_seen_day EXCEPT ![s] = Day(st)]
      /\ r.hires_current_day = IF seen < Day(st) THEN [c EXCEPT ![s] = st.hires[s]] ELSE c
      /\ r.previous_execution = IF rolled THEN [st.previous_execution EXCEPT ![s] = most]
                                ELSE st.previous_execution
      /\ r.day_hashers = IF rolled THEN [st.day_hashers EXCEPT ![seen] = <<>>]
                         ELSE st.day_hashers
      /\ r.day_digests = IF rolled /\ st.day_hashers[seen] # <<>>
                         THEN [st.day_digests EXCEPT ![seen] = st.day_hashers[seen]]
                         ELSE st.day_digests
  <2>1. /\ mid.last_seen_day[s] >= -1 /\ mid.last_seen_day[s] <= Day(mid)
        /\ mid.step <= Days * Hours - 1
    BY <1>5, <1>6
  <2>2. r = NoteDayStart(mid, s)
    BY DEF r
  <2> USE <1>4, <1>5, <1>6, <2>1, <2>2, NoteDayStartIs DEF SameDigests
  <2>3. r \in EpisodeState
        /\ SamePlay(r, mid) /\ SameEnd(r, mid) /\ SameDecisions(r, mid) /\ SameAgents(r, mid)
    OBVIOUS
  <2>4. r.last_seen_day = [st.last_seen_day EXCEPT ![s] = Day(st)]
    <3>1. r.last_seen_day = [mid.last_seen_day EXCEPT ![s] = Day(mid)]
      OBVIOUS
    <3> QED BY ONLY <3>1, <1>5, <1>6
  <2>5. r.hires_current_day = IF seen < Day(st) THEN [c EXCEPT ![s] = st.hires[s]] ELSE c
    OBVIOUS
  <2>6. r.previous_execution = IF rolled THEN [st.previous_execution EXCEPT ![s] = most]
                                ELSE st.previous_execution
    OBVIOUS
  <2>7. r.day_hashers = IF rolled THEN [st.day_hashers EXCEPT ![seen] = <<>>]
                         ELSE st.day_hashers
    OBVIOUS
  <2>8. r.day_digests = IF rolled /\ st.day_hashers[seen] # <<>>
                         THEN [st.day_digests EXCEPT ![seen] = st.day_hashers[seen]]
                         ELSE st.day_digests
    <3>1. r.day_digests = IF 0 <= mid.last_seen_day[s] /\ mid.last_seen_day[s] < Day(mid)
                             /\ mid.day_hashers[mid.last_seen_day[s]] # <<>>
                          THEN [mid.day_digests EXCEPT ![mid.last_seen_day[s]] =
                                  mid.day_hashers[mid.last_seen_day[s]]]
                          ELSE mid.day_digests
      OBVIOUS
    <3>2. /\ mid.last_seen_day = st.last_seen_day /\ mid.day_hashers = st.day_hashers
          /\ mid.day_digests = st.day_digests /\ Day(mid) = Day(st)
      BY <1>5, <1>6 DEF SameDigests
    <3> QED BY ONLY <3>1, <3>2
  <2> QED BY <2>3, <2>4, <2>5, <2>6, <2>7, <2>8
<1>8. SamePlay(r, st) /\ SameEnd(r, st) /\ SameDecisions(r, st) /\ SameAgents(r, st)
  BY <1>5, <1>7 DEF SamePlay, SameEnd, SameDecisions, SameAgents
<1>9. r.hires_current_day = [st.hires_current_day EXCEPT
                               ![s] = IF seen < Day(st) THEN st.hires[s] ELSE most]
  <2>1. CASE seen < Day(st)
    BY <2>1, <1>4, <1>7
  <2>2. CASE ~(seen < Day(st))
    BY <2>2, <1>7 DEF c
  <2> QED BY <2>1, <2>2
<1> QED BY <1>3, <1>7, <1>8, <1>9 DEF most

\* One turn of a game: the labor seen is the engine's, the day before is sealed when a new
\* one begins, and then the labor of that day is what the engine last showed.
LEMMA TurnTracked ==
  ASSUME NEW st \in EpisodeState, NEW hiring, st.step + 1 <= Days * Hours - 1,
         Begun(st), LaborSeen(st), Digested(st, Hour(st) + 1)
  PROVE  LET r == TrackPostStep(Stepped(st, hiring))
         IN  /\ r \in EpisodeState /\ r.step = st.step + 1
             /\ r.done <=> st.step + 2 >= Days * Hours
             /\ SameEnd(r, st) /\ SameDecisions(r, st) /\ SameAgents(r, st)
             /\ Begun(r) /\ LaborSeen(r) /\ Digested(r, Hour(r))
             /\ Day(r) = (IF Hour(st) = Hours - 1 THEN Day(st) + 1 ELSE Day(st))
             /\ Hour(r) = (IF Hour(st) = Hours - 1 THEN 0 ELSE Hour(st) + 1)
             /\ Day(r) # Day(st) =>
                  \A s \in Seats : r.previous_execution[s] = st.hires[s]
<1> DEFINE a == Stepped(st, hiring)
           b == Tracked(a, 0)
           r == Tracked(b, 1)
           new == Hour(st) = Hours - 1
<1>1. TrackPostStep(Stepped(st, hiring)) = r
  BY DEF TrackPostStep
<1>2. /\ a \in EpisodeState /\ a.step = st.step + 1
      /\ a.done <=> st.step + 2 >= Days * Hours
      /\ SameEnd(a, st) /\ SameLabor(a, st) /\ SameDecisions(a, st)
      /\ SameAgents(a, st) /\ SameDigests(a, st)
      /\ \A s \in Seats : IF (st.step + 1) % Hours = 0 THEN a.hires[s] = 0
                          ELSE a.hires[s] >= st.hires[s]
  BY SteppedIs
<1>3. /\ st.step \in Nat /\ Hours \in Nat /\ Hours >= 2 /\ Days * Hours \in Nat
      /\ \A s \in Seats : a.hires[s] \in Nat /\ st.hires[s] \in Nat
                          /\ a.hires_current_day[s] = st.hires[s]
                          /\ a.last_seen_day[s] = Day(st)
      /\ a.last_seen_day \in [Seats -> Int] /\ a.hires_current_day \in [Seats -> Nat]
      /\ a.previous_execution \in [Seats -> Nat]
      /\ a.day_hashers \in [Dates -> Seq(Nat)] /\ a.day_digests \in [Dates -> Seq(Nat)]
      /\ a.day_hashers = st.day_hashers /\ a.day_digests = st.day_digests
  BY <1>2, Calendar DEF EpisodeState, SameLabor, SameDigests, Begun, LaborSeen
<1> HIDE DEF a
<1>4. /\ Day(st) \in Nat /\ Hour(st) \in 0..(Hours - 1)
      /\ Day(a) = (IF new THEN Day(st) + 1 ELSE Day(st))
      /\ Hour(a) = (IF new THEN 0 ELSE Hour(st) + 1)
      /\ (st.step + 1) % Hours = Hour(a)
  BY <1>2, <1>3, Clocked, NextHour DEF Day, Hour
<1>5. Day(st) \in Dates /\ Day(a) \in Dates
  <2>1. st.step <= Days * Hours - 1 /\ a.step <= Days * Hours - 1
    BY <1>2, <1>3
  <2> QED BY <2>1, <1>2, DayIs
<1>6. \A s \in Seats : IF new THEN a.hires[s] = 0 ELSE a.hires[s] >= st.hires[s]
  BY <1>2, <1>3, <1>4
<1>7. 0 \in Seats /\ 1 \in Seats /\ Seats = {0, 1}
  BY DEF Seats
<1> DEFINE sealed == [a.day_hashers EXCEPT ![Day(st)] = <<>>]
           noted == [a.day_digests EXCEPT ![Day(st)] = a.day_hashers[Day(st)]]
<1>8. /\ b \in EpisodeState
      /\ SamePlay(b, a) /\ SameEnd(b, a) /\ SameDecisions(b, a) /\ SameAgents(b, a)
      /\ b.last_seen_day = [a.last_seen_day EXCEPT ![0] = Day(a)]
      /\ b.hires_current_day = [a.hires_current_day EXCEPT ![0] = a.hires[0]]
      /\ b.previous_execution = IF new THEN [a.previous_execution EXCEPT ![0] = st.hires[0]]
                                ELSE a.previous_execution
      /\ b.day_hashers = IF new THEN sealed ELSE a.day_hashers
      /\ b.day_digests = IF new THEN noted ELSE a.day_digests
  <2> DEFINE most == IF a.hires_current_day[0] <= a.hires[0] THEN a.hires[0]
                     ELSE a.hires_current_day[0]
             seen == a.last_seen_day[0]
             rolled == 0 <= seen /\ seen < Day(a)
  <2>1. seen = Day(st) /\ a.step <= Days * Hours - 1 /\ seen >= -1 /\ seen <= Day(a)
        /\ (rolled <=> new) /\ (seen < Day(a) <=> new)
    BY <1>2, <1>3, <1>4, <1>7
  <2>2. (~new => most = a.hires[0]) /\ (new => most = st.hires[0])
    BY <1>3, <1>6, <1>7
  <2>3. a.day_hashers[Day(st)] # <<>>
    <3>1. a.day_hashers[Day(st)] = SoFar(Hour(st) + 1)
      BY <1>3, <1>5 DEF Digested
    <3> QED BY <3>1, <1>4, SoFarIs
  <2>4. /\ b \in EpisodeState
        /\ SamePlay(b, a) /\ SameEnd(b, a) /\ SameDecisions(b, a) /\ SameAgents(b, a)
        /\ b.last_seen_day = [a.last_seen_day EXCEPT ![0] = Day(a)]
        /\ b.hires_current_day = [a.hires_current_day EXCEPT
                                     ![0] = IF seen < Day(a) THEN a.hires[0] ELSE most]
        /\ b.previous_execution = IF rolled THEN [a.previous_execution EXCEPT ![0] = most]
                                  ELSE a.previous_execution
        /\ b.day_hashers = IF rolled THEN [a.day_hashers EXCEPT ![seen] = <<>>]
                           ELSE a.day_hashers
        /\ b.day_digests = IF rolled /\ a.day_hashers[seen] # <<>>
                           THEN [a.day_digests EXCEPT ![seen] = a.day_hashers[seen]]
                           ELSE a.day_digests
    BY <1>2, <1>7, <2>1, TrackedIs
  <2>5. (IF seen < Day(a) THEN a.hires[0] ELSE most) = a.hires[0]
    BY <2>1, <2>2
  <2> HIDE DEF most, seen, b, new, rolled
  <2>6. CASE new
    <3>1. b.day_hashers = sealed
      BY <2>1, <2>4, <2>6
    <3>2. b.day_digests = noted
      BY <2>1, <2>3, <2>4, <2>6
    <3>3. b.previous_execution = [a.previous_execution EXCEPT ![0] = st.hires[0]]
      BY <2>1, <2>2, <2>4, <2>6
    <3>4. b.hires_current_day = [a.hires_current_day EXCEPT ![0] = a.hires[0]]
      BY <2>4, <2>5
    <3> QED BY <2>4, <3>1, <3>2, <3>3, <3>4, <2>6
  <2>7. CASE ~new
    <3>4. b.hires_current_day = [a.hires_current_day EXCEPT ![0] = a.hires[0]]
      BY <2>4, <2>5
    <3> QED BY <2>1, <2>4, <3>4, <2>7
  <2> QED BY <2>6, <2>7
<1> HIDE DEF b
<1>9. /\ Day(b) = Day(a) /\ b.hires = a.hires /\ b.step = a.step
      /\ b.last_seen_day[1] = Day(st) /\ b.hires_current_day[1] = st.hires[1]
      /\ b.hires[1] = a.hires[1]
  BY <1>3, <1>7, <1>8 DEF SamePlay, Day
<1>10. /\ r \in EpisodeState
       /\ SamePlay(r, b) /\ SameEnd(r, b) /\ SameDecisions(r, b) /\ SameAgents(r, b)
       /\ r.last_seen_day = [b.last_seen_day EXCEPT ![1] = Day(a)]
       /\ r.hires_current_day = [b.hires_current_day EXCEPT ![1] = a.hires[1]]
       /\ r.previous_execution = IF new THEN [b.previous_execution EXCEPT ![1] = st.hires[1]]
                                 ELSE b.previous_execution
       /\ r.day_hashers = IF new THEN [b.day_hashers EXCEPT ![Day(st)] = <<>>] ELSE b.day_hashers
       /\ r.day_digests = b.day_digests
  <2> DEFINE most == IF b.hires_current_day[1] <= b.hires[1] THEN b.hires[1]
                     ELSE b.hires_current_day[1]
             seen == b.last_seen_day[1]
             rolled == 0 <= seen /\ seen < Day(b)
  <2>1. seen = Day(st) /\ b.step <= Days * Hours - 1 /\ seen >= -1 /\ seen <= Day(b)
        /\ (rolled <=> new) /\ (seen < Day(b) <=> new)
    BY <1>2, <1>3, <1>4, <1>7, <1>9
  <2>2. (~new => most = a.hires[1]) /\ (new => most = st.hires[1])
    BY <1>3, <1>6, <1>7, <1>9
  <2>3. new => b.day_hashers[Day(st)] = <<>>
    BY <1>3, <1>5, <1>8
  <2>4. /\ r \in EpisodeState
        /\ SamePlay(r, b) /\ SameEnd(r, b) /\ SameDecisions(r, b) /\ SameAgents(r, b)
        /\ r.last_seen_day = [b.last_seen_day EXCEPT ![1] = Day(b)]
        /\ r.hires_current_day = [b.hires_current_day EXCEPT
                                     ![1] = IF seen < Day(b) THEN b.hires[1] ELSE most]
        /\ r.previous_execution = IF rolled THEN [b.previous_execution EXCEPT ![1] = most]
                                  ELSE b.previous_execution
        /\ r.day_hashers = IF rolled THEN [b.day_hashers EXCEPT ![seen] = <<>>]
                           ELSE b.day_hashers
        /\ r.day_digests = IF rolled /\ b.day_hashers[seen] # <<>>
                           THEN [b.day_digests EXCEPT ![seen] = b.day_hashers[seen]]
                           ELSE b.day_digests
    BY <1>7, <1>8, <2>1, TrackedIs
  <2>5. (IF seen < Day(b) THEN b.hires[1] ELSE most) = a.hires[1]
    BY <2>1, <2>2, <1>9
  <2> HIDE DEF most, seen, r, new, rolled
  <2>6. CASE new
    <3>1. r.day_hashers = [b.day_hashers EXCEPT ![Day(st)] = <<>>]
      BY <2>1, <2>4, <2>6
    <3>2. r.day_digests = b.day_digests
      BY <2>1, <2>3, <2>4, <2>6
    <3>3. r.previous_execution = [b.previous_execution EXCEPT ![1] = st.hires[1]]
      BY <2>1, <2>2, <2>4, <2>6
    <3>4. r.hires_current_day = [b.hires_current_day EXCEPT ![1] = a.hires[1]]
      BY <2>4, <2>5
    <3> QED BY <2>4, <3>1, <3>2, <3>3, <3>4, <2>6, <1>9
  <2>7. CASE ~new
    <3>4. r.hires_current_day = [b.hires_current_day EXCEPT ![1] = a.hires[1]]
      BY <2>4, <2>5
    <3> QED BY <2>1, <2>4, <3>4, <2>7, <1>9
  <2> QED BY <2>6, <2>7
<1> HIDE DEF r
<1>11. SamePlay(r, a) /\ SameEnd(r, st) /\ SameDecisions(r, st) /\ SameAgents(r, st)
  BY <1>2, <1>8, <1>10 DEF SamePlay, SameEnd, SameDecisions, SameAgents
<1>12. r.step = a.step /\ r.hires = a.hires /\ r.done = a.done /\ Day(r) = Day(a)
       /\ Hour(r) = Hour(a)
  BY <1>11 DEF SamePlay, Day, Hour
<1>13. \A s \in Seats : r.last_seen_day[s] = Day(r) /\ r.hires_current_day[s] = r.hires[s]
  BY <1>3, <1>7, <1>8, <1>10, <1>12
<1>14. new => \A s \in Seats : r.previous_execution[s] = st.hires[s]
  BY <1>3, <1>7, <1>8, <1>10
<1>15. Digested(r, Hour(r))
  <2> SUFFICES ASSUME NEW d \in Dates
               PROVE  /\ r.day_hashers[d] = IF d = Day(a) THEN SoFar(Hour(a)) ELSE <<>>
                      /\ r.day_digests[d] = IF d < Day(a) THEN SoFar(Hours) ELSE <<>>
    BY <1>12 DEF Digested
  <2>1. /\ a.day_hashers[d] = IF d = Day(st) THEN SoFar(Hour(st) + 1) ELSE <<>>
        /\ a.day_digests[d] = IF d < Day(st) THEN SoFar(Hours) ELSE <<>>
        /\ a.day_hashers[Day(st)] = SoFar(Hour(st) + 1)
    BY <1>3, <1>5 DEF Digested
  <2>2. d \in Nat
    BY Calendar DEF Dates
  <2>3. CASE new
    <3>1. r.day_hashers[d] = IF d = Day(st) THEN <<>> ELSE a.day_hashers[d]
      BY <1>3, <1>8, <1>10, <2>3
    <3>2. r.day_digests[d] = IF d = Day(st) THEN SoFar(Hours) ELSE a.day_digests[d]
      <4>1. r.day_digests = noted /\ Hour(st) + 1 = Hours
        BY <1>3, <1>8, <1>10, <2>3
      <4> QED BY <4>1, <1>3, <2>1
    <3>3. SoFar(Hour(a)) = <<>>
      BY <1>4, <2>3, SoFarIs
    <3>4. d < Day(a) <=> (d < Day(st) \/ d = Day(st))
      BY <1>4, <2>2, <2>3
    <3> HIDE DEF new
    <3>5. Day(a) # Day(st)
      BY <1>4, <2>3
    <3> QED BY <3>1, <3>2, <3>3, <3>4, <3>5, <2>1
  <2>4. CASE ~new
    BY <1>4, <1>8, <1>10, <2>1, <2>4
  <2> QED BY <2>3, <2>4
<1>16. Begun(r) /\ LaborSeen(r)
  BY <1>13 DEF Begun, LaborSeen
<1>17. r.done <=> st.step + 2 >= Days * Hours
  BY <1>2, <1>12
<1>18. Day(r) # Day(st) => new
  BY <1>4, <1>12
<1> QED BY <1>1, <1>2, <1>4, <1>10, <1>11, <1>12, <1>14, <1>15, <1>16, <1>17, <1>18

-----------------------------------------------------------------------------
(* The games in their chunks: the inductive invariant of labor and digests. *)

Phases == {"chunk", "decide", "act", "step", "finish", "returned", "raised"}

\* A finished game's digests: whole days, and the last one as far as it was played.
Sealed(st) ==
  \A d \in Dates :
    st.day_digests[d] = SoFar(IF d < Day(st) THEN Hours ELSE IF d = Day(st) THEN Hour(st) ELSE 0)

\* The turns of today in the digest: at a turn's end the one just played is there already.
TurnsIn(e) == Hour(state[e]) + (IF phase = "step" /\ e \in Playing THEN 1 ELSE 0)

LoopTypes ==
  /\ phase \in Phases
  /\ max_turns \in Nat /\ turn \in Nat /\ turn <= max_turns
  /\ phase \in {"act", "step"} => turn < max_turns
  /\ state \in [Episodes -> EpisodeState]

\* The rows of the buffer.
Row0 == [episode : Episodes, seat : Seats, day : Dates, trainable : BOOLEAN, plan : Plans,
         workers_hired : Nat, prev_start : Int \cup {None}, value : Int, digest : Seq(Nat),
         reward : Int, terminated : BOOLEAN, truncated : BOOLEAN]

RowsTypes ==
  /\ capacity \in Nat /\ rows \in Seq(Row0) /\ Len(rows) <= capacity

LinesOK ==
  /\ waiting \in Seq(Episodes) /\ chunk \in Seq(Episodes)
  /\ \A j, k \in 1..Len(waiting) : waiting[j] = waiting[k] => j = k
  /\ \A j, k \in 1..Len(chunk) : chunk[j] = chunk[k] => j = k
  /\ \A e \in Range(waiting) : e \notin Range(chunk) /\ state[e] = Unplayed

ClocksOK ==
  \A e \in Episodes :
    /\ state[e].step <= Days * Hours - 1
    /\ state[e].done <=> state[e].step = Days * Hours - 1

EndsOK ==
  \A e \in Episodes :
    /\ ~state[e].finalized => ~state[e].truncated
    /\ state[e].finalized /\ ~state[e].truncated => state[e].done
    /\ e \in Range(chunk) /\ state[e].finalized /\ ~state[e].done =>
         turn >= max_turns /\ phase \in {"decide", "chunk", "returned"}

LaborOK ==
  /\ \A e \in Episodes : LaborSeen(state[e])
  /\ \A e \in Range(chunk) : Begun(state[e])

DigestsOK ==
  \A e \in Episodes :
    IF state[e].finalized THEN Sealed(state[e])
    ELSE phase # "raised" => Digested(state[e], TurnsIn(e))

GamesOK == LoopTypes /\ RowsTypes /\ LinesOK /\ ClocksOK /\ EndsOK /\ LaborOK /\ DigestsOK

-----------------------------------------------------------------------------
(* The batch of a day's first hour: every seat that is due, once. *)

LEMMA PlayingIs ==
  ASSUME LinesOK
  PROVE  /\ Playing \subseteq Episodes /\ Range(chunk) \subseteq Episodes
         /\ Range(waiting) \subseteq Episodes
         /\ \A e \in Playing : e \in Range(chunk) /\ ~state[e].done
BY DEF Playing, Range, LinesOK

LEMMA AskingIs ==
  ASSUME LoopTypes, LinesOK, ClocksOK
  PROVE  /\ Asking \in Seq(Asked)
         /\ \A i \in 1..Len(Asking) : /\ Asking[i].episode \in Range(chunk)
                                      /\ Asking[i] = Request(Asking[i].episode, Asking[i].seat)
         /\ \A i, j \in 1..Len(Asking) : Asking[i] = Asking[j] => i = j
         /\ \A e \in Range(chunk), s \in Seats :
              \E i \in 1..Len(Asking) : Asking[i] = Request(e, s)
<1> DEFINE n == Len(chunk)
           game(i) == chunk[(i + 1) \div 2]
           seat(i) == (i + 1) % 2
<1>1. /\ n \in Nat /\ chunk \in [1..n -> Episodes] /\ DOMAIN chunk = 1..n
      /\ \A j, k \in 1..n : chunk[j] = chunk[k] => j = k
  BY DEF LinesOK
<1> HIDE DEF n
<1>2. \A i \in 1..(2 * n) : (i + 1) \div 2 \in 1..n /\ seat(i) \in Seats
  BY <1>1 DEF Seats
<1>3. \A e \in Episodes, s \in Seats : Request(e, s) \in Asked
  <2> TAKE e \in Episodes, s \in Seats
  <2>1. state[e] \in EpisodeState /\ state[e].step <= Days * Hours - 1
    BY DEF LoopTypes, ClocksOK
  <2> QED BY <2>1, DayIs DEF Request, Asked
<1>4. Asking = [i \in 1..(2 * n) |-> Request(game(i), seat(i))]
  BY DEF Asking, n
<1>5. \A i \in 1..(2 * n) : game(i) \in Episodes /\ game(i) \in Range(chunk)
  BY <1>1, <1>2 DEF Range
<1>6. Asking \in Seq(Asked) /\ Len(Asking) = 2 * n
  <2>1. \A i \in 1..(2 * n) : Request(game(i), seat(i)) \in Asked
    BY <1>2, <1>3, <1>5
  <2>2. Asking \in [1..(2 * n) -> Asked] /\ 2 * n \in Nat
    BY <1>1, <1>4, <2>1
  <2> QED BY <2>2
<1>7. \A i \in 1..(2 * n) : Asking[i] = Request(game(i), seat(i))
  BY <1>4
<1>8. \A e, s : Request(e, s).episode = e /\ Request(e, s).seat = s
  BY DEF Request
<1>9. ASSUME NEW i \in 1..Len(Asking), NEW j \in 1..Len(Asking), Asking[i] = Asking[j]
      PROVE  i = j
  <2>1. game(i) = game(j) /\ seat(i) = seat(j)
    <3> HIDE DEF game, seat
    <3>1. i \in 1..(2 * n) /\ j \in 1..(2 * n)
      BY <1>6
    <3>2. Request(game(i), seat(i)) = Request(game(j), seat(j))
      BY <3>1, <1>7, <1>9
    <3> QED BY ONLY <3>2 DEF Request
  <2>2. (i + 1) \div 2 = (j + 1) \div 2
    BY <2>1, <1>1, <1>2, <1>6
  <2> QED BY <2>1, <2>2, <1>6
<1>10. ASSUME NEW e \in Range(chunk), NEW s \in Seats
       PROVE  \E i \in 1..Len(Asking) : Asking[i] = Request(e, s)
  <2>1. PICK k \in 1..n : chunk[k] = e
    BY <1>1 DEF Range
  <2> DEFINE i == 2 * k - 1 + s
  <2>2. i \in 1..(2 * n) /\ (i + 1) \div 2 = k /\ (i + 1) % 2 = s
    BY <1>1 DEF Seats
  <2> QED BY <2>1, <2>2, <1>6, <1>7
<1>11. \A i \in 1..Len(Asking) : /\ Asking[i].episode \in Range(chunk)
                                 /\ Asking[i] = Request(Asking[i].episode, Asking[i].seat)
  BY <1>5, <1>6, <1>7, <1>8
<1> QED BY <1>6, <1>9, <1>10, <1>11

Decision == [request : Asked, plan : Plans]

LEMMA GroupIs ==
  ASSUME LoopTypes, LinesOK, ClocksOK, NEW p
  PROVE  /\ Group(p) \in Seq(Asked)
         /\ \A n \in 1..Len(Group(p)) :
              LET q == Group(p)[n]
              IN  /\ q.episode \in Range(chunk) /\ q = Request(q.episode, q.seat) /\ Due(q)
                  /\ Policy(q.episode, q.seat) = p
         /\ \A m, n \in 1..Len(Group(p)) : Group(p)[m] = Group(p)[n] => m = n
         /\ \A e \in Range(chunk), s \in Seats :
              Due(Request(e, s)) /\ Policy(e, s) = p =>
                \E n \in 1..Len(Group(p)) : Group(p)[n] = Request(e, s)
<1> DEFINE I == {i \in DOMAIN Asking : /\ Due(Asking[i])
                                       /\ Policy(Asking[i].episode, Asking[i].seat) = p}
<1>1. /\ Asking \in Seq(Asked) /\ DOMAIN Asking = 1..Len(Asking)
      /\ \A i \in 1..Len(Asking) : /\ Asking[i].episode \in Range(chunk)
                                   /\ Asking[i] = Request(Asking[i].episode, Asking[i].seat)
      /\ \A i, j \in 1..Len(Asking) : Asking[i] = Asking[j] => i = j
      /\ \A e \in Range(chunk), s \in Seats :
           \E i \in 1..Len(Asking) : Asking[i] = Request(e, s)
  BY AskingIs
<1>2. Group(p) = Kept(Asking, I)
  BY DEF Group
<1>3. I \in SUBSET (1..Len(Asking))
  BY <1>1
<1>4. \A i \in I : /\ i \in 1..Len(Asking) /\ Due(Asking[i])
                   /\ Policy(Asking[i].episode, Asking[i].seat) = p
  BY <1>3
<1>5. \A i \in 1..Len(Asking) :
        Due(Asking[i]) /\ Policy(Asking[i].episode, Asking[i].seat) = p => i \in I
  BY <1>1
<1> HIDE DEF I
<1>6. /\ Group(p) \in Seq(Asked)
      /\ \A n \in 1..Len(Group(p)) : \E i \in I : Group(p)[n] = Asking[i] /\ Rank(i, I) = n
      /\ \A i \in I : \E n \in 1..Len(Group(p)) : Group(p)[n] = Asking[i] /\ Rank(i, I) = n
  BY <1>1, <1>2, <1>3, KeptIs
<1>7. ASSUME NEW m \in 1..Len(Group(p)), NEW n \in 1..Len(Group(p)), Group(p)[m] = Group(p)[n]
      PROVE  m = n
  <2>1. PICK i \in I : Group(p)[m] = Asking[i] /\ Rank(i, I) = m
    BY <1>6
  <2>2. PICK j \in I : Group(p)[n] = Asking[j] /\ Rank(j, I) = n
    BY <1>6
  <2>3. i = j
    BY <1>1, <1>4, <1>7, <2>1, <2>2
  <2> QED BY <2>1, <2>2, <2>3
<1>8. ASSUME NEW e \in Range(chunk), NEW s \in Seats, Due(Request(e, s)), Policy(e, s) = p
      PROVE  \E n \in 1..Len(Group(p)) : Group(p)[n] = Request(e, s)
  <2>1. PICK i \in 1..Len(Asking) : Asking[i] = Request(e, s)
    BY <1>1
  <2>2. Asking[i].episode = e /\ Asking[i].seat = s
    BY <2>1 DEF Request
  <2>3. i \in I
    BY <2>1, <2>2, <1>5, <1>8
  <2> QED BY <2>1, <2>3, <1>6
<1>9. ASSUME NEW n \in 1..Len(Group(p))
      PROVE  LET q == Group(p)[n]
             IN  /\ q.episode \in Range(chunk) /\ q = Request(q.episode, q.seat) /\ Due(q)
                 /\ Policy(q.episode, q.seat) = p
  <2>1. PICK i \in I : Group(p)[n] = Asking[i]
    BY <1>6
  <2> QED BY <2>1, <1>1, <1>4
<1> QED BY <1>6, <1>7, <1>8, <1>9

LEMMA DecidedIs ==
  ASSUME NEW g \in Seq(Asked)
  PROVE  /\ Decided(g) \in Seq(Decision) /\ Len(Decided(g)) = Len(g)
         /\ \A n \in 1..Len(g) : Decided(g)[n].request = g[n] /\ Decided(g)[n].plan.for = g[n]
<1> DEFINE c == Len(g)
<1>1. c \in Nat /\ g \in [1..c -> Asked] /\ DOMAIN g = 1..c
  OBVIOUS
<1> HIDE DEF c
<1>2. Decided(g) = [n \in 1..c |-> [request |-> g[n], plan |-> Answer(g, n)]]
  BY <1>1 DEF Decided
<1>3. \A n \in 1..c : Answer(g, n) \in Plans /\ Answer(g, n).for = g[n]
  <2> TAKE n \in 1..c
  <2>1. 1 \in 1..c /\ n \in Nat
    BY <1>1
  <2>2. g[1] \in Asked /\ g[n] \in Asked
    BY <2>1, <1>1
  <2> QED BY <2>1, <2>2 DEF Answer, KeyOf, Plans, Asked
<1>4. Decided(g) \in [1..c -> Decision]
  BY <1>1, <1>2, <1>3 DEF Decision
<1>5. Decided(g) \in Seq(Decision) /\ Len(Decided(g)) = c
  BY <1>4, <1>1
<1> QED BY <1>2, <1>3, <1>5 DEF c

LEMMA BatchIs ==
  ASSUME LoopTypes, LinesOK, ClocksOK
  PROVE  /\ Batch \in Seq(Decision)
         /\ \A k \in 1..Len(Batch) :
              LET q == Batch[k].request
              IN  /\ q.episode \in Playing /\ q.seat \in Seats /\ q = Request(q.episode, q.seat)
                  /\ Due(q) /\ Batch[k].plan.for = q
         /\ \A j, k \in 1..Len(Batch) : Batch[j].request = Batch[k].request => j = k
         /\ \A e \in Playing, s \in Seats :
              Due(Request(e, s)) => \E k \in 1..Len(Batch) : Batch[k].request = Request(e, s)
<1> DEFINE p == PolicyOrder[1]
           f == PolicyOrder[2]
           G == Group(p)
           H == Group(f)
           a == Len(G)
           b == Len(H)
<1>1. p = "candidate" /\ f = "frozen" /\ p # f
  BY DEF PolicyOrder
<1>2. \A e, s : Policy(e, s) = p \/ Policy(e, s) = f
  BY <1>1 DEF Policy
<1> HIDE DEF p, f
<1>3. /\ G \in Seq(Asked)
      /\ \A n \in 1..a : /\ G[n].episode \in Range(chunk) /\ G[n] = Request(G[n].episode, G[n].seat)
                         /\ Due(G[n]) /\ Policy(G[n].episode, G[n].seat) = p
      /\ \A m, n \in 1..a : G[m] = G[n] => m = n
      /\ \A e \in Range(chunk), s \in Seats :
           Due(Request(e, s)) /\ Policy(e, s) = p => \E n \in 1..a : G[n] = Request(e, s)
  BY GroupIs
<1>4. /\ H \in Seq(Asked)
      /\ \A n \in 1..b : /\ H[n].episode \in Range(chunk) /\ H[n] = Request(H[n].episode, H[n].seat)
                         /\ Due(H[n]) /\ Policy(H[n].episode, H[n].seat) = f
      /\ \A m, n \in 1..b : H[m] = H[n] => m = n
      /\ \A e \in Range(chunk), s \in Seats :
           Due(Request(e, s)) /\ Policy(e, s) = f => \E n \in 1..b : H[n] = Request(e, s)
  BY GroupIs
<1> HIDE DEF G, H
<1> DEFINE D == Decided(G)
           E == Decided(H)
<1>5. /\ D \in Seq(Decision) /\ Len(D) = a
      /\ \A n \in 1..a : D[n].request = G[n] /\ D[n].plan.for = G[n]
      /\ E \in Seq(Decision) /\ Len(E) = b
      /\ \A n \in 1..b : E[n].request = H[n] /\ E[n].plan.for = H[n]
  BY <1>3, <1>4, DecidedIs
<1>6. Batch = D \o E
  BY DEF Batch, G, H, p, f
<1>7. a \in Nat /\ b \in Nat
  BY <1>3, <1>4
<1> HIDE DEF D, E, a, b
<1>8. /\ Batch \in Seq(Decision) /\ Len(Batch) = a + b
      /\ \A k \in 1..(a + b) : Batch[k] = IF k <= a THEN D[k] ELSE E[k - a]
  <2>1. D \in Seq(Decision) /\ E \in Seq(Decision) /\ Len(D) = a /\ Len(E) = b
    BY <1>5
  <2>2. Batch \in Seq(Decision) /\ Len(Batch) = a + b
    <3>1. D \o E \in Seq(Decision) /\ Len(D \o E) = Len(D) + Len(E)
      BY <2>1
    <3> QED BY <2>1, <3>1, <1>6
  <2>3. ASSUME NEW k \in 1..(a + b) PROVE Batch[k] = IF k <= a THEN D[k] ELSE E[k - a]
    <3>1. k \in 1..(Len(D) + Len(E))
      BY <2>1
    <3> QED BY <2>1, <3>1, <1>6
  <2> QED BY <2>2, <2>3
<1> DEFINE of(k) == IF k <= a THEN G[k] ELSE H[k - a]
<1>9. \A k \in 1..(a + b) :
        /\ Batch[k].request = of(k) /\ Batch[k].plan.for = of(k)
        /\ of(k).episode \in Range(chunk) /\ of(k) = Request(of(k).episode, of(k).seat)
        /\ Due(of(k)) /\ of(k) \in Asked
        /\ Policy(of(k).episode, of(k).seat) = IF k <= a THEN p ELSE f
  <2> TAKE k \in 1..(a + b)
  <2>1. CASE k <= a
    <3>1. k \in 1..a
      BY <2>1, <1>7
    <3>2. G[k] \in Asked
      BY <3>1, <1>3 DEF a
    <3> QED BY <2>1, <3>1, <3>2, <1>3, <1>5, <1>8
  <2>2. CASE ~(k <= a)
    <3>1. k - a \in 1..b
      BY <2>2, <1>7
    <3>2. H[k - a] \in Asked
      BY <3>1, <1>4 DEF b
    <3> QED BY <2>2, <3>1, <3>2, <1>4, <1>5, <1>8
  <2> QED BY <2>1, <2>2
<1>10. ASSUME NEW j \in 1..(a + b), NEW k \in 1..(a + b), of(j) = of(k) PROVE j = k
  <2>1. j <= a <=> k <= a
    BY <1>1, <1>9, <1>10 DEF p, f
  <2>2. CASE j <= a
    <3>1. j \in 1..a /\ k \in 1..a
      BY <2>1, <2>2, <1>7
    <3> QED BY <2>1, <2>2, <3>1, <1>3, <1>10
  <2>3. CASE ~(j <= a)
    <3>1. j - a \in 1..b /\ k - a \in 1..b
      BY <2>1, <2>3, <1>7
    <3>2. j - a = k - a
      BY <2>1, <2>3, <3>1, <1>4, <1>10
    <3> QED BY <3>2, <1>7
  <2> QED BY <2>2, <2>3
<1>11. ASSUME NEW e \in Playing, NEW s \in Seats, Due(Request(e, s))
       PROVE  \E k \in 1..(a + b) : Batch[k].request = Request(e, s)
  <2>0. e \in Range(chunk)
    BY PlayingIs
  <2>1. CASE Policy(e, s) = p
    <3>1. PICK n \in 1..a : G[n] = Request(e, s)
      BY <2>0, <2>1, <1>3, <1>11
    <3>2. n \in 1..(a + b) /\ n <= a
      BY <1>7
    <3> QED BY <3>1, <3>2, <1>5, <1>8
  <2>2. CASE Policy(e, s) = f
    <3>1. PICK n \in 1..b : H[n] = Request(e, s)
      BY <2>0, <2>2, <1>4, <1>11
    <3>2. n + a \in 1..(a + b) /\ ~(n + a <= a) /\ (n + a) - a = n
      BY <1>7
    <3> QED BY <3>1, <3>2, <1>5, <1>8
  <2> QED BY <2>1, <2>2, <1>2
<1>12. \A k \in 1..(a + b) : of(k).episode \in Playing /\ of(k).seat \in Seats
  <2> TAKE k \in 1..(a + b)
  <2>1. ~state[of(k).episode].done
    BY <1>9 DEF Due
  <2>2. of(k).seat \in Seats
    BY <1>9 DEF Asked
  <2> QED BY <2>1, <2>2, <1>9 DEF Playing
<1> HIDE DEF of
<1> QED BY <1>8, <1>9, <1>10, <1>11, <1>12

-----------------------------------------------------------------------------
(* A game before its chunk, at its reset, and through a turn. *)

LEMMA UnplayedIs ==
  /\ Unplayed \in EpisodeState
  /\ Unplayed.step = 0 /\ ~Unplayed.done /\ ~Unplayed.truncated /\ ~Unplayed.finalized
  /\ Day(Unplayed) = 0 /\ Hour(Unplayed) = 0
  /\ Unplayed.transition_index = {}
  /\ \A s \in Seats : /\ Unplayed.hires[s] = 0 /\ Unplayed.hires_current_day[s] = 0
                      /\ Unplayed.last_seen_day[s] = -1 /\ Unplayed.agent_day[s] = None
                      /\ Unplayed.planned_days[s] = {} /\ Unplayed.queued[s] = {}
                      /\ Unplayed.consumed[s] = {}
  /\ \A d \in Dates : Unplayed.day_hashers[d] = <<>> /\ Unplayed.day_digests[d] = <<>>
<1>1. Unplayed \in EpisodeState
  <2>1. /\ BothSeats(0) \in [Seats -> Nat] /\ BothSeats(-1) \in [Seats -> Int]
        /\ BothSeats(None) \in [Seats -> Int \cup {None}]
        /\ BothSeats({}) \in [Seats -> SUBSET Dates] /\ BothSeats({}) \in [Seats -> SUBSET Planned]
        /\ BothSeats(FALSE) \in [Seats -> BOOLEAN]
        /\ [d \in Dates |-> <<>>] \in [Dates -> Seq(Nat)]
    BY DEF BothSeats
  <2> DEFINE z == BothSeats(0)
             m == BothSeats(-1)
             o == BothSeats(None)
             x == BothSeats({})
             f == BothSeats(FALSE)
             h == [d \in Dates |-> <<>>]
  <2> HIDE DEF z, m, o, x, f, h
  <2>2. Unplayed =
          [step |-> 0, hires |-> z, done |-> FALSE, truncated |-> FALSE,
           finalized |-> FALSE, last_seen_day |-> m, daily_start |-> o,
           previous_execution |-> z, hires_current_day |-> z, planned_days |-> x,
           transition_index |-> {}, day_hashers |-> h, day_digests |-> h, queued |-> x,
           consumed |-> x, agent_day |-> o, diverged |-> f]
    BY DEF Unplayed, z, m, o, x, f, h
  <2>3. /\ z \in [Seats -> Nat] /\ m \in [Seats -> Int] /\ o \in [Seats -> Int \cup {None}]
        /\ x \in [Seats -> SUBSET Dates] /\ x \in [Seats -> SUBSET Planned]
        /\ f \in [Seats -> BOOLEAN] /\ h \in [Dates -> Seq(Nat)]
    BY <2>1 DEF z, m, o, x, f, h
  <2> QED BY <2>2, <2>3 DEF EpisodeState
<1>2. Day(Unplayed) = 0 /\ Hour(Unplayed) = 0
  <2>1. 0 = Hours * 0 + 0 /\ Hours \in Nat /\ Hours > 0 /\ 0 \in 0..(Hours - 1)
    BY Calendar
  <2>2. 0 \div Hours = 0 /\ 0 % Hours = 0
    BY <2>1, QuotientIs
  <2> QED BY <2>2 DEF Day, Hour, Unplayed
<1>3. /\ Unplayed.step = 0 /\ ~Unplayed.done /\ ~Unplayed.truncated /\ ~Unplayed.finalized
      /\ Unplayed.transition_index = {}
  BY DEF Unplayed
<1>4. \A s \in Seats : /\ Unplayed.hires[s] = 0 /\ Unplayed.hires_current_day[s] = 0
                       /\ Unplayed.last_seen_day[s] = -1 /\ Unplayed.agent_day[s] = None
                       /\ Unplayed.planned_days[s] = {} /\ Unplayed.queued[s] = {}
                       /\ Unplayed.consumed[s] = {}
  BY DEF Unplayed, BothSeats
<1>5. \A d \in Dates : Unplayed.day_hashers[d] = <<>> /\ Unplayed.day_digests[d] = <<>>
  BY DEF Unplayed
<1> QED BY <1>1, <1>2, <1>3, <1>4, <1>5

LEMMA ResetIs ==
  LET r == ObserveReset(Unplayed)
  IN  /\ r \in EpisodeState
      /\ SamePlay(r, Unplayed) /\ SameEnd(r, Unplayed) /\ SameDecisions(r, Unplayed)
      /\ SameAgents(r, Unplayed) /\ SameDigests(r, Unplayed)
      /\ Begun(r) /\ LaborSeen(r)
<1> DEFINE u == Unplayed
           b == NoteDayStart(u, 0)
           r == NoteDayStart(b, 1)
<1>0. 0 \in Seats /\ 1 \in Seats /\ Seats = {0, 1}
  BY DEF Seats
<1>1. /\ u \in EpisodeState /\ u.step = 0 /\ Day(u) = 0
      /\ \A s \in Seats : u.hires[s] = 0 /\ u.hires_current_day[s] = 0 /\ u.last_seen_day[s] = -1
      /\ u.step <= Days * Hours - 1
  <2>1. Days * Hours >= 1
    <3>1. 1 * Hours <= Days * Hours
      BY Calendar, Monotone
    <3> QED BY <3>1, Calendar
  <2> QED BY <2>1, UnplayedIs, Calendar
<1>2. u.last_seen_day \in [Seats -> Int] /\ u.hires_current_day \in [Seats -> Nat]
  BY <1>1 DEF EpisodeState
<1>3. ObserveReset(Unplayed) = r
  BY DEF ObserveReset
<1> HIDE DEF u
<1>4. /\ b \in EpisodeState
      /\ SamePlay(b, u) /\ SameEnd(b, u) /\ SameDecisions(b, u) /\ SameAgents(b, u)
      /\ b.last_seen_day = [u.last_seen_day EXCEPT ![0] = 0]
      /\ b.hires_current_day = [u.hires_current_day EXCEPT ![0] = u.hires[0]]
      /\ b.day_hashers = u.day_hashers /\ b.day_digests = u.day_digests
  <2>1. /\ u.last_seen_day[0] >= -1 /\ u.last_seen_day[0] <= Day(u) /\ u.last_seen_day[0] < Day(u)
        /\ ~(0 <= u.last_seen_day[0])
    BY <1>0, <1>1
  <2> QED BY <1>0, <1>1, <2>1, NoteDayStartIs
<1> HIDE DEF b
<1>5. /\ b.step = 0 /\ Day(b) = 0 /\ b.hires = u.hires /\ b.last_seen_day[1] = -1
      /\ b.last_seen_day[0] = 0
  BY <1>0, <1>1, <1>2, <1>4 DEF SamePlay, Day
<1>6. /\ r \in EpisodeState
      /\ SamePlay(r, b) /\ SameEnd(r, b) /\ SameDecisions(r, b) /\ SameAgents(r, b)
      /\ r.last_seen_day = [b.last_seen_day EXCEPT ![1] = 0]
      /\ r.hires_current_day = [b.hires_current_day EXCEPT ![1] = b.hires[1]]
      /\ r.day_hashers = b.day_hashers /\ r.day_digests = b.day_digests
  <2>1. /\ b.last_seen_day[1] >= -1 /\ b.last_seen_day[1] <= Day(b) /\ b.last_seen_day[1] < Day(b)
        /\ ~(0 <= b.last_seen_day[1]) /\ b.step <= Days * Hours - 1
    BY <1>0, <1>1, <1>5
  <2> QED BY <1>0, <1>4, <1>5, <2>1, NoteDayStartIs
<1> HIDE DEF r
<1>7. SamePlay(r, u) /\ SameEnd(r, u) /\ SameDecisions(r, u) /\ SameAgents(r, u)
      /\ SameDigests(r, u)
  BY <1>4, <1>6 DEF SamePlay, SameEnd, SameDecisions, SameAgents, SameDigests
<1>8. Begun(r)
  <2>1. Day(r) = 0
    BY <1>6, <1>5 DEF SamePlay, Day
  <2> QED BY <1>0, <1>2, <1>4, <1>6, <2>1 DEF Begun
<1>9. LaborSeen(r)
  <2>1. r.hires = u.hires
    BY <1>7 DEF SamePlay
  <2> QED BY <1>0, <1>1, <1>2, <1>4, <1>5, <1>6, <2>1 DEF LaborSeen
<1> QED BY <1>3, <1>6, <1>7, <1>8, <1>9 DEF u

\* What the batch holds for a seat among its first n decisions.
Mine(e, s, n) ==
  {k \in 1..Min({n, Len(Batch)}) : Batch[k].request.episode = e /\ Batch[k].request.seat = s}

LEMMA RecordedIs ==
  ASSUME LoopTypes, LinesOK, ClocksOK, RowsTypes, NEW e \in Episodes
  PROVE  LET st == state[e]
             r == Recorded(e, Batch)
         IN  /\ r \in EpisodeState
             /\ SamePlay(r, st) /\ SameEnd(r, st) /\ SameLabor(r, st) /\ SameAgents(r, st)
             /\ SameDigests(r, st) /\ r.consumed = st.consumed
             /\ \A s \in Seats :
                  /\ r.queued[s] = st.queued[s] \cup
                       {[day |-> Day(st), plan |-> Batch[k].plan] : k \in Mine(e, s, Room + 1)}
                  /\ r.planned_days[s] = st.planned_days[s] \cup {Day(st) : k \in Mine(e, s, Room)}
             /\ r.transition_index = st.transition_index \cup UNION
                  {{[seat |-> s, day |-> Day(st), row |-> Len(rows) + k] : k \in Mine(e, s, Room)} :
                     s \in Seats}
<1> DEFINE st == state[e]
           today == Day(st)
           Q == [s \in Seats |-> st.queued[s] \cup
                   {[day |-> today, plan |-> Batch[k].plan] : k \in Mine(e, s, Room + 1)}]
           T == st.transition_index \cup UNION
                  {{[seat |-> s, day |-> today, row |-> Len(rows) + k] : k \in Mine(e, s, Room)} :
                     s \in Seats}
           P == [s \in Seats |-> st.planned_days[s] \cup {today : k \in Mine(e, s, Room)}]
           r == [st EXCEPT !.queued = Q, !.transition_index = T, !.planned_days = P]
<1>1. st \in EpisodeState /\ st.step <= Days * Hours - 1
  BY DEF LoopTypes, ClocksOK
<1>2. today \in Dates
  BY <1>1, DayIs
<1>3. /\ st.queued \in [Seats -> SUBSET Planned] /\ st.planned_days \in [Seats -> SUBSET Dates]
      /\ st.transition_index \in SUBSET Indexed
  BY <1>1 DEF EpisodeState
<1>4. Recorded(e, Batch) = r
  BY <1>1 DEF Recorded, Mine, EpisodeState
<1>5. Len(rows) \in Nat /\ Room \in Int /\ Room + 1 \in Int /\ Room \in Nat
  BY DEF RowsTypes, Room
<1>6. Batch \in Seq(Decision) /\ Len(Batch) \in Nat
  <2>1. Batch \in Seq(Decision)
    BY BatchIs
  <2> QED BY <2>1
<1>7. ASSUME NEW n \in Int, NEW s, NEW k \in Mine(e, s, n)
      PROVE  k \in 1..Len(Batch) /\ k <= n
  <2>1. Min({n, Len(Batch)}) = IF n <= Len(Batch) THEN n ELSE Len(Batch)
    BY <1>6, MinOfTwo
  <2>2. k \in 1..Min({n, Len(Batch)})
    BY <1>7 DEF Mine
  <2> QED BY <2>1, <2>2, <1>6
<1> HIDE DEF today, st
<1>8. Q \in [Seats -> SUBSET Planned]
  <2>1. ASSUME NEW s \in Seats, NEW k \in Mine(e, s, Room + 1)
        PROVE  [day |-> today, plan |-> Batch[k].plan] \in Planned
    <3>1. k \in 1..Len(Batch)
      BY <1>5, <1>7
    <3>2. Batch[k] \in Decision
      BY <3>1, <1>6
    <3> QED BY <3>2, <1>2 DEF Decision, Planned
  <2>2. ASSUME NEW s \in Seats
        PROVE  st.queued[s] \cup
                 {[day |-> today, plan |-> Batch[k].plan] : k \in Mine(e, s, Room + 1)}
                   \in SUBSET Planned
    <3>1. st.queued[s] \in SUBSET Planned
      BY <1>3
    <3> QED BY <3>1, <2>1
  <2> QED BY <2>2
<1>9. P \in [Seats -> SUBSET Dates]
  BY <1>2, <1>3
<1>10. T \in SUBSET Indexed
  <2>1. ASSUME NEW s \in Seats, NEW k \in Mine(e, s, Room)
        PROVE  [seat |-> s, day |-> today, row |-> Len(rows) + k] \in Indexed
    <3>1. k \in 1..Len(Batch)
      BY <1>5, <1>7
    <3>2. Len(rows) + k \in Nat
      BY <3>1, <1>5, <1>6
    <3> QED BY <3>2, <1>2 DEF Indexed
  <2> QED BY <2>1, <1>3
<1>11. \A s \in Seats :
         /\ Q[s] = st.queued[s] \cup
              {[day |-> today, plan |-> Batch[k].plan] : k \in Mine(e, s, Room + 1)}
         /\ P[s] = st.planned_days[s] \cup {today : k \in Mine(e, s, Room)}
  OBVIOUS
<1>12. T = st.transition_index \cup UNION
             {{[seat |-> s, day |-> today, row |-> Len(rows) + k] : k \in Mine(e, s, Room)} :
                s \in Seats}
  OBVIOUS
<1> HIDE DEF Q, P, T
<1>13. r \in EpisodeState
  BY <1>1, <1>8, <1>9, <1>10 DEF EpisodeState, st
<1>14. /\ r.queued = Q /\ r.planned_days = P /\ r.transition_index = T
       /\ SamePlay(r, st) /\ SameEnd(r, st) /\ SameLabor(r, st) /\ SameAgents(r, st)
       /\ SameDigests(r, st) /\ r.consumed = st.consumed
  BY <1>1 DEF EpisodeState, SamePlay, SameEnd, SameLabor, SameAgents, SameDigests, st
<1> HIDE DEF r
<1> QED BY <1>4, <1>11, <1>12, <1>13, <1>14 DEF st, today

LEMMA ConsumedIs ==
  ASSUME NEW st \in EpisodeState, NEW s \in Seats, Day(st) \in Dates
  PROVE  LET r == Consumed(st, s)
             taken == {q \in st.queued[s] : Asks(st, s) /\ q.day = Day(st)}
         IN  /\ r \in EpisodeState
             /\ SamePlay(r, st) /\ SameEnd(r, st) /\ SameLabor(r, st) /\ SameDigests(r, st)
             /\ r.planned_days = st.planned_days /\ r.transition_index = st.transition_index
             /\ r.diverged = st.diverged
             /\ r.queued = [st.queued EXCEPT ![s] = @ \ taken]
             /\ r.consumed = [st.consumed EXCEPT ![s] = @ \cup taken]
             /\ r.agent_day = [st.agent_day EXCEPT ![s] = IF Asks(st, s) THEN Day(st) ELSE @]
<1> DEFINE taken == {q \in st.queued[s] : Asks(st, s) /\ q.day = Day(st)}
           Q == [st.queued EXCEPT ![s] = @ \ taken]
           C == [st.consumed EXCEPT ![s] = @ \cup taken]
           A == [st.agent_day EXCEPT ![s] = IF Asks(st, s) THEN Day(st) ELSE @]
           r == [st EXCEPT !.queued = Q, !.consumed = C, !.agent_day = A]
<1>1. /\ st.queued \in [Seats -> SUBSET Planned] /\ st.consumed \in [Seats -> SUBSET Planned]
      /\ st.agent_day \in [Seats -> Int \cup {None}] /\ Day(st) \in Int
  BY Calendar DEF EpisodeState, Dates
<1>2. /\ Q \in [Seats -> SUBSET Planned] /\ C \in [Seats -> SUBSET Planned]
      /\ A \in [Seats -> Int \cup {None}]
  BY <1>1
<1>3. Consumed(st, s) = r
  <2>1. CASE Asks(st, s)
    <3>1. PlansFor(st, s) = taken
      BY <2>1 DEF PlansFor
    <3> QED BY <2>1, <3>1 DEF Consumed, EpisodeState
  <2>2. CASE ~Asks(st, s)
    <3>1. taken = {}
      BY <2>2
    <3>2. Q = st.queued /\ C = st.consumed /\ A = st.agent_day
      BY <1>1, <2>2, <3>1
    <3> HIDE DEF Q, C, A
    <3>3. r = st
      BY <3>2 DEF EpisodeState
    <3> QED BY <2>2, <3>3 DEF Consumed
  <2> QED BY <2>1, <2>2
<1> HIDE DEF Q, C, A
<1>4. r \in EpisodeState
  BY <1>2 DEF EpisodeState
<1>5. /\ SamePlay(r, st) /\ SameEnd(r, st) /\ SameLabor(r, st) /\ SameDigests(r, st)
      /\ r.planned_days = st.planned_days /\ r.transition_index = st.transition_index
      /\ r.diverged = st.diverged
      /\ r.queued = Q /\ r.consumed = C /\ r.agent_day = A
  BY DEF EpisodeState, SamePlay, SameEnd, SameLabor, SameDigests
<1> HIDE DEF r
<1> QED BY <1>3, <1>4, <1>5 DEF Q, C, A

\* The executor of seat s has yet to play the day, and what it takes of the queue for it.
Wants(st, g, s) == (g[s] \/ Day(st) >= StartDay) /\ st.agent_day[s] # Day(st)
Taken(st, g, s) == {q \in st.queued[s] : Wants(st, g, s) /\ q.day = Day(st)}

IsActed(r, st, g) ==
  /\ SamePlay(r, st) /\ SameEnd(r, st) /\ SameLabor(r, st)
  /\ r.planned_days = st.planned_days /\ r.transition_index = st.transition_index
  /\ r.day_digests = st.day_digests
  /\ r.day_hashers = [st.day_hashers EXCEPT ![Day(st)] = Append(@, Hour(st))]
  /\ \A s \in Seats :
       /\ r.queued[s] = st.queued[s] \ Taken(st, g, s)
       /\ r.consumed[s] = st.consumed[s] \cup Taken(st, g, s)
       /\ r.agent_day[s] = IF Wants(st, g, s) THEN Day(st) ELSE st.agent_day[s]

\* A turn of a game as far as its executors are concerned.
LEMMA ActedIs ==
  ASSUME NEW st \in EpisodeState, NEW g \in [Seats -> BOOLEAN], Day(st) \in Dates,
         Hour(st) \in Nat
  PROVE  LET r == Hashed(Consumed(Consumed([st EXCEPT !.diverged = g], 0), 1))
         IN  r \in EpisodeState /\ IsActed(r, st, g)
<1> DEFINE a == [st EXCEPT !.diverged = g]
           b == Consumed(a, 0)
           c == Consumed(b, 1)
           r == Hashed(c)
           asks(s) == Wants(st, g, s)
           taken(s) == Taken(st, g, s)
           today == Day(st)
<1>0. 0 \in Seats /\ 1 \in Seats /\ Seats = {0, 1}
  BY DEF Seats
<1>1. /\ a \in EpisodeState
      /\ SamePlay(a, st) /\ SameEnd(a, st) /\ SameLabor(a, st) /\ SameDigests(a, st)
      /\ a.planned_days = st.planned_days /\ a.transition_index = st.transition_index
      /\ a.queued = st.queued /\ a.consumed = st.consumed /\ a.agent_day = st.agent_day
      /\ a.diverged = g
  BY DEF EpisodeState, SamePlay, SameEnd, SameLabor, SameDigests
<1> HIDE DEF a
<1>2. /\ Day(a) = today /\ Hour(a) = Hour(st)
      /\ \A s \in Seats : Asks(a, s) <=> asks(s)
  <2>1. a.step = st.step
    BY <1>1 DEF SamePlay
  <2>2. Day(a) = Day(st) /\ Hour(a) = Hour(st)
    BY <2>1 DEF Day, Hour
  <2> QED BY <2>2, <1>1 DEF Asks, Delegated, Wants
<1>3. /\ b \in EpisodeState
      /\ SamePlay(b, a) /\ SameEnd(b, a) /\ SameLabor(b, a) /\ SameDigests(b, a)
      /\ b.planned_days = a.planned_days /\ b.transition_index = a.transition_index
      /\ b.diverged = a.diverged
      /\ b.queued = [st.queued EXCEPT ![0] = @ \ taken(0)]
      /\ b.consumed = [st.consumed EXCEPT ![0] = @ \cup taken(0)]
      /\ b.agent_day = [st.agent_day EXCEPT ![0] = IF asks(0) THEN today ELSE @]
  <2>1. {q \in a.queued[0] : Asks(a, 0) /\ q.day = Day(a)} = taken(0)
    BY <1>0, <1>1, <1>2 DEF Taken
  <2> DEFINE k == {q \in a.queued[0] : Asks(a, 0) /\ q.day = Day(a)}
  <2>2. /\ b \in EpisodeState
        /\ SamePlay(b, a) /\ SameEnd(b, a) /\ SameLabor(b, a) /\ SameDigests(b, a)
        /\ b.planned_days = a.planned_days /\ b.transition_index = a.transition_index
        /\ b.diverged = a.diverged
        /\ b.queued = [a.queued EXCEPT ![0] = @ \ k]
        /\ b.consumed = [a.consumed EXCEPT ![0] = @ \cup k]
        /\ b.agent_day = [a.agent_day EXCEPT ![0] = IF Asks(a, 0) THEN Day(a) ELSE @]
    BY <1>0, <1>1, <1>2, ConsumedIs
  <2>3. k = taken(0)
    BY <2>1
  <2> HIDE DEF k, b, taken, asks, today
  <2>4. Asks(a, 0) <=> asks(0)
    BY <1>0, <1>2
  <2>5. b.agent_day = [st.agent_day EXCEPT ![0] = IF asks(0) THEN today ELSE @]
    <3>1. CASE asks(0)
      BY <3>1, <2>2, <2>4, <1>1, <1>2
    <3>2. CASE ~asks(0)
      BY <3>2, <2>2, <2>4, <1>1, <1>2
    <3> QED BY <3>1, <3>2
  <2> QED BY <2>2, <2>3, <2>5, <1>1
<1> HIDE DEF b
<1>4. /\ st.queued \in [Seats -> SUBSET Planned] /\ st.consumed \in [Seats -> SUBSET Planned]
      /\ st.agent_day \in [Seats -> Int \cup {None}]
  BY DEF EpisodeState
<1>5. /\ Day(b) = today /\ Hour(b) = Hour(st) /\ (Asks(b, 1) <=> asks(1))
      /\ b.queued[1] = st.queued[1] /\ b.consumed[1] = st.consumed[1]
      /\ b.agent_day[1] = st.agent_day[1]
  <2>1. b.step = st.step /\ b.diverged = g
    BY <1>1, <1>3 DEF SamePlay
  <2>2. Day(b) = Day(st) /\ Hour(b) = Hour(st)
    BY <2>1 DEF Day, Hour
  <2>3. /\ b.queued[1] = st.queued[1] /\ b.consumed[1] = st.consumed[1]
        /\ b.agent_day[1] = st.agent_day[1]
    BY <1>0, <1>3, <1>4
  <2> QED BY <2>1, <2>2, <2>3 DEF Asks, Delegated, Wants
<1>6. /\ c \in EpisodeState
      /\ SamePlay(c, b) /\ SameEnd(c, b) /\ SameLabor(c, b) /\ SameDigests(c, b)
      /\ c.planned_days = b.planned_days /\ c.transition_index = b.transition_index
      /\ c.queued = [b.queued EXCEPT ![1] = @ \ taken(1)]
      /\ c.consumed = [b.consumed EXCEPT ![1] = @ \cup taken(1)]
      /\ c.agent_day = [b.agent_day EXCEPT ![1] = IF asks(1) THEN today ELSE @]
  <2> DEFINE k == {q \in b.queued[1] : Asks(b, 1) /\ q.day = Day(b)}
  <2>1. k = taken(1)
    BY <1>5 DEF Taken
  <2>2. /\ c \in EpisodeState
        /\ SamePlay(c, b) /\ SameEnd(c, b) /\ SameLabor(c, b) /\ SameDigests(c, b)
        /\ c.planned_days = b.planned_days /\ c.transition_index = b.transition_index
        /\ c.queued = [b.queued EXCEPT ![1] = @ \ k]
        /\ c.consumed = [b.consumed EXCEPT ![1] = @ \cup k]
        /\ c.agent_day = [b.agent_day EXCEPT ![1] = IF Asks(b, 1) THEN Day(b) ELSE @]
    BY <1>0, <1>3, <1>5, ConsumedIs
  <2> HIDE DEF k, c, taken, asks, today
  <2>3. c.agent_day = [b.agent_day EXCEPT ![1] = IF asks(1) THEN today ELSE @]
    <3>1. CASE asks(1)
      BY <3>1, <2>2, <1>5
    <3>2. CASE ~asks(1)
      BY <3>2, <2>2, <1>5
    <3> QED BY <3>1, <3>2
  <2> QED BY <2>1, <2>2, <2>3
<1> HIDE DEF c
<1>7. \A s \in Seats :
        /\ c.queued[s] = st.queued[s] \ taken(s)
        /\ c.consumed[s] = st.consumed[s] \cup taken(s)
        /\ c.agent_day[s] = IF asks(s) THEN today ELSE st.agent_day[s]
  <2> HIDE DEF taken, asks, today
  <2> QED BY <1>0, <1>3, <1>4, <1>6
<1>8. /\ SamePlay(c, st) /\ SameEnd(c, st) /\ SameLabor(c, st)
      /\ c.planned_days = st.planned_days /\ c.transition_index = st.transition_index
      /\ c.day_digests = st.day_digests /\ c.day_hashers = st.day_hashers
  BY <1>1, <1>3, <1>6 DEF SamePlay, SameEnd, SameLabor, SameDigests
<1>9. Day(c) = today /\ Hour(c) = Hour(st)
  BY <1>8 DEF SamePlay, Day, Hour
<1> DEFINE H == [st.day_hashers EXCEPT ![today] = Append(@, Hour(st))]
<1>10. H \in [Dates -> Seq(Nat)]
  BY DEF EpisodeState
<1>11. r = [c EXCEPT !.day_hashers = H]
  BY <1>6, <1>8, <1>9 DEF Hashed, EpisodeState
<1> HIDE DEF H, r
<1>12. r \in EpisodeState
  BY <1>6, <1>10, <1>11 DEF EpisodeState
<1>13. /\ SamePlay(r, c) /\ SameEnd(r, c) /\ SameLabor(r, c)
       /\ r.planned_days = c.planned_days /\ r.transition_index = c.transition_index
       /\ r.day_digests = c.day_digests /\ r.day_hashers = H
       /\ r.queued = c.queued /\ r.consumed = c.consumed /\ r.agent_day = c.agent_day
  BY <1>6, <1>11 DEF EpisodeState, SamePlay, SameEnd, SameLabor
<1>14. SamePlay(r, st) /\ SameEnd(r, st) /\ SameLabor(r, st)
  BY <1>8, <1>13 DEF SamePlay, SameEnd, SameLabor
<1> QED BY <1>7, <1>8, <1>12, <1>13, <1>14 DEF H, r, c, b, a, IsActed

-----------------------------------------------------------------------------
(* The end of a game. *)

LEMMA ClosedIs ==
  ASSUME NEW st \in EpisodeState, Day(st) \in Dates, Hour(st) \in Nat, Digested(st, Hour(st))
  PROVE  LET r == SealDay([st EXCEPT !.finalized = TRUE], Day(st))
         IN  /\ r \in EpisodeState /\ r.finalized /\ r.truncated = st.truncated
             /\ SamePlay(r, st) /\ SameLabor(r, st) /\ SameDecisions(r, st) /\ SameAgents(r, st)
             /\ Sealed(r)
<1> DEFINE a == [st EXCEPT !.finalized = TRUE]
           today == Day(st)
           r == SealDay(a, today)
<1>1. /\ a \in EpisodeState /\ a.finalized /\ a.truncated = st.truncated
      /\ SamePlay(a, st) /\ SameLabor(a, st) /\ SameDecisions(a, st) /\ SameAgents(a, st)
      /\ SameDigests(a, st)
  BY DEF EpisodeState, SamePlay, SameLabor, SameDecisions, SameAgents, SameDigests
<1> HIDE DEF a
<1>2. /\ r \in EpisodeState
      /\ SamePlay(r, a) /\ SameEnd(r, a) /\ SameLabor(r, a) /\ SameDecisions(r, a)
      /\ SameAgents(r, a)
      /\ r.day_digests = IF a.day_hashers[today] = <<>> THEN a.day_digests
                         ELSE [a.day_digests EXCEPT ![today] = a.day_hashers[today]]
  BY <1>1, SealDayIs
<1> HIDE DEF r
<1>3. /\ SamePlay(r, st) /\ SameLabor(r, st) /\ SameDecisions(r, st) /\ SameAgents(r, st)
      /\ r.finalized /\ r.truncated = st.truncated
  BY <1>1, <1>2 DEF SamePlay, SameEnd, SameLabor, SameDecisions, SameAgents
<1>4. Day(r) = today /\ Hour(r) = Hour(st)
  BY <1>3 DEF SamePlay, Day, Hour
<1>5. a.day_hashers = st.day_hashers /\ a.day_digests = st.day_digests
      /\ st.day_digests \in [Dates -> Seq(Nat)]
  BY <1>1 DEF SameDigests, EpisodeState
<1>6. \A d \in Dates :
        r.day_digests[d] = IF d = today THEN SoFar(Hour(st)) ELSE st.day_digests[d]
  <2>1. st.day_hashers[today] = SoFar(Hour(st)) /\ st.day_digests[today] = <<>>
    <3>1. today \in Int
      BY Calendar DEF Dates
    <3> QED BY <3>1 DEF Digested
  <2> QED BY <2>1, <1>2, <1>5
<1>7. Sealed(r)
  <2> SUFFICES ASSUME NEW d \in Dates
               PROVE  r.day_digests[d] =
                        SoFar(IF d < today THEN Hours ELSE IF d = today THEN Hour(st) ELSE 0)
    BY <1>4 DEF Sealed
  <2>1. d \in Int /\ today \in Int
    BY Calendar DEF Dates
  <2>2. SoFar(0) = <<>>
    BY SoFarIs
  <2>3. st.day_digests[d] = IF d < today THEN SoFar(Hours) ELSE <<>>
    BY DEF Digested
  <2> QED BY <1>6, <2>1, <2>2, <2>3
<1> QED BY <1>2, <1>3, <1>7 DEF r, a

RowKept(a, b) ==
  /\ a.episode = b.episode /\ a.seat = b.seat /\ a.day = b.day /\ a.trainable = b.trainable
  /\ a.plan = b.plan /\ a.value = b.value

\* A row is found by the index; what is patched into it is the digest of its day and, if it
\* is the last of its seat, the reward and the ending.
LEMMA PatchedIs ==
  ASSUME RowsTypes, NEW st \in EpisodeState, NEW e, NEW reward \in [Seats -> Int]
  PROVE  LET p == Patched(st, e, reward)
         IN  /\ p \in Seq(Row0) /\ Len(p) = Len(rows)
             /\ \A k \in 1..Len(rows) :
                  /\ RowKept(p[k], rows[k])
                  /\ p[k].digest = IF \E t \in st.transition_index : t.row = k
                                   THEN st.day_digests[rows[k].day] ELSE rows[k].digest
                  /\ IF \E t \in LastOf(st, 0) \cup LastOf(st, 1) : t.row = k
                     THEN /\ p[k].reward = reward[rows[k].seat]
                          /\ p[k].terminated = ~st.truncated /\ p[k].truncated = st.truncated
                     ELSE /\ p[k].reward = rows[k].reward
                          /\ p[k].terminated = rows[k].terminated
                          /\ p[k].truncated = rows[k].truncated
<1> DEFINE p == Patched(st, e, reward)
           own(k) == {t \in st.transition_index : t.row = k}
           last(k) == {t \in LastOf(st, 0) \cup LastOf(st, 1) : t.row = k}
           digested(k) == IF own(k) = {} THEN rows[k]
                          ELSE [rows[k] EXCEPT !.digest = st.day_digests[rows[k].day]]
           new(k) == IF last(k) = {} THEN digested(k)
                     ELSE [digested(k) EXCEPT !.reward = reward[rows[k].seat],
                                              !.terminated = ~st.truncated,
                                              !.truncated = st.truncated]
           n == Len(rows)
<1>1. n \in Nat /\ DOMAIN rows = 1..n /\ \A k \in 1..n : rows[k] \in Row0
  BY DEF RowsTypes
<1>2. p = [k \in 1..n |-> new(k)]
  BY <1>1 DEF Patched
<1> HIDE DEF p, own, last, digested, n
<1>3. ASSUME NEW k \in 1..n
      PROVE  /\ digested(k) \in Row0 /\ RowKept(digested(k), rows[k])
             /\ digested(k).digest = IF own(k) = {} THEN rows[k].digest
                                     ELSE st.day_digests[rows[k].day]
             /\ digested(k).reward = rows[k].reward
             /\ digested(k).terminated = rows[k].terminated
             /\ digested(k).truncated = rows[k].truncated
  <2> DEFINE g == st.day_digests[rows[k].day]
             row == rows[k]
  <2>1. row \in Row0 /\ g \in Seq(Nat)
    BY <1>1 DEF EpisodeState, Row0
  <2> HIDE DEF g, row
  <2> DEFINE q == [row EXCEPT !.digest = g]
  <2>2. /\ q \in Row0 /\ RowKept(q, row) /\ q.digest = g /\ q.reward = row.reward
        /\ q.terminated = row.terminated /\ q.truncated = row.truncated
    BY <2>1 DEF Row0, RowKept
  <2>3. RowKept(row, row)
    BY DEF RowKept
  <2>4. digested(k) = IF own(k) = {} THEN row ELSE q
    BY DEF digested, row, g
  <2> HIDE DEF q
  <2>5. CASE own(k) = {}
    BY <2>1, <2>3, <2>4, <2>5 DEF row
  <2>6. CASE own(k) # {}
    BY <2>2, <2>4, <2>6 DEF row, g
  <2> QED BY <2>5, <2>6
<1>4. ASSUME NEW k \in 1..n
      PROVE  /\ new(k) \in Row0 /\ RowKept(new(k), rows[k])
             /\ new(k).digest = IF own(k) = {} THEN rows[k].digest
                                ELSE st.day_digests[rows[k].day]
             /\ IF last(k) = {}
                THEN /\ new(k).reward = rows[k].reward
                     /\ new(k).terminated = rows[k].terminated
                     /\ new(k).truncated = rows[k].truncated
                ELSE /\ new(k).reward = reward[rows[k].seat]
                     /\ new(k).terminated = ~st.truncated /\ new(k).truncated = st.truncated
  <2> DEFINE g == reward[rows[k].seat]
             f == ~st.truncated
             u == st.truncated
             row == digested(k)
             q == [row EXCEPT !.reward = g, !.terminated = f, !.truncated = u]
  <2>1. g \in Int /\ f \in BOOLEAN /\ u \in BOOLEAN
    <3>1. rows[k].seat \in Seats
      BY <1>1 DEF Row0
    <3> QED BY <3>1 DEF EpisodeState
  <2>2. row \in Row0
    BY <1>3
  <2>3. new(k) = IF last(k) = {} THEN row ELSE q
    OBVIOUS
  <2> HIDE DEF g, f, u, row
  <2>4. q \in Row0
    BY <2>1, <2>2 DEF Row0
  <2>5. /\ RowKept(q, row) /\ q.digest = row.digest /\ q.reward = g
        /\ q.terminated = f /\ q.truncated = u
    BY <2>2 DEF Row0, RowKept
  <2> HIDE DEF q, new
  <2>6. CASE last(k) = {}
    BY <1>3, <2>2, <2>3, <2>6 DEF row
  <2>7. CASE last(k) # {}
    <3>1. RowKept(q, rows[k])
      BY <1>3, <2>5 DEF RowKept, row
    <3>2. q.digest = IF own(k) = {} THEN rows[k].digest ELSE st.day_digests[rows[k].day]
      BY <1>3, <2>5 DEF row
    <3> QED BY <2>3, <2>4, <2>5, <2>7, <3>1, <3>2 DEF g, f, u
  <2> QED BY <2>6, <2>7
<1> HIDE DEF new
<1>5. p \in [1..n -> Row0]
  BY <1>2, <1>4
<1>6. p \in Seq(Row0) /\ Len(p) = n
  BY <1>1, <1>5
<1>7. \A k \in 1..n : p[k] = new(k)
  BY <1>2
<1>8. \A k : (own(k) = {} <=> ~\E t \in st.transition_index : t.row = k)
  BY DEF own
<1>9. \A k : (last(k) = {} <=> ~\E t \in LastOf(st, 0) \cup LastOf(st, 1) : t.row = k)
  BY DEF last
<1>10. ASSUME NEW k \in 1..n
       PROVE  /\ RowKept(p[k], rows[k])
              /\ p[k].digest = IF \E t \in st.transition_index : t.row = k
                               THEN st.day_digests[rows[k].day] ELSE rows[k].digest
              /\ IF \E t \in LastOf(st, 0) \cup LastOf(st, 1) : t.row = k
                 THEN /\ p[k].reward = reward[rows[k].seat]
                      /\ p[k].terminated = ~st.truncated /\ p[k].truncated = st.truncated
                 ELSE /\ p[k].reward = rows[k].reward
                      /\ p[k].terminated = rows[k].terminated
                      /\ p[k].truncated = rows[k].truncated
  <2>1. p[k] = new(k)
    BY <1>7
  <2>2. p[k].digest = IF \E t \in st.transition_index : t.row = k
                      THEN st.day_digests[rows[k].day] ELSE rows[k].digest
    BY <2>1, <1>4, <1>8
  <2>3. CASE last(k) = {}
    BY <2>1, <2>2, <2>3, <1>4, <1>9
  <2>4. CASE last(k) # {}
    BY <2>1, <2>2, <2>4, <1>4, <1>9
  <2> QED BY <2>3, <2>4
<1> QED BY <1>6, <1>10 DEF p, n

-----------------------------------------------------------------------------
(* Every action keeps the games in order. *)

LEMMA GamesInit == Init => GamesOK
<1> SUFFICES ASSUME Init PROVE GamesOK
  OBVIOUS
<1>1. /\ max_turns \in Nat /\ capacity \in Nat /\ turn = 0 /\ phase = "chunk" /\ rows = <<>>
      /\ chunk = <<>> /\ waiting = [k \in Episodes |-> k] /\ state = [e \in Episodes |-> Unplayed]
  BY SelfPlayAssumption DEF Init
<1>2. Days * Hours \in Nat /\ Days * Hours >= 2
  <2>1. 1 * Hours <= Days * Hours
    BY Calendar, Monotone
  <2> QED BY <2>1, Calendar
<1>3. \A e \in Episodes : state[e] = Unplayed
  BY <1>1
<1>4. LoopTypes
  BY <1>1, UnplayedIs DEF LoopTypes, Phases
<1>5. RowsTypes
  BY <1>1 DEF RowsTypes
<1>6. LinesOK
  <2>1. NumEpisodes \in Nat
    BY Calendar
  <2>2. waiting \in Seq(Episodes) /\ Len(waiting) = NumEpisodes
    <3>1. waiting \in [1..NumEpisodes -> Episodes]
      BY <1>1 DEF Episodes
    <3> QED BY <3>1, <2>1
  <2>3. \A j, k \in 1..Len(waiting) : waiting[j] = waiting[k] => j = k
    BY <1>1, <2>2 DEF Episodes
  <2>4. chunk \in Seq(Episodes) /\ Len(chunk) = 0 /\ Range(chunk) = {}
    BY <1>1 DEF Range
  <2>5. \A e \in Range(waiting) : e \in Episodes
    BY <1>1 DEF Range
  <2> QED BY <2>2, <2>3, <2>4, <2>5, <1>3 DEF LinesOK
<1>7. ClocksOK
  BY <1>2, <1>3, UnplayedIs DEF ClocksOK
<1>8. EndsOK
  BY <1>3, UnplayedIs DEF EndsOK
<1>9. LaborOK
  BY <1>1, <1>3, UnplayedIs DEF LaborOK, LaborSeen, Range
<1>10. Digested(Unplayed, 0)
  <2>1. SoFar(0) = <<>>
    BY SoFarIs
  <2>2. \A d \in Dates : ~(d < 0)
    BY Calendar DEF Dates
  <2> QED BY <2>1, <2>2, UnplayedIs DEF Digested
<1>11. DigestsOK
  <2> SUFFICES ASSUME NEW e \in Episodes PROVE Digested(state[e], TurnsIn(e))
    BY <1>3, UnplayedIs DEF DigestsOK
  <2>1. TurnsIn(e) = 0
    BY <1>1, <1>3, UnplayedIs DEF TurnsIn
  <2> QED BY <2>1, <1>3, <1>10
<1> QED BY <1>4, <1>5, <1>6, <1>7, <1>8, <1>9, <1>11 DEF GamesOK

\* Nothing but the phase and the turn's bookkeeping changes.
LEMMA GamesIdle ==
  ASSUME GamesOK, NoMoreChunks \/ NextTurn \/ ChunkDone \/ UNCHANGED vars
  PROVE  GamesOK'
<1>1. UNCHANGED <<casting, max_turns, capacity, waiting, chunk, state, rows, results, turn>>
  BY DEF NoMoreChunks, NextTurn, ChunkDone, vars, setup
<1>2. \/ phase' = phase
      \/ phase = "chunk" /\ phase' = "returned"
      \/ phase = "finish" /\ phase' = "decide"
      \/ phase = "decide" /\ LoopOver /\ phase' = "chunk"
  BY DEF NoMoreChunks, NextTurn, ChunkDone, vars
<1>3. LoopTypes'
  BY <1>1, <1>2 DEF GamesOK, LoopTypes, Phases
<1>4. RowsTypes' /\ LinesOK' /\ ClocksOK' /\ LaborOK'
  BY <1>1, <1>2
     DEF GamesOK, RowsTypes, LinesOK, ClocksOK, LaborOK, Range
<1>5. EndsOK'
  BY <1>1, <1>2 DEF GamesOK, EndsOK, Range
<1>6. DigestsOK'
  <2>1. Playing' = Playing
    BY <1>1 DEF Playing
  <2>2. \A e \in Episodes : TurnsIn(e)' = TurnsIn(e)
    BY <1>1, <1>2, <2>1 DEF TurnsIn
  <2>3. phase' # "raised" => phase # "raised"
    BY <1>2
  <2> QED BY <1>1, <2>2, <2>3 DEF GamesOK, DigestsOK
<1> QED BY <1>3, <1>4, <1>5, <1>6 DEF GamesOK

\* The games of the next chunk are taken off the front of those that wait.
LEMMA LinesNext ==
  ASSUME GamesOK, NextChunk
  PROVE  /\ waiting' \in Seq(Episodes) /\ chunk' \in Seq(Episodes)
         /\ \A j, k \in 1..Len(waiting') : waiting'[j] = waiting'[k] => j = k
         /\ \A j, k \in 1..Len(chunk') : chunk'[j] = chunk'[k] => j = k
         /\ \A e \in Range(waiting)' : e \notin Range(chunk)' /\ e \in Range(waiting)
         /\ \A e \in Range(chunk)' : e \in Range(waiting)
<1> DEFINE size == Min({NumEnvs, Len(waiting)})
           n == Len(waiting)
           front == SubSeq(waiting, 1, size)
           back == SubSeq(waiting, size + 1, n)
<1>1. /\ waiting \in Seq(Episodes) /\ n \in Nat
      /\ \A j, k \in 1..n : waiting[j] = waiting[k] => j = k
  BY DEF GamesOK, LinesOK
<1>2. size \in Nat /\ size <= n
  BY <1>1, Calendar, MinOfTwo
<1>3. chunk' = front /\ waiting' = back
  BY DEF NextChunk
<1> HIDE DEF size, n
<1>4. n = Len(waiting)
  BY DEF n
<1>5. /\ front \in Seq(Episodes) /\ Len(front) = size
      /\ \A j \in 1..size : front[j] = waiting[j]
  BY <1>1, <1>2, <1>4
<1>6. /\ back \in Seq(Episodes) /\ Len(back) = n - size
      /\ \A j \in 1..(n - size) : back[j] = waiting[size + j]
  <2>1. \A j \in (size + 1)..n : waiting[j] \in Episodes
    BY <1>1, <1>2, <1>4
  <2>2. back = [j \in 1..(n - size) |-> waiting[size + j]]
    BY <1>1, <1>2, <1>4
  <2>3. \A j \in 1..(n - size) : size + j \in (size + 1)..n
    BY <1>1, <1>2
  <2>4. back \in [1..(n - size) -> Episodes] /\ n - size \in Nat
    <3>1. \A j \in 1..(n - size) : waiting[size + j] \in Episodes
      BY <2>1, <2>3
    <3>2. n - size \in Nat
      BY <1>1, <1>2
    <3> HIDE DEF back
    <3> QED BY <3>1, <3>2, <2>2
  <2> HIDE DEF back
  <2> QED BY <2>2, <2>4
<1> HIDE DEF front, back
<1>7. ASSUME NEW j \in 1..Len(front), NEW k \in 1..Len(front), front[j] = front[k] PROVE j = k
  <2>1. j \in 1..n /\ k \in 1..n
    BY <1>1, <1>2, <1>5
  <2> QED BY <1>1, <1>5, <1>7, <2>1
<1>8. ASSUME NEW j \in 1..Len(back), NEW k \in 1..Len(back), back[j] = back[k] PROVE j = k
  <2>1. size + j \in 1..n /\ size + k \in 1..n
    BY <1>1, <1>2, <1>6
  <2>2. size + j = size + k
    BY <1>1, <1>6, <1>8, <2>1
  <2> QED BY <2>2, <1>2
<1>9. ASSUME NEW j \in 1..Len(back), NEW k \in 1..Len(front) PROVE back[j] # front[k]
  <2>1. size + j \in 1..n /\ k \in 1..n /\ size + j # k
    BY <1>1, <1>2, <1>5, <1>6
  <2> QED BY <1>1, <1>5, <1>6, <2>1
<1>10. ASSUME NEW j \in 1..Len(back) PROVE back[j] \in Range(waiting)
  <2>1. size + j \in 1..n /\ DOMAIN waiting = 1..n
    BY <1>1, <1>2, <1>4, <1>6
  <2> QED BY <2>1, <1>6 DEF Range
<1>11. ASSUME NEW k \in 1..Len(front) PROVE front[k] \in Range(waiting)
  <2>1. k \in 1..n /\ DOMAIN waiting = 1..n
    BY <1>1, <1>2, <1>4, <1>5
  <2> QED BY <2>1, <1>5 DEF Range
<1>12. DOMAIN front = 1..Len(front) /\ DOMAIN back = 1..Len(back)
  BY <1>5, <1>6
<1>13. Range(waiting)' = {back[j] : j \in 1..Len(back)}
  BY <1>3, <1>12 DEF Range
<1>14. Range(chunk)' = {front[j] : j \in 1..Len(front)}
  BY <1>3, <1>12 DEF Range
<1> QED BY <1>3, <1>5, <1>6, <1>7, <1>8, <1>9, <1>10, <1>11, <1>13, <1>14

LEMMA GamesNextChunk == ASSUME GamesOK, NextChunk PROVE GamesOK'
<1> DEFINE r == ObserveReset(Unplayed)
<1>1. /\ r \in EpisodeState
      /\ SamePlay(r, Unplayed) /\ SameEnd(r, Unplayed) /\ SameDecisions(r, Unplayed)
      /\ SameAgents(r, Unplayed) /\ SameDigests(r, Unplayed)
      /\ Begun(r) /\ LaborSeen(r)
  BY ResetIs
<1>2. /\ phase = "chunk" /\ phase' = "decide" /\ turn' = 0
      /\ UNCHANGED <<casting, max_turns, capacity, rows, results>>
      /\ state' = [e \in Episodes |-> IF \E k \in DOMAIN chunk' : chunk'[k] = e
                                      THEN r ELSE state[e]]
  BY DEF NextChunk, setup
<1> HIDE DEF r
<1>3. \A e \in Episodes : state'[e] = IF e \in Range(chunk)' THEN r ELSE state[e]
  BY <1>2 DEF Range
<1>4. /\ waiting' \in Seq(Episodes) /\ chunk' \in Seq(Episodes)
      /\ \A j, k \in 1..Len(waiting') : waiting'[j] = waiting'[k] => j = k
      /\ \A j, k \in 1..Len(chunk') : chunk'[j] = chunk'[k] => j = k
      /\ \A e \in Range(waiting)' : e \notin Range(chunk)' /\ e \in Range(waiting)
      /\ \A e \in Range(chunk)' : e \in Range(waiting)
  BY LinesNext
<1>5. Range(waiting) \subseteq Episodes
  BY PlayingIs DEF GamesOK
<1>6. /\ r.step = 0 /\ ~r.done /\ ~r.truncated /\ ~r.finalized /\ Day(r) = 0 /\ Hour(r) = 0
  BY <1>1, UnplayedIs DEF SamePlay, SameEnd, Day, Hour
<1>7. LoopTypes'
  BY <1>1, <1>2 DEF GamesOK, LoopTypes, Phases
<1>8. RowsTypes'
  BY <1>2 DEF GamesOK, RowsTypes
<1>9. LinesOK'
  BY <1>3, <1>4, <1>5 DEF GamesOK, LinesOK
<1>10. ClocksOK'
  <2>1. Days * Hours \in Nat /\ Days * Hours >= 2
    <3>1. 1 * Hours <= Days * Hours
      BY Calendar, Monotone
    <3> QED BY <3>1, Calendar
  <2> QED BY <1>3, <1>6, <2>1 DEF GamesOK, ClocksOK
<1>11. EndsOK'
  BY <1>3, <1>6 DEF GamesOK, EndsOK
<1>12. LaborOK'
  <2>1. Range(chunk)' \subseteq Episodes
    BY <1>4, <1>5
  <2> QED BY <1>1, <1>3, <2>1 DEF GamesOK, LaborOK
<1>13. Digested(r, 0)
  <2>1. SoFar(0) = <<>>
    BY SoFarIs
  <2>2. \A d \in Dates : ~(d < 0)
    BY Calendar DEF Dates
  <2>3. r.day_hashers = Unplayed.day_hashers /\ r.day_digests = Unplayed.day_digests
    BY <1>1 DEF SameDigests
  <2> QED BY <2>1, <2>2, <2>3, <1>6, UnplayedIs DEF Digested
<1>14. DigestsOK'
  <2>1. \A e \in Episodes : TurnsIn(e)' = Hour(state'[e])
    <3>1. \A e \in Episodes : Hour(state'[e]) \in Int
      BY <1>7, Clocked, Calendar DEF LoopTypes, EpisodeState, Hour
    <3> QED BY <1>2, <3>1 DEF TurnsIn
  <2>2. \A e \in Episodes : TurnsIn(e) = Hour(state[e])
    <3>1. \A e \in Episodes : Hour(state[e]) \in Int
      BY Clocked, Calendar DEF GamesOK, LoopTypes, EpisodeState, Hour
    <3> QED BY <1>2, <3>1 DEF TurnsIn
  <2> SUFFICES ASSUME NEW e \in Episodes
               PROVE  IF state'[e].finalized THEN Sealed(state'[e])
                      ELSE Digested(state'[e], Hour(state'[e]))
    BY <2>1 DEF DigestsOK
  <2>3. CASE e \in Range(chunk)'
    BY <2>3, <1>3, <1>6, <1>13
  <2>4. CASE e \notin Range(chunk)'
    BY <2>4, <1>2, <1>3, <2>2 DEF GamesOK, DigestsOK
  <2> QED BY <2>3, <2>4
<1> QED BY <1>7, <1>8, <1>9, <1>10, <1>11, <1>12, <1>14 DEF GamesOK

\* A game that is not asked of is left as it is.
LEMMA RecordedNot ==
  ASSUME GamesOK, NEW e \in Episodes, e \notin Playing
  PROVE  Recorded(e, Batch) = state[e]
<1> DEFINE st == state[e]
           Q == [s \in Seats |-> st.queued[s] \cup
                   {[day |-> Day(st), plan |-> Batch[k].plan] : k \in Mine(e, s, Room + 1)}]
           T == st.transition_index \cup UNION
                  {{[seat |-> s, day |-> Day(st), row |-> Len(rows) + k] : k \in Mine(e, s, Room)} :
                     s \in Seats}
           P == [s \in Seats |-> st.planned_days[s] \cup {Day(st) : k \in Mine(e, s, Room)}]
           r == [st EXCEPT !.queued = Q, !.transition_index = T, !.planned_days = P]
<1>1. st \in EpisodeState
  BY DEF GamesOK, LoopTypes
<1>2. Recorded(e, Batch) = r
  BY <1>1 DEF Recorded, Mine, EpisodeState
<1>3. /\ Batch \in Seq(Decision)
      /\ \A k \in 1..Len(Batch) : Batch[k].request.episode \in Playing
  BY BatchIs DEF GamesOK
<1>4. ASSUME NEW n \in Int, NEW s PROVE Mine(e, s, n) = {}
  <2>1. Len(Batch) \in Nat
    BY <1>3
  <2>2. Min({n, Len(Batch)}) = IF n <= Len(Batch) THEN n ELSE Len(Batch)
    BY <2>1, MinOfTwo
  <2>3. 1..Min({n, Len(Batch)}) \subseteq 1..Len(Batch)
    BY <2>1, <2>2
  <2> QED BY <2>3, <1>3 DEF Mine
<1>5. Room \in Int /\ Room + 1 \in Int
  BY DEF GamesOK, RowsTypes, Room
<1>6. \A s : Mine(e, s, Room) = {} /\ Mine(e, s, Room + 1) = {}
  BY <1>4, <1>5
<1>7. /\ st.queued \in [Seats -> SUBSET Planned] /\ st.planned_days \in [Seats -> SUBSET Dates]
  BY <1>1 DEF EpisodeState
<1> HIDE DEF st
<1>8. Q = st.queued
  <2>1. Q = [s \in Seats |-> st.queued[s]]
    BY <1>6
  <2> QED BY <2>1, <1>7
<1>9. P = st.planned_days
  <2>1. P = [s \in Seats |-> st.planned_days[s]]
    BY <1>6
  <2> QED BY <2>1, <1>7
<1>10. T = st.transition_index
  BY <1>6
<1> HIDE DEF Q, P, T
<1>11. r = st
  BY <1>1, <1>8, <1>9, <1>10 DEF EpisodeState
<1> QED BY <1>2, <1>11 DEF st

\* A decision's row, as the trajectory buffer holds it.
LEMMA RowIs ==
  ASSUME GamesOK, NEW k \in 1..Len(Batch)
  PROVE  LET q == Batch[k].request
             row == Row(Batch[k])
         IN  /\ row \in Row0
             /\ row.episode = q.episode /\ row.seat = q.seat /\ row.day = q.day
             /\ row.trainable = Trainable(q.episode, q.seat) /\ row.plan = Batch[k].plan
             /\ row.value = Estimates[q.day]
             /\ row.reward = 0 /\ ~row.terminated /\ ~row.truncated
<1> DEFINE q == Batch[k].request
           st == state[q.episode]
<1>1. Batch[k] \in Decision
  <2>1. Batch \in Seq(Decision)
    BY BatchIs DEF GamesOK
  <2> QED BY <2>1
<1>2. q \in Asked /\ Batch[k].plan \in Plans
  BY <1>1 DEF Decision
<1>3. q.episode \in Episodes /\ q.seat \in Seats /\ q.day \in Dates
  BY <1>2 DEF Asked
<1>4. /\ st.previous_execution[q.seat] \in Nat
      /\ st.daily_start[q.seat] \in Int \cup {None}
  BY <1>3 DEF GamesOK, LoopTypes, EpisodeState
<1>5. Estimates[q.day] \in Int
  BY <1>3, SelfPlayAssumption
<1>6. Trainable(q.episode, q.seat) \in BOOLEAN
  BY DEF Trainable
<1>7. <<>> \in Seq(Nat)
  OBVIOUS
<1> HIDE DEF q, st
<1> DEFINE row == [episode |-> q.episode, seat |-> q.seat, day |-> q.day,
                   trainable |-> Trainable(q.episode, q.seat), plan |-> Batch[k].plan,
                   workers_hired |-> st.previous_execution[q.seat],
                   prev_start |-> st.daily_start[q.seat],
                   value |-> Estimates[q.day],
                   digest |-> <<>>, reward |-> 0, terminated |-> FALSE, truncated |-> FALSE]
<1>8. Row(Batch[k]) = row
  BY DEF Row, q, st
<1>9. row \in Row0
  <2> DEFINE t == Trainable(q.episode, q.seat)
             w == st.previous_execution[q.seat]
             b == st.daily_start[q.seat]
             v == Estimates[q.day]
             m == Batch[k].plan
  <2>1. t \in BOOLEAN /\ w \in Nat /\ b \in Int \cup {None} /\ v \in Int /\ m \in Plans
    BY <1>2, <1>4, <1>5, <1>6
  <2>2. row = [episode |-> q.episode, seat |-> q.seat, day |-> q.day,
               trainable |-> t, plan |-> m, workers_hired |-> w, prev_start |-> b,
               value |-> v, digest |-> <<>>, reward |-> 0, terminated |-> FALSE,
               truncated |-> FALSE]
    OBVIOUS
  <2> HIDE DEF t, w, b, v, m, row
  <2> QED BY <2>1, <2>2, <1>3, <1>7 DEF Row0
<1> QED BY <1>8, <1>9 DEF q

LEMMA GamesDecide == ASSUME GamesOK, Decide PROVE GamesOK'
<1> DEFINE n == Min({Room, Len(Batch)})
           new == [k \in 1..n |-> Row(Batch[k])]
<1>1. /\ phase = "decide" /\ ~LoopOver
      /\ UNCHANGED <<casting, max_turns, capacity, waiting, chunk, results, turn>>
      /\ state' = [e \in Episodes |-> Recorded(e, Batch)]
      /\ rows' = rows \o new
      /\ phase' = IF Len(Batch) > Room THEN "raised" ELSE "act"
  BY DEF Decide, setup
<1>2. \A e \in Episodes :
        /\ state'[e] \in EpisodeState
        /\ SamePlay(state'[e], state[e]) /\ SameEnd(state'[e], state[e])
        /\ SameLabor(state'[e], state[e]) /\ SameDigests(state'[e], state[e])
  BY <1>1, RecordedIs DEF GamesOK
<1>3. \A e \in Episodes :
        /\ Day(state'[e]) = Day(state[e]) /\ Hour(state'[e]) = Hour(state[e])
        /\ state'[e].step = state[e].step /\ state'[e].done = state[e].done
        /\ state'[e].finalized = state[e].finalized /\ state'[e].truncated = state[e].truncated
  BY <1>2 DEF SamePlay, SameEnd, Day, Hour
<1>4. Range(chunk) \subseteq Episodes /\ Range(waiting) \subseteq Episodes
  BY PlayingIs DEF GamesOK
<1>5. turn < max_turns /\ Playing # {}
  BY <1>1 DEF LoopOver, GamesOK, LoopTypes
<1>6. LoopTypes'
  BY <1>1, <1>2, <1>5 DEF GamesOK, LoopTypes, Phases
<1>7. RowsTypes'
  <2>1. /\ rows \in Seq(Row0) /\ Len(rows) \in Nat /\ capacity \in Nat /\ Room \in Nat
        /\ Room = capacity - Len(rows)
    BY DEF GamesOK, RowsTypes, Room
  <2>2. Len(Batch) \in Nat
    <3>1. Batch \in Seq(Decision)
      BY BatchIs DEF GamesOK
    <3> QED BY <3>1
  <2>3. n \in Nat /\ n <= Room /\ n <= Len(Batch)
    <3>1. n = IF Room <= Len(Batch) THEN Room ELSE Len(Batch)
      BY <2>1, <2>2, MinOfTwo
    <3> HIDE DEF n
    <3> QED BY <3>1, <2>1, <2>2
  <2> HIDE DEF n
  <2>4. new \in [1..n -> Row0]
    <3>1. \A k \in 1..n : k \in 1..Len(Batch)
      BY <2>2, <2>3
    <3>2. \A k \in 1..n : Row(Batch[k]) \in Row0
      BY <3>1, RowIs
    <3> QED BY <3>2
  <2> HIDE DEF new
  <2>5. new \in Seq(Row0) /\ Len(new) = n
    BY <2>3, <2>4
  <2>6. rows \o new \in Seq(Row0) /\ Len(rows \o new) = Len(rows) + Len(new)
    BY <2>1, <2>5
  <2> QED BY <1>1, <2>1, <2>3, <2>5, <2>6 DEF RowsTypes
<1>8. LinesOK'
  <2>1. \A e \in Range(waiting) : e \notin Playing /\ e \in Episodes
    BY <1>4, PlayingIs DEF GamesOK, LinesOK
  <2>2. \A e \in Range(waiting) : state'[e] = Unplayed
    BY <1>1, <2>1, RecordedNot DEF GamesOK, LinesOK
  <2>3. Range(waiting)' = Range(waiting) /\ Range(chunk)' = Range(chunk)
    BY <1>1 DEF Range
  <2> QED BY <1>1, <2>2, <2>3 DEF GamesOK, LinesOK
<1>9. ClocksOK'
  BY <1>3 DEF GamesOK, ClocksOK
<1>10. EndsOK'
  <2>1. \A e \in Range(chunk) : e \in Episodes /\ ~state[e].done => ~state[e].finalized
    BY <1>4, <1>5 DEF GamesOK, EndsOK, LoopTypes
  <2> QED BY <1>1, <1>3, <2>1 DEF GamesOK, EndsOK, Range
<1>11. LaborOK'
  BY <1>1, <1>2, <1>3, <1>4
     DEF GamesOK, LaborOK, LaborSeen, Begun, SameLabor, SamePlay, Range
<1>12. DigestsOK'
  <2> SUFFICES ASSUME NEW e \in Episodes
               PROVE  IF state'[e].finalized THEN Sealed(state'[e])
                      ELSE phase' # "raised" => Digested(state'[e], TurnsIn(e)')
    BY DEF DigestsOK
  <2>1. TurnsIn(e)' = TurnsIn(e)
    BY <1>1, <1>3 DEF TurnsIn
  <2>2. /\ state'[e].day_hashers = state[e].day_hashers
        /\ state'[e].day_digests = state[e].day_digests
    BY <1>2 DEF SameDigests
  <2>3. IF state[e].finalized THEN Sealed(state[e]) ELSE Digested(state[e], TurnsIn(e))
    BY <1>1 DEF GamesOK, DigestsOK
  <2> QED BY <2>1, <2>2, <2>3, <1>3 DEF Sealed, Digested
<1> QED BY <1>6, <1>7, <1>8, <1>9, <1>10, <1>11, <1>12 DEF GamesOK

\* What a turn's executors do to the games that play.
LEMMA ActIs ==
  ASSUME GamesOK, Act
  PROVE  /\ phase = "act" /\ phase' \in {"step", "raised"}
         /\ UNCHANGED <<casting, max_turns, capacity, waiting, chunk, rows, results, turn>>
         /\ \A e \in Episodes \ Playing : state'[e] = state[e]
         /\ \A e \in Playing : \E g \in [Seats -> BOOLEAN] :
              state'[e] = Hashed(Consumed(Consumed([state[e] EXCEPT !.diverged = g], 0), 1))
         /\ state' \in [Episodes -> EpisodeState]
<1>1. PICK failed \in Failures : state' = [e \in Episodes |-> Acted(e, failed)]
  BY DEF Act
<1>2. /\ phase = "act" /\ phase' \in {"step", "raised"}
      /\ UNCHANGED <<casting, max_turns, capacity, waiting, chunk, rows, results, turn>>
  BY DEF Act, setup
<1>3. \A e \in Episodes \ Playing : state'[e] = state[e]
  BY <1>1 DEF Acted
<1>4. ASSUME NEW e \in Playing
      PROVE  \E g \in [Seats -> BOOLEAN] :
               state'[e] = Hashed(Consumed(Consumed([state[e] EXCEPT !.diverged = g], 0), 1))
  <2>1. e \in Episodes
    BY PlayingIs DEF GamesOK
  <2>2. state[e] \in EpisodeState
    BY <2>1 DEF GamesOK, LoopTypes
  <2> DEFINE g == [s \in Seats |-> state[e].diverged[s] \/ <<e, s>> \in failed]
  <2>3. g \in [Seats -> BOOLEAN]
    OBVIOUS
  <2>4. state'[e] = Hashed(Consumed(Consumed([state[e] EXCEPT !.diverged = g], 0), 1))
    <3>1. Seen(e, failed) = [state[e] EXCEPT !.diverged = g]
      BY <2>2 DEF Seen, EpisodeState
    <3> HIDE DEF g
    <3>2. state'[e] = Acted(e, failed)
      BY <1>1, <2>1
    <3> QED BY <3>1, <3>2 DEF Acted
  <2> HIDE DEF g
  <2> QED BY <2>3, <2>4
<1>5. state' \in [Episodes -> EpisodeState]
  <2>1. ASSUME NEW e \in Episodes PROVE state'[e] \in EpisodeState
    <3>1. state[e] \in EpisodeState /\ Day(state[e]) \in Dates /\ Hour(state[e]) \in Nat
      BY DayIs, Calendar DEF GamesOK, LoopTypes, ClocksOK
    <3>2. CASE e \in Playing
      <4>1. PICK g \in [Seats -> BOOLEAN] :
              state'[e] = Hashed(Consumed(Consumed([state[e] EXCEPT !.diverged = g], 0), 1))
        BY <3>2, <1>4
      <4> DEFINE st == state[e]
                 before == [st EXCEPT !.diverged = g]
                 r == Hashed(Consumed(Consumed(before, 0), 1))
      <4>2. st \in EpisodeState /\ Day(st) \in Dates /\ Hour(st) \in Nat
        BY <3>1
      <4>3. r \in EpisodeState
        <5> HIDE DEF st
        <5> QED BY <4>2, ActedIs
      <4> QED BY <4>1, <4>3
    <3>3. CASE e \notin Playing
      BY <3>1, <3>3, <1>3
    <3> QED BY <3>2, <3>3
  <2>2. DOMAIN state' = Episodes /\ state' = [e \in Episodes |-> state'[e]]
    BY <1>1
  <2> QED BY <2>1, <2>2
<1> QED BY <1>2, <1>3, <1>4, <1>5

\* A game in progress is not closed: only the end of its chunk's loop closes one early.
LEMMA PlayingOpen ==
  ASSUME GamesOK, phase \in {"act", "step", "finish"} \/ turn < max_turns, NEW e \in Playing
  PROVE  /\ e \in Episodes /\ e \in Range(chunk) /\ ~state[e].done /\ ~state[e].finalized
         /\ state[e] \in EpisodeState /\ Day(state[e]) \in Dates /\ Hour(state[e]) \in Nat
         /\ state[e].step + 1 <= Days * Hours - 1
         /\ e \notin Range(waiting)
<1>1. e \in Episodes /\ e \in Range(chunk) /\ ~state[e].done
  BY PlayingIs DEF GamesOK
<1>2. state[e] \in EpisodeState /\ state[e].step <= Days * Hours - 1
  BY <1>1 DEF GamesOK, LoopTypes, ClocksOK
<1>3. Day(state[e]) \in Dates /\ Hour(state[e]) \in Nat
  BY <1>2, DayIs, Calendar
<1>4. ~state[e].finalized
  <2>1. turn \in Nat /\ max_turns \in Nat
    BY DEF GamesOK, LoopTypes
  <2>2. state[e].finalized => turn >= max_turns /\ phase \in {"decide", "chunk", "returned"}
    BY <1>1 DEF GamesOK, EndsOK
  <2> QED BY <2>1, <2>2
<1>5. state[e].step + 1 <= Days * Hours - 1
  <2>1. state[e].step # Days * Hours - 1
    BY <1>1 DEF GamesOK, ClocksOK
  <2>2. state[e].step \in Nat /\ Days * Hours \in Nat
    BY <1>2, Calendar DEF EpisodeState
  <2> QED BY <1>2, <2>1, <2>2
<1>6. e \notin Range(waiting)
  BY <1>1 DEF GamesOK, LinesOK
<1> QED BY <1>1, <1>2, <1>3, <1>4, <1>5, <1>6

LEMMA GamesAct == ASSUME GamesOK, Act PROVE GamesOK'
<1>1. /\ phase = "act" /\ phase' \in {"step", "raised"}
      /\ UNCHANGED <<casting, max_turns, capacity, waiting, chunk, rows, results, turn>>
      /\ \A e \in Episodes \ Playing : state'[e] = state[e]
      /\ \A e \in Playing : \E g \in [Seats -> BOOLEAN] :
           state'[e] = Hashed(Consumed(Consumed([state[e] EXCEPT !.diverged = g], 0), 1))
      /\ state' \in [Episodes -> EpisodeState]
  BY ActIs
<1>2. ASSUME NEW e \in Playing
      PROVE  /\ SamePlay(state'[e], state[e]) /\ SameEnd(state'[e], state[e])
             /\ SameLabor(state'[e], state[e])
             /\ state'[e].day_digests = state[e].day_digests
             /\ state'[e].day_hashers = [state[e].day_hashers EXCEPT
                                           ![Day(state[e])] = Append(@, Hour(state[e]))]
  <2>1. PICK g \in [Seats -> BOOLEAN] :
          state'[e] = Hashed(Consumed(Consumed([state[e] EXCEPT !.diverged = g], 0), 1))
    BY <1>1
  <2>2. IsActed(state'[e], state[e], g)
    BY <2>1, <1>1, PlayingOpen, ActedIs
  <2> QED BY <2>2 DEF IsActed
<1>3. \A e \in Episodes :
        /\ Day(state'[e]) = Day(state[e]) /\ Hour(state'[e]) = Hour(state[e])
        /\ state'[e].step = state[e].step /\ state'[e].done = state[e].done
        /\ state'[e].hires = state[e].hires
        /\ state'[e].finalized = state[e].finalized /\ state'[e].truncated = state[e].truncated
        /\ state'[e].last_seen_day = state[e].last_seen_day
        /\ state'[e].hires_current_day = state[e].hires_current_day
  <2> TAKE e \in Episodes
  <2>1. CASE e \in Playing
    BY <2>1, <1>2 DEF SamePlay, SameEnd, SameLabor, Day, Hour
  <2>2. CASE e \notin Playing
    BY <2>2, <1>1
  <2> QED BY <2>1, <2>2
<1>4. Range(chunk) \subseteq Episodes /\ Range(waiting) \subseteq Episodes
  BY PlayingIs DEF GamesOK
<1>5. LoopTypes'
  BY <1>1 DEF GamesOK, LoopTypes, Phases
<1>6. RowsTypes'
  BY <1>1 DEF GamesOK, RowsTypes
<1>7. LinesOK'
  <2>1. \A e \in Range(waiting) : state'[e] = Unplayed
    <3> TAKE e \in Range(waiting)
    <3>1. e \in Episodes \ Playing
      BY <1>1, <1>4, PlayingOpen
    <3> QED BY <3>1, <1>1 DEF GamesOK, LinesOK
  <2>2. Range(waiting)' = Range(waiting) /\ Range(chunk)' = Range(chunk)
    BY <1>1 DEF Range
  <2> QED BY <1>1, <2>1, <2>2 DEF GamesOK, LinesOK
<1>8. ClocksOK'
  BY <1>3 DEF GamesOK, ClocksOK
<1>9. EndsOK'
  BY <1>1, <1>3 DEF GamesOK, EndsOK, Range
<1>10. LaborOK'
  BY <1>1, <1>3, <1>4 DEF GamesOK, LaborOK, LaborSeen, Begun, Range
<1>11. DigestsOK'
  <2> SUFFICES ASSUME NEW e \in Episodes
               PROVE  IF state'[e].finalized THEN Sealed(state'[e])
                      ELSE phase' # "raised" => Digested(state'[e], TurnsIn(e)')
    BY DEF DigestsOK
  <2>1. Playing' = Playing
    <3>1. Range(chunk)' = Range(chunk) /\ \A i \in Range(chunk) : state'[i].done = state[i].done
      BY <1>1, <1>3, <1>4 DEF Range
    <3> QED BY <3>1 DEF Playing
  <2>2. state[e] \in EpisodeState /\ Hour(state[e]) \in Nat /\ Day(state[e]) \in Dates
    BY DayIs, Calendar DEF GamesOK, LoopTypes, ClocksOK
  <2>3. CASE e \in Playing
    <3>1. ~state'[e].finalized /\ Digested(state[e], Hour(state[e]))
      <4>1. ~state[e].finalized
        BY <2>3, <1>1, PlayingOpen
      <4>2. TurnsIn(e) = Hour(state[e])
        BY <1>1, <2>2 DEF TurnsIn
      <4> QED BY <4>1, <4>2, <1>1, <1>3 DEF GamesOK, DigestsOK
    <3>2. phase' # "raised" => TurnsIn(e)' = Hour(state[e]) + 1
      BY <1>1, <1>3, <2>1, <2>3 DEF TurnsIn
    <3>3. Digested(state'[e], Hour(state[e]) + 1)
      <4>1. /\ state'[e].day_digests = state[e].day_digests
            /\ state'[e].day_hashers = [state[e].day_hashers EXCEPT
                                          ![Day(state[e])] = Append(@, Hour(state[e]))]
            /\ state[e].day_hashers \in [Dates -> Seq(Nat)]
        BY <1>2, <2>2, <2>3 DEF EpisodeState
      <4>2. Append(SoFar(Hour(state[e])), Hour(state[e])) = SoFar(Hour(state[e]) + 1)
        BY <2>2, SoFarIs
      <4> QED BY <4>1, <4>2, <3>1, <1>3, <2>2 DEF Digested
    <3> QED BY <3>1, <3>2, <3>3
  <2>4. CASE e \notin Playing
    <3>1. state'[e] = state[e]
      BY <2>4, <1>1
    <3>2. TurnsIn(e)' = TurnsIn(e)
      BY <1>1, <1>3, <2>1, <2>2, <2>4 DEF TurnsIn
    <3> QED BY <3>1, <3>2, <1>1 DEF GamesOK, DigestsOK
  <2> QED BY <2>3, <2>4
<1> QED BY <1>5, <1>6, <1>7, <1>8, <1>9, <1>10, <1>11 DEF GamesOK

LEMMA GamesStep == ASSUME GamesOK, Step PROVE GamesOK'
<1>1. /\ phase = "step" /\ phase' = "finish" /\ turn' = turn + 1
      /\ UNCHANGED <<casting, max_turns, capacity, waiting, chunk, rows, results>>
      /\ \E who : state' = [e \in Episodes |->
             IF e \in Playing
             THEN TrackPostStep(Stepped(state[e], {h[2] : h \in {h \in who : h[1] = e}}))
             ELSE state[e]]
  BY DEF Step, setup
<1>2. /\ \A e \in Episodes \ Playing : state'[e] = state[e]
      /\ \A e \in Episodes \cap Playing : \E hiring :
           state'[e] = TrackPostStep(Stepped(state[e], hiring))
      /\ DOMAIN state' = Episodes /\ state' = [e \in Episodes |-> state'[e]]
  BY <1>1
<1>3. ASSUME NEW e \in Playing
      PROVE  /\ state'[e] \in EpisodeState /\ state'[e].step = state[e].step + 1
             /\ state'[e].done <=> state[e].step + 2 >= Days * Hours
             /\ SameEnd(state'[e], state[e])
             /\ Begun(state'[e]) /\ LaborSeen(state'[e])
             /\ Digested(state'[e], Hour(state'[e]))
  <2>1. e \in Episodes
    BY PlayingIs DEF GamesOK
  <2>2. PICK hiring : state'[e] = TrackPostStep(Stepped(state[e], hiring))
    BY <1>2, <2>1
  <2>3. /\ state[e] \in EpisodeState /\ state[e].step + 1 <= Days * Hours - 1
        /\ ~state[e].finalized /\ e \in Range(chunk)
    BY <1>1, PlayingOpen
  <2>4. Begun(state[e]) /\ LaborSeen(state[e]) /\ Digested(state[e], Hour(state[e]) + 1)
    <3>1. TurnsIn(e) = Hour(state[e]) + 1
      BY <1>1 DEF TurnsIn
    <3> QED BY <1>1, <2>1, <2>3, <3>1 DEF GamesOK, LaborOK, DigestsOK
  <2> QED BY <2>2, <2>3, <2>4, TurnTracked
<1>4. Range(chunk) \subseteq Episodes /\ Range(waiting) \subseteq Episodes
  BY PlayingIs DEF GamesOK
<1>5. LoopTypes'
  <2>1. \A e \in Episodes : state'[e] \in EpisodeState
    BY <1>2, <1>3 DEF GamesOK, LoopTypes
  <2>2. state' \in [Episodes -> EpisodeState]
    BY <1>2, <2>1
  <2> QED BY <1>1, <2>2 DEF GamesOK, LoopTypes, Phases
<1>6. RowsTypes'
  BY <1>1 DEF GamesOK, RowsTypes
<1>7. LinesOK'
  <2>1. \A e \in Range(waiting) : state'[e] = Unplayed
    <3> TAKE e \in Range(waiting)
    <3>1. e \in Episodes \ Playing
      BY <1>1, <1>4, PlayingOpen
    <3> QED BY <3>1, <1>2 DEF GamesOK, LinesOK
  <2>2. Range(waiting)' = Range(waiting) /\ Range(chunk)' = Range(chunk)
    BY <1>1 DEF Range
  <2> QED BY <1>1, <2>1, <2>2 DEF GamesOK, LinesOK
<1>8. ClocksOK'
  <2> SUFFICES ASSUME NEW e \in Episodes
               PROVE  /\ state'[e].step <= Days * Hours - 1
                      /\ state'[e].done <=> state'[e].step = Days * Hours - 1
    BY DEF ClocksOK
  <2>1. CASE e \in Playing
    <3>1. /\ state[e].step + 1 <= Days * Hours - 1 /\ state[e].step \in Nat
          /\ Days * Hours \in Nat
      BY <1>1, <2>1, PlayingOpen, Calendar DEF EpisodeState
    <3> QED BY <2>1, <3>1, <1>3
  <2>2. CASE e \notin Playing
    BY <2>2, <1>2 DEF GamesOK, ClocksOK
  <2> QED BY <2>1, <2>2
<1>9. EndsOK'
  <2> SUFFICES ASSUME NEW e \in Episodes
               PROVE  /\ ~state'[e].finalized => ~state'[e].truncated
                      /\ state'[e].finalized /\ ~state'[e].truncated => state'[e].done
                      /\ e \in Range(chunk) /\ state'[e].finalized /\ ~state'[e].done => FALSE
    BY <1>1 DEF EndsOK, Range
  <2>1. CASE e \in Playing
    <3>1. ~state[e].finalized
      BY <1>1, <2>1, PlayingOpen
    <3> QED BY <2>1, <3>1, <1>3 DEF SameEnd, GamesOK, EndsOK
  <2>2. CASE e \notin Playing
    BY <2>2, <1>1, <1>2 DEF GamesOK, EndsOK
  <2> QED BY <2>1, <2>2
<1>10. LaborOK'
  <2>1. \A e \in Episodes : LaborSeen(state'[e])
    BY <1>2, <1>3 DEF GamesOK, LaborOK
  <2>2. \A e \in Range(chunk) : Begun(state'[e])
    BY <1>2, <1>3, <1>4 DEF GamesOK, LaborOK
  <2> QED BY <1>1, <2>1, <2>2 DEF LaborOK, Range
<1>11. DigestsOK'
  <2> SUFFICES ASSUME NEW e \in Episodes
               PROVE  IF state'[e].finalized THEN Sealed(state'[e])
                      ELSE Digested(state'[e], TurnsIn(e)')
    BY DEF DigestsOK
  <2>1. TurnsIn(e)' = Hour(state'[e])
    <3>1. state'[e] \in EpisodeState
      BY <1>5 DEF LoopTypes
    <3>2. Hour(state'[e]) \in Int
      BY <3>1, Clocked, Calendar DEF EpisodeState, Hour
    <3> QED BY <1>1, <3>2 DEF TurnsIn
  <2>2. CASE e \in Playing
    <3>1. ~state[e].finalized
      BY <1>1, <2>2, PlayingOpen
    <3> QED BY <2>1, <2>2, <3>1, <1>3 DEF SameEnd
  <2>3. CASE e \notin Playing
    <3>1. Hour(state[e]) \in Int
      BY Clocked, Calendar DEF GamesOK, LoopTypes, EpisodeState, Hour
    <3>2. TurnsIn(e) = Hour(state[e])
      BY <2>3, <3>1 DEF TurnsIn
    <3> QED BY <2>1, <2>3, <3>2, <1>1, <1>2 DEF GamesOK, DigestsOK
  <2> QED BY <2>2, <2>3
<1> QED BY <1>5, <1>6, <1>7, <1>8, <1>9, <1>10, <1>11 DEF GamesOK

\* The first entry kept of a chunk that keeps any.
LEMMA FirstKept ==
  ASSUME LinesOK, NEW I \in SUBSET (DOMAIN chunk), Kept(chunk, I) # <<>>
  PROVE  \E k \in I : Kept(chunk, I)[1] = chunk[k] /\ chunk[k] \in Range(chunk)
                      /\ chunk[k] \in Episodes
<1>1. chunk \in Seq(Episodes) /\ DOMAIN chunk = 1..Len(chunk)
  BY DEF LinesOK
<1>2. /\ Kept(chunk, I) \in Seq(Episodes)
      /\ \A n \in 1..Len(Kept(chunk, I)) :
           \E i \in I : Kept(chunk, I)[n] = chunk[i] /\ Rank(i, I) = n
  BY <1>1, KeptIs
<1>3. 1 \in 1..Len(Kept(chunk, I))
  BY <1>2
<1>4. PICK i \in I : Kept(chunk, I)[1] = chunk[i]
  BY <1>2, <1>3
<1>5. chunk[i] \in Range(chunk) /\ chunk[i] \in Episodes
  BY <1>1 DEF Range
<1> QED BY <1>4, <1>5

\* The end of a game, whether it was played to its end or cut short.
Ends(e, st, reward) ==
  /\ e \in Range(chunk) /\ e \in Episodes /\ ~state[e].finalized
  /\ st \in EpisodeState /\ ~st.finalized
  /\ SamePlay(st, state[e]) /\ SameLabor(st, state[e]) /\ SameDecisions(st, state[e])
  /\ SameAgents(st, state[e]) /\ SameDigests(st, state[e])
  /\ \/ phase = "finish" /\ st.done /\ ~st.truncated
     \/ phase = "decide" /\ LoopOver /\ st.truncated
  /\ Finalized(e, st, reward)
  /\ UNCHANGED <<casting, max_turns, capacity, waiting, chunk, turn, phase>>

LEMMA EndingIs ==
  ASSUME GamesOK, Finish \/ Truncate
  PROVE  \E e, st, reward : reward \in Outcomes /\ Ends(e, st, reward)
<1>1. CASE Finish
  <2> DEFINE I == {k \in DOMAIN chunk : state[chunk[k]].done /\ ~state[chunk[k]].finalized}
  <2>1. NewlyDone = Kept(chunk, I) /\ I \in SUBSET (DOMAIN chunk)
    BY DEF NewlyDone
  <2>2. \A k \in I : state[chunk[k]].done /\ ~state[chunk[k]].finalized
    OBVIOUS
  <2> HIDE DEF I
  <2>3. PICK k \in I : NewlyDone[1] = chunk[k] /\ chunk[k] \in Range(chunk) /\ chunk[k] \in Episodes
    BY <1>1, <2>1, FirstKept DEF Finish, GamesOK
  <2> DEFINE e == NewlyDone[1]
  <2>4. PICK reward \in Outcomes : Finalized(e, state[e], reward)
    BY <1>1 DEF Finish
  <2>5. e \in Range(chunk) /\ e \in Episodes /\ state[e].done /\ ~state[e].finalized
    BY <2>2, <2>3
  <2> HIDE DEF e
  <2>6. state[e] \in EpisodeState /\ ~state[e].truncated
    BY <2>5 DEF GamesOK, LoopTypes, EndsOK
  <2>7. Ends(e, state[e], reward)
    BY <1>1, <2>4, <2>5, <2>6
       DEF Ends, Finish, setup, SamePlay, SameLabor, SameDecisions, SameAgents, SameDigests
  <2> QED BY <2>4, <2>7
<1>2. CASE Truncate
  <2> DEFINE I == {k \in DOMAIN chunk : ~state[chunk[k]].finalized}
  <2>1. Unfinished = Kept(chunk, I) /\ I \in SUBSET (DOMAIN chunk)
    BY DEF Unfinished
  <2>2. \A k \in I : ~state[chunk[k]].finalized
    OBVIOUS
  <2> HIDE DEF I
  <2>3. PICK k \in I : Unfinished[1] = chunk[k] /\ chunk[k] \in Range(chunk) /\ chunk[k] \in Episodes
    BY <1>2, <2>1, FirstKept DEF Truncate, GamesOK
  <2> DEFINE e == Unfinished[1]
             st == [state[e] EXCEPT !.truncated = TRUE]
  <2>4. PICK reward \in Outcomes : Finalized(e, st, reward)
    BY <1>2 DEF Truncate
  <2>5. e \in Range(chunk) /\ e \in Episodes /\ ~state[e].finalized
    BY <2>2, <2>3
  <2> HIDE DEF e
  <2>6. state[e] \in EpisodeState
    BY <2>5 DEF GamesOK, LoopTypes
  <2>7. /\ st \in EpisodeState /\ ~st.finalized /\ st.truncated
        /\ SamePlay(st, state[e]) /\ SameLabor(st, state[e]) /\ SameDecisions(st, state[e])
        /\ SameAgents(st, state[e]) /\ SameDigests(st, state[e])
    BY <2>5, <2>6
       DEF EpisodeState, SamePlay, SameLabor, SameDecisions, SameAgents, SameDigests
  <2> HIDE DEF st
  <2>8. Ends(e, st, reward)
    BY <1>2, <2>4, <2>5, <2>7 DEF Ends, Truncate, setup
  <2> QED BY <2>4, <2>8
<1> QED BY <1>1, <1>2

\* What an end leaves of the game's state, and of the rows.
LEMMA EndedIs ==
  ASSUME GamesOK, NEW e, NEW st, NEW reward \in Outcomes, Ends(e, st, reward)
  PROVE  /\ state' = [state EXCEPT ![e] = state'[e]] /\ state'[e] \in EpisodeState
         /\ state'[e].finalized /\ state'[e].truncated = st.truncated
         /\ SamePlay(state'[e], state[e]) /\ SameLabor(state'[e], state[e])
         /\ SameDecisions(state'[e], state[e]) /\ SameAgents(state'[e], state[e])
         /\ Sealed(state'[e])
         /\ rows' = Patched(state'[e], e, reward)
         /\ reward \in [Seats -> Int]
<1> DEFINE q == SealDay([st EXCEPT !.finalized = TRUE], Day(st))
<1>1. state' = [state EXCEPT ![e] = q] /\ rows' = Patched(q, e, reward)
  BY DEF Ends, Finalized
<1>2. Day(st) = Day(state[e]) /\ Hour(st) = Hour(state[e])
  BY DEF Ends, SamePlay, Day, Hour
<1>3. e \in Episodes /\ state[e] \in EpisodeState /\ state[e].step <= Days * Hours - 1
  BY DEF Ends, GamesOK, LoopTypes, ClocksOK
<1>4. Day(st) \in Dates /\ Hour(st) \in Nat
  BY <1>2, <1>3, DayIs, Calendar
<1>5. Digested(st, Hour(st))
  <2>1. TurnsIn(e) = Hour(state[e])
    BY <1>2, <1>4 DEF TurnsIn, Ends
  <2>2. Digested(state[e], Hour(state[e]))
    BY <2>1, <1>3 DEF Ends, GamesOK, DigestsOK
  <2> QED BY <2>2, <1>2 DEF Digested, Ends, SameDigests
<1>6. /\ q \in EpisodeState /\ q.finalized /\ q.truncated = st.truncated
      /\ SamePlay(q, st) /\ SameLabor(q, st) /\ SameDecisions(q, st) /\ SameAgents(q, st)
      /\ Sealed(q)
  BY <1>4, <1>5, ClosedIs DEF Ends
<1> HIDE DEF q
<1>7. state'[e] = q
  BY <1>1, <1>3 DEF GamesOK, LoopTypes
<1>8. SamePlay(q, state[e]) /\ SameLabor(q, state[e])
      /\ SameDecisions(q, state[e]) /\ SameAgents(q, state[e])
  BY <1>6 DEF Ends, SamePlay, SameLabor, SameDecisions, SameAgents
<1>9. reward \in [Seats -> Int]
  BY DEF Outcomes, BothSeats, Seats
<1> QED BY <1>1, <1>6, <1>7, <1>8, <1>9

LEMMA GamesEnd == ASSUME GamesOK, Finish \/ Truncate PROVE GamesOK'
<1>1. PICK e, st, reward : reward \in Outcomes /\ Ends(e, st, reward)
  BY EndingIs
<1> DEFINE q == state'[e]
<1>2. /\ state' = [state EXCEPT ![e] = q] /\ q \in EpisodeState
      /\ q.finalized /\ q.truncated = st.truncated
      /\ SamePlay(q, state[e]) /\ SameLabor(q, state[e])
      /\ SameDecisions(q, state[e]) /\ SameAgents(q, state[e])
      /\ Sealed(q)
      /\ rows' = Patched(q, e, reward)
      /\ reward \in [Seats -> Int]
  BY <1>1, EndedIs
<1> HIDE DEF q
<1>3. /\ e \in Range(chunk) /\ e \in Episodes /\ ~state[e].finalized
      /\ SamePlay(st, state[e])
      /\ \/ phase = "finish" /\ st.done /\ ~st.truncated
         \/ phase = "decide" /\ LoopOver /\ st.truncated
      /\ UNCHANGED <<casting, max_turns, capacity, waiting, chunk, turn, phase>>
  BY <1>1 DEF Ends
<1>4. /\ \A i \in Episodes : state'[i] = IF i = e THEN q ELSE state[i]
      /\ state' \in [Episodes -> EpisodeState]
  BY <1>2, <1>3 DEF GamesOK, LoopTypes
<1>5. LoopTypes'
  BY <1>3, <1>4 DEF GamesOK, LoopTypes
<1>6. RowsTypes'
  <2>1. rows' \in Seq(Row0) /\ Len(rows') = Len(rows)
    BY <1>2, PatchedIs DEF GamesOK
  <2> QED BY <1>3, <2>1 DEF GamesOK, RowsTypes
<1>7. /\ q.step = state[e].step /\ q.done = state[e].done /\ q.hires = state[e].hires
      /\ Day(q) = Day(state[e]) /\ Hour(q) = Hour(state[e])
  BY <1>2 DEF SamePlay, Day, Hour
<1>8. Range(chunk) \subseteq Episodes /\ Range(waiting) \subseteq Episodes
  BY PlayingIs DEF GamesOK
<1>9. LinesOK'
  <2>1. \A i \in Range(waiting) : i # e /\ state'[i] = Unplayed
    BY <1>3, <1>4, <1>8 DEF GamesOK, LinesOK
  <2>2. Range(waiting)' = Range(waiting) /\ Range(chunk)' = Range(chunk)
    BY <1>3 DEF Range
  <2> QED BY <1>3, <2>1, <2>2 DEF GamesOK, LinesOK
<1>10. ClocksOK'
  BY <1>4, <1>7 DEF GamesOK, ClocksOK
<1>11. EndsOK'
  <2> SUFFICES ASSUME NEW i \in Episodes
               PROVE  /\ ~state'[i].finalized => ~state'[i].truncated
                      /\ state'[i].finalized /\ ~state'[i].truncated => state'[i].done
                      /\ i \in Range(chunk) /\ state'[i].finalized /\ ~state'[i].done =>
                           turn >= max_turns /\ phase \in {"decide", "chunk", "returned"}
    BY <1>3 DEF EndsOK, Range
  <2>1. CASE i = e
    <3>1. state'[i] = q /\ q.done = st.done
      BY <2>1, <1>3, <1>4, <1>7 DEF SamePlay
    <3>2. ~q.done => turn >= max_turns /\ phase = "decide"
      <4>1. ~state[e].done => e \in Playing
        BY <1>3 DEF Playing
      <4> QED BY <4>1, <1>3, <1>7, <3>1 DEF LoopOver
    <3> QED BY <3>1, <3>2, <1>2, <1>3
  <2>2. CASE i # e
    BY <2>2, <1>4 DEF GamesOK, EndsOK
  <2> QED BY <2>1, <2>2
<1>12. LaborOK'
  <2>1. Begun(state[e]) /\ LaborSeen(state[e])
    BY <1>3 DEF GamesOK, LaborOK
  <2>2. Begun(q) /\ LaborSeen(q)
    BY <2>1, <1>2, <1>7 DEF Begun, LaborSeen, SameLabor
  <2> QED BY <1>3, <1>4, <1>8, <2>2 DEF GamesOK, LaborOK, Range
<1>13. DigestsOK'
  <2> SUFFICES ASSUME NEW i \in Episodes
               PROVE  IF state'[i].finalized THEN Sealed(state'[i])
                      ELSE phase' # "raised" => Digested(state'[i], TurnsIn(i)')
    BY DEF DigestsOK
  <2>1. CASE i = e
    BY <2>1, <1>2, <1>4
  <2>2. CASE i # e
    <3>1. state'[i] = state[i]
      BY <2>2, <1>4
    <3>2. TurnsIn(i)' = TurnsIn(i)
      <4>1. phase # "step" /\ phase' # "step"
        BY <1>3
      <4> QED BY <3>1, <4>1 DEF TurnsIn
    <3> QED BY <3>1, <3>2, <1>3 DEF GamesOK, DigestsOK
  <2> QED BY <2>1, <2>2
<1> QED BY <1>5, <1>6, <1>9, <1>10, <1>11, <1>12, <1>13 DEF GamesOK

LEMMA GamesAlways == Spec => []GamesOK
<1>1. Init => GamesOK
  BY GamesInit
<1>2. GamesOK /\ [Next]_vars => GamesOK'
  BY GamesIdle, GamesNextChunk, GamesDecide, GamesAct, GamesStep, GamesEnd DEF Next
<1> QED BY <1>1, <1>2, PTL DEF Spec

\* The labor the encoder is told of at a day's first turn is what the engine showed at the
\* last turn of the day before, for every calendar, chunk size and schedule of hires
\* (track_post_step, _note_day_start).
THEOREM LaborIsTold == Spec => LaborIsYesterdays
<1> DEFINE Told ==
      \A e \in Episodes, s \in Seats :
          phase = "step" /\ state'[e].last_seen_day[s] # state[e].last_seen_day[s] =>
              state'[e].previous_execution[s] = state[e].hires[s]
<1>1. GamesOK /\ [Next]_vars => [Told]_vars
  <2> SUFFICES ASSUME GamesOK, Next, NEW e \in Episodes, NEW s \in Seats, phase = "step",
                      state'[e].last_seen_day[s] # state[e].last_seen_day[s]
               PROVE  state'[e].previous_execution[s] = state[e].hires[s]
    OBVIOUS
  <2>1. Step
    BY DEF Next, NextChunk, NoMoreChunks, Decide, Act, Finish, NextTurn, Truncate, ChunkDone
  <2>2. PICK who : state' = [i \in Episodes |->
             IF i \in Playing
             THEN TrackPostStep(Stepped(state[i], {h[2] : h \in {h \in who : h[1] = i}}))
             ELSE state[i]]
    BY <2>1 DEF Step
  <2>3. e \in Playing
    BY <2>2
  <2> DEFINE hiring == {h[2] : h \in {h \in who : h[1] = e}}
             r == TrackPostStep(Stepped(state[e], hiring))
  <2>4. state'[e] = r
    BY <2>2, <2>3
  <2>5. /\ state[e] \in EpisodeState /\ state[e].step + 1 <= Days * Hours - 1
        /\ ~state[e].finalized /\ e \in Range(chunk)
    BY <2>3, PlayingOpen
  <2>6. Begun(state[e]) /\ LaborSeen(state[e]) /\ Digested(state[e], Hour(state[e]) + 1)
    <3>1. TurnsIn(e) = Hour(state[e]) + 1
      BY <2>3 DEF TurnsIn
    <3> QED BY <2>5, <3>1 DEF GamesOK, LaborOK, DigestsOK
  <2> HIDE DEF hiring
  <2>7. /\ Begun(r)
        /\ Day(r) # Day(state[e]) => \A i \in Seats : r.previous_execution[i] = state[e].hires[i]
    BY <2>5, <2>6, TurnTracked
  <2> HIDE DEF r
  <2>8. Day(r) # Day(state[e])
    BY <2>4, <2>6, <2>7 DEF Begun
  <2> QED BY <2>4, <2>7, <2>8
<1>2. LaborIsYesterdays <=> [][Told]_vars
  BY DEF LaborIsYesterdays
<1> QED BY <1>1, <1>2, GamesAlways, PTL DEF Spec


-----------------------------------------------------------------------------
(* The decisions: the inductive invariant of the plans, the rows and their *)
(* index.                                                                  *)

\* The first day whose decision is not behind e: the decisions are taken at a day's first hour.
DecidedTo(e) ==
  Day(state[e]) + (IF Hour(state[e]) > 0 \/ (phase \in {"act", "step"} /\ e \in Playing)
                   THEN 1 ELSE 0)

\* What a row tells is in the index of its game, which planned the day; the plan answers it.
RowsOwn ==
  \A k \in 1..Len(rows) :
    LET row == rows[k]
        st == state[row.episode]
    IN  /\ [seat |-> row.seat, day |-> row.day, row |-> k] \in st.transition_index
        /\ row.day \in st.planned_days[row.seat]
        /\ row.plan.for = [episode |-> row.episode, seat |-> row.seat, day |-> row.day]
        /\ row.value = Estimates[row.day]
        /\ row.trainable = Trainable(row.episode, row.seat)

RowsOnce ==
  \A j, k \in 1..Len(rows) :
    (rows[j].episode = rows[k].episode /\ rows[j].seat = rows[k].seat /\ rows[j].day = rows[k].day)
      => j = k

IndexOK ==
  \A e \in Episodes : \A t \in state[e].transition_index :
    /\ t.row \in 1..Len(rows)
    /\ rows[t.row].episode = e /\ rows[t.row].seat = t.seat /\ rows[t.row].day = t.day

PlannedOK ==
  \A e \in Episodes, s \in Seats :
    /\ \A d \in state[e].planned_days[s] :
         /\ StartDay <= d /\ d <= Day(state[e])
         /\ \E k \in 1..Len(rows) : rows[k].episode = e /\ rows[k].seat = s /\ rows[k].day = d
    /\ phase # "raised" =>
         \A d \in Dates : StartDay <= d /\ d < DecidedTo(e) => d \in state[e].planned_days[s]
    /\ state[e].finalized /\ ~state[e].truncated =>
         \A d \in Dates : StartDay <= d => d \in state[e].planned_days[s]

\* Today is planned only once it is decided.
NotAhead ==
  \A e \in Episodes, s \in Seats :
    phase # "raised" => \A d \in state[e].planned_days[s] : d < DecidedTo(e)

PlansOwn ==
  \A e \in Episodes, s \in Seats :
    /\ \A q \in state[e].queued[s] \cup state[e].consumed[s] :
         q.plan.for = [episode |-> e, seat |-> s, day |-> q.day]
    /\ \A q \in state[e].consumed[s] : \E k \in 1..Len(rows) : rows[k].plan = q.plan
    /\ phase # "raised" =>
         \A q \in state[e].queued[s] : \E k \in 1..Len(rows) : rows[k].plan = q.plan

QueuesOK ==
  \A e \in Episodes, s \in Seats :
    /\ \A q \in state[e].queued[s] :
         /\ phase \in {"act", "raised"} /\ q.day = Day(state[e])
         /\ Hour(state[e]) = 0 /\ StartDay <= q.day /\ e \in Playing
    /\ \A p, q \in state[e].queued[s] : p = q

AgentsOK ==
  \A e \in Episodes, s \in Seats :
    state[e].agent_day[s] # None =>
      /\ state[e].agent_day[s] <= Day(state[e])
      /\ state[e].agent_day[s] = Day(state[e]) =>
           Hour(state[e]) > 0 \/ (phase = "step" /\ e \in Playing) \/ phase = "raised"

DecisionsOK ==
  /\ RowsOwn /\ RowsOnce /\ IndexOK /\ PlannedOK /\ NotAhead /\ PlansOwn /\ QueuesOK /\ AgentsOK

\* What the batch holds for a seat is the one request of the seat, if it is due.
LEMMA MineIs ==
  ASSUME GamesOK, NEW e \in Episodes, NEW s \in Seats, NEW n \in Int
  PROVE  /\ \A k \in Mine(e, s, n) :
              /\ k \in 1..Len(Batch) /\ k <= n
              /\ Batch[k].request = Request(e, s) /\ Due(Request(e, s)) /\ e \in Playing
              /\ Batch[k].plan.for = Request(e, s)
         /\ \A k \in 1..Len(Batch) :
              k <= n /\ Batch[k].request = Request(e, s) => k \in Mine(e, s, n)
         /\ \A j, k \in Mine(e, s, n) : j = k
         /\ e \in Playing /\ Due(Request(e, s)) /\ Len(Batch) <= n =>
              \E k \in Mine(e, s, n) : Batch[k].request = Request(e, s)
<1>1. /\ Batch \in Seq(Decision)
      /\ \A k \in 1..Len(Batch) :
           LET q == Batch[k].request
           IN  /\ q.episode \in Playing /\ q.seat \in Seats /\ q = Request(q.episode, q.seat)
               /\ Due(q) /\ Batch[k].plan.for = q
      /\ \A j, k \in 1..Len(Batch) : Batch[j].request = Batch[k].request => j = k
      /\ e \in Playing /\ Due(Request(e, s)) =>
           \E k \in 1..Len(Batch) : Batch[k].request = Request(e, s)
  BY BatchIs DEF GamesOK
<1>2. Len(Batch) \in Nat
  BY <1>1
<1>3. Min({n, Len(Batch)}) = IF n <= Len(Batch) THEN n ELSE Len(Batch)
  BY <1>2, MinOfTwo
<1> DEFINE m == Min({n, Len(Batch)})
<1>4. \A k : k \in 1..m <=> k \in 1..Len(Batch) /\ k <= n
  BY <1>2, <1>3
<1>5. \A k : k \in Mine(e, s, n) <=> /\ k \in 1..m /\ Batch[k].request.episode = e
                                     /\ Batch[k].request.seat = s
  BY DEF Mine
<1> HIDE DEF m
<1>6. Request(e, s).episode = e /\ Request(e, s).seat = s
  BY DEF Request
<1>7. ASSUME NEW k \in Mine(e, s, n)
      PROVE  /\ k \in 1..Len(Batch) /\ k <= n
             /\ Batch[k].request = Request(e, s) /\ Due(Request(e, s)) /\ e \in Playing
             /\ Batch[k].plan.for = Request(e, s)
  <2>1. k \in 1..Len(Batch) /\ k <= n /\ Batch[k].request.episode = e /\ Batch[k].request.seat = s
    BY <1>4, <1>5
  <2> QED BY <2>1, <1>1
<1>8. \A k \in 1..Len(Batch) : k <= n /\ Batch[k].request = Request(e, s) => k \in Mine(e, s, n)
  BY <1>4, <1>5, <1>6
<1>9. \A j, k \in Mine(e, s, n) : j = k
  BY <1>1, <1>7
<1>10. ASSUME e \in Playing, Due(Request(e, s)), Len(Batch) <= n
       PROVE  \E k \in Mine(e, s, n) : Batch[k].request = Request(e, s)
  <2>1. PICK k \in 1..Len(Batch) : Batch[k].request = Request(e, s)
    BY <1>1, <1>10
  <2>2. k <= n
    BY <1>2, <1>10
  <2> QED BY <2>1, <2>2, <1>8
<1> QED BY <1>7, <1>8, <1>9, <1>10

\* What a day's decisions append to the buffer, and when they raise.
LEMMA DecideIs ==
  ASSUME GamesOK, Decide
  PROVE  /\ phase = "decide" /\ turn < max_turns
         /\ UNCHANGED <<casting, max_turns, capacity, waiting, chunk, results, turn>>
         /\ phase' \in {"act", "raised"} /\ (phase' = "act" => Len(Batch) <= Room)
         /\ Room \in Nat /\ Len(Batch) \in Nat /\ Len(rows) \in Nat
         /\ Len(rows) <= Len(rows')
         /\ \A k \in 1..Len(rows) : k \in 1..Len(rows') /\ rows'[k] = rows[k]
         /\ \A k \in 1..Len(Batch) : k <= Room =>
              Len(rows) + k \in 1..Len(rows') /\ rows'[Len(rows) + k] = Row(Batch[k])
         /\ \A i \in 1..Len(rows') : i \in 1..Len(rows) \/ \E k \in 1..Len(Batch) :
              k <= Room /\ i = Len(rows) + k
         /\ \A e \in Episodes : state'[e] = Recorded(e, Batch)
         /\ \A e \in Episodes : /\ SamePlay(state'[e], state[e]) /\ SameEnd(state'[e], state[e])
                                /\ SameAgents(state'[e], state[e])
                                /\ Day(state'[e]) = Day(state[e]) /\ Hour(state'[e]) = Hour(state[e])
         /\ Playing' = Playing
<1> DEFINE L == Len(rows)
           B == Len(Batch)
           n == Min({Room, B})
           new == [k \in 1..n |-> Row(Batch[k])]
<1>1. /\ phase = "decide" /\ ~LoopOver
      /\ UNCHANGED <<casting, max_turns, capacity, waiting, chunk, results, turn>>
      /\ state' = [e \in Episodes |-> Recorded(e, Batch)]
      /\ rows' = rows \o new
      /\ phase' = IF B > Room THEN "raised" ELSE "act"
  BY DEF Decide, setup
<1>2. turn < max_turns
  BY <1>1 DEF LoopOver, GamesOK, LoopTypes
<1>3. rows \in Seq(Row0) /\ L \in Nat /\ Room \in Nat
  BY DEF GamesOK, RowsTypes, Room
<1>4. Batch \in Seq(Decision) /\ B \in Nat
  <2>1. Batch \in Seq(Decision)
    BY BatchIs DEF GamesOK
  <2> QED BY <2>1
<1>5. n = IF Room <= B THEN Room ELSE B
  BY <1>3, <1>4, MinOfTwo
<1> HIDE DEF n, L, B
<1>6. n \in Nat /\ n <= Room /\ n <= B
  BY <1>3, <1>4, <1>5
<1>7. new \in [1..n -> Row0]
  <2>1. \A k \in 1..n : k \in 1..Len(Batch)
    BY <1>4, <1>6 DEF B
  <2>2. \A k \in 1..n : Row(Batch[k]) \in Row0
    BY <2>1, RowIs
  <2> QED BY <2>2
<1>8. \A k \in 1..n : new[k] = Row(Batch[k])
  OBVIOUS
<1> HIDE DEF new
<1>9. new \in Seq(Row0) /\ Len(new) = n
  BY <1>6, <1>7
<1>10. /\ Len(rows') = L + n
       /\ \A k \in 1..L : rows'[k] = rows[k]
       /\ \A k \in 1..n : rows'[L + k] = new[k]
  <2>1. Len(rows \o new) = Len(rows) + Len(new)
        /\ \A i \in 1..(Len(rows) + Len(new)) :
              (rows \o new)[i] = IF i <= Len(rows) THEN rows[i] ELSE new[i - Len(rows)]
    BY <1>3, <1>9
  <2>2. ASSUME NEW k \in 1..n PROVE (rows \o new)[L + k] = new[k]
    <3>1. L + k \in 1..(Len(rows) + Len(new)) /\ ~(L + k <= Len(rows)) /\ (L + k) - Len(rows) = k
      BY <1>3, <1>6, <1>9 DEF L
    <3> QED BY <2>1, <3>1
  <2>3. ASSUME NEW k \in 1..L PROVE (rows \o new)[k] = rows[k]
    <3>1. k \in 1..(Len(rows) + Len(new)) /\ k <= Len(rows)
      BY <1>3, <1>6, <1>9 DEF L
    <3> QED BY <2>1, <3>1
  <2> QED BY <1>1, <1>9, <2>1, <2>2, <2>3 DEF L
<1>11. /\ L <= Len(rows') /\ \A k \in 1..L : k \in 1..Len(rows') /\ rows'[k] = rows[k]
  BY <1>3, <1>6, <1>10
<1>12. ASSUME NEW k \in 1..B, k <= Room
       PROVE  L + k \in 1..Len(rows') /\ rows'[L + k] = Row(Batch[k])
  <2>1. k \in 1..n
    BY <1>3, <1>4, <1>5, <1>12
  <2>2. L + k \in 1..(L + n)
    BY <2>1, <1>3, <1>6
  <2> QED BY <2>1, <2>2, <1>8, <1>10
<1>13. ASSUME NEW i \in 1..Len(rows'), i \notin 1..L
       PROVE  \E k \in 1..B : k <= Room /\ i = L + k
  <2>1. i - L \in 1..B /\ i - L <= Room /\ i = L + (i - L)
    BY <1>3, <1>4, <1>6, <1>10, <1>13
  <2> QED BY <2>1
<1>14. \A e \in Episodes : state'[e] = Recorded(e, Batch)
  BY <1>1
<1>15. \A e \in Episodes :
         /\ SamePlay(state'[e], state[e]) /\ SameEnd(state'[e], state[e])
         /\ SameAgents(state'[e], state[e])
  BY <1>14, RecordedIs DEF GamesOK
<1>16. \A e \in Episodes : /\ Day(state'[e]) = Day(state[e]) /\ Hour(state'[e]) = Hour(state[e])
                           /\ state'[e].done = state[e].done
  BY <1>15 DEF SamePlay, Day, Hour
<1>17. Playing' = Playing
  <2>1. Range(chunk) \subseteq Episodes /\ Range(chunk)' = Range(chunk)
    BY <1>1, PlayingIs DEF GamesOK, Range
  <2> QED BY <2>1, <1>16 DEF Playing
<1>0. phase' \in {"act", "raised"} /\ (phase' = "act" => B <= Room)
  BY <1>1, <1>3, <1>4
<1> QED BY <1>1, <1>2, <1>3, <1>4, <1>11, <1>12, <1>13, <1>14, <1>15, <1>16, <1>17, <1>0 DEF L, B

\* What a day's decisions leave of the queue, the planned days and the index of a seat.
LEMMA DecidedSeat ==
  ASSUME GamesOK, Decide, NEW e \in Episodes
  PROVE  LET st == state[e]
             r == state'[e]
         IN  /\ r.consumed = st.consumed
             /\ \A s \in Seats :
                  /\ \A q : q \in r.queued[s] <=>
                       \/ q \in st.queued[s]
                       \/ \E k \in Mine(e, s, Room + 1) :
                            q = [day |-> Day(st), plan |-> Batch[k].plan]
                  /\ \A d : d \in r.planned_days[s] <=>
                       \/ d \in st.planned_days[s]
                       \/ d = Day(st) /\ \E k \in Mine(e, s, Room) : TRUE
             /\ \A t : t \in r.transition_index <=>
                  \/ t \in st.transition_index
                  \/ \E s \in Seats : \E k \in Mine(e, s, Room) :
                       t = [seat |-> s, day |-> Day(st), row |-> Len(rows) + k]
<1> DEFINE st == state[e]
           r == state'[e]
<1>1. r = Recorded(e, Batch)
  BY DecideIs
<1>2. /\ r.consumed = st.consumed
      /\ \A s \in Seats :
           /\ r.queued[s] = st.queued[s] \cup
                {[day |-> Day(st), plan |-> Batch[k].plan] : k \in Mine(e, s, Room + 1)}
           /\ r.planned_days[s] = st.planned_days[s] \cup {Day(st) : k \in Mine(e, s, Room)}
      /\ r.transition_index = st.transition_index \cup UNION
           {{[seat |-> s, day |-> Day(st), row |-> Len(rows) + k] : k \in Mine(e, s, Room)} :
              s \in Seats}
  BY <1>1, RecordedIs DEF GamesOK
<1> HIDE DEF st, r
<1>3. ASSUME NEW s \in Seats
      PROVE  /\ \A q : q \in r.queued[s] <=>
                   \/ q \in st.queued[s]
                   \/ \E k \in Mine(e, s, Room + 1) :
                        q = [day |-> Day(st), plan |-> Batch[k].plan]
             /\ \A d : d \in r.planned_days[s] <=>
                   \/ d \in st.planned_days[s]
                   \/ d = Day(st) /\ \E k \in Mine(e, s, Room) : TRUE
  BY <1>2
<1>4. ASSUME NEW t
      PROVE  t \in r.transition_index <=>
                  \/ t \in st.transition_index
                  \/ \E s \in Seats : \E k \in Mine(e, s, Room) :
                       t = [seat |-> s, day |-> Day(st), row |-> Len(rows) + k]
  BY <1>2
<1> QED BY <1>2, <1>3, <1>4 DEF st, r

\* A seat is asked only for days that it has not planned.
LEMMA MineAre ==
  ASSUME GamesOK, Decide, NEW e \in Episodes, NEW s \in Seats, NEW n \in {Room, Room + 1},
         NEW k \in Mine(e, s, n)
  PROVE  /\ e \in Playing /\ k \in 1..Len(Batch) /\ k \in Nat
         /\ n = Room => k <= Room
         /\ phase' = "act" => k <= Room
         /\ Batch[k].plan.for = [episode |-> e, seat |-> s, day |-> Day(state[e])]
         /\ StartDay <= Day(state[e]) /\ Hour(state[e]) = 0
         /\ Day(state[e]) \in Dates /\ Day(state[e]) \notin state[e].planned_days[s]
         /\ Row(Batch[k]).episode = e /\ Row(Batch[k]).seat = s
         /\ Row(Batch[k]).day = Day(state[e]) /\ Row(Batch[k]).plan = Batch[k].plan
         /\ \A j \in Mine(e, s, n) : j = k
<1>1. Room \in Nat /\ n \in Int /\ Len(Batch) \in Nat /\ (phase' = "act" => Len(Batch) <= Room)
  BY DecideIs
<1>2. /\ k \in 1..Len(Batch) /\ k <= n
      /\ Batch[k].request = Request(e, s) /\ Due(Request(e, s)) /\ e \in Playing
      /\ Batch[k].plan.for = Request(e, s)
      /\ \A j \in Mine(e, s, n) : j = k
  BY <1>1, MineIs
<1>3. Request(e, s) = [episode |-> e, seat |-> s, day |-> Day(state[e])]
  BY DEF Request
<1>4. Day(state[e]) >= StartDay /\ Hour(state[e]) = 0 /\ Day(state[e]) \notin state[e].planned_days[s]
  BY <1>2, <1>3 DEF Due
<1>5. /\ Row(Batch[k]).episode = e /\ Row(Batch[k]).seat = s
      /\ Row(Batch[k]).day = Day(state[e]) /\ Row(Batch[k]).plan = Batch[k].plan
  BY <1>2, <1>3, RowIs
<1>6. Day(state[e]) \in Dates /\ Day(state[e]) \in Int /\ StartDay \in Int
  BY DayIs, Calendar DEF GamesOK, LoopTypes, ClocksOK, Dates
<1> QED BY <1>1, <1>2, <1>3, <1>4, <1>5, <1>6

\* The row of a recorded decision names its game, its seat and its day.
LEMMA RowOfMine ==
  ASSUME GamesOK, Decide, NEW e \in Episodes, NEW s \in Seats, NEW k \in Mine(e, s, Room)
  PROVE  /\ k \in 1..Len(Batch) /\ k <= Room
         /\ Row(Batch[k]).episode = e /\ Row(Batch[k]).seat = s
         /\ Row(Batch[k]).day = Day(state[e])
<1>1. Room \in Int /\ Len(Batch) \in Nat
  BY DecideIs
<1>2. k \in 1..Len(Batch) /\ k <= Room /\ Batch[k].request = Request(e, s)
  BY <1>1, MineIs
<1>3. Request(e, s) = [episode |-> e, seat |-> s, day |-> Day(state[e])]
  BY DEF Request
<1>4. /\ Row(Batch[k]).episode = e /\ Row(Batch[k]).seat = s
      /\ Row(Batch[k]).day = Day(state[e])
  BY <1>2, <1>3, RowIs
<1> QED BY <1>2, <1>4

LEMMA RowsDecide == ASSUME GamesOK, DecisionsOK, Decide PROVE RowsOwn' /\ RowsOnce' /\ IndexOK'
<1> DEFINE L == Len(rows)
<1>1. /\ Room \in Nat /\ Len(Batch) \in Nat /\ L \in Nat
      /\ \A k \in 1..L : k \in 1..Len(rows') /\ rows'[k] = rows[k]
      /\ \A k \in 1..Len(Batch) : k <= Room =>
              L + k \in 1..Len(rows') /\ rows'[L + k] = Row(Batch[k])
      /\ \A i \in 1..Len(rows') : i \in 1..L \/ \E k \in 1..Len(Batch) :
              k <= Room /\ i = L + k
      /\ casting' = casting
  BY DecideIs
<1> HIDE DEF L
<1>2. ASSUME NEW k \in 1..L PROVE rows[k].episode \in Episodes /\ rows[k].seat \in Seats
  <2>1. rows \in Seq(Row0)
    BY DEF GamesOK, RowsTypes
  <2>2. rows[k] \in Row0
    BY <2>1 DEF L
  <2> QED BY <2>2 DEF Row0
<1>3. ASSUME NEW k \in 1..Len(Batch), k <= Room
      PROVE  /\ Batch[k].request.episode \in Episodes /\ Batch[k].request.seat \in Seats
             /\ k \in Mine(Batch[k].request.episode, Batch[k].request.seat, Room)
             /\ Row(Batch[k]).value = Estimates[Row(Batch[k]).day]
             /\ Row(Batch[k]).trainable = Trainable(Row(Batch[k]).episode, Row(Batch[k]).seat)
             /\ Row(Batch[k]).episode = Batch[k].request.episode
             /\ Row(Batch[k]).seat = Batch[k].request.seat
  <2>1. LET q == Batch[k].request
        IN  q.episode \in Playing /\ q.seat \in Seats /\ q = Request(q.episode, q.seat)
    BY BatchIs DEF GamesOK
  <2>2. Batch[k].request.episode \in Episodes
    BY <2>1, PlayingIs DEF GamesOK
  <2> QED BY <1>1, <1>3, <2>1, <2>2, MineIs, RowIs
<1>4. RowsOwn'
  <2> SUFFICES ASSUME NEW k \in 1..Len(rows')
               PROVE  LET row == rows'[k]
                          st == state'[row.episode]
                      IN  /\ [seat |-> row.seat, day |-> row.day, row |-> k] \in st.transition_index
                          /\ row.day \in st.planned_days[row.seat]
                          /\ row.plan.for = [episode |-> row.episode, seat |-> row.seat,
                                             day |-> row.day]
                          /\ row.value = Estimates[row.day]
                          /\ row.trainable = Trainable(row.episode, row.seat)
    BY <1>1 DEF RowsOwn, Trainable, Policy
  <2>1. CASE k \in 1..L
    <3>1. rows'[k] = rows[k] /\ rows[k].episode \in Episodes /\ rows[k].seat \in Seats
      BY <1>1, <1>2, <2>1
    <3>2. LET row == rows[k]
              st == state[row.episode]
          IN  /\ [seat |-> row.seat, day |-> row.day, row |-> k] \in st.transition_index
              /\ row.day \in st.planned_days[row.seat]
              /\ row.plan.for = [episode |-> row.episode, seat |-> row.seat, day |-> row.day]
              /\ row.value = Estimates[row.day]
              /\ row.trainable = Trainable(row.episode, row.seat)
      BY <2>1 DEF DecisionsOK, RowsOwn, L
    <3> QED BY <3>1, <3>2, DecidedSeat
  <2>2. CASE k \notin 1..L
    <3>1. PICK i \in 1..Len(Batch) : i <= Room /\ k = L + i
      BY <1>1, <2>2
    <3> DEFINE e == Batch[i].request.episode
               s == Batch[i].request.seat
               row == Row(Batch[i])
    <3>2. /\ e \in Episodes /\ s \in Seats /\ i \in Mine(e, s, Room)
          /\ row.value = Estimates[row.day]
          /\ row.trainable = Trainable(row.episode, row.seat)
      BY <1>3, <3>1
    <3>3. rows'[k] = row
      BY <1>1, <3>1
    <3>4. /\ row.episode = e /\ row.seat = s /\ row.day = Day(state[e])
          /\ row.plan.for = [episode |-> e, seat |-> s, day |-> Day(state[e])]
      BY <3>2, MineAre
    <3> HIDE DEF e, s, row
    <3>5. /\ [seat |-> s, day |-> Day(state[e]), row |-> k] \in state'[e].transition_index
          /\ Day(state[e]) \in state'[e].planned_days[s]
      BY <3>1, <3>2, DecidedSeat DEF L
    <3> QED BY <3>2, <3>3, <3>4, <3>5
  <2> QED BY <2>1, <2>2
<1>5. RowsOnce'
  <2> SUFFICES ASSUME NEW j \in 1..Len(rows'), NEW k \in 1..Len(rows'),
                      rows'[j].episode = rows'[k].episode, rows'[j].seat = rows'[k].seat,
                      rows'[j].day = rows'[k].day
               PROVE  j = k
    BY DEF RowsOnce
  <2>1. ASSUME NEW i \in 1..L, NEW m \in 1..Len(Batch), m <= Room,
               rows[i].episode = Row(Batch[m]).episode, rows[i].seat = Row(Batch[m]).seat,
               rows[i].day = Row(Batch[m]).day
        PROVE  FALSE
    <3> DEFINE e == Batch[m].request.episode
               s == Batch[m].request.seat
    <3>1. e \in Episodes /\ s \in Seats /\ m \in Mine(e, s, Room)
      BY <1>3, <2>1
    <3> HIDE DEF e, s
    <3>2. /\ Row(Batch[m]).episode = e /\ Row(Batch[m]).seat = s
          /\ Row(Batch[m]).day = Day(state[e]) /\ Day(state[e]) \notin state[e].planned_days[s]
      BY <3>1, MineAre
    <3>3. rows[i].day \in state[rows[i].episode].planned_days[rows[i].seat]
      BY <2>1 DEF DecisionsOK, RowsOwn, L
    <3> QED BY <2>1, <3>2, <3>3
  <2>2. ASSUME NEW i \in 1..Len(Batch), i <= Room, NEW m \in 1..Len(Batch), m <= Room,
               Row(Batch[i]).episode = Row(Batch[m]).episode,
               Row(Batch[i]).seat = Row(Batch[m]).seat
        PROVE  i = m
    <3> DEFINE e == Batch[m].request.episode
               s == Batch[m].request.seat
    <3>1. /\ e \in Episodes /\ s \in Seats /\ m \in Mine(e, s, Room)
          /\ Row(Batch[m]).episode = e /\ Row(Batch[m]).seat = s
      BY <1>3, <2>2
    <3>2. i \in Mine(e, s, Room)
      <4>1. /\ i \in Mine(Batch[i].request.episode, Batch[i].request.seat, Room)
            /\ Row(Batch[i]).episode = Batch[i].request.episode
            /\ Row(Batch[i]).seat = Batch[i].request.seat
        BY <1>3, <2>2
      <4>2. Batch[i].request.episode = e /\ Batch[i].request.seat = s
        BY <4>1, <3>1, <2>2
      <4> QED BY <4>1, <4>2
    <3> HIDE DEF e, s
    <3>3. Room \in Int
      BY <1>1
    <3>4. \A x, y \in Mine(e, s, Room) : x = y
      BY <3>1, <3>3, MineIs
    <3> QED BY <3>1, <3>2, <3>4
  <2>3. CASE j \in 1..L /\ k \in 1..L
    <3>1. rows'[j] = rows[j] /\ rows'[k] = rows[k]
      BY <1>1, <2>3
    <3> QED BY <3>1, <2>3 DEF DecisionsOK, RowsOnce, L
  <2>4. CASE j \in 1..L /\ k \notin 1..L
    <3>1. PICK m \in 1..Len(Batch) : m <= Room /\ k = L + m
      BY <1>1, <2>4
    <3>2. rows'[j] = rows[j] /\ rows'[k] = Row(Batch[m])
      BY <1>1, <2>4, <3>1
    <3> QED BY <2>1, <2>4, <3>1, <3>2
  <2>5. CASE j \notin 1..L /\ k \in 1..L
    <3>1. PICK m \in 1..Len(Batch) : m <= Room /\ j = L + m
      BY <1>1, <2>5
    <3>2. rows'[k] = rows[k] /\ rows'[j] = Row(Batch[m])
      BY <1>1, <2>5, <3>1
    <3> QED BY <2>1, <2>5, <3>1, <3>2
  <2>6. CASE j \notin 1..L /\ k \notin 1..L
    <3>1. PICK i \in 1..Len(Batch) : i <= Room /\ j = L + i
      BY <1>1, <2>6
    <3>2. PICK m \in 1..Len(Batch) : m <= Room /\ k = L + m
      BY <1>1, <2>6
    <3>3. rows'[j] = Row(Batch[i]) /\ rows'[k] = Row(Batch[m])
      BY <1>1, <3>1, <3>2
    <3> QED BY <2>2, <3>1, <3>2, <3>3
  <2> QED BY <2>3, <2>4, <2>5, <2>6
<1>6. IndexOK'
  <2> SUFFICES ASSUME NEW e \in Episodes, NEW t \in state'[e].transition_index
               PROVE  /\ t.row \in 1..Len(rows')
                      /\ rows'[t.row].episode = e /\ rows'[t.row].seat = t.seat
                      /\ rows'[t.row].day = t.day
    BY DEF IndexOK
  <2>1. CASE t \in state[e].transition_index
    <3>1. t.row \in 1..L /\ rows[t.row].episode = e /\ rows[t.row].seat = t.seat
          /\ rows[t.row].day = t.day
      BY <2>1 DEF DecisionsOK, IndexOK, L
    <3> QED BY <3>1, <1>1
  <2>2. CASE t \notin state[e].transition_index
    <3>1. PICK s \in Seats : \E k \in Mine(e, s, Room) :
            t = [seat |-> s, day |-> Day(state[e]), row |-> L + k]
      BY <2>2, DecidedSeat DEF L
    <3>2. PICK k \in Mine(e, s, Room) : t = [seat |-> s, day |-> Day(state[e]), row |-> L + k]
      BY <3>1
    <3>3. /\ k \in 1..Len(Batch) /\ k <= Room
          /\ Row(Batch[k]).episode = e /\ Row(Batch[k]).seat = s
          /\ Row(Batch[k]).day = Day(state[e])
      BY <3>2, RowOfMine
    <3>4. t.row = L + k /\ t.seat = s /\ t.day = Day(state[e])
      BY <3>2
    <3> QED BY <3>3, <3>4, <1>1
  <2> QED BY <2>1, <2>2
<1> QED BY <1>4, <1>5, <1>6

LEMMA PlannedDecide ==
  ASSUME GamesOK, DecisionsOK, Decide PROVE PlannedOK' /\ NotAhead'
<1>1. /\ Room \in Nat /\ Len(Batch) \in Nat /\ Len(rows) \in Nat
      /\ \A k \in 1..Len(rows) : k \in 1..Len(rows') /\ rows'[k] = rows[k]
      /\ \A k \in 1..Len(Batch) : k <= Room =>
              Len(rows) + k \in 1..Len(rows') /\ rows'[Len(rows) + k] = Row(Batch[k])
      /\ phase = "decide" /\ phase' \in {"act", "raised"} /\ (phase' = "act" => Len(Batch) <= Room)
      /\ Playing' = Playing /\ turn < max_turns
      /\ \A e \in Episodes : /\ SameEnd(state'[e], state[e])
                             /\ Day(state'[e]) = Day(state[e]) /\ Hour(state'[e]) = Hour(state[e])
  BY DecideIs
<1> SUFFICES ASSUME NEW e \in Episodes, NEW s \in Seats
             PROVE  /\ \A d \in state'[e].planned_days[s] :
                         /\ StartDay <= d /\ d <= Day(state'[e])
                         /\ \E k \in 1..Len(rows') : rows'[k].episode = e /\ rows'[k].seat = s
                                                     /\ rows'[k].day = d
                    /\ phase' # "raised" =>
                         \A d \in Dates : StartDay <= d /\ d < DecidedTo(e)' =>
                            d \in state'[e].planned_days[s]
                    /\ state'[e].finalized /\ ~state'[e].truncated =>
                         \A d \in Dates : StartDay <= d => d \in state'[e].planned_days[s]
                    /\ phase' # "raised" => \A d \in state'[e].planned_days[s] : d < DecidedTo(e)'
  BY DEF PlannedOK, NotAhead
<1> DEFINE P == state[e].planned_days[s]
           R == state'[e].planned_days[s]
           today == Day(state[e])
<1>2. /\ \A d \in P : /\ StartDay <= d /\ d <= today
                      /\ \E k \in 1..Len(rows) : rows[k].episode = e /\ rows[k].seat = s
                                                 /\ rows[k].day = d
      /\ \A d \in Dates : StartDay <= d /\ d < DecidedTo(e) => d \in P
      /\ state[e].finalized /\ ~state[e].truncated => \A d \in Dates : StartDay <= d => d \in P
      /\ \A d \in P : d < DecidedTo(e)
  BY <1>1 DEF DecisionsOK, PlannedOK, NotAhead
<1>3. /\ today \in Dates /\ today \in Int /\ Hour(state[e]) \in Nat /\ StartDay \in Int
      /\ \A d \in Dates : d \in Int
      /\ P \in SUBSET Dates /\ R \in SUBSET Dates
  <2>1. state[e] \in EpisodeState /\ state[e].step <= Days * Hours - 1
    BY DEF GamesOK, LoopTypes, ClocksOK
  <2>2. state'[e] \in EpisodeState
    BY GamesDecide DEF GamesOK, LoopTypes
  <2>3. today \in Dates /\ Hour(state[e]) \in Nat
    BY <2>1, DayIs, Calendar
  <2>4. StartDay \in Int /\ \A d \in Dates : d \in Int
    BY Calendar DEF Dates
  <2>5. P \in SUBSET Dates
    BY <2>1 DEF EpisodeState
  <2>6. R \in SUBSET Dates
    BY <2>2 DEF EpisodeState
  <2> HIDE DEF P, R, today
  <2> QED BY <2>3, <2>4, <2>5, <2>6
<1>4. \A d : d \in R <=> d \in P \/ (d = today /\ \E k \in Mine(e, s, Room) : TRUE)
  BY DecidedSeat
<1> HIDE DEF P, R, today
<1>5. DecidedTo(e) = today + (IF Hour(state[e]) > 0 THEN 1 ELSE 0)
  BY <1>1 DEF DecidedTo, today
<1>6. phase' = "act" =>
        DecidedTo(e)' = today + (IF Hour(state[e]) > 0 \/ e \in Playing THEN 1 ELSE 0)
  BY <1>1 DEF DecidedTo, today
<1>7. ASSUME NEW d \in R
      PROVE  /\ StartDay <= d /\ d <= today
             /\ \E k \in 1..Len(rows') : rows'[k].episode = e /\ rows'[k].seat = s
                                         /\ rows'[k].day = d
  <2>1. CASE d \in P
    BY <2>1, <1>1, <1>2
  <2>2. CASE d \notin P
    <3>1. PICK k \in Mine(e, s, Room) : d = today
      BY <2>2, <1>4
    <3>2. /\ k \in 1..Len(Batch) /\ k <= Room /\ StartDay <= today
          /\ Row(Batch[k]).episode = e /\ Row(Batch[k]).seat = s /\ Row(Batch[k]).day = today
      BY MineAre DEF today
    <3> QED BY <3>1, <3>2, <1>1, <1>3
  <2> QED BY <2>1, <2>2
<1>8. ASSUME phase' # "raised", NEW d \in Dates, StartDay <= d, d < DecidedTo(e)'
      PROVE  d \in R
  <2>1. CASE d < DecidedTo(e)
    BY <2>1, <1>2, <1>4, <1>8
  <2>2. CASE ~(d < DecidedTo(e))
    <3>1. e \in Playing /\ Hour(state[e]) = 0 /\ d = today
      BY <2>2, <1>1, <1>3, <1>5, <1>6, <1>8
    <3>2. Due(Request(e, s))
      <4>1. today \notin P
        BY <3>1, <1>2, <1>3, <1>5
      <4> QED BY <4>1, <3>1, <1>8 DEF Due, Request, Playing, P, today
    <3>3. Room \in Int /\ Len(Batch) <= Room
      BY <1>1, <1>8
    <3>4. \E k \in Mine(e, s, Room) : Batch[k].request = Request(e, s)
      BY <3>1, <3>2, <3>3, MineIs
    <3> QED BY <3>1, <3>4, <1>4
  <2> QED BY <2>1, <2>2
<1>9. ASSUME state'[e].finalized, ~state'[e].truncated, NEW d \in Dates, StartDay <= d
      PROVE  d \in R
  BY <1>1, <1>2, <1>4, <1>9 DEF SameEnd
<1>10. ASSUME phase' # "raised", NEW d \in R PROVE d < DecidedTo(e)'
  <2>1. d \in Int
    BY <1>3
  <2>2. CASE d \in P
    BY <2>1, <2>2, <1>1, <1>2, <1>3, <1>5, <1>6, <1>10
  <2>3. CASE d \notin P
    <3>1. PICK k \in Mine(e, s, Room) : d = today
      BY <2>3, <1>4
    <3>2. e \in Playing
      BY MineAre
    <3> QED BY <3>1, <3>2, <1>1, <1>3, <1>6, <1>10
  <2> QED BY <2>2, <2>3
<1> QED BY <1>1, <1>7, <1>8, <1>9, <1>10 DEF R, today

LEMMA QueuesDecide ==
  ASSUME GamesOK, DecisionsOK, Decide PROVE PlansOwn' /\ QueuesOK' /\ AgentsOK'
<1>1. /\ Room \in Nat /\ Len(Batch) \in Nat /\ Len(rows) \in Nat
      /\ \A k \in 1..Len(rows) : k \in 1..Len(rows') /\ rows'[k] = rows[k]
      /\ \A k \in 1..Len(Batch) : k <= Room =>
              Len(rows) + k \in 1..Len(rows') /\ rows'[Len(rows) + k] = Row(Batch[k])
      /\ phase = "decide" /\ phase' \in {"act", "raised"} /\ (phase' = "act" => Len(Batch) <= Room)
      /\ Playing' = Playing
      /\ \A e \in Episodes : /\ SameAgents(state'[e], state[e])
                             /\ Day(state'[e]) = Day(state[e]) /\ Hour(state'[e]) = Hour(state[e])
  BY DecideIs
<1>2. ASSUME NEW e \in Episodes, NEW s \in Seats, NEW q \in state'[e].queued[s]
      PROVE  \E k \in Mine(e, s, Room + 1) : q = [day |-> Day(state[e]), plan |-> Batch[k].plan]
  <2>1. state[e].queued[s] = {}
    BY <1>1 DEF DecisionsOK, QueuesOK
  <2> QED BY <2>1, DecidedSeat
<1>3. PlansOwn'
  <2> SUFFICES ASSUME NEW e \in Episodes, NEW s \in Seats
               PROVE  /\ \A q \in state'[e].queued[s] \cup state'[e].consumed[s] :
                           q.plan.for = [episode |-> e, seat |-> s, day |-> q.day]
                      /\ \A q \in state'[e].consumed[s] : \E k \in 1..Len(rows') :
                           rows'[k].plan = q.plan
                      /\ phase' # "raised" =>
                           \A q \in state'[e].queued[s] : \E k \in 1..Len(rows') :
                              rows'[k].plan = q.plan
    BY DEF PlansOwn
  <2>1. state'[e].consumed[s] = state[e].consumed[s]
    BY DecidedSeat
  <2>2. ASSUME NEW q \in state'[e].queued[s]
        PROVE  /\ q.plan.for = [episode |-> e, seat |-> s, day |-> q.day]
               /\ phase' # "raised" => \E k \in 1..Len(rows') : rows'[k].plan = q.plan
    <3>1. PICK k \in Mine(e, s, Room + 1) : q = [day |-> Day(state[e]), plan |-> Batch[k].plan]
      BY <1>2
    <3>2. q.day = Day(state[e]) /\ q.plan = Batch[k].plan
      BY <3>1
    <3>3. /\ k \in 1..Len(Batch) /\ (phase' = "act" => k <= Room)
          /\ Batch[k].plan.for = [episode |-> e, seat |-> s, day |-> Day(state[e])]
          /\ Row(Batch[k]).plan = Batch[k].plan
      BY MineAre
    <3> QED BY <3>2, <3>3, <1>1
  <2>3. \A q \in state'[e].consumed[s] :
          /\ q.plan.for = [episode |-> e, seat |-> s, day |-> q.day]
          /\ \E k \in 1..Len(rows') : rows'[k].plan = q.plan
    <3>1. \A q \in state[e].consumed[s] :
            /\ q.plan.for = [episode |-> e, seat |-> s, day |-> q.day]
            /\ \E k \in 1..Len(rows) : rows[k].plan = q.plan
      BY DEF DecisionsOK, PlansOwn
    <3> QED BY <3>1, <2>1, <1>1
  <2> QED BY <2>2, <2>3
<1>4. QueuesOK'
  <2> SUFFICES ASSUME NEW e \in Episodes, NEW s \in Seats
               PROVE  /\ \A q \in state'[e].queued[s] :
                           /\ phase' \in {"act", "raised"} /\ q.day = Day(state'[e])
                           /\ Hour(state'[e]) = 0 /\ StartDay <= q.day /\ e \in Playing'
                      /\ \A p, q \in state'[e].queued[s] : p = q
    BY DEF QueuesOK
  <2>1. ASSUME NEW q \in state'[e].queued[s]
        PROVE  /\ q.day = Day(state[e]) /\ Hour(state[e]) = 0 /\ StartDay <= q.day /\ e \in Playing
    <3>1. PICK k \in Mine(e, s, Room + 1) : q = [day |-> Day(state[e]), plan |-> Batch[k].plan]
      BY <1>2
    <3>2. q.day = Day(state[e])
      BY <3>1
    <3>3. e \in Playing /\ StartDay <= Day(state[e]) /\ Hour(state[e]) = 0
      BY MineAre
    <3> QED BY <3>2, <3>3
  <2>2. ASSUME NEW p \in state'[e].queued[s], NEW q \in state'[e].queued[s] PROVE p = q
    <3>1. PICK j \in Mine(e, s, Room + 1) : p = [day |-> Day(state[e]), plan |-> Batch[j].plan]
      BY <1>2
    <3>2. PICK k \in Mine(e, s, Room + 1) : q = [day |-> Day(state[e]), plan |-> Batch[k].plan]
      BY <1>2
    <3>3. Room + 1 \in Int
      BY <1>1
    <3>4. j = k
      BY <3>3, MineIs
    <3> QED BY <3>1, <3>2, <3>4
  <2> QED BY <2>1, <2>2, <1>1
<1>5. AgentsOK'
  <2>1. \A e \in Episodes, s \in Seats : state'[e].agent_day[s] = state[e].agent_day[s]
    BY <1>1 DEF SameAgents
  <2> QED BY <2>1, <1>1 DEF DecisionsOK, AgentsOK
<1> QED BY <1>3, <1>4, <1>5

LEMMA DecisionsDecide == ASSUME GamesOK, DecisionsOK, Decide PROVE DecisionsOK'
BY RowsDecide, PlannedDecide, QueuesDecide DEF DecisionsOK

\* The steps that record nothing: rows, index and planned days are as they were.
LEMMA RecordsKept ==
  ASSUME GamesOK, DecisionsOK, phase # "raised", casting' = casting, Len(rows') = Len(rows),
         \A k \in 1..Len(rows) : RowKept(rows'[k], rows[k]),
         \A e \in Episodes : /\ state'[e].planned_days = state[e].planned_days
                             /\ state'[e].transition_index = state[e].transition_index
                             /\ Day(state'[e]) \in Int /\ Day(state[e]) <= Day(state'[e])
                             /\ phase' # "raised" => DecidedTo(e)' = DecidedTo(e)
                             /\ state'[e].finalized /\ ~state'[e].truncated =>
                                  \/ state[e].finalized /\ ~state[e].truncated
                                  \/ DecidedTo(e) = Days
  PROVE  RowsOwn' /\ RowsOnce' /\ IndexOK' /\ PlannedOK' /\ NotAhead'
<1>0. \A k \in 1..Len(rows) : rows[k].episode \in Episodes /\ rows[k].seat \in Seats
  <2> TAKE k \in 1..Len(rows)
  <2>1. rows \in Seq(Row0)
    BY DEF GamesOK, RowsTypes
  <2>2. rows[k] \in Row0
    BY <2>1
  <2> QED BY <2>2 DEF Row0
<1>1. \A k \in 1..Len(rows) :
        /\ rows'[k].episode = rows[k].episode /\ rows'[k].seat = rows[k].seat
        /\ rows'[k].day = rows[k].day /\ rows'[k].trainable = rows[k].trainable
        /\ rows'[k].plan = rows[k].plan /\ rows'[k].value = rows[k].value
  BY DEF RowKept
<1>2. RowsOwn'
  BY <1>0, <1>1 DEF DecisionsOK, RowsOwn, Trainable, Policy
<1>3. RowsOnce'
  BY <1>1 DEF DecisionsOK, RowsOnce
<1>4. IndexOK'
  BY <1>1 DEF DecisionsOK, IndexOK
<1>5. PlannedOK' /\ NotAhead'
  <2> SUFFICES ASSUME NEW e \in Episodes, NEW s \in Seats
               PROVE  /\ \A d \in state'[e].planned_days[s] :
                           /\ StartDay <= d /\ d <= Day(state'[e])
                           /\ \E k \in 1..Len(rows') : rows'[k].episode = e /\ rows'[k].seat = s
                                                       /\ rows'[k].day = d
                      /\ phase' # "raised" =>
                           \A d \in Dates : StartDay <= d /\ d < DecidedTo(e)' =>
                              d \in state'[e].planned_days[s]
                      /\ state'[e].finalized /\ ~state'[e].truncated =>
                           \A d \in Dates : StartDay <= d => d \in state'[e].planned_days[s]
                      /\ phase' # "raised" => \A d \in state'[e].planned_days[s] : d < DecidedTo(e)'
    BY DEF PlannedOK, NotAhead
  <2> DEFINE P == state[e].planned_days[s]
  <2>1. state'[e].planned_days[s] = P
    OBVIOUS
  <2>2. /\ \A d \in P : /\ StartDay <= d /\ d <= Day(state[e])
                        /\ \E k \in 1..Len(rows) : rows[k].episode = e /\ rows[k].seat = s
                                                   /\ rows[k].day = d
        /\ \A d \in Dates : StartDay <= d /\ d < DecidedTo(e) => d \in P
        /\ state[e].finalized /\ ~state[e].truncated => \A d \in Dates : StartDay <= d => d \in P
        /\ \A d \in P : d < DecidedTo(e)
    BY DEF DecisionsOK, PlannedOK, NotAhead
  <2>3. /\ P \in SUBSET Dates /\ Day(state[e]) \in Int /\ \A d \in Dates : d \in Int /\ d < Days
    <3>1. state[e] \in EpisodeState /\ state[e].step <= Days * Hours - 1
      BY DEF GamesOK, LoopTypes, ClocksOK
    <3>2. P \in SUBSET Dates
      BY <3>1 DEF EpisodeState
    <3>3. \A d \in Dates : d \in Int /\ d < Days
      BY Calendar DEF Dates
    <3>4. Day(state[e]) \in Dates
      BY <3>1, DayIs
    <3> QED BY <3>2, <3>3, <3>4
  <2> HIDE DEF P
  <2>4. \A d \in P : /\ StartDay <= d /\ d <= Day(state'[e])
                     /\ \E k \in 1..Len(rows') : rows'[k].episode = e /\ rows'[k].seat = s
                                                 /\ rows'[k].day = d
    <3> TAKE d \in P
    <3>1. d \in Int /\ d <= Day(state[e]) /\ StartDay <= d
      BY <2>2, <2>3
    <3>2. d <= Day(state'[e])
      BY <3>1, <2>3
    <3> QED BY <3>1, <3>2, <2>2, <1>1
  <2>5. state'[e].finalized /\ ~state'[e].truncated =>
          \A d \in Dates : StartDay <= d => d \in P
    BY <2>2, <2>3
  <2> QED BY <2>1, <2>2, <2>4, <2>5
<1> QED BY <1>2, <1>3, <1>4, <1>5

\* The steps after which no plan is queued that was not before, and none consumed.
LEMMA QuietKept ==
  ASSUME GamesOK, DecisionsOK, phase \notin {"act", "raised"}, phase' # "raised",
         casting' = casting, Len(rows') = Len(rows),
         \A k \in 1..Len(rows) : RowKept(rows'[k], rows[k]),
         \A e \in Episodes : /\ SameDecisions(state'[e], state[e])
                             /\ Day(state'[e]) \in Int /\ Day(state[e]) <= Day(state'[e])
                             /\ DecidedTo(e)' = DecidedTo(e)
                             /\ state'[e].finalized /\ ~state'[e].truncated =>
                                  \/ state[e].finalized /\ ~state[e].truncated
                                  \/ DecidedTo(e) = Days
  PROVE  RowsOwn' /\ RowsOnce' /\ IndexOK' /\ PlannedOK' /\ NotAhead' /\ PlansOwn' /\ QueuesOK'
<1>1. RowsOwn' /\ RowsOnce' /\ IndexOK' /\ PlannedOK' /\ NotAhead'
  BY RecordsKept DEF SameDecisions
<1>2. \A e \in Episodes, s \in Seats :
        state'[e].queued[s] = {} /\ state'[e].consumed[s] = state[e].consumed[s]
  BY DEF DecisionsOK, QueuesOK, SameDecisions
<1>3. QueuesOK'
  BY <1>2 DEF QueuesOK
<1>4. PlansOwn'
  <2>1. \A k \in 1..Len(rows) : rows'[k].plan = rows[k].plan
    BY DEF RowKept
  <2> SUFFICES ASSUME NEW e \in Episodes, NEW s \in Seats
               PROVE  /\ \A q \in state'[e].queued[s] \cup state'[e].consumed[s] :
                           q.plan.for = [episode |-> e, seat |-> s, day |-> q.day]
                      /\ \A q \in state'[e].consumed[s] : \E k \in 1..Len(rows') :
                           rows'[k].plan = q.plan
                      /\ \A q \in state'[e].queued[s] : \E k \in 1..Len(rows') :
                           rows'[k].plan = q.plan
    BY DEF PlansOwn
  <2> SUFFICES ASSUME NEW q \in state'[e].consumed[s]
               PROVE  /\ q.plan.for = [episode |-> e, seat |-> s, day |-> q.day]
                      /\ \E k \in 1..Len(rows') : rows'[k].plan = q.plan
    BY <1>2
  <2>2. /\ q.plan.for = [episode |-> e, seat |-> s, day |-> q.day]
        /\ \E k \in 1..Len(rows) : rows[k].plan = q.plan
    BY <1>2 DEF DecisionsOK, PlansOwn
  <2> QED BY <2>1, <2>2
<1> QED BY <1>1, <1>3, <1>4

LEMMA DecisionsIdle ==
  ASSUME GamesOK, DecisionsOK, NoMoreChunks \/ NextTurn \/ ChunkDone \/ UNCHANGED vars
  PROVE  DecisionsOK'
<1>1. CASE UNCHANGED vars
  <2>1. UNCHANGED <<casting, chunk, state, rows, phase>>
    BY <1>1 DEF vars
  <2>2. Playing' = Playing /\ \A e \in Episodes : DecidedTo(e)' = DecidedTo(e)
    BY <2>1 DEF Playing, Range, DecidedTo
  <2>3. RowsOwn' /\ RowsOnce' /\ IndexOK'
    BY <2>1 DEF DecisionsOK, RowsOwn, RowsOnce, IndexOK, Trainable, Policy
  <2>4. PlannedOK' /\ NotAhead'
    BY <2>1, <2>2 DEF DecisionsOK, PlannedOK, NotAhead
  <2>5. PlansOwn' /\ QueuesOK' /\ AgentsOK'
    BY <2>1, <2>2 DEF DecisionsOK, PlansOwn, QueuesOK, AgentsOK
  <2> QED BY <2>3, <2>4, <2>5 DEF DecisionsOK
<1>2. CASE NoMoreChunks \/ NextTurn \/ ChunkDone
  <2>1. UNCHANGED <<casting, chunk, state, rows>>
    BY <1>2 DEF NoMoreChunks, NextTurn, ChunkDone, setup
  <2>2. /\ phase \in {"chunk", "finish", "decide"} /\ phase' \in {"returned", "decide", "chunk"}
    BY <1>2 DEF NoMoreChunks, NextTurn, ChunkDone
  <2>3. /\ \A k \in 1..Len(rows) : RowKept(rows'[k], rows[k])
        /\ \A e \in Episodes : /\ SameDecisions(state'[e], state[e])
                               /\ DecidedTo(e)' = DecidedTo(e)
    BY <2>1, <2>2 DEF RowKept, SameDecisions, DecidedTo
  <2>4. \A e \in Episodes : Day(state[e]) \in Int
    BY DayIs, Calendar DEF GamesOK, LoopTypes, ClocksOK, Dates
  <2>5. RowsOwn' /\ RowsOnce' /\ IndexOK' /\ PlannedOK' /\ NotAhead' /\ PlansOwn' /\ QueuesOK'
    BY <2>1, <2>2, <2>3, <2>4, QuietKept
  <2>6. AgentsOK'
    BY <2>1, <2>2 DEF DecisionsOK, AgentsOK
  <2> QED BY <2>5, <2>6 DEF DecisionsOK
<1> QED BY <1>1, <1>2

LEMMA DecisionsNextChunk == ASSUME GamesOK, DecisionsOK, NextChunk PROVE DecisionsOK'
<1> DEFINE r == ObserveReset(Unplayed)
<1>1. SamePlay(r, Unplayed) /\ SameDecisions(r, Unplayed) /\ SameAgents(r, Unplayed)
      /\ SameEnd(r, Unplayed)
  BY ResetIs
<1>2. /\ phase = "chunk" /\ phase' = "decide"
      /\ UNCHANGED <<casting, max_turns, capacity, rows, results>>
      /\ state' = [e \in Episodes |-> IF \E k \in DOMAIN chunk' : chunk'[k] = e
                                      THEN r ELSE state[e]]
  BY DEF NextChunk, setup
<1> HIDE DEF r
<1>3. \A e \in Range(chunk)' : e \in Range(waiting)
  BY LinesNext
<1>4. \A e \in Episodes : e \in Range(chunk)' => state[e] = Unplayed
  BY <1>3 DEF GamesOK, LinesOK
<1>5. ASSUME NEW e \in Episodes
      PROVE  /\ SamePlay(state'[e], state[e]) /\ SameDecisions(state'[e], state[e])
             /\ SameAgents(state'[e], state[e]) /\ SameEnd(state'[e], state[e])
  <2>1. CASE e \in Range(chunk)'
    <3>1. state'[e] = r
      BY <2>1, <1>2 DEF Range
    <3> QED BY <3>1, <2>1, <1>1, <1>4
  <2>2. CASE e \notin Range(chunk)'
    <3>1. state'[e] = state[e]
      BY <2>2, <1>2 DEF Range
    <3> QED BY <3>1 DEF SamePlay, SameDecisions, SameAgents, SameEnd
  <2> QED BY <2>1, <2>2
<1>6. \A e \in Episodes : /\ Day(state'[e]) = Day(state[e]) /\ Hour(state'[e]) = Hour(state[e])
                          /\ DecidedTo(e)' = DecidedTo(e)
                          /\ state'[e].agent_day = state[e].agent_day
  BY <1>2, <1>5 DEF SamePlay, SameAgents, Day, Hour, DecidedTo
<1>7. \A e \in Episodes : Day(state[e]) \in Int
  BY DayIs, Calendar DEF GamesOK, LoopTypes, ClocksOK, Dates
<1>8. RowsOwn' /\ RowsOnce' /\ IndexOK' /\ PlannedOK' /\ NotAhead' /\ PlansOwn' /\ QueuesOK'
  BY <1>2, <1>5, <1>6, <1>7, QuietKept DEF SameEnd, RowKept
<1>9. AgentsOK'
  BY <1>2, <1>6 DEF DecisionsOK, AgentsOK
<1> QED BY <1>8, <1>9 DEF DecisionsOK

\* What a turn of the engine leaves of the decisions, and where it leaves the clocks.
LEMMA StepIs ==
  ASSUME GamesOK, Step
  PROVE  /\ phase = "step" /\ phase' = "finish"
         /\ UNCHANGED <<casting, max_turns, capacity, waiting, chunk, rows, results>>
         /\ \A e \in Episodes \ Playing : state'[e] = state[e]
         /\ \A e \in Playing :
              /\ SameEnd(state'[e], state[e]) /\ SameDecisions(state'[e], state[e])
              /\ SameAgents(state'[e], state[e])
              /\ Day(state'[e]) = (IF Hour(state[e]) = Hours - 1 THEN Day(state[e]) + 1
                                   ELSE Day(state[e]))
              /\ Hour(state'[e]) = (IF Hour(state[e]) = Hours - 1 THEN 0 ELSE Hour(state[e]) + 1)
<1>1. /\ phase = "step" /\ phase' = "finish"
      /\ UNCHANGED <<casting, max_turns, capacity, waiting, chunk, rows, results>>
  BY DEF Step, setup
<1>2. PICK who : state' = [e \in Episodes |->
             IF e \in Playing
             THEN TrackPostStep(Stepped(state[e], {h[2] : h \in {h \in who : h[1] = e}}))
             ELSE state[e]]
  BY DEF Step
<1>3. ASSUME NEW e \in Playing
      PROVE  /\ SameEnd(state'[e], state[e]) /\ SameDecisions(state'[e], state[e])
             /\ SameAgents(state'[e], state[e])
             /\ Day(state'[e]) = (IF Hour(state[e]) = Hours - 1 THEN Day(state[e]) + 1
                                  ELSE Day(state[e]))
             /\ Hour(state'[e]) = (IF Hour(state[e]) = Hours - 1 THEN 0 ELSE Hour(state[e]) + 1)
  <2> DEFINE hiring == {h[2] : h \in {h \in who : h[1] = e}}
  <2>1. /\ e \in Episodes /\ state[e] \in EpisodeState /\ state[e].step + 1 <= Days * Hours - 1
        /\ ~state[e].finalized /\ e \in Range(chunk)
    BY <1>1, PlayingOpen
  <2>2. Begun(state[e]) /\ LaborSeen(state[e]) /\ Digested(state[e], Hour(state[e]) + 1)
    <3>1. TurnsIn(e) = Hour(state[e]) + 1
      BY <1>1 DEF TurnsIn
    <3> QED BY <1>1, <2>1, <3>1 DEF GamesOK, LaborOK, DigestsOK
  <2>3. state'[e] = TrackPostStep(Stepped(state[e], hiring))
    BY <1>2, <2>1
  <2> HIDE DEF hiring
  <2> QED BY <2>1, <2>2, <2>3, TurnTracked
<1> QED BY <1>1, <1>2, <1>3

LEMMA DecisionsStep == ASSUME GamesOK, DecisionsOK, Step PROVE DecisionsOK'
<1>1. /\ phase = "step" /\ phase' = "finish"
      /\ UNCHANGED <<casting, max_turns, capacity, waiting, chunk, rows, results>>
      /\ \A e \in Episodes \ Playing : state'[e] = state[e]
      /\ \A e \in Playing :
              /\ SameEnd(state'[e], state[e]) /\ SameDecisions(state'[e], state[e])
              /\ SameAgents(state'[e], state[e])
              /\ Day(state'[e]) = (IF Hour(state[e]) = Hours - 1 THEN Day(state[e]) + 1
                                   ELSE Day(state[e]))
              /\ Hour(state'[e]) = (IF Hour(state[e]) = Hours - 1 THEN 0 ELSE Hour(state[e]) + 1)
  BY StepIs
<1>2. \A e \in Episodes : /\ Day(state[e]) \in Int /\ Hour(state[e]) \in 0..(Hours - 1)
                          /\ state[e] \in EpisodeState
  BY DayIs, Calendar DEF GamesOK, LoopTypes, ClocksOK, Dates
<1>3. Hours \in Nat /\ Hours >= 2
  BY Calendar
<1>4. \A e \in Episodes :
        /\ SameDecisions(state'[e], state[e]) /\ SameEnd(state'[e], state[e])
        /\ SameAgents(state'[e], state[e])
        /\ Day(state'[e]) \in Int /\ Day(state[e]) <= Day(state'[e])
        /\ DecidedTo(e)' = DecidedTo(e)
  <2> TAKE e \in Episodes
  <2>1. CASE e \in Playing
    <3>1. DecidedTo(e) = Day(state[e]) + 1
      BY <2>1, <1>1 DEF DecidedTo
    <3>2. DecidedTo(e)' = Day(state'[e]) + (IF Hour(state'[e]) > 0 THEN 1 ELSE 0)
      BY <1>1 DEF DecidedTo
    <3> QED BY <2>1, <3>1, <3>2, <1>1, <1>2, <1>3
  <2>2. CASE e \notin Playing
    <3>1. state'[e] = state[e]
      BY <2>2, <1>1
    <3>2. DecidedTo(e)' = DecidedTo(e)
      BY <2>2, <3>1, <1>1 DEF DecidedTo
    <3> QED BY <3>1, <3>2, <1>2 DEF SameDecisions, SameEnd, SameAgents
  <2> QED BY <2>1, <2>2
<1>5. RowsOwn' /\ RowsOnce' /\ IndexOK' /\ PlannedOK' /\ NotAhead' /\ PlansOwn' /\ QueuesOK'
  BY <1>1, <1>4, QuietKept DEF SameEnd, RowKept
<1>6. AgentsOK'
  <2> SUFFICES ASSUME NEW e \in Episodes, NEW s \in Seats, state'[e].agent_day[s] # None
               PROVE  /\ state'[e].agent_day[s] <= Day(state'[e])
                      /\ state'[e].agent_day[s] = Day(state'[e]) => Hour(state'[e]) > 0
    BY DEF AgentsOK
  <2> DEFINE a == state[e].agent_day[s]
  <2>1. state'[e].agent_day[s] = a
    BY <1>4 DEF SameAgents
  <2>2. a \in Int
    BY <1>2, <2>1 DEF EpisodeState
  <2>3. a <= Day(state[e]) /\ (a = Day(state[e]) => Hour(state[e]) > 0 \/ e \in Playing)
    BY <2>1, <1>1 DEF DecisionsOK, AgentsOK
  <2> HIDE DEF a
  <2>4. CASE e \in Playing
    BY <2>1, <2>2, <2>3, <2>4, <1>1, <1>2, <1>3
  <2>5. CASE e \notin Playing
    BY <2>1, <2>2, <2>3, <2>5, <1>1, <1>2
  <2> QED BY <2>4, <2>5
<1> QED BY <1>5, <1>6 DEF DecisionsOK

LEMMA DecisionsEnd == ASSUME GamesOK, DecisionsOK, Finish \/ Truncate PROVE DecisionsOK'
<1>1. PICK e, st, reward : reward \in Outcomes /\ Ends(e, st, reward)
  BY EndingIs
<1>2. /\ state' = [state EXCEPT ![e] = state'[e]]
      /\ state'[e].truncated = st.truncated
      /\ SamePlay(state'[e], state[e]) /\ SameDecisions(state'[e], state[e])
      /\ SameAgents(state'[e], state[e])
      /\ rows' = Patched(state'[e], e, reward)
      /\ reward \in [Seats -> Int] /\ state'[e] \in EpisodeState
  BY <1>1, EndedIs
<1>3. /\ e \in Episodes /\ SamePlay(st, state[e])
      /\ \/ phase = "finish" /\ st.done /\ ~st.truncated
         \/ phase = "decide" /\ st.truncated
      /\ UNCHANGED <<casting, chunk, phase>>
  BY <1>1 DEF Ends
<1>4. Len(rows') = Len(rows) /\ \A k \in 1..Len(rows) : RowKept(rows'[k], rows[k])
  <2> DEFINE q == state'[e]
  <2>1. q \in EpisodeState /\ rows' = Patched(q, e, reward)
    BY <1>2
  <2> HIDE DEF q
  <2> QED BY <2>1, <1>2, PatchedIs DEF GamesOK
<1>5. \A i \in Episodes \ {e} : state'[i] = state[i]
  BY <1>2 DEF GamesOK, LoopTypes
<1>6. \A i \in Episodes :
        /\ SamePlay(state'[i], state[i]) /\ SameDecisions(state'[i], state[i])
        /\ SameAgents(state'[i], state[i])
  BY <1>2, <1>5 DEF SamePlay, SameDecisions, SameAgents
<1>7. \A i \in Episodes : Day(state'[i]) = Day(state[i]) /\ Hour(state'[i]) = Hour(state[i])
  BY <1>6 DEF SamePlay, Day, Hour
<1>8. \A i \in Episodes : Day(state[i]) \in Int /\ DecidedTo(i)' = DecidedTo(i)
  <2>1. \A i \in Episodes : Day(state[i]) \in Int
    BY DayIs, Calendar DEF GamesOK, LoopTypes, ClocksOK, Dates
  <2> QED BY <2>1, <1>3, <1>7 DEF DecidedTo
<1>9. ~st.truncated => DecidedTo(e) = Days
  <2>1. st.done /\ phase = "finish" => Day(state[e]) = Days - 1 /\ Hour(state[e]) = Hours - 1
    BY <1>3, DayIs DEF SamePlay, GamesOK, LoopTypes, ClocksOK
  <2> QED BY <2>1, <1>3, Calendar DEF DecidedTo
<1>10. \A i \in Episodes : state'[i].finalized /\ ~state'[i].truncated =>
                             \/ state[i].finalized /\ ~state[i].truncated
                             \/ DecidedTo(i) = Days
  BY <1>2, <1>5, <1>9
<1>11. RowsOwn' /\ RowsOnce' /\ IndexOK' /\ PlannedOK' /\ NotAhead' /\ PlansOwn' /\ QueuesOK'
  <2>1. phase \notin {"act", "raised"} /\ phase' # "raised"
    BY <1>3
  <2> QED BY <2>1, <1>3, <1>4, <1>6, <1>7, <1>8, <1>10, QuietKept
<1>12. AgentsOK'
  <2>1. \A i \in Episodes : state'[i].agent_day = state[i].agent_day
    BY <1>6 DEF SameAgents
  <2> QED BY <2>1, <1>3, <1>7 DEF DecisionsOK, AgentsOK
<1> QED BY <1>11, <1>12 DEF DecisionsOK

LEMMA DecisionsAct == ASSUME GamesOK, DecisionsOK, Act PROVE DecisionsOK'
<1>1. /\ phase = "act" /\ phase' \in {"step", "raised"}
      /\ UNCHANGED <<casting, max_turns, capacity, waiting, chunk, rows, results, turn>>
      /\ \A e \in Episodes \ Playing : state'[e] = state[e]
      /\ \A e \in Playing : \E g \in [Seats -> BOOLEAN] :
           state'[e] = Hashed(Consumed(Consumed([state[e] EXCEPT !.diverged = g], 0), 1))
  BY ActIs
<1>2. \A e \in Episodes : /\ state[e] \in EpisodeState /\ Day(state[e]) \in Int
                          /\ Day(state[e]) \in Dates
  BY DayIs, Calendar DEF GamesOK, LoopTypes, ClocksOK, Dates
<1>3. StartDay \in Int
  BY Calendar
<1>4. ASSUME NEW e \in Playing
      PROVE  \E g \in [Seats -> BOOLEAN] : IsActed(state'[e], state[e], g)
  <2>1. PICK g \in [Seats -> BOOLEAN] :
          state'[e] = Hashed(Consumed(Consumed([state[e] EXCEPT !.diverged = g], 0), 1))
    BY <1>1
  <2>2. IsActed(state'[e], state[e], g)
    BY <2>1, <1>1, PlayingOpen, ActedIs
  <2> QED BY <2>2
<1>5. \A e \in Episodes :
        /\ SamePlay(state'[e], state[e]) /\ SameEnd(state'[e], state[e])
        /\ state'[e].planned_days = state[e].planned_days
        /\ state'[e].transition_index = state[e].transition_index
  BY <1>1, <1>4 DEF IsActed, SamePlay, SameEnd
<1>6. \A e \in Episodes : /\ Day(state'[e]) = Day(state[e]) /\ Hour(state'[e]) = Hour(state[e])
                          /\ state'[e].done = state[e].done
  BY <1>5 DEF SamePlay, Day, Hour
<1>7. Playing' = Playing
  <2>1. Range(chunk) \subseteq Episodes /\ Range(chunk)' = Range(chunk)
    BY <1>1, PlayingIs DEF GamesOK, Range
  <2> QED BY <2>1, <1>6 DEF Playing
<1>8. \A e \in Episodes : phase' # "raised" => DecidedTo(e)' = DecidedTo(e)
  BY <1>1, <1>6, <1>7 DEF DecidedTo
<1>9. RowsOwn' /\ RowsOnce' /\ IndexOK' /\ PlannedOK' /\ NotAhead'
  BY <1>1, <1>2, <1>5, <1>6, <1>8, RecordsKept DEF SameEnd, RowKept
<1>10. ASSUME NEW e \in Episodes, NEW s \in Seats
       PROVE  /\ state'[e].queued[s] = {}
              /\ \A q \in state'[e].consumed[s] :
                   q \in state[e].consumed[s] \/ q \in state[e].queued[s]
              /\ \/ state'[e].agent_day[s] = state[e].agent_day[s]
                 \/ e \in Playing /\ state'[e].agent_day[s] = Day(state[e])
  <2>1. CASE e \in Playing
    <3>1. PICK g \in [Seats -> BOOLEAN] : IsActed(state'[e], state[e], g)
      BY <2>1, <1>4
    <3>2. /\ state'[e].queued[s] = state[e].queued[s] \ Taken(state[e], g, s)
          /\ state'[e].consumed[s] = state[e].consumed[s] \cup Taken(state[e], g, s)
          /\ state'[e].agent_day[s] = IF Wants(state[e], g, s) THEN Day(state[e])
                                      ELSE state[e].agent_day[s]
      BY <3>1 DEF IsActed
    <3>3. \A q \in Taken(state[e], g, s) : q \in state[e].queued[s]
      BY DEF Taken
    <3>4. ASSUME NEW q \in state[e].queued[s] PROVE q \in Taken(state[e], g, s)
      <4>1. q.day = Day(state[e]) /\ Hour(state[e]) = 0 /\ StartDay <= q.day
        BY DEF DecisionsOK, QueuesOK
      <4>2. state[e].agent_day[s] # Day(state[e])
        <5>1. Day(state[e]) # None
          BY <1>2, SelfPlayAssumption
        <5> QED BY <5>1, <4>1, <1>1 DEF DecisionsOK, AgentsOK
      <4>3. Day(state[e]) >= StartDay
        BY <4>1, <1>2, <1>3
      <4> QED BY <4>1, <4>2, <4>3 DEF Taken, Wants
    <3> QED BY <2>1, <3>2, <3>3, <3>4, <1>1
  <2>2. CASE e \notin Playing
    <3>1. state'[e] = state[e]
      BY <2>2, <1>1
    <3>2. state[e].queued[s] = {}
      BY <2>2 DEF DecisionsOK, QueuesOK
    <3> QED BY <2>2, <3>1, <3>2
  <2> QED BY <2>1, <2>2
<1>11. QueuesOK'
  BY <1>10 DEF QueuesOK
<1>12. PlansOwn'
  <2> SUFFICES ASSUME NEW e \in Episodes, NEW s \in Seats
               PROVE  /\ \A q \in state'[e].queued[s] \cup state'[e].consumed[s] :
                           q.plan.for = [episode |-> e, seat |-> s, day |-> q.day]
                      /\ \A q \in state'[e].consumed[s] : \E k \in 1..Len(rows') :
                           rows'[k].plan = q.plan
                      /\ phase' # "raised" => \A q \in state'[e].queued[s] :
                           \E k \in 1..Len(rows') : rows'[k].plan = q.plan
    BY DEF PlansOwn
  <2> SUFFICES ASSUME NEW q \in state'[e].consumed[s]
               PROVE  /\ q.plan.for = [episode |-> e, seat |-> s, day |-> q.day]
                      /\ \E k \in 1..Len(rows) : rows[k].plan = q.plan
    BY <1>1, <1>10
  <2>1. q \in state[e].consumed[s] \/ q \in state[e].queued[s]
    BY <1>10
  <2>2. CASE q \in state[e].consumed[s]
    BY <2>2 DEF DecisionsOK, PlansOwn
  <2>3. CASE q \in state[e].queued[s]
    BY <2>3, <1>1 DEF DecisionsOK, PlansOwn
  <2> QED BY <2>1, <2>2, <2>3
<1>13. AgentsOK'
  <2> SUFFICES ASSUME NEW e \in Episodes, NEW s \in Seats, state'[e].agent_day[s] # None
               PROVE  /\ state'[e].agent_day[s] <= Day(state[e])
                      /\ state'[e].agent_day[s] = Day(state[e]) =>
                           Hour(state[e]) > 0 \/ (phase' = "step" /\ e \in Playing)
                             \/ phase' = "raised"
    BY <1>6, <1>7 DEF AgentsOK
  <2>1. CASE e \in Playing /\ state'[e].agent_day[s] = Day(state[e])
    BY <2>1, <1>1, <1>2
  <2>2. CASE state'[e].agent_day[s] = state[e].agent_day[s]
    BY <2>2, <1>1 DEF DecisionsOK, AgentsOK
  <2> QED BY <2>1, <2>2, <1>10
<1> QED BY <1>9, <1>11, <1>12, <1>13 DEF DecisionsOK

LEMMA DecisionsInit == Init => DecisionsOK
<1> SUFFICES ASSUME Init PROVE DecisionsOK
  OBVIOUS
<1>1. /\ state = [e \in Episodes |-> Unplayed] /\ rows = <<>> /\ phase = "chunk"
      /\ chunk = <<>>
  BY DEF Init
<1>2. Len(rows) = 0 /\ 1..Len(rows) = {}
  BY <1>1
<1>3. Hour(Unplayed) = 0 /\ Day(Unplayed) = 0
  BY UnplayedIs
<1>4. \A e \in Episodes : DecidedTo(e) = 0 /\ state[e] = Unplayed
  BY <1>1, <1>3 DEF DecidedTo
<1>5. /\ ~Unplayed.finalized /\ Unplayed.transition_index = {}
      /\ \A s \in Seats : /\ Unplayed.planned_days[s] = {} /\ Unplayed.queued[s] = {}
                          /\ Unplayed.consumed[s] = {} /\ Unplayed.agent_day[s] = None
  BY UnplayedIs
<1>6. RowsOwn /\ RowsOnce
  BY <1>2 DEF RowsOwn, RowsOnce
<1>7. IndexOK /\ NotAhead /\ PlansOwn /\ QueuesOK /\ AgentsOK
  BY <1>4, <1>5 DEF IndexOK, NotAhead, PlansOwn, QueuesOK, AgentsOK
<1>8. PlannedOK
  <2>1. \A d \in Dates : ~(d < 0)
    BY Calendar DEF Dates
  <2> QED BY <2>1, <1>4, <1>5 DEF PlannedOK
<1> QED BY <1>6, <1>7, <1>8 DEF DecisionsOK

LEMMA DecisionsAlways == Spec => []DecisionsOK
<1>1. Init => DecisionsOK
  BY DecisionsInit
<1>2. GamesOK /\ DecisionsOK /\ [Next]_vars => DecisionsOK'
  BY DecisionsIdle, DecisionsNextChunk, DecisionsDecide, DecisionsAct, DecisionsStep, DecisionsEnd
     DEF Next
<1> QED BY <1>1, <1>2, GamesAlways, PTL DEF Spec

-----------------------------------------------------------------------------
(* What the end of a game writes into its rows. *)

\* The row is the last one of its seat.
IsLast(k) == \A d \in state[rows[k].episode].planned_days[rows[k].seat] : d <= rows[k].day

Plain(k) == rows[k].reward = 0 /\ ~rows[k].terminated /\ ~rows[k].truncated

Credited(k, i) ==
  LET st == state[rows[k].episode]
  IN  IF IsLast(k)
      THEN /\ rows[k].reward = results[i].rewards[rows[k].seat]
           /\ rows[k].terminated = ~st.truncated /\ rows[k].truncated = st.truncated
      ELSE Plain(k)

Result == [episode : Episodes, rewards : Outcomes, terminated : BOOLEAN,
           transitions : {Cardinality(T) : T \in SUBSET Indexed}]

CreditOK ==
  /\ results \in Seq(Result)
  /\ \A k \in 1..Len(rows) :
       LET st == state[rows[k].episode]
       IN  IF st.finalized
           THEN /\ rows[k].digest = st.day_digests[rows[k].day]
                /\ \E i \in 1..Len(results) :
                      results[i].episode = rows[k].episode /\ Credited(k, i)
           ELSE Plain(k)

\* The rows of a game are found by its index, the last one of each seat among them.
LEMMA LastIs ==
  ASSUME GamesOK, DecisionsOK, NEW e \in Episodes, NEW k \in 1..Len(rows), NEW st,
         SameDecisions(st, state[e])
  PROVE  /\ (\E t \in st.transition_index : t.row = k) <=> rows[k].episode = e
         /\ (\E t \in LastOf(st, 0) \cup LastOf(st, 1) : t.row = k)
              <=> rows[k].episode = e /\ IsLast(k)
<1> DEFINE T == state[e].transition_index
           own(s) == {t \in T : t.seat = s}
<1>1. /\ st.transition_index = T
      /\ Seats = {0, 1}
  BY DEF SameDecisions, Seats
<1>2. /\ T \in SUBSET Indexed
      /\ \A t \in T : /\ t.row \in 1..Len(rows) /\ rows[t.row].episode = e
                      /\ rows[t.row].seat = t.seat /\ rows[t.row].day = t.day
  BY DEF GamesOK, LoopTypes, EpisodeState, DecisionsOK, IndexOK
<1>3. \A j \in 1..Len(rows) : rows[j].episode = e =>
        /\ [seat |-> rows[j].seat, day |-> rows[j].day, row |-> j] \in T
        /\ rows[j].day \in state[e].planned_days[rows[j].seat]
        /\ rows[j].seat \in Seats
  <2>1. \A j \in 1..Len(rows) : rows[j] \in Row0
    BY DEF GamesOK, RowsTypes
  <2> QED BY <2>1 DEF Row0, DecisionsOK, RowsOwn
<1>4. \A s \in Seats : \A d \in state[e].planned_days[s] :
        \E j \in 1..Len(rows) : rows[j].episode = e /\ rows[j].seat = s /\ rows[j].day = d
  BY DEF DecisionsOK, PlannedOK
<1>5. \A s : \A t : t \in LastOf(st, s) <=> t \in own(s) /\ \A o \in own(s) : o.day <= t.day
  BY <1>1 DEF LastOf
<1> HIDE DEF T
<1>6. (\E t \in T : t.row = k) <=> rows[k].episode = e
  <2>1. ASSUME NEW t \in T, t.row = k PROVE rows[k].episode = e
    BY <2>1, <1>2
  <2>2. ASSUME rows[k].episode = e PROVE \E t \in T : t.row = k
    <3> DEFINE t == [seat |-> rows[k].seat, day |-> rows[k].day, row |-> k]
    <3>1. t \in T /\ t.row = k
      BY <2>2, <1>3
    <3> QED BY <3>1
  <2> QED BY <2>1, <2>2
<1>7. ASSUME NEW s \in Seats, NEW t \in LastOf(st, s), t.row = k
      PROVE  rows[k].episode = e /\ IsLast(k)
  <2>1. t \in T /\ t.seat = s /\ \A o \in own(s) : o.day <= t.day
    BY <1>5, <1>7
  <2>2. rows[k].episode = e /\ rows[k].seat = s /\ rows[k].day = t.day
    BY <2>1, <1>2, <1>7
  <2>3. ASSUME NEW d \in state[e].planned_days[s] PROVE d <= rows[k].day
    <3>1. PICK j \in 1..Len(rows) : rows[j].episode = e /\ rows[j].seat = s /\ rows[j].day = d
      BY <1>4
    <3> DEFINE o == [seat |-> rows[j].seat, day |-> rows[j].day, row |-> j]
    <3>2. o \in T
      BY <3>1, <1>3
    <3>3. o.seat = s /\ o.day = d
      BY <3>1
    <3> HIDE DEF o
    <3> QED BY <3>2, <3>3, <2>1, <2>2
  <2> QED BY <2>2, <2>3 DEF IsLast
<1>8. ASSUME rows[k].episode = e, IsLast(k)
      PROVE  \E s \in Seats : \E t \in LastOf(st, s) : t.row = k
  <2> DEFINE t == [seat |-> rows[k].seat, day |-> rows[k].day, row |-> k]
             s == rows[k].seat
  <2>1. t \in T /\ t.seat = s /\ t.day = rows[k].day /\ t.row = k /\ s \in Seats
    BY <1>3, <1>8
  <2> HIDE DEF t
  <2>2. ASSUME NEW o \in own(s) PROVE o.day <= t.day
    <3>1. o \in T /\ o.seat = s
      OBVIOUS
    <3>2. /\ o.row \in 1..Len(rows) /\ rows[o.row].episode = e
          /\ rows[o.row].seat = s /\ rows[o.row].day = o.day
      BY <3>1, <1>2
    <3>3. o.day \in state[e].planned_days[s]
      BY <3>2, <1>3
    <3> QED BY <3>3, <2>1, <1>8 DEF IsLast
  <2>3. t \in LastOf(st, s)
    BY <2>1, <2>2, <1>5
  <2> QED BY <2>1, <2>3
<1> HIDE DEF own
<1>9. (\E t \in LastOf(st, 0) \cup LastOf(st, 1) : t.row = k)
        <=> \E s \in Seats : \E t \in LastOf(st, s) : t.row = k
  BY <1>1
<1> QED BY <1>1, <1>6, <1>7, <1>8, <1>9

\* The steps that end no game and record nothing.
LEMMA CreditKept ==
  ASSUME GamesOK, CreditOK, rows' = rows, results' = results,
         \A e \in Episodes : /\ state'[e].finalized = state[e].finalized
                             /\ state[e].finalized => state'[e] = state[e]
  PROVE  CreditOK'
<1> SUFFICES ASSUME NEW k \in 1..Len(rows)
             PROVE  LET st == state'[rows[k].episode]
                    IN  IF st.finalized
                        THEN /\ rows[k].digest = st.day_digests[rows[k].day]
                             /\ \E i \in 1..Len(results) :
                                   results[i].episode = rows[k].episode /\ Credited(k, i)'
                        ELSE Plain(k)'
  BY DEF CreditOK
<1>1. rows[k].episode \in Episodes
  <2>1. rows[k] \in Row0
    BY DEF GamesOK, RowsTypes
  <2> QED BY <2>1 DEF Row0
<1>2. LET st == state[rows[k].episode]
      IN  IF st.finalized
          THEN /\ rows[k].digest = st.day_digests[rows[k].day]
               /\ \E i \in 1..Len(results) :
                     results[i].episode = rows[k].episode /\ Credited(k, i)
          ELSE Plain(k)
  BY DEF CreditOK
<1>3. Plain(k)' <=> Plain(k)
  BY DEF Plain
<1>4. state[rows[k].episode].finalized => \A i : Credited(k, i)' <=> Credited(k, i)
  BY <1>1, <1>3 DEF Credited, IsLast
<1> QED BY <1>1, <1>2, <1>3, <1>4

LEMMA CreditDecide == ASSUME GamesOK, CreditOK, Decide PROVE CreditOK'
<1>1. /\ results' = results /\ phase = "decide" /\ turn < max_turns
      /\ \A k \in 1..Len(rows) : k \in 1..Len(rows') /\ rows'[k] = rows[k]
      /\ \A k \in 1..Len(Batch) : k <= Room => rows'[Len(rows) + k] = Row(Batch[k])
      /\ \A i \in 1..Len(rows') : i \in 1..Len(rows) \/ \E k \in 1..Len(Batch) :
              k <= Room /\ i = Len(rows) + k
      /\ \A e \in Episodes : state'[e] = Recorded(e, Batch) /\ SameEnd(state'[e], state[e])
  BY DecideIs
<1>2. ASSUME NEW e \in Episodes, state[e].finalized PROVE state'[e] = state[e]
  <2>1. e \notin Playing
    BY <1>1, <1>2, PlayingOpen
  <2> QED BY <2>1, <1>1, RecordedNot
<1> SUFFICES ASSUME NEW k \in 1..Len(rows')
             PROVE  LET st == state'[rows'[k].episode]
                    IN  IF st.finalized
                        THEN /\ rows'[k].digest = st.day_digests[rows'[k].day]
                             /\ \E i \in 1..Len(results) :
                                   results[i].episode = rows'[k].episode /\ Credited(k, i)'
                        ELSE Plain(k)'
  BY <1>1 DEF CreditOK
<1>3. CASE k \in 1..Len(rows)
  <2>1. rows[k].episode \in Episodes /\ rows'[k] = rows[k]
    <3>1. rows[k] \in Row0
      BY <1>3 DEF GamesOK, RowsTypes
    <3> QED BY <3>1, <1>1, <1>3 DEF Row0
  <2>2. LET st == state[rows[k].episode]
        IN  IF st.finalized
            THEN /\ rows[k].digest = st.day_digests[rows[k].day]
                 /\ \E i \in 1..Len(results) :
                       results[i].episode = rows[k].episode /\ Credited(k, i)
            ELSE Plain(k)
    BY <1>3 DEF CreditOK
  <2>3. Plain(k)' <=> Plain(k)
    BY <2>1 DEF Plain
  <2>4. state[rows[k].episode].finalized => \A i : Credited(k, i)' <=> Credited(k, i)
    BY <2>1, <2>3, <1>1, <1>2 DEF Credited, IsLast
  <2>5. state'[rows[k].episode].finalized = state[rows[k].episode].finalized
    BY <2>1, <1>1 DEF SameEnd
  <2> QED BY <2>1, <2>2, <2>3, <2>4, <2>5, <1>2
<1>4. CASE k \notin 1..Len(rows)
  <2>1. PICK j \in 1..Len(Batch) : j <= Room /\ k = Len(rows) + j
    BY <1>1, <1>4
  <2>2. rows'[k] = Row(Batch[j])
    BY <2>1, <1>1
  <2>3. /\ Row(Batch[j]).episode = Batch[j].request.episode
        /\ Row(Batch[j]).reward = 0 /\ ~Row(Batch[j]).terminated /\ ~Row(Batch[j]).truncated
    BY RowIs
  <2>4. Batch[j].request.episode \in Playing
    BY BatchIs DEF GamesOK
  <2>5. /\ Batch[j].request.episode \in Episodes
        /\ ~state[Batch[j].request.episode].finalized
    BY <2>4, <1>1, PlayingOpen
  <2>6. ~state'[rows'[k].episode].finalized
    BY <2>2, <2>3, <2>5, <1>1 DEF SameEnd
  <2>7. Plain(k)'
    BY <2>2, <2>3 DEF Plain
  <2> QED BY <2>6, <2>7
<1> QED BY <1>3, <1>4

LEMMA CreditEnd == ASSUME GamesOK, DecisionsOK, CreditOK, Finish \/ Truncate PROVE CreditOK'
<1>0. PICK n \in Nat : n = Len(results)
  BY DEF CreditOK
<1>1. PICK e, st, reward : reward \in Outcomes /\ Ends(e, st, reward)
  BY EndingIs
<1> DEFINE q == state'[e]
           new == [episode |-> e, rewards |-> reward, terminated |-> ~st.truncated,
                   transitions |-> Cardinality(st.transition_index)]
<1>2. /\ state' = [state EXCEPT ![e] = q] /\ q \in EpisodeState /\ q.finalized
      /\ q.truncated = st.truncated
      /\ SameDecisions(q, state[e])
      /\ rows' = Patched(q, e, reward)
      /\ reward \in [Seats -> Int]
  BY <1>1, EndedIs
<1> HIDE DEF q
<1>3. e \in Episodes /\ ~state[e].finalized /\ st \in EpisodeState
  BY <1>1 DEF Ends
<1>4. results' = Append(results, new)
  BY <1>1 DEF Ends, Finalized
<1>5. \A i \in Episodes : state'[i] = IF i = e THEN q ELSE state[i]
  BY <1>2, <1>3 DEF GamesOK, LoopTypes
<1>6. new \in Result
  <2> DEFINE c == Cardinality(st.transition_index)
             f == ~st.truncated
  <2>1. st.transition_index \in SUBSET Indexed /\ f \in BOOLEAN
    BY <1>3 DEF EpisodeState
  <2>2. c \in {Cardinality(T) : T \in SUBSET Indexed}
    BY <2>1
  <2>3. new = [episode |-> e, rewards |-> reward, terminated |-> f, transitions |-> c]
    OBVIOUS
  <2> HIDE DEF c, f, new
  <2> QED BY <2>1, <2>2, <2>3, <1>1, <1>3 DEF Result
<1>7. new.episode = e /\ new.rewards = reward
  OBVIOUS
<1> HIDE DEF new
<1>8. results \in Seq(Result)
  BY DEF CreditOK
<1>9. /\ results' \in Seq(Result) /\ Len(results') = n + 1
      /\ \A i \in 1..n : i \in 1..(n + 1) /\ results'[i] = results[i]
      /\ n + 1 \in 1..(n + 1) /\ results'[n + 1] = new
  BY <1>4, <1>6, <1>8, <1>0
<1>10. /\ Len(rows') = Len(rows)
       /\ \A k \in 1..Len(rows) :
            /\ RowKept(rows'[k], rows[k])
            /\ rows'[k].digest = IF \E t \in q.transition_index : t.row = k
                                 THEN q.day_digests[rows[k].day] ELSE rows[k].digest
            /\ IF \E t \in LastOf(q, 0) \cup LastOf(q, 1) : t.row = k
               THEN /\ rows'[k].reward = reward[rows[k].seat]
                    /\ rows'[k].terminated = ~q.truncated /\ rows'[k].truncated = q.truncated
               ELSE /\ rows'[k].reward = rows[k].reward
                    /\ rows'[k].terminated = rows[k].terminated
                    /\ rows'[k].truncated = rows[k].truncated
  BY <1>2, PatchedIs DEF GamesOK
<1> SUFFICES ASSUME NEW k \in 1..Len(rows)
             PROVE  LET s == state'[rows'[k].episode]
                    IN  IF s.finalized
                        THEN /\ rows'[k].digest = s.day_digests[rows'[k].day]
                             /\ \E i \in 1..(n + 1) :
                                   results'[i].episode = rows'[k].episode /\ Credited(k, i)'
                        ELSE Plain(k)'
  BY <1>9, <1>10 DEF CreditOK
<1> DEFINE p == rows[k]
           r == rows'[k]
<1>11. p.episode \in Episodes /\ p.seat \in Seats
  <2>1. rows[k] \in Row0
    BY DEF GamesOK, RowsTypes
  <2> QED BY <2>1 DEF Row0
<1>12. /\ r.episode = p.episode /\ r.seat = p.seat /\ r.day = p.day
       /\ r.digest = IF \E t \in q.transition_index : t.row = k
                     THEN q.day_digests[p.day] ELSE p.digest
       /\ IF \E t \in LastOf(q, 0) \cup LastOf(q, 1) : t.row = k
          THEN /\ r.reward = reward[p.seat]
               /\ r.terminated = ~q.truncated /\ r.truncated = q.truncated
          ELSE /\ r.reward = p.reward
               /\ r.terminated = p.terminated
               /\ r.truncated = p.truncated
  BY <1>10 DEF RowKept
<1>13. /\ (\E t \in q.transition_index : t.row = k) <=> p.episode = e
       /\ (\E t \in LastOf(q, 0) \cup LastOf(q, 1) : t.row = k) <=> p.episode = e /\ IsLast(k)
  BY <1>2, <1>3, LastIs
<1>14. LET s == state[p.episode]
       IN  IF s.finalized
           THEN /\ p.digest = s.day_digests[p.day]
                /\ \E i \in 1..n : results[i].episode = p.episode /\ Credited(k, i)
           ELSE Plain(k)
  BY <1>0 DEF CreditOK
<1>15. IsLast(k)' <=> IsLast(k)
  <2>1. state'[p.episode].planned_days = state[p.episode].planned_days
    BY <1>2, <1>5, <1>11 DEF SameDecisions
  <2> QED BY <2>1, <1>12 DEF IsLast
<1>16. CASE p.episode = e
  <2>1. Plain(k) /\ state'[r.episode] = q
    BY <1>3, <1>5, <1>11, <1>12, <1>14, <1>16
  <2>2. r.digest = q.day_digests[r.day]
    BY <1>12, <1>13, <1>16
  <2>3. Credited(k, n + 1)'
    <3>1. CASE IsLast(k)
      BY <3>1, <2>1, <1>7, <1>9, <1>12, <1>13, <1>15, <1>16 DEF Credited
    <3>2. CASE ~IsLast(k)
      BY <3>2, <2>1, <1>12, <1>13, <1>15, <1>16 DEF Credited, Plain
    <3> QED BY <3>1, <3>2
  <2> QED BY <2>1, <2>2, <2>3, <1>2, <1>7, <1>9, <1>12, <1>16
<1>17. CASE p.episode # e
  <2>1. /\ state'[r.episode] = state[p.episode]
        /\ r.digest = p.digest /\ r.reward = p.reward
        /\ r.terminated = p.terminated /\ r.truncated = p.truncated
    BY <1>5, <1>11, <1>12, <1>13, <1>17
  <2>2. Plain(k)' <=> Plain(k)
    BY <2>1 DEF Plain
  <2>3. ASSUME NEW i \in 1..n, Credited(k, i) PROVE Credited(k, i)'
    <3>1. results'[i] = results[i]
      BY <1>9
    <3>2. CASE IsLast(k)
      BY <3>1, <3>2, <2>1, <2>3, <1>12, <1>15 DEF Credited
    <3>3. CASE ~IsLast(k)
      BY <3>3, <2>2, <2>3, <1>15 DEF Credited
    <3> QED BY <3>2, <3>3
  <2>4. CASE state[p.episode].finalized
    <3>1. PICK i \in 1..n : results[i].episode = p.episode /\ Credited(k, i)
      BY <2>4, <1>14
    <3>2. i \in 1..(n + 1) /\ results'[i].episode = r.episode /\ Credited(k, i)'
      BY <3>1, <2>3, <1>9, <1>12
    <3>3. r.digest = state'[r.episode].day_digests[r.day]
      BY <2>1, <2>4, <1>12, <1>14
    <3> QED BY <3>2, <3>3, <2>1, <2>4
  <2>5. CASE ~state[p.episode].finalized
    BY <2>1, <2>2, <2>5, <1>14
  <2> QED BY <2>4, <2>5
<1> QED BY <1>16, <1>17

LEMMA CreditInit == Init => CreditOK
<1> SUFFICES ASSUME Init PROVE CreditOK
  OBVIOUS
<1>1. results = <<>> /\ rows = <<>>
  BY DEF Init
<1>2. 1..Len(rows) = {} /\ results \in Seq(Result)
  BY <1>1
<1> QED BY <1>2 DEF CreditOK

LEMMA CreditAlways == Spec => []CreditOK
<1>1. Init => CreditOK
  BY CreditInit
<1>2. ASSUME GamesOK, DecisionsOK, CreditOK, [Next]_vars PROVE CreditOK'
  <2>1. CASE NoMoreChunks \/ NextTurn \/ ChunkDone \/ UNCHANGED vars
    <3>1. UNCHANGED <<state, rows, results>>
      BY <2>1 DEF NoMoreChunks, NextTurn, ChunkDone, vars
    <3> QED BY <3>1, <1>2, CreditKept
  <2>2. CASE NextChunk
    <3>1. ASSUME NEW e \in Episodes
          PROVE  /\ state'[e].finalized = state[e].finalized
                 /\ state[e].finalized => state'[e] = state[e]
      <4>1. state' = [i \in Episodes |-> IF \E k \in DOMAIN chunk' : chunk'[k] = i
                                         THEN ObserveReset(Unplayed) ELSE state[i]]
        BY <2>2 DEF NextChunk
      <4>2. CASE e \in Range(chunk)'
        <5>1. state'[e] = ObserveReset(Unplayed)
          BY <4>1, <4>2 DEF Range
        <5>2. state[e] = Unplayed
          BY <4>2, <2>2, <1>2, LinesNext DEF GamesOK, LinesOK
        <5>3. state'[e].finalized = Unplayed.finalized
          BY <5>1, ResetIs DEF SameEnd
        <5> QED BY <5>2, <5>3, UnplayedIs
      <4>3. CASE e \notin Range(chunk)'
        BY <4>1, <4>3 DEF Range
      <4> QED BY <4>2, <4>3
    <3>2. rows' = rows /\ results' = results
      BY <2>2 DEF NextChunk
    <3> QED BY <3>1, <3>2, <1>2, CreditKept
  <2>3. CASE Decide
    BY <2>3, <1>2, CreditDecide
  <2>4. CASE Act
    <3>1. phase = "act" /\ rows' = rows /\ results' = results
      BY <2>4 DEF Act
    <3>2. ASSUME NEW e \in Episodes
          PROVE  /\ state'[e].finalized = state[e].finalized
                 /\ state[e].finalized => state'[e] = state[e]
      <4>1. CASE e \in Playing
        <5>1. PICK g \in [Seats -> BOOLEAN] :
                state'[e] = Hashed(Consumed(Consumed([state[e] EXCEPT !.diverged = g], 0), 1))
          BY <4>1, <2>4, <1>2, ActIs
        <5>2. IsActed(state'[e], state[e], g)
          BY <5>1, <4>1, <3>1, <1>2, PlayingOpen, ActedIs
        <5>3. ~state[e].finalized
          BY <4>1, <3>1, <1>2, PlayingOpen
        <5> QED BY <5>2, <5>3 DEF IsActed, SameEnd
      <4>2. CASE e \notin Playing
        BY <4>2, <2>4, <1>2, ActIs
      <4> QED BY <4>1, <4>2
    <3> QED BY <3>1, <3>2, <1>2, CreditKept
  <2>5. CASE Step
    <3>1. phase = "step" /\ rows' = rows /\ results' = results
      BY <2>5 DEF Step
    <3>2. ASSUME NEW e \in Episodes
          PROVE  /\ state'[e].finalized = state[e].finalized
                 /\ state[e].finalized => state'[e] = state[e]
      <4>1. CASE e \in Playing
        <5>1. ~state[e].finalized
          BY <4>1, <3>1, <1>2, PlayingOpen
        <5>2. SameEnd(state'[e], state[e])
          BY <4>1, <2>5, <1>2, StepIs
        <5> QED BY <5>1, <5>2 DEF SameEnd
      <4>2. CASE e \notin Playing
        BY <4>2, <2>5, <1>2, StepIs
      <4> QED BY <4>1, <4>2
    <3> QED BY <3>1, <3>2, <1>2, CreditKept
  <2>6. CASE Finish \/ Truncate
    BY <2>6, <1>2, CreditEnd
  <2> QED BY <2>1, <2>2, <2>3, <2>4, <2>5, <2>6, <1>2 DEF Next
<1> QED BY <1>1, <1>2, GamesAlways, DecisionsAlways, PTL DEF Spec

-----------------------------------------------------------------------------
(* The rollout as a whole. *)

LEMMA SoundTypes == ASSUME GamesOK, DecisionsOK PROVE SelfPlayTypeOK
<1>1. /\ phase \in Phases /\ turn \in 0..max_turns /\ Len(rows) <= capacity
  BY DEF GamesOK, LoopTypes, RowsTypes
<1>2. ASSUME NEW e \in Episodes
      PROVE  state[e].step \in 0..(Days * Hours - 1)
  <2>1. state[e].step \in Nat /\ state[e].step <= Days * Hours - 1
    BY DEF GamesOK, LoopTypes, ClocksOK, EpisodeState
  <2> QED BY <2>1, Calendar
<1>3. ASSUME NEW e \in Episodes, NEW s \in Seats
      PROVE  Cardinality(state[e].queued[s]) <= 1
  <2> DEFINE Q == state[e].queued[s]
  <2>1. \A p, q \in Q : p = q
    BY DEF DecisionsOK, QueuesOK
  <2>2. CASE Q = {}
    BY <2>2, FS_EmptySet
  <2>3. CASE Q # {}
    <3>1. PICK q \in Q : TRUE
      BY <2>3
    <3>2. Q = {q}
      BY <2>1, <3>1
    <3>3. Cardinality(Q) = 1
      BY <3>2, FS_Singleton
    <3> QED BY <3>3
  <2> QED BY <2>2, <2>3
<1> QED BY <1>1, <1>2, <1>3 DEF SelfPlayTypeOK, Phases

LEMMA SoundDigests == ASSUME GamesOK, DecisionsOK, CreditOK PROVE DigestsAreWholeDays
<1> SUFFICES ASSUME NEW k \in 1..Len(rows), state[rows[k].episode].finalized
             PROVE  LET st == state[rows[k].episode]
                        d == rows[k].day
                        played == IF d < Day(st) THEN Hours
                                  ELSE IF st.done THEN Hours - 1 ELSE Hour(st)
                    IN  rows[k].digest = [h \in 1..played |-> h - 1]
  <2>1. DOMAIN rows = 1..Len(rows)
    BY DEF GamesOK, RowsTypes
  <2> QED BY <2>1 DEF DigestsAreWholeDays
<1> DEFINE e == rows[k].episode
           st == state[e]
           d == rows[k].day
<1>1. e \in Episodes /\ rows[k].seat \in Seats /\ d \in Dates
  <2>1. rows[k] \in Row0
    BY DEF GamesOK, RowsTypes
  <2> QED BY <2>1 DEF Row0
<1>2. rows[k].digest = st.day_digests[d]
  BY DEF CreditOK
<1>3. Sealed(st)
  BY <1>1 DEF GamesOK, DigestsOK
<1>4. d <= Day(st)
  <2>1. d \in st.planned_days[rows[k].seat]
    BY DEF DecisionsOK, RowsOwn
  <2> HIDE DEF e, d
  <2> QED BY <2>1, <1>1 DEF DecisionsOK, PlannedOK
<1>5. /\ Day(st) \in Dates /\ (st.done => Hour(st) = Hours - 1)
  BY <1>1, DayIs DEF GamesOK, LoopTypes, ClocksOK
<1> HIDE DEF e, st, d
<1>6. d \in Int /\ Day(st) \in Int
  BY <1>1, <1>5, Calendar DEF Dates
<1>7. st.day_digests[d] = SoFar(IF d < Day(st) THEN Hours
                                ELSE IF st.done THEN Hours - 1 ELSE Hour(st))
  BY <1>1, <1>3, <1>4, <1>5, <1>6 DEF Sealed
<1> QED BY <1>2, <1>7 DEF SoFar, e, st, d

\* The rollout keeps to its types and its buffer's capacity, and a finished game's digests are
\* those of its own days, every turn of the day in order, whoever's rollover sealed it
\* (seal_day_digest, _record_transition).
THEOREM SelfPlayHolds == Spec => []SelfPlaySound
<1>1. GamesOK /\ DecisionsOK /\ CreditOK => SelfPlaySound
  BY SoundTypes, SoundDigests DEF SelfPlaySound
<1> QED BY <1>1, GamesAlways, DecisionsAlways, CreditAlways, PTL

-----------------------------------------------------------------------------
(* What is accepted for training. *)

LEMMA RowFacts ==
  ASSUME GamesOK, DecisionsOK, NEW k \in DOMAIN rows
  PROVE  /\ k \in 1..Len(rows) /\ rows[k] \in Row0
         /\ rows[k].episode \in Episodes /\ rows[k].seat \in Seats
         /\ rows[k].day \in Dates /\ rows[k].day \in Int /\ StartDay <= rows[k].day
         /\ rows[k].value \in Int /\ rows[k].reward \in Int
         /\ rows[k].day \in state[rows[k].episode].planned_days[rows[k].seat]
<1>1. k \in 1..Len(rows) /\ rows[k] \in Row0
  BY DEF GamesOK, RowsTypes
<1>2. /\ rows[k].episode \in Episodes /\ rows[k].seat \in Seats /\ rows[k].day \in Dates
      /\ rows[k].value \in Int /\ rows[k].reward \in Int
  BY <1>1 DEF Row0
<1>3. rows[k].day \in state[rows[k].episode].planned_days[rows[k].seat]
  BY <1>1 DEF DecisionsOK, RowsOwn
<1>4. StartDay <= rows[k].day
  BY <1>2, <1>3 DEF DecisionsOK, PlannedOK
<1>5. rows[k].day \in Int
  BY <1>2, Calendar DEF Dates
<1> QED BY <1>1, <1>2, <1>3, <1>4, <1>5

LEMMA OwnPlanHolds == ASSUME GamesOK, DecisionsOK PROVE OwnPlanOncePerDay
<1>1. DOMAIN rows = 1..Len(rows)
  BY DEF GamesOK, RowsTypes
<1>2. \A j, k \in DOMAIN rows :
        (rows[j].episode = rows[k].episode /\ rows[j].seat = rows[k].seat
            /\ rows[j].day = rows[k].day) => j = k
  BY <1>1 DEF DecisionsOK, RowsOnce
<1>3. \A e \in Episodes, s \in Seats : \A q \in state[e].consumed[s] :
        /\ q.plan.for = [episode |-> e, seat |-> s, day |-> q.day]
        /\ \E k \in DOMAIN rows : rows[k].plan = q.plan
  <2> TAKE e \in Episodes, s \in Seats
  <2> TAKE q \in state[e].consumed[s]
  <2>1. q.plan.for = [episode |-> e, seat |-> s, day |-> q.day]
    BY DEF DecisionsOK, PlansOwn
  <2>2. \E k \in 1..Len(rows) : rows[k].plan = q.plan
    BY DEF DecisionsOK, PlansOwn
  <2> QED BY <1>1, <2>1, <2>2
<1> QED BY <1>2, <1>3 DEF OwnPlanOncePerDay

\* A set of naturals that is not empty has a least member.
LEMMA Least ==
  ASSUME NEW T \in SUBSET Nat, T # {}
  PROVE  \E x \in T : \A y \in T : x <= y
<1> DEFINE R == {ss \in Nat \X Nat : ss[1] < ss[2]}
<1>1. OpToRel(<, Nat) = R
  BY DEF OpToRel
<1>2. IsWellFoundedOn(R, Nat)
  BY <1>1, NatLessThanWellFounded
<1> HIDE DEF R
<1>3. PICK x \in T : \A y \in T : ~(<<y, x>> \in R)
  BY <1>2, WFMin
<1> USE DEF R
<1>4. ASSUME NEW y \in T PROVE x <= y
  <2>1. SUFFICES ASSUME y < x PROVE FALSE
    OBVIOUS
  <2>2. <<y, x>> \in Nat \X Nat /\ <<y, x>>[1] < <<y, x>>[2]
    BY <2>1
  <2> QED BY <2>2, <1>3
<1> QED BY <1>4

\* A set of days that is not empty has a last one.
LEMMA LastDay ==
  ASSUME NEW S \in SUBSET Dates, S # {}
  PROVE  /\ Max(S) \in S /\ \A d \in S : d <= Max(S)
<1>1. Days \in Nat /\ \A d \in S : d \in Int /\ Days - 1 - d \in Nat
  BY Calendar DEF Dates
<1> DEFINE T == {Days - 1 - d : d \in S}
<1>2. T \in SUBSET Nat /\ T # {}
  BY <1>1
<1> HIDE DEF T
<1>3. PICK x \in T : \A y \in T : x <= y
  BY <1>2, Least
<1>4. PICK m \in S : x = Days - 1 - m
  BY <1>3 DEF T
<1>5. \A d \in S : Days - 1 - d \in T
  BY DEF T
<1>6. \A d \in S : m >= d
  BY <1>1, <1>3, <1>4, <1>5
<1>7. Max(S) \in S /\ \A d \in S : Max(S) >= d
  BY <1>6 DEF Max
<1> QED BY <1>1, <1>7

\* The rows of a trained seat that an update accepts are those of all its managed days, and
\* what is paid at the end of the game is on the last one.
LEMMA AcceptedRows ==
  ASSUME GamesOK, DecisionsOK, CreditOK, GaeAccepts, NEW k \in Trained
  PROVE  /\ {rows[j].day : j \in GaeGroup(k)} = StartDay..(Days - 1)
         /\ state[rows[k].episode].finalized
         /\ rows[k].day # Days - 1 => rows[k].reward = 0
         /\ rows[k].day = Days - 1 => \E i \in 1..Len(results) :
              /\ results[i].episode = rows[k].episode
              /\ results[i].rewards[rows[k].seat] = rows[k].reward
<1> DEFINE e == rows[k].episode
           s == rows[k].seat
           S == {rows[j].day : j \in GaeGroup(k)}
<1>1. /\ k \in DOMAIN rows /\ DOMAIN rows = 1..Len(rows)
      /\ \A j \in DOMAIN rows : rows[j].trainable <=> Trainable(rows[j].episode, rows[j].seat)
  <2>1. DOMAIN rows = 1..Len(rows)
    BY DEF GamesOK, RowsTypes
  <2> QED BY <2>1 DEF Trained, DecisionsOK, RowsOwn
<1>2. /\ e \in Episodes /\ s \in Seats /\ rows[k].day \in Dates /\ k \in GaeGroup(k)
      /\ Trainable(e, s)
  BY <1>1, RowFacts DEF GaeGroup, Trained
<1>3. \A j : j \in GaeGroup(k) <=> j \in Trained /\ rows[j].episode = e /\ rows[j].seat = s
  BY DEF GaeGroup
<1>4. S \in SUBSET Dates /\ S # {} /\ \A d \in S : StartDay <= d /\ d <= Days - 1
  <2>1. \A j \in GaeGroup(k) : j \in DOMAIN rows
    BY DEF GaeGroup, Trained
  <2>2. \A j \in GaeGroup(k) : rows[j].day \in Dates /\ StartDay <= rows[j].day
    BY <2>1, RowFacts
  <2> QED BY <2>2, <1>2, Calendar DEF Dates
<1>5. PICK z \in GaeGroup(k) : rows[z].day = Max(S)
  BY <1>4, LastDay
<1>6. z \in Trained /\ rows[z].episode = e /\ rows[z].seat = s /\ z \in 1..Len(rows)
  BY <1>1, <1>3 DEF Trained
<1>7. GaeGroup(z) = GaeGroup(k)
  BY <1>6 DEF GaeGroup
<1>8. rows[z].terminated
  <2>1. rows[z].terminated = (rows[z].day = Max({rows[j].day : j \in GaeGroup(z)}))
    BY <1>6 DEF GaeAccepts
  <2> QED BY <2>1, <1>5, <1>7
<1>9. state[e].finalized /\ ~state[e].truncated
  <2>1. LET st == state[rows[z].episode]
        IN  IF st.finalized
            THEN \E i \in 1..Len(results) : Credited(z, i)
            ELSE Plain(z)
    BY <1>6 DEF CreditOK
  <2>2. ~Plain(z)
    BY <1>8 DEF Plain
  <2>3. state[e].finalized
    BY <2>1, <2>2, <1>6
  <2>4. PICK i \in 1..Len(results) : Credited(z, i)
    BY <2>1, <2>3, <1>6
  <2>5. rows[z].terminated = ~state[e].truncated
    BY <2>2, <2>4, <1>6 DEF Credited
  <2> QED BY <2>3, <2>5, <1>8
<1>10. \A d \in Dates : StartDay <= d => d \in state[e].planned_days[s]
  BY <1>2, <1>9 DEF DecisionsOK, PlannedOK
<1>11. ASSUME NEW d \in StartDay..(Days - 1) PROVE d \in S
  <2>1. d \in Dates /\ StartDay <= d
    BY Calendar DEF Dates
  <2>2. PICK j \in 1..Len(rows) : rows[j].episode = e /\ rows[j].seat = s /\ rows[j].day = d
    BY <2>1, <1>2, <1>10 DEF DecisionsOK, PlannedOK
  <2>3. j \in GaeGroup(k)
    BY <2>2, <1>1, <1>2, <1>3 DEF Trained
  <2> QED BY <2>2, <2>3
<1>12. S = StartDay..(Days - 1)
  <2>1. \A d \in S : d \in StartDay..(Days - 1)
    BY <1>4, Calendar DEF Dates
  <2> QED BY <2>1, <1>11
<1>13. IsLast(k) <=> rows[k].day = Days - 1
  <2>1. Days - 1 \in Dates /\ StartDay <= Days - 1
    BY Calendar DEF Dates
  <2>2. Days - 1 \in state[e].planned_days[s]
    BY <2>1, <1>10
  <2>3. state[e].planned_days[s] \in SUBSET Dates
    BY <1>2 DEF GamesOK, LoopTypes, EpisodeState
  <2>4. \A d \in Dates : d \in Int /\ d <= Days - 1
    BY Calendar DEF Dates
  <2>5. IsLast(k) <=> \A d \in state[e].planned_days[s] : d <= rows[k].day
    BY DEF IsLast
  <2> QED BY <2>2, <2>3, <2>4, <2>5, <1>2
<1>14. PICK i \in 1..Len(results) : results[i].episode = e /\ Credited(k, i)
  BY <1>1, <1>9 DEF CreditOK
<1>15. IF rows[k].day = Days - 1 THEN rows[k].reward = results[i].rewards[s]
       ELSE rows[k].reward = 0
  BY <1>13, <1>14 DEF Credited, Plain
<1> QED BY <1>9, <1>12, <1>14, <1>15

LEMMA AcceptedHolds == ASSUME GamesOK, DecisionsOK, CreditOK PROVE AcceptedIsComplete
BY AcceptedRows DEF AcceptedIsComplete

\* What the seat s of game e is paid on its last row.
Owed(e, s) ==
  rows[CHOOSE z \in Trained : rows[z].episode = e /\ rows[z].seat = s
                              /\ rows[z].day = Days - 1].reward

\* What the estimates of an undiscounted update come to.
OwedAhead == [k \in Trained |-> Owed(rows[k].episode, rows[k].seat) - rows[k].value]

\* One row's estimate, from those of the rows after it.
Estimate(k, f) == TdError(k) + Gamma * Lambda * AtNext(k, f)

LEMMA OwedIs ==
  ASSUME GamesOK, DecisionsOK, CreditOK, GaeAccepts, NEW k \in Trained
  PROVE  /\ Owed(rows[k].episode, rows[k].seat) \in Int
         /\ rows[k].day = Days - 1 => rows[k].reward = Owed(rows[k].episode, rows[k].seat)
         /\ \E i \in 1..Len(results) :
              /\ results[i].episode = rows[k].episode
              /\ results[i].rewards[rows[k].seat] = Owed(rows[k].episode, rows[k].seat)
<1> DEFINE e == rows[k].episode
           s == rows[k].seat
           last(z) == rows[z].episode = e /\ rows[z].seat = s /\ rows[z].day = Days - 1
           y == CHOOSE z \in Trained : last(z)
<1>1. \E z \in Trained : last(z)
  <2>1. Days - 1 \in StartDay..(Days - 1)
    BY Calendar
  <2>2. PICK j \in GaeGroup(k) : rows[j].day = Days - 1
    BY <2>1, AcceptedRows
  <2> QED BY <2>2 DEF GaeGroup
<1>2. y \in Trained /\ last(y)
  BY <1>1
<1>3. Owed(e, s) = rows[y].reward
  BY DEF Owed
<1> HIDE DEF y
<1>4. y \in DOMAIN rows /\ k \in DOMAIN rows /\ DOMAIN rows = 1..Len(rows)
  BY <1>2 DEF Trained, GamesOK, RowsTypes
<1>5. rows[y].reward \in Int
  BY <1>4, RowFacts
<1>6. rows[k].day = Days - 1 => k = y
  BY <1>2, <1>4 DEF DecisionsOK, RowsOnce
<1>7. \E i \in 1..Len(results) :
        /\ results[i].episode = rows[y].episode
        /\ results[i].rewards[rows[y].seat] = rows[y].reward
  BY <1>2, AcceptedRows
<1> QED BY <1>2, <1>3, <1>5, <1>6, <1>7

\* One step of the sum: the reward of the last row, or what is owed from the next row on.
LEMMA EstimateIs ==
  ASSUME GamesOK, DecisionsOK, CreditOK, GaeAccepts, Gamma = 1, Lambda = 1,
         NEW k \in Trained, NEW f,
         \A j \in RowAfter(k) : f[j] = OwedAhead[j]
  PROVE  Estimate(k, f) = OwedAhead[k]
<1> DEFINE v == [j \in Trained |-> rows[j].value]
           o == Owed(rows[k].episode, rows[k].seat)
<1>1. k \in DOMAIN rows
  BY DEF Trained
<1>2. /\ rows[k].value \in Int /\ rows[k].reward \in Int /\ rows[k].day \in Int
      /\ rows[k].day \in Dates
  BY <1>1, RowFacts
<1>3. /\ o \in Int /\ (rows[k].day = Days - 1 => rows[k].reward = o)
      /\ (rows[k].day # Days - 1 => rows[k].reward = 0)
  BY OwedIs, AcceptedRows
<1>4. OwedAhead[k] = o - rows[k].value
  BY DEF OwedAhead
<1>5. Estimate(k, f) = (rows[k].reward + 1 * AtNext(k, v) - rows[k].value) + 1 * 1 * AtNext(k, f)
  BY DEF Estimate, TdError
<1> HIDE DEF v, o
<1>6. CASE RowAfter(k) = {}
  <2>1. AtNext(k, v) = 0 /\ AtNext(k, f) = 0
    BY <1>6 DEF AtNext
  <2>2. rows[k].day = Days - 1
    <3>1. SUFFICES ASSUME rows[k].day # Days - 1 PROVE FALSE
      OBVIOUS
    <3>2. rows[k].day + 1 \in StartDay..(Days - 1)
      <4>1. StartDay <= rows[k].day /\ rows[k].day <= Days - 1
        BY <1>1, <1>2, RowFacts, Calendar DEF Dates
      <4> QED BY <4>1, <3>1, <1>2, Calendar
    <3>3. PICK j \in GaeGroup(k) : rows[j].day = rows[k].day + 1
      BY <3>2, AcceptedRows
    <3> QED BY <3>3, <1>6 DEF RowAfter
  <2> QED BY <2>1, <2>2, <1>2, <1>3, <1>4, <1>5
<1>7. CASE RowAfter(k) # {}
  <2> DEFINE j == CHOOSE i \in RowAfter(k) : TRUE
  <2>1. j \in RowAfter(k)
    BY <1>7
  <2>2. AtNext(k, v) = v[j] /\ AtNext(k, f) = f[j]
    BY <1>7 DEF AtNext
  <2> HIDE DEF j
  <2>3. /\ j \in Trained /\ rows[j].episode = rows[k].episode /\ rows[j].seat = rows[k].seat
        /\ rows[j].day = rows[k].day + 1
    BY <2>1 DEF RowAfter, GaeGroup
  <2>4. rows[j].value \in Int /\ rows[j].day <= Days - 1
    <3>1. j \in DOMAIN rows
      BY <2>3 DEF Trained
    <3>2. rows[j].value \in Int /\ rows[j].day \in Dates
      BY <3>1, RowFacts
    <3> QED BY <3>2, Calendar DEF Dates
  <2>5. v[j] = rows[j].value /\ f[j] = o - rows[j].value
    BY <2>1, <2>3 DEF v, OwedAhead, o
  <2>6. rows[k].reward = 0
    <3>1. rows[k].day # Days - 1
      BY <2>3, <2>4, <1>2, Calendar
    <3> QED BY <3>1, <1>3
  <2> QED BY <2>2, <2>4, <2>5, <2>6, <1>2, <1>3, <1>4, <1>5
<1> QED BY <1>6, <1>7

\* The backward sum of compute_gae, in closed form.
LEMMA AdvantagesAre ==
  ASSUME GamesOK, DecisionsOK, CreditOK, GaeAccepts, Gamma = 1, Lambda = 1
  PROVE  \A k \in Trained : Advantages[k] = OwedAhead[k]
<1> DEFINE F(f) == [k \in Trained |-> Estimate(k, f)]
           a == CHOOSE f : f = F(f)
<1>1. Advantages = a
  BY DEF Advantages, Estimate
<1>2. \A k \in Trained : RowAfter(k) \subseteq Trained
  BY DEF RowAfter, GaeGroup
<1>3. OwedAhead = F(OwedAhead)
  <2>1. \A k \in Trained : Estimate(k, OwedAhead) = OwedAhead[k]
    BY EstimateIs
  <2>2. OwedAhead = [k \in Trained |-> OwedAhead[k]]
    BY DEF OwedAhead
  <2> HIDE DEF F
  <2>3. F(OwedAhead) = [k \in Trained |-> OwedAhead[k]]
    BY <2>1 DEF F
  <2> QED BY <2>2, <2>3
<1>4. a = F(a)
  <2>1. \E f : f = F(f)
    BY <1>3
  <2> HIDE DEF F
  <2> QED BY <2>1
<1> HIDE DEF a
<1>5. \A k \in Trained : a[k] = Estimate(k, a)
  BY <1>4
<1> HIDE DEF F
<1> DEFINE bad == {k \in Trained : a[k] # OwedAhead[k]}
           S == {rows[k].day : k \in bad}
<1>6. SUFFICES ASSUME bad # {} PROVE FALSE
  BY <1>1
<1>7. \A k \in Trained : rows[k].day \in Dates /\ rows[k].day \in Int
  BY RowFacts DEF Trained
<1>8. S \in SUBSET Dates /\ S # {}
  BY <1>6, <1>7
<1>9. Max(S) \in S /\ \A d \in S : d <= Max(S)
  BY <1>8, LastDay
<1>10. PICK k \in bad : rows[k].day = Max(S)
  BY <1>9
<1>11. \A j \in RowAfter(k) : a[j] = OwedAhead[j]
  <2> SUFFICES ASSUME NEW j \in RowAfter(k), j \in bad PROVE FALSE
    BY <1>2
  <2>1. rows[j].day = rows[k].day + 1 /\ rows[j].day \in S
    BY DEF RowAfter
  <2>2. rows[j].day <= rows[k].day /\ rows[k].day \in Int
    BY <2>1, <1>7, <1>9, <1>10
  <2> QED BY <2>1, <2>2
<1>12. Estimate(k, a) = OwedAhead[k]
  BY <1>11, EstimateIs
<1> QED BY <1>5, <1>12

LEMMA CreditHolds == ASSUME GamesOK, DecisionsOK, CreditOK PROVE CreditIsOwn
<1> SUFFICES ASSUME GaeAccepts, Gamma = 1, Lambda = 1, NEW i \in DOMAIN PpoBatch
             PROVE  \E k \in DOMAIN results :
                      /\ results[k].episode = PpoBatch[i].plan.for.episode
                      /\ results[k].rewards[PpoBatch[i].plan.for.seat] = PpoBatch[i].returns
  BY DEF CreditIsOwn
<1> DEFINE places == [k \in DOMAIN rows |-> k]
           r == TrainedRows[i]
           row == rows[r]
<1>1. /\ DOMAIN rows = 1..Len(rows) /\ Len(rows) \in Nat
      /\ DOMAIN results = 1..Len(results)
  BY DEF GamesOK, RowsTypes, CreditOK
<1>2. places \in Seq(Nat) /\ Len(places) = Len(rows) /\ Trained \in SUBSET (1..Len(places))
      /\ \A k \in 1..Len(rows) : places[k] = k
  <2>1. places \in [1..Len(rows) -> Nat]
    BY <1>1
  <2>2. \A k \in 1..Len(rows) : places[k] = k
    BY <1>1
  <2> HIDE DEF places
  <2>3. places \in Seq(Nat) /\ Len(places) = Len(rows)
    BY <2>1, <1>1
  <2> QED BY <2>2, <2>3, <1>1 DEF Trained
<1>3. TrainedRows = Kept(places, Trained)
  BY DEF TrainedRows
<1> HIDE DEF places
<1>4. /\ DOMAIN TrainedRows = 1..Len(TrainedRows)
      /\ \A n \in 1..Len(TrainedRows) : \E k \in Trained : TrainedRows[n] = places[k]
  BY <1>2, <1>3, KeptIs
<1>5. r \in Trained
  <2>1. i \in 1..Len(TrainedRows)
    BY <1>4 DEF PpoBatch
  <2> QED BY <2>1, <1>1, <1>2, <1>4 DEF Trained
<1> HIDE DEF r
<1>6. /\ PpoBatch[i].plan = row.plan
      /\ PpoBatch[i].returns = Advantages[r] + row.value
  BY DEF PpoBatch, r
<1>7. row.plan.for.episode = row.episode /\ row.plan.for.seat = row.seat /\ row.value \in Int
  <2>1. r \in DOMAIN rows
    BY <1>5 DEF Trained
  <2>2. row.plan.for = [episode |-> row.episode, seat |-> row.seat, day |-> row.day]
    BY <2>1, <1>1 DEF DecisionsOK, RowsOwn
  <2> QED BY <2>1, <2>2, RowFacts
<1>8. Advantages[r] = Owed(row.episode, row.seat) - row.value
  BY <1>5, AdvantagesAre DEF OwedAhead
<1>9. PICK k \in 1..Len(results) :
        /\ results[k].episode = row.episode
        /\ results[k].rewards[row.seat] = Owed(row.episode, row.seat)
  BY <1>5, OwedIs
<1>10. Owed(row.episode, row.seat) \in Int
  BY <1>5, OwedIs
<1>11. PpoBatch[i].returns = Owed(row.episode, row.seat)
  BY <1>6, <1>7, <1>8, <1>10
<1> QED BY <1>1, <1>6, <1>7, <1>9, <1>11

\* No row is recorded twice and every seat plays by the plan of its own game, seat and day;
\* what an update accepts are complete games; and without discounts the return of every
\* decision is what its own seat was paid at the end of its own game (QueuedPlanProvider,
\* compute_gae, build_ppo_batch).
THEOREM DecisionsHold == Spec => []DecisionsSound
<1>1. GamesOK /\ DecisionsOK /\ CreditOK => DecisionsSound
  BY OwnPlanHolds, AcceptedHolds, CreditHolds DEF DecisionsSound
<1> QED BY <1>1, GamesAlways, DecisionsAlways, CreditAlways, PTL
=============================================================================
