----------------------------- MODULE MCOpening ------------------------------
(***************************************************************************)
(* A script of two days of three turns: cut out of recorded games of which *)
(* one stays in an hour for two steps, another skips one and a third is    *)
(* from another engine; and two documents that only a caller of            *)
(* OpeningAgent itself can pass, one with an action that is not well       *)
(* formed and one with a turn at another date.                             *)
(***************************************************************************)
EXTENDS Rehearsal

\* The recorded seat has its hand from the second day on.
CrewAt(n) == IF n < 3 THEN 0 ELSE 1
StepAt(n, before) == [date |-> Turn(n), crew |-> CrewAt(n), hands |-> CrewAt(before),
                      wellFormed |-> TRUE]

Game == [i \in 1..(ScriptLength + 2) |-> StepAt(i - 1, IF i > 1 THEN i - 2 ELSE 0)]
Stalled == [i \in 1..(ScriptLength + 2) |->
               IF i <= 3 THEN Game[i] ELSE StepAt(i - 2, IF i = 4 THEN 2 ELSE i - 3)]
Skipping == SubSeq(Game, 1, 2) \o SubSeq(Game, 4, Len(Game))

RecordingsC ==
    {[steps |-> s, official |-> TRUE] : s \in {Game, Stalled, Skipping}}
      \cup {[steps |-> Game, official |-> FALSE]}

\* What the proof about the recital asks of the recordings is so here.
ASSUME RecordedInFull == OrdersEveryHand

Scripts == {Extracted(r) : r \in {r \in RecordingsC : Extractable(r)}}
ValidatedDocument ==
    [i \in ScriptIndices |->
        [date |-> Turn(i), hands |-> i \div 3, wellFormed |-> TRUE]]

MCDocuments ==
    Scripts \cup
    {ValidatedDocument,
     [ValidatedDocument EXCEPT ![1].wellFormed = FALSE],
     [ValidatedDocument EXCEPT ![2].date = Turn(3)]}

MoneyRangeC == <<0, 2>>
WheatRangeC == <<0, 1>>
SummariesC ==
    {[milestones |-> TRUE, money |-> m, wheat |-> w] : m \in {None, 1, 3}, w \in {None, 1, 2}}
=============================================================================
