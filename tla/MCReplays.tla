----------------------------- MODULE MCReplays -----------------------------
(***************************************************************************)
(* A game of five observations, three turns to a day: a whole day and two  *)
(* turns of a second.  The farmer stands on the second tile of a row of   *)
(* two; orders may fail, wholly or in part; a run reads up to two files.   *)
(***************************************************************************)
EXTENDS ExpertPlan

PositionsC == {<<1, 0>>}
Does(op, orders) == [farmer |-> op, market |-> orders]
ActionsC == {Does("DIG", <<"HIRE", "BUY_LAND">>), Does("PLANT", <<"SELL", "HIRE">>),
             Does("HARVEST", <<"BUY_LAND", "BUY_LAND">>), Does("FERTILIZE", <<>>)}
Run(files, f, m, old) == [inputs |-> files, format |-> f, mismatch |-> m, overwrites |-> old]
InvocationsC == {Run(<<"game">>, "parquet", "fail", FALSE),
                 Run(<<"game", "other">>, "parquet", "skip", TRUE),
                 Run(<<"other">>, "parquet", "skip", TRUE),
                 Run(<<"game", "other">>, "jsonl", "fail", FALSE),
                 Run(<<"game", "broken">>, "parquet", "fail", FALSE)}
=============================================================================
