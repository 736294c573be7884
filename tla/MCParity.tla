------------------------------ MODULE MCParity ------------------------------
(***************************************************************************)
(* Games of four steps over two days, with a budget of five; every fact of *)
(* an engine differing once, at the reset or at any step, and every        *)
(* combination of agents; two rollouts of up to two turns, one of which    *)
(* may lack a day the other has.                                           *)
(***************************************************************************)
EXTENDS Parity

Bits == {0, 1}
Days == {<<0, 4>>, <<1, 4>>}
Logs == UNION {[days -> Bits] : days \in {{}, {<<0, 4>>}, Days}}
Rollouts ==
    [opening : [{<<0, 0>>, <<1, 0>>} -> Bits], inputs : Logs, plans : Logs,
     joint_actions : {<<>>} \cup {<<t>> : t \in Bits \X Bits}
                       \cup {<<<<0, 0>>, t>> : t \in Bits \X Bits},
     final : Bits]
Reference == [opening |-> [k \in {<<0, 0>>, <<1, 0>>} |-> 0], inputs |-> [k \in Days |-> 0],
              plans |-> [k \in Days |-> 0], joint_actions |-> <<<<0, 0>>, <<0, 0>>>>, final |-> 0]
RecordingsC == {[a |-> Reference, b |-> b] : b \in Rollouts}
=============================================================================
