------------------------------ MODULE Playback ------------------------------
(***************************************************************************)
(* What the opening book promises to whoever runs a game: a player that    *)
(* recites a script turn after turn from its beginning and at some point,  *)
(* at the latest when the script is over, gives its seat to another player *)
(* for good.                                                               *)
(***************************************************************************)
EXTENDS Naturals, Sequences

CONSTANT Length   \* how many turns the script has

VARIABLES
    recited,      \* the numbers of the turns recited, in their order
    seated        \* who answers: "script" or "successor"

vars == <<recited, seated>>

Init == recited = <<>> /\ seated = "script"

Recite ==
    /\ seated = "script"
    /\ Len(recited) < Length
    /\ recited' = Append(recited, Len(recited))
    /\ UNCHANGED seated

GiveUpSeat ==
    /\ seated = "script"
    /\ seated' = "successor"
    /\ UNCHANGED recited

Next == Recite \/ GiveUpSeat

Spec == Init /\ [][Next]_vars
=============================================================================
