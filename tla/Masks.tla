------------------------------- MODULE Masks --------------------------------
(***************************************************************************)
(* What the engine tells a policy its units may do (lib.rs,                *)
(* write_action_masks): operations and targets per unit slot.  The masks   *)
(* are written once a turn, after reset or step, and hold for all units of *)
(* the next turn, while every unit that acts changes what the masks were   *)
(* made from.  Every quantity is offered.  The masks of the market slots   *)
(* are in MarketMasks.tla.                                                 *)
(***************************************************************************)
EXTENDS Farm

VARIABLES
    operation_mask,   \* operation_mask[u]: the operations offered to unit slot u
    target_mask       \* target_mask[u]: the targets offered to unit slot u

masks == <<operation_mask, target_mask>>

Operations == Moves \cup {"PASS", "PICKUP", "PLACE", "DROP", "PLANT", "WATER", "HARVEST",
                          "FERTILIZE", "BUILD", "FEED", "COLLECT_FERTILIZER", "CARE", "DIG"}

\* Moves off the board are not offered; a slot nobody was hired for may only pass.
OperationMask(u) ==
    IF u > hand_count THEN {"PASS"}
    ELSE Operations \ ((IF position[u][2] <= 0 THEN {"NORTH"} ELSE {})
                  \cup (IF position[u][2] >= 2 * Half - 1 THEN {"SOUTH"} ELSE {})
                  \cup (IF position[u][1] >= 2 * Half - 1 THEN {"EAST"} ELSE {})
                  \cup (IF position[u][1] <= 0 THEN {"WEST"} ELSE {}))

\* Seeded bug: only what is in the shed is offered as a target, not what is carried.
TargetMaskOfShed(u) == {i \in Items : shed[i] > 0} \cup {c \in Crops : seeds[c] > 0}

\* One list of targets for all operations; seeds share the places of their crops.
TargetMask(u) ==
    IF u > hand_count THEN {}
    ELSE {i \in Items : shed[i] > 0 \/ inventory[u][i] > 0} \cup {c \in Crops : seeds[c] > 0}

OperationMasks == [u \in Units |-> OperationMask(u)]
TargetMasks == [u \in Units |-> TargetMask(u)]

MaskedInit == Init /\ operation_mask = OperationMasks /\ target_mask = TargetMasks

\* The masks are those of the state in which the agents are asked, until they are asked again.
MaskedNext ==
    /\ Next
    /\ operation_mask' = IF phase' = "agent" THEN OperationMasks' ELSE operation_mask
    /\ target_mask' = IF phase' = "agent" THEN TargetMasks' ELSE target_mask

\* The engine writes the masks in the call that plays the turn.
MaskedSpec == MaskedInit /\ [][MaskedNext]_<<vars, masks>> /\ WF_vars(Next)

-----------------------------------------------------------------------------
\* Whether the masks of the turn offer an order; a building is part of its operation.
Offered(u, o) ==
    /\ o.op \in operation_mask[u]
    /\ o.op \in {"PLANT", "PLACE", "PICKUP"} => o.target \in target_mask[u]

\* Unit u was told of item i and was to put it into the shed this turn.
Brings(u, i) ==
    /\ i \in target_mask[u]
    /\ orders[u].op = "DROP" \/ (orders[u].op = "PLACE" /\ orders[u].target = i)

\* What the masks of a turn do not offer changes nothing when it is ordered all the same,
\* though the units before have acted since the masks were written; except that a unit can
\* pick up what one before it has brought to the shed in this very turn, which its mask
\* could not know (write_action_masks against apply_unit_action).
MaskedIsIdle ==
    [][Serving /\ ~Offered(next, order) =>
          \/ UNCHANGED <<field, seeds, position, stores>>
          \/ order.op = "PICKUP" /\ \E u \in 0..(next - 1) : Brings(u, order.target)]_vars

\* Goods are neither made nor lost in handling, and what the masks rule out is idle, but for
\* goods that came in the turn.
HandlingSound == StorageConserves /\ MaskedIsIdle
=============================================================================
