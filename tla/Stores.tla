------------------------------- MODULE Stores -------------------------------
(***************************************************************************)
(* Where a farm's goods are: in the shed, which has a fixed number of      *)
(* places shared by all items, or carried by the farmer (unit 0) and the   *)
(* hands (units 1..MaxHands).  Every carried item bears the sequence       *)
(* number of the moment it entered the unit's inventory, as a Python dict  *)
(* keeps its keys in insertion order; goods are dropped in that order.     *)
(* (GameState::move_to_shed, move_from_shed, mark_item_added,              *)
(* clear_item_if_empty, shed_room, drop_entity_inventory_to_shed.)         *)
(*                                                                         *)
(* Products and live animals are two arrays in the engine and one set of   *)
(* items here.                                                             *)
(***************************************************************************)
EXTENDS Integers, FiniteSets

CONSTANTS Items,         \* PRODUCTS and ANIMALS, the twelve SHED_ITEMS
          ShedCapacity,  \* shed_capacity
          MaxHands       \* MAX_HANDS

ASSUME StoresAssumption ==
    /\ IsFiniteSet(Items)
    /\ ShedCapacity \in Nat
    /\ MaxHands \in Nat

Units == 0..MaxHands
Farmer == 0

VARIABLES shed,            \* shed[i]: how many of item i are in the shed
          shed_used,       \* the engine's running total of the shed
          inventory,       \* inventory[u][i]: how many of item i unit u carries
          item_order,      \* item_order[u][i]: insertion stamp, 0 when not carried
          item_order_seq   \* the last stamp given

stores == <<shed, shed_used, inventory, item_order, item_order_seq>>

StoresTypeOK ==
    /\ shed \in [Items -> 0..ShedCapacity]
    /\ shed_used \in 0..ShedCapacity
    /\ inventory \in [Units -> [Items -> Nat]]
    /\ item_order \in [Units -> [Items -> Nat]]
    /\ item_order_seq \in Nat

StoresInit ==
    /\ shed = [i \in Items |-> 0]
    /\ shed_used = 0
    /\ inventory = [u \in Units |-> [i \in Items |-> 0]]
    /\ item_order = [u \in Units |-> [i \in Items |-> 0]]
    /\ item_order_seq = 0

-----------------------------------------------------------------------------
ShedRoomButOne ==                              \* seeded bug
    IF shed_used < ShedCapacity THEN ShedCapacity - shed_used - 1 ELSE 0
ShedRoom == IF shed_used <= ShedCapacity THEN ShedCapacity - shed_used ELSE 0

Lesser(m, n) == IF m <= n THEN m ELSE n

\* Seeded bug: the running total counts what did not fit.
MoveToShedOvercounted(i, n) ==
    /\ shed' = [shed EXCEPT ![i] = @ + Lesser(n, ShedRoom)]
    /\ shed_used' = shed_used + n

MoveToShed(i, n) ==
    LET moved == Lesser(n, ShedRoom)
    IN  /\ shed' = [shed EXCEPT ![i] = @ + moved]
        /\ shed_used' = shed_used + moved

\* Seeded bug: more is taken than is there.
MoveFromShedBlindly(i, n) ==
    /\ shed' = [shed EXCEPT ![i] = @ - n]
    /\ shed_used' = shed_used - n

MoveFromShed(i, n) ==
    LET moved == Lesser(n, shed[i])
    IN  /\ shed' = [shed EXCEPT ![i] = @ - moved]
        /\ shed_used' = shed_used - moved

\* Seeded bug: topping up renews the stamp.
ReceiveRestamped(u, i, n) ==
    /\ inventory' = [inventory EXCEPT ![u][i] = @ + n]
    /\ item_order_seq' = item_order_seq + 1
    /\ item_order' = IF n > 0 THEN [item_order EXCEPT ![u][i] = item_order_seq + 1]
                              ELSE item_order

\* n more of item i in the hands of unit u; the first of its kind is stamped.
Receive(u, i, n) ==
    LET isNew == n > 0 /\ inventory[u][i] = 0
    IN  /\ inventory' = [inventory EXCEPT ![u][i] = @ + n]
        /\ item_order_seq' = IF isNew THEN item_order_seq + 1 ELSE item_order_seq
        /\ item_order' = IF isNew THEN [item_order EXCEPT ![u][i] = item_order_seq + 1]
                                  ELSE item_order

\* Seeded bug: the stamp of an item that is used up stays.
SpendStampKept(u, i, n) ==
    /\ inventory' = [inventory EXCEPT ![u][i] = @ - n]
    /\ UNCHANGED <<item_order, item_order_seq>>

\* n of item i leave the hands of unit u; the last of its kind takes the stamp with it.
Spend(u, i, n) ==
    /\ inventory' = [inventory EXCEPT ![u][i] = @ - n]
    /\ item_order' = IF inventory[u][i] <= n THEN [item_order EXCEPT ![u][i] = 0]
                                             ELSE item_order
    /\ UNCHANGED item_order_seq

Carried(u) == {i \in Items : inventory[u][i] > 0}

EmptyHanded(u) == Carried(u) = {}

\* The item dropped next: the one carried longest.
FirstCarried(u, i) ==
    /\ i \in Carried(u)
    /\ \A j \in Carried(u) : item_order[u][i] <= item_order[u][j]

\* One round of the loop that empties a unit into the shed: what does not fit is lost.
StoreItem(u, i) ==
    /\ FirstCarried(u, i)
    /\ MoveToShed(i, inventory[u][i])
    /\ inventory' = [inventory EXCEPT ![u][i] = 0]
    /\ item_order' = [item_order EXCEPT ![u][i] = 0]
    /\ UNCHANGED item_order_seq

-----------------------------------------------------------------------------
\* The places of the shed that a stock takes up, one per piece.
Places(stock) == {p \in Items \X (1..ShedCapacity) : p[2] <= stock[p[1]]}

\* The running total is the number of pieces on the shelves, and they fit: what
\* debug_assert_invariants demands of shed and shed_used.
ShedAccounted ==
    /\ shed_used = Cardinality(Places(shed))
    /\ shed_used <= ShedCapacity

\* A stamp exactly on what is carried, no two of a unit alike, none from the future:
\* without it DROP would give the shed's last places to the wrong item.
StampsInOrder ==
    \A u \in Units, i \in Items :
        /\ item_order[u][i] # 0 <=> inventory[u][i] > 0
        /\ item_order[u][i] <= item_order_seq
        /\ \A j \in Items :
              item_order[u][i] = item_order[u][j] => i = j \/ item_order[u][i] = 0

\* An item keeps its stamp for as long as it is carried, and a newcomer's stamp is later
\* than every stamp its bearer has: the stamps of a unit tell the order of arrival, which
\* is the order in which DROP and the day's end fill the shed.
ArrivalOrderKept ==
    [][\A u \in Units, i \in Items :
          inventory'[u][i] > 0 =>
              IF inventory[u][i] > 0 THEN item_order'[u][i] = item_order[u][i]
              ELSE \A j \in Items : item_order'[u][i] > item_order[u][j]]_stores
=============================================================================
