------------------------------ MODULE MCInputs ------------------------------
(***************************************************************************)
(* Inputs.tla on a game of three days of two turns, whose rows lie in      *)
(* files with those of two other games: one of the other seat, whose days  *)
(* are consecutive, one of another episode that misses a day, and two rows *)
(* of games nobody knows, alike in seat, day and date.                     *)
(***************************************************************************)
EXTENDS Inputs, TLC
CONSTANTS wheat, goose, diner, kiosk

ResourcesC == {wheat, goose}
ShopsC == {diner}
CropsC == {wheat}
ProductsC == {wheat}

Event(h, q) == [product |-> wheat, hour |-> h, quantity |-> q]
Extra(date, score) ==
    [date |-> date, score |-> score, version |-> 3, shed |-> <<<<wheat, 2>>, <<goose, 1>>>>,
     inventories |-> <<<<<<wheat, 1>>>>, <<>>, <<<<goose, 1>>, <<wheat, 2>>>>, <<>>>>,
     shops |-> <<<<diner, 1>>, <<kiosk, 2>>>>,
     sells |-> <<Event(0, 3), Event(2, 2), Event(13, 9)>>, care |-> {},
     planted |-> <<<<wheat, 2>>>>, fertilized |-> <<<<wheat, 1>>, <<None, 1>>>>]
Plain(date) ==
    [Extra(date, 5) EXCEPT !.shed = <<>>, !.inventories = <<<<>>>>, !.shops = <<>>, !.sells = <<>>,
                            !.planted = <<>>, !.fertilized = <<>>]

Other(episode, seat, d, m, extra) ==
    [episode |-> episode, seat |-> seat, day |-> d, money |-> m, land |-> 1, labor |-> 0] @@ extra

OthersC == <<Other(1, 1, 0, 5, Plain("v")), Other(1, 1, 1, 2, Plain("v")),
             Other(2, 0, 0, 7, Plain("t")), Other(2, 0, 2, 4, Plain("t")),
             Other(3, 0, 0, 6, [Plain("v") EXCEPT !.score = 1]),
             Other(None, 0, 0, 3, Plain("n")), Other(None, 0, 0, 9, Extra("n", 5))>>

(* The rows are 1..3 of the live game and 4..10 of the others: in one      *)
(* file, spread over two and out of order, or with a row twice.            *)
OneFile == <<<<1, 2, 3, 4, 5, 6, 7, 8, 9, 10>>>>
Shuffled == <<<<3, 8, 5, 10, 1, 6>>, <<7, 4, 9, 2>>>>
Twice(i) == <<<<1, 4, 2, 5, 3, 8, 9>>, <<6, i, 10, 7>>>>

Apart == [train |-> {"t"}, val |-> {"v"}]
NoneHeldOut == [train |-> {"v"}, val |-> {"x"}]
Nameless == [train |-> {"t"}, val |-> {"n"}]
Overlapping == [train |-> {"t", "v"}, val |-> {"v"}]

Load(extra, layout, pair, context) ==
    [extra |-> extra, layout |-> layout, dates |-> pair, context |-> context]
Whole1 == Extra("v", 5)
LoadsC ==
    {Load(Whole1, OneFile, Overlapping, TRUE), Load(Whole1, Shuffled, NoneHeldOut, TRUE),
     Load([Whole1 EXCEPT !.version = 2], Shuffled, Apart, FALSE),
     Load([Whole1 EXCEPT !.care = None], OneFile, Apart, FALSE),
     Load([Whole1 EXCEPT !.fertilized = <<<<kiosk, 1>>>>], OneFile, Apart, TRUE),
     Load([Whole1 EXCEPT !.shed = <<<<kiosk, 1>>>>], OneFile, Apart, FALSE)}
    \union {Load(Whole1, layout, Apart, TRUE) : layout \in {Shuffled, Twice(1), Twice(8)}}
    \union {Load(Whole1, layout, Apart, FALSE) : layout \in {Shuffled, Twice(1)}}
    \union {Load(Whole1, Shuffled, Nameless, context) : context \in BOOLEAN}

Logits(n) == [1..n -> -1..1]
HeadsC == [count : Logits(3), land : Logits(2), presence : -1..1,
           halves : {-3, 0, 1, 2, 3, 5, 14, 15, 16, 40}]
=============================================================================
