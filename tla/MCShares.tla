-------------------------------- MODULE MCShares --------------------------------
EXTENDS Shares

Case(a, m, f, b) == [algo |-> a, n |-> m, t |-> f, batch |-> b]

(* Domains that are full with four nodes and not with five or seven; in    *)
(* Bingo four nodes and a secret have a domain of eight.                   *)
SmallCases ==
    {Case("AvssSimpl", 4, 1, 1), Case("AvssSimpl", 5, 1, 1),
     Case("Badger", 4, 1, 1), Case("LightWeight", 5, 1, 1),
     Case("HbAvss", 7, 2, 1), Case("Bingo", 4, 1, 1),
     Case("Haven", 4, 1, 2), Case("Haven", 5, 1, 1), Case("Haven", 5, 1, 5)}

OneTest == {Case("LightWeight", 5, 1, 1)}
=============================================================================
