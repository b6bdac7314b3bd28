----------------------------- MODULE MCTidalPool -----------------------------
(* Two accounts of which the first changes, is edited and may have been    *)
(* given on the command line; two streams side by side, or one call of     *)
(* every other kind.                                                       *)
EXTENDS TidalPool

CONSTANTS r1, r2

MCAccounts == 1..2
MCChanging == {1}
MCRequests == {r1, r2}
MCSizes == {0, 3}

Pair(a, b) == [r \in MCRequests |-> IF r = r1 THEN a ELSE b]
Scenario(a, b, linked, edits, changes, ageing, lists) ==
    [asks |-> Pair(a, b), linked |-> linked, edits |-> edits, changes |-> changes,
     ageing |-> ageing, lists |-> lists]

MCScenarios ==
    {Scenario("lossless", "nothing", {1, 2}, 1, 1, TRUE, 0),
     Scenario("lossless", "nothing", {1}, 0, 1, TRUE, 0),
     Scenario("lossless", "lossless", {1}, 0, 0, TRUE, 0),
     Scenario("nothing", "nothing", {1}, 2, 1, TRUE, 0),
     Scenario("lossless", "high", {1, 2}, 0, 0, FALSE, 0),
     Scenario("info", "search", {}, 0, 0, FALSE, 2)}
        \cup {Scenario(a, "nothing", {1, 2}, 0, 0, FALSE, 0) : a \in {"high", "info", "search", "playlist"}}

MCRefused == {Scenario("lossless", "nothing", {1, 2}, 0, 0, TRUE, 0)}
=============================================================================
