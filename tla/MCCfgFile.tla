------------------------------- MODULE MCCfgFile -------------------------------
(***************************************************************************)
(* A small instance of CfgFile: two processes, two modules, the first with *)
(* two keys, and values of one, two and eight blocks; one holds the flags  *)
(* that end an item and a module, one the second of them, one the begin of *)
(* the other item of its module and one the begin of the other module.     *)
(***************************************************************************)
EXTENDS CfgFile

CONSTANTS p1, p2

MCProcs == {p1, p2}
Long == [i \in 1..8 |-> Data("c")]
MCSettings == {
    <<"m", "k", <<Data("a")>>>>,
    <<"m", "k", Long>>,
    <<"m", "k", <<ITEM_END, MODULE_END>>>>,
    <<"m", "l", <<Data("a")>>>>,
    <<"m", "l", <<MODULE_END>>>>,
    <<"m", "l", <<ITEM_BEGIN("k", 1), Data("a")>>>>,
    <<"m", "l", <<MODULE_BEGIN("n")>>>>,
    <<"n", "k", <<Data("a")>>>>,
    <<"n", "k", <<Data("b"), Data("b")>>>>}
MCSymmetry == Permutations(MCProcs)
MCCuts == {3, 100}
=============================================================================
