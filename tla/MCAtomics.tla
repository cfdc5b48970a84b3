----------------------------- MODULE MCAtomics ------------------------------
(* Atomics and Lock for TLC: two-bit words and registers one bit wider.    *)
EXTENDS Lock

CallOf(n, x, y) == [name |-> n, a |-> x, b |-> y]

(* The smallest and the largest word are among the arguments, so increments*)
(* overflow, and negative words meet their zero-extensions.                *)
MCOps ==
  { CallOf("_tas", 0, 0), CallOf("store", 0, 0), CallOf("agetl", 0, 0),
    CallOf("ainc", 0, 0), CallOf("adec", 0, 0), CallOf("aincl", 1, 0),
    CallOf("cas", -2, 1), CallOf("acasl", -2, 1), CallOf("aswapl", -2, 0) }

=============================================================================
