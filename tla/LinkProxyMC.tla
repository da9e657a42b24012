---------------------------- MODULE LinkProxyMC ----------------------------
(* Small instances of LinkProxy for TLC. *)
EXTENDS LinkProxy, TLC

CONSTANTS r1, r2, r3

\* The proxy does not know its requests apart.
RequestSymmetry == Permutations(Callers)
=============================================================================
