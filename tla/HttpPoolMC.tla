----------------------------- MODULE HttpPoolMC -----------------------------
(* Small instances of HttpPool for TLC. *)
EXTENDS HttpPool, TLC

CONSTANTS f1, f2, s1, s2, q1

At(s, p) == [addr |-> s, path |-> p]

\* Two flows share a server, have one each, or ask for the same path of one.  Every
\* other configuration of two flows is one of these with its names changed.
TwoFlows ==
    {f1 :> At(s1, "a") @@ f2 :> At(s1, "b"),
     f1 :> At(s1, "a") @@ f2 :> At(s2, "a"),
     f1 :> At(s1, "a") @@ f2 :> At(s1, "a")}

OneFlow == {f1 :> At(s1, "a")}
=============================================================================
