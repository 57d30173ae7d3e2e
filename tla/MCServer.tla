------------------------------ MODULE MCServer ------------------------------
(* Instances of Server, its claims and its refinements for TLC.            *)
EXTENDS Claims, Refinement, TLC

CONSTANTS a, A, b, d, x, X, lower_a, lower_b, lower_d, key_x

\* a and A are one nickname in two spellings, x and X one channel name.
MCLower ==
    (a :> lower_a) @@ (A :> lower_a) @@ (b :> lower_b) @@ (d :> lower_d) @@
    (x :> key_x) @@ (X :> key_x)
=============================================================================
