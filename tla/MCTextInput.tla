----------------------------- MODULE MCTextInput -----------------------------
(* An instance of TextInput for TLC.                                       *)
EXTENDS TextInput, TLC

MCInputs ==
    \* lines: space, colon, a letter
    {32, 58, 120} :> 8 @@
    \* numbers: signs, digits around INT_MAX, a letter
    {43, 45, 48, 49, 50, 55, 56, 120} :> 5 @@
    \* names: space, hash, comma, dash, digit, colon, letter, tilde
    {32, 35, 44, 45, 49, 58, 66, 126} :> 5 @@
    \* lists of members: comma, at, a letter
    {44, 64, 120} :> 10 @@
    \* every byte
    1 .. 255 :> 1
=============================================================================
