--------------------------- MODULE MCOutputQueue ---------------------------
(* An instance of OutputQueue for TLC.                                     *)
EXTENDS OutputQueue

\* An empty line, a full one and one that is cut.
MCSizes == {0, MaxPayload, MaxPayload + 1}
=============================================================================
