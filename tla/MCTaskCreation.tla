--------------------------- MODULE MCTaskCreation ---------------------------
(* TaskCreation for TLC. *)
EXTENDS TaskCreation

NoNames == {}

OneName == {1}

=============================================================================
