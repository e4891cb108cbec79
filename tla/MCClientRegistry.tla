-------------------------- MODULE MCClientRegistry --------------------------
(***************************************************************************)
(* An instance of ClientRegistry for TLC: two applications of one user,    *)
(* more than its limit, and one whose user could not be found.  The first  *)
(* application runs twice.                                                 *)
(***************************************************************************)
EXTENDS ClientRegistry

MCTokenOf == [b \in Binder |->
    CASE b \in {"a1", "a2"} -> "a" [] b = "b1" -> "b" [] b = "x1" -> "x"]

MCUserOf == [token \in Token |-> IF token = "x" THEN "invalid" ELSE "u1"]
=============================================================================
