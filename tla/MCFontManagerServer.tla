------------------------ MODULE MCFontManagerServer -------------------------
(***************************************************************************)
(* Instances of FontManagerServer for TLC: the application "a" of user u1  *)
(* runs once or twice, the application "b" of user u2 once.                *)
(***************************************************************************)
EXTENDS FontManagerServer

MCTokenOf == [b \in Binder |-> IF b = "b1" THEN "b" ELSE "a"]
MCUserOf == [token \in Token |-> IF token = "b" THEN "u2" ELSE "u1"]

(* Starts that clean up one user alone are possible too. *)
AllStarts == {User} \cup {{u} : u \in User}
FullStarts == {User}
=============================================================================
