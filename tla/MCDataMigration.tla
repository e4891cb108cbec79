--------------------------- MODULE MCDataMigration ---------------------------
(***************************************************************************)
(* An instance of DataMigration for TLC: two users.                        *)
(***************************************************************************)
EXTENDS DataMigration

MCUserIds == <<"u1", "u2">>
=============================================================================
