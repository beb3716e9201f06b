---------------------------- MODULE MCLocalDrive ----------------------------
(* Small instances of LocalDrive for TLC. *)
EXTENDS LocalDrive

\* Two tables: one created and one altered, or one altered and one dropped.
MCPlans == {<<"create", "alter">>, <<"alter", "drop">>}
============================================================================
