------------------------------- MODULE Schema -------------------------------
(***************************************************************************)
(* What the migrations promise of the database, whoever applies them: it   *)
(* has one version, which moves up one migration at a time and never back. *)
(***************************************************************************)
EXTENDS Naturals

CONSTANT Latest   \* the newest migration any build ships

VARIABLE version

Init == version = 0

Migrated == version < Latest /\ version' = version + 1

Spec == Init /\ [][Migrated]_version
=============================================================================
