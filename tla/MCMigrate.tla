----------------------------- MODULE MCMigrate -----------------------------
(* Three processes of three builds, the middle migration repeatable, as    *)
(* 002_group_uniqueness_per_user is in SQLite.                             *)
EXTENDS Migrate
=============================================================================
