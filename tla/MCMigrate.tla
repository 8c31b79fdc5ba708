----------------------------- MODULE MCMigrate -----------------------------
(* The instance of the zone history migrator for TLC.                      *)
EXTENDS ZoneMigrate

AllRings == SUBSET Epoch
=============================================================================
