--------------------------- MODULE MCLiveMigration ---------------------------
(* An instance of LiveMigration for TLC.                                    *)
EXTENDS LiveMigration

CONSTANTS h1, h2
==============================================================================
