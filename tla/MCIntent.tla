------------------------------ MODULE MCIntent ------------------------------
(* The legs of MCEntity and the databases of MCAttackers.                  *)
EXTENDS MCEntity, MCAttackers, IntentScripts
=============================================================================
