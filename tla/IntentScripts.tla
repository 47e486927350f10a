--------------------------- MODULE IntentScripts ---------------------------
(* The scripts of src/sandwich-intent from two sides: as jobs over files,  *)
(* to which phase 1 is one step, and as what phase 1 does within that step *)
(* to tell whom the sandwiches belong to.  A behaviour shows either.       *)
EXTENDS EntityMerge, AttackerFiles

VARIABLE aspect

scriptVars == <<aspect, entityVars, fileVars>>

(* What the other side would start from is of no account.                  *)
ScriptsInit ==
  /\ aspect \in {"entities", "files"}
  /\ EntityInit /\ FilesInit
  /\ aspect = "files" => /\ legs = CHOOSE i \in Inputs : TRUE
                         /\ mode = CHOOSE m \in Modes : TRUE
                         /\ mapped = CHOOSE keys \in OldMaps : TRUE
  /\ aspect = "entities" => world = CHOOSE w \in Worlds : TRUE

EntitiesNext == aspect = "entities" /\ EntityNext /\ UNCHANGED <<aspect, fileVars>>

JobsNext == aspect = "files" /\ FilesNext /\ UNCHANGED <<aspect, entityVars>>

ScriptsNext == EntitiesNext \/ JobsNext

ScriptsSpec == ScriptsInit /\ [][ScriptsNext]_scriptVars
=============================================================================
