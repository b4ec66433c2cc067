---------------------------- MODULE MCCorePolicy ----------------------------
(* Instances of CorePolicy for TLC. *)
EXTENDS CorePolicy

\* The steps that may find no rows, whatever the policies look at.  The first
\* creation of a collection and the deletions are not among them: a miss there
\* goes unnoticed (deletions miss what is not there, in the module itself).
MCMayMiss == {"createUser", "createTrash", "addToGroup", "deleteUser",
              "renameCollection", "renameZone"}
=============================================================================
