--------------------------- MODULE MCRuleExecution ---------------------------
(* Instances of RuleExecution for TLC; the codes are those of iRODS. *)
EXTENDS RuleExecution

MCCodes == {-310000, -818000}
MCNoRowsFound == -808000
MCRuleEngineError == -1828000
MCNoPrivilege == -13000
=============================================================================
