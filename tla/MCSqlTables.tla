---------------------------- MODULE MCSqlTables ----------------------------
(* Instances of SqlTables for TLC. *)
EXTENDS SqlTables
CONSTANTS q1, q2
============================================================================
