---------------------------- MODULE MCMysqlStore ----------------------------
(***************************************************************************)
(* Instances of MysqlStore: server processes and Room codes are alike.     *)
(***************************************************************************)
EXTENDS MysqlStore, TLC

Alike == Permutations(Stores) \cup Permutations(Codes)
=============================================================================
