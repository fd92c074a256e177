------------------------------- MODULE MCUpdater -------------------------------
(***************************************************************************)
(* Three versions for Updater: the second needs another AGNOS, the third   *)
(* is content with the first one's.                                        *)
(***************************************************************************)
EXTENDS Updater

TwoSystems == [v \in Versions |-> IF v = 2 THEN 2 ELSE 1]
===============================================================================
