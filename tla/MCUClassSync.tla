---------------------------- MODULE MCUClassSync ----------------------------
(* Bounded instance of UClassSync: two materials.                            *)
EXTENDS UClassSync

CONSTANTS m1, m2
MCOrder == <<m1, m2>>
===============================================================================
