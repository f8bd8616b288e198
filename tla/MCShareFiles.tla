------------------------------ MODULE MCShareFiles ------------------------------
(* Shares of one block (plain, short) over shares of three (sealed), and the *)
(* other way round; n covers both thresholds.                                *)
EXTENDS ShareFiles
CONSTANTS w1, w2

MCThreshold == [s \in Set |-> IF s = Old THEN 3 ELSE 2]
MCSize      == [s \in Set |-> IF s = w1 THEN 3 ELSE 1]
================================================================================
