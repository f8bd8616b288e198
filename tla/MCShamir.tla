-------------------------------- MODULE MCShamir --------------------------------
(* Bytes at both ends of the tables and in between, neighbouring shares and  *)
(* the last.                                                                 *)
EXTENDS Shamir

MCCoefs == {zero, one, uint8(83), uint8(255)}
MCPicks == {1, 2, 3, 255}
================================================================================
