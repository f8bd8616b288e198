------------------------------- MODULE MCReadFile -------------------------------
(* Files that end at, before and after every size the buffer takes, at the   *)
(* limits of both readers, and at the longest share.                         *)
EXTENDS ReadFile

Steps == {65536, 131072, 1048576, PQSHARD_MAX_SECRET \div 2, PQSHARD_MAX_SECRET,
          PQSHARD_MAX_SECRET + 4096, LongestShare, 2 * PQSHARD_MAX_SECRET}

MCSizes == {0} \cup UNION {(s - 1)..(s + 1) : s \in Steps}
================================================================================
