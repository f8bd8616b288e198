------------------------------ MODULE MCSplitCall ------------------------------
(* Requests at the edges of every check: thresholds, share counts up to one  *)
(* past the last index, secret lengths, and each key strength.               *)
EXTENDS SplitCall

CONSTANTS set1, set2, key, pass

Ask(k, n, len, phrase, level) ==
  [secret |-> key, len |-> len, text |-> FALSE, n |-> n, k |-> k,
   phrase |-> phrase, level |-> level]

MCRequests ==
  {Ask(k, n, 32, NoPhrase, "KDF_MEDIUM") :
     k \in 1..3, n \in {1, 2, 3, PQSHARD_MAX_N + 1}}
  \cup {Ask(2, 2, 32, pass, level) : level \in KdfLevel}
  \cup {Ask(2, 2, len, phrase, "KDF_BASIC") :
          len \in {0, 1, PQSHARD_MAX_SECRET, PQSHARD_MAX_SECRET + 1},
          phrase \in {NoPhrase, pass}}
  \cup {Ask(3, 4, 32, pass, "KDF_STRONG"), Ask(2, PQSHARD_MAX_N, 1, NoPhrase, "KDF_BASIC")}

================================================================================
