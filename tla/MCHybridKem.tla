------------------------------ MODULE MCHybridKem ------------------------------
(* One Kyber key pair, two encapsulations, a ciphertext byte of each half    *)
(* changed.  With key randomness 8, 8, ... one matrix entry (row 2, column  *)
(* 1) finds only 255 coefficients in its first three blocks.                *)
EXTENDS HybridKem

Repeated(v) == << >> \o [i \in 1..32 |-> v]

MCKeyRandom == {Repeated(8)}
MCZRandom   == {Repeated(200)}
MCEncRandom == {Repeated(9), Repeated(0)}
MCFlips     == {1, 1500}
================================================================================
