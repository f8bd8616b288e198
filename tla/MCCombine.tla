------------------------------- MODULE MCCombine -------------------------------
(* Two folders of files.  Genuine: the shares of a plain 2-of-3, a sealed   *)
(* 3-of-3 and a sealed 2-of-3 split, and damaged copies of some.  Repacked: *)
(* well-formed shares no split wrote, the header of one share over the      *)
(* y-material of another or a header with other values, checksum and all.   *)
EXTENDS CombineGenuine

CONSTANTS set1, set2, set3, set4, set5, set6, key, note, right, wrong

split(id, secret, k, len, n, p, level) ==
  [family |-> [set_id |-> id, secret |-> secret, k |-> k, len |-> len],
   text |-> secret = note, n |-> n, phrase |-> p,
   kdf |-> kdf_params_for_level[level]]

plain  == split(set1, key, 2, 32, 3, NoPhrase, "KDF_MEDIUM")
sealed == split(set2, note, 3, 9, 3, right, "KDF_STRONG")
basic  == split(set3, note, 2, 9, 3, right, "KDF_BASIC")

loose  == split(set4, key, 2, 9, 3, NoPhrase, "KDF_BASIC")
strict == split(set5, note, 3, 9, 3, NoPhrase, "KDF_BASIC")
pair   == split(set6, note, 2, 9, 2, right, "KDF_BASIC")

MCSplits == {plain, sealed, basic, loose, strict, pair}

share(s, x) == CHOOSE b \in SharesOf(s) : b.hdr.x = x

(* One field of a file changed, its checksum or tag left as it was.         *)
Damaged(b) ==
  {[b EXCEPT !.hdr.k = @ + 1], [b EXCEPT !.hdr.x = 2],
   [b EXCEPT !.hdr.set_id = set2], [b EXCEPT !.hdr.text = ~@],
   [b EXCEPT !.y = Junk], [b EXCEPT !.len = @ - 1]}
DamagedSealed(b) ==
  {[b EXCEPT !.hdr.x = 2], [b EXCEPT !.hdr.n = 2], [b EXCEPT !.hdr.sealed = FALSE],
   [b EXCEPT !.auth = Junk], [b EXCEPT !.block = Junk],
   [b EXCEPT !.kdf.t_cost = 3], [b EXCEPT !.kdf.t_cost = 17]}

GenuinePool ==
  UNION {SharesOf(s) : s \in {plain, sealed, basic}}
    \cup Damaged(share(plain, 1)) \cup DamagedSealed(share(sealed, 1))

Repack(b, h, y) == [b EXCEPT !.hdr = h, !.y = y, !.auth = [hdr |-> h, y |-> y]]

Shorter(b) ==
  LET h == [b.hdr EXCEPT !.secret_len = 8, !.mlen = 8 + VERIFY_TAG_LEN]
  IN  [Repack(b, h, b.y) EXCEPT !.len = BlobLen(h.sealed, h.mlen)]

Forged ==
  {Repack(b, [b.hdr EXCEPT !.k = 2], b.y) : b \in SharesOf(strict)}
  \cup {Repack(b, [b.hdr EXCEPT !.k = 3], b.y) : b \in SharesOf(loose)}
  \cup {Repack(b, b.hdr, gf_eval(strict.family, b.hdr.x)) : b \in SharesOf(loose)}
  \cup {Repack(b, b.hdr, gf_eval(loose.family, b.hdr.x)) : b \in SharesOf(pair)}
  \cup {Repack(b, [b.hdr EXCEPT !.x = 3], b.y) : b \in SharesOf(loose)}
  \cup {Repack(share(loose, 1), share(loose, 1).hdr, Junk), Shorter(share(loose, 2))}

RepackedPool == UNION {SharesOf(s) : s \in {loose, strict, pair}} \cup Forged

MCPools  == {GenuinePool, RepackedPool}
Repacked == {RepackedPool}
================================================================================
