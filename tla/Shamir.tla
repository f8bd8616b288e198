-------------------------------- MODULE Shamir --------------------------------
(***************************************************************************)
(* shamir.c: the tables gf_init builds at first use, multiplication and    *)
(* division by logarithms, and a split and a combine of one byte.  (The    *)
(* bytes of a secret are split one by one, in the same way.)               *)
(***************************************************************************)
EXTENDS GaloisField, Sequences

CONSTANTS
  Coefs,      (* secret bytes and random coefficients                       *)
  Picks,      (* x-coordinates of the shares given to a combine             *)
  MaxK        (* bound on the threshold                                     *)

ASSUME ShamirAssumption ==
  Coefs \subseteq Byte /\ Picks \subseteq 1..255 /\ MaxK \in 2..255

VARIABLES
  gf_exp, gf_log, gf_ready,
  i, x,       (* gf_init's locals                                           *)
  k, coef,    (* the split's threshold and polynomial                       *)
  xs, ys,     (* the shares given to the combine                            *)
  rc, out     (* its results                                                *)

pending == 1    (* of rc: not called yet                                     *)

tables == <<gf_exp, gf_log, gf_ready, i, x>>
vars   == <<tables, k, coef, xs, ys, rc, out>>

Init ==
  /\ gf_exp = [j \in 0..511 |-> zero] /\ gf_log = [a \in Byte |-> 0]
  /\ gf_ready = FALSE /\ i = 0 /\ x = one
  /\ k = 0 /\ coef = <<>> /\ xs = <<>> /\ ys = <<>> /\ rc = pending /\ out = zero

---------------------------------------------------------------------------
(* gf_init.  Each turn of its first loop multiplies x by 0x03: x << 1,      *)
(* reduced by 0x1b when bit 7 overflows, plus the x just stored.            *)

times3(a, stored) ==
  LET shifted == {e + 1 : e \in a \ {7}}
  IN  xor(IF 7 \in a THEN xor(shifted, uint8(27)) ELSE shifted, stored)

gf_init_lower ==
  /\ ~gf_ready /\ i < 255
  /\ gf_exp' = [gf_exp EXCEPT ![i] = x]
  /\ gf_log' = [gf_log EXCEPT ![x] = i]
  /\ x' = times3(x, gf_exp'[i])
  /\ i' = i + 1
  /\ UNCHANGED <<gf_ready, k, coef, xs, ys, rc, out>>

(* Mutant: the table is mirrored with period 256.                           *)
gf_init_upper256 ==
  /\ ~gf_ready /\ i \in 255..511
  /\ gf_exp' = [gf_exp EXCEPT ![i] = gf_exp[IF i < 256 THEN 0 ELSE i - 256]]
  /\ i' = i + 1
  /\ UNCHANGED <<gf_log, gf_ready, x, k, coef, xs, ys, rc, out>>

gf_init_upper ==
  /\ ~gf_ready /\ i \in 255..511
  /\ gf_exp' = [gf_exp EXCEPT ![i] = gf_exp[i - 255]]
  /\ i' = i + 1
  /\ UNCHANGED <<gf_log, gf_ready, x, k, coef, xs, ys, rc, out>>

gf_init_ready ==
  /\ ~gf_ready /\ i = 512
  /\ gf_log' = [gf_log EXCEPT ![zero] = 0]
  /\ gf_ready' = TRUE
  /\ UNCHANGED <<gf_exp, i, x, k, coef, xs, ys, rc, out>>

gf_mul(a, b) ==
  IF a = zero \/ b = zero THEN zero ELSE gf_exp[gf_log[a] + gf_log[b]]

(* b # zero                                                                 *)
gf_div(a, b) ==
  IF a = zero THEN zero ELSE gf_exp[gf_log[a] + 255 - gf_log[b]]

---------------------------------------------------------------------------

(* Horner's method, from the highest coefficient down.                      *)
gf_eval(c, degree, at) ==
  LET y[d \in 0..degree] ==
        IF d = degree THEN c[d] ELSE xor(gf_mul(y[d + 1], at), c[d])
  IN  y[0]

(* shamir_split has drawn a polynomial with the secret byte as c[0]; share  *)
(* number v is its value at v.                                              *)
shamir_split ==
  /\ gf_ready /\ k = 0
  /\ k' \in 2..MaxK
  /\ coef' \in [0..(k' - 1) -> Coefs]
  /\ UNCHANGED <<tables, xs, ys, rc, out>>

(* Mutant: the shares are numbered from 0.                                  *)
CollectFromZero ==
  /\ Len(xs) < k
  /\ \E v \in Picks :
       /\ xs' = Append(xs, uint8(v - 1))
       /\ ys' = Append(ys, gf_eval(coef, k - 1, uint8(v - 1)))
  /\ UNCHANGED <<tables, k, coef, rc, out>>

(* The caller collects one share after another.                             *)
Collect ==
  /\ Len(xs) < k
  /\ \E v \in Picks :
       /\ xs' = Append(xs, uint8(v))
       /\ ys' = Append(ys, gf_eval(coef, k - 1, uint8(v)))
  /\ UNCHANGED <<tables, k, coef, rc, out>>

(* Mutant: only neighbours are compared.                                    *)
PointsValidNeighbours ==
  /\ zero \notin {xs[j] : j \in 1..k}
  /\ \A j \in 1..(k - 1) : xs[j] # xs[j + 1]

PointsValid ==
  /\ zero \notin {xs[j] : j \in 1..k}
  /\ \A j, l \in 1..k : j < l => xs[j] # xs[l]

(* The product of f[j] over the j # skip, in the order of the code's loop.  *)
ProductWithout(skip, f) ==
  LET p[j \in 0..k] ==
        IF j = 0 THEN one
        ELSE IF j = skip THEN p[j - 1] ELSE gf_mul(p[j - 1], f[j])
  IN  p[k]

weight(j) ==
  gf_div(ProductWithout(j, xs),
         ProductWithout(j, [l \in 1..k |-> xor(xs[j], xs[l])]))

Interpolated ==
  LET acc[j \in 0..k] ==
        IF j = 0 THEN zero ELSE xor(acc[j - 1], gf_mul(weight(j), ys[j]))
  IN  acc[k]

shamir_combine ==
  /\ k >= 2 /\ Len(xs) = k /\ rc = pending
  /\ \/ PointsValid  /\ rc' = 0  /\ out' = Interpolated
     \/ ~PointsValid /\ rc' = -1 /\ UNCHANGED out
  /\ UNCHANGED <<tables, k, coef, xs, ys>>

Next == \/ gf_init_lower \/ gf_init_upper \/ gf_init_ready
        \/ shamir_split \/ Collect \/ shamir_combine

Spec == Init /\ [][Next]_vars

---------------------------------------------------------------------------
(* Properties.                                                              *)

(* Every variable keeps its type: no index leaves its table, no byte its 8  *)
(* bits.                                                                    *)
TypeOK ==
  /\ gf_exp \in [0..511 -> Byte] /\ gf_log \in [Byte -> 0..254]
  /\ gf_ready \in BOOLEAN /\ i \in 0..512 /\ x \in Byte
  /\ k \in {0} \cup 2..MaxK /\ DOMAIN coef = 0..(k - 1)
  /\ xs \in Seq(Byte) /\ ys \in Seq(Byte) /\ Len(xs) = Len(ys) /\ Len(xs) <= k
  /\ rc \in {pending, 0, -1} /\ out \in Byte

(* Once the tables are built, gf_mul and gf_div are multiplication and      *)
(* division in GF(2^8), for every pair of bytes: the sums of logarithms     *)
(* need no modulo, and 0, which has none, is caught.                        *)
FieldArithmetic ==
  gf_ready /\ k = 0 =>
    \A a, b \in Byte :
      /\ gf_mul(a, b) = Times(a, b)
      /\ b # zero => Times(gf_div(a, b), b) = a

(* Any k distinct shares, in any order, give back the secret byte; a share  *)
(* given twice, with others in between or not, is refused.                  *)
Recovered ==
  rc # pending =>
    IF \A j, l \in 1..k : xs[j] = xs[l] => j = l
    THEN rc = 0 /\ out = coef[0]
    ELSE rc = -1

(* One share of a split with threshold 2 goes with every secret byte, each  *)
(* by exactly one random coefficient: it says nothing of the secret.        *)
OneOfTwoSaysNothing ==
  k = 2 /\ Len(xs) = 1 =>
    \A secret \in Byte :
      Cardinality({c \in Byte :
                     gf_eval([d \in 0..1 |-> IF d = 0 THEN secret ELSE c],
                             1, xs[1]) = ys[1]}) = 1

================================================================================
