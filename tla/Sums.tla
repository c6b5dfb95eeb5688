-------------------------------- MODULE Sums --------------------------------
(* Adding up natural numbers by counting them out, so that what is known   *)
(* of the size of finite sets holds for sums.                              *)
EXTENDS Integers, FiniteSets

\* As many of each x as its number says.
Bytes(f) == UNION {{x} \X (1..f[x]) : x \in DOMAIN f}

\* The sum of the numbers of f.
Total(f) == Cardinality(Bytes(f))
=============================================================================
