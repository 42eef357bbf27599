-------------------------------- MODULE Sums --------------------------------
(***************************************************************************)
(* The sum a loop adds up.                                                 *)
(***************************************************************************)
EXTENDS Integers

\* f[i] + ... + f[i + n - 1].
AddUp(f, i, n) ==
    LET sum[k \in 0..n] == IF k = 0 THEN 0 ELSE sum[k-1] + f[i + k - 1]
    IN sum[n]
=============================================================================
