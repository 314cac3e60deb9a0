-------------------------------- MODULE Sums --------------------------------
(***************************************************************************)
(* The sum of a sequence of sizes, as a recursive function.                *)
(***************************************************************************)
EXTENDS Naturals, Sequences

SumOf(sizes) ==
    LET sum[i \in 0 .. Len(sizes)] == IF i = 0 THEN 0 ELSE sum[i - 1] + sizes[i]
    IN  sum[Len(sizes)]
=============================================================================
