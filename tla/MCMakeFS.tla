------------------------------ MODULE MCMakeFS ------------------------------
(* PancakeMakeFS for TLC, whose integers have 32 bits: all sizes are scaled *)
(* down.  Blocks have 20 bytes, 16 of them data, extents have 10 blocks and *)
(* the machine words 7 and 12 bits.  The bitmap outgrows the area in front  *)
(* of the extents at 1056 bytes and the extent count wraps at 2064.         *)
EXTENDS PancakeMakeFS

\* From below the least size accepted to beyond the wrap of the extent count.
Sizes == {5 * n : n \in 76 .. 430}
=============================================================================
