--------------------------- MODULE MCExtentManager ---------------------------
(* PancakeExtentManager on a small device, for TLC.                        *)
EXTENDS PancakeExtentManager, TLC

\* The codec of the blocks, on a device with sectors of 512 bytes.
Block == INSTANCE PancakeBlock WITH sector_size <- 512

\* What the codec answers on a header that AddExtent wrote: the value of
\* OwnHeader in the runs of the code as it stands.
CodecOutcome == CHOOSE code \in Block!OwnHeaderOutcome : TRUE

\* Extents and calls are interchangeable; used by the runs without liveness.
Symmetry == Permutations(ExtentIds) \cup Permutations(Calls)
=============================================================================
