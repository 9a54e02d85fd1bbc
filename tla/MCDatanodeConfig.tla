--------------------------- MODULE MCDatanodeConfig ---------------------------
(* DatanodeConfig with a few nodes per key, for TLC: ports are 4 to 7.     *)
EXTENDS DatanodeConfig

Node(shape, default) == [shape |-> shape, value |-> default]
Scalar(values) == [shape : {"scalar"}, value : values]

MCNodes ==
    <<{Node("absent", Empty), Node("null", Empty)} \cup Scalar({Empty, "dn"}),
      {Node("null", Empty), Node("sequence", Empty)} \cup Scalar({Empty, Address}),
      {Node("null", Empty)} \cup Scalar({Empty, "cluster"}),
      {Node("absent", 0), Node("null", 0)} \cup Scalar({3, 5, 8}),
      {Node("null", 0), Node("sequence", 0)} \cup Scalar({3, 4}),
      {Node("null", 0)} \cup Scalar({3, 5, 6}),
      {Node("null", 0)} \cup Scalar({3, 5, 8})>>
=============================================================================
