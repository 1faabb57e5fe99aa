--------------------------- MODULE MCMcpConfirm ---------------------------
(* Model-checking instances of McpConfirm: the calls are interchangeable.  *)
EXTENDS McpConfirm, TLC

RequestSymmetry == Permutations(Requests)
=============================================================================
