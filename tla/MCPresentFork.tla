----------------------------- MODULE MCPresentFork -----------------------------
(* A camera that crosses tiles to and fro, a plane it wraps around, two scenes *)
(* with a tile to remove each.                                              *)
EXTENDS PresentFork
================================================================================
