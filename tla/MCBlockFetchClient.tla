------------------------- MODULE MCBlockFetchClient -------------------------
(* Instances of BlockFetchClient for TLC: the block processor p and        *)
(* request handlers that share the client.                                 *)
EXTENDS BlockFetchClient
CONSTANTS p, h1, h2, b1, b2, b3
=============================================================================
