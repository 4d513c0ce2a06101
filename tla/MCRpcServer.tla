---------------------------- MODULE MCRpcServer ----------------------------
(***************************************************************************)
(* RpcServer for TLC: a chain that starts in the Byron era.  Block 2 is a  *)
(* boundary block; its successor 3 has the same height, and so has block   *)
(* 4, a fork after block 1 in the next era.                                *)
(***************************************************************************)
EXTENDS RpcServer

MCBlock == 1..4
MCParent == <<0, 1, 2, 1>>
MCChain == [p \in 0..4 |-> CASE p = 0 -> {}
                             [] p = 1 -> {1}
                             [] p = 2 -> {1, 2}
                             [] p = 3 -> {1, 2, 3}
                             [] p = 4 -> {1, 4}]
MCSlot == <<0, 1, 1, 2>>
MCNumber == <<0, 1, 1, 1>>
MCTxsOf == <<{}, {}, {"u"}, {"v"}>>
=============================================================================
