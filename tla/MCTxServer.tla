----------------------------- MODULE MCTxServer -----------------------------
(* TxServer for TLC: two handlers that serve the same transactions.  One   *)
(* memo fills its chunks to the last rune, one is a rune longer, and one   *)
(* has a rune of two bytes.                                                *)
EXTENDS TxServer

MCMemo == {<<>>, <<1, 1>>, <<1, 1, 1>>, <<2, 1>>}
=============================================================================
