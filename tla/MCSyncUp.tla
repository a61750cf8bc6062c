------------------------------ MODULE MCSyncUp ------------------------------
(***************************************************************************)
(* A server with the genesis block, a height at which entry block b1 opens *)
(* a chain, and one at which b2 continues it and repeats the entry x.      *)
(***************************************************************************)
EXTENDS SyncUp

CONSTANTS b1, b2, x, y

MCListed ==
    [h \in Heights |-> CASE h = 1 -> <<b1>> [] h = 2 -> <<b2>> [] OTHER -> <<>>]

MCChainOf == [b \in EBlocks |-> 1]

MCSeqOf == [b \in EBlocks |-> IF b = b1 THEN 0 ELSE 1]

MCBody == [b \in EBlocks |-> IF b = b1 THEN <<x, None>> ELSE <<x, y, None>>]

=============================================================================
