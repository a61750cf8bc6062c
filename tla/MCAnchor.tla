------------------------------ MODULE MCAnchor ------------------------------
(***************************************************************************)
(* A wallet with a coin that pays for two anchors and one that pays for    *)
(* a single one.                                                           *)
(***************************************************************************)
EXTENDS Anchor

CONSTANTS c1, c2

MCAmount == [c \in Coins |-> IF c = c1 THEN 3 ELSE 2]

=============================================================================
