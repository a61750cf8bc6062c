------------------------------ MODULE MCWebAPI ------------------------------
\* WebAPI for TLC: chain ids of two bytes, two of them neighbours, and a purchase
\* whose variable integer has a group of zeros inside it.
EXTENDS WebAPI

Neighbours == {<<0, 0>>, <<0, 1>>}
EdgeChain  == {<<0, ByteMax>>}
Purchases  == {<<5, 1>>}

=============================================================================
