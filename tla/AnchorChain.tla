---------------------------- MODULE AnchorChain ----------------------------
(***************************************************************************)
(* What the anchor promises its readers: a log that only grows, in which   *)
(* every record of a directory block names a transaction that bitcoin has  *)
(* mined and that carries this very block, and no transaction twice.       *)
(***************************************************************************)
EXTENDS Integers, Sequences

CONSTANT Heights    \* the directory blocks

VARIABLES log,      \* height -> its records
          mined     \* the transactions of bitcoin's chain

Init == /\ log = [h \in Heights |-> <<>>]
        /\ mined = {}

Mine(tx) == /\ mined' = mined \cup {tx}
            /\ UNCHANGED log

Record(h, tx) == /\ tx \in mined /\ tx.h = h
                 /\ \A i \in DOMAIN log[h] : log[h][i] # tx
                 /\ log' = [log EXCEPT ![h] = Append(@, tx)]
                 /\ UNCHANGED mined

Next == \/ \E h \in Heights : \E tx \in mined : Record(h, tx)
        \/ \E tx \in mined' : Mine(tx)

Spec == Init /\ [][Next]_<<log, mined>>

=============================================================================
