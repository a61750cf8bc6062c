---------------------------- MODULE MCProcessor ----------------------------
(***************************************************************************)
(* A small instance of Processor: chain 1 with its first entry e1 and a    *)
(* further entry e2, chain 2 with its first entry e3.                      *)
(***************************************************************************)
EXTENDS Processor

CONSTANTS k1, k2, e1, e2, e3, t1, cc1, cc3, ce2, ce2b, ce3

AnEntryCommit(e, k, n) ==
    [kind |-> "commitEntry", entry |-> e, key |-> k, credits |-> n,
     weld |-> TRUE]

AChainCommit(e, k, n, w) ==
    [kind |-> "commitChain", entry |-> e, key |-> k, credits |-> n,
     weld |-> w]

MCChainOf    == [e \in Entries |-> IF e = e3 THEN 2 ELSE 1]
MCCost       == [e \in Entries |-> 1]
MCNamesChain == [e \in Entries |-> e # e2]

\* cc3 does not pay the chain fee.
MCCommitMsg ==
    [c \in Commits |->
        CASE c = cc1  -> AChainCommit(e1, k1, 3, TRUE)
          [] c = cc3  -> AChainCommit(e3, k2, 2, TRUE)
          [] c = ce2  -> AnEntryCommit(e2, k1, 1)
          [] c = ce2b -> AnEntryCommit(e2, k2, 1)
          [] c = ce3  -> AnEntryCommit(e3, k1, 1)]

\* What t1 buys differs between the rates 1 and 2.
MCECOutputs == [t \in Txs |-> [k \in Keys |-> IF k = k1 THEN 7 ELSE 2]]

=============================================================================
