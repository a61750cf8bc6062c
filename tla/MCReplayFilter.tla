--------------------------- MODULE MCReplayFilter ---------------------------
(***************************************************************************)
(* Four buckets of two clock units around the start, and messages whose    *)
(* timestamps enter and leave the window, at its edges, as the clock runs. *)
(***************************************************************************)
EXTENDS ReplayFilter

CONSTANTS m1, m2, tx

MCStamp ==
    [m \in Msgs |->
        CASE m = m1 -> StartTime + 1
          [] m = m2 -> StartTime + 6
          [] m = tx -> StartTime + 4]

=============================================================================
