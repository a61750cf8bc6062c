------------------------------- MODULE Mirror -------------------------------
(***************************************************************************)
(* What a client promises: a copy of the server's directory that grows by  *)
(* one height at a time, each height with all it lists at once, and of     *)
(* which nothing is ever lost or changed.                                  *)
(***************************************************************************)
EXTENDS Integers

CONSTANTS Top,      \* the server's last height
          Content   \* Content[h]: what the server's height h consists of

VARIABLE mirror     \* height -> what a reader finds there

Init == mirror = [h \in {} |-> {}]

Copy(n) ==
    /\ DOMAIN mirror = 0 .. (n - 1)
    /\ mirror' = [h \in 0 .. n |-> IF h < n THEN mirror[h] ELSE Content[n]]

Next == \E n \in 0 .. Top : Copy(n)

Spec == Init /\ [][Next]_mirror

=============================================================================
