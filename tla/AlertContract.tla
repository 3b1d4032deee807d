---------------------------- MODULE AlertContract ----------------------------
(***************************************************************************)
(* What the alert engine promises, with no table in it: every monitored    *)
(* condition (a key) is either open or closed, a reading that contradicts  *)
(* its state flips it, and the number of episodes counts the openings.     *)
(* It abstracts src/Code/backend/alerts/engine.py: the rows of the alerts  *)
(* table are only visible as open[k] and episodes[k].                      *)
(***************************************************************************)
EXTENDS Integers

CONSTANT Key

VARIABLES open,      \* open[k]: the condition k is reported as ongoing
          episodes   \* episodes[k]: how many times it has been reported

vars == <<open, episodes>>

Init == /\ open = [k \in Key |-> FALSE]
        /\ episodes = [k \in Key |-> 0]

\* A breaching reading of a closed condition starts one episode of it.
Open(k) == /\ ~open[k]
           /\ open' = [open EXCEPT ![k] = TRUE]
           /\ episodes' = [episodes EXCEPT ![k] = @ + 1]

\* A reading back in range ends the episode and forgets nothing.
Close(k) == /\ open[k]
            /\ open' = [open EXCEPT ![k] = FALSE]
            /\ UNCHANGED episodes

Next == \E k \in Key : Open(k) \/ Close(k)

Spec == Init /\ [][Next]_vars
=============================================================================
