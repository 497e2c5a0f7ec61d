------------------------------ MODULE GrabSpec ------------------------------
(***************************************************************************)
(* What grab promises ("Blocks until next frame arrives"), with no mutex,  *)
(* flag or condition variable: a client that has asked for a frame is let  *)
(* go only after a complete frame was stored since it asked.               *)
(***************************************************************************)
CONSTANT Clients

VARIABLE phase   \* of each client: "out", "in" (asked), "served"

TypeOK == phase \in [Clients -> {"out", "in", "served"}]

Init == phase = [c \in Clients |-> "out"]

Ask(c) == phase[c] = "out" /\ phase' = [phase EXCEPT ![c] = "in"]

\* One stored frame serves every client that has asked.
Store == phase' = [c \in Clients |-> IF phase[c] = "in" THEN "served"
                                     ELSE phase[c]]

Return(c) == phase[c] = "served" /\ phase' = [phase EXCEPT ![c] = "out"]

Next == Store \/ \E c \in Clients : Ask(c) \/ Return(c)

SafeSpec == Init /\ [][Next]_phase

Fairness == WF_phase(Store) /\ \A c \in Clients : WF_phase(Return(c))

Spec == SafeSpec /\ Fairness

=============================================================================
