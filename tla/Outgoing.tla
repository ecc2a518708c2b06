------------------------------- MODULE Outgoing -------------------------------
(***************************************************************************)
(* What the interface is promised about a message the user sends: it is    *)
(* reported as pending, then exactly once as sent or as failed, and is     *)
(* never reported otherwise while the process lives.                       *)
(***************************************************************************)
CONSTANT Sends

VARIABLE told    \* last state reported for each send, "lost" with its process

Init == told = [m \in Sends |-> "none"]

Submit(m) ==
  /\ told[m] = "none"
  /\ told' = [told EXCEPT ![m] = "pending"]

Settle(m) ==
  /\ told[m] = "pending"
  /\ \E verdict \in {"sent", "failed"} : told' = [told EXCEPT ![m] = verdict]

ProcessEnds ==
  /\ \E lost \in SUBSET Sends :
       told' = [m \in Sends |-> IF m \in lost THEN "lost" ELSE told[m]]

Next == (\E m \in Sends : Submit(m) \/ Settle(m)) \/ ProcessEnds

Spec == Init /\ [][Next]_told
=============================================================================
