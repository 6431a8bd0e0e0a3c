----------------------------- MODULE MCDelivery -----------------------------
(* Small instances of Delivery: the commands of one orchestrator and the   *)
(* reply commands of one agent, over two dispatches.                       *)
EXTENDS Delivery, TLC

Symmetry ==
  Permutations(Senders) \cup Permutations(Movers)
    \cup Permutations(Repliers) \cup Permutations(Sessions)
==============================================================================
