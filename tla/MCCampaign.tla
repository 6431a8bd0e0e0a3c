----------------------------- MODULE MCCampaign -----------------------------
(* Campaign on a small instance: an orchestrator and one agent.            *)
EXTENDS Campaign, TLC

CONSTANTS p, q, o, a

MCRoster == <<o, a>>
Symmetry == Permutations(Procs)

(* Once a Delete has raced a waiter nothing is promised any more, and      *)
(* nothing is explored.                                                    *)
UntilRaced == ~raced
=============================================================================
