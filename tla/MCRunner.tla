-------------------------------- MODULE MCRunner --------------------------------
(* Runner on a small instance.                                                *)
EXTENDS Runner, TLC

\* Restart for ever, a budget of one restart, and no automatic restart.
MCPolicies == {[auto |-> TRUE, max |-> 0], [auto |-> TRUE, max |-> 1],
               [auto |-> FALSE, max |-> 0]}

\* Stoppers are interchangeable; used only where no liveness is checked.
StopperSymmetry == Permutations(Stoppers)

Endless == {[auto |-> TRUE, max |-> 0]}
================================================================================
