--------------------------- MODULE MCAgentRuntime ---------------------------
(* Model values for AgentRuntime.  Deliveries are compared for equality only. *)
EXTENDS ModelContext

\* Bound: one cancellation or one fault.
OneDisturbance == cancels + faults <= 1

FactSymmetry == Permutations(Facts \ QuietFacts)

=============================================================================
