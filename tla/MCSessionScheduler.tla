-------------------------- MODULE MCSessionScheduler --------------------------
(* Model values for SessionScheduler. *)
EXTENDS SessionScheduler

\* A cancellation or a fault, not both in one behaviour.
OneTrouble == cancels + faults <= 1

FactSymmetry == Permutations(Facts \ QuietFacts)

===============================================================================
