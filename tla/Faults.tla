-------------------------------- MODULE Faults --------------------------------
(***************************************************************************)
(* Parameters the modules of the services share.                           *)
(***************************************************************************)
EXTENDS Naturals

CONSTANTS
  None,       \* no value
  MaxFaults   \* bound: processes that die by themselves, calls that fail

ASSUME FaultsAssumption == MaxFaults \in Nat /\ None \notin Nat

===============================================================================
