--------------------------- MODULE DeliveryPromise ---------------------------
(***************************************************************************)
(* What the Host promises its callers about a Session, whatever happens to *)
(* the Session's Workers (docs/架构/运行/多活跃会话.md, "IPC 边界"): a delivery is     *)
(* confirmed only after the Worker has written it to its Journal, it is    *)
(* confirmed or refused once, and what was refused is not written later.   *)
(***************************************************************************)
CONSTANT Calls

VARIABLES
  promised, \* what the caller knows of its delivery
  stored    \* deliveries the Journal holds

PromiseInit ==
  /\ promised = [c \in Calls |-> "none"]
  /\ stored = {}

Open == {c \in Calls : promised[c] = "open"}

Ask(c) ==
  /\ promised[c] = "none"
  /\ promised' = [promised EXCEPT ![c] = "open"]
  /\ UNCHANGED stored

Store(c) ==
  /\ c \in Open \ stored
  /\ stored' = stored \cup {c}
  /\ UNCHANGED promised

\* One event may answer several callers.
Settle(confirmed, refused) ==
  /\ confirmed \subseteq Open \cap stored
  /\ refused \subseteq Open \ confirmed
  /\ promised' = [c \in Calls |->
       IF c \in confirmed THEN "confirmed" ELSE IF c \in refused THEN "refused" ELSE promised[c]]
  /\ UNCHANGED stored

PromiseNext ==
  \/ \E c \in Calls : Ask(c) \/ Store(c)
  \/ \E confirmed, refused \in SUBSET Calls : Settle(confirmed, refused)

PromiseSpec == PromiseInit /\ [][PromiseNext]_<<promised, stored>>

===============================================================================
