------------------------------ MODULE Delivery ------------------------------
(***************************************************************************)
(* What a sender with retries promises about each message: a copy is       *)
(* launched only while the message waits for its verdict, MaxCopies at     *)
(* most reach the air, and it is given up only when all of them have.  The *)
(* sender may forget messages (a full table, a restart); of one it forgot  *)
(* a last copy may still go out.  AprsHub implements this specification.   *)
(***************************************************************************)
EXTENDS Integers

CONSTANTS Messages, MaxCopies

VARIABLES
    fate,      \* message -> its standing with the sender
    copies,    \* message -> copies that reached the air
    flying     \* messages of which a copy is being sent

deliveryVars == <<fate, copies, flying>>

Open     == {"new", "waiting", "forgotten"}
Verdicts == {"acked", "rejected"}

DeliveryInit ==
    /\ fate   = [m \in Messages |-> "new"]
    /\ copies = [m \in Messages |-> 0]
    /\ flying = {}

Launch(m) ==
    /\ m \notin flying /\ fate[m] \in Open /\ copies[m] < MaxCopies
    /\ flying' = flying \union {m}
    /\ UNCHANGED <<fate, copies>>

\* The copy is out, or was not sent; a first copy decides if there is a wait.
Land(m) ==
    /\ m \in flying
    /\ flying' = flying \ {m}
    /\ \E ok \in BOOLEAN :
         /\ copies' = [copies EXCEPT ![m] = IF ok THEN @ + 1 ELSE @]
         /\ \E forgotten \in SUBSET (Messages \ {m}) :
              fate' = [k \in Messages |->
                         IF k = m /\ fate[k] = "new" THEN IF ok THEN "waiting" ELSE "failed"
                         ELSE IF k \in forgotten /\ fate[k] = "waiting" THEN "forgotten" ELSE fate[k]]

Settle(m) ==
    /\ fate[m] = "waiting"
    /\ \E v \in Verdicts : fate' = [fate EXCEPT ![m] = v]
    /\ UNCHANGED <<copies, flying>>

GiveUp(m) ==
    /\ fate[m] \in {"waiting", "forgotten"} /\ copies[m] = MaxCopies /\ m \notin flying
    /\ fate' = [fate EXCEPT ![m] = "no_ack"]
    /\ UNCHANGED <<copies, flying>>

\* The sender restarts.
Lose ==
    /\ fate' = [m \in Messages |-> IF fate[m] = "new" /\ m \notin flying THEN "new" ELSE "lost"]
    /\ flying' = {}
    /\ UNCHANGED copies

DeliveryNext ==
    \/ \E m \in Messages : Launch(m) \/ Land(m) \/ Settle(m) \/ GiveUp(m)
    \/ Lose

DeliverySpec == DeliveryInit /\ [][DeliveryNext]_deliveryVars
=============================================================================
