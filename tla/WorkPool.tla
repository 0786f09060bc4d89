------------------------------ MODULE WorkPool ------------------------------
(***************************************************************************)
(* What internal/queue promises its users, without locks, channels or      *)
(* order: a pool of job ids.  An id that is accepted stays pending until   *)
(* it is handed to exactly one worker or discarded by a drain; once the    *)
(* pool is closed nothing is accepted and new ids are refused.             *)
(***************************************************************************)
CONSTANT Jobs

VARIABLES open,        \* whether ids are still accepted
          pending, handedOver, discarded, refused   \* where each offered id is

poolVars == <<open, pending, handedOver, discarded, refused>>

Offered == pending \cup handedOver \cup discarded \cup refused

PoolInit == /\ open = TRUE
            /\ pending = {} /\ handedOver = {} /\ discarded = {} /\ refused = {}

Accept(j) == /\ open
             /\ j \notin Offered
             /\ pending' = pending \cup {j}
             /\ UNCHANGED <<open, handedOver, discarded, refused>>

Refuse(j) == /\ ~open
             /\ j \notin Offered
             /\ refused' = refused \cup {j}
             /\ UNCHANGED <<open, pending, handedOver, discarded>>

HandOver(j) == /\ j \in pending
               /\ pending' = pending \ {j}
               /\ handedOver' = handedOver \cup {j}
               /\ UNCHANGED <<open, discarded, refused>>

DiscardAll == /\ discarded' = discarded \cup pending
              /\ pending' = {}
              /\ UNCHANGED <<open, handedOver, refused>>

Shut == /\ open' = FALSE
        /\ UNCHANGED <<pending, handedOver, discarded, refused>>

PoolNext == \/ \E j \in Jobs : Accept(j) \/ Refuse(j) \/ HandOver(j)
            \/ DiscardAll
            \/ Shut

PoolSpec == PoolInit /\ [][PoolNext]_poolVars
=============================================================================
