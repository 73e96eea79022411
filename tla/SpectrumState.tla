--------------------------- MODULE SpectrumState ---------------------------
(***************************************************************************)
(* The lifecycle of a CBSD as the comment of spectrum_state.h draws it,    *)
(* for every cbsdId: the transitions drawn there and no other.  An id the  *)
(* Domain Proxy does not know is UNREGISTERED.                             *)
(***************************************************************************)
VARIABLE state    \* state[id], for the ids that are known

Init == state = << >>

Move(id, from, to) ==
  /\ state[id] = from
  /\ state' = [state EXCEPT ![id] = to]

Register(id) ==
  /\ id \notin DOMAIN state
  /\ state' = [i \in DOMAIN state \cup {id} |->
                IF i = id THEN "REGISTERED" ELSE state[i]]

Grant(id)      == Move(id, "REGISTERED", "GRANTED")
Heartbeat(id)  == Move(id, "GRANTED", "AUTHORIZED")
Relinquish(id) == Move(id, "AUTHORIZED", "REGISTERED")    \* or the grant expires

Deregister(id) ==
  /\ state[id] = "REGISTERED"
  /\ state' = [i \in DOMAIN state \ {id} |-> state[i]]

Next ==
  \/ \E id \in DOMAIN state' : Register(id)
  \/ \E id \in DOMAIN state :
       Grant(id) \/ Heartbeat(id) \/ Relinquish(id) \/ Deregister(id)
============================================================================
