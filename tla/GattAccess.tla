----------------------------- MODULE GattAccess -----------------------------
(***************************************************************************)
(* What a BLEClient promises to the code that uses it: an object has one   *)
(* life; its characteristic, once resolved, stays resolved for that life;  *)
(* a polling access to the beacon takes place only within the life and     *)
(* only through a resolved characteristic; and the object does not die     *)
(* under an access, nor does anything happen to it after its death.        *)
(***************************************************************************)
CONSTANT Clients

VARIABLES
  life,      \* "unborn", "alive" or "dead"
  resolved,  \* the characteristic of the client's beacon has been found
  accessing  \* the clients whose reader is between its check and its delivery

vars == <<life, resolved, accessing>>

Init ==
  /\ life = [c \in Clients |-> "unborn"]
  /\ resolved = [c \in Clients |-> FALSE]
  /\ accessing = {}

Create(c) ==
  /\ life[c] = "unborn"
  /\ life' = [life EXCEPT ![c] = "alive"]
  /\ UNCHANGED <<resolved, accessing>>

Resolve(c) ==
  /\ life[c] = "alive"
  /\ ~resolved[c]
  /\ resolved' = [resolved EXCEPT ![c] = TRUE]
  /\ UNCHANGED <<life, accessing>>

BeginAccess(c) ==
  /\ life[c] = "alive"
  /\ resolved[c]
  /\ c \notin accessing
  /\ accessing' = accessing \cup {c}
  /\ UNCHANGED <<life, resolved>>

EndAccess(c) ==
  /\ c \in accessing
  /\ accessing' = accessing \ {c}
  /\ UNCHANGED <<life, resolved>>

Destroy(c) ==
  /\ life[c] = "alive"
  /\ c \notin accessing
  /\ life' = [life EXCEPT ![c] = "dead"]
  /\ UNCHANGED <<resolved, accessing>>

Next ==
  \E c \in Clients :
    Create(c) \/ Resolve(c) \/ BeginAccess(c) \/ EndAccess(c) \/ Destroy(c)

Spec == Init /\ [][Next]_vars

=============================================================================
