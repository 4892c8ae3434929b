----------------------------- MODULE MQTTClient -----------------------------
(***************************************************************************)
(* MQTTClient objects and what the mosquitto library and the broker do     *)
(* with them.  The library's thread of each object connects, reconnects,   *)
(* and calls on_connect(), on_disconnect() and on_message(); every message *)
(* is sent with QoS 1, so the library keeps it until the broker has        *)
(* acknowledged it, and sends what is not acknowledged once more in the    *)
(* next session.  It does not wait for one acknowledgement before it sends *)
(* the next message.  The broker keeps one session per client id: a second *)
(* connection with an id ends the first.  Sessions are clean ones, so the  *)
(* subscription goes with the session.                                     *)
(*                                                                         *)
(* A refused connection sets the flag connected to FALSE, which it is, so  *)
(* it is no step here.                                                     *)
(***************************************************************************)
EXTENDS Naturals, Sequences

CONSTANTS
  Objects,   \* the MQTTClient objects
  Id,        \* the client id of each object
  MaxOutbox  \* bound on the messages the library keeps for each object

VARIABLES
  object,     \* "none" or "alive"
  online,     \* the objects whose session is the broker's session of their id
  connected,  \* MQTTClient::connected
  subscribed, \* the objects whose subscription the broker knows
  listened,   \* the objects with an event receiver
  outbox,     \* what the library has still to send, oldest first
  inflight    \* what it has sent in this session and not seen acknowledged

mqttVars == <<object, online, connected, subscribed, listened, outbox, inflight>>

MqttInit ==
  /\ object = [c \in Objects |-> "none"]
  /\ online = {}
  /\ connected = [c \in Objects |-> FALSE]
  /\ subscribed = {} /\ listened = {}
  /\ outbox = [c \in Objects |-> <<>>]
  /\ inflight = [c \in Objects |-> <<>>]

-----------------------------------------------------------------------------
(* Constructor, subscription, registration.                                *)

\* The constructor only begins to connect; the loop's thread goes on.
Construct(c) ==
  /\ object[c] = "none"
  /\ object' = [object EXCEPT ![c] = "alive"]
  /\ UNCHANGED <<online, connected, subscribed, listened, outbox, inflight>>

\* subscribe() fails without a connection.
Subscribe(c) ==
  /\ object[c] = "alive"
  /\ subscribed' = IF c \in online THEN subscribed \cup {c} ELSE subscribed
  /\ UNCHANGED <<object, online, connected, listened, outbox, inflight>>

RegisterEventReceiver(c) ==
  /\ object[c] = "alive"
  /\ listened' = listened \cup {c}
  /\ UNCHANGED <<object, online, connected, subscribed, outbox, inflight>>

-----------------------------------------------------------------------------
(* The broker, the network, and the callbacks about the connection.        *)

SameId(c) == {d \in Objects : Id[d] = Id[c]}

\* The broker grants a session, on_connect() is called with 0.
OnConnect(c) ==
  /\ object[c] = "alive" /\ ~connected[c] /\ c \notin online
  /\ online' = (online \ SameId(c)) \cup {c}
  /\ subscribed' = subscribed \ SameId(c)
  /\ connected' = [connected EXCEPT ![c] = TRUE]
  /\ UNCHANGED <<object, listened, outbox, inflight>>

\* The network or the broker ends a session.
LoseSession(c) ==
  /\ c \in online
  /\ online' = online \ {c}
  /\ subscribed' = subscribed \ {c}
  /\ UNCHANGED <<object, connected, listened, outbox, inflight>>

\* The library finds out: on_disconnect().  What is not acknowledged goes out
\* again in the next session, before what has not been sent yet.
OnDisconnect(c) ==
  /\ object[c] = "alive" /\ connected[c] /\ c \notin online
  /\ connected' = [connected EXCEPT ![c] = FALSE]
  /\ outbox' = [outbox EXCEPT ![c] = inflight[c] \o @]
  /\ inflight' = [inflight EXCEPT ![c] = <<>>]
  /\ UNCHANGED <<object, online, subscribed, listened>>

-----------------------------------------------------------------------------
(* Messages.                                                               *)

\* Faulty: a new message takes the place of one that is still waiting.
SendMessageReplacing(c, topic, value) ==
  /\ object[c] = "alive" /\ connected[c]
  /\ outbox' = [outbox EXCEPT ![c] = <<[topic |-> topic, value |-> value]>>]
  /\ UNCHANGED <<object, online, connected, subscribed, listened, inflight>>

\* sendMessage(): the flag says that there is a connection, and the library
\* takes the message.
SendMessage(c, topic, value) ==
  /\ object[c] = "alive" /\ connected[c]
  /\ Len(outbox[c]) + Len(inflight[c]) < MaxOutbox[c]
  /\ outbox' = [outbox EXCEPT ![c] = Append(@, [topic |-> topic, value |-> value])]
  /\ UNCHANGED <<object, online, connected, subscribed, listened, inflight>>

\* The broker gets the oldest message that is not sent yet and passes it on ...
Delivered(c) ==
  /\ object[c] = "alive" /\ c \in online /\ outbox[c] # <<>>
  /\ outbox' = [outbox EXCEPT ![c] = Tail(@)]
  /\ inflight' = [inflight EXCEPT ![c] = Append(@, Head(outbox[c]))]
  /\ UNCHANGED <<object, online, connected, subscribed, listened>>

\* ... and its acknowledgement comes back, in its turn; on_publish() only logs it.
Acknowledged(c) ==
  /\ object[c] = "alive" /\ connected[c] /\ inflight[c] # <<>>
  /\ inflight' = [inflight EXCEPT ![c] = Tail(@)]
  /\ UNCHANGED <<object, online, connected, subscribed, listened, outbox>>

\* on_message() hands a message on, unless it is empty or nobody listens.
Forwards(c, payload) ==
  /\ object[c] = "alive" /\ c \in online \cap subscribed
  /\ c \in listened /\ payload # ""

=============================================================================
