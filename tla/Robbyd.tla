------------------------------- MODULE Robbyd -------------------------------
(***************************************************************************)
(* robbyd: an MQTT client whose thread turns the topic of each message it  *)
(* receives into a command and writes it to the robot via BLE.  The main   *)
(* thread constructs both ends, subscribes, tells the MQTT client about    *)
(* the BLE client, and sleeps for good.                                    *)
(*                                                                         *)
(* Of the BLE client only "characteristic resolved" is kept, which it      *)
(* never takes back (GattAccess).  The broker holds the messages for the   *)
(* daemon in wire; it forgets a subscription with its session.             *)
(***************************************************************************)
EXTENDS Sequences

VARIABLES
  wire,        \* the messages on their way to this daemon, oldest first
  robbyMain,   \* control of the main thread
  bleClient,   \* ble_client # NULL in the MQTT client
  connected,   \* MQTTClientRobby::connected
  subscribed,  \* the broker knows the subscription
  resolved,    \* ble_client->characteristic # NULL
  robot        \* the command the robot received last

robbyVars == <<robbyMain, bleClient, connected, subscribed, resolved, robot>>

\* Faulty: an entry of the list is missing.
CommandForgetful(topic) ==
  CASE topic = "forward"    -> "F"
    [] topic = "backward"   -> "B"
    [] topic = "left"       -> "L"
    [] topic = "right"      -> "R"
    [] topic = "rotateleft" -> "<"
    [] OTHER                -> "S"

\* Faulty: nothing is sent for a topic that is not in the list.
CommandUnset(topic) ==
  IF topic = "stop" THEN "unset" ELSE CommandForgetful(topic)

\* The table of on_message(); any other topic stops the robot.
Command(topic) ==
  CASE topic = "forward"     -> "F"
    [] topic = "backward"    -> "B"
    [] topic = "left"        -> "L"
    [] topic = "right"       -> "R"
    [] topic = "rotateleft"  -> "<"
    [] topic = "rotateright" -> ">"
    [] OTHER                 -> "S"

RobbyTypeOK ==
  /\ robbyMain \in {"construct", "subscribe", "register", "pause"}
  /\ robot \in {"S", "F", "B", "L", "R", "<", ">"}
  /\ {bleClient, connected, subscribed, resolved} \subseteq BOOLEAN

RobbyInit ==
  /\ robbyMain = "construct"
  /\ robot = "S"
  /\ bleClient = FALSE /\ connected = FALSE
  /\ subscribed = FALSE /\ resolved = FALSE

-----------------------------------------------------------------------------
(* bridge_robby()                                                          *)

\* Both constructors return at once; their threads do the connecting.
Construct ==
  /\ robbyMain = "construct"
  /\ robbyMain' = "subscribe"
  /\ UNCHANGED <<wire, bleClient, connected, subscribed, resolved, robot>>

\* subscribe() fails without a connection; its result is not looked at.
Subscribe ==
  /\ robbyMain = "subscribe"
  /\ robbyMain' = "register"
  /\ subscribed' = connected
  /\ UNCHANGED <<wire, bleClient, connected, resolved, robot>>

RegisterBLEClient ==
  /\ robbyMain = "register"
  /\ robbyMain' = "pause"
  /\ bleClient' = TRUE
  /\ UNCHANGED <<wire, connected, subscribed, resolved, robot>>

-----------------------------------------------------------------------------
(* The thread of the MQTT library, which also reconnects.                  *)

\* A connection that the broker refuses leaves connected FALSE.
OnConnect ==
  /\ robbyMain # "construct"
  /\ ~connected
  /\ connected' = TRUE
  /\ UNCHANGED <<wire, robbyMain, bleClient, subscribed, resolved, robot>>

\* The session was a clean one: the subscription goes with it.
OnDisconnect ==
  /\ connected
  /\ connected' = FALSE
  /\ subscribed' = FALSE
  /\ UNCHANGED <<wire, robbyMain, bleClient, resolved, robot>>

Written(topic) ==
  /\ bleClient /\ resolved
  /\ robot' = Command(topic)

\* on_message(), up to the end of write_value()
OnMessage ==
  /\ wire # <<>> /\ subscribed
  /\ Written(Head(wire))
  /\ wire' = Tail(wire)
  /\ UNCHANGED <<robbyMain, bleClient, connected, subscribed, resolved>>

\* The message is lost: nobody is subscribed, the BLE client is not registered
\* or not resolved yet, or write_value() throws.
LoseMessage ==
  /\ wire # <<>>
  /\ wire' = Tail(wire)
  /\ UNCHANGED robbyVars

\* The BLE client resolves the robot's characteristic.
Resolve ==
  /\ robbyMain # "construct"
  /\ ~resolved
  /\ resolved' = TRUE
  /\ UNCHANGED <<wire, robbyMain, bleClient, connected, subscribed, robot>>

RobbyNext ==
  \/ Construct \/ Subscribe \/ RegisterBLEClient
  \/ OnConnect \/ OnDisconnect \/ OnMessage \/ LoseMessage \/ Resolve

=============================================================================
