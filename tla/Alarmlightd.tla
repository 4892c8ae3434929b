----------------------------- MODULE Alarmlightd -----------------------------
(***************************************************************************)
(* alarmlightd: a BluetoothEnabledSwitch, which writes the number in each  *)
(* MQTT message it receives to a beacon with a light.  Its constructor     *)
(* creates both endpoints, subscribes, and registers itself with the MQTT  *)
(* client, whose thread is at work from the first of these steps on.       *)
(*                                                                         *)
(* Of the BLE client only its construction and "characteristic resolved"   *)
(* are kept, which it never takes back (GattAccess).                       *)
(***************************************************************************)
EXTENDS Naturals, Sequences

VARIABLES
  commands,    \* the payloads on their way to this daemon, oldest first
  switchMain,  \* control of the main thread
  ble,         \* the BLEClient is constructed
  resolved,    \* its characteristic is resolved
  held,        \* the payload in event(), called by the MQTT library's thread
  light,       \* the number the light received last
  object, online, connected, subscribed, listened  \* MQTTClient

mqttVars == <<object, online, connected, subscribed, listened>>
lightVars == <<switchMain, ble, resolved, held, light, mqttVars>>

Client == "alarmlightd"

\* This daemon sends nothing.
Mqtt == INSTANCE MQTTClient WITH
  Objects <- {Client}, Id <- [c \in {Client} |-> c], MaxOutbox <- [c \in {Client} |-> 0],
  outbox <- [c \in {Client} |-> <<>>], inflight <- [c \in {Client} |-> <<>>]

Payloads == {"0", "1"}
Nothing == "nothing"

\* Faulty: the character is taken for the number.
AtoiFirstByte(payload) == IF payload = "1" THEN 49 ELSE 48

\* Faulty: the light is switched the other way.
AtoiInverted(payload) == IF payload = "1" THEN 0 ELSE 1

\* atoi(), for the payloads that are sent.
Atoi(payload) == IF payload = "1" THEN 1 ELSE 0

AlarmTypeOK ==
  /\ switchMain \in {"mqtt", "ble", "subscribe", "register", "pause"}
  /\ {ble, resolved} \subseteq BOOLEAN
  /\ held \in Payloads \cup {Nothing}
  /\ light \in {0, 1}
  /\ commands \in Seq(Payloads)
  /\ object \in [{Client} -> {"none", "alive"}]
  /\ {online, subscribed, listened} \subseteq SUBSET {Client}
  /\ connected \in [{Client} -> BOOLEAN]

\* The broker, which holds the messages for this daemon, begins without any.
AlarmInit ==
  /\ switchMain = "mqtt"
  /\ ble = FALSE /\ resolved = FALSE
  /\ held = Nothing /\ light = 0 /\ commands = <<>>
  /\ Mqtt!MqttInit

-----------------------------------------------------------------------------
(* The constructor.                                                        *)

\* Faulty: the switch is registered before it has a BLE client.
FollowingHasty(step) ==
  [mqtt |-> "subscribe", subscribe |-> "register", register |-> "ble",
   ble |-> "pause"][step]

Following(step) ==
  [mqtt |-> "ble", ble |-> "subscribe", subscribe |-> "register",
   register |-> "pause"][step]

Step(step) == switchMain = step /\ switchMain' = Following(step)

ConstructMqtt ==
  /\ Step("mqtt")
  /\ Mqtt!Construct(Client)
  /\ UNCHANGED <<commands, ble, resolved, held, light>>

ConstructBle ==
  /\ Step("ble")
  /\ ble' = TRUE
  /\ UNCHANGED <<commands, resolved, held, light, mqttVars>>

\* The result of subscribe() is not looked at.
Subscribe ==
  /\ Step("subscribe")
  /\ Mqtt!Subscribe(Client)
  /\ UNCHANGED <<commands, ble, resolved, held, light>>

\* Faulty: the switch only tells the BLE client about itself.
RegisterSwitchForgotten ==
  /\ Step("register")
  /\ UNCHANGED <<commands, ble, resolved, held, light, mqttVars>>

RegisterSwitch ==
  /\ Step("register")
  /\ Mqtt!RegisterEventReceiver(Client)
  /\ UNCHANGED <<commands, ble, resolved, held, light>>

\* main() sleeps once the switch is constructed.
SwitchMain ==
  ConstructMqtt \/ ConstructBle \/ Subscribe \/ RegisterSwitch

-----------------------------------------------------------------------------
(* The thread of the MQTT library: on_message(), which calls event().      *)

OnMessage ==
  /\ held = Nothing /\ commands # <<>>
  /\ Mqtt!Forwards(Client, Head(commands))
  /\ held' = Head(commands)
  /\ commands' = Tail(commands)
  /\ UNCHANGED <<switchMain, ble, resolved, light, mqttVars>>

\* There is no session or no subscription, or nobody listens yet.
DiscardMessage ==
  /\ commands # <<>>
  /\ ~Mqtt!Forwards(Client, Head(commands))
  /\ commands' = Tail(commands)
  /\ UNCHANGED lightVars

\* event(): write() gets through to the light ...
Write ==
  /\ held # Nothing /\ ble /\ resolved
  /\ light' = Atoi(held)
  /\ held' = Nothing
  /\ UNCHANGED <<commands, switchMain, ble, resolved, mqttVars>>

\* ... or the characteristic is not resolved, or write_value() throws.
LoseWrite ==
  /\ held # Nothing
  /\ held' = Nothing
  /\ UNCHANGED <<commands, switchMain, ble, resolved, light, mqttVars>>

Session(A) ==
  A /\ UNCHANGED <<commands, switchMain, ble, resolved, held, light>>

\* The BLE client resolves the light's characteristic.
Resolve ==
  /\ ble /\ ~resolved
  /\ resolved' = TRUE
  /\ UNCHANGED <<commands, switchMain, ble, held, light, mqttVars>>

AlarmNext ==
  \/ SwitchMain \/ OnMessage \/ DiscardMessage \/ Write \/ LoseWrite \/ Resolve
  \/ Session(Mqtt!OnConnect(Client)) \/ Session(Mqtt!LoseSession(Client))
  \/ Session(Mqtt!OnDisconnect(Client))

=============================================================================
