---------------------------- MODULE AlarmControl ----------------------------
(***************************************************************************)
(* The joystick's buttons switch the alarm light: joystickd publishes a    *)
(* message per button event, the broker passes it on, alarmlightd writes   *)
(* it to the light.  Unlike the steering state, no message is repeated.    *)
(***************************************************************************)
EXTENDS Joystickd

ASSUME AlarmAssumption == Subscription = Payloads

VARIABLES switchMain, ble, resolved, held, light,
          object, online, connected, subscribed, listened

A == INSTANCE Alarmlightd WITH commands <- wire

lightVars == <<switchMain, ble, resolved, held, light,
               object, online, connected, subscribed, listened>>
alarmVars == <<vars, lightVars>>

\* The variables of joystickd, which do not include the wire.
localVars ==
  <<mainVars, reader, event, state, userVars, pending, outbox, inflight, lamp>>

AlarmInit == Init /\ A!AlarmInit

AlarmNext == (Next /\ UNCHANGED lightVars) \/ (A!AlarmNext /\ UNCHANGED localVars)

Joystick(X) == X /\ UNCHANGED lightVars
Alarm(X)    == X /\ UNCHANGED localVars

\* The thread that is in on_message() and event().
Messages == A!OnMessage \/ A!DiscardMessage \/ A!Write \/ A!LoseWrite

\* The threads run; a write may fail any number of times, but if tried for ever,
\* not for ever.
AlarmSpec ==
  /\ AlarmInit /\ [][AlarmNext]_alarmVars
  /\ WF_alarmVars(Alarm(A!Resolve))
  /\ WF_alarmVars(Alarm(Messages)) /\ SF_alarmVars(Alarm(A!Write))

-----------------------------------------------------------------------------
(* Properties.                                                             *)

AlarmTypeOK == TypeOK /\ A!AlarmTypeOK

\* event() follows the pointer ble without a check: no message may reach it
\* before the constructor has set it, although the MQTT thread is at work from
\* the constructor's first statement on (BluetoothEnabledSwitch.cpp:20-53).
EventsFindBle == held # A!Nothing => ble

\* The messages on their way to the light: event() holds the first one.
OnTheWay == (IF held = A!Nothing THEN <<>> ELSE <<held>>) \o wire

Light == INSTANCE Mirror WITH
  Values <- Payloads,
  Shown  <- [c \in Payloads |-> IF c = "1" THEN 1 ELSE 0],
  Lossy  <- TRUE,
  source <- SwitchMessage(event.number),
  queue  <- outbox,
  kept   <- inflight,
  way    <- OnTheWay,
  shown  <- light

\* The light shows commands of buttons whose events joystickd has read, each of
\* them in its turn: any may be lost, but none is made up, and one comes after a
\* later one only in a new session of joystickd, in which the library goes once
\* more through all that is not acknowledged (Steering.cpp:13-24,
\* MQTTClient.cpp:98-119, MQTTClient.cpp:130-158, BluetoothEnabledSwitch.cpp:47-54).
LightMirrorsButtons == Light!Spec

\* A command that the library takes again and again, and is the last one it has
\* taken, is what the light shows in the end, if the broker keeps the subscription:
\* whatever is lost, and whatever earlier commands are sent again before
\* (Steering.cpp:13-24, BluetoothEnabledSwitch.cpp:41-53).
LightFollows ==
  \A c \in Payloads :
    /\ <>[](lamp = c /\ A!Client \in subscribed /\ switchMain = "pause")
    /\ []<><<outbox' = Append(outbox, c)>>_outbox
    => <>[](light = IF c = "1" THEN 1 ELSE 0)

=============================================================================
