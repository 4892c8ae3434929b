----------------------------- MODULE MCJoystickd -----------------------------
(* joystickd without a subscriber: messages stay on the wire.              *)
EXTENDS Joystickd

=============================================================================
