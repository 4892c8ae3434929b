--------------------------- MODULE MCAlarmControl ---------------------------
(* Two buttons, no axis, and a light that subscribes to both messages.     *)
EXTENDS AlarmControl

SwitchPayloads == Payloads

=============================================================================
