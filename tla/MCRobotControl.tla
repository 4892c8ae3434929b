--------------------------- MODULE MCRobotControl ---------------------------
(* One joystick and one robot, which subscribes to all that steers it.     *)
EXTENDS RobotControl

SteeringTopics == Topics

=============================================================================
