------------------------------ MODULE MCSDS011 ------------------------------
(* A sensor that measures two things.                                      *)
EXTENDS SDS011

\* One payload whose sum exceeds a byte, one that looks like a head.
TwoPayloads == {<<255, 1, 2, 0, 3, 4>>, <<170, 192, 0, 0, 170, 1>>}

=============================================================================
