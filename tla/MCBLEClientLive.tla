--------------------------- MODULE MCBLEClientLive ---------------------------
(* Two writers that share an adapter, with a few setbacks.                 *)
EXTENDS BLEClientLive

CONSTANTS c1, c2

Two == {c1, c2}

=============================================================================
