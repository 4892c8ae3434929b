----------------------------- MODULE MCBLEClient -----------------------------
(* One reading BLEClient object, alone on its adapter.                      *)
EXTENDS BLEClient

CONSTANT r   \* a client with the role READER

OneReader == {r}

=============================================================================
