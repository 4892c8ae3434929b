---------------------------- MODULE BLEClientLive ----------------------------
(***************************************************************************)
(* BLEClient with a bounded number of setbacks: calls that throw, a beacon *)
(* or a service that is not found yet, and lost links.  What must happen   *)
(* in the end can be asked only of a run in which the radio works in the   *)
(* end.                                                                    *)
(*                                                                         *)
(* One failure is not the radio's.  A round asks to stop a scan whether    *)
(* there is one or not, and versions of BlueZ differ in whether they       *)
(* reject that.  Where they do, each such call throws: it is no setback,   *)
(* but what happens in every round.                                        *)
(***************************************************************************)
EXTENDS BLEClient

CONSTANTS
  MaxSetbacks,    \* bound on the setbacks of a behaviour
  IdleStopThrows  \* stop_discovery() throws if nothing is being scanned

ASSUME SetbacksAssumption == MaxSetbacks \in Nat /\ IdleStopThrows \in BOOLEAN

VARIABLE setbacks  \* how many there were

liveVars == <<vars, setbacks>>

LiveInit == Init /\ setbacks = 0

Steady(A) == A /\ UNCHANGED setbacks

Setback(c) ==
  /\ setbacks < MaxSetbacks
  /\ ConnectionSetback(c) \/ LinkLost(c)
  /\ setbacks' = setbacks + 1

\* The next call of c's connection thread is bound to throw.
StopThrows(c) ==
  IdleStopThrows /\ ~discovering /\ connection[c] = "stopDiscovery"

Round(c) ==
  IF StopThrows(c) THEN ConnectionSetback(c) ELSE ConnectionProgress(c)

LiveNext ==
  \/ \E c \in Clients :
       \/ Steady(Owner(c) \/ Round(c) \/ ReaderThread(c) \/ Caller(c))
       \/ Setback(c)
  \/ Steady(Terminated)

\* As in BLEClient; a thread is never stuck in front of a setback, since each
\* call that need not throw may also succeed.
LiveSpec ==
  /\ LiveInit /\ [][LiveNext]_liveVars
  /\ \A c \in Clients :
       /\ WF_liveVars(Steady(Round(c)))
       /\ WF_liveVars(Steady(ReaderThread(c)))
       /\ WF_liveVars(Steady(Teardown(c)))

-----------------------------------------------------------------------------
(* Properties.                                                             *)

\* "The bridge can automatically connect to a BLE device" (README.md:7): a client
\* whose connection thread was started resolves its characteristic in the end,
\* unless it is told to stop first.  As long as stop_discovery() may be called at
\* any time, neither a failure in the middle of a round nor another client that
\* stops the common scan while this one needs it makes the thread fail for good;
\* where it throws without a scan, each of the two does (BLEClient.cpp:66-189).
BecomesUsable ==
  \A c \in Clients :
    connectionRunning[c] ~> characteristic[c] \/ connectionTerminate[c]

\* A link that is lost, or a connection that failed, is set up again, unless the
\* client is told to stop, where stop_discovery() may be called at any time
\* (BLEClient.cpp:108-133).
Reconnects ==
  \A c \in Clients :
    device[c] /\ ~connected[c] ~> connected[c] \/ connectionTerminate[c]

=============================================================================
