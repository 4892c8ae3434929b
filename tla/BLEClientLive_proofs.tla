------------------------ MODULE BLEClientLive_proofs ------------------------
(* BLEClientLive only bounds the setbacks of BLEClient: what its liveness  *)
(* properties say is said of behaviours of BLEClient, for any number of    *)
(* clients and setbacks.                                                   *)
EXTENDS BLEClientLive, BLEClient_proofs

\* A setback is a step of the connection thread or of the radio.
LEMMA LiveStep == [LiveNext]_liveVars => [Next]_vars
<1> SUFFICES ASSUME [LiveNext]_liveVars PROVE [Next]_vars
  OBVIOUS
<1>1. ASSUME NEW c \in Clients,
             Steady(Owner(c) \/ Round(c) \/ ReaderThread(c) \/ Caller(c))
      PROVE  Next
  <2>1. Round(c) => ConnectionProgress(c) \/ ConnectionSetback(c)
    BY Zenon DEF Round
  <2> QED
    BY <1>1, <2>1, Zenon DEF Steady, Next, ConnectionThread
<1>2. ASSUME NEW c \in Clients, Setback(c) PROVE Next
  BY <1>2, Zenon DEF Setback, Next, ConnectionThread
<1>3. CASE Steady(Terminated)
  BY <1>3, Zenon DEF Steady, Next
<1>4. CASE UNCHANGED liveVars
  BY <1>4 DEF liveVars
<1> QED
  BY <1>1, <1>2, <1>3, <1>4, Zenon DEF LiveNext

\* Its behaviours are behaviours of BLEClient (BLEClient.cpp:53-190).
THEOREM LiveIsBLEClient == LiveSpec => Init /\ [][Next]_vars
BY LiveStep, PTL DEF LiveSpec, LiveInit

\* The invariant of BLEClient holds with a bounded number of setbacks
\* (BLEClient.cpp:43-51, 192-229, 310-348).
THEOREM LiveInvariance == LiveSpec => []Inv
<1>1. Init => Inv
  BY InitMemory, InitStop DEF Inv
<1> QED
  BY <1>1, NextInv, LiveIsBLEClient, PTL

\* No thread outlives its object, whichever setbacks its rounds have met
\* (BLEClient.cpp:47-51, 217-229, 338-348).
THEOREM LiveNeverAfterFree == LiveSpec => []NoUseAfterFree
<1>1. Inv => NoUseAfterFree
  BY DEF Inv, MemoryInv, TypeOK, LifetimeInv, NoUseAfterFree, ActiveStates,
         ConnectionStates, ReaderStates
<1> QED
  BY <1>1, LiveInvariance, PTL

=============================================================================
