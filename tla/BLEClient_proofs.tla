-------------------------- MODULE BLEClient_proofs --------------------------
(* Theorems about BLEClient, for any set of clients and any delay caps.    *)
EXTENDS BLEClient, TLAPS

USE DEF vars, ownerVars, flagVars, pointerVars, delayVars, radioVars, Goto, Set,
        OwnerStates, CallerStates, ConnectionStates, SearchStates, LinkStates,
        ReaderStates, AccessStates, ActiveStates, DestructorStates

-----------------------------------------------------------------------------
(* MemoryInv is inductive: one lemma per thread, one step per action.      *)

\* The back-off never leaves the range of the delays, capped or not.
LEMMA DoubledInRange ==
  ASSUME NEW cap \in Nat \ {0}, NEW delay \in 1..cap
  PROVE  Doubled(delay, cap) \in 1..cap
BY DEF Doubled

\* No object is constructed yet, so no thread runs and no pointer is set.
LEMMA InitMemory == Init => MemoryInv
<1> SUFFICES ASSUME Init PROVE MemoryInv
  OBVIOUS
<1>1. TypeOK
  BY DelaysAssumption DEF Init, TypeOK
<1>2. LifetimeInv
  BY DEF Init, LifetimeInv
<1>3. PointerInv
  BY DEF Init, PointerInv
<1> QED
  BY <1>1, <1>2, <1>3 DEF MemoryInv

\* The connection thread clears pointers only when all of them are NULL.
LEMMA ConnectionProgressMemory ==
  ASSUME MemoryInv, NEW c \in Clients, ConnectionProgress(c)
  PROVE  MemoryInv'
<1> USE DEF MemoryInv
<1>0. UNCHANGED <<ownerVars, reader, caller>>
  BY DEF ConnectionProgress
<1>1. CASE ConnectionLoop(c)
  <2>1. TypeOK'
    BY <1>0, <1>1 DEF ConnectionLoop, TypeOK
  <2>2. LifetimeInv'
    BY <1>0, <1>1 DEF ConnectionLoop, TypeOK, LifetimeInv
  <2>3. PointerInv'
    BY <1>0, <1>1 DEF ConnectionLoop, TypeOK, PointerInv
  <2> QED
    BY <2>1, <2>2, <2>3
<1>2. CASE Search(c)
  BY <1>0, <1>2 DEF Search, TypeOK, LifetimeInv, PointerInv
<1>3. CASE StartDiscovery(c)
  BY <1>0, <1>3 DEF StartDiscovery, TypeOK, LifetimeInv, PointerInv
<1>4. CASE FindDevice(c)
  <2>1. TypeOK'
    BY <1>0, <1>4 DEF FindDevice, TypeOK
  <2>2. LifetimeInv'
    BY <1>0, <1>4 DEF FindDevice, TypeOK, LifetimeInv
  <2>3. PointerInv'
    BY <1>0, <1>4 DEF FindDevice, TypeOK, PointerInv
  <2> QED
    BY <2>1, <2>2, <2>3
<1>5. CASE CheckLink(c)
  <2>1. TypeOK'
    BY <1>0, <1>5 DEF CheckLink, TypeOK
  <2>2. LifetimeInv'
    BY <1>0, <1>5 DEF CheckLink, TypeOK, LifetimeInv
  <2>3. PointerInv'
    BY <1>0, <1>5 DEF CheckLink, TypeOK, PointerInv
  <2> QED
    BY <2>1, <2>2, <2>3
<1>6. CASE StopDiscovery(c)
  <2>1. TypeOK'
    BY <1>0, <1>6 DEF StopDiscovery, TypeOK
  <2>2. LifetimeInv'
    BY <1>0, <1>6 DEF StopDiscovery, TypeOK, LifetimeInv
  <2>3. PointerInv'
    BY <1>0, <1>6 DEF StopDiscovery, TypeOK, PointerInv
  <2> QED
    BY <2>1, <2>2, <2>3
<1>7. CASE Disconnect(c)
  <2>1. TypeOK'
    BY <1>0, <1>7 DEF Disconnect, TypeOK
  <2>2. LifetimeInv'
    BY <1>0, <1>7 DEF Disconnect, TypeOK, LifetimeInv
  <2>3. PointerInv'
    BY <1>0, <1>7 DEF Disconnect, TypeOK, PointerInv
  <2> QED
    BY <2>1, <2>2, <2>3
<1>8. CASE Connect(c)
  <2>1. TypeOK'
    BY <1>0, <1>8 DEF Connect, TypeOK
  <2>2. LifetimeInv'
    BY <1>0, <1>8 DEF Connect, TypeOK, LifetimeInv
  <2>3. PointerInv'
    BY <1>0, <1>8 DEF Connect, TypeOK, PointerInv
  <2> QED
    BY <2>1, <2>2, <2>3
<1>9. CASE FindService(c)
  <2>1. TypeOK'
    BY <1>0, <1>9 DEF FindService, TypeOK
  <2>2. LifetimeInv'
    BY <1>0, <1>9 DEF FindService, TypeOK, LifetimeInv
  <2>3. PointerInv'
    BY <1>0, <1>9 DEF FindService, TypeOK, PointerInv
  <2> QED
    BY <2>1, <2>2, <2>3
<1>10. CASE FindCharacteristic(c)
  <2>1. TypeOK'
    BY <1>0, <1>10 DEF FindCharacteristic, TypeOK
  <2>2. LifetimeInv'
    BY <1>0, <1>10 DEF FindCharacteristic, TypeOK, LifetimeInv
  <2>3. PointerInv'
    BY <1>0, <1>10 DEF FindCharacteristic, TypeOK, PointerInv
  <2> QED
    BY <2>1, <2>2, <2>3
<1> QED
  BY <1>1, <1>2, <1>3, <1>4, <1>5, <1>6, <1>7, <1>8, <1>9, <1>10 DEF ConnectionProgress

\* A setback leads back to the start of a round, with every pointer kept.
LEMMA ConnectionSetbackMemory ==
  ASSUME MemoryInv, NEW c \in Clients, ConnectionSetback(c)
  PROVE  MemoryInv'
<1> USE DEF MemoryInv
<1>0. UNCHANGED <<ownerVars, reader, caller>>
  BY DEF ConnectionSetback
<1>1. CASE StartDiscoveryFails(c)
  BY <1>0, <1>1, DelaysAssumption, DoubledInRange DEF StartDiscoveryFails, TypeOK, LifetimeInv, PointerInv
<1>2. CASE MissDevice(c)
  BY <1>0, <1>2 DEF MissDevice, TypeOK, LifetimeInv, PointerInv
<1>3. CASE ConnectFails(c)
  <2>1. TypeOK'
    BY <1>0, <1>3, DelaysAssumption, DoubledInRange DEF ConnectFails, TypeOK
  <2>2. LifetimeInv'
    BY <1>0, <1>3, DelaysAssumption, DoubledInRange DEF ConnectFails, TypeOK, LifetimeInv
  <2>3. PointerInv'
    BY <1>0, <1>3, DelaysAssumption, DoubledInRange DEF ConnectFails, TypeOK, PointerInv
  <2> QED
    BY <2>1, <2>2, <2>3
<1>4. CASE MissService(c)
  BY <1>0, <1>4 DEF MissService, TypeOK, LifetimeInv, PointerInv
<1>5. CASE MissCharacteristic(c)
  BY <1>0, <1>5 DEF MissCharacteristic, TypeOK, LifetimeInv, PointerInv
<1> QED
  BY <1>1, <1>2, <1>3, <1>4, <1>5 DEF ConnectionSetback

\* The reader thread enters an access only through a resolved characteristic.
LEMMA ReaderThreadMemory ==
  ASSUME MemoryInv, NEW c \in Clients, ReaderThread(c)
  PROVE  MemoryInv'
<1> USE DEF MemoryInv
<1>0. UNCHANGED <<ownerVars, connection, pointerVars, delayVars, caller,
               radioVars>>
  BY DEF ReaderThread
<1>1. CASE ReaderLoop(c)
  BY <1>0, <1>1 DEF ReaderLoop, TypeOK, LifetimeInv, PointerInv
<1>2. CASE ReadValue(c)
  BY <1>0, <1>2 DEF ReadValue, TypeOK, LifetimeInv, PointerInv
<1>3. CASE CheckReceiver(c)
  BY <1>0, <1>3 DEF CheckReceiver, TypeOK, LifetimeInv, PointerInv
<1>4. CASE Deliver(c)
  BY <1>0, <1>4 DEF Deliver, TypeOK, LifetimeInv, PointerInv
<1> QED
  BY <1>1, <1>2, <1>3, <1>4 DEF ReaderThread

\* The destructor passes a join only when the thread has exited.
LEMMA TeardownMemory ==
  ASSUME MemoryInv, NEW c \in Clients, Teardown(c)
  PROVE  MemoryInv'
<1> USE DEF MemoryInv
<1>0. UNCHANGED <<pointerVars, delayVars, caller, radioVars>>
  BY DEF Teardown
<1>1. CASE JoinReader(c)
  BY <1>0, <1>1 DEF JoinReader, TypeOK, LifetimeInv, PointerInv
<1>2. CASE StopConnectionThread(c)
  <2>1. TypeOK'
    BY <1>0, <1>2 DEF StopConnectionThread, TypeOK
  <2>2. LifetimeInv'
    BY <1>0, <1>2 DEF StopConnectionThread, TypeOK, LifetimeInv
  <2>3. PointerInv'
    BY <1>0, <1>2 DEF StopConnectionThread, TypeOK, PointerInv
  <2> QED
    BY <2>1, <2>2, <2>3
<1>3. CASE JoinConnection(c)
  BY <1>0, <1>3 DEF JoinConnection, TypeOK, LifetimeInv, PointerInv
<1> QED
  BY <1>1, <1>2, <1>3 DEF Teardown

\* The owner starts a thread of an object at most once.
LEMMA OwnerMemory ==
  ASSUME MemoryInv, NEW c \in Clients, Owner(c)
  PROVE  MemoryInv'
<1> USE DEF MemoryInv
<1>1. CASE StartConnectionThread(c) /\ UNCHANGED <<pointerVars, delayVars, caller, radioVars>>
  <2>1. TypeOK'
    BY <1>1 DEF StartConnectionThread, TypeOK
  <2>2. LifetimeInv'
    BY <1>1 DEF StartConnectionThread, TypeOK, LifetimeInv
  <2>3. PointerInv'
    BY <1>1 DEF StartConnectionThread, TypeOK, PointerInv
  <2> QED
    BY <2>1, <2>2, <2>3
<1>2. CASE StartReaderThread(c) /\ UNCHANGED <<pointerVars, delayVars, caller, radioVars>>
  <2>1. TypeOK'
    BY <1>2 DEF StartReaderThread, TypeOK
  <2>2. LifetimeInv'
    BY <1>2 DEF StartReaderThread, TypeOK, LifetimeInv
  <2>3. PointerInv'
    BY <1>2 DEF StartReaderThread, TypeOK, PointerInv
  <2> QED
    BY <2>1, <2>2, <2>3
<1>3. CASE RegisterEventReceiver(c) /\ UNCHANGED <<pointerVars, delayVars, caller, radioVars>>
  BY <1>3 DEF RegisterEventReceiver, TypeOK, LifetimeInv, PointerInv
<1>4. CASE StopReaderThread(c) /\ UNCHANGED <<pointerVars, delayVars, caller, radioVars>>
  <2>1. TypeOK'
    BY <1>4 DEF StopReaderThread, TypeOK
  <2>2. LifetimeInv'
    BY <1>4 DEF StopReaderThread, TypeOK, LifetimeInv
  <2>3. PointerInv'
    BY <1>4 DEF StopReaderThread, TypeOK, PointerInv
  <2> QED
    BY <2>1, <2>2, <2>3
<1>5. CASE Teardown(c)
  BY <1>5, TeardownMemory
<1> QED
  BY <1>1, <1>2, <1>3, <1>4, <1>5 DEF Owner

\* A caller writes only after it has seen the characteristic.
LEMMA CallerMemory ==
  ASSUME MemoryInv, NEW c \in Clients, Caller(c)
  PROVE  MemoryInv'
<1> USE DEF MemoryInv
<1>0. UNCHANGED <<ownerVars, connection, pointerVars, delayVars, reader,
               radioVars>>
  BY DEF Caller
<1>1. CASE BeginWrite(c)
  BY <1>0, <1>1 DEF BeginWrite, TypeOK, LifetimeInv, PointerInv
<1>2. CASE Write(c)
  BY <1>0, <1>2 DEF Write, TypeOK, LifetimeInv, PointerInv
<1> QED
  BY <1>1, <1>2 DEF Caller

\* Every step of the specification keeps MemoryInv.
LEMMA NextMemory == MemoryInv /\ [Next]_vars => MemoryInv'
<1> SUFFICES ASSUME MemoryInv, [Next]_vars PROVE MemoryInv'
  OBVIOUS
<1>1. ASSUME NEW c \in Clients, Owner(c) PROVE MemoryInv'
  BY <1>1, OwnerMemory
<1>2. ASSUME NEW c \in Clients, ConnectionThread(c) PROVE MemoryInv'
  BY <1>2, ConnectionProgressMemory, ConnectionSetbackMemory DEF ConnectionThread
<1>3. ASSUME NEW c \in Clients, ReaderThread(c) PROVE MemoryInv'
  BY <1>3, ReaderThreadMemory
<1>4. ASSUME NEW c \in Clients, Caller(c) PROVE MemoryInv'
  BY <1>4, CallerMemory
<1>5. ASSUME NEW c \in Clients, LinkLost(c) PROVE MemoryInv'
  BY <1>5 DEF LinkLost, MemoryInv, TypeOK, LifetimeInv, PointerInv
<1>6. CASE UNCHANGED vars
  BY <1>6 DEF MemoryInv, TypeOK, LifetimeInv, PointerInv
<1> QED
  BY <1>1, <1>2, <1>3, <1>4, <1>5, <1>6 DEF Next, Terminated

-----------------------------------------------------------------------------
(* StopInv is inductive once MemoryInv gives the members their types.       *)

\* Nothing is started and no destructor has begun.
LEMMA InitStop == Init => StopInv
<1> SUFFICES ASSUME Init, NEW c \in Clients
             PROVE  /\ owner[c] = "unborn" /\ connection[c] = "none" /\ reader[c] = "none"
                    /\ ~connectionRunning[c] /\ ~connectionTerminate[c]
                    /\ ~readerRunning[c] /\ ~readerTerminate[c]
  BY Zenon DEF StopInv
<1> QED
  BY DEF Init

\* The owner sets a running flag with the thread it starts, and a termination
\* flag with the step to the join.
LEMMA OwnerStop ==
  ASSUME TypeOK, StopInv, NEW c \in Clients, Owner(c)
  PROVE  StopInv'
<1> USE DEF TypeOK, StopInv
<1>1. CASE StartConnectionThread(c)
  BY <1>1 DEF StartConnectionThread
<1>2. CASE StartReaderThread(c)
  BY <1>2 DEF StartReaderThread
<1>3. CASE RegisterEventReceiver(c)
  BY <1>3 DEF RegisterEventReceiver
<1>4. CASE StopReaderThread(c)
  BY <1>4 DEF StopReaderThread
<1>5. CASE JoinReader(c)
  BY <1>5 DEF JoinReader
<1>6. CASE StopConnectionThread(c)
  BY <1>6 DEF StopConnectionThread
<1>7. CASE JoinConnection(c)
  BY <1>7 DEF JoinConnection
<1> QED
  BY <1>1, <1>2, <1>3, <1>4, <1>5, <1>6, <1>7 DEF Owner, Teardown

\* A connection thread that runs was started, and stays so.
LEMMA ConnectionKeeps ==
  ASSUME TypeOK, NEW c \in Clients, ConnectionThread(c)
  PROVE  /\ UNCHANGED <<ownerVars, reader>>
         /\ connection[c] # "none"
         /\ \E pc \in ConnectionStates \ {"none"} :
              connection' = [connection EXCEPT ![c] = pc]
<1>1. CASE ConnectionProgress(c)
  BY <1>1 DEF TypeOK, ConnectionProgress, ConnectionLoop, Search,
     StartDiscovery, FindDevice, CheckLink, StopDiscovery, Disconnect, Connect,
     FindService, FindCharacteristic
<1>2. CASE ConnectionSetback(c)
  BY <1>2 DEF TypeOK, ConnectionSetback, StartDiscoveryFails, MissDevice,
     ConnectFails, MissService, MissCharacteristic
<1> QED
  BY <1>1, <1>2 DEF ConnectionThread

LEMMA ConnectionStop ==
  ASSUME TypeOK, StopInv, NEW c \in Clients, ConnectionThread(c)
  PROVE  StopInv'
BY ConnectionKeeps DEF TypeOK, StopInv

\* The same holds for a reader thread.
LEMMA ReaderStop ==
  ASSUME TypeOK, StopInv, NEW c \in Clients, ReaderThread(c)
  PROVE  StopInv'
<1>1. /\ UNCHANGED <<ownerVars, connection>>
      /\ reader[c] # "none"
      /\ \E pc \in ReaderStates \ {"none"} :
           reader' = [reader EXCEPT ![c] = pc]
  BY DEF TypeOK, ReaderThread, ReaderLoop, ReadValue, CheckReceiver, Deliver
<1> QED
  BY <1>1 DEF TypeOK, StopInv

\* Every step of the specification keeps StopInv.
LEMMA NextStop == TypeOK /\ StopInv /\ [Next]_vars => StopInv'
<1> SUFFICES ASSUME TypeOK, StopInv, [Next]_vars PROVE StopInv'
  OBVIOUS
<1>1. ASSUME NEW c \in Clients, Owner(c) PROVE StopInv'
  BY <1>1, OwnerStop
<1>2. ASSUME NEW c \in Clients, ConnectionThread(c) PROVE StopInv'
  BY <1>2, ConnectionStop
<1>3. ASSUME NEW c \in Clients, ReaderThread(c) PROVE StopInv'
  BY <1>3, ReaderStop
<1>4. CASE UNCHANGED <<ownerVars, connection, reader>>
  BY <1>4 DEF StopInv
<1> QED
  BY <1>1, <1>2, <1>3, <1>4 DEF Next, Terminated, Caller, LinkLost

\* Both together are the inductive invariant.
LEMMA NextInv == Inv /\ [Next]_vars => Inv'
<1>1. MemoryInv => TypeOK
  BY DEF MemoryInv
<1> QED
  BY <1>1, NextMemory, NextStop DEF Inv

-----------------------------------------------------------------------------
(* The theorems.                                                           *)

\* The inductive invariant holds in every reachable state.
THEOREM Invariance == Spec => []Inv
<1>1. Init => Inv
  BY InitMemory, InitStop DEF Inv
<1> QED
  BY <1>1, NextInv, PTL DEF Spec

\* Every member keeps its type; in particular the delays stay within their caps.
THEOREM TypeCorrect == Spec => []TypeOK
<1>1. Inv => TypeOK
  BY DEF Inv, MemoryInv
<1> QED
  BY Invariance, <1>1, PTL

\* No thread follows a NULL pointer (BLEClient.cpp:110-186, 234-242, 270-299).
THEOREM NeverNull == Spec => []NoNullDereference
<1>1. Inv => NoNullDereference
  BY DEF Inv, MemoryInv, PointerInv, NoNullDereference
<1> QED
  BY Invariance, <1>1, PTL

\* No thread of an object outlives it (BLEClient.cpp:47-51, 217-229, 338-348).
THEOREM NeverAfterFree == Spec => []NoUseAfterFree
<1>1. Inv => NoUseAfterFree
  BY DEF Inv, MemoryInv, TypeOK, LifetimeInv, NoUseAfterFree
<1> QED
  BY Invariance, <1>1, PTL

-----------------------------------------------------------------------------
(* The destructor and the threads it stops.                                *)

\* The destructor joins only a thread that was started and told to stop
\* (BLEClient.cpp:47-51, 192-229, 310-348).
THEOREM JoinsOnlyStarted == Spec => []JoinsStartedThread
<1>1. Inv => JoinsStartedThread
  BY DEF Inv, StopInv, JoinsStartedThread
<1> QED
  BY Invariance, <1>1, PTL

\* A flag that is set stays set, and its thread is not started again: the owner
\* starts a thread before its destructor sets a flag.
LEMMA OwnerKeepsFlags ==
  ASSUME Inv, NEW c \in Clients, Owner(c), NEW d \in Clients
  PROVE  /\ connectionTerminate[d] =>
              connectionTerminate'[d] /\ connection'[d] = connection[d]
         /\ readerTerminate[d] => readerTerminate'[d] /\ reader'[d] = reader[d]
<1> USE DEF Inv, MemoryInv, TypeOK, StopInv
<1>1. CASE StartConnectionThread(c)
  BY <1>1 DEF StartConnectionThread
<1>2. CASE StartReaderThread(c)
  BY <1>2 DEF StartReaderThread
<1>3. CASE RegisterEventReceiver(c)
  BY <1>3 DEF RegisterEventReceiver
<1>4. CASE StopReaderThread(c)
  BY <1>4 DEF StopReaderThread
<1>5. CASE JoinReader(c)
  BY <1>5 DEF JoinReader
<1>6. CASE StopConnectionThread(c)
  BY <1>6 DEF StopConnectionThread
<1>7. CASE JoinConnection(c)
  BY <1>7 DEF JoinConnection
<1> QED
  BY <1>1, <1>2, <1>3, <1>4, <1>5, <1>6, <1>7 DEF Owner, Teardown

\* A connection thread that is told to stop gets closer to the end of its loop
\* with each call, whether the call succeeds or not.
LEMMA ConnectionApproachesEnd ==
  ASSUME TypeOK, NEW c \in Clients, ConnectionThread(c), connectionTerminate[c]
  PROVE  ConnectionStepsLeft[connection'[c]] < ConnectionStepsLeft[connection[c]]
<1>1. CASE ConnectionProgress(c)
  BY <1>1 DEF TypeOK, ConnectionStepsLeft, ConnectionProgress, ConnectionLoop,
     Search, StartDiscovery, FindDevice, CheckLink, StopDiscovery, Disconnect,
     Connect, FindService, FindCharacteristic
<1>2. CASE ConnectionSetback(c)
  BY <1>2 DEF TypeOK, ConnectionStepsLeft, ConnectionSetback,
     StartDiscoveryFails, MissDevice, ConnectFails, MissService,
     MissCharacteristic
<1> QED
  BY <1>1, <1>2 DEF ConnectionThread

\* So does a reader thread.
LEMMA ReaderApproachesEnd ==
  ASSUME TypeOK, NEW c \in Clients, ReaderThread(c), readerTerminate[c]
  PROVE  ReaderStepsLeft[reader'[c]] < ReaderStepsLeft[reader[c]]
BY DEF TypeOK, ReaderStepsLeft, ReaderThread, ReaderLoop, ReadValue,
   CheckReceiver, Deliver

\* A thread that is told to stop leaves its loop within the round it is in
\* (BLEClient.cpp:64-189, 225-229, 268-303, 345-347).
THEOREM StopsInTime == Spec => StopsWithinRound
<1>1. ASSUME Inv, [Next]_vars, NEW d \in Clients PROVE Approaches(d)
  <2>1. TypeOK
    BY <1>1 DEF Inv, MemoryInv
  <2>2. ASSUME NEW c \in Clients, Owner(c) PROVE Approaches(d)
    BY <1>1, <2>2, OwnerKeepsFlags DEF Approaches
  <2>3. ASSUME NEW c \in Clients, ConnectionThread(c) PROVE Approaches(d)
    <3>1. UNCHANGED <<connectionTerminate, readerTerminate, reader>>
      BY <2>1, <2>3, ConnectionKeeps
    <3>2. CASE d = c
      BY <2>1, <2>3, <3>1, <3>2, ConnectionApproachesEnd
         DEF Approaches
    <3>3. CASE d # c
      <4>1. connection'[d] = connection[d]
        BY <2>1, <2>3, <3>3, ConnectionKeeps DEF TypeOK
      <4> QED
        BY <3>1, <4>1 DEF Approaches
    <3> QED
      BY <3>2, <3>3
  <2>4. ASSUME NEW c \in Clients, ReaderThread(c) PROVE Approaches(d)
    <3>1. UNCHANGED <<connectionTerminate, readerTerminate, connection>>
      BY <2>4 DEF ReaderThread
    <3>2. CASE d = c
      BY <2>1, <2>4, <3>1, <3>2, ReaderApproachesEnd DEF Approaches
    <3>3. CASE d # c
      <4>1. reader'[d] = reader[d]
        BY <2>1, <2>4, <3>3
           DEF TypeOK, ReaderThread, ReaderLoop, ReadValue, CheckReceiver,
               Deliver
      <4> QED
        BY <3>1, <4>1 DEF Approaches
    <3> QED
      BY <3>2, <3>3
  <2>5. CASE UNCHANGED <<connectionTerminate, readerTerminate, connection,
                          reader>>
    BY <2>5 DEF Approaches
  <2> QED
    BY <1>1, <2>2, <2>3, <2>4, <2>5 DEF Next, Terminated, Caller, LinkLost
<1>2. Inv /\ [Next]_vars => [\A c \in Clients : Approaches(c)]_vars
  BY <1>1
<1> QED
  BY <1>2, Invariance, PTL DEF Spec, StopsWithinRound

-----------------------------------------------------------------------------
(* BLEClient implements GattAccess.                                        *)

\* The owner's steps create and destroy the object; no access is under way when
\* they destroy it, since Inv places accesses before the joins.
LEMMA OwnerRefines ==
  ASSUME Inv, NEW c \in Clients, Owner(c)
  PROVE  Gatt!Next \/ UNCHANGED Gatt!vars
<1> USE DEF Inv, MemoryInv, TypeOK, Life
<1>0. UNCHANGED <<pointerVars, delayVars, caller, radioVars>>
  BY DEF Owner, Teardown
<1>1. CASE StartConnectionThread(c)
  <2>1. Gatt!Create(c)
    <3>1. /\ owner[c] = "unborn" /\ reader' = reader
          /\ \E o \in {"constructing", "idle"} : owner' = [owner EXCEPT ![c] = o]
      BY <1>1 DEF StartConnectionThread, Goto
    <3>2. Life(c) = "unborn" /\ Life(c)' = "alive"
      BY <3>1
    <3>3. \A d \in Clients : d # c => Life(d)' = Life(d)
      BY <3>1
    <3> HIDE DEF Life
    <3>4. [d \in Clients |-> Life(d)]' = [[d \in Clients |-> Life(d)] EXCEPT ![c] = "alive"]
      BY <3>2, <3>3
    <3>5. UNCHANGED <<characteristic, {d \in Clients : reader[d] \in AccessStates}>>
      BY <1>0, <3>1 DEF pointerVars
    <3> QED
      BY <3>2, <3>4, <3>5 DEF Gatt!Create
  <2> QED
    BY <2>1, Zenon DEF Gatt!Next
<1>2. CASE StartReaderThread(c)
  BY <1>0, <1>2 DEF StartReaderThread, LifetimeInv, Gatt!vars
<1>3. CASE RegisterEventReceiver(c)
  BY <1>0, <1>3 DEF RegisterEventReceiver, Gatt!vars
<1>4. CASE StopReaderThread(c)
  BY <1>0, <1>4 DEF StopReaderThread, Gatt!vars
<1>5. CASE JoinReader(c)
  BY <1>0, <1>5 DEF JoinReader, Gatt!vars
<1>6. CASE StopConnectionThread(c)
  <2>1. CASE connectionRunning[c]
    BY <1>0, <1>6, <2>1 DEF StopConnectionThread, Gatt!vars
  <2>2. CASE ~connectionRunning[c]
    <3>1. reader[c] \notin AccessStates
      BY <1>6 DEF StopConnectionThread, LifetimeInv
    <3>2. UNCHANGED <<characteristic, reader>>
      BY <1>0, <1>6 DEF StopConnectionThread
    <3>3. owner[c] = "stopConnection"
           /\ owner' = [owner EXCEPT ![c] = "destroyed"]
      BY <1>6, <2>2 DEF StopConnectionThread
    <3>4. Gatt!Destroy(c)
      BY <3>1, <3>2, <3>3 DEF Gatt!Destroy
    <3> QED
      BY <3>4 DEF Gatt!Next
  <2> QED
    BY <2>1, <2>2
<1>7. CASE JoinConnection(c)
  <2>1. Gatt!Destroy(c)
    BY <1>0, <1>7 DEF JoinConnection, LifetimeInv, Gatt!Destroy
  <2> QED
    BY <2>1 DEF Gatt!Next
<1> QED
  BY <1>1, <1>2, <1>3, <1>4, <1>5, <1>6, <1>7 DEF Owner, Teardown

\* The connection thread resolves the characteristic at most once: at the start
\* of a search it is still NULL, since Inv makes it imply the device.
LEMMA ConnectionRefines ==
  ASSUME Inv, NEW c \in Clients, ConnectionThread(c)
  PROVE  Gatt!Next \/ UNCHANGED Gatt!vars
<1> USE DEF Inv, MemoryInv, TypeOK, Life
<1>0. UNCHANGED <<owner, reader>>
  BY DEF ConnectionThread, ConnectionProgress, ConnectionSetback
<1>1. CASE FindCharacteristic(c)
  <2>1. CASE characteristic[c]
    BY <1>0, <1>1, <2>1 DEF FindCharacteristic, Gatt!vars
  <2>2. CASE ~characteristic[c]
    <3>1. Gatt!Resolve(c)
      BY <1>0, <1>1, <2>2 DEF FindCharacteristic, LifetimeInv, Gatt!Resolve
    <3> QED
      BY <3>1 DEF Gatt!Next
  <2> QED
    BY <2>1, <2>2
<1>2. CASE ~FindCharacteristic(c)
  <2>1. CASE ConnectionLoop(c)
    <3>1. characteristic' = characteristic
      <4>1. CASE UNCHANGED pointerVars
        BY <4>1
      <4>2. CASE ~device[c] /\ Set(characteristic, c, FALSE)
        <5>1. characteristic[c] = FALSE
          BY <4>2 DEF PointerInv
        <5> QED
          BY <4>2, <5>1
      <4> QED
        BY <2>1, <4>1, <4>2 DEF ConnectionLoop
    <3> QED
      BY <1>0, <3>1 DEF Gatt!vars
  <2>2. CASE ~ConnectionLoop(c)
    <3>1. characteristic' = characteristic
      BY <1>2, <2>2 DEF ConnectionThread, ConnectionProgress,
           ConnectionSetback, Search, StartDiscovery, StartDiscoveryFails,
           FindDevice, MissDevice, CheckLink, StopDiscovery, Disconnect,
           Connect, ConnectFails, FindService, MissService, MissCharacteristic
    <3> QED
      BY <1>0, <3>1 DEF Gatt!vars
  <2> QED
    BY <2>1, <2>2
<1> QED
  BY <1>1, <1>2

\* A reader that returns from an access to the start of its round ends it.
LEMMA EndOfRound ==
  ASSUME TypeOK, NEW c \in Clients, reader[c] \in AccessStates,
         Set(reader, c, "top"), UNCHANGED <<owner, characteristic>>
  PROVE  Gatt!Next
<1>1. Gatt!EndAccess(c)
  <2>1. \A x \in Clients : reader'[x] = IF x = c THEN "top" ELSE reader[x]
    BY DEF TypeOK
  <2>2. {x \in Clients : reader[x] \in AccessStates}' =
          {x \in Clients : reader[x] \in AccessStates} \ {c}
    BY <2>1
  <2>3. [x \in Clients |-> Life(x)]' = [x \in Clients |-> Life(x)]
    BY DEF Life
  <2> QED
    BY <2>2, <2>3 DEF Gatt!EndAccess
<1> QED
  BY <1>1 DEF Gatt!Next

\* The reader's round is one access.
LEMMA ReaderRefines ==
  ASSUME Inv, NEW c \in Clients, ReaderThread(c)
  PROVE  Gatt!Next \/ UNCHANGED Gatt!vars
<1> USE DEF Inv, MemoryInv, TypeOK, Life
<1>0. UNCHANGED <<owner, characteristic>>
  BY DEF ReaderThread
<1>1. CASE ReaderLoop(c)
  <2>1. CASE reader'[c] = "read"
    <3>1. Gatt!BeginAccess(c)
      BY <1>0, <1>1, <2>1 DEF ReaderLoop, LifetimeInv, Gatt!BeginAccess
    <3> QED
      BY <3>1 DEF Gatt!Next
  <2>2. CASE reader'[c] # "read"
    BY <1>0, <1>1, <2>2 DEF ReaderLoop, Gatt!vars
  <2> QED
    BY <2>1, <2>2
<1>2. CASE ReadValue(c)
  BY <1>0, <1>2 DEF ReadValue, Gatt!vars
<1>3. CASE CheckReceiver(c)
  <2>1. CASE eventReceiver[c]
    BY <1>0, <1>3, <2>1 DEF CheckReceiver, Gatt!vars
  <2>2. CASE ~eventReceiver[c]
    BY <1>0, <1>3, <2>2, EndOfRound DEF CheckReceiver
  <2> QED
    BY <2>1, <2>2
<1>4. CASE Deliver(c)
  BY <1>0, <1>4, EndOfRound DEF Deliver
<1> QED
  BY <1>1, <1>2, <1>3, <1>4 DEF ReaderThread

\* What the threads do to an object is what GattAccess allows
\* (BLEClient.cpp:47-51, 66-69, 170-186, 270-299).
THEOREM Refinement == Spec => ImplementsGattAccess
<1>1. Init => Gatt!Init
  <2> SUFFICES ASSUME Init PROVE Gatt!Init
    OBVIOUS
  <2>1. [c \in Clients |-> Life(c)] = [c \in Clients |-> "unborn"]
    BY DEF Init, Life
  <2>2. {c \in Clients : reader[c] \in AccessStates} = {}
    BY DEF Init
  <2>3. characteristic = [c \in Clients |-> FALSE]
    BY DEF Init
  <2> QED
    BY <2>1, <2>2, <2>3 DEF Gatt!Init
<1>2. Inv /\ [Next]_vars => [Gatt!Next]_Gatt!vars
  <2> SUFFICES ASSUME Inv, [Next]_vars
               PROVE  Gatt!Next \/ UNCHANGED Gatt!vars
    OBVIOUS
  <2>1. CASE UNCHANGED <<owner, reader, characteristic>>
    BY <2>1 DEF Gatt!vars, Life
  <2>2. CASE ~UNCHANGED <<owner, reader, characteristic>>
    <3>1. PICK c \in Clients :
            Owner(c) \/ ConnectionThread(c) \/ ReaderThread(c)
      BY <2>2 DEF Next, Terminated, Caller, LinkLost
    <3> QED
      BY <3>1, OwnerRefines, ConnectionRefines, ReaderRefines
  <2> QED
    BY <2>1, <2>2
<1> QED
  BY <1>1, <1>2, Invariance, PTL
     DEF Spec, Gatt!Spec, ImplementsGattAccess

=============================================================================
