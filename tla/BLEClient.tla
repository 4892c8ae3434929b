------------------------------ MODULE BLEClient ------------------------------
(***************************************************************************)
(* The BLE endpoint (libendpoints/BLEClient): every BLEClient object owns  *)
(* a connection thread, which discovers its beacon, connects to it and     *)
(* resolves one GATT characteristic, and, in the role READER, a reader     *)
(* thread, which polls that characteristic and hands each value to an      *)
(* EventReceiver.  The object's owner constructs and destroys it, a third  *)
(* thread may call write(), and all objects of a process share one         *)
(* BluetoothManager.  There is no lock anywhere: the threads communicate   *)
(* through plain members, so each step below reads or writes at most one   *)
(* shared member that another thread writes.                               *)
(*                                                                         *)
(* Sleeping is not a state: a thread that sleeps at the end of a round is  *)
(* a thread at "top" that has not been scheduled yet.  A pointer is        *)
(* modelled by whether it is non-NULL.  tinyb calls inside a try block may *)
(* throw; calls outside of any try block are taken not to.                 *)
(***************************************************************************)
EXTENDS Naturals

CONSTANTS
  Clients,            \* the BLEClient objects of one process
  Readers,            \* those constructed with the role READER
  MaxDiscoveryDelay,  \* cap of discovery_delay in seconds (512 in the code)
  MaxConnectionDelay  \* cap of connection_delay in seconds (1024 in the code)

ASSUME RolesAssumption == Readers \subseteq Clients

ASSUME DelaysAssumption ==
  /\ MaxDiscoveryDelay \in Nat \ {0}
  /\ MaxConnectionDelay \in Nat \ {0}

VARIABLES
  owner,                \* control of the thread that owns the object
  connection,           \* control of the connection thread
  reader,               \* control of the reader thread
  caller,               \* control of the thread that calls write()
  device,               \* device # NULL
  service,              \* service # NULL
  characteristic,       \* characteristic # NULL
  connectionRunning,    \* connection_thread_running
  connectionTerminate,  \* terminate_connection_thread
  readerRunning,        \* reader_thread_running
  readerTerminate,      \* terminate_reader_thread
  discoveryDelay,       \* discovery_delay
  connectionDelay,      \* connection_delay
  eventReceiver,        \* eventReceiver # NULL
  discovering,          \* the adapter is scanning (shared by all clients)
  connected             \* the link to the client's beacon is up

\* What the owner writes, what the connection thread writes, what the radio is.
flagVars    == <<connectionRunning, connectionTerminate,
                 readerRunning, readerTerminate>>
ownerVars   == <<owner, flagVars, eventReceiver>>
pointerVars == <<device, service, characteristic>>
delayVars   == <<discoveryDelay, connectionDelay>>
radioVars   == <<discovering, connected>>
vars == <<ownerVars, connection, pointerVars, delayVars, reader, caller,
          radioVars>>

-----------------------------------------------------------------------------
(* The values of the program counters.                                     *)

\* The owner inside the constructor, outside of any method, in the destructor.
OwnerStates == {"unborn", "constructing", "idle", "joinReader",
                "stopConnection", "joinConnection", "destroyed"}
DestructorStates == {"joinReader", "stopConnection", "joinConnection",
                     "destroyed"}

\* The connection thread before it looks for the device, and with a device.
SearchStates == {"search", "start", "known"}
LinkStates   == {"link", "stopDiscovery", "disconnect", "connect",
                 "service", "characteristic"}
ConnectionStates == {"none", "top", "exited"} \cup SearchStates \cup LinkStates

\* The reader thread between the NULL check and the end of the delivery.
AccessStates == {"read", "notify", "deliver"}
ReaderStates == {"none", "top", "exited"} \cup AccessStates

CallerStates == {"idle", "write"}

TypeOK ==
  /\ owner \in [Clients -> OwnerStates]
  /\ connection \in [Clients -> ConnectionStates]
  /\ reader \in [Clients -> ReaderStates]
  /\ caller \in [Clients -> CallerStates]
  /\ device \in [Clients -> BOOLEAN]
  /\ service \in [Clients -> BOOLEAN]
  /\ characteristic \in [Clients -> BOOLEAN]
  /\ connectionRunning \in [Clients -> BOOLEAN]
  /\ connectionTerminate \in [Clients -> BOOLEAN]
  /\ readerRunning \in [Clients -> BOOLEAN]
  /\ readerTerminate \in [Clients -> BOOLEAN]
  /\ eventReceiver \in [Clients -> BOOLEAN]
  /\ connected \in [Clients -> BOOLEAN]
  /\ discoveryDelay \in [Clients -> 1..MaxDiscoveryDelay]
  /\ connectionDelay \in [Clients -> 1..MaxConnectionDelay]
  /\ discovering \in BOOLEAN

\* The adapter may be scanning for another process, and a link may have
\* outlived the daemon that opened it.
Init ==
  /\ owner = [c \in Clients |-> "unborn"]
  /\ connection = [c \in Clients |-> "none"] /\ reader = connection
  /\ caller = [c \in Clients |-> "idle"]
  /\ device = [c \in Clients |-> FALSE]
  /\ service = device /\ characteristic = device /\ eventReceiver = device
  /\ connectionRunning = device /\ connectionTerminate = device
  /\ readerRunning = device /\ readerTerminate = device
  /\ discoveryDelay = [c \in Clients |-> 1] /\ connectionDelay = discoveryDelay
  /\ discovering \in BOOLEAN
  /\ connected \in [Clients -> BOOLEAN]

\* Thread c of the kind pc goes on from one control point to another.
Goto(pc, c, from, to) == pc[c] = from /\ pc' = [pc EXCEPT ![c] = to]

\* Member m of object c is assigned v.
Set(m, c, v) == m' = [m EXCEPT ![c] = v]

-----------------------------------------------------------------------------
(* The connection thread.  ConnectionThread adds what all its steps leave  *)
(* alone.                                                                  *)

\* The back-off of a failed call: twice the delay, up to a cap.
DoubledUncapped(delay, cap) == 2 * delay    \* faulty: the cap is forgotten

Doubled(delay, cap) == IF 2 * delay > cap THEN cap ELSE 2 * delay

\* Faulty: every round starts from scratch, with a device or without.
ConnectionLoopClearing(c) ==
  /\ Goto(connection, c, "top", IF connectionTerminate[c] THEN "exited"
                                ELSE IF device[c] THEN "link" ELSE "search")
  /\ Set(service, c, FALSE) /\ Set(characteristic, c, FALSE)
  /\ UNCHANGED <<device, delayVars, radioVars>>

\* A round starts: the termination flag is read, then the device.
ConnectionLoop(c) ==
  /\ \/ /\ connectionTerminate[c] \/ device[c]
        /\ Goto(connection, c, "top",
                IF connectionTerminate[c] THEN "exited" ELSE "link")
        /\ UNCHANGED pointerVars
     \/ /\ ~connectionTerminate[c] /\ ~device[c]
        /\ Goto(connection, c, "top", "search")
        /\ Set(service, c, FALSE) /\ Set(characteristic, c, FALSE)
        /\ UNCHANGED device
  /\ UNCHANGED <<delayVars, radioVars>>

\* Faulty: only the client that starts a scan looks at its results.
SearchAlone(c) ==
  /\ Goto(connection, c, "search", IF discovering THEN "top" ELSE "start")
  /\ UNCHANGED <<pointerVars, delayVars, radioVars>>

\* get_discovering(): start a scan, or use the one that is under way, whoever
\* started it.
Search(c) ==
  /\ Goto(connection, c, "search", IF discovering THEN "known" ELSE "start")
  /\ UNCHANGED <<pointerVars, delayVars, radioVars>>

StartDiscovery(c) ==
  /\ Goto(connection, c, "start", "top")
  /\ discovering' = TRUE
  /\ UNCHANGED <<pointerVars, delayVars, connected>>

StartDiscoveryFails(c) ==
  /\ Goto(connection, c, "start", "top")
  /\ Set(discoveryDelay, c, Doubled(discoveryDelay[c], MaxDiscoveryDelay))
  /\ UNCHANGED <<pointerVars, connectionDelay, radioVars>>

\* get_devices(): the beacon is in the list, so the round goes on with it.
FindDevice(c) ==
  /\ Goto(connection, c, "known", "link")
  /\ Set(device, c, TRUE)
  /\ UNCHANGED <<service, characteristic, delayVars, radioVars>>

MissDevice(c) ==
  /\ Goto(connection, c, "known", "top")
  /\ UNCHANGED <<pointerVars, delayVars, radioVars>>

\* Faulty: a lost link makes the client search its beacon anew, and clears the
\* pointers the other threads use.
CheckLinkForgetting(c) ==
  /\ Goto(connection, c, "link", IF connected[c] THEN "service" ELSE "top")
  /\ \/ connected[c] /\ UNCHANGED pointerVars
     \/ /\ ~connected[c]
        /\ Set(device, c, FALSE) /\ Set(service, c, FALSE)
        /\ Set(characteristic, c, FALSE)
  /\ UNCHANGED <<delayVars, radioVars>>

\* Faulty: once it has its characteristic, a client trusts the link.
CheckLinkOnce(c) ==
  /\ Goto(connection, c, "link", IF connected[c] \/ characteristic[c]
                                 THEN "service" ELSE "stopDiscovery")
  /\ UNCHANGED <<pointerVars, delayVars, radioVars>>

\* get_connected()
CheckLink(c) ==
  /\ Goto(connection, c, "link",
          IF connected[c] THEN "service" ELSE "stopDiscovery")
  /\ UNCHANGED <<pointerVars, delayVars, radioVars>>

\* stop_discovery() ends the scan of every client.
StopDiscovery(c) ==
  /\ Goto(connection, c, "stopDiscovery", "disconnect")
  /\ discovering' = FALSE
  /\ UNCHANGED <<pointerVars, delayVars, connected>>

Disconnect(c) ==
  /\ Goto(connection, c, "disconnect", "connect")
  /\ Set(connected, c, FALSE)
  /\ UNCHANGED <<pointerVars, delayVars, discovering>>

Connect(c) ==
  /\ Goto(connection, c, "connect", "top")
  /\ Set(connected, c, TRUE)
  /\ UNCHANGED <<pointerVars, delayVars, discovering>>

\* Faulty: the three calls are repeated until they succeed.
ConnectFailsRetrying(c) ==
  /\ connection[c] \in {"stopDiscovery", "disconnect", "connect"}
  /\ Set(connection, c, "stopDiscovery")
  /\ Set(connectionDelay, c, Doubled(connectionDelay[c], MaxConnectionDelay))
  /\ UNCHANGED <<pointerVars, discoveryDelay, radioVars>>

\* Any of the three calls throws: back off.  The device is kept, so the client
\* does not scan again.
ConnectFails(c) ==
  /\ connection[c] \in {"stopDiscovery", "disconnect", "connect"}
  /\ Set(connection, c, "top")
  /\ Set(connectionDelay, c, Doubled(connectionDelay[c], MaxConnectionDelay))
  /\ UNCHANGED <<pointerVars, discoveryDelay, radioVars>>

FindService(c) ==
  /\ Goto(connection, c, "service", "characteristic")
  /\ Set(service, c, TRUE)
  /\ UNCHANGED <<device, characteristic, delayVars, radioVars>>

\* The services are not resolved yet, or the beacon does not have this one.
MissService(c) ==
  /\ ~service[c]
  /\ Goto(connection, c, "service", "top")
  /\ UNCHANGED <<pointerVars, delayVars, radioVars>>

FindCharacteristic(c) ==
  /\ Goto(connection, c, "characteristic", "top")
  /\ Set(characteristic, c, TRUE)
  /\ UNCHANGED <<device, service, delayVars, radioVars>>

MissCharacteristic(c) ==
  /\ ~characteristic[c]
  /\ Goto(connection, c, "characteristic", "top")
  /\ UNCHANGED <<pointerVars, delayVars, radioVars>>

\* The steps in which a call does what it is asked to, and those in which one
\* does not.
ConnectionProgress(c) ==
  /\ \/ ConnectionLoop(c) \/ Search(c) \/ StartDiscovery(c) \/ FindDevice(c)
     \/ CheckLink(c) \/ StopDiscovery(c) \/ Disconnect(c) \/ Connect(c)
     \/ FindService(c) \/ FindCharacteristic(c)
  /\ UNCHANGED <<ownerVars, reader, caller>>

ConnectionSetback(c) ==
  /\ \/ StartDiscoveryFails(c) \/ MissDevice(c) \/ ConnectFails(c)
     \/ MissService(c) \/ MissCharacteristic(c)
  /\ UNCHANGED <<ownerVars, reader, caller>>

ConnectionThread(c) == ConnectionProgress(c) \/ ConnectionSetback(c)

-----------------------------------------------------------------------------
(* The reader thread, which writes no shared member.                       *)

\* Faulty: the reader gives up if there is nothing to read yet.
ReaderLoopImpatient(c) ==
  Goto(reader, c, "top", IF ~readerTerminate[c] /\ characteristic[c]
                         THEN "read" ELSE "exited")

\* A round starts: the termination flag is read, then the characteristic.
ReaderLoop(c) ==
  Goto(reader, c, "top", IF readerTerminate[c] THEN "exited"
                         ELSE IF characteristic[c] THEN "read" ELSE "top")

\* read_value(): a value, or an exception that leaves the bytes empty; the
\* round goes on in both cases.
ReadValue(c) == Goto(reader, c, "read", "notify")

\* hasEventReceiver(): if nobody listens, the next round starts at once.
CheckReceiver(c) ==
  Goto(reader, c, "notify", IF eventReceiver[c] THEN "deliver" ELSE "top")

\* getEventReceiver()->event(&e)
Deliver(c) == Goto(reader, c, "deliver", "top")

ReaderThread(c) ==
  /\ ReaderLoop(c) \/ ReadValue(c) \/ CheckReceiver(c) \/ Deliver(c)
  /\ UNCHANGED <<ownerVars, connection, pointerVars, delayVars, caller,
                 radioVars>>

-----------------------------------------------------------------------------
(* The owner: constructor, registration of a receiver, destructor.         *)

\* Faulty: the object does not note that its thread runs.
StartConnectionThreadUnrecorded(c) ==
  /\ Goto(owner, c, "unborn", IF c \in Readers THEN "constructing" ELSE "idle")
  /\ Set(connectionTerminate, c, FALSE)
  /\ Set(connection, c, "top")
  /\ UNCHANGED <<connectionRunning, reader, readerRunning, readerTerminate,
                 eventReceiver>>

\* Faulty: the object notes that its thread runs whether it does or not.
StartConnectionThreadUnchecked(c) ==
  /\ Goto(owner, c, "unborn", IF c \in Readers THEN "constructing" ELSE "idle")
  /\ Set(connectionTerminate, c, FALSE)
  /\ Set(connectionRunning, c, TRUE)
  /\ Set(connection, c, "top") \/ UNCHANGED connection
  /\ UNCHANGED <<reader, readerRunning, readerTerminate, eventReceiver>>

\* The first half of the constructor; a failing pthread_create is only logged.
StartConnectionThread(c) ==
  /\ Goto(owner, c, "unborn", IF c \in Readers THEN "constructing" ELSE "idle")
  /\ Set(connectionTerminate, c, FALSE)
  /\ \/ Set(connection, c, "top") /\ Set(connectionRunning, c, TRUE)
     \/ UNCHANGED <<connection, connectionRunning>>
  /\ UNCHANGED <<reader, readerRunning, readerTerminate, eventReceiver>>

\* The second half, 100 ms later, for a READER.
StartReaderThread(c) ==
  /\ Goto(owner, c, "constructing", "idle")
  /\ Set(readerTerminate, c, FALSE)
  /\ \/ Set(reader, c, "top") /\ Set(readerRunning, c, TRUE)
     \/ UNCHANGED <<reader, readerRunning>>
  /\ UNCHANGED <<connection, connectionRunning, connectionTerminate,
                 eventReceiver>>

\* Only a reader generates events, and the daemons register with readers only.
RegisterEventReceiver(c) ==
  /\ c \in Readers
  /\ owner[c] = "idle"
  /\ Set(eventReceiver, c, TRUE)
  /\ UNCHANGED <<owner, flagVars, connection, reader>>

\* The destructor asks the reader thread to terminate, if one was started ...
StopReaderThread(c) ==
  /\ \/ /\ readerRunning[c]
        /\ Goto(owner, c, "idle", "joinReader")
        /\ Set(readerTerminate, c, TRUE)
     \/ /\ ~readerRunning[c]
        /\ Goto(owner, c, "idle", "stopConnection")
        /\ UNCHANGED readerTerminate
  /\ UNCHANGED <<connectionRunning, connectionTerminate, readerRunning,
                 eventReceiver, connection, reader>>

\* Faulty: the reader thread is told to stop, and not waited for.
DetachReader(c) ==
  /\ Goto(owner, c, "joinReader", "stopConnection")
  /\ UNCHANGED <<flagVars, eventReceiver, connection, reader>>

\* ... joins it, leaving reader_thread_running set, ...
JoinReader(c) ==
  /\ reader[c] = "exited"
  /\ Goto(owner, c, "joinReader", "stopConnection")
  /\ UNCHANGED <<flagVars, eventReceiver, connection, reader>>

\* Faulty: the termination flag is not set.
StopConnectionSilently(c) ==
  /\ Goto(owner, c, "stopConnection",
          IF connectionRunning[c] THEN "joinConnection" ELSE "destroyed")
  /\ UNCHANGED <<flagVars, eventReceiver, connection, reader>>

\* ... does the same with the connection thread ...
StopConnectionThread(c) ==
  /\ \/ /\ connectionRunning[c]
        /\ Goto(owner, c, "stopConnection", "joinConnection")
        /\ Set(connectionTerminate, c, TRUE)
     \/ /\ ~connectionRunning[c]
        /\ Goto(owner, c, "stopConnection", "destroyed")
        /\ UNCHANGED connectionTerminate
  /\ UNCHANGED <<connectionRunning, readerRunning, readerTerminate,
                 eventReceiver, connection, reader>>

\* ... and frees the object.
JoinConnection(c) ==
  /\ connection[c] = "exited"
  /\ Goto(owner, c, "joinConnection", "destroyed")
  /\ Set(connectionRunning, c, FALSE)
  /\ UNCHANGED <<connectionTerminate, readerRunning, readerTerminate,
                 eventReceiver, connection, reader>>

Teardown(c) ==
  /\ JoinReader(c) \/ StopConnectionThread(c) \/ JoinConnection(c)
  /\ UNCHANGED <<pointerVars, delayVars, caller, radioVars>>

Owner(c) ==
  \/ /\ \/ StartConnectionThread(c) \/ StartReaderThread(c)
        \/ RegisterEventReceiver(c) \/ StopReaderThread(c)
     /\ UNCHANGED <<pointerVars, delayVars, caller, radioVars>>
  \/ Teardown(c)

-----------------------------------------------------------------------------
(* A thread that calls write(), which does not look at the client's role,  *)
(* and the radio.                                                          *)

\* write() returns at once while the characteristic is not resolved.
BeginWrite(c) ==
  /\ owner[c] = "idle"
  /\ characteristic[c]
  /\ Goto(caller, c, "idle", "write")

\* write_value(), whose exceptions are swallowed
Write(c) == Goto(caller, c, "write", "idle")

Caller(c) ==
  /\ BeginWrite(c) \/ Write(c)
  /\ UNCHANGED <<ownerVars, connection, pointerVars, delayVars, reader,
                 radioVars>>

\* The beacon goes out of range or is switched off.
LinkLost(c) ==
  /\ connected[c]
  /\ Set(connected, c, FALSE)
  /\ UNCHANGED <<ownerVars, connection, pointerVars, delayVars, reader, caller,
                 discovering>>

\* Every object is gone: the process has nothing left to do.
Terminated ==
  /\ \A c \in Clients : owner[c] = "destroyed"
  /\ UNCHANGED vars

Next ==
  \/ \E c \in Clients :
       Owner(c) \/ ConnectionThread(c) \/ ReaderThread(c) \/ Caller(c)
         \/ LinkLost(c)
  \/ Terminated

\* The operating system runs every thread, and a tinyb call returns or throws;
\* nothing obliges an owner to destroy its object or a caller to write.
Fairness ==
  \A c \in Clients :
    /\ WF_vars(ConnectionThread(c))
    /\ WF_vars(ReaderThread(c))
    /\ WF_vars(Teardown(c))

Spec == Init /\ [][Next]_vars /\ Fairness

-----------------------------------------------------------------------------
(* Properties.                                                             *)

ActiveStates == ConnectionStates \ {"none", "exited"}

\* A thread that runs is one its object knows of, so that the destructor joins
\* it; the destructor is past a join only when the thread has exited.
LifetimeInv ==
  \A c \in Clients :
    /\ connection[c] \in ActiveStates =>
         /\ connectionRunning[c]
         /\ owner[c] \notin {"unborn", "destroyed"}
    /\ reader[c] \in {"top"} \cup AccessStates =>
         /\ readerRunning[c]
         /\ owner[c] \in {"idle", "joinReader"}

\* What a thread may rely on at each of its control points: the pointers it
\* checked some steps ago, without a lock, are still set.
PointerInv ==
  \A c \in Clients :
    /\ characteristic[c] => service[c]
    /\ service[c] => device[c]
    /\ connection[c] \in SearchStates => ~device[c]
    /\ connection[c] \in LinkStates => device[c]
    /\ connection[c] = "characteristic" => service[c]
    /\ reader[c] \in AccessStates => characteristic[c]
    /\ reader[c] = "deliver" => eventReceiver[c]
    /\ caller[c] = "write" => characteristic[c]

\* What the destructor's progress, the members it reads and the control of the
\* threads have to do with each other: a member says that a thread was started
\* only if it was, and a flag is set only by a destructor that has begun.
StopInv ==
  \A c \in Clients :
    /\ owner[c] = "unborn" => connection[c] = "none" /\ ~connectionRunning[c]
    /\ owner[c] \in {"unborn", "constructing"} =>
         reader[c] = "none" /\ ~readerRunning[c]
    /\ connectionRunning[c] => connection[c] # "none"
    /\ readerRunning[c] => reader[c] # "none"
    /\ connectionTerminate[c] => owner[c] \in {"joinConnection", "destroyed"}
    /\ readerTerminate[c] => owner[c] \in DestructorStates
    /\ owner[c] = "joinReader" => readerRunning[c] /\ readerTerminate[c]
    /\ owner[c] = "joinConnection" =>
         connectionRunning[c] /\ connectionTerminate[c]

\* The inductive invariant of the proofs.
MemoryInv == TypeOK /\ LifetimeInv /\ PointerInv
Inv == MemoryInv /\ StopInv

\* No thread follows a NULL pointer, although each checks and follows it in
\* two separate steps and the connection thread of the same object clears
\* service and characteristic at the start of a search
\* (BLEClient.cpp:68-69, 110-186, 234-242, 270-299).
NoNullDereference ==
  \A c \in Clients :
    /\ connection[c] \in LinkStates => device[c]
    /\ connection[c] = "characteristic" => service[c]
    /\ reader[c] = "read" => characteristic[c]
    /\ reader[c] = "deliver" => eventReceiver[c]
    /\ caller[c] = "write" => characteristic[c]

\* No thread of an object runs once the object is destroyed: the destructor
\* stops and joins the reader thread, then the connection thread, whatever
\* they are in the middle of (BLEClient.cpp:47-51, 217-229, 338-348).
NoUseAfterFree ==
  \A c \in Clients :
    owner[c] = "destroyed" =>
      /\ connection[c] \in {"none", "exited"}
      /\ reader[c] \in {"none", "exited"}

\* The destructor joins only a thread that pthread_create did start and that
\* has been told to stop: joining one that was never started is undefined, and
\* one that does not know would be waited for forever
\* (BLEClient.cpp:47-51, 192-229, 310-348).
JoinsStartedThread ==
  \A c \in Clients :
    /\ owner[c] = "joinReader" => reader[c] # "none" /\ readerTerminate[c]
    /\ owner[c] = "joinConnection" =>
         connection[c] # "none" /\ connectionTerminate[c]

\* A bound on the calls a thread still makes once it has been told to stop:
\* those of the round it is in.
ConnectionStepsLeft ==
  [none |-> 0, exited |-> 0, top |-> 1, search |-> 7, start |-> 2, known |-> 6,
   link |-> 5, stopDiscovery |-> 4, disconnect |-> 3, connect |-> 2,
   service |-> 3, characteristic |-> 2]
ReaderStepsLeft ==
  [none |-> 0, exited |-> 0, top |-> 1, read |-> 4, notify |-> 3, deliver |-> 2]

\* Once the flag of a thread of c is set, it stays set, and each step of the
\* thread is one of those.
Approaches(c) ==
  /\ connectionTerminate[c] =>
       /\ connectionTerminate'[c]
       /\ connection'[c] # connection[c] =>
            ConnectionStepsLeft[connection'[c]]
              < ConnectionStepsLeft[connection[c]]
  /\ readerTerminate[c] =>
       /\ readerTerminate'[c]
       /\ reader'[c] # reader[c] =>
            ReaderStepsLeft[reader'[c]] < ReaderStepsLeft[reader[c]]

\* A thread that has been told to stop finishes its round and makes no other,
\* and the request is never taken back: each of its steps, also one in which a
\* call throws, brings it closer to the end of its loop
\* (BLEClient.cpp:64-189, 225-229, 268-303, 345-347).
StopsWithinRound == [][\A c \in Clients : Approaches(c)]_vars

\* A destructor that has begun returns: the threads it joins see the flags it
\* sets and leave their loops, whatever their calls do
\* (BLEClient.cpp:64, 226, 268, 347).
ShutdownCompletes ==
  \A c \in Clients :
    owner[c] \in {"joinReader", "stopConnection", "joinConnection"}
      ~> owner[c] = "destroyed"

\* A reader with a resolved characteristic and a listener delivers an event in
\* the end, unless it is told to stop, whichever of the two came first and
\* whatever the connection thread does meanwhile (BLEClient.cpp:268-303).
EventsFlow ==
  \A c \in Readers :
    readerRunning[c] /\ characteristic[c] /\ eventReceiver[c]
      ~> reader[c] = "deliver" \/ readerTerminate[c]

\* BLEClient implements GattAccess.
Life(c) == CASE owner[c] = "unborn"    -> "unborn"
             [] owner[c] = "destroyed" -> "dead"
             [] OTHER                  -> "alive"

Gatt == INSTANCE GattAccess WITH
          life      <- [c \in Clients |-> Life(c)],
          resolved  <- characteristic,
          accessing <- {c \in Clients : reader[c] \in AccessStates}

\* The characteristic the threads share is resolved once for all, reads take
\* place within the object's life only, and destruction waits for them
\* (BLEClient.cpp:47-51, 66-69, 170-186, 270-299).
ImplementsGattAccess == Gatt!Spec

=============================================================================
