-------------------------- MODULE CanDeviceProofs --------------------------
(***************************************************************************)
(* What the threads of CanDevice share is used only while it is alive, for  *)
(* any number of commands and frames.  The inductive invariant says how far  *)
(* the receive thread can have come at each statement of the main thread.    *)
(***************************************************************************)
EXTENDS CanDevice, TLAPS

Opening  == {"idle", "opened", "created", "cleared"}
Threaded == {"created", "cleared", "session", "forgot", "closed", "joining"}

\* The mutex is set up from the session to the join.
MutexPhase ==
    /\ main \in {"session", "forgot", "closed", "joining", "joined"}
           => list_mutex = "ready"
    /\ main \in {"joined", "done"} => thread = "exited"
    /\ main \in {"idle", "opened", "failed"} => thread = "none"

\* While the device is being opened the boards are silent, so the thread has
\* nothing to read.
SilentOpening ==
    Unsolicited = 0 /\ main \in Opening =>
        /\ g_flag /\ owed = 0 /\ bus = <<>>
        /\ thread \in {"none", "start", "test", "set", "select"}

\* Once select said so, the socket stays readable until it is closed.
StaysReadable == thread \in {"isset", "recv"} => SocketReadable \/ sockfd = "-1"

Inv == TypeOK /\ MutexPhase /\ SilentOpening /\ StaysReadable

LEMMA InitInv == Init => Inv
  BY CanDeviceAssumption DEF Init, Inv, TypeOK, MutexPhase, SilentOpening,
     StaysReadable, Kinds

LEMMA TypeStep == TypeOK /\ [Next]_vars => TypeOK'
  <1> SUFFICES ASSUME TypeOK, [Next]_vars PROVE TypeOK'
    OBVIOUS
  <1> USE DEF TypeOK, Kinds
  <1> USE DEF mainVars, threadVars
  <1>1. CASE Main
    <2>1. CASE OpenSocket
      BY <2>1 DEF OpenSocket
    <2>2. CASE OpenFails
      BY <2>2 DEF OpenFails
    <2>3. CASE CreateThread
      BY <2>3 DEF CreateThread
    <2>4. CASE CreateFails
      BY <2>4 DEF CreateFails
    <2>5. CASE ClearIncomplete
      BY <2>5 DEF ClearIncomplete
    <2>6. CASE InitMutex
      BY <2>6 DEF InitMutex
    <2>7. CASE SendCommand
      BY <2>7 DEF SendCommand
    <2>8. CASE Pop
      BY <2>8 DEF Pop
    <2>9. CASE ForgetSocket
      BY <2>9 DEF ForgetSocket
    <2>10. CASE CloseSocket
      BY <2>10 DEF CloseSocket
    <2>11. CASE ClearFlag
      BY <2>11 DEF ClearFlag
    <2>12. CASE Join
      BY <2>12 DEF Join
    <2>13. CASE DestroyMutex
      BY <2>13 DEF DestroyMutex
    <2> QED
      BY <1>1, <2>1, <2>2, <2>3, <2>4, <2>5, <2>6, <2>7, <2>8, <2>9, <2>10, <2>11, <2>12, <2>13 DEF Main
  <1>2. CASE Thread
    <2>1. CASE RaiseFlag
      BY <2>1 DEF RaiseFlag
    <2>2. CASE TestFlag
      BY <2>2 DEF TestFlag
    <2>3. CASE SetDescriptor
      BY <2>3 DEF SetDescriptor
    <2>4. CASE SelectReady
      BY <2>4 DEF SelectReady
    <2>5. CASE SelectNothing
      BY <2>5 DEF SelectNothing
    <2>6. CASE IsSet
      BY <2>6 DEF IsSet
    <2>7. CASE RecvFails
      BY <2>7 DEF RecvFails
    <2>8. CASE RecvFrame
      <3>1. Head(bus) \in Kinds /\ Tail(bus) \in Seq(Kinds)
        BY <2>8 DEF RecvFrame, SocketReadable
      <3> QED
        BY <2>8, <3>1 DEF RecvFrame
    <2>9. CASE Collect
      BY <2>9 DEF Collect
    <2>10. CASE Push
      BY <2>10 DEF Push
    <2> QED
      BY <1>2, <2>1, <2>2, <2>3, <2>4, <2>5, <2>6, <2>7, <2>8, <2>9, <2>10 DEF Thread
  <1>3. CASE FrameArrives
    BY <1>3 DEF FrameArrives
  <1>4. CASE UNCHANGED vars
    BY <1>4 DEF vars
  <1> QED
    BY <1>1, <1>2, <1>3, <1>4 DEF Next

LEMMA InvStep == Inv /\ [Next]_vars => Inv'
  <1> SUFFICES ASSUME Inv, [Next]_vars PROVE Inv'
    OBVIOUS
  <1>t. TypeOK /\ TypeOK'
    BY TypeStep DEF Inv
  <1> USE DEF Inv
  <1>1. MutexPhase'
    <2>1. CASE Main
      BY <2>1, <1>t DEF MutexPhase, Main, OpenSocket, OpenFails, CreateThread,
         CreateFails, ClearIncomplete, InitMutex, SendCommand, Pop, ForgetSocket,
         CloseSocket, ClearFlag, Join, DestroyMutex, mainVars, threadVars
    <2>2. CASE Thread
      <3>1. thread \notin {"none", "exited"}
        BY <2>2 DEF Thread, RaiseFlag, TestFlag, SetDescriptor, SelectReady,
           SelectNothing, IsSet, RecvFails, RecvFrame, Collect, Push
      <3>2. UNCHANGED <<main, list_mutex>>
        BY <2>2 DEF Thread, RaiseFlag, TestFlag, SetDescriptor, SelectReady,
           SelectNothing, IsSet, RecvFails, RecvFrame, Collect, Push, mainVars
      <3> QED
        BY <3>1, <3>2 DEF MutexPhase
    <2>3. CASE FrameArrives \/ UNCHANGED vars
      BY <2>3 DEF MutexPhase, FrameArrives, vars, mainVars, threadVars
    <2> QED
      BY <2>1, <2>2, <2>3 DEF Next
  <1>2. SilentOpening'
    <2>1. CASE Main
      BY <2>1, <1>t DEF SilentOpening, Opening, MutexPhase, Main, OpenSocket,
         OpenFails, CreateThread, CreateFails, ClearIncomplete, InitMutex,
         SendCommand, Pop, ForgetSocket, CloseSocket, ClearFlag, Join,
         DestroyMutex, mainVars, threadVars
    <2>2. CASE Thread
      BY <2>2, <1>t DEF SilentOpening, Opening, TypeOK, Thread, RaiseFlag, TestFlag,
         SetDescriptor, SelectReady, SelectNothing, IsSet, RecvFails, RecvFrame,
         Collect, Push, mainVars, SocketReadable
    <2>3. CASE FrameArrives \/ UNCHANGED vars
      BY <2>3, <1>t DEF SilentOpening, FrameArrives, vars, mainVars, threadVars
    <2> QED
      BY <2>1, <2>2, <2>3 DEF Next
  <1>3. StaysReadable'
    <2>1. CASE Main
      BY <2>1, <1>t DEF StaysReadable, SocketReadable, MutexPhase, Main,
         OpenSocket, OpenFails, CreateThread, CreateFails, ClearIncomplete,
         InitMutex, SendCommand, Pop, ForgetSocket, CloseSocket, ClearFlag, Join,
         DestroyMutex, mainVars, threadVars
    <2>2. CASE Thread
      BY <2>2 DEF StaysReadable, SocketReadable, Thread, RaiseFlag, TestFlag,
         SetDescriptor, SelectReady, SelectNothing, IsSet, RecvFails, RecvFrame,
         Collect, Push, mainVars
    <2>3. CASE FrameArrives
      BY <2>3, <1>t DEF StaysReadable, SocketReadable, FrameArrives, TypeOK,
         mainVars, threadVars, Kinds
    <2>4. CASE UNCHANGED vars
      BY <2>4 DEF StaysReadable, SocketReadable, vars, mainVars, threadVars
    <2> QED
      BY <2>1, <2>2, <2>3, <2>4 DEF Next
  <1> QED
    BY <1>t, <1>1, <1>2, <1>3

LEMMA Invariance == Spec => []Inv
  BY InitInv, InvStep, PTL DEF Spec

(* The threads' state keeps its types (rmCAN.cpp:28-42).                     *)
THEOREM DeviceTypes == Spec => []TypeOK
  BY Invariance, PTL DEF Inv

(* The receive thread takes list_mutex only between its initialisation and   *)
(* its destruction (rmCAN.cpp:136-141, 524, 537), but for a packet that came  *)
(* unasked while the device was being opened.                               *)
THEOREM MutexUsedAlive == Spec => []MutexIsLive
  <1>1. Inv => MutexIsLive
    BY CanDeviceAssumption
       DEF Inv, TypeOK, MutexPhase, SilentOpening, MutexIsLive, Opening
  <1> QED
    BY <1>1, Invariance, PTL

(* The receive thread never blocks in read, so it always comes back to test   *)
(* g_flag (flexcan.cpp:126-146, rmCAN.cpp:350-375).                           *)
THEOREM ThreadNeverBlocks == Spec => []ReadNeverBlocks
  <1>1. Inv => ReadNeverBlocks
    BY DEF Inv, StaysReadable, ReadNeverBlocks
  <1> QED
    BY <1>1, Invariance, PTL

=============================================================================
