----------------------------- MODULE CanDevice -----------------------------
(***************************************************************************)
(* Opening and closing the CAN device (openCANDevice and closeCANDevice of *)
(* robot_update/rmCAN.cpp) while the receive thread runs.  The two threads  *)
(* share sock_fd, g_flag, the socket, InCompletePackets and RecvList; only   *)
(* RecvList has a mutex, and the mutex is set up after the thread started.   *)
(*                                                                         *)
(* recovery opens the device once per process.  What the frames hold is     *)
(* RmCan's concern: here a frame is a whole packet, a fragment, or the last  *)
(* fragment missing, and what counts of InCompletePackets is who uses it.    *)
(***************************************************************************)
EXTENDS Naturals, Sequences

CONSTANTS
    Unsolicited,    \* frames the boards send without being asked
    StartsInTime,   \* does the new thread run before closeCANDevice is called
    MaxCommands     \* bound: commands the main thread sends

ASSUME CanDeviceAssumption ==
    /\ Unsolicited \in Nat
    /\ StartsInTime \in BOOLEAN
    /\ MaxCommands \in Nat

VARIABLES
    main,               \* where the main thread is
    thread,             \* where the receive thread is
    frame,              \* the kind of the frame it has read
    sock_fd,            \* rmCAN's descriptor: "fd" or "-1"
    sockfd,             \* flexcan's descriptor of the same socket
    rfd,                \* the descriptor the thread put in its fd_set
    g_flag,
    list_mutex,         \* "zero" (static storage), "ready" or "destroyed"
    commands,           \* commands sent
    owed,               \* frames the boards have yet to send
    bus,                \* frames in the socket's buffer: their kinds
    RecvList            \* the number of packets received and not read

mainVars   == <<main, sock_fd, sockfd, list_mutex, commands>>
threadVars == <<thread, frame, rfd>>
vars == <<mainVars, threadVars, g_flag, owed, bus, RecvList>>

Kinds == {"whole", "more", "last"}

Init ==
    /\ main = "idle" /\ thread = "none" /\ frame = "whole"
    /\ sock_fd = "-1" /\ sockfd = "-1" /\ rfd = "-1"
    /\ g_flag = TRUE
    /\ list_mutex = "zero"
    /\ commands = 0
    /\ owed = Unsolicited
    /\ bus = <<>>
    /\ RecvList = 0

-----------------------------------------------------------------------------
(* The main thread. *)

\* flexcan_device_open: socket, ioctl, bind.
OpenSocket ==
    /\ main = "idle"
    /\ main' = "opened"
    /\ sock_fd' = "fd"
    /\ sockfd' = "fd"
    /\ UNCHANGED <<list_mutex, commands, threadVars, g_flag, owed, bus, RecvList>>

OpenFails ==
    /\ main = "idle"
    /\ main' = "failed"
    /\ UNCHANGED <<sock_fd, sockfd, list_mutex, commands, threadVars, g_flag,
                   owed, bus, RecvList>>

CreateThread ==
    /\ main = "opened"
    /\ main' = "created"
    /\ thread' = "start"
    /\ UNCHANGED <<sock_fd, sockfd, list_mutex, commands, frame, rfd, g_flag,
                   owed, bus, RecvList>>

\* pthread_create fails: the socket stays open.
CreateFails ==
    /\ main = "opened"
    /\ main' = "failed"
    /\ UNCHANGED <<sock_fd, sockfd, list_mutex, commands, threadVars, g_flag,
                   owed, bus, RecvList>>

ClearIncomplete ==
    /\ main = "created"
    /\ main' = "cleared"
    /\ UNCHANGED <<sock_fd, sockfd, list_mutex, commands, threadVars, g_flag,
                   owed, bus, RecvList>>

InitMutex ==
    /\ main = "cleared"
    /\ main' = "session"
    /\ list_mutex' = "ready"
    /\ UNCHANGED <<sock_fd, sockfd, commands, threadVars, g_flag, owed, bus,
                   RecvList>>

\* sendCANData: a board will answer with up to two frames.
SendCommand ==
    /\ main = "session"
    /\ commands < MaxCommands
    /\ commands' = commands + 1
    /\ \E n \in 0 .. 2 : owed' = owed + n
    /\ UNCHANGED <<main, sock_fd, sockfd, list_mutex, threadVars, g_flag, bus,
                   RecvList>>

\* Mutant: nothing is known of the list before it is popped.
Pop_Unchecked ==
    /\ main = "session"
    /\ RecvList' = RecvList - 1
    /\ UNCHANGED <<mainVars, threadVars, g_flag, owed, bus>>

\* readCANData takes a packet.
Pop ==
    /\ main = "session"
    /\ RecvList > 0
    /\ RecvList' = RecvList - 1
    /\ UNCHANGED <<mainVars, threadVars, g_flag, owed, bus>>

\* closeCANDevice, first statement.
ForgetSocket ==
    /\ main = "session"
    /\ StartsInTime => thread # "start"
    /\ main' = "forgot"
    /\ sock_fd' = "-1"
    /\ UNCHANGED <<sockfd, list_mutex, commands, threadVars, g_flag, owed, bus,
                   RecvList>>

\* flexcan_device_close: what the socket had buffered is gone.
CloseSocket ==
    /\ main = "forgot"
    /\ main' = "closed"
    /\ sockfd' = "-1"
    /\ bus' = <<>>
    /\ UNCHANGED <<sock_fd, list_mutex, commands, threadVars, g_flag, owed,
                   RecvList>>

\* Mutant: the flag is left as it is.
ClearFlag_Forgotten ==
    /\ main = "closed"
    /\ main' = "joining"
    /\ UNCHANGED <<sock_fd, sockfd, list_mutex, commands, threadVars, g_flag, owed,
                   bus, RecvList>>

ClearFlag ==
    /\ main = "closed"
    /\ main' = "joining"
    /\ g_flag' = FALSE
    /\ UNCHANGED <<sock_fd, sockfd, list_mutex, commands, threadVars, owed,
                   bus, RecvList>>

\* Mutant: the end of the thread is not awaited.
Join_NotAwaited ==
    /\ main = "joining"
    /\ main' = "joined"
    /\ UNCHANGED <<sock_fd, sockfd, list_mutex, commands, threadVars, g_flag,
                   owed, bus, RecvList>>

Join ==
    /\ main = "joining"
    /\ thread = "exited"
    /\ main' = "joined"
    /\ UNCHANGED <<sock_fd, sockfd, list_mutex, commands, threadVars, g_flag,
                   owed, bus, RecvList>>

DestroyMutex ==
    /\ main = "joined"
    /\ main' = "done"
    /\ list_mutex' = "destroyed"
    /\ UNCHANGED <<sock_fd, sockfd, commands, threadVars, g_flag, owed, bus,
                   RecvList>>

Main ==
    \/ OpenSocket \/ OpenFails \/ CreateThread \/ CreateFails \/ ClearIncomplete
    \/ InitMutex \/ SendCommand \/ Pop \/ ForgetSocket \/ CloseSocket
    \/ ClearFlag \/ Join \/ DestroyMutex

-----------------------------------------------------------------------------
(* The receive thread: thread_recv. *)

RaiseFlag ==
    /\ thread = "start"
    /\ thread' = "test"
    /\ g_flag' = TRUE
    /\ UNCHANGED <<mainVars, frame, rfd, owed, bus, RecvList>>

TestFlag ==
    /\ thread = "test"
    /\ thread' = IF g_flag THEN "set" ELSE "exited"
    /\ UNCHANGED <<mainVars, frame, rfd, g_flag, owed, bus, RecvList>>

\* FD_SET of -1 is undefined; whatever it does, select then looks at no
\* descriptor, because sock_fd never becomes valid again.
SetDescriptor ==
    /\ thread = "set"
    /\ thread' = "select"
    /\ rfd' = sock_fd
    /\ UNCHANGED <<mainVars, frame, g_flag, owed, bus, RecvList>>

SocketReadable == sockfd = "fd" /\ bus # <<>>

\* select(sock_fd + 1, ...): with -1 it only waits.
SelectReady ==
    /\ thread = "select"
    /\ sock_fd = "fd" /\ rfd = "fd" /\ SocketReadable
    /\ thread' = "isset"
    /\ UNCHANGED <<mainVars, frame, rfd, g_flag, owed, bus, RecvList>>

\* Mutant: a timeout of select is taken for data.
SelectNothing_Ready ==
    /\ thread = "select"
    /\ ~ (sock_fd = "fd" /\ rfd = "fd" /\ SocketReadable)
    /\ thread' = "isset"
    /\ UNCHANGED <<mainVars, frame, rfd, g_flag, owed, bus, RecvList>>

SelectNothing ==
    /\ thread = "select"
    /\ ~ (sock_fd = "fd" /\ rfd = "fd" /\ SocketReadable)
    /\ thread' = "test"
    /\ UNCHANGED <<mainVars, frame, rfd, g_flag, owed, bus, RecvList>>

\* FD_ISSET(sock_fd): with -1 it reads outside the set and may say anything.
IsSet ==
    /\ thread = "isset"
    /\ \/ thread' = "recv"
       \/ sock_fd = "-1" /\ thread' = "test"
    /\ UNCHANGED <<mainVars, frame, rfd, g_flag, owed, bus, RecvList>>

\* flexcan_recv fails: the socket is closed by now, or the frame is an error
\* frame, incomplete, or not for this node.
RecvFails ==
    /\ thread = "recv"
    /\ sockfd = "-1" \/ bus # <<>>
    /\ thread' = "test"
    /\ bus' = IF bus = <<>> THEN bus ELSE Tail(bus)
    /\ UNCHANGED <<mainVars, frame, rfd, g_flag, owed, RecvList>>

RecvFrame ==
    /\ thread = "recv"
    /\ SocketReadable
    /\ frame' = Head(bus)
    /\ thread' = IF frame' = "whole" THEN "push" ELSE "collect"
    /\ bus' = Tail(bus)
    /\ UNCHANGED <<mainVars, rfd, g_flag, owed, RecvList>>

\* recvFromCan uses InCompletePackets, without a lock.
Collect ==
    /\ thread = "collect"
    /\ thread' = IF frame = "last" THEN "push" ELSE "test"
    /\ UNCHANGED <<mainVars, frame, rfd, g_flag, owed, bus, RecvList>>

\* pushToRecvList, under list_mutex.
Push ==
    /\ thread = "push"
    /\ thread' = "test"
    /\ RecvList' = RecvList + 1
    /\ UNCHANGED <<mainVars, frame, rfd, g_flag, owed, bus>>

Thread ==
    \/ RaiseFlag \/ TestFlag \/ SetDescriptor \/ SelectReady \/ SelectNothing
    \/ IsSet \/ RecvFails \/ RecvFrame \/ Collect \/ Push

-----------------------------------------------------------------------------
(* The boards: a frame reaches the socket if it is open. *)

FrameArrives ==
    /\ owed > 0
    /\ owed' = owed - 1
    /\ IF sockfd = "fd"
       THEN \E kind \in Kinds : bus' = Append(bus, kind)
       ELSE UNCHANGED bus
    /\ UNCHANGED <<mainVars, threadVars, g_flag, RecvList>>

Next == Main \/ Thread \/ FrameArrives

Spec == Init /\ [][Next]_vars

\* Both threads run on.
FairSpec == Spec /\ WF_vars(Main) /\ WF_vars(Thread)

-----------------------------------------------------------------------------
(* Properties. *)

TypeOK ==
    /\ main \in {"idle", "opened", "created", "cleared", "session", "forgot",
                 "closed", "joining", "joined", "done", "failed"}
    /\ thread \in {"none", "start", "test", "set", "select", "isset", "recv",
                   "collect", "push", "exited"}
    /\ frame \in Kinds
    /\ sock_fd \in {"fd", "-1"} /\ sockfd \in {"fd", "-1"} /\ rfd \in {"fd", "-1"}
    /\ g_flag \in BOOLEAN
    /\ list_mutex \in {"zero", "ready", "destroyed"}
    /\ commands \in Nat /\ owed \in Nat
    /\ bus \in Seq(Kinds)
    /\ RecvList \in Nat

(* The thread takes list_mutex only while it is set up, although it is       *)
(* started before pthread_mutex_init (rmCAN.cpp:514-524) and outlives the     *)
(* socket (531-537).  The one exception is a packet that a board sent        *)
(* unasked and that comes in before openCANDevice has finished: then the      *)
(* mutex is still the zeros of static storage.                              *)
MutexIsLive ==
    thread = "push" =>
        \/ list_mutex = "ready"
        \/ Unsolicited > 0 /\ main \in {"created", "cleared"}

(* The thread never blocks in read: select found the socket readable, and    *)
(* when it is closed in between the read fails.  A blocked thread would not   *)
(* see g_flag, and pthread_join would wait for ever.                         *)
ReadNeverBlocks == thread = "recv" => SocketReadable \/ sockfd = "-1"

(* closeCANDevice returns: pthread_join ends (rmCAN.cpp:534-536).             *)
CloseReturns == main = "joining" ~> main = "done"

=============================================================================
