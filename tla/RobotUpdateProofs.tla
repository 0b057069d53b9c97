------------------------- MODULE RobotUpdateProofs -------------------------
(***************************************************************************)
(* Theorems about RobotUpdate for any boards, modules and images, any       *)
(* number of attempts and of faults.                                        *)
(***************************************************************************)
EXTENDS RobotUpdate, TLAPS

Stages == SysStages \cup UpgStages

\* The parts of the type invariant: the master, the channels, the boards.
ControlOK ==
    /\ stage \in Stages \cup {"open", "load", "close", "done", "failed"}
    /\ phase \in {"send", "wait"}
    /\ k \in Nat /\ elem \in Nat /\ chunk \in Nat
    /\ left \in Nat /\ dataLeft \in Nat /\ outer \in Nat
    /\ result \in [Targets -> {"none", "ok", "failed"}]
    /\ exch \in [Endpoints -> Nat]
    /\ fellBack \in [Targets -> BOOLEAN]

ChannelsOK ==
    /\ cmds \in [Endpoints -> Seq(Cmd)]
    /\ resp \in [Endpoints -> Seq(Resp)]
    /\ RecvList \in Seq(Resp)
    /\ faults \in Nat

BoardsOK ==
    /\ mode \in [Systems -> {"normal", "upgrade"}]
    /\ buf \in [Targets -> Chunk]
    /\ written \in [Targets -> BOOLEAN]
    /\ addr \in [Targets -> Nat \X Nat]
    /\ flash \in [Targets -> SUBSET ((Nat \X Nat) \X (Nat \X Nat))]

\* The index stays in the list that is being walked.
InRange ==
    /\ k >= 1
    /\ stage \in SysStages \cup {"open"} => k =< Len(SysIds)
    /\ stage \in UpgStages => k =< Len(Modules)
    /\ stage = "load" => k =< Len(Modules) + 1

TypeInv == ControlOK /\ InRange /\ ChannelsOK /\ BoardsOK

LEMMA TypeParts == TypeOK <=> ControlOK /\ ChannelsOK /\ BoardsOK
  BY DEF TypeOK, ControlOK, ChannelsOK, BoardsOK, Stages

LEMMA ListTypes ==
    /\ \A i \in 1 .. Len(SysIds) : SysIds[i] \in Systems
    /\ \A i \in 1 .. Len(Modules) : Modules[i] \in Targets
    /\ Len(SysIds) \in Nat /\ Len(Modules) \in Nat /\ Len(SysIds) >= 1
  BY RobotUpdateAssumption DEF Systems, Targets

LEMMA InitType == Init => TypeInv
  BY RobotUpdateAssumption, ListTypes DEF Init, TypeInv, ControlOK, ChannelsOK, BoardsOK,
     InRange, None, Chunk, SysStages, UpgStages

\* The receiver of a command.
LEMMA PeerType ==
    ASSUME ControlOK, InRange, Exchanging
    PROVE  /\ Peer \in Endpoints
           /\ stage \in UpgStages => Peer = Modules[k] /\ Modules[k] \in Targets
  BY ListTypes DEF ControlOK, InRange, Exchanging, Peer, Endpoints, SysStages, UpgStages

LEMMA CommandType ==
    ASSUME ControlOK, InRange, Exchanging
    PROVE  Command \in Cmd
  <1>1. exch[Peer] \in Nat
    BY PeerType DEF ControlOK
  <1>2. <<elem, 1>> \in Nat \X Nat /\ <<elem, chunk>> \in Nat \X Nat /\ None \in Nat \X Nat
    BY DEF ControlOK, None
  <1> DEFINE a == CASE stage = "addr" -> <<elem, 1>>
                    [] stage \in {"data", "crc"} -> <<elem, chunk>>
                    [] OTHER -> None
  <1>3. a \in Nat \X Nat
    BY <1>2
  <1>4. Command = [type |-> stage, arg |-> a, n |-> exch[Peer]]
    BY DEF Command
  <1> HIDE DEF a
  <1> QED
    BY <1>1, <1>3, <1>4 DEF Cmd, Exchanging, Chunk

-----------------------------------------------------------------------------
(* The helpers that move the master keep its types and its range. *)

LEMMA EnterType ==
    ASSUME ControlOK, NEW st \in Stages, NEW peer \in Endpoints, NEW n \in Nat,
           Enter(st, peer, n)
    PROVE  /\ stage' = st /\ stage' \in Stages
           /\ phase' \in {"send", "wait"}
           /\ left' \in Nat
           /\ exch' \in [Endpoints -> Nat]
  BY DEF Enter, ControlOK

LEMMA ReturnType ==
    ASSUME ControlOK, InRange, k =< Len(Modules),
           NEW verdict \in {"ok", "failed"}, Return(verdict)
    PROVE  ControlOK' /\ InRange'
  <1>1. k' \in Nat /\ k' >= 1 /\ k' =< Len(Modules) + 1 /\ stage' = "load"
    BY ListTypes DEF Return, Goto, ControlOK, InRange
  <1>2. InRange'
    BY <1>1 DEF InRange, SysStages, UpgStages
  <1>3. result' \in [Targets -> {"none", "ok", "failed"}]
    BY DEF Return, ControlOK
  <1> QED
    BY <1>1, <1>2, <1>3 DEF Return, Goto, ControlOK

\* A step within upgrade() that leaves the module and enters stage st.
LEMMA StayType ==
    ASSUME ControlOK, InRange, stage \in UpgStages, NEW st \in UpgStages,
           NEW n \in Nat, Enter(st, Modules[k], n), UNCHANGED <<k, result>>,
           elem' \in Nat, chunk' \in Nat, dataLeft' \in Nat, outer' \in Nat,
           fellBack' \in [Targets -> BOOLEAN]
    PROVE  ControlOK' /\ InRange'
  <1>1. Modules[k] \in Endpoints
    BY ListTypes DEF InRange, ControlOK, Endpoints
  <1>2. st \in Stages
    BY DEF Stages
  <1>3. ControlOK'
    BY <1>1, <1>2, EnterType DEF ControlOK
  <1>4. stage' = st /\ st \notin SysStages \cup {"open", "load"}
    BY DEF Enter, SysStages, UpgStages
  <1>5. InRange'
    BY <1>4 DEF InRange
  <1> QED
    BY <1>3, <1>5

LEMMA BeginChunkType ==
    ASSUME ControlOK, InRange, stage \in UpgStages,
           NEW e \in Nat, NEW j \in Nat, BeginChunk(e, j)
    PROVE  ControlOK' /\ InRange'
  <1>1. RESEND_COUNT \in Nat /\ RESEND_COUNT - 1 \in Nat
    BY RobotUpdateAssumption
  <1>2. "data" \in UpgStages
    BY DEF UpgStages
  <1> QED
    BY <1>1, <1>2, StayType DEF BeginChunk, ControlOK

LEMMA BeginElementType ==
    ASSUME ControlOK, InRange, stage \in UpgStages, NEW e \in Nat, BeginElement(e)
    PROVE  ControlOK' /\ InRange'
  <1>1. RESEND_COUNT \in Nat
    BY RobotUpdateAssumption
  <1>2. "addr" \in UpgStages /\ "end" \in UpgStages
    BY DEF UpgStages
  <1>3. PICK st \in UpgStages : Enter(st, Modules[k], RESEND_COUNT)
    BY <1>2 DEF BeginElement
  <1> QED
    BY <1>1, <1>3, StayType DEF BeginElement, ControlOK

LEMMA SendAgainType ==
    ASSUME ControlOK, InRange, stage \in UpgStages, NEW b \in BOOLEAN, SendAgain(b)
    PROVE  ControlOK' /\ InRange'
  <1>1. CASE outer > 0
    <2>1. outer' \in Nat /\ dataLeft \in Nat
      BY <1>1 DEF SendAgain, ControlOK
    <2>2. fellBack' \in [Targets -> BOOLEAN]
      BY <1>1 DEF SendAgain, ControlOK
    <2>3. "data" \in UpgStages
      BY DEF UpgStages
    <2> QED
      BY <1>1, <2>1, <2>2, <2>3, StayType DEF SendAgain, ControlOK, position
  <1>2. CASE ~ (outer > 0)
    BY <1>2, ReturnType DEF SendAgain, InRange
  <1> QED
    BY <1>1, <1>2

LEMMA SysDoneType ==
    ASSUME ControlOK, InRange, stage \in SysStages, SysDone
    PROVE  ControlOK' /\ InRange'
  <1>1. RESEND_COUNT \in Nat
    BY RobotUpdateAssumption
  <1>2. CASE k < Len(SysIds)
    <2>1. k + 1 \in 1 .. Len(SysIds)
      BY <1>2, ListTypes DEF ControlOK
    <2>2. SysIds[k + 1] \in Endpoints /\ stage \in Stages
      BY <2>1, ListTypes DEF Endpoints, Stages
    <2>3. Enter(stage, SysIds[k + 1], RESEND_COUNT) /\ k' = k + 1
      BY <1>2 DEF SysDone
    <2>4. ControlOK'
      BY <1>1, <2>2, <2>3, EnterType DEF SysDone, ControlOK
    <2>5. stage' \in SysStages /\ stage' \notin UpgStages \cup {"load"}
      BY <2>3 DEF Enter, SysStages, UpgStages
    <2>6. InRange'
      BY <2>1, <2>3, <2>5 DEF InRange
    <2> QED
      BY <2>4, <2>6
  <1>3. CASE ~ (k < Len(SysIds))
    <2>1. k' = 1 /\ stage' \in {"load", "close"}
      BY <1>3 DEF SysDone, Goto
    <2>2. ControlOK'
      BY <1>3, <2>1 DEF SysDone, Goto, ControlOK
    <2>3. InRange'
      BY <2>1, ListTypes DEF InRange, SysStages, UpgStages
    <2> QED
      BY <2>2, <2>3
  <1> QED
    BY <1>2, <1>3

-----------------------------------------------------------------------------
(* Every step keeps the types. *)

LEMMA AcceptType ==
    ASSUME ControlOK, InRange, ChannelsOK, Accept
    PROVE  ControlOK' /\ InRange'
  <1> DEFINE r == Head(RecvList)
  <1>r. r.ok \in BOOLEAN
    <2>1. r \in Resp
      BY DEF Accept, ChannelsOK
    <2> QED
      BY <2>1 DEF Resp
  <1>1. CASE stage \in SysStages /\ SysDone
    BY <1>1, SysDoneType
  <1>2. CASE stage = "start" /\ BeginElement(1)
    BY <1>2, BeginElementType DEF UpgStages
  <1>3. CASE stage = "addr" /\ BeginChunk(elem, 1)
    BY <1>3, BeginChunkType DEF UpgStages, ControlOK
  <1>4. CASE /\ stage = "data"
             /\ dataLeft' = left
             /\ Enter("crc", Peer, RESEND_COUNT)
             /\ UNCHANGED <<position, outer, result, fellBack>>
    <2>1. stage \in UpgStages /\ "crc" \in UpgStages /\ Exchanging
      BY <1>4 DEF UpgStages, Exchanging
    <2>2. Enter("crc", Modules[k], RESEND_COUNT)
      BY <1>4, <2>1, PeerType
    <2>3. RESEND_COUNT \in Nat
      BY RobotUpdateAssumption
    <2> QED
      BY <1>4, <2>1, <2>2, <2>3, StayType DEF position, ControlOK
  <1>5. CASE stage = "crc" /\ Verdict(r)
    <2>1. stage \in UpgStages
      BY <1>5 DEF UpgStages
    <2>2. CASE BeginChunk(elem, chunk + 1)
      BY <2>1, <2>2, BeginChunkType DEF ControlOK
    <2>3. CASE BeginElement(elem + 1)
      BY <2>1, <2>3, BeginElementType DEF ControlOK
    <2>4. CASE SendAgain(FALSE)
      BY <2>1, <2>4, SendAgainType
    <2> QED
      BY <1>5, <2>2, <2>3, <2>4 DEF Verdict
  <1>6. CASE stage = "end" /\ Return("ok")
    BY <1>6, ReturnType DEF InRange, UpgStages
  <1> QED
    BY <1>1, <1>2, <1>3, <1>4, <1>5, <1>6 DEF Accept

LEMMA GiveUpType ==
    ASSUME ControlOK, InRange, GiveUp
    PROVE  ControlOK' /\ InRange'
  <1>1. CASE stage \in SysStages /\ SysDone
    BY <1>1, SysDoneType
  <1>2. CASE stage \in {"start", "addr", "data", "end"} /\ Return("failed")
    BY <1>2, ReturnType DEF InRange, UpgStages
  <1>3. CASE stage = "crc" /\ SendAgain(TRUE)
    BY <1>3, SendAgainType DEF UpgStages
  <1> QED
    BY <1>1, <1>2, <1>3 DEF GiveUp

\* Whatever a module does, it answers the command it got.
LEMMA ModuleAnswersOnce ==
    ASSUME NEW m \in Targets, ModuleAnswers(m)
    PROVE  /\ cmds[m] # <<>>
           /\ \E ok \in BOOLEAN : Answer(m, Head(cmds[m]), ok)
  <1>1. \A c : (buf[m] = c.arg) \in BOOLEAN
    OBVIOUS
  <1> QED
    BY <1>1, Zenon DEF ModuleAnswers

LEMMA ControlStep ==
    ASSUME ControlOK, InRange, ChannelsOK, [Next]_vars
    PROVE  ControlOK' /\ InRange'
  <1>1. CASE Send
    BY <1>1 DEF Send, InLoop, ControlOK, InRange, position
  <1>2. CASE SendError
    BY <1>2 DEF SendError, InLoop, ControlOK, InRange, position
  <1>3. CASE SendNothing
    BY <1>3 DEF SendNothing, InLoop, ControlOK, InRange, position
  <1>4. CASE Discard
    BY <1>4 DEF Discard, ControlOK, InRange, position, retries
  <1>5. CASE Accept
    BY <1>5, AcceptType
  <1>6. CASE Timeout
    BY <1>6 DEF Timeout, ControlOK, InRange, position, retries
  <1>7. CASE GiveUp
    BY <1>7, GiveUpType
  <1>8. CASE Open
    <2>1. SysIds[1] \in Endpoints /\ "enter" \in Stages /\ RESEND_COUNT \in Nat
      BY RobotUpdateAssumption, ListTypes DEF Endpoints, Stages, SysStages
    <2>2. ControlOK' /\ stage' = "enter"
      BY <1>8, <2>1, EnterType DEF Open, ControlOK, position
    <2>3. InRange'
      BY <1>8, <2>2 DEF Open, InRange, position, SysStages, UpgStages
    <2> QED
      BY <2>2, <2>3
  <1>9. CASE OpenFails
    BY <1>9 DEF OpenFails, ControlOK, InRange, position, retries, SysStages, UpgStages
  <1>10. CASE Load
    <2>1. Modules[k] \in Endpoints /\ "start" \in Stages /\ RESEND_COUNT \in Nat
      BY <1>10, RobotUpdateAssumption, ListTypes
         DEF Load, InRange, ControlOK, Endpoints, Stages, UpgStages
    <2>2. ControlOK' /\ stage' = "start"
      BY <1>10, <2>1, EnterType DEF Load, ControlOK, position
    <2>3. InRange'
      BY <1>10, <2>2 DEF Load, InRange, position, SysStages, UpgStages
    <2> QED
      BY <2>2, <2>3
  <1>11. CASE LoadFails
    BY <1>11, ReturnType DEF LoadFails
  <1>12. CASE LeaveUpgradeMode
    <2>1. SysIds[1] \in Endpoints /\ "exit" \in Stages /\ RESEND_COUNT \in Nat
      BY RobotUpdateAssumption, ListTypes DEF Endpoints, Stages, SysStages
    <2>2. ControlOK' /\ stage' = "exit" /\ k' = 1
      BY <1>12, <2>1, EnterType DEF LeaveUpgradeMode, ControlOK
    <2>3. InRange'
      BY <2>2, ListTypes DEF InRange, SysStages, UpgStages
    <2> QED
      BY <2>2, <2>3
  <1>13. CASE Close
    BY <1>13 DEF Close, ControlOK, InRange, position, retries, SysStages, UpgStages
  <1>14. CASE \E s \in Systems : SystemAnswers(s)
    BY <1>14 DEF SystemAnswers, Answer, ControlOK, InRange, position, retries
  <1>15. CASE \E m \in Targets : ModuleAnswers(m) \/ Garble(m)
    <2>1. UNCHANGED <<stage, phase, position, retries, result, exch, fellBack>>
      BY <1>15, ModuleAnswersOnce DEF Garble, Answer
    <2> QED
      BY <2>1 DEF ControlOK, InRange, position, retries
  <1>16. CASE \E e \in Endpoints : Deliver(e) \/ Lose(e)
    BY <1>16 DEF Deliver, Lose, ControlOK, InRange, position, retries
  <1>17. CASE UNCHANGED vars
    BY <1>17 DEF vars, ControlOK, InRange, position, retries
  <1> QED
    BY <1>1, <1>2, <1>3, <1>4, <1>5, <1>6, <1>7, <1>8, <1>9, <1>10, <1>11, <1>12,
       <1>13, <1>14, <1>15, <1>16, <1>17 DEF Next, Master

LEMMA AnswerType ==
    ASSUME ChannelsOK, NEW e \in Endpoints, cmds[e] # <<>>,
           NEW ok \in BOOLEAN, Answer(e, Head(cmds[e]), ok)
    PROVE  ChannelsOK'
  <1>1. Head(cmds[e]) \in Cmd /\ Tail(cmds[e]) \in Seq(Cmd)
    BY DEF ChannelsOK
  <1> DEFINE c == Head(cmds[e])
             r == [src |-> e, type |-> c.type, ok |-> ok, n |-> c.n]
  <1>2. r \in Resp
    <2>1. c.type \in SysStages \cup UpgStages /\ c.n \in Nat
      BY <1>1 DEF Cmd, UpgStages
    <2> QED
      BY <2>1 DEF Resp
  <1>3. cmds' \in [Endpoints -> Seq(Cmd)]
    BY <1>1 DEF Answer, ChannelsOK
  <1>4. resp' \in [Endpoints -> Seq(Resp)]
    BY <1>2 DEF Answer, ChannelsOK
  <1> QED
    BY <1>3, <1>4 DEF Answer, ChannelsOK

LEMMA GarbleType ==
    ASSUME ChannelsOK, NEW m \in Targets, Garble(m)
    PROVE  ChannelsOK'
  <1> DEFINE c == Head(cmds[m])
  <1>1. m \in Endpoints /\ cmds[m] # <<>> /\ cmds[m] \in Seq(Cmd) /\ cmds[m][1] \in Cmd
    BY DEF Garble, ChannelsOK, Endpoints
  <1>2. [cmds[m][1] EXCEPT !.arg = Bad] \in Cmd
    BY <1>1 DEF Garble, Cmd, Chunk
  <1>3. [cmds[m] EXCEPT ![1].arg = Bad] \in Seq(Cmd)
    BY <1>1, <1>2
  <1>4. cmds' \in [Endpoints -> Seq(Cmd)]
    BY <1>1, <1>3 DEF Garble, ChannelsOK
  <1> QED
    BY <1>4 DEF Garble, ChannelsOK

LEMMA ChannelStep ==
    ASSUME ControlOK, InRange, ChannelsOK, [Next]_vars
    PROVE  ChannelsOK'
  <1>1. CASE Send
    <2>1. Peer \in Endpoints /\ Command \in Cmd
      BY <1>1, PeerType, CommandType DEF Send, InLoop
    <2>2. cmds' \in [Endpoints -> Seq(Cmd)]
      BY <1>1, <2>1 DEF Send, ChannelsOK
    <2> QED
      BY <1>1, <2>2 DEF Send, ChannelsOK
  <1>2. CASE Discard \/ Accept
    <2>1. Tail(RecvList) \in Seq(Resp)
      BY <1>2 DEF Discard, Accept, ChannelsOK
    <2> QED
      BY <1>2, <2>1 DEF Discard, Accept, ChannelsOK
  <1>3. CASE SendError \/ SendNothing \/ OpenFails \/ LoadFails
    BY <1>3 DEF SendError, SendNothing, OpenFails, LoadFails, ChannelsOK
  <1>4. CASE Timeout \/ GiveUp \/ Open \/ Load \/ LeaveUpgradeMode \/ Close
    BY <1>4 DEF Timeout, GiveUp, Open, Load, LeaveUpgradeMode, Close, ChannelsOK
  <1>5. CASE \E s \in Systems : SystemAnswers(s)
    <2>1. PICK s \in Systems : SystemAnswers(s)
      BY <1>5
    <2>2. s \in Endpoints /\ cmds[s] # <<>> /\ Answer(s, Head(cmds[s]), TRUE)
      BY <2>1 DEF SystemAnswers, Endpoints
    <2> QED
      BY <2>2, AnswerType
  <1>6. CASE \E m \in Targets : ModuleAnswers(m) \/ Garble(m)
    <2>1. PICK m \in Targets : ModuleAnswers(m) \/ Garble(m)
      BY <1>6
    <2>2. CASE ModuleAnswers(m)
      BY <2>2, ModuleAnswersOnce, AnswerType DEF Endpoints
    <2>3. CASE Garble(m)
      BY <2>3, GarbleType
    <2> QED
      BY <2>1, <2>2, <2>3
  <1>7. CASE \E e \in Endpoints : Deliver(e)
    <2>1. PICK e \in Endpoints : Deliver(e)
      BY <1>7
    <2>2. Head(resp[e]) \in Resp /\ Tail(resp[e]) \in Seq(Resp)
      BY <2>1 DEF Deliver, ChannelsOK
    <2> QED
      BY <2>1, <2>2 DEF Deliver, ChannelsOK
  <1>8. CASE \E e \in Endpoints : Lose(e)
    <2>1. PICK e \in Endpoints : Lose(e)
      BY <1>8
    <2>2. CASE cmds[e] # <<>> /\ cmds' = [cmds EXCEPT ![e] = Tail(@)] /\ resp' = resp
      <3>1. Tail(cmds[e]) \in Seq(Cmd)
        BY <2>2 DEF ChannelsOK
      <3> QED
        BY <2>1, <2>2, <3>1 DEF Lose, ChannelsOK
    <2>3. CASE resp[e] # <<>> /\ resp' = [resp EXCEPT ![e] = Tail(@)] /\ cmds' = cmds
      <3>1. Tail(resp[e]) \in Seq(Resp)
        BY <2>3 DEF ChannelsOK
      <3> QED
        BY <2>1, <2>3, <3>1 DEF Lose, ChannelsOK
    <2> QED
      BY <2>1, <2>2, <2>3 DEF Lose
  <1>9. CASE UNCHANGED vars
    BY <1>9 DEF vars, ChannelsOK
  <1> QED
    BY <1>1, <1>2, <1>3, <1>4, <1>5, <1>6, <1>7, <1>8, <1>9 DEF Next, Master

LEMMA ModuleAnswersType ==
    ASSUME ChannelsOK, BoardsOK, NEW m \in Targets, ModuleAnswers(m)
    PROVE  BoardsOK'
  <1> DEFINE c == Head(cmds[m])
  <1>1. c \in Cmd
    <2>1. cmds[m] # <<>> /\ cmds[m] \in Seq(Cmd)
      BY ModuleAnswersOnce DEF ChannelsOK, Endpoints
    <2> QED
      BY <2>1
  <1>2. c.arg \in Chunk /\ (c.type # "data" => c.arg \in Nat \X Nat)
    BY <1>1 DEF Cmd, Chunk
  <1>3. mode' = mode
    BY DEF ModuleAnswers
  <1> HIDE DEF c
  <1>4. CASE /\ flash' = [flash EXCEPT ![m] = {}]
             /\ UNCHANGED <<buf, written, addr>>
    BY <1>3, <1>4 DEF BoardsOK
  <1>5. CASE /\ c.type = "addr"
             /\ addr' = [addr EXCEPT ![m] = c.arg]
             /\ UNCHANGED <<buf, written, flash>>
    BY <1>2, <1>3, <1>5 DEF BoardsOK
  <1>6. CASE /\ buf' = [buf EXCEPT ![m] = c.arg]
             /\ written' = [written EXCEPT ![m] = FALSE]
             /\ UNCHANGED <<addr, flash>>
    BY <1>2, <1>3, <1>6 DEF BoardsOK
  <1>7. CASE /\ c.type = "crc"
             /\ flash' = [flash EXCEPT ![m] =
                   { w \in @ : w[1] # addr[m] } \cup { <<addr[m], c.arg>> }]
             /\ addr' = [addr EXCEPT ![m] = <<@[1], @[2] + 1>>]
             /\ written' = [written EXCEPT ![m] = TRUE]
             /\ UNCHANGED buf
    <2>1. addr[m] \in Nat \X Nat /\ <<addr[m][1], addr[m][2] + 1>> \in Nat \X Nat
      BY DEF BoardsOK
    <2>2. <<addr[m], c.arg>> \in (Nat \X Nat) \X (Nat \X Nat)
      BY <1>2, <1>7, <2>1
    <2>3. flash' \in [Targets -> SUBSET ((Nat \X Nat) \X (Nat \X Nat))]
      BY <1>7, <2>2 DEF BoardsOK
    <2>4. addr' \in [Targets -> Nat \X Nat]
      BY <1>7, <2>1 DEF BoardsOK
    <2> QED
      BY <1>3, <1>7, <2>3, <2>4 DEF BoardsOK
  <1>8. CASE UNCHANGED <<buf, written, addr, flash>>
    BY <1>3, <1>8 DEF BoardsOK
  <1> QED
    BY <1>4, <1>5, <1>6, <1>7, <1>8 DEF ModuleAnswers, c

LEMMA BoardStep ==
    ASSUME ChannelsOK, BoardsOK, [Next]_vars
    PROVE  BoardsOK'
  <1>1. CASE \E s \in Systems : SystemAnswers(s)
    BY <1>1 DEF SystemAnswers, BoardsOK
  <1>2. CASE \E m \in Targets : ModuleAnswers(m)
    BY <1>2, ModuleAnswersType
  <1>3. CASE Master
    <2>1. UNCHANGED boards
      BY <1>3 DEF Master, Send, SendError, SendNothing, Discard, Accept, Timeout, GiveUp,
         Open, OpenFails, Load, LoadFails, LeaveUpgradeMode, Close
    <2> QED
      BY <2>1 DEF boards, BoardsOK
  <1>4. CASE (\E m \in Targets : Garble(m)) \/ (\E e \in Endpoints : Deliver(e) \/ Lose(e))
    BY <1>4 DEF Garble, Deliver, Lose, boards, BoardsOK
  <1>5. CASE UNCHANGED vars
    BY <1>5 DEF vars, boards, BoardsOK
  <1> QED
    BY <1>1, <1>2, <1>3, <1>4, <1>5 DEF Next

LEMMA TypeInvariance == Spec => []TypeInv
  <1>1. TypeInv /\ [Next]_vars => TypeInv'
    BY ControlStep, ChannelStep, BoardStep DEF TypeInv
  <1> QED
    BY InitType, <1>1, PTL DEF Spec

(* Every variable keeps its type, for any boards, modules, images and        *)
(* numbers of attempts and faults: the walk over the boards and modules      *)
(* never leaves its list, and only data is garbled.                          *)
THEOREM UpdateTypes == Spec => []TypeOK
  <1>1. TypeInv => TypeOK
    BY TypeParts DEF TypeInv
  <1> QED
    BY TypeInvariance, <1>1, PTL

-----------------------------------------------------------------------------
(* Every module is tried. *)

TriedBefore(n) ==
    \A i \in 1 .. Len(Modules) : i < n => result[Modules[i]] # "none"

\* The modules before the current one have a result, and later all have one.
Tried ==
    /\ stage \in UpgStages \cup {"load"} => TriedBefore(k)
    /\ stage \in {"exit", "close", "done"} => TriedBefore(Len(Modules) + 1)

LEMMA ReturnTries ==
    ASSUME ControlOK, k \in 1 .. Len(Modules), TriedBefore(k),
           NEW verdict \in {"ok", "failed"}, Return(verdict)
    PROVE  Tried'
  <1>1. stage' = "load" /\ k' = k + 1
    BY DEF Return, Goto
  <1>2. ASSUME NEW i \in 1 .. Len(Modules), i < k + 1
        PROVE  result'[Modules[i]] # "none"
    <2>1. Modules[i] \in Targets /\ Modules[k] \in Targets
      BY ListTypes
    <2>2. CASE i < k
      BY <2>1, <2>2 DEF Return, ControlOK, TriedBefore
    <2>3. CASE i = k
      BY <2>1, <2>3 DEF Return, ControlOK
    <2> QED
      BY <1>2, <2>2, <2>3 DEF ControlOK
  <1>3. TriedBefore(k)'
    BY <1>1, <1>2 DEF TriedBefore
  <1> QED
    BY <1>1, <1>3 DEF Tried

\* A step that stays with the module.
LEMMA StayTries ==
    ASSUME Tried, stage \in UpgStages \cup {"load"}, stage' \in UpgStages,
           UNCHANGED <<k, result>>
    PROVE  Tried'
  BY DEF Tried, TriedBefore, UpgStages

LEMMA SysDoneTries ==
    ASSUME ControlOK, InRange, Tried, stage \in SysStages, SysDone
    PROVE  Tried'
  <1>1. UNCHANGED result
    BY DEF SysDone
  <1>2. CASE stage = "enter"
    <2>1. stage' \in {"enter", "load"} /\ (stage' = "load" => k' = 1)
      BY <1>2 DEF SysDone, Enter, Goto
    <2> QED
      BY <2>1 DEF Tried, TriedBefore, UpgStages
  <1>3. CASE stage = "exit"
    <2>1. stage' \in {"exit", "close"}
      BY <1>3 DEF SysDone, Enter, Goto
    <2> QED
      BY <1>1, <1>3, <2>1 DEF Tried, TriedBefore, UpgStages
  <1> QED
    BY <1>2, <1>3 DEF SysStages

LEMMA SendAgainTries ==
    ASSUME ControlOK, InRange, Tried, stage \in UpgStages, NEW b \in BOOLEAN, SendAgain(b)
    PROVE  Tried'
  <1>1. CASE outer > 0
    BY <1>1, StayTries DEF SendAgain, Enter, position, UpgStages
  <1>2. CASE ~ (outer > 0)
    <2>1. k \in 1 .. Len(Modules) /\ TriedBefore(k)
      BY ListTypes DEF InRange, ControlOK, Tried
    <2> QED
      BY <1>2, <2>1, ReturnTries DEF SendAgain
  <1> QED
    BY <1>1, <1>2

LEMMA AcceptTries ==
    ASSUME ControlOK, InRange, Tried, Accept
    PROVE  Tried'
  <1>1. CASE stage \in SysStages /\ SysDone
    BY <1>1, SysDoneTries
  <1>2. CASE stage = "start" /\ BeginElement(1)
    BY <1>2, StayTries DEF BeginElement, Enter, UpgStages
  <1>3. CASE stage = "addr" /\ BeginChunk(elem, 1)
    BY <1>3, StayTries DEF BeginChunk, Enter, UpgStages
  <1>4. CASE /\ stage = "data"
             /\ Enter("crc", Peer, RESEND_COUNT)
             /\ UNCHANGED <<position, outer, result, fellBack>>
    BY <1>4, StayTries DEF Enter, UpgStages, position
  <1>5. CASE stage = "crc" /\ Verdict(Head(RecvList))
    <2>1. CASE BeginChunk(elem, chunk + 1)
      BY <1>5, <2>1, StayTries DEF BeginChunk, Enter, UpgStages
    <2>2. CASE BeginElement(elem + 1)
      BY <1>5, <2>2, StayTries DEF BeginElement, Enter, UpgStages
    <2>3. CASE SendAgain(FALSE)
      BY <1>5, <2>3, SendAgainTries DEF UpgStages
    <2> QED
      BY <1>5, <2>1, <2>2, <2>3 DEF Verdict
  <1>6. CASE stage = "end" /\ Return("ok")
    <2>1. k \in 1 .. Len(Modules) /\ TriedBefore(k)
      BY <1>6, ListTypes DEF InRange, ControlOK, Tried, UpgStages
    <2> QED
      BY <1>6, <2>1, ReturnTries
  <1> QED
    BY <1>1, <1>2, <1>3, <1>4, <1>5, <1>6 DEF Accept

LEMMA GiveUpTries ==
    ASSUME ControlOK, InRange, Tried, GiveUp
    PROVE  Tried'
  <1>1. CASE stage \in SysStages /\ SysDone
    BY <1>1, SysDoneTries
  <1>2. CASE stage \in {"start", "addr", "data", "end"} /\ Return("failed")
    <2>1. k \in 1 .. Len(Modules) /\ TriedBefore(k)
      BY <1>2, ListTypes DEF InRange, ControlOK, Tried, UpgStages
    <2> QED
      BY <1>2, <2>1, ReturnTries
  <1>3. CASE stage = "crc" /\ SendAgain(TRUE)
    BY <1>3, SendAgainTries DEF UpgStages
  <1> QED
    BY <1>1, <1>2, <1>3 DEF GiveUp

LEMMA TriedStep ==
    ASSUME ControlOK, InRange, Tried, [Next]_vars
    PROVE  Tried'
  <1>1. CASE Send \/ SendError \/ SendNothing
    BY <1>1 DEF Send, SendError, SendNothing, Tried, TriedBefore, position
  <1>2. CASE Discard \/ Timeout
    BY <1>2 DEF Discard, Timeout, Tried, TriedBefore, position
  <1>3. CASE Accept
    BY <1>3, AcceptTries
  <1>4. CASE GiveUp
    BY <1>4, GiveUpTries
  <1>5. CASE Open \/ OpenFails
    BY <1>5 DEF Open, OpenFails, Enter, Tried, UpgStages
  <1>6. CASE Load
    BY <1>6, StayTries DEF Load, Enter, position, UpgStages
  <1>7. CASE LoadFails
    <2>1. k \in 1 .. Len(Modules) /\ TriedBefore(k)
      BY <1>7, ListTypes DEF LoadFails, InRange, ControlOK, Tried
    <2> QED
      BY <1>7, <2>1, ReturnTries DEF LoadFails
  <1>8. CASE LeaveUpgradeMode
    <2>1. TriedBefore(k) /\ k > Len(Modules) /\ k \in Nat /\ Len(Modules) \in Nat
      BY <1>8, ListTypes DEF LeaveUpgradeMode, Tried, ControlOK
    <2>2. TriedBefore(Len(Modules) + 1)
      BY <2>1 DEF TriedBefore
    <2> QED
      BY <1>8, <2>2 DEF LeaveUpgradeMode, Enter, Tried, TriedBefore, UpgStages
  <1>9. CASE Close
    BY <1>9 DEF Close, Tried, TriedBefore, UpgStages
  <1>10. CASE \E s \in Systems : SystemAnswers(s)
    BY <1>10 DEF SystemAnswers, Answer, Tried, TriedBefore, position
  <1>11. CASE \E m \in Targets : ModuleAnswers(m) \/ Garble(m)
    <2>1. UNCHANGED <<stage, position, result>>
      BY <1>11, ModuleAnswersOnce DEF Garble, Answer
    <2> QED
      BY <2>1 DEF Tried, TriedBefore, position
  <1>12. CASE \E e \in Endpoints : Deliver(e) \/ Lose(e)
    BY <1>12 DEF Deliver, Lose, Tried, TriedBefore, position
  <1>13. CASE UNCHANGED vars
    BY <1>13 DEF vars, Tried, TriedBefore, position
  <1> QED
    BY <1>1, <1>2, <1>3, <1>4, <1>5, <1>6, <1>7, <1>8, <1>9, <1>10, <1>11, <1>12, <1>13
       DEF Next, Master

(* When the update is over upgrade() has run for every listed module, for    *)
(* any boards, modules and images, whatever failed, was lost or came late.   *)
THEOREM AllTried == Spec => []EveryModuleTried
  <1>1. Init => Tried
    BY DEF Init, Tried, UpgStages
  <1>2. TypeInv /\ Tried /\ [Next]_vars => Tried'
    BY TriedStep DEF TypeInv
  <1>3. TypeInv /\ Tried => EveryModuleTried
    <2> SUFFICES ASSUME TypeInv, Tried, stage = "done", NEW m \in Targets
                 PROVE  result[m] # "none"
      BY DEF EveryModuleTried
    <2>1. PICK i \in 1 .. Len(Modules) : m = Modules[i]
      BY DEF Targets
    <2> QED
      BY <2>1, ListTypes DEF Tried, TriedBefore
  <1> QED
    BY TypeInvariance, <1>1, <1>2, <1>3, PTL DEF Spec

-----------------------------------------------------------------------------
(* The answers the master takes, and what a module holds meanwhile.          *)

Items(s) == { s[i] : i \in 1 .. Len(s) }

\* The commands to e that are on their way, the answers on their way, and those received.
Commands(e) == Items(cmds[e])
Answers(e)  == Items(resp[e])
Received(e) == { r \in Items(RecvList) : r.src = e }
Returned(e) == Answers(e) \cup Received(e)

InOrder(s) == \A a, b \in 1 .. Len(s) : a =< b => s[a].n =< s[b].n

InOrderFrom(s, e) ==
    \A a, b \in 1 .. Len(s) :
        a =< b /\ s[a].src = e /\ s[b].src = e => s[a].n =< s[b].n

\* The channel through e and back keeps the order of the exchanges.
Ordered(e) ==
    /\ \A x \in Commands(e) \cup Returned(e) : x.n =< exch[e]
    /\ \A r \in Returned(e), c \in Commands(e) : r.n =< c.n
    /\ \A l \in Received(e), r \in Answers(e) : l.n =< r.n
    /\ \A r \in Answers(e) : r.src = e
    /\ InOrder(cmds[e]) /\ InOrder(resp[e])
    /\ InOrderFrom(RecvList, e)

\* The chunks of m before chunk j of element e, and flash with each of them at its place.
Earlier(m, e, j) ==
    { p \in Nat \X Nat :
        /\ p[1] \in 1 .. Len(Image[m]) /\ p[2] \in 1 .. Image[m][p[1]]
        /\ p[1] < e \/ (p[1] = e /\ p[2] < j) }

Before(m, e, j) == { <<p, p>> : p \in Earlier(m, e, j) }

\* The place of the exchange st in the walk over the image of m.
Placed(m, st, e, j) ==
    /\ st \in UpgStages
    /\ e \in 1 .. Len(Image[m]) + 1 /\ j \in Nat \ {0}
    /\ st \in {"start", "addr", "end"} => j = 1
    /\ st = "start" => e = 1
    /\ st = "end"   => e = Len(Image[m]) + 1
    /\ st \in {"addr", "data", "crc"} => e =< Len(Image[m])
    /\ st \in {"data", "crc"} => j =< Image[m][e]

\* A command of the exchange st.
OfNow(m, st, e, j, c) ==
    /\ c.type = st
    /\ st = "addr" => c.arg = <<e, 1>>
    /\ st = "data" => c.arg \in {<<e, j>>, Bad}
    /\ st = "crc"  => c.arg = <<e, j>>

\* A command of the exchange before: the module may carry it out again.
OfBefore(m, st, e, j, c) ==
    /\ c.type # st
    /\ c.type = "start" => e = 1 /\ st \in {"addr", "end"}
    /\ c.type = "addr"  => st = "data" /\ c.arg = <<e, j>>
    /\ c.type = "data"  => st = "crc"
    /\ c.type = "crc"   => written[m] \/ buf[m] # c.arg
    /\ c.type # "end"

\* What the answer r to a command of the exchange st says of the module.
Tells(m, st, e, j, r) ==
    /\ r.type = st
    /\ st = "addr" => addr[m] = <<e, 1>>
    /\ st = "data" => ~ written[m]
    /\ st = "crc"  => IF r.ok THEN written[m] ELSE ~ written[m] /\ buf[m] # <<e, j>>

\* What the module holds.
Holds(m, st, e, j) ==
    /\ st # "crc" => flash[m] = Before(m, e, j)
    /\ st = "data" => addr[m] = <<e, j>>
    /\ st = "crc" =>
          \/ ~ written[m] /\ addr[m] = <<e, j>> /\ flash[m] = Before(m, e, j)
          \/ /\ written[m] /\ buf[m] = <<e, j>> /\ addr[m] = <<e, j + 1>>
             /\ flash[m] = Before(m, e, j + 1)
             /\ \A c \in Commands(m) : c.n = exch[m]

\* Module m is in the exchange st over chunk j of element e.
InExchange(m, st, e, j) ==
    /\ Placed(m, st, e, j)
    /\ Holds(m, st, e, j)
    /\ \A c \in Commands(m) :
          \/ c.n = exch[m] /\ OfNow(m, st, e, j, c)
          \/ c.n + 1 = exch[m] /\ OfBefore(m, st, e, j, c)
    /\ \A r \in Returned(m) :
          \/ r.n = exch[m] /\ Tells(m, st, e, j, r)
          \/ r.n + 1 = exch[m] /\ r.type # st

\* Nothing has been sent to m.
Untouched(m) ==
    /\ exch[m] = 0 /\ Commands(m) = {} /\ Returned(m) = {}
    /\ flash[m] = {} /\ result[m] # "ok"

\* The module that is served is in the exchange the master is in; one that was served
\* stays in its last; the others are untouched.
Served(m) ==
    \E st \in UpgStages, e \in Nat, j \in Nat :
        /\ InExchange(m, st, e, j)
        /\ stage = st /\ (st # "start" => elem = e /\ chunk = j)

Rests(m) ==
    \/ Untouched(m)
    \/ \E st \in UpgStages, e \in Nat, j \in Nat :
          /\ InExchange(m, st, e, j)
          /\ result[m] = "ok" => st = "end"

IsServed(m) == stage \in UpgStages /\ m = Modules[k]

ModuleOK(m) ==
    /\ IsServed(m) => result[m] # "ok"
    /\ ~ fellBack[m] => IF IsServed(m) THEN Served(m) ELSE Rests(m)

\* The modules whose turn has not come.
Ahead(i) ==
    \/ stage \in {"open", "enter", "failed"}
    \/ stage = "load" /\ i >= k
    \/ stage \in UpgStages /\ i > k

Waits ==
    \A i \in 1 .. Len(Modules) :
        Ahead(i) => Untouched(Modules[i]) /\ ~ fellBack[Modules[i]]

\* A board's exchanges: the first is enter, the second exit.
BoardOK(s) ==
    \A x \in Commands(s) \cup Returned(s) :
        \/ x.type = "enter" /\ x.n = 1
        \/ x.type = "exit"  /\ x.n = 2

Begun(i) ==
    CASE stage \in {"open", "failed"} -> 0
      [] stage = "enter" -> IF i =< k THEN 1 ELSE 0
      [] stage = "exit"  -> IF i =< k THEN 2 ELSE 1
      [] stage \in {"close", "done"} -> 2
      [] OTHER -> 1

BoardsCounted ==
    /\ stage = "open" => k = 1
    /\ \A i \in 1 .. Len(SysIds) : exch[SysIds[i]] = Begun(i)

AnswersInv ==
    /\ \A e \in Endpoints : Ordered(e)
    /\ \A s \in Systems : BoardOK(s)
    /\ BoardsCounted
    /\ \A m \in Targets : ModuleOK(m)
    /\ Waits

-----------------------------------------------------------------------------
(* Sequences of commands and answers.                                        *)

LEMMA ItemsOfTail ==
    ASSUME NEW S, NEW s \in Seq(S), s # <<>>
    PROVE  /\ Tail(s) \in Seq(S) /\ Head(s) \in S /\ Head(s) = s[1]
           /\ 1 \in 1 .. Len(s)
           /\ Head(s) \in Items(s)
           /\ Items(Tail(s)) \subseteq Items(s)
           /\ \A i \in 1 .. Len(Tail(s)) : i + 1 \in 1 .. Len(s) /\ Tail(s)[i] = s[i + 1]
  BY DEF Items

LEMMA ItemsOfAppend ==
    ASSUME NEW S, NEW s \in Seq(S), NEW x \in S
    PROVE  /\ Items(Append(s, x)) = Items(s) \cup {x}
           /\ Len(Append(s, x)) = Len(s) + 1
           /\ \A i \in 1 .. Len(s) : Append(s, x)[i] = s[i]
           /\ Append(s, x)[Len(s) + 1] = x
  <1>1. /\ Len(Append(s, x)) = Len(s) + 1
        /\ \A i \in 1 .. Len(s) : Append(s, x)[i] = s[i]
        /\ Append(s, x)[Len(s) + 1] = x
    OBVIOUS
  <1>2. 1 .. Len(s) + 1 = (1 .. Len(s)) \cup {Len(s) + 1}
    OBVIOUS
  <1> QED
    BY <1>1, <1>2 DEF Items

LEMMA ItemsTyped ==
    ASSUME NEW S, NEW s \in Seq(S)
    PROVE  Items(s) \subseteq S
  BY DEF Items

LEMMA OrderOfTail ==
    ASSUME NEW S, NEW s \in Seq(S), s # <<>>, InOrder(s)
    PROVE  /\ InOrder(Tail(s))
           /\ \A x \in Items(s) : Head(s).n =< x.n
  <1>1. \A i, j \in 1 .. Len(Tail(s)) : i =< j => Tail(s)[i].n =< Tail(s)[j].n
    BY ItemsOfTail DEF InOrder
  <1>2. ASSUME NEW x \in Items(s) PROVE Head(s).n =< x.n
    <2>1. PICK i \in 1 .. Len(s) : x = s[i]
      BY DEF Items
    <2> QED
      BY <2>1, ItemsOfTail DEF InOrder
  <1> QED
    BY <1>1, <1>2 DEF InOrder

LEMMA OrderOfAppend ==
    ASSUME NEW S, NEW s \in Seq(S), NEW x \in S, InOrder(s), x.n \in Nat,
           \A y \in Items(s) : y.n =< x.n
    PROVE  InOrder(Append(s, x))
  <1>1. \A i \in 1 .. Len(s) : s[i].n =< x.n
    BY DEF Items
  <1> QED
    BY <1>1, ItemsOfAppend DEF InOrder

\* The same of what a sequence holds of one sender.
LEMMA OrderFromTail ==
    ASSUME NEW S, NEW s \in Seq(S), s # <<>>, NEW e, InOrderFrom(s, e)
    PROVE  /\ InOrderFrom(Tail(s), e)
           /\ Head(s).src = e => \A x \in Items(s) : x.src = e => Head(s).n =< x.n
  <1>1. \A i, j \in 1 .. Len(Tail(s)) :
            i =< j /\ Tail(s)[i].src = e /\ Tail(s)[j].src = e => Tail(s)[i].n =< Tail(s)[j].n
    BY ItemsOfTail DEF InOrderFrom
  <1>2. ASSUME NEW x \in Items(s), Head(s).src = e, x.src = e PROVE Head(s).n =< x.n
    <2>1. PICK i \in 1 .. Len(s) : x = s[i]
      BY DEF Items
    <2> QED
      BY <1>2, <2>1, ItemsOfTail DEF InOrderFrom
  <1> QED
    BY <1>1, <1>2 DEF InOrderFrom

LEMMA OrderFromAppend ==
    ASSUME NEW S, NEW s \in Seq(S), NEW x \in S, NEW e, InOrderFrom(s, e), x.n \in Nat,
           x.src = e => \A y \in Items(s) : y.src = e => y.n =< x.n
    PROVE  InOrderFrom(Append(s, x), e)
  <1>1. \A i \in 1 .. Len(s) : x.src = e /\ s[i].src = e => s[i].n =< x.n
    BY DEF Items
  <1> QED
    BY <1>1, ItemsOfAppend DEF InOrderFrom

\* Garbling the argument of the first command changes no order.
LEMMA Garbled ==
    ASSUME NEW s \in Seq(Cmd), s # <<>>, NEW t, Len(t) = Len(s),
           t[1].n = s[1].n, t[1].type = s[1].type,
           \A i \in 1 .. Len(s) : i # 1 => t[i] = s[i]
    PROVE  /\ InOrder(s) => InOrder(t)
           /\ Items(t) \subseteq Items(s) \cup {t[1]}
           /\ \A x \in Items(t) : \E y \in Items(s) : x.n = y.n /\ x.type = y.type
  <1>1. \A i \in 1 .. Len(s) : t[i].n = s[i].n /\ t[i].type = s[i].type
    OBVIOUS
  <1>2. InOrder(s) => InOrder(t)
    BY <1>1 DEF InOrder
  <1>3. Items(t) \subseteq Items(s) \cup {t[1]}
    BY DEF Items
  <1>4. ASSUME NEW x \in Items(t) PROVE \E y \in Items(s) : x.n = y.n /\ x.type = y.type
    <2>1. PICK i \in 1 .. Len(s) : x = t[i]
      BY DEF Items
    <2> QED
      BY <1>1, <2>1 DEF Items
  <1> QED
    BY <1>2, <1>3, <1>4

-----------------------------------------------------------------------------
(* The order of the exchanges in the channel.                                *)

LEMMA ChannelTypes ==
    ASSUME TypeInv, NEW e \in Endpoints
    PROVE  /\ cmds[e] \in Seq(Cmd) /\ resp[e] \in Seq(Resp) /\ RecvList \in Seq(Resp)
           /\ Commands(e) \subseteq Cmd
           /\ Answers(e) \subseteq Resp /\ Received(e) \subseteq Resp
           /\ \A x \in Commands(e) \cup Returned(e) : x.n \in Nat
           /\ exch[e] \in Nat
  <1>1. cmds[e] \in Seq(Cmd) /\ resp[e] \in Seq(Resp) /\ RecvList \in Seq(Resp) /\ exch[e] \in Nat
    BY DEF TypeInv, ChannelsOK, ControlOK
  <1>2. /\ Commands(e) \subseteq Cmd
        /\ Answers(e) \subseteq Resp /\ Received(e) \subseteq Resp
    BY <1>1, ItemsTyped DEF Commands, Answers, Received
  <1>3. \A x \in Cmd \cup Resp : x.n \in Nat
    BY DEF Cmd, Resp
  <1> QED
    BY <1>1, <1>2, <1>3 DEF Returned

\* Nothing comes in: some of what was there may be gone.
LEMMA OrderedLess ==
    ASSUME TypeInv, NEW e \in Endpoints, Ordered(e), exch'[e] \in Nat, exch[e] =< exch'[e],
           Commands(e)' \subseteq Commands(e),
           Answers(e)' \subseteq Answers(e), Received(e)' \subseteq Received(e),
           InOrder(cmds[e])', InOrder(resp[e])', InOrderFrom(RecvList, e)'
    PROVE  Ordered(e)'
  <1>1. \A x \in Commands(e) \cup Returned(e) : x.n \in Nat /\ x.n =< exch[e] /\ exch[e] \in Nat
    BY ChannelTypes DEF Ordered
  <1>2. \A x \in Commands(e) \cup Returned(e) : x.n =< exch'[e]
    BY <1>1
  <1>3. Returned(e)' \subseteq Returned(e)
    BY DEF Returned
  <1> QED
    BY <1>2, <1>3 DEF Ordered

LEMMA OrderedStays ==
    ASSUME TypeInv, NEW e \in Endpoints, Ordered(e), exch'[e] \in Nat, exch[e] =< exch'[e],
           cmds'[e] = cmds[e], resp'[e] = resp[e], RecvList' = RecvList
    PROVE  Ordered(e)'
  BY OrderedLess DEF Ordered, Commands, Answers, Received

\* The head of RecvList is taken.
LEMMA OrderedTaken ==
    ASSUME TypeInv, NEW e \in Endpoints, Ordered(e), exch'[e] \in Nat, exch[e] =< exch'[e],
           cmds'[e] = cmds[e], resp'[e] = resp[e],
           RecvList # <<>>, RecvList' = Tail(RecvList)
    PROVE  Ordered(e)'
  <1>1. Items(RecvList)' \subseteq Items(RecvList) /\ InOrderFrom(RecvList, e)'
    BY ChannelTypes, ItemsOfTail, OrderFromTail DEF Ordered
  <1> QED
    BY <1>1, OrderedLess DEF Ordered, Commands, Answers, Received

\* A command is sent.
LEMMA OrderedSent ==
    ASSUME TypeInv, NEW e \in Endpoints, Ordered(e), NEW c \in Cmd, c.n = exch[e],
           cmds'[e] = Append(cmds[e], c), exch'[e] = exch[e],
           resp'[e] = resp[e], RecvList' = RecvList
    PROVE  Ordered(e)'
  <1>1. Commands(e)' = Commands(e) \cup {c}
    BY ChannelTypes, ItemsOfAppend DEF Commands
  <1>2. UNCHANGED <<Answers(e), Received(e), Returned(e)>>
    BY DEF Answers, Received, Returned
  <1>3. exch[e] \in Nat
    BY ChannelTypes
  <1>4. \A x \in Commands(e) \cup Returned(e) : x.n =< c.n
    BY DEF Ordered
  <1>5. InOrder(cmds[e])'
    BY <1>3, <1>4, ChannelTypes, OrderOfAppend DEF Ordered, Commands
  <1> QED
    BY <1>1, <1>2, <1>3, <1>4, <1>5 DEF Ordered

\* What an answer does to the channel.
LEMMA Answering ==
    ASSUME TypeInv, NEW e \in Endpoints, cmds[e] # <<>>, NEW ok \in BOOLEAN,
           Answer(e, Head(cmds[e]), ok), Ordered(e)
    PROVE  LET c == Head(cmds[e])
               r == [src |-> e, type |-> c.type, ok |-> ok, n |-> c.n]
           IN  /\ c \in Commands(e) /\ r \in Resp
               /\ \A x \in Commands(e) : c.n =< x.n
               /\ Commands(e)' \subseteq Commands(e)
               /\ Answers(e)' = Answers(e) \cup {r}
               /\ Returned(e)' = Returned(e) \cup {r}
               /\ resp'[e] = Append(resp[e], r)
               /\ InOrder(cmds[e])'
               /\ Received(e)' = Received(e) /\ exch' = exch /\ RecvList' = RecvList
  <1> DEFINE c == Head(cmds[e])
             r == [src |-> e, type |-> c.type, ok |-> ok, n |-> c.n]
  <1>1. cmds[e] \in Seq(Cmd) /\ resp[e] \in Seq(Resp)
    BY ChannelTypes
  <1>2. c \in Commands(e) /\ c \in Cmd /\ Items(Tail(cmds[e])) \subseteq Commands(e)
    BY <1>1, ItemsOfTail DEF Commands
  <1>3. r \in Resp
    BY <1>2 DEF Resp, Cmd, UpgStages
  <1>4. cmds'[e] = Tail(cmds[e]) /\ resp'[e] = Append(resp[e], r)
    BY DEF Answer, TypeInv, ChannelsOK
  <1>5. exch' = exch /\ RecvList' = RecvList
    BY DEF Answer
  <1> HIDE DEF r
  <1>6. Answers(e)' = Answers(e) \cup {r}
    BY <1>1, <1>3, <1>4, ItemsOfAppend DEF Answers
  <1>7. Commands(e)' \subseteq Commands(e) /\ Received(e)' = Received(e)
    BY <1>2, <1>4, <1>5 DEF Commands, Received
  <1>8. InOrder(cmds[e])' /\ \A x \in Commands(e) : c.n =< x.n
    BY <1>1, <1>4, OrderOfTail DEF Ordered, Commands
  <1> QED
    BY <1>2, <1>3, <1>4, <1>5, <1>6, <1>7, <1>8 DEF Returned, r

LEMMA OrderedAnswered ==
    ASSUME TypeInv, NEW e \in Endpoints, cmds[e] # <<>>, NEW ok \in BOOLEAN,
           Answer(e, Head(cmds[e]), ok), Ordered(e)
    PROVE  Ordered(e)'
  <1> DEFINE c == Head(cmds[e])
  <1>1. PICK r \in Resp :
            /\ r.src = e /\ r.n = c.n /\ c \in Commands(e)
            /\ \A x \in Commands(e) : c.n =< x.n
            /\ Commands(e)' \subseteq Commands(e)
            /\ Answers(e)' = Answers(e) \cup {r}
            /\ Returned(e)' = Returned(e) \cup {r}
            /\ resp'[e] = Append(resp[e], r)
            /\ InOrder(cmds[e])'
            /\ Received(e)' = Received(e) /\ exch' = exch /\ RecvList' = RecvList
    BY Answering
  <1>2. r.n \in Nat /\ r.n =< exch[e] /\ \A y \in Returned(e) : y.n =< r.n
    BY <1>1, ChannelTypes DEF Ordered
  <1>3. InOrder(resp[e])'
    BY <1>1, <1>2, ChannelTypes, OrderOfAppend DEF Ordered, Answers, Returned
  <1>4. \A l \in Received(e)', s \in Answers(e)' : l.n =< s.n
    BY <1>1, <1>2 DEF Ordered, Returned
  <1>5. \A s \in Returned(e)', d \in Commands(e)' : s.n =< d.n
    BY <1>1, <1>2 DEF Ordered
  <1>6. \A x \in Commands(e)' \cup Returned(e)' : x.n =< exch'[e]
    BY <1>1, <1>2 DEF Ordered
  <1>7. InOrderFrom(RecvList, e)'
    BY <1>1 DEF Ordered
  <1>8. \A s \in Answers(e)' : s.src = e
    BY <1>1 DEF Ordered
  <1> QED
    BY <1>1, <1>3, <1>4, <1>5, <1>6, <1>7, <1>8 DEF Ordered

\* The first answer of f is received.
LEMMA Delivering ==
    ASSUME TypeInv, NEW f \in Endpoints, Deliver(f), Ordered(f), NEW e \in Endpoints
    PROVE  LET r == Head(resp[f])
           IN  /\ r \in Answers(f) /\ r.src = f /\ r \in Resp
               /\ Answers(e)' \subseteq Answers(e)
               /\ Received(e)' = IF e = f THEN Received(e) \cup {r} ELSE Received(e)
               /\ Returned(e)' \subseteq Returned(e)
               /\ Commands(e)' = Commands(e) /\ cmds' = cmds /\ exch' = exch
               /\ RecvList' = Append(RecvList, r)
               /\ resp'[e] = IF e = f THEN Tail(resp[e]) ELSE resp[e]
  <1> DEFINE r == Head(resp[f])
  <1>1. resp[f] # <<>> /\ resp[f] \in Seq(Resp) /\ RecvList \in Seq(Resp)
    BY ChannelTypes DEF Deliver
  <1>2. r \in Answers(f) /\ r \in Resp /\ Items(Tail(resp[f])) \subseteq Answers(f)
    BY <1>1, ItemsOfTail DEF Answers
  <1>3. r.src = f
    BY <1>2 DEF Ordered
  <1>4. resp'[e] = IF e = f THEN Tail(resp[e]) ELSE resp[e]
    BY DEF Deliver, TypeInv, ChannelsOK
  <1>5. RecvList' = Append(RecvList, r) /\ cmds' = cmds /\ exch' = exch
    BY DEF Deliver
  <1> HIDE DEF r
  <1>6. Items(RecvList') = Items(RecvList) \cup {r}
    BY <1>1, <1>2, <1>5, ItemsOfAppend
  <1>7. Received(e)' = IF e = f THEN Received(e) \cup {r} ELSE Received(e)
    BY <1>3, <1>6 DEF Received
  <1>8. Answers(e)' \subseteq Answers(e)
    BY <1>2, <1>4 DEF Answers
  <1> QED
    BY <1>2, <1>3, <1>4, <1>5, <1>7, <1>8 DEF Returned, Commands, r

LEMMA OrderedDelivered ==
    ASSUME TypeInv, NEW f \in Endpoints, Deliver(f), NEW e \in Endpoints,
           Ordered(f), Ordered(e)
    PROVE  Ordered(e)'
  <1>1. PICK r \in Resp :
            /\ r = Head(resp[f]) /\ r \in Answers(f) /\ r.src = f
            /\ Answers(e)' \subseteq Answers(e)
            /\ Received(e)' = IF e = f THEN Received(e) \cup {r} ELSE Received(e)
            /\ Returned(e)' \subseteq Returned(e)
            /\ Commands(e)' = Commands(e) /\ cmds' = cmds /\ exch' = exch
            /\ RecvList' = Append(RecvList, r)
            /\ resp'[e] = IF e = f THEN Tail(resp[e]) ELSE resp[e]
    BY Delivering
  <1>2. r.n \in Nat /\ (e = f => \A y \in Received(e) : y.n =< r.n)
    BY <1>1 DEF Ordered, Resp
  <1>3. resp[f] \in Seq(Resp) /\ resp[f] # <<>> /\ RecvList \in Seq(Resp)
    BY ChannelTypes DEF Deliver
  <1>4. InOrder(resp[f]) => InOrder(Tail(resp[f])) /\ \A x \in Answers(f) : r.n =< x.n
    BY <1>1, <1>3, OrderOfTail DEF Answers
  <1>5. InOrder(resp[e])'
    BY <1>1, <1>4 DEF Ordered
  <1>6. r.src = e => \A y \in Items(RecvList) : y.src = e => y.n =< r.n
    BY <1>1, <1>2 DEF Received
  <1>7. InOrderFrom(RecvList, e)'
    BY <1>1, <1>2, <1>3, <1>6, OrderFromAppend DEF Ordered
  <1>8. \A l \in Received(e)', s \in Answers(e)' : l.n =< s.n
    BY <1>1, <1>4 DEF Ordered
  <1> QED
    BY <1>1, <1>5, <1>7, <1>8 DEF Ordered

LEMMA OrderedLost ==
    ASSUME TypeInv, NEW f \in Endpoints, Lose(f), NEW e \in Endpoints, Ordered(e)
    PROVE  /\ Ordered(e)'
           /\ Commands(e)' \subseteq Commands(e) /\ Returned(e)' \subseteq Returned(e)
  <1>1. cmds[e] \in Seq(Cmd) /\ resp[e] \in Seq(Resp) /\ exch[e] \in Nat
    BY ChannelTypes
  <1>2. RecvList' = RecvList /\ exch' = exch
    BY DEF Lose
  <1>3. cmds'[e] = cmds[e] \/ (cmds[e] # <<>> /\ cmds'[e] = Tail(cmds[e]))
    BY DEF Lose, TypeInv, ChannelsOK
  <1>4. resp'[e] = resp[e] \/ (resp[e] # <<>> /\ resp'[e] = Tail(resp[e]))
    BY DEF Lose, TypeInv, ChannelsOK
  <1>5. Commands(e)' \subseteq Commands(e) /\ InOrder(cmds[e])'
    BY <1>1, <1>3, ItemsOfTail, OrderOfTail DEF Commands, Ordered
  <1>6. Answers(e)' \subseteq Answers(e) /\ InOrder(resp[e])'
    BY <1>1, <1>4, ItemsOfTail, OrderOfTail DEF Answers, Ordered
  <1>7. Received(e)' = Received(e) /\ InOrderFrom(RecvList, e)'
    BY <1>2 DEF Received, Ordered
  <1> QED
    BY <1>1, <1>2, <1>5, <1>6, <1>7, OrderedLess DEF Returned

LEMMA Garbling ==
    ASSUME TypeInv, NEW m \in Targets, Garble(m)
    PROVE  /\ InOrder(cmds[m]) => InOrder(cmds[m])'
           /\ \A x \in Commands(m)' :
                 /\ \E y \in Commands(m) : x.n = y.n /\ x.type = y.type
                 /\ x \in Commands(m) \/ (x.type = "data" /\ x.arg = Bad)
  <1> DEFINE s == cmds[m]
             t == cmds'[m]
  <1>1. s \in Seq(Cmd) /\ s # <<>> /\ 1 \in 1 .. Len(s) /\ DOMAIN s = 1 .. Len(s) /\ s[1] \in Cmd
    BY ChannelTypes DEF Garble, Endpoints
  <1>2. t = [s EXCEPT ![1].arg = Bad]
    BY DEF Garble, TypeInv, ChannelsOK, Endpoints
  <1>3. s[1].type = "data"
    BY <1>1 DEF Garble
  <1> HIDE DEF s, t
  <1>4. Len(t) = Len(s) /\ (\A i \in 1 .. Len(s) : i # 1 => t[i] = s[i])
    BY <1>1, <1>2
  <1>5. t[1].n = s[1].n /\ t[1].type = s[1].type /\ t[1].arg = Bad
    BY <1>1, <1>2 DEF Cmd
  <1>6. /\ InOrder(s) => InOrder(t)
        /\ Items(t) \subseteq Items(s) \cup {t[1]}
        /\ \A x \in Items(t) : \E y \in Items(s) : x.n = y.n /\ x.type = y.type
    BY <1>1, <1>4, <1>5, Garbled
  <1> QED
    BY <1>3, <1>5, <1>6 DEF Commands, s, t

LEMMA OrderedGarbled ==
    ASSUME TypeInv, NEW m \in Targets, Garble(m), NEW e \in Endpoints, Ordered(e)
    PROVE  Ordered(e)'
  <1>1. exch[e] \in Nat /\ cmds[e] \in Seq(Cmd)
    BY ChannelTypes
  <1>2. RecvList' = RecvList /\ exch' = exch /\ resp' = resp
    BY DEF Garble
  <1>3. CASE e # m
    <2>1. cmds'[e] = cmds[e]
      BY <1>3 DEF Garble, TypeInv, ChannelsOK
    <2> QED
      BY <1>1, <1>2, <2>1, OrderedStays
  <1>4. CASE e = m
    <2>2. InOrder(cmds[e]) => InOrder(cmds[e])'
      BY <1>4, Garbling
    <2>3. \A x \in Commands(e)' : \E y \in Commands(e) : x.n = y.n
      BY <1>4, Garbling
    <2>4. UNCHANGED <<Returned(e), Answers(e), Received(e)>>
      BY <1>2 DEF Answers, Received, Returned
    <2>5. InOrder(cmds[e])' /\ InOrder(resp[e])' /\ InOrderFrom(RecvList, e)'
      BY <1>2, <2>2 DEF Ordered
    <2>6. \A x \in Commands(e)' \cup Returned(e)' : x.n =< exch'[e]
      BY <1>2, <2>3, <2>4 DEF Ordered
    <2>7. \A r \in Returned(e)', c \in Commands(e)' : r.n =< c.n
      BY <2>3, <2>4 DEF Ordered
    <2> QED
      BY <2>4, <2>5, <2>6, <2>7 DEF Ordered
  <1> QED
    BY <1>3, <1>4

\* Only the master begins exchanges.
LEMMA ExchangesGrow ==
    ASSUME TypeInv, [Next]_vars
    PROVE  \A e \in Endpoints : exch'[e] \in Nat /\ exch[e] =< exch'[e]
  <1>1. exch \in [Endpoints -> Nat]
    BY DEF TypeInv, ControlOK
  <1>2. ASSUME NEW p, exch' = [exch EXCEPT ![p] = @ + 1]
        PROVE  \A e \in Endpoints : exch'[e] \in Nat /\ exch[e] =< exch'[e]
    BY <1>1, <1>2
  <1>3. \/ exch' = exch
        \/ \E p : exch' = [exch EXCEPT ![p] = @ + 1]
    <2>1. CASE Send \/ SendError \/ SendNothing \/ Discard \/ Timeout \/ OpenFails \/ Close
      BY <2>1 DEF Send, SendError, SendNothing, Discard, Timeout, OpenFails, Close
    <2>2. CASE Accept
      <3>1. CASE SysDone
        BY <3>1 DEF SysDone, Enter, Goto
      <3>2. CASE \E e : BeginElement(e)
        BY <3>2 DEF BeginElement, Enter
      <3>3. CASE \E e, j : BeginChunk(e, j)
        BY <3>3 DEF BeginChunk, Enter
      <3>4. CASE Enter("crc", Peer, RESEND_COUNT)
        BY <3>4 DEF Enter
      <3>5. CASE SendAgain(FALSE)
        BY <3>5 DEF SendAgain, Enter, Return, Goto
      <3>6. CASE Return("ok")
        BY <3>6 DEF Return, Goto
      <3> QED
        BY <2>2, <3>1, <3>2, <3>3, <3>4, <3>5, <3>6 DEF Accept, Verdict
    <2>3. CASE GiveUp
      <3>1. CASE SysDone
        BY <3>1 DEF SysDone, Enter, Goto
      <3>2. CASE SendAgain(TRUE)
        BY <3>2 DEF SendAgain, Enter, Return, Goto
      <3>3. CASE Return("failed")
        BY <3>3 DEF Return, Goto
      <3> QED
        BY <2>3, <3>1, <3>2, <3>3 DEF GiveUp
    <2>4. CASE Open \/ Load \/ LeaveUpgradeMode
      BY <2>4 DEF Open, Load, LeaveUpgradeMode, Enter
    <2>5. CASE LoadFails
      BY <2>5 DEF LoadFails, Return, Goto
    <2>6. CASE (\E s \in Systems : SystemAnswers(s)) \/ (\E m \in Targets : ModuleAnswers(m))
      BY <2>6, ModuleAnswersOnce DEF SystemAnswers, Answer
    <2>7. CASE (\E m \in Targets : Garble(m)) \/ (\E e \in Endpoints : Deliver(e) \/ Lose(e))
      BY <2>7 DEF Garble, Deliver, Lose
    <2>8. CASE UNCHANGED vars
      BY <2>8 DEF vars
    <2> QED
      BY <2>1, <2>2, <2>3, <2>4, <2>5, <2>6, <2>7, <2>8 DEF Next, Master
  <1> QED
    BY <1>1, <1>2, <1>3

LEMMA OrderedStep ==
    ASSUME TypeInv, [Next]_vars, \A e \in Endpoints : Ordered(e)
    PROVE  \A e \in Endpoints : Ordered(e)'
  <1> SUFFICES ASSUME NEW e \in Endpoints PROVE Ordered(e)'
    OBVIOUS
  <1>1. exch'[e] \in Nat /\ exch[e] =< exch'[e] /\ exch[e] \in Nat
    BY ExchangesGrow, ChannelTypes
  <1>2. CASE Send
    <2>1. Exchanging /\ Peer \in Endpoints /\ Command \in Cmd /\ Command.n = exch[Peer]
      BY <1>2, PeerType, CommandType DEF Send, InLoop, TypeInv, Command
    <2>2. cmds'[e] = IF e = Peer THEN Append(cmds[e], Command) ELSE cmds[e]
      BY <1>2 DEF Send, TypeInv, ChannelsOK
    <2>3. UNCHANGED <<exch, resp, RecvList>>
      BY <1>2 DEF Send
    <2> QED
      BY <1>1, <2>1, <2>2, <2>3, OrderedSent, OrderedStays
  <1>3. CASE Discard \/ Accept
    <2>1. RecvList # <<>> /\ RecvList' = Tail(RecvList) /\ UNCHANGED <<cmds, resp>>
      BY <1>3 DEF Discard, Accept
    <2> QED
      BY <1>1, <2>1, OrderedTaken
  <1>4. CASE UNCHANGED <<cmds, resp, RecvList>>
    BY <1>1, <1>4, OrderedStays
  <1>5. ASSUME NEW f \in Endpoints, NEW ok \in BOOLEAN, cmds[f] # <<>>,
               Answer(f, Head(cmds[f]), ok)
        PROVE  Ordered(e)'
    <2>1. CASE e = f
      BY <1>5, <2>1, OrderedAnswered
    <2>2. CASE e # f
      <3>1. cmds'[e] = cmds[e] /\ resp'[e] = resp[e] /\ RecvList' = RecvList
        BY <1>5, <2>2 DEF Answer, TypeInv, ChannelsOK
      <3> QED
        BY <1>1, <3>1, OrderedStays
    <2> QED
      BY <2>1, <2>2
  <1>6. CASE \E s \in Systems : SystemAnswers(s)
    BY <1>5, <1>6 DEF SystemAnswers, Endpoints
  <1>7. CASE \E m \in Targets : ModuleAnswers(m)
    BY <1>5, <1>7, ModuleAnswersOnce DEF Endpoints
  <1>8. CASE \E m \in Targets : Garble(m)
    BY <1>8, OrderedGarbled
  <1>9. CASE \E f \in Endpoints : Deliver(f) \/ Lose(f)
    BY <1>9, OrderedDelivered, OrderedLost
  <1>10. CASE SendError \/ SendNothing \/ Timeout \/ GiveUp \/ Open \/ OpenFails \/ Load
    BY <1>4, <1>10 DEF SendError, SendNothing, Timeout, GiveUp, Open, OpenFails, Load
  <1>11. CASE LoadFails \/ LeaveUpgradeMode \/ Close \/ UNCHANGED vars
    BY <1>4, <1>11 DEF LoadFails, LeaveUpgradeMode, Close, vars
  <1> QED
    BY <1>2, <1>3, <1>6, <1>7, <1>8, <1>9, <1>10, <1>11 DEF Next, Master

-----------------------------------------------------------------------------
(* What comes into the channel.                                              *)

LEMMA Sending ==
    ASSUME TypeInv, Send, NEW e \in Endpoints
    PROVE  /\ Commands(e)' = IF e = Peer THEN Commands(e) \cup {Command} ELSE Commands(e)
           /\ Returned(e)' = Returned(e)
  <1>1. Exchanging /\ Peer \in Endpoints /\ Command \in Cmd
    BY PeerType, CommandType DEF Send, InLoop, TypeInv
  <1>2. cmds'[e] = IF e = Peer THEN Append(cmds[e], Command) ELSE cmds[e]
    BY DEF Send, TypeInv, ChannelsOK
  <1>3. Commands(e)' = IF e = Peer THEN Commands(e) \cup {Command} ELSE Commands(e)
    <2>1. CASE e = Peer
      <3>1. Items(Append(cmds[e], Command)) = Items(cmds[e]) \cup {Command}
        BY <1>1, ChannelTypes, ItemsOfAppend
      <3> QED
        BY <1>2, <2>1, <3>1 DEF Commands
    <2>2. CASE e # Peer
      BY <1>2, <2>2 DEF Commands
    <2> QED
      BY <2>1, <2>2
  <1>4. Returned(e)' = Returned(e)
    BY DEF Send, Returned, Answers, Received
  <1> QED
    BY <1>3, <1>4

\* A command is the one the master sends, or is garbled on its way; an answer is of the
\* type and the exchange of a command.
LEMMA Traffic ==
    ASSUME TypeInv, [Next]_vars, \A f \in Endpoints : Ordered(f), NEW e \in Endpoints
    PROVE  /\ \A x \in Commands(e)' :
                 \/ x \in Commands(e)
                 \/ Send /\ e = Peer /\ x = Command
                 \/ e \in Targets /\ Garble(e)
           /\ \A r \in Returned(e)' :
                 \/ r \in Returned(e)
                 \/ \E c \in Commands(e) : r.n = c.n /\ r.type = c.type
  <1>1. CASE Send
    BY <1>1, Sending
  <1>2. CASE Discard \/ Accept
    <2>1. RecvList # <<>> /\ RecvList' = Tail(RecvList) /\ UNCHANGED <<cmds, resp>>
      BY <1>2 DEF Discard, Accept
    <2>2. Items(RecvList)' \subseteq Items(RecvList)
      BY <2>1, ChannelTypes, ItemsOfTail
    <2> QED
      BY <2>1, <2>2 DEF Commands, Returned, Answers, Received
  <1>3. CASE UNCHANGED <<cmds, resp, RecvList>>
    BY <1>3 DEF Commands, Returned, Answers, Received
  <1>4. ASSUME NEW f \in Endpoints, NEW ok \in BOOLEAN, cmds[f] # <<>>,
               Answer(f, Head(cmds[f]), ok)
        PROVE  /\ Commands(e)' \subseteq Commands(e)
               /\ \A r \in Returned(e)' :
                     \/ r \in Returned(e)
                     \/ \E c \in Commands(e) : r.n = c.n /\ r.type = c.type
    <2>1. CASE e = f
      <3> DEFINE c == Head(cmds[e])
      <3>1. PICK r : /\ r.n = c.n /\ r.type = c.type /\ c \in Commands(e)
                     /\ Commands(e)' \subseteq Commands(e)
                     /\ Returned(e)' = Returned(e) \cup {r}
        BY <1>4, <2>1, Answering
      <3> QED
        BY <3>1
    <2>2. CASE e # f
      <3>1. cmds'[e] = cmds[e] /\ resp'[e] = resp[e] /\ RecvList' = RecvList
        BY <1>4, <2>2 DEF Answer, TypeInv, ChannelsOK
      <3> QED
        BY <3>1 DEF Commands, Returned, Answers, Received
    <2> QED
      BY <2>1, <2>2
  <1>5. CASE \E s \in Systems : SystemAnswers(s)
    BY <1>4, <1>5 DEF SystemAnswers, Endpoints
  <1>6. CASE \E m \in Targets : ModuleAnswers(m)
    BY <1>4, <1>6, ModuleAnswersOnce DEF Endpoints
  <1>7. ASSUME NEW m \in Targets, Garble(m)
        PROVE  /\ e # m => Commands(e)' = Commands(e)
               /\ Returned(e)' = Returned(e)
    BY <1>7 DEF Garble, TypeInv, ChannelsOK, Commands, Returned, Answers, Received
  <1>8. CASE \E f \in Endpoints : Deliver(f)
    BY <1>8, Delivering
  <1>9. CASE \E f \in Endpoints : Lose(f)
    BY <1>9, OrderedLost
  <1>10. CASE SendError \/ SendNothing \/ Timeout \/ GiveUp \/ Open \/ OpenFails \/ Load
    BY <1>3, <1>10 DEF SendError, SendNothing, Timeout, GiveUp, Open, OpenFails, Load
  <1>11. CASE LoadFails \/ LeaveUpgradeMode \/ Close \/ UNCHANGED vars
    BY <1>3, <1>11 DEF LoadFails, LeaveUpgradeMode, Close, vars
  <1> QED
    BY <1>1, <1>2, <1>5, <1>6, <1>7, <1>8, <1>9, <1>10, <1>11 DEF Next, Master

-----------------------------------------------------------------------------
(* The system controllers.                                                   *)

LEMMA Peers ==
    /\ \A i \in 1 .. Len(SysIds), j \in 1 .. Len(SysIds) : SysIds[i] = SysIds[j] => i = j
    /\ \A i \in 1 .. Len(Modules), j \in 1 .. Len(Modules) : Modules[i] = Modules[j] => i = j
    /\ \A i \in 1 .. Len(SysIds), j \in 1 .. Len(Modules) : SysIds[i] # Modules[j]
    /\ \A i \in 1 .. Len(SysIds) : SysIds[i] \in Systems /\ SysIds[i] \in Endpoints
    /\ \A i \in 1 .. Len(Modules) : Modules[i] \in Targets /\ Modules[i] \in Endpoints
    /\ \A s \in Systems : s \in Endpoints /\ s \notin Targets
  BY RobotUpdateAssumption, ListTypes DEF Endpoints

\* A step of the modules' part begins no exchange with a board.
LEMMA CountedAside ==
    ASSUME TypeInv, BoardsCounted, stage \in UpgStages \cup {"load"},
           k \in 1 .. Len(Modules), stage' \in UpgStages \cup {"load"},
           exch' = exch \/ exch' = [exch EXCEPT ![Modules[k]] = @ + 1]
    PROVE  BoardsCounted'
  <1>1. \A i \in 1 .. Len(SysIds) : exch'[SysIds[i]] = exch[SysIds[i]]
    BY Peers DEF TypeInv, ControlOK
  <1>2. \A i \in 1 .. Len(SysIds) : Begun(i) = 1 /\ Begun(i)' = 1
    BY DEF Begun, UpgStages
  <1>3. stage' # "open"
    BY DEF UpgStages
  <1> QED
    BY <1>1, <1>2, <1>3 DEF BoardsCounted

LEMMA SysDoneCounted ==
    ASSUME TypeInv, BoardsCounted, stage \in SysStages, SysDone
    PROVE  BoardsCounted'
  <1>1. k \in 1 .. Len(SysIds) /\ Len(SysIds) \in Nat
    BY ListTypes DEF TypeInv, InRange, ControlOK
  <1>2. CASE k < Len(SysIds)
    <2>1. k + 1 \in 1 .. Len(SysIds) /\ k' = k + 1 /\ stage' = stage
      BY <1>1, <1>2 DEF SysDone, Enter
    <2>2. exch' = [exch EXCEPT ![SysIds[k + 1]] = @ + 1]
      BY <1>2 DEF SysDone, Enter
    <2>3. ASSUME NEW i \in 1 .. Len(SysIds)
          PROVE  exch'[SysIds[i]] = IF i = k + 1 THEN exch[SysIds[i]] + 1 ELSE exch[SysIds[i]]
      BY <2>1, <2>2, Peers DEF TypeInv, ControlOK
    <2>4. stage' # "open" /\ stage \in {"enter", "exit"}
      BY <2>1 DEF SysStages
    <2>5. ASSUME NEW i \in 1 .. Len(SysIds)
          PROVE  Begun(i)' = IF i = k + 1 THEN Begun(i) + 1 ELSE Begun(i)
      BY <1>1, <2>1, <2>4 DEF Begun
    <2> QED
      BY <2>3, <2>4, <2>5 DEF BoardsCounted
  <1>3. CASE ~ (k < Len(SysIds))
    <2>1. \A i \in 1 .. Len(SysIds) : i =< k
      BY <1>1, <1>3
    <2>2. exch' = exch /\ stage' = IF stage = "enter" THEN "load" ELSE "close"
      BY <1>3 DEF SysDone, Goto
    <2> QED
      BY <2>1, <2>2 DEF BoardsCounted, Begun, SysStages
  <1> QED
    BY <1>2, <1>3

\* The modules' part of the update goes on, ends with this module, or gives up on it.
LEMMA ModuleSteps ==
    ASSUME TypeInv, stage \in UpgStages, Accept \/ GiveUp
    PROVE  /\ k \in 1 .. Len(Modules)
           /\ stage' \in UpgStages \cup {"load"}
           /\ exch' = exch \/ exch' = [exch EXCEPT ![Modules[k]] = @ + 1]
  <1>1. k \in 1 .. Len(Modules)
    BY ListTypes DEF TypeInv, ControlOK, InRange
  <1>2. stage \notin SysStages /\ Peer = Modules[k]
    BY PeerType DEF TypeInv, Exchanging, SysStages, UpgStages
  <1> DEFINE Goal == /\ stage' \in UpgStages \cup {"load"}
                     /\ exch' = exch \/ exch' = [exch EXCEPT ![Modules[k]] = @ + 1]
  <1>3. ASSUME NEW b, SendAgain(b) PROVE Goal
    BY <1>3 DEF SendAgain, Enter, Return, Goto, UpgStages
  <1>4. ASSUME NEW e, BeginElement(e) PROVE Goal
    BY <1>4 DEF BeginElement, Enter, UpgStages
  <1>5. ASSUME NEW e, NEW j, BeginChunk(e, j) PROVE Goal
    BY <1>5 DEF BeginChunk, Enter, UpgStages
  <1>6. ASSUME Enter("crc", Peer, RESEND_COUNT) PROVE Goal
    BY <1>2, <1>6 DEF Enter, UpgStages
  <1>7. ASSUME NEW v, Return(v) PROVE Goal
    BY <1>7 DEF Return, Goto
  <1> HIDE DEF Goal
  <1>8. ASSUME Accept PROVE Goal
    BY <1>2, <1>3, <1>4, <1>5, <1>6, <1>7, <1>8 DEF Accept, Verdict
  <1>9. ASSUME GiveUp PROVE Goal
    BY <1>2, <1>3, <1>7, <1>9 DEF GiveUp
  <1> QED
    BY <1>1, <1>8, <1>9 DEF Goal

LEMMA CountedStep ==
    ASSUME TypeInv, [Next]_vars, BoardsCounted
    PROVE  BoardsCounted'
  <1>1. CASE UNCHANGED <<stage, k, exch>>
    BY <1>1 DEF BoardsCounted, Begun
  <1>2. CASE Accept \/ GiveUp
    <2>1. CASE stage \in SysStages
      <3>1. stage \notin UpgStages
        BY <2>1 DEF SysStages, UpgStages
      <3>2. SysDone
        BY <1>2, <2>1, <3>1 DEF Accept, GiveUp, UpgStages, SysStages
      <3> QED
        BY <2>1, <3>2, SysDoneCounted
    <2>2. CASE stage \in UpgStages
      BY <1>2, <2>2, ModuleSteps, CountedAside
    <2> QED
      BY <1>2, <2>1, <2>2 DEF Accept, GiveUp, Waiting, Exchanging
  <1>3. CASE Open
    <2>1. k \in 1 .. Len(SysIds) /\ k' = k /\ stage' = "enter" /\ stage = "open"
      BY <1>3, ListTypes DEF Open, Enter, position, TypeInv, InRange, ControlOK
    <2>2. exch' = [exch EXCEPT ![SysIds[1]] = @ + 1] /\ 1 \in 1 .. Len(SysIds)
      BY <1>3, ListTypes DEF Open, Enter
    <2>3. \A i \in 1 .. Len(SysIds) :
             exch'[SysIds[i]] = IF i = 1 THEN exch[SysIds[i]] + 1 ELSE exch[SysIds[i]]
      BY <2>2, Peers DEF TypeInv, ControlOK
    <2>4. k = 1
      BY <1>3 DEF Open, BoardsCounted
    <2> QED
      BY <2>1, <2>3, <2>4 DEF BoardsCounted, Begun
  <1>4. CASE Load
    <2>1. k \in 1 .. Len(Modules) /\ stage = "load" /\ stage' = "start"
      BY <1>4, ListTypes DEF Load, Enter, TypeInv, ControlOK, InRange
    <2> QED
      BY <1>4, <2>1, CountedAside DEF Load, Enter, UpgStages
  <1>5. CASE LoadFails
    <2>1. k \in 1 .. Len(Modules) /\ stage = "load" /\ stage' = "load" /\ exch' = exch
      BY <1>5, ListTypes DEF LoadFails, Return, Goto, TypeInv, ControlOK, InRange
    <2> QED
      BY <2>1, CountedAside
  <1>6. CASE LeaveUpgradeMode
    <2>1. k' = 1 /\ stage' = "exit" /\ stage = "load" /\ Len(SysIds) \in Nat
      BY <1>6, ListTypes DEF LeaveUpgradeMode, Enter
    <2>2. exch' = [exch EXCEPT ![SysIds[1]] = @ + 1] /\ 1 \in 1 .. Len(SysIds)
      BY <1>6, ListTypes DEF LeaveUpgradeMode, Enter
    <2>3. \A i \in 1 .. Len(SysIds) :
             exch'[SysIds[i]] = IF i = 1 THEN exch[SysIds[i]] + 1 ELSE exch[SysIds[i]]
      BY <2>2, Peers DEF TypeInv, ControlOK
    <2> QED
      BY <2>1, <2>3 DEF BoardsCounted, Begun
  <1>7. CASE OpenFails \/ Close
    BY <1>7 DEF OpenFails, Close, BoardsCounted, Begun
  <1>8. CASE Send \/ SendError \/ SendNothing \/ Discard \/ Timeout
    BY <1>1, <1>8 DEF Send, SendError, SendNothing, Discard, Timeout, position
  <1>9. CASE (\E s \in Systems : SystemAnswers(s)) \/ (\E m \in Targets : ModuleAnswers(m))
    <2>1. UNCHANGED <<stage, position, exch>>
      BY <1>9, ModuleAnswersOnce DEF SystemAnswers, Answer
    <2> QED
      BY <1>1, <2>1 DEF position
  <1>10. CASE (\E m \in Targets : Garble(m)) \/ (\E e \in Endpoints : Deliver(e) \/ Lose(e))
    BY <1>1, <1>10 DEF Garble, Deliver, Lose, position
  <1>11. CASE UNCHANGED vars
    BY <1>1, <1>11 DEF vars, position
  <1> QED
    BY <1>2, <1>3, <1>4, <1>5, <1>6, <1>7, <1>8, <1>9, <1>10, <1>11 DEF Next, Master

LEMMA BoardOKStep ==
    ASSUME TypeInv, [Next]_vars, \A f \in Endpoints : Ordered(f), BoardsCounted,
           NEW s \in Systems, BoardOK(s)
    PROVE  BoardOK(s)'
  <1>1. s \in Endpoints /\ s \notin Targets
    BY Peers
  <1>2. ASSUME Send, s = Peer
        PROVE  \/ Command.type = "enter" /\ Command.n = 1
               \/ Command.type = "exit"  /\ Command.n = 2
    <2>1. Exchanging /\ Command.type = stage /\ Command.n = exch[Peer]
      BY <1>2 DEF Send, InLoop, Command
    <2>2. stage \in SysStages
      BY <1>1, <1>2, <2>1, PeerType DEF TypeInv, Exchanging
    <2>3. k \in 1 .. Len(SysIds) /\ Peer = SysIds[k]
      BY <2>2, ListTypes DEF Peer, TypeInv, ControlOK, InRange
    <2>4. exch[Peer] = Begun(k)
      BY <2>3 DEF BoardsCounted
    <2> QED
      BY <2>1, <2>2, <2>3, <2>4 DEF Begun, SysStages
  <1> QED
    BY <1>1, <1>2, Traffic DEF BoardOK

-----------------------------------------------------------------------------
(* What flash holds.                                                         *)

LEMMA ImageTypes ==
    ASSUME NEW m \in Targets
    PROVE  /\ Image[m] \in Seq(Nat \ {0}) /\ Len(Image[m]) \in Nat
           /\ \A e \in 1 .. Len(Image[m]) : Image[m][e] \in Nat \ {0}
  BY RobotUpdateAssumption

LEMMA BeforeFirst ==
    ASSUME NEW m \in Targets
    PROVE  Before(m, 1, 1) = {}
  <1>1. Earlier(m, 1, 1) = {}
    BY ImageTypes DEF Earlier
  <1> QED
    BY <1>1 DEF Before

LEMMA BeforeNext ==
    ASSUME NEW m \in Targets, NEW e \in 1 .. Len(Image[m]), NEW j \in 1 .. Image[m][e]
    PROVE  /\ Before(m, e, j + 1) = Before(m, e, j) \cup { << <<e, j>>, <<e, j>> >> }
           /\ \A w \in Before(m, e, j) : w[1] # <<e, j>>
  <1>1. e \in Nat /\ j \in Nat /\ Image[m][e] \in Nat
    BY ImageTypes
  <1>2. <<e, j>> \in Earlier(m, e, j + 1)
    BY <1>1 DEF Earlier
  <1>3. Earlier(m, e, j) \subseteq Earlier(m, e, j + 1)
    BY <1>1 DEF Earlier
  <1>4. ASSUME NEW p \in Earlier(m, e, j + 1), p # <<e, j>> PROVE p \in Earlier(m, e, j)
    <2>1. p \in Nat \X Nat /\ p = <<p[1], p[2]>> /\ p[1] \in Nat /\ p[2] \in Nat
      BY DEF Earlier
    <2>2. p[1] # e \/ p[2] # j
      BY <1>4, <2>1
    <2> QED
      BY <1>1, <2>1, <2>2 DEF Earlier
  <1>5. Earlier(m, e, j + 1) = Earlier(m, e, j) \cup { <<e, j>> }
    BY <1>2, <1>3, <1>4
  <1>6. <<e, j>> \notin Earlier(m, e, j)
    BY <1>1 DEF Earlier
  <1> QED
    BY <1>5, <1>6 DEF Before

LEMMA BeforeElement ==
    ASSUME NEW m \in Targets, NEW e \in 1 .. Len(Image[m])
    PROVE  Before(m, e, Image[m][e] + 1) = Before(m, e + 1, 1)
  <1>1. e \in Nat /\ Image[m][e] \in Nat
    BY ImageTypes
  <1>2. ASSUME NEW p \in Nat \X Nat, p[1] \in 1 .. Len(Image[m]), p[2] \in 1 .. Image[m][p[1]]
        PROVE  p[1] < e \/ (p[1] = e /\ p[2] < Image[m][e] + 1)
               <=> p[1] < e + 1 \/ (p[1] = e + 1 /\ p[2] < 1)
    <2>1. p[1] \in Nat /\ p[2] \in Nat /\ p[2] >= 1 /\ (p[1] = e => p[2] =< Image[m][e])
      BY <1>2
    <2> QED
      BY <1>1, <2>1
  <1>3. Earlier(m, e, Image[m][e] + 1) = Earlier(m, e + 1, 1)
    BY <1>2 DEF Earlier
  <1> QED
    BY <1>3 DEF Before

LEMMA BeforeEnd ==
    ASSUME NEW m \in Targets, flash[m] = Before(m, Len(Image[m]) + 1, 1)
    PROVE  FlashIsImage(m)
  <1> DEFINE Of(e) == { << <<e, j>>, <<e, j>> >> : j \in 1 .. Image[m][e] }
             All   == UNION { Of(e) : e \in 1 .. Len(Image[m]) }
  <1>1. ASSUME NEW w \in flash[m] PROVE w \in All
    <2>1. PICK p \in Earlier(m, Len(Image[m]) + 1, 1) : w = <<p, p>>
      BY <1>1 DEF Before
    <2>2. p[1] \in 1 .. Len(Image[m]) /\ p[2] \in 1 .. Image[m][p[1]] /\ p = <<p[1], p[2]>>
      BY <2>1 DEF Earlier
    <2>3. w \in Of(p[1])
      BY <2>1, <2>2
    <2> HIDE DEF Of
    <2> QED
      BY <2>2, <2>3
  <1>2. ASSUME NEW w \in All PROVE w \in flash[m]
    <2>1. PICK e \in 1 .. Len(Image[m]) : w \in Of(e)
      OBVIOUS
    <2>2. PICK j \in 1 .. Image[m][e] : w = << <<e, j>>, <<e, j>> >>
      BY <2>1
    <2>3. e \in Nat /\ j \in Nat /\ e < Len(Image[m]) + 1
      BY ImageTypes
    <2>4. <<e, j>> \in Earlier(m, Len(Image[m]) + 1, 1)
      BY <2>3 DEF Earlier
    <2> QED
      BY <2>2, <2>4 DEF Before
  <1> QED
    BY <1>1, <1>2 DEF FlashIsImage

-----------------------------------------------------------------------------
(* A module within an exchange.                                              *)

\* A step that sends nothing to m, and in which m does nothing.
Kept(m) ==
    /\ Commands(m)' \subseteq Commands(m)
    /\ Returned(m)' \subseteq Returned(m)
    /\ exch'[m] = exch[m]
    /\ buf'[m] = buf[m] /\ written'[m] = written[m]
    /\ addr'[m] = addr[m] /\ flash'[m] = flash[m]

LEMMA KeptExchange ==
    ASSUME NEW m \in Targets, NEW st, NEW e, NEW j, InExchange(m, st, e, j), Kept(m)
    PROVE  InExchange(m, st, e, j)'
  <1>1. Holds(m, st, e, j)'
    BY DEF InExchange, Kept, Holds
  <1>2. \A c \in Commands(m)' :
           \/ c.n = exch'[m] /\ OfNow(m, st, e, j, c)
           \/ c.n + 1 = exch'[m] /\ OfBefore(m, st, e, j, c)'
    BY DEF InExchange, Kept, OfBefore
  <1>3. \A r \in Returned(m)' :
           \/ r.n = exch'[m] /\ Tells(m, st, e, j, r)'
           \/ r.n + 1 = exch'[m] /\ r.type # st
    BY DEF InExchange, Kept, Tells
  <1> QED
    BY <1>1, <1>2, <1>3 DEF InExchange, Placed, OfNow

LEMMA KeptUntouched ==
    ASSUME NEW m \in Targets, Untouched(m), Kept(m), result'[m] # "ok"
    PROVE  Untouched(m)'
  BY DEF Untouched, Kept

\* One more command of the exchange.
LEMMA SentExchange ==
    ASSUME NEW m \in Targets, NEW st, NEW e, NEW j, InExchange(m, st, e, j),
           NEW c, OfNow(m, st, e, j, c), c.n = exch[m],
           \A x \in Commands(m)' : x \in Commands(m) \/ x = c,
           Returned(m)' = Returned(m), exch'[m] = exch[m], UNCHANGED boards
    PROVE  InExchange(m, st, e, j)'
  <1>1. Holds(m, st, e, j)'
    BY DEF InExchange, Holds, boards
  <1>2. \A x \in Commands(m)' :
           \/ x.n = exch'[m] /\ OfNow(m, st, e, j, x)
           \/ x.n + 1 = exch'[m] /\ OfBefore(m, st, e, j, x)'
    BY DEF InExchange, OfBefore, boards
  <1>3. \A r \in Returned(m)' :
           \/ r.n = exch'[m] /\ Tells(m, st, e, j, r)'
           \/ r.n + 1 = exch'[m] /\ r.type # st
    BY DEF InExchange, Tells, boards
  <1> QED
    BY <1>1, <1>2, <1>3 DEF InExchange, Placed, OfNow

\* Data garbled on its way.
LEMMA GarbledExchange ==
    ASSUME TypeInv, NEW m \in Targets, Garble(m), Ordered(m),
           NEW st, NEW e, NEW j, InExchange(m, st, e, j)
    PROVE  InExchange(m, st, e, j)'
  <1>1. /\ UNCHANGED boards /\ exch' = exch
        /\ Returned(m)' = Returned(m)
    BY DEF Garble, Returned, Answers, Received
  <1>2. \A x \in Commands(m)' :
           /\ \E y \in Commands(m) : x.n = y.n /\ x.type = y.type
           /\ x \in Commands(m) \/ (x.type = "data" /\ x.arg = Bad)
    BY Garbling
  <1>3. Holds(m, st, e, j)'
    BY <1>1, <1>2 DEF InExchange, Holds, boards
  <1>4. ASSUME NEW x \in Commands(m)'
        PROVE  \/ x.n = exch'[m] /\ OfNow(m, st, e, j, x)
               \/ x.n + 1 = exch'[m] /\ OfBefore(m, st, e, j, x)'
    <2>1. CASE x \in Commands(m)
      BY <1>1, <2>1 DEF InExchange, OfBefore, boards
    <2>2. CASE x.type = "data" /\ x.arg = Bad
      <3>1. PICK y \in Commands(m) : x.n = y.n /\ x.type = y.type
        BY <1>2
      <3> QED
        BY <1>1, <2>2, <3>1 DEF InExchange, OfNow, OfBefore
    <2> QED
      BY <1>2, <2>1, <2>2
  <1>5. \A r \in Returned(m)' :
           \/ r.n = exch'[m] /\ Tells(m, st, e, j, r)'
           \/ r.n + 1 = exch'[m] /\ r.type # st
    BY <1>1 DEF InExchange, Tells, boards
  <1> QED
    BY <1>3, <1>4, <1>5 DEF InExchange, Placed, OfNow

-----------------------------------------------------------------------------
(* A module carries out a command.                                           *)

\* The command c is taken and answered by r.
Answered(m, c, r) ==
    /\ c = Head(cmds[m]) /\ c \in Commands(m)
    /\ r.n = c.n /\ r.type = c.type
    /\ \A x \in Commands(m) : c.n =< x.n
    /\ Commands(m)' \subseteq Commands(m)
    /\ Returned(m)' = Returned(m) \cup {r}
    /\ exch' = exch

LEMMA ModuleAnswering ==
    ASSUME TypeInv, NEW m \in Targets, cmds[m] # <<>>, Ordered(m), NEW ok \in BOOLEAN,
           Answer(m, Head(cmds[m]), ok)
    PROVE  \E r : Answered(m, Head(cmds[m]), r) /\ r.ok = ok
  <1> DEFINE c == Head(cmds[m])
             r == [src |-> m, type |-> c.type, ok |-> ok, n |-> c.n]
  <1>1. m \in Endpoints
    BY DEF Endpoints
  <1>2. r.n = c.n /\ r.type = c.type /\ r.ok = ok
    OBVIOUS
  <1>3. /\ c \in Commands(m)
        /\ \A x \in Commands(m) : c.n =< x.n
        /\ Commands(m)' \subseteq Commands(m)
        /\ Returned(m)' = Returned(m) \cup {r}
        /\ exch' = exch
    BY <1>1, Answering
  <1> HIDE DEF r
  <1> QED
    BY <1>2, <1>3 DEF Answered

\* A command of the exchange before leaves the module as it should be.
LEMMA AgainExchange ==
    ASSUME TypeInv, NEW m \in Targets, ModuleAnswers(m), Ordered(m),
           NEW st, NEW e, NEW j, InExchange(m, st, e, j),
           Head(cmds[m]).n + 1 = exch[m]
    PROVE  InExchange(m, st, e, j)'
  <1> DEFINE c == Head(cmds[m])
  <1>1. cmds[m] # <<>> /\ \E ok \in BOOLEAN : Answer(m, c, ok)
    BY ModuleAnswersOnce
  <1>2. PICK r : Answered(m, c, r)
    BY <1>1, ModuleAnswering
  <1>3. exch[m] \in Nat /\ c.n \in Nat /\ m \in Endpoints
    BY <1>2, ChannelTypes DEF Answered, Endpoints
  <1>4. OfBefore(m, st, e, j, c) /\ c.n # exch[m]
    BY <1>2, <1>3 DEF InExchange, Answered
  <1>5. \A x \in Returned(m) : x.n \in Nat /\ x.n # exch[m]
    BY <1>2, <1>3, ChannelTypes DEF Ordered, Answered
  <1>6. \A x \in Returned(m)' : x.n + 1 = exch'[m] /\ x.type # st
    BY <1>2, <1>4, <1>5 DEF InExchange, Answered, OfBefore
  <1>7. \A x \in Commands(m)' :
           \/ x.n = exch'[m] /\ OfNow(m, st, e, j, x)
           \/ x.n + 1 = exch'[m] /\ OfBefore(m, st, e, j, x)
    BY <1>2 DEF InExchange, Answered
  <1>8. st = "crc" => ~ written[m] /\ addr[m] = <<e, j>> /\ flash[m] = Before(m, e, j)
    BY <1>2, <1>4 DEF InExchange, Holds, Answered
  <1>9. st # "crc" => flash[m] = Before(m, e, j)
    BY DEF InExchange, Holds
  <1>10. Placed(m, st, e, j)
    BY DEF InExchange
  <1> DEFINE Goal == /\ Holds(m, st, e, j)'
                     /\ \A x : OfBefore(m, st, e, j, x) => OfBefore(m, st, e, j, x)'
  <1>11. ASSUME c.type = "start" PROVE Goal
    <2>1. flash'[m] = {} /\ UNCHANGED <<buf, written, addr>>
      BY <1>11 DEF ModuleAnswers, TypeInv, BoardsOK
    <2>2. e = 1 /\ j = 1 /\ st \in {"addr", "end"}
      BY <1>4, <1>10, <1>11 DEF OfBefore, Placed
    <2>3. Holds(m, st, e, j)'
      BY <2>1, <2>2, BeforeFirst DEF Holds
    <2> QED
      BY <2>1, <2>3 DEF OfBefore
  <1>12. ASSUME c.type = "addr" PROVE Goal
    <2>1. addr'[m] = c.arg /\ UNCHANGED <<buf, written, flash>>
      BY <1>12 DEF ModuleAnswers, TypeInv, BoardsOK
    <2>2. st = "data" /\ c.arg = <<e, j>>
      BY <1>4, <1>12 DEF OfBefore
    <2>3. Holds(m, st, e, j)'
      BY <1>9, <2>1, <2>2 DEF Holds
    <2> QED
      BY <2>1, <2>3 DEF OfBefore
  <1>13. ASSUME c.type = "data" PROVE Goal
    <2>1. UNCHANGED <<addr, flash>>
      BY <1>13 DEF ModuleAnswers
    <2>2. ~ written'[m]
      BY <1>13, Zenon DEF ModuleAnswers, TypeInv, BoardsOK
    <2>3. st = "crc"
      BY <1>4, <1>13 DEF OfBefore
    <2>4. Holds(m, st, e, j)'
      BY <1>8, <2>1, <2>2, <2>3 DEF Holds
    <2>5. \A x : OfBefore(m, st, e, j, x) => OfBefore(m, st, e, j, x)'
      BY <2>3 DEF OfBefore
    <2> QED
      BY <2>4, <2>5
  <1>14. ASSUME c.type = "crc" PROVE Goal
    <2>1. ~ (buf[m] = c.arg /\ ~ written[m])
      BY <1>4, <1>14 DEF OfBefore
    <2>2. UNCHANGED <<buf, written, addr, flash>>
      BY <1>14, <2>1 DEF ModuleAnswers
    <2>3. st # "crc"
      BY <1>4, <1>14 DEF OfBefore
    <2>4. Holds(m, st, e, j)'
      BY <2>2, <2>3 DEF InExchange, Holds
    <2> QED
      BY <2>2, <2>4 DEF OfBefore
  <1>15. c.type \in {"start", "addr", "data", "crc"}
    BY <1>4 DEF OfBefore, ModuleAnswers
  <1>16. Goal
    BY <1>11, <1>12, <1>13, <1>14, <1>15
  <1> HIDE DEF Goal
  <1>17. /\ Holds(m, st, e, j)'
         /\ \A x : OfBefore(m, st, e, j, x) => OfBefore(m, st, e, j, x)'
    BY <1>16 DEF Goal
  <1> QED
    BY <1>6, <1>7, <1>10, <1>17 DEF InExchange, Placed, OfNow

\* A command of the exchange itself does what the exchange is for.
LEMMA NowExchange ==
    ASSUME TypeInv, NEW m \in Targets, ModuleAnswers(m), Ordered(m),
           NEW st, NEW e, NEW j, InExchange(m, st, e, j),
           Head(cmds[m]).n = exch[m]
    PROVE  InExchange(m, st, e, j)'
  <1> DEFINE c == Head(cmds[m])
  <1>1. cmds[m] # <<>> /\ m \in Endpoints
    BY DEF ModuleAnswers, Endpoints
  <1>2. exch[m] \in Nat /\ \A x \in Commands(m) \cup Returned(m) : x.n \in Nat /\ x.n =< exch[m]
    BY <1>1, ChannelTypes DEF Ordered
  <1>3. Placed(m, st, e, j) /\ Holds(m, st, e, j)
    BY DEF InExchange
  <1> DEFINE Goal(r) ==
             /\ Holds(m, st, e, j)'
             /\ \A x \in Returned(m) : Tells(m, st, e, j, x) => Tells(m, st, e, j, x)'
             /\ Tells(m, st, e, j, r)'
  <1>4. ASSUME NEW r, Answered(m, c, r), c.type = st, OfNow(m, st, e, j, c), Goal(r)
        PROVE  InExchange(m, st, e, j)'
    <2>1. \A x \in Commands(m)' : x.n = exch'[m] /\ OfNow(m, st, e, j, x)
      BY <1>2, <1>4 DEF Answered, InExchange
    <2>2. \A x \in Returned(m)' :
             \/ x.n = exch'[m] /\ Tells(m, st, e, j, x)'
             \/ x.n + 1 = exch'[m] /\ x.type # st
      BY <1>4 DEF Answered, InExchange
    <2> QED
      BY <1>3, <1>4, <2>1, <2>2 DEF InExchange, Placed, OfNow
  <1>5. ASSUME NEW r, Answered(m, c, r)
        PROVE  c.type = st /\ OfNow(m, st, e, j, c) /\ \A x \in Commands(m)' : x.n = exch'[m]
    BY <1>2, <1>5 DEF Answered, InExchange, OfNow
  <1>6. CASE c.type = "start"
    <2>1. flash'[m] = {} /\ UNCHANGED <<buf, written, addr>> /\ Answer(m, c, TRUE)
      BY <1>6 DEF ModuleAnswers, TypeInv, BoardsOK
    <2>2. PICK r : Answered(m, c, r)
      BY <1>1, <2>1, ModuleAnswering
    <2>3. st = "start" /\ e = 1 /\ j = 1
      BY <1>3, <1>5, <1>6, <2>2 DEF Placed
    <2>4. Goal(r)
      BY <2>1, <2>2, <2>3, <1>6, BeforeFirst DEF Holds, Tells, Answered
    <2> QED
      BY <1>4, <1>5, <2>2, <2>4
  <1>7. CASE c.type = "addr"
    <2>1. addr'[m] = c.arg /\ UNCHANGED <<buf, written, flash>> /\ Answer(m, c, TRUE)
      BY <1>7 DEF ModuleAnswers, TypeInv, BoardsOK
    <2>2. PICK r : Answered(m, c, r)
      BY <1>1, <2>1, ModuleAnswering
    <2>3. st = "addr" /\ c.arg = <<e, 1>>
      BY <1>5, <1>7, <2>2 DEF OfNow
    <2>4. Goal(r)
      BY <1>3, <1>7, <2>1, <2>2, <2>3 DEF Holds, Tells, Answered
    <2> QED
      BY <1>4, <1>5, <2>2, <2>4
  <1>8. CASE c.type = "data"
    <2>1. UNCHANGED <<addr, flash>> /\ Answer(m, c, TRUE)
      BY <1>8 DEF ModuleAnswers
    <2>2. ~ written'[m]
      BY <1>8, Zenon DEF ModuleAnswers, TypeInv, BoardsOK
    <2>3. PICK r : Answered(m, c, r)
      BY <1>1, <2>1, ModuleAnswering
    <2>4. st = "data"
      BY <1>5, <1>8, <2>3
    <2>5. Goal(r)
      BY <1>3, <1>8, <2>1, <2>2, <2>3, <2>4 DEF Holds, Tells, Answered
    <2> QED
      BY <1>4, <1>5, <2>3, <2>5
  <1>9. CASE c.type = "crc" /\ buf[m] = c.arg /\ ~ written[m]
    <2>1. /\ flash'[m] = { w \in flash[m] : w[1] # addr[m] } \cup { <<addr[m], c.arg>> }
          /\ addr'[m] = <<addr[m][1], addr[m][2] + 1>>
          /\ buf' = buf /\ Answer(m, c, TRUE)
      BY <1>9 DEF ModuleAnswers, TypeInv, BoardsOK
    <2>2. written'[m]
      BY <1>9, Zenon DEF ModuleAnswers, TypeInv, BoardsOK
    <2>3. PICK r : Answered(m, c, r) /\ r.ok = TRUE
      BY <1>1, <2>1, ModuleAnswering
    <2>4. st = "crc" /\ c.arg = <<e, j>>
      BY <1>5, <1>9, <2>3 DEF OfNow
    <2>5. addr[m] = <<e, j>> /\ flash[m] = Before(m, e, j)
      BY <1>3, <1>9, <2>4 DEF Holds
    <2>6. e \in 1 .. Len(Image[m]) /\ j \in 1 .. Image[m][e]
      BY <1>3, <2>4, ImageTypes DEF Placed
    <2>7. flash'[m] = Before(m, e, j + 1)
      BY <2>1, <2>4, <2>5, <2>6, BeforeNext
    <2>8. Holds(m, st, e, j)'
      BY <1>5, <1>9, <2>1, <2>2, <2>3, <2>4, <2>5, <2>7 DEF Holds
    <2>9. \A x \in Returned(m) : ~ Tells(m, st, e, j, x)
      BY <1>9, <2>4 DEF Tells
    <2>10. Tells(m, st, e, j, r)'
      BY <1>9, <2>2, <2>3, <2>4 DEF Tells, Answered
    <2> QED
      BY <1>4, <1>5, <2>3, <2>8, <2>9, <2>10
  <1>10. CASE c.type = "crc" /\ (buf[m] # c.arg \/ written[m])
    <2>1. UNCHANGED <<buf, written, addr, flash>> /\ Answer(m, c, buf[m] = c.arg)
      BY <1>10 DEF ModuleAnswers
    <2>2. PICK r : Answered(m, c, r) /\ r.ok = (buf[m] = c.arg)
      BY <1>1, <2>1, ModuleAnswering
    <2>3. st = "crc" /\ c.arg = <<e, j>>
      BY <1>5, <1>10, <2>2 DEF OfNow
    <2>4. Holds(m, st, e, j)'
      BY <1>3, <1>5, <2>1, <2>2 DEF Holds, Answered
    <2>5. Tells(m, st, e, j, r)'
      BY <1>3, <1>10, <2>1, <2>2, <2>3 DEF Tells, Holds, Answered
    <2>6. \A x \in Returned(m) : Tells(m, st, e, j, x) => Tells(m, st, e, j, x)'
      BY <2>1 DEF Tells
    <2> QED
      BY <1>4, <1>5, <2>2, <2>4, <2>5, <2>6
  <1>11. CASE c.type = "end"
    <2>1. UNCHANGED <<buf, written, addr, flash>> /\ Answer(m, c, TRUE)
      BY <1>11 DEF ModuleAnswers
    <2>2. PICK r : Answered(m, c, r)
      BY <1>1, <2>1, ModuleAnswering
    <2>3. st = "end"
      BY <1>5, <1>11, <2>2
    <2>4. Goal(r)
      BY <1>3, <1>11, <2>1, <2>2, <2>3 DEF Holds, Tells, Answered
    <2> QED
      BY <1>4, <1>5, <2>2, <2>4
  <1> QED
    BY <1>6, <1>7, <1>8, <1>9, <1>10, <1>11 DEF ModuleAnswers

LEMMA AnsweredExchange ==
    ASSUME TypeInv, NEW m \in Targets, ModuleAnswers(m), Ordered(m),
           NEW st, NEW e, NEW j, InExchange(m, st, e, j)
    PROVE  InExchange(m, st, e, j)'
  <1>1. cmds[m] # <<>> /\ cmds[m] \in Seq(Cmd)
    BY ChannelTypes DEF ModuleAnswers, Endpoints
  <1>2. Head(cmds[m]) \in Commands(m)
    BY <1>1, ItemsOfTail DEF Commands
  <1> QED
    BY <1>2, AgainExchange, NowExchange DEF InExchange

-----------------------------------------------------------------------------
(* The master takes an answer and goes on to the next exchange.              *)

\* The answer it takes is of the exchange, and so is everything behind it.
LEMMA TakenIsOfNow ==
    ASSUME TypeInv, NEW m \in Targets, Ordered(m),
           NEW st, NEW e, NEW j, InExchange(m, st, e, j),
           RecvList # <<>>, Head(RecvList).src = m, Head(RecvList).type = st
    PROVE  /\ Head(RecvList).n = exch[m]
           /\ Tells(m, st, e, j, Head(RecvList))
           /\ \A c \in Commands(m) : c.n = exch[m] /\ OfNow(m, st, e, j, c)
           /\ \A x \in Returned(m)' : RecvList' = Tail(RecvList) /\ UNCHANGED resp =>
                 x.n = exch[m] /\ x.type = st
  <1> DEFINE r == Head(RecvList)
  <1>1. m \in Endpoints /\ RecvList \in Seq(Resp)
    BY ChannelTypes DEF Endpoints
  <1>2. r \in Received(m) /\ r \in Returned(m)
    BY <1>1, ItemsOfTail DEF Received, Returned
  <1>3. exch[m] \in Nat /\ \A x \in Commands(m) \cup Returned(m) : x.n \in Nat /\ x.n =< exch[m]
    BY <1>1, ChannelTypes DEF Ordered
  <1>4. r.n = exch[m] /\ Tells(m, st, e, j, r)
    BY <1>2 DEF InExchange
  <1>5. \A c \in Commands(m) : c.n = exch[m]
    BY <1>2, <1>3, <1>4 DEF Ordered
  <1>6. \A c \in Commands(m) : OfNow(m, st, e, j, c)
    BY <1>3, <1>5 DEF InExchange
  <1>7. ASSUME NEW x \in Returned(m) PROVE x.n = exch[m] /\ x.type = st
    <2>1. r.n =< x.n
      <3>1. CASE x \in Answers(m)
        BY <1>2, <3>1 DEF Ordered
      <3>2. CASE x \in Received(m)
        BY <1>1, <3>2, OrderFromTail DEF Ordered, Received
      <3> QED
        BY <3>1, <3>2 DEF Returned
    <2>2. x.n = exch[m]
      BY <1>3, <1>4, <2>1
    <2> QED
      BY <1>3, <2>2 DEF InExchange, Tells
  <1>8. ASSUME RecvList' = Tail(RecvList), UNCHANGED resp PROVE Returned(m)' \subseteq Returned(m)
    BY <1>1, <1>8, ItemsOfTail DEF Returned, Answers, Received
  <1> QED
    BY <1>4, <1>5, <1>6, <1>7, <1>8

LEMMA NextExchange ==
    ASSUME NEW m \in Targets, exch[m] \in Nat,
           NEW st, NEW e, NEW j, InExchange(m, st, e, j),
           \A c \in Commands(m) : c.n = exch[m] /\ OfNow(m, st, e, j, c),
           \A x \in Returned(m)' : x.n = exch[m] /\ x.type = st,
           Commands(m)' = Commands(m), exch'[m] = exch[m] + 1,
           NEW st2, NEW e2, NEW j2, st2 # st,
           Placed(m, st2, e2, j2), Holds(m, st2, e2, j2)',
           \A c : OfNow(m, st, e, j, c) => OfBefore(m, st2, e2, j2, c)'
    PROVE  InExchange(m, st2, e2, j2)'
  <1>1. \A c \in Commands(m)' : c.n + 1 = exch'[m] /\ OfBefore(m, st2, e2, j2, c)'
    OBVIOUS
  <1>2. \A x \in Returned(m)' : x.n + 1 = exch'[m] /\ x.type # st2
    OBVIOUS
  <1> QED
    BY <1>1, <1>2 DEF InExchange, Placed

\* The next element, or the end flag after the last: from a start flag or the checksum of
\* the last chunk of an element.
LEMMA ToElement ==
    ASSUME NEW m \in Targets, NEW st, NEW e, NEW j, InExchange(m, st, e, j),
           NEW e2 \in 1 .. Len(Image[m]) + 1, UNCHANGED boards,
           \/ st = "start" /\ e2 = 1
           \/ st = "crc" /\ written[m] /\ j = Image[m][e] /\ e2 = e + 1,
           NEW st2, st2 = IF e2 =< Len(Image[m]) THEN "addr" ELSE "end"
    PROVE  /\ Placed(m, st2, e2, 1) /\ Holds(m, st2, e2, 1)'
           /\ \A c : OfNow(m, st, e, j, c) => OfBefore(m, st2, e2, 1, c)'
  <1>1. Len(Image[m]) \in Nat
    BY ImageTypes
  <1>2. Placed(m, st2, e2, 1)
    BY <1>1 DEF Placed, UpgStages
  <1>3. CASE st = "start" /\ e2 = 1
    <2>1. e = 1 /\ j = 1 /\ flash[m] = Before(m, 1, 1)
      BY <1>3 DEF InExchange, Placed, Holds
    <2>2. Holds(m, st2, e2, 1)'
      BY <1>3, <2>1 DEF Holds, boards
    <2>3. \A c : OfNow(m, st, e, j, c) => OfBefore(m, st2, e2, 1, c)'
      BY <1>3 DEF OfNow, OfBefore
    <2> QED
      BY <1>2, <2>2, <2>3
  <1>4. CASE st = "crc" /\ written[m] /\ j = Image[m][e] /\ e2 = e + 1
    <2>1. flash[m] = Before(m, e, j + 1) /\ e \in 1 .. Len(Image[m])
      BY <1>1, <1>4 DEF InExchange, Holds, Placed
    <2>2. flash[m] = Before(m, e2, 1)
      BY <1>4, <2>1, BeforeElement
    <2>3. Holds(m, st2, e2, 1)'
      BY <2>2 DEF Holds, boards
    <2>4. \A c : OfNow(m, st, e, j, c) => OfBefore(m, st2, e2, 1, c)'
      BY <1>4 DEF OfNow, OfBefore, boards
    <2> QED
      BY <1>2, <2>3, <2>4
  <1> QED
    BY <1>3, <1>4

\* Data: the first chunk after the address, the next after a checksum that matched, and the
\* same again after one that did not.
LEMMA ToData ==
    ASSUME NEW m \in Targets, NEW st, NEW e, NEW j, InExchange(m, st, e, j), NEW j2,
           UNCHANGED boards,
           \/ st = "addr" /\ addr[m] = <<e, 1>> /\ j2 = 1
           \/ st = "crc" /\ written[m] /\ j < Image[m][e] /\ j2 = j + 1
           \/ st = "crc" /\ ~ written[m] /\ buf[m] # <<e, j>> /\ j2 = j
    PROVE  /\ Placed(m, "data", e, j2) /\ Holds(m, "data", e, j2)'
           /\ \A c : OfNow(m, st, e, j, c) => OfBefore(m, "data", e, j2, c)'
  <1>1. /\ Len(Image[m]) \in Nat
        /\ e \in 1 .. Len(Image[m]) /\ j \in Nat \ {0}
        /\ Image[m][e] \in Nat \ {0}
    <2>1. Len(Image[m]) \in Nat
      BY ImageTypes
    <2>2. e \in 1 .. Len(Image[m]) /\ j \in Nat \ {0}
      BY <2>1 DEF InExchange, Placed
    <2> QED
      BY <2>1, <2>2, ImageTypes
  <1>2. CASE st = "addr" /\ addr[m] = <<e, 1>> /\ j2 = 1
    <2>1. Placed(m, "data", e, j2)
      BY <1>1, <1>2 DEF Placed, UpgStages
    <2>2. j = 1 /\ flash[m] = Before(m, e, 1)
      BY <1>2 DEF InExchange, Placed, Holds
    <2>3. Holds(m, "data", e, j2)'
      BY <1>2, <2>2 DEF Holds, boards
    <2>4. \A c : OfNow(m, st, e, j, c) => OfBefore(m, "data", e, j2, c)'
      BY <1>2 DEF OfNow, OfBefore
    <2> QED
      BY <2>1, <2>3, <2>4
  <1>3. CASE st = "crc" /\ written[m] /\ j < Image[m][e] /\ j2 = j + 1
    <2>1. Placed(m, "data", e, j2)
      BY <1>1, <1>3 DEF Placed, UpgStages
    <2>2. addr[m] = <<e, j + 1>> /\ flash[m] = Before(m, e, j + 1)
      BY <1>3 DEF InExchange, Holds
    <2>3. Holds(m, "data", e, j2)'
      BY <1>3, <2>2 DEF Holds, boards
    <2>4. \A c : OfNow(m, st, e, j, c) => OfBefore(m, "data", e, j2, c)'
      BY <1>3 DEF OfNow, OfBefore, boards
    <2> QED
      BY <2>1, <2>3, <2>4
  <1>4. CASE st = "crc" /\ ~ written[m] /\ buf[m] # <<e, j>> /\ j2 = j
    <2>1. Placed(m, "data", e, j2)
      BY <1>1, <1>4 DEF InExchange, Placed, UpgStages
    <2>2. addr[m] = <<e, j>> /\ flash[m] = Before(m, e, j)
      BY <1>4 DEF InExchange, Holds
    <2>3. Holds(m, "data", e, j2)'
      BY <1>4, <2>2 DEF Holds, boards
    <2>4. \A c : OfNow(m, st, e, j, c) => OfBefore(m, "data", e, j2, c)'
      BY <1>4 DEF OfNow, OfBefore, boards
    <2> QED
      BY <2>1, <2>3, <2>4
  <1> QED
    BY <1>2, <1>3, <1>4

LEMMA ToChecksum ==
    ASSUME NEW m \in Targets, NEW e, NEW j, InExchange(m, "data", e, j),
           ~ written[m], UNCHANGED boards
    PROVE  /\ Placed(m, "crc", e, j) /\ Holds(m, "crc", e, j)'
           /\ \A c : OfNow(m, "data", e, j, c) => OfBefore(m, "crc", e, j, c)'
  <1>1. Placed(m, "crc", e, j)
    BY DEF InExchange, Placed, UpgStages
  <1>2. Holds(m, "crc", e, j)'
    BY DEF InExchange, Holds, boards
  <1>3. \A c : OfNow(m, "data", e, j, c) => OfBefore(m, "crc", e, j, c)'
    BY DEF OfNow, OfBefore
  <1> QED
    BY <1>1, <1>2, <1>3

-----------------------------------------------------------------------------
(* Every step keeps every module where it should be.                         *)

\* The master deals with module m.
Turn(m) == stage \in UpgStages \cup {"load"} /\ k \in 1 .. Len(Modules) /\ m = Modules[k]

LEMMA KeptQuiet ==
    ASSUME TypeInv, NEW m \in Targets, UNCHANGED <<boards, cmds, resp>>, exch'[m] = exch[m],
           RecvList' = RecvList \/ (RecvList # <<>> /\ RecvList' = Tail(RecvList))
    PROVE  Kept(m)
  <1>1. Items(RecvList)' \subseteq Items(RecvList)
    BY ItemsOfTail DEF TypeInv, ChannelsOK
  <1> QED
    BY <1>1 DEF Kept, boards, Commands, Returned, Answers, Received

LEMMA MasterChannel ==
    ASSUME TypeInv, Master
    PROVE  /\ UNCHANGED boards
           /\ Send \/ UNCHANGED <<cmds, resp>>
           /\ RecvList' = RecvList \/ (RecvList # <<>> /\ RecvList' = Tail(RecvList))
  BY DEF Master, Send, SendError, SendNothing, Discard, Accept, Timeout, GiveUp,
     Open, OpenFails, Load, LoadFails, LeaveUpgradeMode, Close

LEMMA TurnOf ==
    ASSUME TypeInv, stage \in UpgStages
    PROVE  /\ k \in 1 .. Len(Modules) /\ Peer = Modules[k] /\ Modules[k] \in Targets
           /\ Modules[k] \in Endpoints /\ stage \notin SysStages
           /\ \A m : Turn(m) <=> m = Modules[k]
  <1>1. k \in 1 .. Len(Modules) /\ stage \notin SysStages
    BY ListTypes DEF TypeInv, ControlOK, InRange, SysStages, UpgStages
  <1> QED
    BY <1>1, Peers DEF Peer, Turn

\* The master leaves the counts and the results of the other modules alone.
LEMMA MasterOthers ==
    ASSUME TypeInv, Master, NEW m \in Targets, ~ Turn(m)
    PROVE  exch'[m] = exch[m] /\ result'[m] = result[m] /\ fellBack'[m] = fellBack[m]
  <1> DEFINE Goal == exch'[m] = exch[m] /\ result'[m] = result[m] /\ fellBack'[m] = fellBack[m]
  <1>t. exch \in [Endpoints -> Nat] /\ result \in [Targets -> {"none", "ok", "failed"}]
        /\ fellBack \in [Targets -> BOOLEAN] /\ m \in Endpoints
    BY DEF TypeInv, ControlOK, Endpoints
  <1>1. ASSUME NEW st, NEW p, NEW n, Enter(st, p, n), p # m PROVE exch'[m] = exch[m]
    BY <1>t, <1>1 DEF Enter
  <1>2. ASSUME stage \in SysStages, SysDone PROVE Goal
    <2>1. k < Len(SysIds) => k + 1 \in 1 .. Len(SysIds)
      BY ListTypes DEF TypeInv, ControlOK, InRange
    <2>2. k < Len(SysIds) => SysIds[k + 1] # m
      BY <2>1, Peers
    <2> QED
      BY <1>1, <1>2, <2>2 DEF SysDone, Goto
  <1>3. ASSUME NEW v, stage \in UpgStages, Return(v) PROVE Goal
    <2>1. Modules[k] # m
      BY <1>3, TurnOf
    <2> QED
      BY <1>t, <1>3, <2>1 DEF Return, Goto
  <1>4. ASSUME stage \in UpgStages,
               \/ \E e : BeginElement(e)
               \/ \E e, j : BeginChunk(e, j)
               \/ Enter("crc", Peer, RESEND_COUNT) /\ UNCHANGED <<result, fellBack>>
        PROVE  Goal
    <2>1. Modules[k] # m /\ Peer = Modules[k]
      BY <1>4, TurnOf
    <2> QED
      BY <1>1, <1>4, <2>1 DEF BeginElement, BeginChunk
  <1>5. ASSUME NEW b, stage \in UpgStages, SendAgain(b) PROVE Goal
    <2>1. Modules[k] # m
      BY <1>5, TurnOf
    <2>2. CASE outer > 0
      <3>1. exch'[m] = exch[m] /\ result' = result
        BY <1>1, <1>5, <2>1, <2>2 DEF SendAgain
      <3>2. fellBack'[m] = fellBack[m]
        BY <1>t, <1>5, <2>1, <2>2 DEF SendAgain
      <3> QED
        BY <3>1, <3>2
    <2>3. CASE ~ (outer > 0)
      BY <1>3, <1>5, <2>3 DEF SendAgain
    <2> QED
      BY <2>2, <2>3
  <1>6. ASSUME Accept PROVE Goal
    <2>1. stage \in SysStages => SysDone
      BY <1>6 DEF Accept, SysStages
    <2>2. stage \in UpgStages =>
             \/ \E e : BeginElement(e)
             \/ \E e, j : BeginChunk(e, j)
             \/ Enter("crc", Peer, RESEND_COUNT) /\ UNCHANGED <<result, fellBack>>
             \/ SendAgain(FALSE) \/ Return("ok")
      BY <1>6, TurnOf DEF Accept, Verdict
    <2> QED
      BY <1>2, <1>3, <1>4, <1>5, <1>6, <2>1, <2>2 DEF Accept, Waiting, Exchanging
  <1>7. ASSUME GiveUp PROVE Goal
    <2>1. stage \in SysStages => SysDone
      BY <1>7 DEF GiveUp, SysStages
    <2>2. stage \in UpgStages => SendAgain(TRUE) \/ Return("failed")
      BY <1>7, TurnOf DEF GiveUp
    <2> QED
      BY <1>2, <1>3, <1>5, <1>7, <2>1, <2>2 DEF GiveUp, Exchanging
  <1>8. ASSUME Open \/ LeaveUpgradeMode PROVE Goal
    <2>1. SysIds[1] # m
      BY ListTypes, Peers
    <2> QED
      BY <1>1, <1>8, <2>1 DEF Open, LeaveUpgradeMode
  <1>9. ASSUME Load \/ LoadFails PROVE Goal
    <2>1. k \in 1 .. Len(Modules)
      BY <1>9, ListTypes DEF Load, LoadFails, TypeInv, ControlOK, InRange
    <2>2. Modules[k] # m
      BY <1>9, <2>1 DEF Turn, Load, LoadFails
    <2>3. CASE Load
      BY <1>1, <2>2, <2>3 DEF Load
    <2>4. CASE LoadFails
      BY <1>t, <2>2, <2>4 DEF LoadFails, Return, Goto
    <2> QED
      BY <1>9, <2>3, <2>4
  <1>10. ASSUME Send \/ SendError \/ SendNothing \/ Discard \/ Timeout \/ OpenFails \/ Close
         PROVE  Goal
    BY <1>10 DEF Send, SendError, SendNothing, Discard, Timeout, OpenFails, Close
  <1> QED
    BY <1>6, <1>7, <1>8, <1>9, <1>10 DEF Master

LEMMA MasterKeeps ==
    ASSUME TypeInv, Master, NEW m \in Targets, ~ Turn(m)
    PROVE  Kept(m)
  <1>1. exch'[m] = exch[m] /\ UNCHANGED boards
    BY MasterOthers, MasterChannel
  <1>2. CASE Send
    <2>1. m # Peer
      <3>1. CASE stage \in UpgStages
        BY <3>1, TurnOf
      <3>2. CASE stage \notin UpgStages
        <4>1. stage \in SysStages /\ k \in 1 .. Len(SysIds)
          BY <1>2, <3>2, ListTypes
             DEF Send, InLoop, Exchanging, TypeInv, ControlOK, InRange
        <4> QED
          BY <4>1, Peers DEF Peer
      <3> QED
        BY <3>1, <3>2
    <2>2. Commands(m)' = Commands(m) /\ Returned(m)' = Returned(m)
      BY <1>2, <2>1, Sending DEF Endpoints
    <2> QED
      BY <1>1, <2>2 DEF Kept, boards
  <1>3. CASE UNCHANGED <<cmds, resp>>
    BY <1>1, <1>3, MasterChannel, KeptQuiet
  <1> QED
    BY <1>2, <1>3, MasterChannel

\* Where the master goes.
LEMMA MasterGoes ==
    ASSUME TypeInv, Master
    PROVE  /\ stage' \in UpgStages =>
                 stage \in UpgStages \cup {"load"} /\ k' = k /\ k \in 1 .. Len(Modules)
           /\ \A i \in 1 .. Len(Modules) : Ahead(i)' => Ahead(i) /\ ~ Turn(Modules[i])
  <1>t. k \in Nat /\ (stage \in UpgStages => k =< Len(Modules) /\ k \in 1 .. Len(Modules))
    BY TurnOf DEF TypeInv, ControlOK, InRange
  <1> DEFINE Goal ==
        /\ stage' \in UpgStages =>
              stage \in UpgStages \cup {"load"} /\ k' = k /\ k \in 1 .. Len(Modules)
        /\ \A i \in 1 .. Len(Modules) : Ahead(i)' => Ahead(i) /\ ~ Turn(Modules[i])
  <1>1. ASSUME UNCHANGED <<stage, k>>, stage # "load" PROVE Goal
    <2>1. \A i \in 1 .. Len(Modules) : stage \in UpgStages /\ i > k => ~ Turn(Modules[i])
      BY <1>t, Peers DEF Turn
    <2> QED
      BY <1>t, <1>1, <2>1 DEF Ahead, Turn, UpgStages
  <1>2. ASSUME stage \in UpgStages, stage' \in UpgStages, k' = k PROVE Goal
    <2>1. \A i \in 1 .. Len(Modules) : i > k => ~ Turn(Modules[i])
      BY <1>t, Peers DEF Turn
    <2> QED
      BY <1>t, <1>2, <2>1 DEF Ahead, UpgStages
  <1>3. ASSUME k \in 1 .. Len(Modules), stage \in UpgStages \cup {"load"}, k' = k + 1, stage' = "load"
        PROVE Goal
    <2>1. \A i \in 1 .. Len(Modules) : i > k => ~ Turn(Modules[i])
      BY <1>t, Peers DEF Turn
    <2> QED
      BY <1>t, <1>3, <2>1 DEF Ahead, UpgStages
  <1>4. ASSUME stage \in SysStages, SysDone PROVE Goal
    <2>1. stage \in {"enter", "exit"} /\ (stage = "enter" => stage' \in {"enter", "load"})
          /\ (stage = "exit" => stage' \in {"exit", "close"})
      BY <1>4 DEF SysDone, Enter, Goto, SysStages
    <2> QED
      BY <2>1 DEF Ahead, Turn, UpgStages
  <1>5. ASSUME Accept \/ GiveUp PROVE Goal
    <2>1. stage \in SysStages => SysDone
      BY <1>5 DEF Accept, GiveUp, SysStages
    <2>2. ASSUME stage \in UpgStages
          PROVE  (stage' \in UpgStages /\ k' = k) \/ (stage' = "load" /\ k' = k + 1)
      <3> DEFINE P == (stage' \in UpgStages /\ k' = k) \/ (stage' = "load" /\ k' = k + 1)
      <3>1. ASSUME NEW v, Return(v) PROVE P
        BY <3>1 DEF Return, Goto
      <3>2. ASSUME NEW e, BeginElement(e) PROVE P
        BY <3>2 DEF BeginElement, Enter, UpgStages
      <3>3. ASSUME NEW e, NEW j, BeginChunk(e, j) PROVE P
        BY <3>3 DEF BeginChunk, Enter, UpgStages
      <3>4. ASSUME Enter("crc", Peer, RESEND_COUNT), UNCHANGED position PROVE P
        BY <3>4 DEF Enter, UpgStages, position
      <3>5. ASSUME NEW b, SendAgain(b) PROVE P
        BY <3>1, <3>5 DEF SendAgain, Enter, UpgStages, position
      <3> HIDE DEF P
      <3>6. P
        BY <1>5, <2>2, <3>1, <3>2, <3>3, <3>4, <3>5, TurnOf DEF Accept, GiveUp, Verdict
      <3> QED
        BY <3>6 DEF P
    <2> QED
      BY <1>t, <1>2, <1>3, <1>4, <1>5, <2>1, <2>2 DEF Accept, GiveUp, Waiting, Exchanging
  <1>6. ASSUME Open \/ OpenFails PROVE Goal
    BY <1>6 DEF Open, OpenFails, Enter, Ahead, Turn, UpgStages
  <1>7. ASSUME Load PROVE Goal
    <2>1. k \in 1 .. Len(Modules) /\ stage = "load" /\ stage' = "start" /\ k' = k
      BY <1>7, ListTypes DEF Load, Enter, position, TypeInv, ControlOK, InRange
    <2>2. \A i \in 1 .. Len(Modules) : i > k => ~ Turn(Modules[i])
      BY <1>t, Peers DEF Turn
    <2> QED
      BY <1>t, <2>1, <2>2 DEF Ahead, UpgStages
  <1>8. ASSUME LoadFails PROVE Goal
    <2>1. k \in 1 .. Len(Modules) /\ stage = "load" /\ stage' = "load" /\ k' = k + 1
      BY <1>8, ListTypes DEF LoadFails, Return, Goto, TypeInv, ControlOK, InRange
    <2> QED
      BY <1>3, <2>1
  <1>9. ASSUME LeaveUpgradeMode \/ Close PROVE Goal
    BY <1>9 DEF LeaveUpgradeMode, Close, Enter, Ahead, UpgStages
  <1>10. ASSUME Send \/ SendError \/ SendNothing \/ Discard \/ Timeout PROVE Goal
    <2>1. UNCHANGED <<stage, k>> /\ Exchanging
      BY <1>10 DEF Send, SendError, SendNothing, Discard, Timeout, InLoop, Waiting, position
    <2> QED
      BY <1>1, <2>1 DEF Exchanging, SysStages, UpgStages
  <1> QED
    BY <1>5, <1>6, <1>7, <1>8, <1>9, <1>10 DEF Master

LEMMA OthersStay ==
    ASSUME NEW m \in Targets, ModuleOK(m), Kept(m), ~ IsServed(m), ~ IsServed(m)',
           fellBack'[m] = fellBack[m], result'[m] = result[m]
    PROVE  ModuleOK(m)'
  <1> SUFFICES ASSUME ~ fellBack[m] PROVE Rests(m)'
    BY DEF ModuleOK
  <1>1. Rests(m)
    BY DEF ModuleOK
  <1>2. CASE Untouched(m)
    BY <1>2, KeptUntouched DEF Rests, Untouched
  <1>3. CASE \E st \in UpgStages, e \in Nat, j \in Nat :
                InExchange(m, st, e, j) /\ (result[m] = "ok" => st = "end")
    BY <1>3, KeptExchange DEF Rests
  <1> QED
    BY <1>1, <1>2, <1>3 DEF Rests

\* A step that leaves the master where it is.
LEMMA MasterStays ==
    ASSUME NEW m \in Targets, ModuleOK(m), UNCHANGED <<stage, position, result, fellBack>>,
           \A st, e, j : InExchange(m, st, e, j) => InExchange(m, st, e, j)',
           Untouched(m) => Untouched(m)'
    PROVE  ModuleOK(m)'
  <1>1. IsServed(m)' <=> IsServed(m)
    BY DEF IsServed, position
  <1>2. Served(m) => Served(m)'
    BY DEF Served, position
  <1>3. Rests(m) => Rests(m)'
    BY DEF Rests
  <1> QED
    BY <1>1, <1>2, <1>3 DEF ModuleOK

LEMMA KeptStays ==
    ASSUME NEW m \in Targets, ModuleOK(m), Kept(m), UNCHANGED <<stage, position, result, fellBack>>
    PROVE  ModuleOK(m)'
  BY MasterStays, KeptExchange, KeptUntouched DEF Untouched

\* upgrade() returns: the module rests in the exchange it was in.
LEMMA ReturnRests ==
    ASSUME TypeInv, NEW m \in Targets, ModuleOK(m), Kept(m), IsServed(m),
           NEW v \in {"ok", "failed"}, Return(v), v = "ok" => stage = "end"
    PROVE  ModuleOK(m)'
  <1>1. ~ IsServed(m)'
    BY DEF IsServed, Return, Goto, UpgStages
  <1>2. fellBack' = fellBack /\ result'[m] = v
    BY DEF Return, IsServed, TypeInv, ControlOK
  <1>3. Served(m) => Rests(m)'
    BY <1>2, KeptExchange DEF Served, Rests
  <1> QED
    BY <1>1, <1>2, <1>3 DEF ModuleOK

\* The master enters exchange st with the module.
LEMMA EnterServed ==
    ASSUME NEW m \in Targets, IsServed(m)', result'[m] # "ok",
           NEW st \in UpgStages, NEW e \in Nat, NEW j \in Nat, stage' = st,
           st # "start" => elem' = e /\ chunk' = j,
           InExchange(m, st, e, j)'
    PROVE  ModuleOK(m)'
  BY DEF ModuleOK, Served

LEMMA SendServed ==
    ASSUME TypeInv, NEW m \in Targets, ModuleOK(m), IsServed(m), Send
    PROVE  ModuleOK(m)'
  <1>1. UNCHANGED <<stage, position, result, fellBack, exch, boards>>
    BY DEF Send
  <1>2. m = Peer /\ m \in Endpoints
    BY TurnOf DEF IsServed
  <1>3. Commands(m)' = Commands(m) \cup {Command} /\ Returned(m)' = Returned(m)
    BY <1>2, Sending
  <1>4. Served(m) => Served(m)'
    <2> SUFFICES ASSUME NEW st \in UpgStages, NEW e \in Nat, NEW j \in Nat,
                        InExchange(m, st, e, j), stage = st,
                        st # "start" => elem = e /\ chunk = j
                 PROVE  Served(m)'
      BY DEF Served
    <2>1. OfNow(m, st, e, j, Command) /\ Command.n = exch[m]
      BY <1>2 DEF OfNow, Command
    <2>2. InExchange(m, st, e, j)'
      BY <1>1, <1>3, <2>1, SentExchange
    <2> QED
      BY <1>1, <2>2 DEF Served, position
  <1>5. IsServed(m)'
    BY <1>1 DEF IsServed, position
  <1> QED
    BY <1>1, <1>4, <1>5 DEF ModuleOK

\* An answer is taken, and the next exchange begins.
LEMMA AcceptServed ==
    ASSUME TypeInv, NEW m \in Targets, Ordered(m), ModuleOK(m), IsServed(m), Accept
    PROVE  ModuleOK(m)'
  <1> DEFINE r == Head(RecvList)
  <1>1. /\ RecvList # <<>> /\ RecvList' = Tail(RecvList) /\ Expected(r)
        /\ UNCHANGED <<cmds, resp, boards>>
    BY DEF Accept
  <1>2. /\ Peer = m /\ Modules[k] = m /\ stage \notin SysStages /\ stage \in UpgStages
        /\ m \in Endpoints
    BY TurnOf DEF IsServed
  <1>3. exch \in [Endpoints -> Nat] /\ exch[m] \in Nat
        /\ fellBack \in [Targets -> BOOLEAN] /\ result[m] # "ok"
    BY <1>2 DEF TypeInv, ControlOK, ModuleOK
  <1>4. Commands(m)' = Commands(m)
    BY <1>1 DEF Commands
  <1>5. CASE stage = "end" /\ Return("ok")
    <2>1. exch' = exch
      BY <1>5 DEF Return, Goto
    <2> QED
      BY <1>1, <1>5, <2>1, KeptQuiet, ReturnRests
  <1>6. CASE stage = "crc" /\ ~ r.ok /\ ~ (outer > 0) /\ Return("failed")
    <2>1. exch' = exch
      BY <1>6 DEF Return, Goto
    <2> QED
      BY <1>1, <1>6, <2>1, KeptQuiet, ReturnRests
  <1>7. CASE fellBack[m]
    <2>1. CASE stage' = "load"
      <3>1. fellBack' = fellBack /\ ~ IsServed(m)'
        BY <1>1, <1>2, <2>1 DEF Accept, Verdict, BeginElement, BeginChunk, SendAgain, Enter,
           Return, IsServed, UpgStages
      <3> QED
        BY <1>7, <3>1 DEF ModuleOK
    <2>2. CASE stage' # "load"
      <3>1. result' = result /\ fellBack'[m]
        <4>1. CASE stage = "crc" /\ SendAgain(FALSE) /\ outer > 0
          <5>1. fellBack' = [fellBack EXCEPT ![m] = fellBack[m] \/ FALSE] /\ result' = result
            BY <1>2, <4>1 DEF SendAgain
          <5> QED
            BY <1>3, <1>7, <5>1
        <4>2. CASE UNCHANGED <<result, fellBack>>
          BY <1>7, <4>2
        <4> QED
          BY <1>2, <2>2, <4>1, <4>2
             DEF Accept, Verdict, BeginElement, BeginChunk, SendAgain, Return, Goto
      <3> QED
        BY <1>3, <3>1 DEF ModuleOK
    <2> QED
      BY <2>1, <2>2
  <1>8. CASE ~ fellBack[m]
    <2>1. PICK st \in UpgStages, e \in Nat, j \in Nat :
             /\ InExchange(m, st, e, j)
             /\ stage = st /\ (st # "start" => elem = e /\ chunk = j)
      BY <1>8 DEF ModuleOK, Served
    <2>2. r.src = m /\ r.type = st
      BY <1>1, <1>2, <2>1 DEF Expected
    <2>3. /\ Tells(m, st, e, j, r)
          /\ \A c \in Commands(m) : c.n = exch[m] /\ OfNow(m, st, e, j, c)
          /\ \A x \in Returned(m)' : x.n = exch[m] /\ x.type = st
      BY <1>1, <2>1, <2>2, TakenIsOfNow
    <2>4. Placed(m, st, e, j) /\ Len(Image[m]) \in Nat
      BY <2>1, ImageTypes DEF InExchange
    \* The exchange that begins.
    <2>5. ASSUME NEW st2 \in UpgStages, NEW e2 \in Nat, NEW j2 \in Nat, NEW n,
                 Enter(st2, m, n), UNCHANGED <<k, result>>, elem' = e2, chunk' = j2, st2 # st,
                 Placed(m, st2, e2, j2), Holds(m, st2, e2, j2)',
                 \A c : OfNow(m, st, e, j, c) => OfBefore(m, st2, e2, j2, c)'
          PROVE  ModuleOK(m)'
      <3>1. exch'[m] = exch[m] + 1 /\ stage' = st2
        BY <1>2, <1>3, <2>5 DEF Enter
      <3>2. InExchange(m, st2, e2, j2)'
        BY <1>3, <1>4, <2>1, <2>3, <2>5, <3>1, NextExchange
      <3>3. IsServed(m)'
        BY <1>2, <2>5, <3>1 DEF IsServed
      <3> QED
        BY <1>3, <2>5, <3>1, <3>2, <3>3, EnterServed
    <2>6. ASSUME NEW e2 \in 1 .. Len(Image[m]) + 1, BeginElement(e2),
                 \/ st = "start" /\ e2 = 1
                 \/ st = "crc" /\ written[m] /\ j = Image[m][e] /\ e2 = e + 1
          PROVE  ModuleOK(m)'
      <3> DEFINE st2 == IF e2 =< Len(Image[m]) THEN "addr" ELSE "end"
      <3>1. /\ Placed(m, st2, e2, 1) /\ Holds(m, st2, e2, 1)'
            /\ \A c : OfNow(m, st, e, j, c) => OfBefore(m, st2, e2, 1, c)'
        BY <1>1, <2>1, <2>6, ToElement
      <3>2. Enter(st2, m, RESEND_COUNT) /\ UNCHANGED <<k, result>> /\ elem' = e2 /\ chunk' = 1
        BY <1>2, <2>6 DEF BeginElement
      <3>3. st2 \in UpgStages /\ st2 # st /\ e2 \in Nat /\ 1 \in Nat
        BY <2>4, <2>6 DEF UpgStages
      <3> HIDE DEF st2
      <3> QED
        BY <2>5, <3>1, <3>2, <3>3
    <2>7. ASSUME NEW j2 \in Nat, st # "data",
                 \E n : Enter("data", m, n), UNCHANGED <<k, result>>, elem' = e, chunk' = j2,
                 \/ st = "addr" /\ addr[m] = <<e, 1>> /\ j2 = 1
                 \/ st = "crc" /\ written[m] /\ j < Image[m][e] /\ j2 = j + 1
                 \/ st = "crc" /\ ~ written[m] /\ buf[m] # <<e, j>> /\ j2 = j
          PROVE  ModuleOK(m)'
      <3>1. /\ Placed(m, "data", e, j2) /\ Holds(m, "data", e, j2)'
            /\ \A c : OfNow(m, st, e, j, c) => OfBefore(m, "data", e, j2, c)'
        BY <1>1, <2>1, <2>7, ToData
      <3>2. "data" \in UpgStages
        BY DEF UpgStages
      <3> QED
        BY <2>5, <2>7, <3>1, <3>2
    <2>8. CASE st = "start"
      <3>1. BeginElement(1) /\ 1 \in 1 .. Len(Image[m]) + 1
        BY <1>2, <2>1, <2>4, <2>8 DEF Accept
      <3> QED
        BY <2>6, <2>8, <3>1
    <2>9. CASE st = "addr"
      <3>1. BeginChunk(elem, 1) /\ addr[m] = <<e, 1>> /\ elem = e
        BY <1>2, <2>1, <2>3, <2>9 DEF Accept, Tells
      <3> QED
        BY <1>2, <2>7, <2>9, <3>1 DEF BeginChunk
    <2>10. CASE st = "data"
      <3>1. /\ Enter("crc", m, RESEND_COUNT) /\ UNCHANGED <<k, result>>
            /\ elem' = e /\ chunk' = j
        BY <1>2, <2>1, <2>10 DEF Accept, position
      <3>2. ~ written[m]
        BY <2>3, <2>10 DEF Tells
      <3>3. /\ Placed(m, "crc", e, j) /\ Holds(m, "crc", e, j)'
            /\ \A c : OfNow(m, st, e, j, c) => OfBefore(m, "crc", e, j, c)'
        BY <1>1, <2>1, <2>10, <3>2, ToChecksum
      <3>4. "crc" \in UpgStages
        BY DEF UpgStages
      <3> QED
        BY <2>5, <2>10, <3>1, <3>3, <3>4
    <2>11. CASE st = "crc"
      <3>1. Verdict(r) /\ elem = e /\ chunk = j
        BY <1>2, <2>1, <2>11 DEF Accept
      <3>2. CASE r.ok /\ chunk < Image[Modules[k]][elem] /\ BeginChunk(elem, chunk + 1)
        <4>1. written[m] /\ j < Image[m][e]
          BY <1>2, <2>3, <2>11, <3>1, <3>2 DEF Tells
        <4> QED
          BY <1>2, <2>7, <2>11, <3>1, <3>2, <4>1 DEF BeginChunk
      <3>3. CASE r.ok /\ chunk = Image[Modules[k]][elem] /\ BeginElement(elem + 1)
        <4>1. written[m] /\ j = Image[m][e]
          BY <1>2, <2>3, <2>11, <3>1, <3>3 DEF Tells
        <4>2. e + 1 \in 1 .. Len(Image[m]) + 1
          BY <2>4, <2>11 DEF Placed
        <4> QED
          BY <2>6, <2>11, <3>1, <3>3, <4>1, <4>2
      <3>4. CASE ~ r.ok /\ SendAgain(FALSE) /\ outer > 0
        <4>1. ~ written[m] /\ buf[m] # <<e, j>>
          BY <2>3, <2>11, <3>4 DEF Tells
        <4>2. Enter("data", m, dataLeft) /\ UNCHANGED <<position, result>>
          BY <1>2, <3>4 DEF SendAgain
        <4> QED
          BY <2>7, <2>11, <3>1, <4>1, <4>2 DEF position
      <3>5. CASE ~ r.ok /\ SendAgain(FALSE) /\ ~ (outer > 0)
        BY <1>6, <2>1, <2>11, <3>5 DEF SendAgain
      <3> QED
        BY <3>1, <3>2, <3>3, <3>4, <3>5 DEF Verdict
    <2>12. CASE st = "end"
      BY <1>2, <1>5, <2>1, <2>12 DEF Accept
    <2> QED
      BY <2>8, <2>9, <2>10, <2>11, <2>12 DEF UpgStages
  <1> QED
    BY <1>7, <1>8
\* The attempts run out.
LEMMA GiveUpServed ==
    ASSUME TypeInv, NEW m \in Targets, ModuleOK(m), IsServed(m), GiveUp
    PROVE  ModuleOK(m)'
  <1>1. /\ Modules[k] = m /\ stage \notin SysStages /\ stage \in UpgStages
    BY TurnOf DEF IsServed
  <1>2. UNCHANGED <<cmds, resp, RecvList, boards>>
    BY DEF GiveUp
  <1>3. CASE Return("failed")
    <2>1. exch' = exch
      BY <1>3 DEF Return, Goto
    <2> QED
      BY <1>2, <1>3, <2>1, KeptQuiet, ReturnRests
  <1>4. CASE SendAgain(TRUE) /\ outer > 0
    <2>1. fellBack' = [fellBack EXCEPT ![m] = fellBack[m] \/ TRUE] /\ result' = result
      BY <1>1, <1>4 DEF SendAgain
    <2>2. fellBack \in [Targets -> BOOLEAN] /\ result[m] # "ok"
      BY DEF TypeInv, ControlOK, ModuleOK
    <2>3. fellBack'[m]
      BY <2>1, <2>2
    <2> QED
      BY <2>1, <2>2, <2>3 DEF ModuleOK
  <1>5. SendAgain(TRUE) /\ ~ (outer > 0) => Return("failed")
    BY DEF SendAgain
  <1>6. Return("failed") \/ SendAgain(TRUE)
    BY <1>1 DEF GiveUp
  <1> QED
    BY <1>3, <1>4, <1>5, <1>6

\* A module's turn comes.
LEMMA LoadServed ==
    ASSUME TypeInv, NEW m \in Targets, Waits, Turn(m), stage = "load",
           Load \/ LoadFails
    PROVE  ModuleOK(m)'
  <1>1. k \in 1 .. Len(Modules) /\ m = Modules[k] /\ m \in Endpoints
    BY Peers DEF Turn
  <1>2. Untouched(m) /\ ~ fellBack[m]
    BY <1>1 DEF Waits, Ahead
  <1>3. UNCHANGED <<cmds, resp, RecvList, boards>>
    BY DEF Load, LoadFails
  <1>4. Commands(m)' = {} /\ Returned(m)' = {} /\ flash'[m] = {}
    BY <1>2, <1>3 DEF Untouched, Commands, Returned, Answers, Received, boards
  <1>5. CASE Load
    <2>1. stage' = "start" /\ UNCHANGED <<position, result, fellBack>>
      BY <1>5 DEF Load, Enter
    <2>2. exch'[m] = 1
      BY <1>1, <1>2, <1>5 DEF Load, Enter, Untouched, TypeInv, ControlOK
    <2>3. Placed(m, "start", 1, 1) /\ "start" \in UpgStages
      BY ImageTypes DEF Placed, UpgStages
    <2>4. Before(m, 1, 1)' = {}
      BY BeforeFirst DEF Before, Earlier
    <2>5. Holds(m, "start", 1, 1)'
      BY <1>4, <2>4 DEF Holds
    <2>6. InExchange(m, "start", 1, 1)'
      BY <1>4, <2>3, <2>5 DEF InExchange, Placed
    <2>7. IsServed(m)' /\ result'[m] # "ok"
      BY <1>1, <1>2, <2>1, <2>3 DEF IsServed, position, Untouched
    <2> QED
      BY <2>1, <2>3, <2>6, <2>7, EnterServed
  <1>6. CASE LoadFails
    <2>1. stage' = "load" /\ exch' = exch /\ result'[m] = "failed"
      BY <1>1, <1>6 DEF LoadFails, Return, Goto, TypeInv, ControlOK
    <2>2. Untouched(m)'
      BY <1>2, <1>4, <2>1 DEF Untouched
    <2> QED
      BY <2>1, <2>2 DEF ModuleOK, IsServed, Rests, UpgStages
  <1> QED
    BY <1>5, <1>6

\* What the boards and the bus do to the other modules.
Others(m) ==
    \/ \E s \in Systems : SystemAnswers(s)
    \/ \E f \in Targets : f # m /\ (ModuleAnswers(f) \/ Garble(f))
    \/ \E e \in Endpoints : Deliver(e) \/ Lose(e)
    \/ UNCHANGED vars

LEMMA OthersKeep ==
    ASSUME TypeInv, \A e \in Endpoints : Ordered(e), NEW m \in Targets, Others(m)
    PROVE  Kept(m) /\ UNCHANGED <<stage, position, result, fellBack>>
  <1>1. m \in Endpoints /\ m \notin Systems
    BY Peers DEF Endpoints
  <1>2. cmds \in [Endpoints -> Seq(Cmd)] /\ resp \in [Endpoints -> Seq(Resp)]
    BY DEF TypeInv, ChannelsOK
  <1>3. ASSUME NEW f \in Endpoints, f # m, NEW c, NEW ok, Answer(f, c, ok)
        PROVE  /\ Commands(m)' = Commands(m) /\ Returned(m)' = Returned(m) /\ exch' = exch
               /\ UNCHANGED <<stage, position, result, fellBack>>
    <2>1. cmds'[m] = cmds[m] /\ resp'[m] = resp[m] /\ RecvList' = RecvList
      BY <1>1, <1>2, <1>3 DEF Answer
    <2> QED
      BY <1>3, <2>1 DEF Answer, Commands, Returned, Answers, Received
  <1>4. CASE \E s \in Systems : SystemAnswers(s)
    <2>1. PICK s \in Systems : SystemAnswers(s)
      BY <1>4
    <2>2. Answer(s, Head(cmds[s]), TRUE) /\ UNCHANGED <<buf, written, addr, flash>>
      BY <2>1 DEF SystemAnswers
    <2>3. s \in Endpoints /\ s # m
      BY <1>1 DEF Endpoints
    <2> QED
      BY <1>3, <2>2, <2>3 DEF Kept
  <1>5. CASE \E f \in Targets : f # m /\ ModuleAnswers(f)
    <2>1. PICK f \in Targets : f # m /\ ModuleAnswers(f)
      BY <1>5
    <2>2. f \in Endpoints /\ \E ok : Answer(f, Head(cmds[f]), ok)
      BY <2>1, ModuleAnswersOnce DEF Endpoints
    <2>3. /\ buf'[m] = buf[m] /\ addr'[m] = addr[m] /\ flash'[m] = flash[m]
      BY <2>1 DEF ModuleAnswers, TypeInv, BoardsOK
    <2>4. written'[m] = written[m]
      <3>1. written' = written \/ (\E v \in BOOLEAN : written' = [written EXCEPT ![f] = v])
        BY <2>1, Zenon DEF ModuleAnswers
      <3> QED
        BY <2>1, <3>1 DEF TypeInv, BoardsOK
    <2> QED
      BY <1>3, <2>1, <2>2, <2>3, <2>4 DEF Kept
  <1>6. CASE \E f \in Targets : f # m /\ Garble(f)
    <2>1. PICK f \in Targets : f # m /\ Garble(f)
      BY <1>6
    <2>2. cmds'[m] = cmds[m] /\ UNCHANGED <<resp, RecvList>>
      BY <1>1, <1>2, <2>1 DEF Garble
    <2>3. Commands(m)' = Commands(m) /\ Returned(m)' = Returned(m)
      BY <2>2 DEF Commands, Returned, Answers, Received
    <2> QED
      BY <2>1, <2>3 DEF Garble, Kept, boards
  <1>7. CASE \E e \in Endpoints : Deliver(e)
    <2>1. PICK e \in Endpoints : Deliver(e)
      BY <1>7
    <2>2. Commands(m)' = Commands(m) /\ Returned(m)' \subseteq Returned(m)
      BY <1>1, <2>1, Delivering
    <2> QED
      BY <2>1, <2>2 DEF Deliver, Kept, boards
  <1>8. CASE \E e \in Endpoints : Lose(e)
    <2>1. PICK e \in Endpoints : Lose(e)
      BY <1>8
    <2>2. Commands(m)' \subseteq Commands(m) /\ Returned(m)' \subseteq Returned(m)
      BY <1>1, <2>1, OrderedLost
    <2> QED
      BY <2>1, <2>2 DEF Lose, Kept, boards
  <1>9. CASE UNCHANGED vars
    BY <1>9 DEF vars, Kept, boards, Commands, Returned, Answers, Received
  <1> QED
    BY <1>4, <1>5, <1>6, <1>7, <1>8, <1>9 DEF Others

LEMMA StepOf ==
    ASSUME [Next]_vars, NEW m \in Targets
    PROVE  Master \/ Others(m) \/ ModuleAnswers(m) \/ Garble(m)
  BY DEF Next, Others

\* A module that has received nothing has nothing to carry out.
LEMMA Idle ==
    ASSUME TypeInv, NEW m \in Targets, ModuleAnswers(m) \/ Garble(m)
    PROVE  /\ ~ Untouched(m)
           /\ UNCHANGED <<stage, position, result, fellBack>>
  <1>1. cmds[m] \in Seq(Cmd) /\ cmds[m] # <<>>
    BY ChannelTypes, ModuleAnswersOnce DEF Garble, Endpoints
  <1>2. cmds[m][1] \in Commands(m)
    BY <1>1 DEF Commands, Items
  <1>3. UNCHANGED <<stage, position, result, fellBack>>
    BY ModuleAnswersOnce DEF Garble, Answer
  <1> QED
    BY <1>2, <1>3 DEF Untouched

LEMMA ModuleStep ==
    ASSUME TypeInv, [Next]_vars, AnswersInv, NEW m \in Targets
    PROVE  ModuleOK(m)'
  <1>1. ModuleOK(m) /\ (\A e \in Endpoints : Ordered(e)) /\ Ordered(m) /\ Waits
    BY DEF AnswersInv, Endpoints
  <1>2. CASE Others(m)
    BY <1>1, <1>2, OthersKeep, KeptStays
  <1>3. CASE ModuleAnswers(m)
    BY <1>1, <1>3, Idle, AnsweredExchange, MasterStays
  <1>4. CASE Garble(m)
    BY <1>1, <1>4, Idle, GarbledExchange, MasterStays
  <1>5. CASE Master /\ ~ Turn(m)
    <2>1. Kept(m) /\ result'[m] = result[m] /\ fellBack'[m] = fellBack[m]
      BY <1>5, MasterKeeps, MasterOthers
    <2>2. ~ IsServed(m)
      BY <1>5, TurnOf DEF IsServed
    <2>3. ~ IsServed(m)'
      BY <1>5, MasterGoes DEF IsServed, Turn
    <2> QED
      BY <1>1, <2>1, <2>2, <2>3, OthersStay
  <1>6. CASE Master /\ Turn(m) /\ stage = "load"
    <2>1. stage \notin SysStages \cup UpgStages
      BY <1>6 DEF SysStages, UpgStages
    <2>2. k \in 1 .. Len(Modules) /\ Len(Modules) \in Nat
      BY <1>6, ListTypes DEF Turn
    <2>3. Load \/ LoadFails
      BY <1>6, <2>1, <2>2 DEF Master, Send, SendError, SendNothing, InLoop, Discard, Accept,
         Timeout, Waiting, GiveUp, Exchanging, Open, OpenFails, LeaveUpgradeMode, Close
    <2> QED
      BY <1>1, <1>6, <2>3, LoadServed
  <1>7. CASE Master /\ Turn(m) /\ stage # "load"
    <2>1. stage \in UpgStages /\ IsServed(m)
      BY <1>7 DEF Turn, IsServed
    <2>2. CASE SendError \/ SendNothing \/ Discard \/ Timeout
      <3>1. /\ UNCHANGED <<stage, position, result, fellBack, exch, boards, cmds, resp>>
            /\ RecvList' = RecvList \/ (RecvList # <<>> /\ RecvList' = Tail(RecvList))
        BY <2>2 DEF SendError, SendNothing, Discard, Timeout
      <3> QED
        BY <1>1, <3>1, KeptQuiet, KeptStays
    <2>3. CASE Send
      BY <1>1, <2>1, <2>3, SendServed
    <2>4. CASE Accept
      BY <1>1, <2>1, <2>4, AcceptServed
    <2>5. CASE GiveUp
      BY <1>1, <2>1, <2>5, GiveUpServed
    <2> QED
      BY <1>7, <2>1, <2>2, <2>3, <2>4, <2>5
         DEF Master, Open, OpenFails, Load, LoadFails, LeaveUpgradeMode, Close, UpgStages
  <1> QED
    BY <1>2, <1>3, <1>4, <1>5, <1>6, <1>7, StepOf

LEMMA WaitsStep ==
    ASSUME TypeInv, [Next]_vars, AnswersInv
    PROVE  Waits'
  <1> SUFFICES ASSUME NEW i \in 1 .. Len(Modules), Ahead(i)'
               PROVE  Untouched(Modules[i])' /\ ~ fellBack'[Modules[i]]
    BY DEF Waits
  <1> DEFINE m == Modules[i]
  <1>1. m \in Targets /\ (\A e \in Endpoints : Ordered(e))
    BY Peers DEF AnswersInv
  <1>2. Ahead(i) => Untouched(m) /\ ~ fellBack[m]
    BY DEF AnswersInv, Waits
  <1> HIDE DEF m
  <1>3. CASE Master
    <2>1. Ahead(i) /\ ~ Turn(m)
      BY <1>3, MasterGoes DEF m
    <2>2. Kept(m) /\ result'[m] = result[m] /\ fellBack'[m] = fellBack[m]
      BY <1>1, <1>3, <2>1, MasterKeeps, MasterOthers
    <2>3. Untouched(m)'
      BY <1>1, <1>2, <2>1, <2>2, KeptUntouched DEF Untouched
    <2> QED
      BY <1>2, <2>1, <2>2, <2>3 DEF m
  <1>4. CASE ~ Master
    <2>1. UNCHANGED <<stage, position, result, fellBack>>
      BY <1>1, <1>4, StepOf, OthersKeep, Idle
    <2>2. Ahead(i)
      BY <2>1 DEF Ahead, position
    <2>3. Kept(m)
      BY <1>1, <1>2, <1>4, <2>2, StepOf, OthersKeep, Idle
    <2>4. Untouched(m)'
      BY <1>1, <1>2, <2>1, <2>2, <2>3, KeptUntouched DEF Untouched
    <2> QED
      BY <1>2, <2>1, <2>2, <2>4 DEF m
  <1> QED
    BY <1>3, <1>4

LEMMA AnswersInit == Init => AnswersInv
  <1> SUFFICES ASSUME Init PROVE AnswersInv
    OBVIOUS
  <1>1. ASSUME NEW e \in Endpoints
        PROVE  /\ cmds[e] = <<>> /\ resp[e] = <<>> /\ RecvList = <<>> /\ exch[e] = 0
               /\ Commands(e) = {} /\ Returned(e) = {} /\ Answers(e) = {} /\ Received(e) = {}
    BY DEF Init, Commands, Returned, Answers, Received, Items
  <1>2. \A e \in Endpoints : Ordered(e)
    BY <1>1 DEF Ordered, InOrder, InOrderFrom
  <1>3. \A s \in Systems : BoardOK(s)
    BY <1>1, Peers DEF BoardOK
  <1>4. BoardsCounted
    BY <1>1, Peers DEF Init, BoardsCounted, Begun
  <1>5. \A m \in Targets : Untouched(m) /\ ~ fellBack[m] /\ ~ IsServed(m)
    BY <1>1 DEF Init, Untouched, Endpoints, IsServed, UpgStages
  <1>6. Waits
    BY <1>5, Peers DEF Waits
  <1>7. \A m \in Targets : ModuleOK(m)
    BY <1>5 DEF ModuleOK, Rests
  <1> QED
    BY <1>2, <1>3, <1>4, <1>6, <1>7 DEF AnswersInv

LEMMA AnswersStep ==
    ASSUME TypeInv, [Next]_vars, AnswersInv
    PROVE  AnswersInv'
  <1>1. \A e \in Endpoints : Ordered(e)'
    BY OrderedStep DEF AnswersInv
  <1>2. \A s \in Systems : BoardOK(s)'
    BY BoardOKStep DEF AnswersInv
  <1>3. BoardsCounted'
    BY CountedStep DEF AnswersInv
  <1>4. (\A m \in Targets : ModuleOK(m)') /\ Waits'
    BY ModuleStep, WaitsStep
  <1> QED
    BY <1>1, <1>2, <1>3, <1>4 DEF AnswersInv

LEMMA AnswersInvariant == Spec => [](TypeInv /\ AnswersInv)
  BY TypeInvariance, AnswersInit, AnswersStep, PTL DEF Spec

-----------------------------------------------------------------------------
(* The theorems.                                                             *)

(* Every answer the master takes answers the exchange it is in, for any      *)
(* boards, modules and images and any number of losses: consecutive          *)
(* exchanges with an endpoint wait for different types, and the channel      *)
(* keeps their order (rmCAN.cpp:463-488).  Modules that have fallen back to  *)
(* sending a chunk without a checksum answer are left out.                   *)
THEOREM AnswersAreFresh == Spec => NoStaleAnswer
  <1> DEFINE A == /\ Waiting
                  /\ RecvList # <<>>
                  /\ RecvList' = Tail(RecvList)
                  /\ Expected(Head(RecvList))
                  /\ Peer \in Targets => ~ fellBack[Peer]
                  => Head(RecvList).n = exch[Peer]
  <1>1. TypeInv /\ AnswersInv => A
    <2> SUFFICES ASSUME TypeInv, AnswersInv, Waiting, RecvList # <<>>,
                        Expected(Head(RecvList)), Peer \in Targets => ~ fellBack[Peer]
                 PROVE  Head(RecvList).n = exch[Peer]
      OBVIOUS
    <2> DEFINE r == Head(RecvList)
    <2>1. r.src = Peer /\ r.type = stage
      BY DEF Expected
    <2>2. CASE stage \in UpgStages
      <3>1. Peer \in Targets /\ Peer \in Endpoints /\ IsServed(Peer)
        BY <2>2, TurnOf DEF IsServed
      <3>2. PICK st \in UpgStages, e \in Nat, j \in Nat :
               InExchange(Peer, st, e, j) /\ stage = st
        BY <3>1 DEF AnswersInv, ModuleOK, Served
      <3> QED
        BY <2>1, <3>1, <3>2, TakenIsOfNow DEF AnswersInv
    <2>3. CASE stage \in SysStages
      <3>1. k \in 1 .. Len(SysIds) /\ Peer = SysIds[k] /\ Peer \in Systems
        BY <2>3, ListTypes DEF TypeInv, ControlOK, InRange, Peer
      <3>2. r \in Returned(Peer)
        <4>1. RecvList \in Seq(Resp) /\ r = RecvList[1] /\ 1 \in 1 .. Len(RecvList)
          BY DEF TypeInv, ChannelsOK
        <4> QED
          BY <2>1, <4>1 DEF Returned, Received, Items
      <3>3. r.n = IF stage = "enter" THEN 1 ELSE 2
        BY <2>1, <2>3, <3>1, <3>2 DEF AnswersInv, BoardOK, SysStages
      <3>4. exch[Peer] = IF stage = "enter" THEN 1 ELSE 2
        BY <2>3, <3>1 DEF AnswersInv, BoardsCounted, Begun, SysStages
      <3> QED
        BY <3>3, <3>4
    <2> QED
      BY <2>2, <2>3 DEF Waiting, Exchanging
  <1>2. TypeInv /\ AnswersInv => [A]_vars
    BY <1>1
  <1> HIDE DEF A
  <1>3. Spec => [][A]_vars
    BY <1>2, AnswersInvariant, PTL
  <1> QED
    BY <1>3 DEF A, NoStaleAnswer

\* What the invariant says of a module that did not fall back.
LEMMA ExchangeOf ==
    ASSUME AnswersInv, NEW m \in Targets, ~ fellBack[m]
    PROVE  \/ Untouched(m)
           \/ \E st \in UpgStages, e \in Nat, j \in Nat :
                 InExchange(m, st, e, j) /\ (result[m] = "ok" => st = "end")
  BY DEF AnswersInv, ModuleOK, Served, Rests

(* When upgrade() returned 0 for a module, its flash holds the whole image,  *)
(* every chunk at its place, whatever was lost, garbled, late or tried again *)
(* (robotUpdate.cpp:213-243).                                                *)
THEOREM FlashedWhenOK == Spec => []SuccessMeansFlashed
  <1>1. AnswersInv => SuccessMeansFlashed
    <2> SUFFICES ASSUME AnswersInv, NEW m \in Targets, result[m] = "ok", ~ fellBack[m]
                 PROVE  FlashIsImage(m)
      BY DEF SuccessMeansFlashed
    <2>1. PICK e, j : InExchange(m, "end", e, j)
      BY ExchangeOf DEF Untouched
    <2>2. flash[m] = Before(m, Len(Image[m]) + 1, 1)
      BY <2>1 DEF InExchange, Placed, Holds
    <2> QED
      BY <2>2, BeforeEnd
  <1> QED
    BY <1>1, AnswersInvariant, PTL

(* No module ever holds a chunk at the place of another, or a garbled one.   *)
THEOREM AllInPlace == Spec => []NothingMisplaced
  <1>1. AnswersInv => NothingMisplaced
    <2> SUFFICES ASSUME AnswersInv, NEW m \in Targets, ~ fellBack[m], NEW w \in flash[m]
                 PROVE  w[1] = w[2]
      BY DEF NothingMisplaced
    <2>1. CASE Untouched(m)
      BY <2>1 DEF Untouched
    <2>2. CASE \E st, e, j : InExchange(m, st, e, j)
      <3>1. \E e, j : flash[m] = Before(m, e, j)
        BY <2>2 DEF InExchange, Holds
      <3>2. PICK p : w = <<p, p>>
        BY <3>1 DEF Before
      <3> QED
        BY <3>2
    <2> QED
      BY <2>1, <2>2, ExchangeOf
  <1> QED
    BY <1>1, AnswersInvariant, PTL

-----------------------------------------------------------------------------
(* The boards leave upgrade mode.                                            *)

\* Board s has left upgrade mode, and nothing on its way makes it enter again.
HasLeft(s) == mode[s] = "normal" /\ \A c \in Commands(s) : c.type = "exit"

\* The commands to s after the first q, and no others, are exit commands.
ExitsAfter(s, q) ==
    /\ q \in 0 .. Len(cmds[s])
    /\ \A n \in 1 .. Len(cmds[s]) : cmds[s][n].type = "exit" <=> n > q

\* The attempts made to have the i-th board leave.
ExitsTried(i) ==
    CASE stage = "exit" /\ i = k -> RESEND_COUNT - left
      [] stage = "exit" /\ i < k -> RESEND_COUNT
      [] stage \in {"close", "done"} -> RESEND_COUNT
      [] OTHER -> 0

\* Each attempt is on its way or has cost a fault, until the board carries one out.
ExitOK(i) ==
    /\ (\E r \in Returned(SysIds[i]) : r.type = "exit") => HasLeft(SysIds[i])
    /\ \/ HasLeft(SysIds[i])
       \/ \E q \in Nat : /\ ExitsAfter(SysIds[i], q)
                         /\ Len(cmds[SysIds[i]]) - q + faults >= ExitsTried(i)

LEMMA TriedTypes ==
    ASSUME TypeInv
    PROVE  /\ \A i : ExitsTried(i) \in Int
           /\ \A s \in Systems : cmds[s] \in Seq(Cmd) /\ Len(cmds[s]) \in Nat
           /\ faults \in Nat /\ left \in Nat
  <1>1. \A s \in Systems : cmds[s] \in Seq(Cmd) /\ Len(cmds[s]) \in Nat
    BY ChannelTypes DEF Endpoints
  <1> QED
    BY <1>1, RobotUpdateAssumption DEF ExitsTried, TypeInv, ControlOK, ChannelsOK

LEMMA TriedNext ==
    ASSUME TypeInv'
    PROVE  (\A i : ExitsTried(i)' \in Int) /\ faults' \in Nat
  BY RobotUpdateAssumption DEF ExitsTried, TypeInv, ControlOK, ChannelsOK

\* Before its exchange no exit command is on its way and no answer to one.
LEMMA NoExitYet ==
    ASSUME AnswersInv, NEW s \in Systems, exch[s] < 2, exch[s] \in Nat
    PROVE  \A x \in Commands(s) \cup Returned(s) : x.type # "exit"
  <1>1. \A x \in Commands(s) \cup Returned(s) : x.n =< exch[s]
    BY Peers DEF AnswersInv, Ordered
  <1> QED
    BY <1>1 DEF AnswersInv, BoardOK

LEMMA ExitUntried ==
    ASSUME TypeInv', NEW i \in 1 .. Len(SysIds),
           \A x \in Commands(SysIds[i])' \cup Returned(SysIds[i])' : x.type # "exit",
           ExitsTried(i)' =< 0
    PROVE  ExitOK(i)'
  <1> DEFINE s == SysIds[i]
  <1>0. s \in Endpoints
    BY Peers
  <1>1. PICK q \in Nat : q = Len(cmds'[s]) /\ cmds'[s] \in Seq(Cmd) /\ faults' \in Nat
    BY <1>0 DEF TypeInv, ChannelsOK
  <1>2. \A n \in 1 .. q : cmds'[s][n].type # "exit"
    BY <1>1 DEF Commands, Items
  <1>3. ExitsAfter(s, q)'
    BY <1>1, <1>2 DEF ExitsAfter
  <1>4. Len(cmds'[s]) - q + faults' >= ExitsTried(i)'
    BY <1>1, TriedNext
  <1> QED
    BY <1>1, <1>3, <1>4 DEF ExitOK

\* A step in which nothing reaches board s and the attempts are paid for.
LEMMA ExitQuiet ==
    ASSUME TypeInv, TypeInv', NEW i \in 1 .. Len(SysIds), ExitOK(i),
           UNCHANGED <<cmds[SysIds[i]], mode[SysIds[i]]>>,
           Returned(SysIds[i])' \subseteq Returned(SysIds[i]),
           \/ HasLeft(SysIds[i])
           \/ faults' - ExitsTried(i)' >= faults - ExitsTried(i)
    PROVE  ExitOK(i)'
  <1> DEFINE s == SysIds[i]
  <1>1. s \in Systems /\ cmds'[s] = cmds[s] /\ mode'[s] = mode[s]
    BY Peers
  <1>2. HasLeft(s) => HasLeft(s)'
    BY <1>1 DEF HasLeft, Commands
  <1>3. (\E r \in Returned(s)' : r.type = "exit") => HasLeft(s)'
    BY <1>2 DEF ExitOK
  <1>4. CASE HasLeft(s)
    BY <1>2, <1>3, <1>4 DEF ExitOK
  <1>5. CASE ~ HasLeft(s)
    <2>1. PICK q \in Nat : ExitsAfter(s, q) /\ Len(cmds[s]) - q + faults >= ExitsTried(i)
      BY <1>5 DEF ExitOK
    <2>2. ExitsAfter(s, q)'
      BY <1>1, <2>1 DEF ExitsAfter
    <2>3. ExitsTried(i) \in Int
      BY TriedTypes
    <2>5. ExitsTried(i)' \in Int /\ faults' \in Nat
      BY TriedNext
    <2>4. Len(cmds'[s]) - q + faults' >= ExitsTried(i)'
      BY <1>1, <1>5, <2>1, <2>3, <2>5, TriedTypes
    <2> QED
      BY <1>3, <2>2, <2>4 DEF ExitOK
  <1> QED
    BY <1>4, <1>5

\* The exchange with board i is exit, or is over.
Leaving(i) == (stage = "exit" /\ i =< k) \/ stage \in {"close", "done"}

LEMMA LeavingCounted ==
    ASSUME TypeInv, AnswersInv, NEW i \in 1 .. Len(SysIds)
    PROVE  /\ SysIds[i] \in Systems /\ SysIds[i] \in Endpoints
           /\ exch[SysIds[i]] = IF Leaving(i) THEN 2 ELSE Begun(i)
           /\ ~ Leaving(i) => exch[SysIds[i]] < 2 /\ ExitsTried(i) = 0
           /\ exch[SysIds[i]] \in Nat
  <1>1. i \in Nat /\ SysIds[i] \in Systems /\ SysIds[i] \in Endpoints /\ k \in Nat
    BY Peers, ListTypes DEF TypeInv, ControlOK
  <1>2. exch[SysIds[i]] = Begun(i)
    BY DEF AnswersInv, BoardsCounted
  <1> QED
    BY <1>1, <1>2 DEF Begun, Leaving, ExitsTried

\* A board carries out a command.
LEMMA ExitAnswered ==
    ASSUME TypeInv, TypeInv', AnswersInv, NEW i \in 1 .. Len(SysIds), ExitOK(i),
           SystemAnswers(SysIds[i])
    PROVE  ExitOK(i)'
  <1> DEFINE s == SysIds[i]
             c == Head(cmds[s])
  <1>1. s \in Systems /\ s \in Endpoints /\ cmds[s] # <<>> /\ Ordered(s) /\ BoardOK(s)
    BY Peers DEF SystemAnswers, AnswersInv
  <1>2. Answer(s, c, TRUE) /\ mode'[s] = IF c.type = "enter" THEN "upgrade" ELSE "normal"
    BY <1>1 DEF SystemAnswers, TypeInv, BoardsOK
  <1>3. cmds[s] \in Seq(Cmd) /\ cmds'[s] = Tail(cmds[s])
    BY <1>1, <1>2 DEF Answer, TypeInv, ChannelsOK
  <1>4. c \in Commands(s) /\ c = cmds[s][1] /\ Commands(s)' \subseteq Commands(s)
        /\ (\A n \in 1 .. Len(cmds'[s]) : cmds'[s][n] = cmds[s][n + 1])
        /\ Len(cmds'[s]) = Len(cmds[s]) - 1 /\ Len(cmds[s]) \in Nat \ {0}
        /\ DOMAIN cmds'[s] = 1 .. Len(cmds[s]) - 1
    BY <1>1, <1>3, ItemsOfTail DEF Commands, Items
  <1>5. \A x \in Commands(s) : x.type = "exit" \/ (x.type = "enter" /\ x.type # "exit")
    BY <1>1 DEF BoardOK
  <1>6. \E r : /\ r.type = c.type /\ Returned(s)' = Returned(s) \cup {r}
    <2> DEFINE r == [src |-> s, type |-> c.type, ok |-> TRUE, n |-> c.n]
    <2>1. Returned(s)' = Returned(s) \cup {r} /\ r.type = c.type
      BY <1>1, <1>2, Answering
    <2> QED
      BY <2>1
  <1>7. ExitsTried(i)' = ExitsTried(i) /\ faults' = faults
    BY <1>2 DEF Answer, ExitsTried, position, retries
  <1>8. faults \in Nat /\ ExitsTried(i) \in Int
    BY TriedTypes
  <1> HIDE DEF c
  <1>9. CASE c.type = "exit"
    <2>1. \A x \in Commands(s)' : x.type = "exit"
      <3>1. CASE HasLeft(s)
        BY <1>4, <3>1 DEF HasLeft
      <3>2. CASE \E q \in Nat : ExitsAfter(s, q)
        <4>1. \A n \in 1 .. Len(cmds[s]) : cmds[s][n].type = "exit"
          BY <1>4, <1>9, <3>2 DEF ExitsAfter
        <4>2. \A n \in 1 .. Len(cmds'[s]) : n + 1 \in 1 .. Len(cmds[s])
          BY <1>4
        <4>3. \A n \in 1 .. Len(cmds'[s]) : cmds'[s][n].type = "exit"
          BY <1>4, <4>1, <4>2
        <4> QED
          BY <4>3 DEF Commands, Items
      <3> QED
        BY <3>1, <3>2 DEF ExitOK
    <2>2. HasLeft(s)'
      BY <1>2, <1>9, <2>1 DEF HasLeft
    <2> QED
      BY <2>2 DEF ExitOK
  <1>10. CASE c.type # "exit"
    <2>1. ~ HasLeft(s)
      BY <1>4, <1>10 DEF HasLeft
    <2>2. \A r \in Returned(s)' : r.type # "exit"
      BY <1>6, <1>10, <2>1 DEF ExitOK
    <2>3. PICK q \in Nat : ExitsAfter(s, q) /\ Len(cmds[s]) - q + faults >= ExitsTried(i)
      BY <2>1 DEF ExitOK
    <2>4. PICK p \in Nat : p + 1 = q
      <3>1. q > 0
        BY <1>4, <1>10, <2>3 DEF ExitsAfter
      <3> QED
        BY <3>1
    <2>5. ExitsAfter(s, p)'
      <3>1. p \in 0 .. Len(cmds'[s])
        BY <1>4, <2>3, <2>4 DEF ExitsAfter
      <3>2. \A n \in 1 .. Len(cmds'[s]) :
               n + 1 \in 1 .. Len(cmds[s]) /\ (n > p <=> n + 1 > q)
        BY <1>4, <2>4
      <3> QED
        BY <1>4, <2>3, <3>1, <3>2 DEF ExitsAfter
    <2>6. Len(cmds'[s]) - p + faults' >= ExitsTried(i)'
      BY <1>4, <1>7, <1>8, <2>3, <2>4
    <2> QED
      BY <2>2, <2>5, <2>6 DEF ExitOK
  <1> QED
    BY <1>9, <1>10

\* A command to the board is lost.
LEMMA ExitLost ==
    ASSUME TypeInv, TypeInv', AnswersInv, NEW i \in 1 .. Len(SysIds), ExitOK(i),
           NEW f \in Endpoints, Lose(f)
    PROVE  ExitOK(i)'
  <1> DEFINE s == SysIds[i]
  <1>1. s \in Systems /\ s \in Endpoints /\ Ordered(s)
    BY Peers DEF AnswersInv
  <1>2. Commands(s)' \subseteq Commands(s) /\ Returned(s)' \subseteq Returned(s)
    BY <1>1, OrderedLost
  <1>3. mode' = mode /\ faults' = faults + 1 /\ ExitsTried(i)' = ExitsTried(i)
    BY DEF Lose, boards, ExitsTried, position, retries
  <1>4. HasLeft(s) => HasLeft(s)'
    BY <1>2, <1>3 DEF HasLeft
  <1>5. (\E r \in Returned(s)' : r.type = "exit") => HasLeft(s)'
    BY <1>2, <1>4 DEF ExitOK
  <1>6. faults \in Nat /\ ExitsTried(i) \in Int /\ cmds[s] \in Seq(Cmd)
    BY <1>1, TriedTypes
  <1>7. cmds'[s] = cmds[s] \/ (cmds[s] # <<>> /\ cmds'[s] = Tail(cmds[s]))
    BY <1>1 DEF Lose, TypeInv, ChannelsOK
  <1>8. CASE cmds'[s] = cmds[s]
    BY <1>1, <1>2, <1>3, <1>6, <1>8, ExitQuiet
  <1>9. CASE cmds[s] # <<>> /\ cmds'[s] = Tail(cmds[s]) /\ ~ HasLeft(s)
    <2>1. PICK q \in Nat : ExitsAfter(s, q) /\ Len(cmds[s]) - q + faults >= ExitsTried(i)
      BY <1>9 DEF ExitOK
    <2>2. /\ Len(cmds'[s]) = Len(cmds[s]) - 1 /\ Len(cmds[s]) \in Nat \ {0}
          /\ \A n \in 1 .. Len(cmds'[s]) : cmds'[s][n] = cmds[s][n + 1]
      BY <1>6, <1>9
    <2>3. PICK p \in Nat : p = IF q = 0 THEN 0 ELSE q - 1
      OBVIOUS
    <2>4. ExitsAfter(s, p)'
      <3>1. p \in 0 .. Len(cmds'[s])
        BY <2>1, <2>2, <2>3 DEF ExitsAfter
      <3>2. \A n \in 1 .. Len(cmds'[s]) :
               n + 1 \in 1 .. Len(cmds[s]) /\ (n > p <=> n + 1 > q)
        BY <2>2, <2>3
      <3> QED
        BY <2>1, <2>2, <3>1, <3>2 DEF ExitsAfter
    <2>5. Len(cmds'[s]) - p + faults' >= ExitsTried(i)'
      <3> DEFINE a == Len(cmds[s])
                 b == Len(cmds'[s])
      <3>1. b = a - 1 /\ a \in Nat /\ a - q + faults >= ExitsTried(i)
        BY <2>1, <2>2
      <3> HIDE DEF a, b
      <3>2. b - p + (faults + 1) >= ExitsTried(i)
        BY <1>6, <2>3, <3>1
      <3> QED
        BY <1>3, <3>2 DEF b
    <2> QED
      BY <1>5, <2>4, <2>5 DEF ExitOK
  <1>10. CASE HasLeft(s)
    BY <1>4, <1>5, <1>10 DEF ExitOK
  <1> QED
    BY <1>7, <1>8, <1>9, <1>10

\* An exit command is sent to the board.
LEMMA ExitSent ==
    ASSUME TypeInv, TypeInv', AnswersInv, NEW i \in 1 .. Len(SysIds), ExitOK(i), Leaving(i), Send
    PROVE  ExitOK(i)'
  <1> DEFINE s == SysIds[i]
  <1>1. s \in Systems /\ s \in Endpoints /\ i \in Nat /\ k \in Nat
    BY Peers, ListTypes DEF TypeInv, ControlOK
  <1>2. stage = "exit" /\ Peer = SysIds[k] /\ k \in 1 .. Len(SysIds)
    BY ListTypes DEF Send, InLoop, Exchanging, Leaving, SysStages, UpgStages, Peer,
       TypeInv, ControlOK, InRange
  <1>3. UNCHANGED <<stage, k, RecvList, resp, mode, faults>> /\ left' = left - 1
    BY DEF Send, position, boards
  <1>4. Returned(s)' = Returned(s)
    BY <1>3 DEF Returned, Answers, Received
  <1>5. faults \in Nat /\ left \in Nat /\ ExitsTried(i) \in Int /\ cmds[s] \in Seq(Cmd)
        /\ RESEND_COUNT \in Nat
    BY <1>1, TriedTypes, RobotUpdateAssumption
  <1>6. CASE i # k
    <2>1. cmds'[s] = cmds[s]
      BY <1>1, <1>2, <1>6, Peers DEF Send, TypeInv, ChannelsOK
    <2>2. ExitsTried(i)' = ExitsTried(i)
      BY <1>1, <1>2, <1>3, <1>6 DEF ExitsTried
    <2> QED
      BY <1>3, <1>4, <1>5, <2>1, <2>2, ExitQuiet
  <1>7. CASE i = k
    <2>1. cmds'[s] = Append(cmds[s], Command)
      BY <1>1, <1>2, <1>7 DEF Send, TypeInv, ChannelsOK
    <2>2. Command \in Cmd /\ Command.type = "exit"
      BY <1>2, CommandType DEF Command, Exchanging, SysStages, TypeInv
    <2>3. HasLeft(s) => HasLeft(s)'
      <3>1. Commands(s)' = Commands(s) \cup {Command}
        BY <1>1, <1>2, <1>7, Sending
      <3> QED
        BY <1>3, <2>2, <3>1 DEF HasLeft
    <2>4. (\E r \in Returned(s)' : r.type = "exit") => HasLeft(s)'
      BY <1>4, <2>3 DEF ExitOK
    <2>5. CASE ~ HasLeft(s)
      <3>1. PICK q \in Nat : ExitsAfter(s, q) /\ Len(cmds[s]) - q + faults >= ExitsTried(i)
        BY <2>5 DEF ExitOK
      <3>2. Len(cmds'[s]) = Len(cmds[s]) + 1 /\ Len(cmds[s]) \in Nat
            /\ (\A n \in 1 .. Len(cmds[s]) : cmds'[s][n] = cmds[s][n])
            /\ cmds'[s][Len(cmds[s]) + 1] = Command
        BY <1>5, <2>1, <2>2
      <3>3. ExitsAfter(s, q)'
        <4>1. q =< Len(cmds[s]) /\ q \in 0 .. Len(cmds'[s])
          BY <3>1, <3>2 DEF ExitsAfter
        <4>2. ASSUME NEW n \in 1 .. Len(cmds'[s])
              PROVE  cmds'[s][n].type = "exit" <=> n > q
          <5>1. CASE n \in 1 .. Len(cmds[s])
            BY <3>1, <3>2, <5>1 DEF ExitsAfter
          <5>2. CASE n = Len(cmds[s]) + 1
            BY <2>2, <3>2, <4>1, <5>2
          <5> QED
            BY <3>2, <5>1, <5>2
        <4> QED
          BY <4>1, <4>2 DEF ExitsAfter
      <3>4. ExitsTried(i)' = ExitsTried(i) + 1
        BY <1>2, <1>3, <1>5, <1>7 DEF ExitsTried
      <3>5. Len(cmds'[s]) - q + faults' >= ExitsTried(i)'
        BY <1>3, <1>5, <3>1, <3>2, <3>4
      <3> QED
        BY <2>4, <3>3, <3>5 DEF ExitOK
    <2>6. CASE HasLeft(s)
      BY <2>3, <2>4, <2>6 DEF ExitOK
    <2> QED
      BY <2>5, <2>6
  <1> QED
    BY <1>6, <1>7

\* Answers are taken, attempts fail or run out, and the master goes on.
LEMMA ExitMaster ==
    ASSUME TypeInv, TypeInv', AnswersInv, NEW i \in 1 .. Len(SysIds), ExitOK(i), Leaving(i),
           Master, ~ Send
    PROVE  ExitOK(i)'
  <1> DEFINE s == SysIds[i]
  <1>1. s \in Systems /\ s \in Endpoints /\ i \in Nat /\ k \in Nat
    BY Peers, ListTypes DEF TypeInv, ControlOK
  <1>2. UNCHANGED <<cmds, mode>> /\ Returned(s)' \subseteq Returned(s)
    <2>1. /\ UNCHANGED <<boards, cmds, resp>>
          /\ RecvList' = RecvList \/ (RecvList # <<>> /\ RecvList' = Tail(RecvList))
      BY MasterChannel
    <2>2. Items(RecvList)' \subseteq Items(RecvList)
      BY <2>1, ItemsOfTail DEF TypeInv, ChannelsOK
    <2> QED
      BY <2>1, <2>2 DEF boards, Returned, Answers, Received
  <1>3. faults \in Nat /\ left \in Nat /\ RESEND_COUNT \in Nat
    BY TriedTypes, RobotUpdateAssumption
  <1>4. ASSUME stage = "exit", k \in 1 .. Len(SysIds), SysDone, faults' = faults,
               i = k => HasLeft(s) \/ left = 0
        PROVE  ExitOK(i)'
    <2>1. i =< k /\ ((stage' = "exit" /\ k' = k + 1) \/ stage' = "close")
      BY <1>4 DEF Leaving, SysDone, Enter, Goto, SysStages
    <2>2. ExitsTried(i)' = RESEND_COUNT
      BY <1>1, <2>1 DEF ExitsTried
    <2>3. i # k \/ left = 0 => ExitsTried(i) = RESEND_COUNT
      BY <1>1, <1>3, <1>4, <2>1 DEF ExitsTried
    <2> QED
      BY <1>2, <1>3, <1>4, <2>2, <2>3, ExitQuiet
  <1>5. Exchanging => stage = "exit" /\ k \in 1 .. Len(SysIds) /\ Peer = SysIds[k]
    BY ListTypes DEF Exchanging, Leaving, SysStages, UpgStages, Peer,
       TypeInv, ControlOK, InRange
  <1>6. CASE Accept
    <2>1. stage = "exit" /\ k \in 1 .. Len(SysIds) /\ Peer = SysIds[k] /\ SysDone
          /\ RecvList # <<>> /\ Expected(Head(RecvList)) /\ faults' = faults
      BY <1>5, <1>6 DEF Accept, Waiting
    <2>2. i = k => HasLeft(s)
      <3>1. RecvList \in Seq(Resp) /\ Head(RecvList) = RecvList[1] /\ 1 \in 1 .. Len(RecvList)
        BY <2>1 DEF TypeInv, ChannelsOK
      <3>2. i = k => Head(RecvList) \in Returned(s) /\ Head(RecvList).type = "exit"
        BY <2>1, <3>1 DEF Expected, Returned, Received, Items
      <3> QED
        BY <3>2 DEF ExitOK
    <2> QED
      BY <1>4, <2>1, <2>2
  <1>7. CASE GiveUp
    BY <1>4, <1>5, <1>7 DEF GiveUp, UpgStages
  <1>8. CASE SendError \/ SendNothing
    <2>1. UNCHANGED <<stage, k>> /\ left' = left - 1 /\ faults' = faults + 1
      BY <1>8 DEF SendError, SendNothing, position
    <2>2. ExitsTried(i)' = ExitsTried(i) \/ ExitsTried(i)' = ExitsTried(i) + 1
      BY <1>1, <1>3, <2>1 DEF ExitsTried
    <2>3. ExitsTried(i) \in Int
      BY TriedTypes
    <2> QED
      BY <1>2, <1>3, <2>1, <2>2, <2>3, ExitQuiet
  <1>9. CASE Discard \/ Timeout \/ Close
    <2>1. ExitsTried(i)' = ExitsTried(i) /\ faults' = faults
      BY <1>9 DEF Discard, Timeout, Close, position, retries, ExitsTried
    <2> QED
      BY <1>2, <1>3, <2>1, TriedTypes, ExitQuiet
  <1> QED
    BY <1>6, <1>7, <1>8, <1>9
       DEF Master, Open, OpenFails, Load, LoadFails, LeaveUpgradeMode, Leaving

\* A step of the bus or of another board.
LEMMA ExitAside ==
    ASSUME TypeInv, TypeInv', AnswersInv, NEW i \in 1 .. Len(SysIds), ExitOK(i),
           \/ \E t \in Systems : t # SysIds[i] /\ SystemAnswers(t)
           \/ \E m \in Targets : ModuleAnswers(m) \/ Garble(m)
           \/ \E e \in Endpoints : Deliver(e)
           \/ UNCHANGED vars
    PROVE  ExitOK(i)'
  <1> DEFINE s == SysIds[i]
  <1>1. s \in Systems /\ s \in Endpoints /\ s \notin Targets /\ Ordered(s)
        /\ (\A e \in Endpoints : Ordered(e))
    BY Peers DEF AnswersInv
  <1>2. cmds \in [Endpoints -> Seq(Cmd)] /\ resp \in [Endpoints -> Seq(Resp)] /\ faults \in Nat
        /\ ExitsTried(i) \in Int
    BY TriedTypes DEF TypeInv, ChannelsOK
  <1>3. ASSUME UNCHANGED <<stage, position, retries>>, cmds'[s] = cmds[s], mode'[s] = mode[s],
               Returned(s)' \subseteq Returned(s), faults' = faults \/ faults' = faults + 1
        PROVE  ExitOK(i)'
    <2>1. ExitsTried(i)' = ExitsTried(i)
      BY <1>3 DEF position, retries, ExitsTried
    <2> QED
      BY <1>2, <1>3, <2>1, ExitQuiet
  <1>4. ASSUME NEW f \in Endpoints, f # s, NEW c, NEW ok, Answer(f, c, ok)
        PROVE  /\ UNCHANGED <<stage, position, retries, faults>> /\ cmds'[s] = cmds[s]
               /\ Returned(s)' \subseteq Returned(s)
    <2>1. cmds'[s] = cmds[s] /\ resp'[s] = resp[s] /\ RecvList' = RecvList
      BY <1>1, <1>2, <1>4 DEF Answer
    <2> QED
      BY <1>4, <2>1 DEF Answer, Returned, Answers, Received
  <1>5. CASE \E t \in Systems : t # s /\ SystemAnswers(t)
    <2>1. PICK t \in Systems : t # s /\ SystemAnswers(t)
      BY <1>5
    <2>2. Answer(t, Head(cmds[t]), TRUE) /\ t \in Endpoints /\ mode'[s] = mode[s]
      BY <1>1, <2>1, Peers DEF SystemAnswers, TypeInv, BoardsOK
    <2> QED
      BY <1>3, <1>4, <2>1, <2>2
  <1>6. CASE \E m \in Targets : ModuleAnswers(m)
    <2>1. PICK m \in Targets : ModuleAnswers(m)
      BY <1>6
    <2>2. m \in Endpoints /\ m # s /\ mode' = mode /\ \E ok : Answer(m, Head(cmds[m]), ok)
      BY <1>1, <2>1, ModuleAnswersOnce DEF ModuleAnswers, Endpoints
    <2> QED
      BY <1>3, <1>4, <2>2
  <1>7. CASE \E m \in Targets : Garble(m)
    <2>1. PICK m \in Targets : Garble(m)
      BY <1>7
    <2>2. cmds'[s] = cmds[s]
      BY <1>1, <1>2, <2>1 DEF Garble
    <2>3. /\ UNCHANGED <<stage, position, retries, mode>> /\ faults' = faults + 1
          /\ Returned(s)' \subseteq Returned(s)
      BY <2>1 DEF Garble, boards, Returned, Answers, Received
    <2> QED
      BY <1>3, <2>2, <2>3
  <1>8. CASE \E e \in Endpoints : Deliver(e)
    <2>1. PICK e \in Endpoints : Deliver(e)
      BY <1>8
    <2>2. Returned(s)' \subseteq Returned(s)
      BY <1>1, <2>1, Delivering
    <2> QED
      BY <1>3, <2>1, <2>2 DEF Deliver, boards
  <1>9. CASE UNCHANGED vars
    <2>1. Returned(s)' \subseteq Returned(s)
      BY <1>9 DEF vars, Returned, Answers, Received
    <2> QED
      BY <1>3, <1>9, <2>1 DEF vars, boards
  <1> QED
    BY <1>5, <1>6, <1>7, <1>8, <1>9

LEMMA ExitStep ==
    ASSUME TypeInv, TypeInv', AnswersInv, AnswersInv', [Next]_vars,
           NEW i \in 1 .. Len(SysIds), ExitOK(i)
    PROVE  ExitOK(i)'
  <1> DEFINE s == SysIds[i]
  <1>1. s \in Systems /\ s \in Endpoints
    BY Peers
  <1>2. CASE ~ Master
    <2>1. CASE SystemAnswers(s)
      BY <2>1, ExitAnswered
    <2>2. CASE \E f \in Endpoints : Lose(f)
      BY <2>2, ExitLost
    <2> QED
      BY <1>2, <2>1, <2>2, ExitAside DEF Next
  <1>3. CASE Master /\ Leaving(i)
    BY <1>3, ExitSent, ExitMaster
  <1>4. CASE Master /\ ~ Leaving(i) /\ ~ Leaving(i)'
    <2>1. exch'[s] < 2 /\ exch'[s] \in Nat /\ ExitsTried(i)' = 0
      <3>1. exch'[s] = Begun(i)' /\ i \in Nat /\ k' \in Nat
        BY DEF AnswersInv, BoardsCounted, TypeInv, ControlOK
      <3> QED
        BY <1>4, <3>1 DEF Begun, Leaving, ExitsTried
    <2>2. \A x \in Commands(s)' \cup Returned(s)' : x.n =< exch'[s]
      BY <1>1 DEF AnswersInv, Ordered
    <2>3. \A x \in Commands(s)' \cup Returned(s)' :
             x.type = "exit" => x.n = 2
      BY <1>1 DEF AnswersInv, BoardOK
    <2>4. \A x \in Commands(s)' \cup Returned(s)' : x.type # "exit"
      BY <2>1, <2>2, <2>3
    <2> QED
      BY <2>1, <2>4, ExitUntried
  <1>5. CASE Master /\ ~ Leaving(i) /\ Leaving(i)'
    <2>1. exch[s] < 2 /\ exch[s] \in Nat /\ k \in Nat /\ i \in Nat /\ i >= 1 /\ Len(SysIds) \in Nat
      BY <1>5, LeavingCounted, ListTypes DEF TypeInv, ControlOK
    <2>2. UNCHANGED <<cmds, resp>> /\ stage' = "exit" /\ i = k' /\ left' = RESEND_COUNT
      <3>1. CASE stage \in {"exit", "enter"} /\ SysDone /\ UNCHANGED <<cmds, resp>>
        <4>1. stage = "exit" /\ k < i /\ k < Len(SysIds)
          <5>1. stage = "exit"
            BY <1>5, <3>1 DEF SysDone, Enter, Goto, Leaving
          <5> QED
            BY <1>5, <2>1, <5>1 DEF Leaving
        <4>2. k' = k + 1 /\ stage' = "exit" /\ left' = RESEND_COUNT
          BY <3>1, <4>1 DEF SysDone, Enter
        <4> QED
          BY <1>5, <2>1, <3>1, <4>1, <4>2 DEF Leaving
      <3>2. CASE LeaveUpgradeMode
        <4>1. k' = 1 /\ stage' = "exit" /\ left' = RESEND_COUNT /\ UNCHANGED <<cmds, resp>>
          BY <3>2 DEF LeaveUpgradeMode, Enter
        <4> QED
          BY <1>5, <2>1, <4>1 DEF Leaving
      <3>3. CASE UNCHANGED <<stage, k>>
        BY <1>5, <3>3 DEF Leaving
      <3>4. CASE stage \in UpgStages /\ (Accept \/ GiveUp)
        BY <1>5, <3>4, ModuleSteps DEF Leaving, UpgStages
      <3>5. CASE Open \/ OpenFails \/ Load \/ LoadFails \/ Close
        BY <1>5, <3>5
           DEF Open, OpenFails, Load, LoadFails, Close, Enter, Return, Goto, Leaving
      <3>6. CASE Send \/ SendError \/ SendNothing \/ Discard \/ Timeout
        BY <3>3, <3>6 DEF Send, SendError, SendNothing, Discard, Timeout, position
      <3>7. CASE stage \in SysStages /\ (Accept \/ GiveUp)
        BY <3>1, <3>7 DEF Accept, GiveUp, SysStages, UpgStages
      <3> QED
        BY <1>5, <3>2, <3>4, <3>5, <3>6, <3>7
           DEF Master, Accept, GiveUp, Waiting, Exchanging
    <2>3. Commands(s)' = Commands(s) /\ Returned(s)' \subseteq Returned(s)
      <3>1. RecvList' = RecvList \/ (RecvList # <<>> /\ RecvList' = Tail(RecvList))
        BY <1>5, MasterChannel
      <3>2. Items(RecvList)' \subseteq Items(RecvList)
        BY <3>1, ItemsOfTail DEF TypeInv, ChannelsOK
      <3> QED
        BY <2>2, <3>2 DEF Commands, Returned, Answers, Received
    <2>4. \A x \in Commands(s)' \cup Returned(s)' : x.type # "exit"
      BY <1>1, <2>1, <2>3, NoExitYet
    <2>5. ExitsTried(i)' = 0
      BY <2>2, RobotUpdateAssumption DEF ExitsTried
    <2> QED
      BY <2>4, <2>5, ExitUntried
  <1> QED
    BY <1>2, <1>3, <1>4, <1>5

(* A board is left in upgrade mode only if an exit command to it is still on *)
(* its way or there were at least RESEND_COUNT faults of any kind, for any   *)
(* number of boards and of attempts: each board has its own attempts, a late *)
(* enter command comes before every exit, and the answer that ends the       *)
(* attempts was sent after the mode was left (robotUpdate.cpp:409-557).      *)
THEOREM BoardsLeave == Spec => []BoardsLeaveUpgradeMode
  <1> DEFINE Inv == TypeInv /\ AnswersInv
             Leave == \A i \in 1 .. Len(SysIds) : ExitOK(i)
  <1>1. Init => Leave
    <2> SUFFICES ASSUME Init, NEW i \in 1 .. Len(SysIds) PROVE ExitOK(i)
      OBVIOUS
    <2>1. SysIds[i] \in Endpoints /\ SysIds[i] \in Systems
      BY Peers
    <2>2. HasLeft(SysIds[i]) /\ Returned(SysIds[i]) = {}
      BY <2>1 DEF Init, HasLeft, Commands, Returned, Answers, Received, Items
    <2> QED
      BY <2>2 DEF ExitOK
  <1>2. Inv /\ Inv' /\ Leave /\ [Next]_vars => Leave'
    BY ExitStep
  <1>3. Inv /\ Leave => BoardsLeaveUpgradeMode
    <2> SUFFICES ASSUME Inv, Leave, stage = "done", NEW s \in Systems, mode[s] = "upgrade",
                        ~ (faults >= RESEND_COUNT)
                 PROVE  \E n \in 1 .. Len(cmds[s]) : cmds[s][n].type = "exit"
      BY DEF BoardsLeaveUpgradeMode
    <2>1. PICK i \in 1 .. Len(SysIds) : s = SysIds[i]
      BY DEF Systems
    <2>2. PICK q \in Nat : ExitsAfter(s, q) /\ Len(cmds[s]) - q + faults >= ExitsTried(i)
      BY <2>1 DEF ExitOK, HasLeft
    <2>3. ExitsTried(i) = RESEND_COUNT /\ RESEND_COUNT \in Nat /\ faults \in Nat
          /\ Len(cmds[s]) \in Nat
      BY TriedTypes, RobotUpdateAssumption DEF ExitsTried
    <2>4. Len(cmds[s]) > q
      BY <2>2, <2>3
    <2>5. Len(cmds[s]) \in 1 .. Len(cmds[s])
      BY <2>2, <2>3, <2>4
    <2> QED
      BY <2>2, <2>4, <2>5 DEF ExitsAfter
  <1> HIDE DEF Leave
  <1> QED
    BY AnswersInvariant, <1>1, <1>2, <1>3, PTL DEF Spec

-----------------------------------------------------------------------------
(* RobotUpdate implements ModuleUpdate.                                      *)

\* The places of the abstract specification are those of Before.
LEMMA SamePlaces ==
    ASSUME NEW m \in Targets
    PROVE  /\ \A p : p \in Flashing!Places(m) <=>
                 p \in Nat \X Nat /\ p[1] \in 1 .. Len(Image[m]) /\ p[2] \in 1 .. Image[m][p[1]]
           /\ \A e, j : e \in Nat /\ j \in Nat => Flashing!UpTo(m, <<e, j>>) = Before(m, e, j)
           /\ Before(m, Len(Image[m]) + 1, 1) = Flashing!Whole(m)
  <1> DEFINE Of(e) == { <<e, j>> : j \in 1 .. Image[m][e] }
  <1>1. ASSUME NEW p PROVE p \in Flashing!Places(m) <=>
            p \in Nat \X Nat /\ p[1] \in 1 .. Len(Image[m]) /\ p[2] \in 1 .. Image[m][p[1]]
    <2>1. p \in Flashing!Places(m) <=> \E e \in 1 .. Len(Image[m]) : p \in Of(e)
      BY DEF Flashing!Places
    <2>2. ASSUME NEW e \in 1 .. Len(Image[m]), p \in Of(e)
          PROVE  p \in Nat \X Nat /\ p[1] = e /\ p[2] \in 1 .. Image[m][e]
      <3>1. PICK j \in 1 .. Image[m][e] : p = <<e, j>>
        BY <2>2
      <3>2. e \in Nat /\ j \in Nat
        BY ImageTypes
      <3> QED
        BY <3>1, <3>2
    <2>3. ASSUME p \in Nat \X Nat, p[1] \in 1 .. Len(Image[m]), p[2] \in 1 .. Image[m][p[1]]
          PROVE  p \in Of(p[1])
      <3>1. p = <<p[1], p[2]>>
        BY <2>3
      <3> QED
        BY <2>3, <3>1
    <2> HIDE DEF Of
    <2> QED
      BY <2>1, <2>2, <2>3
  <1>2. ASSUME NEW e \in Nat, NEW j \in Nat
        PROVE  Flashing!UpTo(m, <<e, j>>) = Before(m, e, j)
    <2>1. { q \in Flashing!Places(m) : q[1] < e \/ (q[1] = e /\ q[2] < j) } = Earlier(m, e, j)
      BY <1>1 DEF Earlier
    <2> QED
      BY <2>1 DEF Flashing!UpTo, Before
  <1>3. Before(m, Len(Image[m]) + 1, 1) = Flashing!Whole(m)
    <2>1. Flashing!Places(m) = Earlier(m, Len(Image[m]) + 1, 1)
      BY <1>1, ImageTypes DEF Earlier
    <2> QED
      BY <2>1 DEF Flashing!Whole, Before
  <1> QED
    BY <1>1, <1>2, <1>3

\* What a command does to the flash: nothing, or one more chunk at its place.
LEMMA FlashGrows ==
    ASSUME TypeInv, NEW m \in Targets, ModuleAnswers(m),
           NEW st, NEW e, NEW j, InExchange(m, st, e, j)
    PROVE  \/ flash'[m] = flash[m]
           \/ /\ st = "crc" /\ e \in 1 .. Len(Image[m]) /\ j \in 1 .. Image[m][e]
              /\ flash[m] = Before(m, e, j)
              /\ flash'[m] = flash[m] \cup { << <<e, j>>, <<e, j>> >> }
  <1> DEFINE c == Head(cmds[m])
  <1>1. c \in Commands(m)
    BY ChannelTypes, ItemsOfTail DEF ModuleAnswers, Endpoints, Commands
  <1>2. OfNow(m, st, e, j, c) \/ OfBefore(m, st, e, j, c)
    BY <1>1 DEF InExchange
  <1>3. Placed(m, st, e, j) /\ Holds(m, st, e, j)
    BY DEF InExchange
  <1>4. CASE c.type = "start"
    <2>1. flash'[m] = {}
      BY <1>4 DEF ModuleAnswers, TypeInv, BoardsOK
    <2>2. st # "crc" /\ e = 1 /\ j = 1
      BY <1>2, <1>3, <1>4 DEF OfNow, OfBefore, Placed
    <2> QED
      BY <1>3, <2>1, <2>2, BeforeFirst DEF Holds
  <1>5. CASE c.type = "crc" /\ buf[m] = c.arg /\ ~ written[m]
    <2>1. flash'[m] = { w \in flash[m] : w[1] # addr[m] } \cup { <<addr[m], c.arg>> }
      BY <1>5 DEF ModuleAnswers, TypeInv, BoardsOK
    <2>2. st = "crc" /\ c.arg = <<e, j>>
      BY <1>2, <1>5 DEF OfNow, OfBefore
    <2>3. addr[m] = <<e, j>> /\ flash[m] = Before(m, e, j)
      BY <1>3, <1>5, <2>2 DEF Holds
    <2>4. e \in 1 .. Len(Image[m]) /\ j \in 1 .. Image[m][e]
      BY <1>3, <2>2, ImageTypes DEF Placed
    <2>5. \A w \in flash[m] : w[1] # addr[m]
      BY <2>3, <2>4, BeforeNext
    <2> QED
      BY <2>1, <2>2, <2>3, <2>4, <2>5
  <1>6. CASE \/ c.type \in {"addr", "data", "end"}
             \/ c.type = "crc" /\ (buf[m] # c.arg \/ written[m])
    BY <1>6 DEF ModuleAnswers
  <1> QED
    BY <1>4, <1>5, <1>6 DEF ModuleAnswers

\* The modules ahead and the one being served have no result.
Unfinished(i) == Ahead(i) \/ (stage \in UpgStages /\ i = k)

NoneYet == \A i \in 1 .. Len(Modules) : Unfinished(i) => result[Modules[i]] = "none"

\* The upgrade of the current module ends, or goes on without a result.
Ends(v) == Return(v) /\ v \in {"ok", "failed"}

GoesOn == stage' \in UpgStages /\ UNCHANGED <<k, result>>

LEMMA ServedStep ==
    ASSUME TypeInv, stage \in UpgStages, Master
    PROVE  /\ \/ GoesOn /\ fellBack' = fellBack
              \/ GoesOn /\ fellBack' = [fellBack EXCEPT ![Modules[k]] = @ \/ TRUE]
              \/ fellBack' = fellBack /\ (Ends("failed") \/ (Ends("ok") /\ stage = "end"))
           /\ flash' = flash
  <1> DEFINE P == \/ GoesOn /\ fellBack' = fellBack
                  \/ GoesOn /\ fellBack' = [fellBack EXCEPT ![Modules[k]] = @ \/ TRUE]
                  \/ fellBack' = fellBack /\ (Ends("failed") \/ (Ends("ok") /\ stage = "end"))
  <1>1. stage \notin SysStages /\ Peer = Modules[k]
    BY TurnOf
  <1>2. ASSUME NEW e, BeginElement(e) PROVE P
    BY <1>2 DEF BeginElement, Enter, GoesOn, UpgStages
  <1>3. ASSUME NEW e, NEW j, BeginChunk(e, j) PROVE P
    BY <1>3 DEF BeginChunk, Enter, GoesOn, UpgStages
  <1>4. ASSUME Return("failed") \/ (Return("ok") /\ stage = "end") PROVE P
    BY <1>4 DEF Return, Ends
  <1>5. ASSUME SendAgain(FALSE) PROVE P
    <2>1. CASE outer > 0
      <3>1. fellBack' = [fellBack EXCEPT ![Modules[k]] = fellBack[Modules[k]] \/ FALSE]
            /\ fellBack \in [Targets -> BOOLEAN] /\ Modules[k] \in Targets
        BY <1>5, <2>1, TurnOf DEF SendAgain, TypeInv, ControlOK
      <3>2. fellBack' = fellBack
        BY <3>1
      <3> QED
        BY <1>5, <2>1, <3>2 DEF SendAgain, Enter, GoesOn, UpgStages, position
    <2>2. CASE ~ (outer > 0)
      BY <1>4, <1>5, <2>2 DEF SendAgain
    <2> QED
      BY <2>1, <2>2
  <1>6. ASSUME SendAgain(TRUE) PROVE P
    <2>1. CASE outer > 0
      BY <1>6, <2>1 DEF SendAgain, Enter, GoesOn, UpgStages, position
    <2>2. CASE ~ (outer > 0)
      BY <1>4, <1>6, <2>2 DEF SendAgain
    <2> QED
      BY <2>1, <2>2
  <1>7. ASSUME Enter("crc", Peer, RESEND_COUNT), UNCHANGED <<position, result, fellBack>> PROVE P
    BY <1>7 DEF Enter, GoesOn, UpgStages, position
  <1>8. ASSUME UNCHANGED <<stage, position, result, fellBack>> PROVE P
    BY <1>8 DEF GoesOn, position
  <1> HIDE DEF P
  <1>9. ASSUME Accept PROVE P
    BY <1>1, <1>2, <1>3, <1>4, <1>5, <1>7, <1>9 DEF Accept, Verdict
  <1>10. ASSUME GiveUp PROVE P
    BY <1>1, <1>4, <1>6, <1>10 DEF GiveUp
  <1>11. ASSUME Send \/ SendError \/ SendNothing \/ Discard \/ Timeout PROVE P
    BY <1>8, <1>11 DEF Send, SendError, SendNothing, Discard, Timeout
  <1>12. P
    BY <1>9, <1>10, <1>11
       DEF Master, Open, OpenFails, Load, LoadFails, LeaveUpgradeMode, Close, UpgStages
  <1>13. flash' = flash
    BY MasterChannel DEF boards
  <1> QED
    BY <1>12, <1>13 DEF P

\* Elsewhere results are written only when an image cannot be read.
LEMMA OtherStep ==
    ASSUME TypeInv, stage \notin UpgStages, Master
    PROVE  /\ flash' = flash /\ fellBack' = fellBack
           /\ \/ result' = result
              \/ stage = "load" /\ k \in 1 .. Len(Modules) /\ Ends("failed")
  <1>1. flash' = flash
    BY MasterChannel DEF boards
  <1>2. CASE Accept \/ GiveUp
    <2>1. SysDone
      BY <1>2 DEF Accept, GiveUp, Waiting, Exchanging, UpgStages
    <2> QED
      BY <1>1, <2>1 DEF SysDone
  <1>3. CASE Send \/ SendError \/ SendNothing \/ Discard \/ Timeout
    BY <1>1, <1>3 DEF Send, SendError, SendNothing, Discard, Timeout
  <1>4. CASE Open \/ OpenFails \/ Load \/ LeaveUpgradeMode \/ Close
    BY <1>1, <1>4 DEF Open, OpenFails, Load, LeaveUpgradeMode, Close
  <1>5. CASE LoadFails
    BY <1>1, <1>5, ListTypes DEF LoadFails, Ends, Return, TypeInv, ControlOK, InRange
  <1> QED
    BY <1>2, <1>3, <1>4, <1>5 DEF Master

LEMMA NoneYetStep ==
    ASSUME TypeInv, NoneYet, [Next]_vars
    PROVE  NoneYet'
  <1>t. result \in [Targets -> {"none", "ok", "failed"}] /\ k \in Nat
    BY DEF TypeInv, ControlOK
  <1>1. CASE UNCHANGED <<stage, position, result>>
    BY <1>1 DEF NoneYet, Unfinished, Ahead, position
  <1>2. ASSUME NEW v, k \in 1 .. Len(Modules), Ends(v), stage \in UpgStages \cup {"load"}
        PROVE  NoneYet'
    <2>1. stage' = "load" /\ k' = k + 1 /\ result' = [result EXCEPT ![Modules[k]] = v]
      BY <1>2 DEF Ends, Return, Goto
    <2>2. ASSUME NEW i \in 1 .. Len(Modules), Unfinished(i)'
          PROVE  Unfinished(i) /\ result'[Modules[i]] = result[Modules[i]]
      <3>1. i > k
        BY <1>t, <2>1, <2>2 DEF Unfinished, Ahead, UpgStages
      <3>2. Unfinished(i)
        BY <1>t, <1>2, <3>1 DEF Unfinished, Ahead
      <3>3. Modules[i] # Modules[k] /\ Modules[i] \in Targets
        BY <1>t, <1>2, <3>1, Peers
      <3> QED
        BY <1>t, <2>1, <3>2, <3>3
    <2> QED
      BY <2>2 DEF NoneYet
  <1>3. CASE Master /\ stage \in UpgStages
    <2>1. k \in 1 .. Len(Modules)
      BY <1>3, TurnOf
    <2>2. CASE GoesOn
      BY <1>3, <2>2 DEF GoesOn, NoneYet, Unfinished, Ahead, UpgStages
    <2> QED
      BY <1>2, <1>3, <2>1, <2>2, ServedStep
  <1>4. CASE Master /\ stage \notin UpgStages
    <2>1. CASE result' = result
      <3>1. ASSUME NEW i \in 1 .. Len(Modules), Unfinished(i)' PROVE Unfinished(i)
        <4>1. CASE Ahead(i)'
          BY <1>4, <4>1, MasterGoes DEF Unfinished
        <4>2. CASE stage' \in UpgStages /\ i = k'
          <5>1. stage = "load" /\ i = k
            BY <1>4, <4>2, MasterGoes
          <5> QED
            BY <1>t, <5>1 DEF Unfinished, Ahead
        <4> QED
          BY <3>1, <4>1, <4>2 DEF Unfinished
      <3> QED
        BY <2>1, <3>1 DEF NoneYet
    <2> QED
      BY <1>2, <1>4, <2>1, OtherStep
  <1>5. CASE ~ Master
    <2>1. UNCHANGED <<stage, position, result>>
      <3>1. CASE \E s \in Systems : SystemAnswers(s)
        BY <3>1 DEF SystemAnswers, Answer
      <3>2. CASE \E m \in Targets : ModuleAnswers(m) \/ Garble(m)
        BY <3>2, Idle
      <3>3. CASE \E e \in Endpoints : Deliver(e) \/ Lose(e)
        BY <3>3 DEF Deliver, Lose
      <3>4. CASE UNCHANGED vars
        BY <3>4 DEF vars
      <3> QED
        BY <1>5, <3>1, <3>2, <3>3, <3>4 DEF Next
    <2> QED
      BY <1>1, <2>1
  <1> QED
    BY <1>3, <1>4, <1>5

\* A module that has a command to carry out has had, or has, its turn.
LEMMA HasTurn ==
    ASSUME Tried, NEW i \in 1 .. Len(Modules), TypeInv, ~ Ahead(i)
    PROVE  Flashing!InTurn(Modules[i])
  <1>1. k \in Nat /\ Len(Modules) \in Nat
    BY ListTypes DEF TypeInv, ControlOK
  <1>2. stage \in UpgStages \cup {"load"} \/ stage \in {"exit", "close", "done"}
    BY DEF Ahead, TypeInv, ControlOK, Stages, SysStages
  <1>3. \A j \in 1 .. Len(Modules) : j < i => result[Modules[j]] # "none"
    BY <1>1, <1>2 DEF Tried, TriedBefore, Ahead
  <1> QED
    BY <1>3 DEF Flashing!InTurn

\* A command carried out is a chunk written, a scramble or nothing.
LEMMA CarriedOut ==
    ASSUME TypeInv, AnswersInv, Tried, NEW m \in Targets, ModuleAnswers(m)
    PROVE  Flashing!Next \/ UNCHANGED Flashing!vars
  <1>1. ~ Untouched(m) /\ UNCHANGED <<result, fellBack>>
    BY Idle
  <1>2. flash \in [Targets -> SUBSET ((Nat \X Nat) \X (Nat \X Nat))]
    BY DEF TypeInv, BoardsOK
  <1>3. \/ flash' = flash
        \/ \E x : flash' = [flash EXCEPT ![m] = x]
    BY DEF ModuleAnswers
  <1>4. flash' = [flash EXCEPT ![m] = flash'[m]]
    BY <1>2, <1>3
  <1>5. PICK i \in 1 .. Len(Modules) : m = Modules[i]
    BY DEF Targets
  <1>6. Flashing!InTurn(m)
    BY <1>1, <1>5, HasTurn DEF AnswersInv, Waits
  <1>7. m \in Flashing!Targets
    BY DEF Flashing!Targets, Targets
  <1>8. CASE fellBack[m]
    <2>1. Flashing!Scramble(m)
      BY <1>1, <1>4, <1>6, <1>8 DEF Flashing!Scramble
    <2> QED
      BY <1>7, <2>1 DEF Flashing!Next
  <1>9. CASE ~ fellBack[m]
    <2>1. PICK st \in UpgStages, e \in Nat, j \in Nat :
             InExchange(m, st, e, j) /\ (result[m] = "ok" => st = "end")
      BY <1>1, <1>9, ExchangeOf
    <2>2. CASE flash'[m] = flash[m]
      <3>1. flash' = flash
        BY <1>2, <1>4, <2>2
      <3> QED
        BY <1>1, <3>1 DEF Flashing!vars
    <2>3. CASE /\ st = "crc" /\ e \in 1 .. Len(Image[m]) /\ j \in 1 .. Image[m][e]
               /\ flash[m] = Before(m, e, j)
               /\ flash'[m] = flash[m] \cup { << <<e, j>>, <<e, j>> >> }
      <3>1. <<e, j>> \in Flashing!Places(m) /\ Flashing!UpTo(m, <<e, j>>) = Before(m, e, j)
        BY <2>3, SamePlaces
      <3>2. flash[m] = Flashing!UpTo(m, <<e, j>>)
        BY <2>3, <3>1
      <3>3. flash' = [flash EXCEPT ![m] = Flashing!UpTo(m, <<e, j>>) \cup { << <<e, j>>, <<e, j>> >> }]
        BY <1>4, <2>3, <3>2
      <3>4. result[m] # "ok"
        BY <2>1, <2>3
      <3>5. Flashing!Write(m)
        BY <1>1, <1>6, <3>1, <3>2, <3>3, <3>4 DEF Flashing!Write
      <3> QED
        BY <1>7, <3>5 DEF Flashing!Next
    <2> QED
      BY <2>1, <2>2, <2>3, FlashGrows
  <1> QED
    BY <1>8, <1>9

\* The update of a module ends.
LEMMA Finished ==
    ASSUME TypeInv, AnswersInv, Tried, NoneYet, k \in 1 .. Len(Modules), NEW v, Ends(v),
           stage \in UpgStages \cup {"load"}, v = "ok" => stage = "end",
           flash' = flash, fellBack' = fellBack
    PROVE  Flashing!Next
  <1> DEFINE m == Modules[k]
  <1>1. m \in Targets /\ m \in Flashing!Targets
    BY ListTypes DEF Flashing!Targets, Targets
  <1>2. Unfinished(k) /\ ~ (stage \in UpgStages /\ Ahead(k)) /\ k \in Nat
    BY ListTypes DEF Unfinished, Ahead, UpgStages
  <1>3. result[m] = "none"
    BY <1>2 DEF NoneYet
  <1>4. Flashing!InTurn(m)
    BY DEF Flashing!InTurn, Tried, TriedBefore
  <1>5. result' = [result EXCEPT ![m] = v] /\ v \in {"ok", "failed"}
    BY DEF Ends, Return
  <1>6. CASE v = "failed"
    <2>1. Flashing!Fail(m)
      BY <1>3, <1>4, <1>5, <1>6 DEF Flashing!Fail
    <2> QED
      BY <1>1, <2>1 DEF Flashing!Next
  <1>7. CASE v = "ok"
    <2>1. IsServed(m)
      BY <1>7 DEF IsServed, UpgStages
    <2>2. ASSUME ~ fellBack[m] PROVE flash[m] = Flashing!Whole(m)
      <3>1. Served(m)
        BY <1>1, <2>1, <2>2 DEF AnswersInv, ModuleOK
      <3>2. PICK e \in Nat, j \in Nat : InExchange(m, "end", e, j)
        BY <1>7, <3>1 DEF Served
      <3>3. flash[m] = Before(m, Len(Image[m]) + 1, 1)
        BY <3>2 DEF InExchange, Placed, Holds
      <3> QED
        BY <1>1, <3>3, SamePlaces
    <2> HIDE DEF m
    <2>3. Flashing!Succeed(m)
      BY <1>3, <1>4, <1>5, <1>7, <2>2 DEF Flashing!Succeed
    <2> QED
      BY <1>1, <2>3 DEF Flashing!Next
  <1> QED
    BY <1>5, <1>6, <1>7

\* Every step is a step of the abstract specification or leaves it alone.
LEMMA PromiseStep ==
    ASSUME TypeInv, AnswersInv, Tried, NoneYet, [Next]_vars
    PROVE  Flashing!Next \/ UNCHANGED Flashing!vars
  <1>1. CASE Master /\ stage \in UpgStages
    <2>1. k \in 1 .. Len(Modules) /\ flash' = flash /\ Modules[k] \in Targets
      BY <1>1, TurnOf, ServedStep
    <2>2. CASE GoesOn /\ fellBack' = fellBack
      BY <2>1, <2>2 DEF GoesOn, Flashing!vars
    <2>3. CASE GoesOn /\ fellBack' = [fellBack EXCEPT ![Modules[k]] = @ \/ TRUE]
      <3>1. fellBack' = [fellBack EXCEPT ![Modules[k]] = TRUE] /\ UNCHANGED <<result, flash>>
        BY <2>1, <2>3, Zenon DEF GoesOn
      <3>2. result[Modules[k]] = "none"
        BY <1>1, <2>1 DEF NoneYet, Unfinished
      <3>3. Flashing!InTurn(Modules[k])
        BY <1>1, <2>1 DEF Flashing!InTurn, Tried, TriedBefore
      <3>4. Flashing!Doubt(Modules[k])
        BY <3>1, <3>2, <3>3, Zenon DEF Flashing!Doubt
      <3>5. Modules[k] \in Flashing!Targets
        BY <2>1 DEF Flashing!Targets
      <3> QED
        BY <3>4, <3>5 DEF Flashing!Next
    <2>4. CASE fellBack' = fellBack /\ (Ends("failed") \/ (Ends("ok") /\ stage = "end"))
      BY <1>1, <2>1, <2>4, Finished
    <2> QED
      BY <1>1, <2>2, <2>3, <2>4, ServedStep
  <1>2. CASE Master /\ stage \notin UpgStages
    <2>1. flash' = flash /\ fellBack' = fellBack
      BY <1>2, OtherStep
    <2>2. CASE result' = result
      BY <2>1, <2>2 DEF Flashing!vars
    <2>3. CASE stage = "load" /\ k \in 1 .. Len(Modules) /\ Ends("failed")
      BY <2>1, <2>3, Finished
    <2> QED
      BY <1>2, <2>2, <2>3, OtherStep
  <1>3. CASE \E m \in Targets : ModuleAnswers(m)
    BY <1>3, CarriedOut
  <1>4. CASE \E s \in Systems : SystemAnswers(s)
    BY <1>4 DEF SystemAnswers, Answer, Flashing!vars
  <1>5. CASE \E m \in Targets : Garble(m)
    BY <1>5 DEF Garble, boards, Flashing!vars
  <1>6. CASE \E e \in Endpoints : Deliver(e) \/ Lose(e)
    BY <1>6 DEF Deliver, Lose, boards, Flashing!vars
  <1>7. CASE UNCHANGED vars
    BY <1>7 DEF vars, boards, Flashing!vars
  <1> QED
    BY <1>1, <1>2, <1>3, <1>4, <1>5, <1>6, <1>7 DEF Next

(* The update does to the modules what ModuleUpdate promises, for any        *)
(* boards, modules and images and any number of losses: one module after the *)
(* other, each chunk in its order, success only of a module that holds them  *)
(* all, and no late command changes it afterwards (robotUpdate.cpp:247-407). *)
THEOREM UpdateKeepsPromise == Spec => ImplementsModuleUpdate
  <1>1. Init => Flashing!Init
    BY DEF Init, Flashing!Init, Flashing!Targets, Targets
  <1>2. Init => Tried /\ NoneYet
    BY Peers DEF Init, Tried, NoneYet, UpgStages
  <1>3. TypeInv /\ Tried /\ NoneYet /\ [Next]_vars => Tried' /\ NoneYet'
    BY TriedStep, NoneYetStep DEF TypeInv
  <1>4. TypeInv /\ AnswersInv /\ Tried /\ NoneYet /\ [Next]_vars
            => [Flashing!Next]_(Flashing!vars)
    BY PromiseStep
  <1> QED
    BY AnswersInvariant, <1>1, <1>2, <1>3, <1>4, PTL
       DEF Spec, ImplementsModuleUpdate, Flashing!Spec

=============================================================================
