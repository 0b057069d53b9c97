---------------------------- MODULE RobotUpdate ----------------------------
(***************************************************************************)
(* The upgrade of the robot's boards by robotUpdate.cpp.  robotSubSysUpdate *)
(* asks every board to enter upgrade mode, sends each listed module its     *)
(* firmware, and asks every board to leave upgrade mode.  Every step is a    *)
(* command that a board answers; the master sends, waits for an answer of   *)
(* the type it expects (readCANData), and tries again when none comes.       *)
(*                                                                         *)
(* The packet layer below (RmCan) loses packets and keeps the order of each *)
(* sender.  The boards are not in this repository: their answers are        *)
(* modelled from what the master relies on (BoardAnswers below).             *)
(*                                                                         *)
(* Firmware is a sequence of elements (CImage), each a number of chunks of   *)
(* at most DATA_PACKET_LENGTH bytes; chunk <<e, j>> is the j-th of element   *)
(* e, and stands for its bytes, for their checksum and for the place where   *)
(* they belong.                                                            *)
(***************************************************************************)
EXTENDS Integers, Sequences

CONSTANTS
    SysIds,         \* the boards' system-control ids, in the order they are asked
    Modules,        \* the upgrade ids of the modules to update, in order
    Image,          \* Image[m][e]: the number of chunks of element e
    RESEND_COUNT,   \* attempts per command: 2 in the code
    Bad,            \* a chunk garbled on its way
    MaxFaults       \* bound: packets lost or garbled, sends that fail

Systems == { SysIds[i] : i \in 1 .. Len(SysIds) }
Targets == { Modules[i] : i \in 1 .. Len(Modules) }
Endpoints == Systems \cup Targets

ASSUME RobotUpdateAssumption ==
    /\ SysIds \in Seq(Systems) /\ SysIds # <<>>
    /\ Modules \in Seq(Targets)
    /\ \A i, j \in 1 .. Len(SysIds) : SysIds[i] = SysIds[j] => i = j
    /\ \A i, j \in 1 .. Len(Modules) : Modules[i] = Modules[j] => i = j
    /\ Systems \cap Targets = {}
    /\ Image \in [Targets -> Seq(Nat \ {0})]
    /\ RESEND_COUNT \in Nat \ {0}
    /\ MaxFaults \in Nat
    /\ Bad \notin Nat \X Nat

VARIABLES
    stage,      \* the function the master is in
    phase,      \* "send", or "wait" inside readCANData
    k,          \* the index of the board or module being served
    elem,       \* i in sendFirmware, from 1
    chunk,      \* j in sendFirmware, from 1
    left,       \* attempts left in the innermost loop (count or dataCount)
    dataLeft,   \* dataCount while sendDataCRC runs
    outer,      \* count in sendFirmwareData
    result,     \* what upgrade() returned for each module
    exch,       \* exchanges begun with each endpoint
    fellBack,   \* did a chunk go out again because no checksum answer came
    cmds,       \* commands on their way to each endpoint
    resp,       \* answers on their way back
    RecvList,   \* answers received and not read
    mode,       \* the boards' modes
    buf,        \* the chunk a module holds in memory
    written,    \* has that chunk been written to flash
    addr,       \* where it will write the next chunk
    flash,      \* what it has written: a set of <<place, chunk>>
    faults

position == <<k, elem, chunk>>
retries  == <<left, dataLeft, outer>>
boards   == <<mode, buf, written, addr, flash>>
vars == <<stage, phase, position, retries, result, exch, fellBack,
          cmds, resp, RecvList, boards, faults>>

None == <<0, 0>>

Init ==
    /\ stage = "open" /\ phase = "send"
    /\ k = 1 /\ elem = 1 /\ chunk = 1
    /\ left = 0 /\ dataLeft = 0 /\ outer = 0
    /\ result = [m \in Targets |-> "none"]
    /\ exch = [e \in Endpoints |-> 0]
    /\ fellBack = [m \in Targets |-> FALSE]
    /\ cmds = [e \in Endpoints |-> <<>>]
    /\ resp = [e \in Endpoints |-> <<>>]
    /\ RecvList = <<>>
    /\ mode = [s \in Systems |-> "normal"]
    /\ buf = [m \in Targets |-> None]
    /\ written = [m \in Targets |-> TRUE]
    /\ addr = [m \in Targets |-> None]
    /\ flash = [m \in Targets |-> {}]
    /\ faults = 0

-----------------------------------------------------------------------------
(* The exchange the master is in. *)

SysStages == {"enter", "exit"}
UpgStages == {"start", "addr", "data", "crc", "end"}
Exchanging == stage \in SysStages \cup UpgStages

Peer == IF stage \in SysStages THEN SysIds[k] ELSE Modules[k]

\* Mutant: every element is sent to the address of the first.
Command_FirstAddress ==
    [type |-> stage,
     arg  |-> CASE stage = "addr" -> <<1, 1>>
                [] stage \in {"data", "crc"} -> <<elem, chunk>>
                [] OTHER -> None,
     n    |-> exch[Peer]]

\* The command of a stage; n is the exchange it belongs to.
Command ==
    [type |-> stage,
     arg  |-> CASE stage = "addr" -> <<elem, 1>>
                [] stage \in {"data", "crc"} -> <<elem, chunk>>
                [] OTHER -> None,
     n    |-> exch[Peer]]

\* Control reaches the sending loop of stage st, with n attempts.
Enter(st, peer, n) ==
    /\ stage' = st
    /\ phase' = "send"
    /\ left' = n
    /\ exch' = [exch EXCEPT ![peer] = @ + 1]

\* Control reaches a step that exchanges nothing.
Goto(st) ==
    /\ stage' = st
    /\ phase' = "send"
    /\ UNCHANGED <<left, exch>>

\* Mutant: the first failure ends the update of the modules.
Return_AtOnce(verdict) ==
    /\ result' = [result EXCEPT ![Modules[k]] = verdict]
    /\ k' = IF verdict = "failed" THEN Len(Modules) + 1 ELSE k + 1
    /\ Goto("load")
    /\ UNCHANGED <<elem, chunk, dataLeft, outer, fellBack>>

\* upgrade() returns for module k: robotSubSysUpdate ignores the value.
Return(verdict) ==
    /\ result' = [result EXCEPT ![Modules[k]] = verdict]
    /\ k' = k + 1
    /\ Goto("load")
    /\ UNCHANGED <<elem, chunk, dataLeft, outer, fellBack>>

\* sendFirmwareData is called for chunk j of element e.
BeginChunk(e, j) ==
    /\ elem' = e
    /\ chunk' = j
    /\ outer' = RESEND_COUNT - 1
    /\ Enter("data", Modules[k], RESEND_COUNT)
    /\ UNCHANGED <<k, dataLeft, result, fellBack>>

\* sendFirmware goes on to element e, or upgrade to the end flag after the last.
BeginElement(e) ==
    /\ elem' = e
    /\ chunk' = 1
    /\ Enter(IF e =< Len(Image[Modules[k]]) THEN "addr" ELSE "end",
             Modules[k], RESEND_COUNT)
    /\ UNCHANGED <<k, dataLeft, outer, result, fellBack>>

\* Mutant: the boards share one count of attempts.
SysDone_SharedCount ==
    /\ IF k < Len(SysIds)
       THEN /\ k' = k + 1
            /\ Enter(stage, SysIds[k + 1], left)
       ELSE /\ k' = 1
            /\ Goto(IF stage = "enter" THEN "load" ELSE "close")
    /\ UNCHANGED <<elem, chunk, dataLeft, outer, result, fellBack>>

\* enter_upgrade_mode or exit_upgrade_mode returns: the caller goes on to the
\* next board whatever it returned.
SysDone ==
    /\ IF k < Len(SysIds)
       THEN /\ k' = k + 1
            /\ Enter(stage, SysIds[k + 1], RESEND_COUNT)
       ELSE /\ k' = 1
            /\ Goto(IF stage = "enter" THEN "load" ELSE "close")
    /\ UNCHANGED <<elem, chunk, dataLeft, outer, result, fellBack>>

\* sendDataCRC returns -1: sendFirmwareData sends the chunk again if its outer
\* loop allows, with what dataCount has left; it is never set back.
SendAgain(noAnswer) ==
    IF outer > 0
    THEN /\ outer' = outer - 1
         /\ Enter("data", Modules[k], dataLeft)
         /\ fellBack' = [fellBack EXCEPT ![Modules[k]] = @ \/ noAnswer]
         /\ UNCHANGED <<position, dataLeft, result>>
    ELSE Return("failed")

-----------------------------------------------------------------------------
(* The sending loops: sendCANData, then readCANData. *)

\* Mutant: the attempts are not counted.
InLoop_Uncounted == Exchanging /\ phase = "send"

InLoop == Exchanging /\ phase = "send" /\ left > 0

\* sendCANData returns 0.  As long as the interface's queue is full _sendToCan tries
\* again, without a limit (rmCAN.cpp:160-170): the master then stays before this
\* step, for ever on a bus where nobody acknowledges.
Send ==
    /\ InLoop
    /\ cmds' = [cmds EXCEPT ![Peer] = Append(@, Command)]
    /\ phase' = "wait"
    /\ left' = left - 1
    /\ UNCHANGED <<stage, position, dataLeft, outer, result, exch, fellBack,
                   resp, RecvList, boards, faults>>

\* sendCANData returns -1: the next attempt begins at once.
SendError ==
    /\ InLoop
    /\ faults < MaxFaults
    /\ left' = left - 1
    /\ faults' = faults + 1
    /\ UNCHANGED <<stage, phase, position, dataLeft, outer, result, exch,
                   fellBack, cmds, resp, RecvList, boards>>

\* sendCANData returns 0 although ten selects timed out and nothing was sent.
SendNothing ==
    /\ InLoop
    /\ faults < MaxFaults
    /\ phase' = "wait"
    /\ left' = left - 1
    /\ faults' = faults + 1
    /\ UNCHANGED <<stage, position, dataLeft, outer, result, exch, fellBack,
                   cmds, resp, RecvList, boards>>

Waiting == Exchanging /\ phase = "wait"

\* Mutant: the type of an answer is not looked at.
Expected_AnyType(r) == r.src = Peer

Expected(r) == r.src = Peer /\ r.type = stage

\* readCANData pops an answer of another board or type: deleted.
Discard ==
    /\ Waiting
    /\ RecvList # <<>>
    /\ ~ Expected(Head(RecvList))
    /\ RecvList' = Tail(RecvList)
    /\ UNCHANGED <<stage, phase, position, retries, result, exch, fellBack,
                   cmds, resp, boards, faults>>

\* Mutant: any answer will do.
Verdict_Unread(r) ==
    \/ chunk < Image[Modules[k]][elem] /\ BeginChunk(elem, chunk + 1)
    \/ chunk = Image[Modules[k]][elem] /\ BeginElement(elem + 1)

\* Mutant: the test of the answer is inverted.
Verdict_Inverted(r) ==
    \/ ~ r.ok /\ chunk < Image[Modules[k]][elem] /\ BeginChunk(elem, chunk + 1)
    \/ ~ r.ok /\ chunk = Image[Modules[k]][elem] /\ BeginElement(elem + 1)
    \/ r.ok /\ SendAgain(FALSE)

\* sendDataCRC looks at the third byte of the answer: the next chunk, the next
\* element, or the same chunk again.
Verdict(r) ==
    \/ r.ok /\ chunk < Image[Modules[k]][elem] /\ BeginChunk(elem, chunk + 1)
    \/ r.ok /\ chunk = Image[Modules[k]][elem] /\ BeginElement(elem + 1)
    \/ ~ r.ok /\ SendAgain(FALSE)

\* readCANData returns the answer the stage waits for.
Accept ==
    /\ Waiting
    /\ RecvList # <<>>
    /\ Expected(Head(RecvList))
    /\ RecvList' = Tail(RecvList)
    /\ LET r == Head(RecvList) IN
       \/ stage \in SysStages /\ SysDone
       \/ stage = "start" /\ BeginElement(1)
       \/ stage = "addr" /\ BeginChunk(elem, 1)
       \/ /\ stage = "data"
          /\ dataLeft' = left
          /\ Enter("crc", Peer, RESEND_COUNT)
          /\ UNCHANGED <<position, outer, result, fellBack>>
       \/ stage = "crc" /\ Verdict(r)
       \/ stage = "end" /\ Return("ok")
    /\ UNCHANGED <<cmds, resp, boards, faults>>

\* Mutant: the wait for a board has no timeout.
Timeout_Never ==
    /\ Waiting
    /\ stage \notin SysStages
    /\ phase' = "send"
    /\ UNCHANGED <<stage, position, retries, result, exch, fellBack,
                   cmds, resp, RecvList, boards, faults>>

\* readCANData gives up after CMD_TIMEOUT or DATA_TIMEOUT seconds; the answer
\* may still be under way.
Timeout ==
    /\ Waiting
    /\ phase' = "send"
    /\ UNCHANGED <<stage, position, retries, result, exch, fellBack,
                   cmds, resp, RecvList, boards, faults>>

\* The loop runs out of attempts.
GiveUp ==
    /\ Exchanging /\ phase = "send" /\ left = 0
    /\ \/ stage \in SysStages /\ SysDone
       \/ stage \in {"start", "addr", "data", "end"} /\ Return("failed")
       \/ stage = "crc" /\ SendAgain(TRUE)
    /\ UNCHANGED <<cmds, resp, RecvList, boards, faults>>

-----------------------------------------------------------------------------
(* robotSubSysUpdate and upgrade outside the exchanges. *)

\* openCANDevice, then allEnterUpgradeMode.
Open ==
    /\ stage = "open"
    /\ Enter("enter", SysIds[1], RESEND_COUNT)
    /\ UNCHANGED <<position, dataLeft, outer, result, fellBack,
                   cmds, resp, RecvList, boards, faults>>

\* /mnt/internal_sd cannot be mounted or the CAN device not be opened.
OpenFails ==
    /\ stage = "open"
    /\ faults < MaxFaults
    /\ stage' = "failed"
    /\ faults' = faults + 1
    /\ UNCHANGED <<phase, position, retries, result, exch, fellBack,
                   cmds, resp, RecvList, boards>>

\* upgrade() reads the hex file, then sends the start flag.
Load ==
    /\ stage = "load"
    /\ k =< Len(Modules)
    /\ Enter("start", Modules[k], RESEND_COUNT)
    /\ UNCHANGED <<position, dataLeft, outer, result, fellBack,
                   cmds, resp, RecvList, boards, faults>>

LoadFails ==
    /\ stage = "load"
    /\ k =< Len(Modules)
    /\ faults < MaxFaults
    /\ Return("failed")
    /\ faults' = faults + 1
    /\ UNCHANGED <<cmds, resp, RecvList, boards>>

\* No module is left: allExitUpgradeMode.
LeaveUpgradeMode ==
    /\ stage = "load"
    /\ k > Len(Modules)
    /\ k' = 1
    /\ Enter("exit", SysIds[1], RESEND_COUNT)
    /\ UNCHANGED <<elem, chunk, dataLeft, outer, result, fellBack,
                   cmds, resp, RecvList, boards, faults>>

\* closeCANDevice.
Close ==
    /\ stage = "close"
    /\ stage' = "done"
    /\ UNCHANGED <<phase, position, retries, result, exch, fellBack,
                   cmds, resp, RecvList, boards, faults>>

Master ==
    \/ Send \/ SendError \/ SendNothing \/ Discard \/ Accept \/ Timeout \/ GiveUp
    \/ Open \/ OpenFails \/ Load \/ LoadFails \/ LeaveUpgradeMode \/ Close

-----------------------------------------------------------------------------
(* The boards, as the master relies on them. *)

Answer(e, c, ok) ==
    /\ resp' = [resp EXCEPT ![e] = Append(@, [src |-> e, type |-> c.type,
                                              ok |-> ok, n |-> c.n])]
    /\ cmds' = [cmds EXCEPT ![e] = Tail(@)]
    /\ UNCHANGED <<stage, phase, position, retries, result, exch, fellBack,
                   RecvList, faults>>

\* A system controller switches mode.
SystemAnswers(s) ==
    /\ cmds[s] # <<>>
    /\ LET c == Head(cmds[s]) IN
       /\ mode' = [mode EXCEPT ![s] =
                    IF c.type = "enter" THEN "upgrade" ELSE "normal"]
       /\ Answer(s, c, TRUE)
    /\ UNCHANGED <<buf, written, addr, flash>>

\* A start flag erases the module; an address says where the next chunk goes;
\* data is held in memory; a matching checksum writes it to flash, once, and
\* moves the address on (the master sends one address for all the chunks of an
\* element); a checksum that does not match is refused.
ModuleAnswers(m) ==
    /\ cmds[m] # <<>>
    /\ LET c == Head(cmds[m]) IN
       \/ /\ c.type = "start"
          /\ flash' = [flash EXCEPT ![m] = {}]
          /\ Answer(m, c, TRUE)
          /\ UNCHANGED <<buf, written, addr>>
       \/ /\ c.type = "addr"
          /\ addr' = [addr EXCEPT ![m] = c.arg]
          /\ Answer(m, c, TRUE)
          /\ UNCHANGED <<buf, written, flash>>
       \/ /\ c.type = "data"
          /\ buf' = [buf EXCEPT ![m] = c.arg]
          /\ written' = [written EXCEPT ![m] = FALSE]
          /\ Answer(m, c, TRUE)
          /\ UNCHANGED <<addr, flash>>
       \/ /\ c.type = "crc" /\ buf[m] = c.arg /\ ~ written[m]
          /\ flash' = [flash EXCEPT ![m] =
                { w \in @ : w[1] # addr[m] } \cup { <<addr[m], c.arg>> }]
          /\ addr' = [addr EXCEPT ![m] = <<@[1], @[2] + 1>>]
          /\ written' = [written EXCEPT ![m] = TRUE]
          /\ Answer(m, c, TRUE)
          /\ UNCHANGED buf
       \/ /\ c.type = "crc" /\ (buf[m] # c.arg \/ written[m])
          /\ Answer(m, c, buf[m] = c.arg)
          /\ UNCHANGED <<buf, written, addr, flash>>
       \/ /\ c.type = "end"
          /\ Answer(m, c, TRUE)
          /\ UNCHANGED <<buf, written, addr, flash>>
    /\ UNCHANGED mode

-----------------------------------------------------------------------------
(* The packet layer (RmCan): order kept per sender, loss, and the receive    *)
(* thread, which runs whenever it likes.                                     *)

Deliver(e) ==
    /\ resp[e] # <<>>
    /\ RecvList' = Append(RecvList, Head(resp[e]))
    /\ resp' = [resp EXCEPT ![e] = Tail(@)]
    /\ UNCHANGED <<stage, phase, position, retries, result, exch, fellBack,
                   cmds, boards, faults>>

Lose(e) ==
    /\ faults < MaxFaults
    /\ \/ /\ cmds[e] # <<>>
          /\ cmds' = [cmds EXCEPT ![e] = Tail(@)]
          /\ UNCHANGED resp
       \/ /\ resp[e] # <<>>
          /\ resp' = [resp EXCEPT ![e] = Tail(@)]
          /\ UNCHANGED cmds
    /\ faults' = faults + 1
    /\ UNCHANGED <<stage, phase, position, retries, result, exch, fellBack,
                   RecvList, boards>>

\* Fragments of two packets put together (RmCan, IdIdentifiesEntry).
Garble(m) ==
    /\ faults < MaxFaults
    /\ cmds[m] # <<>>
    /\ Head(cmds[m]).type = "data"
    /\ cmds' = [cmds EXCEPT ![m][1].arg = Bad]
    /\ faults' = faults + 1
    /\ UNCHANGED <<stage, phase, position, retries, result, exch, fellBack,
                   resp, RecvList, boards>>

Next ==
    \/ Master
    \/ \E s \in Systems : SystemAnswers(s)
    \/ \E m \in Targets : ModuleAnswers(m) \/ Garble(m)
    \/ \E e \in Endpoints : Deliver(e) \/ Lose(e)

Spec == Init /\ [][Next]_vars

\* Control comes back to the master's loops: not from sendCANData, whose frames
\* may find the queue full for ever, nor from closeCANDevice, which joins the
\* receive thread (CanDevice).
Returns == ~ InLoop /\ stage # "close" /\ Master

\* The master is one thread that runs on; readCANData always returns in the
\* end because both its timeouts are positive.
FairSpec == Spec /\ WF_vars(Returns)

-----------------------------------------------------------------------------
(* Properties. *)

Chunk == (Nat \X Nat) \cup {Bad}

\* Only data is ever garbled.
Cmd  == [type : {"data"}, arg : Chunk, n : Nat] \cup
        [type : (SysStages \cup UpgStages) \ {"data"}, arg : Nat \X Nat, n : Nat]
Resp == [src : Endpoints, type : SysStages \cup UpgStages, ok : BOOLEAN, n : Nat]

TypeOK ==
    /\ stage \in SysStages \cup UpgStages
                 \cup {"open", "load", "close", "done", "failed"}
    /\ phase \in {"send", "wait"}
    /\ k \in Nat /\ elem \in Nat /\ chunk \in Nat
    /\ left \in Nat /\ dataLeft \in Nat /\ outer \in Nat
    /\ result \in [Targets -> {"none", "ok", "failed"}]
    /\ exch \in [Endpoints -> Nat]
    /\ fellBack \in [Targets -> BOOLEAN]
    /\ cmds \in [Endpoints -> Seq(Cmd)]
    /\ resp \in [Endpoints -> Seq(Resp)]
    /\ RecvList \in Seq(Resp)
    /\ mode \in [Systems -> {"normal", "upgrade"}]
    /\ buf \in [Targets -> Chunk]
    /\ written \in [Targets -> BOOLEAN]
    /\ addr \in [Targets -> Nat \X Nat]
    /\ flash \in [Targets -> SUBSET ((Nat \X Nat) \X (Nat \X Nat))]
    /\ faults \in Nat

\* Module m holds its whole firmware, each chunk at its place.
FlashIsImage(m) ==
    flash[m] = UNION { { << <<e, j>>, <<e, j>> >> : j \in 1 .. Image[m][e] } :
                            e \in 1 .. Len(Image[m]) }

(* An answer the master takes is an answer to a command of the exchange it   *)
(* is in, although answers carry no number and late ones of earlier attempts *)
(* stay in RecvList: consecutive exchanges wait for different types, and      *)
(* readCANData throws away what it pops on the way (rmCAN.cpp:463-488).       *)
\* It fails once a chunk is sent again for want of a checksum answer.
NoStaleAnswer ==
    [][ /\ Waiting
        /\ RecvList # <<>>
        /\ RecvList' = Tail(RecvList)
        /\ Expected(Head(RecvList))
        /\ Peer \in Targets => ~ fellBack[Peer]
        => Head(RecvList).n = exch[Peer] ]_vars

(* upgrade() returns 0 for a module only if its flash holds the whole image, *)
(* every chunk at its place, whatever was lost, garbled, late or retried on  *)
(* the way - unless a chunk was sent again after the board wrote it, because *)
(* both checksum answers were missing (robotUpdate.cpp:213-243).              *)
SuccessMeansFlashed ==
    \A m \in Targets :
        result[m] = "ok" /\ ~ fellBack[m] => FlashIsImage(m)

(* The module never holds a chunk at another chunk's place, nor a garbled    *)
(* one, under the same condition.                                            *)
NothingMisplaced ==
    \A m \in Targets : ~ fellBack[m] => \A w \in flash[m] : w[1] = w[2]

(* One module's failure costs the others nothing: when the update is over,   *)
(* upgrade() has run for every listed module (robotUpdate.cpp:582-587).      *)
EveryModuleTried ==
    stage = "done" => \A m \in Targets : result[m] # "none"

(* A board is left in upgrade mode only if an exit command to it is still on *)
(* its way, or there were at least RESEND_COUNT faults, as many as it takes  *)
(* to lose every exit command to one board (faults of any kind are counted,  *)
(* not only those): with fewer, neither a late enter command nor a late      *)
(* answer to one undoes the exit, and what happened to one board takes no    *)
(* attempt from the next (robotUpdate.cpp:409-557).                          *)
BoardsLeaveUpgradeMode ==
    stage = "done" =>
        \A s \in Systems : mode[s] = "upgrade" =>
            \/ \E i \in 1 .. Len(cmds[s]) : cmds[s][i].type = "exit"
            \/ faults >= RESEND_COUNT

(* The update does to the modules what ModuleUpdate promises: one after the  *)
(* other, each chunk in its order, and once upgrade() returned 0 for a       *)
(* module no late command changes it again (robotUpdate.cpp:247-407).        *)
Flashing == INSTANCE ModuleUpdate WITH inDoubt <- fellBack

ImplementsModuleUpdate == Flashing!Spec

(* The update comes to closeCANDevice whatever the boards answer, lose or    *)
(* repeat, the retries being bounded and every wait having a timeout - or it *)
(* stays in one sendCANData for ever, whose frames the queue never takes     *)
(* (rmCAN.cpp:160-170).                                                      *)
Terminates == <>(stage \in {"close", "done", "failed"}) \/ <>[]InLoop

=============================================================================
