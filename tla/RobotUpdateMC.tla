--------------------------- MODULE RobotUpdateMC ---------------------------
(* One board and one module with every fault, or two of each with fewer. *)
EXTENDS RobotUpdate

\* The head (rc) and the chassis (rp), as in SysIds and Modules of the code.
OneSys     == <<"rc_sys">>
TwoSys     == <<"rc_sys", "rp_sys">>
OneModule  == <<"rc">>
TwoModules == <<"rc", "rp">>

\* Two elements of two and one chunks.
OneImage  == [m \in {"rc"} |-> <<2, 1>>]
\* Two chunks for the head and one for the chassis.
SmallImages == [m \in Targets |-> IF m = "rc" THEN <<2>> ELSE <<1>>]

\* Two boards and two modules, for what concerns all of them: one packet at a time
\* between the master and a module, and faults only while the boards change mode and
\* a module is told to start. What is lost, garbled or late while the firmware itself is
\* sent is left to OneModule, without this restriction.
OnTheirWay(m) ==
    Len(cmds[m]) + Len(resp[m]) + Len(SelectSeq(RecvList, LAMBDA r : r.src = m))

Scenario ==
    /\ \A m \in Targets : OnTheirWay(m)' =< 1
    /\ faults' = faults \/ stage \in SysStages \cup {"start"}

MCSpec == Init /\ [][Next /\ Scenario]_vars

=============================================================================
