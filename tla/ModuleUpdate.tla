---------------------------- MODULE ModuleUpdate ---------------------------
(***************************************************************************)
(* What robotSubSysUpdate promises of the modules' firmware, whatever the   *)
(* bus does: the modules come one after the other; a module holds the       *)
(* chunks of its image in order up to some point, gains the next one and    *)
(* loses none; success is reported of a module that holds them all, and     *)
(* from then on it is left alone.  No other module is touched.              *)
(*                                                                         *)
(* Of a module in doubt (a chunk was sent again because no answer to its    *)
(* checksum came) nothing is promised but that the others do not suffer.    *)
(***************************************************************************)
EXTENDS Naturals, Sequences

CONSTANTS
    Modules,    \* the modules to update, in order
    Image       \* Image[m][e]: the number of chunks of element e

Targets == { Modules[i] : i \in 1 .. Len(Modules) }

VARIABLES
    result,     \* "none" until the update of the module is over
    flash,      \* what the module holds: a set of <<place, chunk>>
    inDoubt

vars == <<result, flash, inDoubt>>

\* The places of m's chunks, and what m holds when it has all before place p.
Places(m) ==
    UNION { { <<e, j>> : j \in 1 .. Image[m][e] } : e \in 1 .. Len(Image[m]) }

UpTo(m, p) ==
    { <<q, q>> : q \in { q \in Places(m) :
                            q[1] < p[1] \/ (q[1] = p[1] /\ q[2] < p[2]) } }

Whole(m) == { <<q, q>> : q \in Places(m) }

Init ==
    /\ result = [m \in Targets |-> "none"]
    /\ flash = [m \in Targets |-> {}]
    /\ inDoubt = [m \in Targets |-> FALSE]

\* Every module before m in the list is done with.
InTurn(m) ==
    \E i \in 1 .. Len(Modules) :
        /\ Modules[i] = m
        /\ \A j \in 1 .. Len(Modules) : j < i => result[Modules[j]] # "none"

\* A late command can still write after the update of m failed.
Write(m) ==
    /\ InTurn(m) /\ result[m] # "ok"
    /\ \E p \in Places(m) :
          /\ flash[m] = UpTo(m, p)
          /\ flash' = [flash EXCEPT ![m] = UpTo(m, p) \cup { <<p, p>> }]
    /\ UNCHANGED <<result, inDoubt>>

Doubt(m) ==
    /\ InTurn(m) /\ result[m] = "none"
    /\ inDoubt' = [inDoubt EXCEPT ![m] = TRUE]
    /\ UNCHANGED <<result, flash>>

Scramble(m) ==
    /\ InTurn(m) /\ inDoubt[m]
    /\ flash' = [flash EXCEPT ![m] = flash'[m]]
    /\ UNCHANGED <<result, inDoubt>>

Succeed(m) ==
    /\ InTurn(m) /\ result[m] = "none"
    /\ inDoubt[m] \/ flash[m] = Whole(m)
    /\ result' = [result EXCEPT ![m] = "ok"]
    /\ UNCHANGED <<flash, inDoubt>>

Fail(m) ==
    /\ InTurn(m) /\ result[m] = "none"
    /\ result' = [result EXCEPT ![m] = "failed"]
    /\ UNCHANGED <<flash, inDoubt>>

Next == \E m \in Targets : Write(m) \/ Doubt(m) \/ Scramble(m) \/ Succeed(m) \/ Fail(m)

Spec == Init /\ [][Next]_vars

=============================================================================
