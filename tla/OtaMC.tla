------------------------------- MODULE OtaMC -------------------------------
(* The OTA application for TLC, with a bound on all that comes from outside. *)
EXTENDS OtaService

CONSTANT Budget     \* bound: queries, presses and new versions together

\* One press more when two queries have been answered, one of them late, so that both
\* buttons are there: a download can then be pressed during an installation.
BothButtons ==
    /\ "notice" \in races /\ shown /\ latest = 1 /\ lastId =< 1 /\ stops = 0
    /\ \A q \in QueryThreads : pc[q] \in {"idle", "end"}

\* A process that dies before a download was started leaves what an initial state has.
Scenario ==
    /\ queries + presses + latest - 1 =< Budget + (IF BothButtons THEN 1 ELSE 0)
    /\ stops # 0 => lastId # 0

MCSpec == Init /\ [][Next /\ Scenario']_vars /\ Fairness

=============================================================================
