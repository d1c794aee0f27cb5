-------------------------- MODULE MCScriptCommands --------------------------
(***************************************************************************)
(* Instances of ScriptCommands for TLC.                                    *)
(***************************************************************************)
EXTENDS ScriptCommands

CONSTANTS p1, p2, m1, m2

\* Every consumer; the publisher matters to the RabbitMQ one only.
AllSetups ==
  [broker: Brokers, publisher: {"kafka"}, bad: {{}, {m2}}]
    \cup [broker: {"rabbit"}, publisher: {"tokio"}, bad: {{}}]

\* HEX_CONSUMER_TYPE and HEX_EVENTS_TYPE both say rabbit.
RabbitOnly == [broker: {"rabbit"}, publisher: {"tokio"}, bad: {{}}]

=============================================================================
