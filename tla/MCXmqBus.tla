------------------------------ MODULE MCXmqBus ------------------------------
(* Two services on one broker, one of which sends to the other.            *)
EXTENDS XmqBus

CONSTANTS a, b

TwoTasks == {a, b}
OneLink == {<<a, b>>}

=============================================================================
