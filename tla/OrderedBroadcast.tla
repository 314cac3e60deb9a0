-------------------------- MODULE OrderedBroadcast --------------------------
(***************************************************************************)
(* What the broadcast loop of dcos-metrics.go promises: there is one order *)
(* of all messages, every producer receives the messages in that order     *)
(* with none lost or repeated, and nobody waits for ever.                  *)
(***************************************************************************)
EXTENDS Naturals, Sequences

CONSTANTS Messages, Producers

VARIABLES
    log,        \* the messages, in the order they were taken
    received    \* producer -> messages it has received, in order

logVars == <<log, received>>

LogInit ==
    /\ log = <<>>
    /\ received = [p \in Producers |-> <<>>]

Extend(m) ==
    /\ \A i \in DOMAIN log : log[i] # m
    /\ log' = Append(log, m)
    /\ UNCHANGED received

Deliver(p) ==
    /\ Len(received[p]) < Len(log)
    /\ received' = [received EXCEPT ![p] = Append(@, log[Len(@) + 1])]
    /\ UNCHANGED log

LogNext ==
    \/ \E m \in Messages : Extend(m)
    \/ \E p \in Producers : Deliver(p)

LogSpec ==
    /\ LogInit /\ [][LogNext]_logVars
    /\ \A p \in Producers : WF_logVars(Deliver(p))
=============================================================================
