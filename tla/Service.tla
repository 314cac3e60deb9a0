------------------------------ MODULE Service ------------------------------
(***************************************************************************)
(* The dcos-metrics service: it starts (StartUp), then the collectors of   *)
(* its role hand their messages to main, which broadcasts them (Pipeline). *)
(* The node collector's messages are those of NodeCollector; the others'   *)
(* are modelled in Collectors and only offered here.                       *)
(***************************************************************************)
EXTENDS Pipeline, StartUp, NodeCollector

\* main starts the node collector in either role.
ASSUME ServiceAssumption == "node" \in Collectors

serviceVars == <<vars, startVars, nodeVars>>

ServiceInit == Init /\ StartInit /\ NodeInit

Boot == StartNext /\ UNCHANGED <<vars, nodeVars>>

\* RunPoller of the node collector: poll, and block until main takes the message.
RunNodePoller ==
    /\ "node" \in Started
    /\ Offer("node")
    /\ NodeNext
    /\ UNCHANGED startVars

\* The other collectors.
RunCollector(c) ==
    /\ c \in Started /\ c # "node"
    /\ Offer(c)
    /\ UNCHANGED <<startVars, nodeVars>>

Broadcasting ==
    \/ \E c \in Collectors : Take(c)
    \/ broadcast
    \/ \E p \in Producers : Stored(p)

ServiceNext ==
    \/ Boot
    \/ RunNodePoller
    \/ \E c \in Collectors : RunCollector(c)
    \/ Broadcasting /\ UNCHANGED <<startVars, nodeVars>>

\* Goroutines are scheduled, and storing a message ends.  Nothing says that the start
\* ends: its requests have no time limit.
ServiceSpec ==
    /\ ServiceInit /\ [][ServiceNext]_serviceVars
    /\ WF_serviceVars(\E c \in Collectors : Take(c) /\ UNCHANGED <<startVars, nodeVars>>)
    /\ WF_serviceVars(broadcast /\ UNCHANGED <<startVars, nodeVars>>)
    /\ \A p \in Producers : WF_serviceVars(Stored(p) /\ UNCHANGED <<startVars, nodeVars>>)

ServiceTypeOK == TypeOK /\ StartTypeOK /\ NodeTypeOK

(***************************************************************************)
(* Properties.                                                             *)
(***************************************************************************)

\* Whatever combination of flags, file and answers led here: a service that hands
\* out messages has one of the two roles, knows who it is (also if Mesos answered
\* the second attempt only), keeps what it polls from the agent until it has polled
\* twice, and as a master, which serves no containers, has messages of the node only.
RunsComplete ==
    log # <<>> =>
        /\ phase = "running"
        /\ cfg.role \in Roles
        /\ cfg.expiry >= 2 * cfg.pollPeriod
        /\ nodeInfo = {"ip", "mesosID", "clusterID"}
        /\ cfg.role = "master" => \A i \in DOMAIN log : log[i][1] = "node"
=============================================================================
