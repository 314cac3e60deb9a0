--------------------------- MODULE ContainerPorts ---------------------------
(***************************************************************************)
(* The port-assignment strategies of the Mesos module                      *)
(* (mesos_module/container_assigner_strategy.cpp) over the RangePool       *)
(* (mesos_module/range_pool.hpp).                                          *)
(*                                                                         *)
(* A container's statsd reader is known here only by the port it listens   *)
(* on: a reader that sits in container_to_reader was opened successfully   *)
(* and actual_endpoint is never reset, so endpoint() never fails for it.   *)
(* Every strategy operation runs on the io_service thread.                 *)
(***************************************************************************)
EXTENDS Naturals, FiniteSets

CONSTANTS
    Containers,   \* container ids; ordered, as container_id_ord_map orders them
    Ports,        \* the UDP ports of the host
    Configs,      \* the module parameters an agent may be started with
    OpenMayFail   \* whether a port may be held by another process of the host

NoPort == 0

ASSUME PortsAssumption ==
    /\ Containers \subseteq Nat \ {0}
    /\ Ports \subseteq Nat \ {NoPort}
    /\ OpenMayFail \in BOOLEAN

\* SinglePortStrategy needs listen_port; PortRangeStrategy aborts unless
\* listen_port_start < listen_port_end (and both are valid ports).
ASSUME ConfigsAssumption ==
    Configs \subseteq [mode : {"single"}, port : Ports]
                 \cup [mode : {"ephemeral"}]
                 \cup [mode : {"range"}, start : Ports, end : Ports]

ASSUME RangesAssumption ==
    \A cfg \in Configs : cfg.mode = "range" =>
        cfg.start < cfg.end /\ cfg.start .. cfg.end \subseteq Ports

VARIABLES
    config,       \* the parameters this agent process was started with
    reader,       \* container -> port of the reader it is registered with
    used,         \* RangePool::used, as the set of ports marked true
    singleOpen,   \* single_container_reader is set
    fatal         \* LOG(FATAL) was reached: the process is gone

portVars == <<config, reader, used, singleOpen, fatal>>

NoReaders == [c \in Containers |-> NoPort]

PortsTypeOK ==
    /\ config \in Configs
    /\ reader \in [Containers -> Ports \cup {NoPort}]
    /\ used \subseteq Ports
    /\ singleOpen \in BOOLEAN
    /\ fatal \in BOOLEAN

\* A freshly constructed strategy for parameters cfg.
PortsStart(cfg) ==
    /\ config = cfg
    /\ reader = NoReaders
    /\ used = {}
    /\ singleOpen = FALSE
    /\ fatal = FALSE

PortsRestart(cfg) ==
    /\ config' = cfg
    /\ reader' = NoReaders
    /\ used' = {}
    /\ singleOpen' = FALSE
    /\ fatal' = FALSE

(***************************************************************************)
(* The host: bind() refuses a port that one of our own sockets holds, and  *)
(* may refuse any other port (another process holds it).                   *)
(***************************************************************************)
BoundPorts ==
    {reader[c] : c \in Containers} \ {NoPort}

OpenFails(p) == OpenMayFail \/ p \in BoundPorts

(***************************************************************************)
(* RangePool.                                                              *)
(***************************************************************************)
PoolRange == config.start .. config.end

PoolFree == PoolRange \ used

\* take(): the lowest value that is not used.
IsTaken(p) == p \in PoolFree /\ \A q \in PoolFree : p <= q

\* get(): this very value, if it is in range and not used.
MayGet(p) == p \in PoolFree

\* put() in its failing form: a value that was not handed out is FATAL.
PutIsFatal(p) == p \notin PoolRange \/ p \notin used

(***************************************************************************)
(* SinglePortStrategy: one reader, shared by all containers, opened on     *)
(* first use and kept open.                                                *)
(***************************************************************************)
SingleRegister(c, result) ==
    \/ /\ result = config.port          \* init_reader() succeeded
       /\ singleOpen' = TRUE
       /\ reader' = [reader EXCEPT ![c] = config.port]
       /\ UNCHANGED <<config, used, fatal>>
    \/ /\ ~singleOpen /\ OpenMayFail    \* init_reader() failed
       /\ result = NoPort
       /\ UNCHANGED portVars

\* The recovered endpoint is only compared in a warning.
SingleInsert(c, p) == \E result \in Ports \cup {NoPort} : SingleRegister(c, result)

SingleUnregister(c) ==
    /\ reader' = [reader EXCEPT ![c] = NoPort]
    /\ UNCHANGED <<config, used, singleOpen, fatal>>

(***************************************************************************)
(* EphemeralPortStrategy: a reader per container on a port the kernel      *)
(* picks.                                                                  *)
(***************************************************************************)
EphemeralOpen(c, p) ==
    /\ p \in Ports \ BoundPorts
    /\ reader' = [reader EXCEPT ![c] = p]
    /\ UNCHANGED <<config, used, singleOpen, fatal>>

EphemeralRegister(c, result) ==
    \/ /\ reader[c] # NoPort            \* reuse the existing reader
       /\ result = reader[c]
       /\ UNCHANGED portVars
    \/ /\ reader[c] = NoPort
       /\ EphemeralOpen(c, result)
    \/ /\ reader[c] = NoPort
       /\ OpenMayFail \/ Ports \subseteq BoundPorts
       /\ result = NoPort
       /\ UNCHANGED portVars

\* Mutant: the recovered reader is opened on port 0, as in register_container.
EphemeralInsertAnywhere(c, p) ==
    \E q \in Ports : EphemeralOpen(c, q)

EphemeralInsert(c, p) ==
    \/ EphemeralOpen(c, p)
    \/ OpenFails(p) /\ UNCHANGED portVars

EphemeralUnregister(c) ==
    /\ reader' = [reader EXCEPT ![c] = NoPort]
    /\ UNCHANGED <<config, used, singleOpen, fatal>>

(***************************************************************************)
(* PortRangeStrategy: a reader per container on a port of the RangePool.   *)
(***************************************************************************)
RangeOpen(c, p) ==
    /\ p \notin BoundPorts
    /\ used' = used \cup {p}
    /\ reader' = [reader EXCEPT ![c] = p]
    /\ UNCHANGED <<config, singleOpen, fatal>>

\* Mutant: the port is not put back.
RangeOpenFailedKeepingPort(p) ==
    /\ used' = used \cup {p}
    /\ UNCHANGED <<config, reader, singleOpen, fatal>>

\* The port was taken, the reader cannot be opened, the port is put back.
RangeOpenFailed(p) == UNCHANGED portVars

RangeRegister(c, result) ==
    \/ /\ reader[c] # NoPort            \* reuse the existing reader
       /\ result = reader[c]
       /\ UNCHANGED portVars
    \/ /\ reader[c] = NoPort
       /\ IsTaken(result)
       /\ RangeOpen(c, result)
    \/ /\ reader[c] = NoPort
       /\ result = NoPort
       /\ \E p \in PoolFree : IsTaken(p) /\ OpenFails(p) /\ RangeOpenFailed(p)
    \/ /\ reader[c] = NoPort
       /\ result = NoPort
       /\ PoolFree = {}                  \* depleted
       /\ UNCHANGED portVars

\* Mutant: the recovered port is not reserved in the pool.
RangeInsertWithoutGet(c, p) ==
    /\ p \in PoolRange \ BoundPorts
    /\ reader' = [reader EXCEPT ![c] = p]
    /\ UNCHANGED <<config, used, singleOpen, fatal>>

RangeInsert(c, p) ==
    \/ MayGet(p) /\ RangeOpen(c, p)
    \/ MayGet(p) /\ OpenFails(p) /\ RangeOpenFailed(p)
    \/ ~MayGet(p) /\ UNCHANGED portVars

RangeUnregister(c) ==
    IF reader[c] = NoPort
    THEN UNCHANGED portVars
    ELSE /\ fatal' = PutIsFatal(reader[c])
         /\ used' = used \ {reader[c]}
         /\ reader' = [reader EXCEPT ![c] = NoPort]
         /\ UNCHANGED <<config, singleOpen>>

(***************************************************************************)
(* ContainerAssignerStrategy: what the ContainerAssigner calls.  A result  *)
(* of NoPort is an error.                                                  *)
(***************************************************************************)
StrategyRegister(c, result) ==
    \/ config.mode = "single"    /\ SingleRegister(c, result)
    \/ config.mode = "ephemeral" /\ EphemeralRegister(c, result)
    \/ config.mode = "range"     /\ RangeRegister(c, result)

StrategyInsert(c, p) ==
    \/ config.mode = "single"    /\ SingleInsert(c, p)
    \/ config.mode = "ephemeral" /\ EphemeralInsert(c, p)
    \/ config.mode = "range"     /\ RangeInsert(c, p)

StrategyUnregister(c) ==
    \/ config.mode = "single"    /\ SingleUnregister(c)
    \/ config.mode = "ephemeral" /\ EphemeralUnregister(c)
    \/ config.mode = "range"     /\ RangeUnregister(c)
=============================================================================
