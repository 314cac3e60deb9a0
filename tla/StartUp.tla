------------------------------ MODULE StartUp ------------------------------
(***************************************************************************)
(* How the service comes up (config.go and main of dcos-metrics.go):       *)
(* flags, the configuration file, the checks, the node's identity from     *)
(* Mesos, the HTTP client.  Any error ends the process.                    *)
(*                                                                         *)
(* Durations are in units of the default poll period (60 s).               *)
(***************************************************************************)
EXTENDS Integers, FiniteSets

CONSTANTS
    Flags,       \* command lines: [set, version, config, valid]; set has the values of
                 \* -role and -loglevel where they are given
    Files        \* configuration files: records of the keys they set

\* yaml refuses a file whose periods are no numbers.
ASSUME FilesAssumption ==
    /\ \A flags \in Flags : DOMAIN flags.set \subseteq {"role", "level"}
    /\ \A file \in Files : \A k \in {"expiry", "pollPeriod"} \cap DOMAIN file : file[k] \in Int

VARIABLES
    phase,       \* what is done next, or "running", or "exited"
    cfg,         \* Config: role, expiry, pollPeriod, iam, ca
    nodeInfo     \* fields of nodeInfo that are set

startVars == <<phase, cfg, nodeInfo>>

StartTypeOK ==
    /\ phase \in {"flags", "file", "checks", "nodeInfo", "fallback", "client", "level",
                  "running", "exited"}
    /\ nodeInfo \subseteq {"ip", "mesosID", "clusterID"}
    /\ cfg.expiry \in Int /\ cfg.pollPeriod \in Int

\* newConfig
newConfig == [role |-> "", expiry |-> 2, pollPeriod |-> 1, iam |-> FALSE, level |-> "info"]

StartInit ==
    /\ phase = "flags"
    /\ cfg = newConfig
    /\ nodeInfo = {}

\* Settings replace what is there.
Replaced(settings) ==
    [k \in DOMAIN cfg |-> IF k \in DOMAIN settings THEN settings[k] ELSE cfg[k]]

\* setFlags and Parse, which ends the process at a flag it does not know.  -version
\* prints and exits.
parseFlags(flags) ==
    /\ phase = "flags"
    /\ cfg' = Replaced(flags.set)
    /\ phase' = CASE ~flags.valid \/ flags.version -> "exited"
                  [] flags.valid /\ ~flags.version /\ flags.config -> "file"
                  [] OTHER -> "checks"
    /\ UNCHANGED nodeInfo

\* The file's keys replace what is there, the flags included.
loadConfig ==
    /\ phase = "file"
    /\ \/ \E file \in Files : cfg' = Replaced(file) /\ phase' = "checks"
       \/ phase' = "exited" /\ UNCHANGED cfg
    /\ UNCHANGED nodeInfo

Roles == {"master", "agent"}

\* Mutant: the expiry is raised to one poll period.
ExpiryOnce == IF cfg.expiry < cfg.pollPeriod THEN cfg.pollPeriod ELSE cfg.expiry

MinExpiry == IF cfg.expiry < 2 * cfg.pollPeriod THEN 2 * cfg.pollPeriod ELSE cfg.expiry

\* getNewConfig, after the file: exactly one role, and the expiry of the HTTP
\* producer is raised if it is below two polls.
checkConfig ==
    /\ phase = "checks"
    /\ IF cfg.role \in Roles
       THEN phase' = "nodeInfo" /\ cfg' = [cfg EXCEPT !.expiry = MinExpiry]
       ELSE phase' = "exited" /\ UNCHANGED cfg
    /\ UNCHANGED nodeInfo

\* Without SSL there is nothing to fall back to.
AfterMesosError(useSSL) == IF useSSL THEN "fallback" ELSE "exited"

\* getNodeInfo(attemptSSL) with the outcomes of its requests.  IP and Mesos ID of
\* an attempt that fails later stay set.
getNodeInfo(attemptSSL) ==
    LET useSSL == attemptSSL /\ cfg.iam
    IN  /\ \/ phase' = "exited" /\ UNCHANGED nodeInfo            \* no client, or no IP
           \/ phase' = AfterMesosError(useSSL) /\ nodeInfo' = nodeInfo \cup {"ip"}
           \/ phase' = "exited" /\ nodeInfo' = nodeInfo \cup {"ip", "mesosID"}
           \/ phase' = "client" /\ nodeInfo' = nodeInfo \cup {"ip", "mesosID", "clusterID"}
        /\ UNCHANGED cfg

\* NewMetricsClient with the CA certificate and the IAM configuration.
NewMetricsClient ==
    /\ phase = "client"
    /\ phase' \in {"level", "exited"}
    /\ UNCHANGED <<cfg, nodeInfo>>

Levels == {"debug", "info", "warn", "warning", "error", "fatal", "panic"}

\* main: the log level is parsed, then producers and collectors are started.
main ==
    /\ phase = "level"
    /\ phase' = IF cfg.level \in Levels THEN "running" ELSE "exited"
    /\ UNCHANGED <<cfg, nodeInfo>>

StartNext ==
    \/ \E flags \in Flags : parseFlags(flags)
    \/ loadConfig
    \/ checkConfig
    \/ phase = "nodeInfo" /\ getNodeInfo(TRUE)
    \/ phase = "fallback" /\ getNodeInfo(FALSE)
    \/ NewMetricsClient
    \/ main

\* Producers: those that ProducersConfig has a field for, configured or not.
producerIsConfigured(name) == name \in {"http", "prometheus"}

\* Collectors that main starts.
Started ==
    IF phase # "running" THEN {}
    ELSE {"node"} \cup (IF cfg.role = "agent" THEN {"framework", "agent"} ELSE {})
=============================================================================
