---------------------- MODULE ContainerAssigner_proofs ----------------------
(***************************************************************************)
(* Proofs about ContainerAssigner, for every set of containers, of ports   *)
(* and of configurations, with every fault of the model enabled.           *)
(***************************************************************************)
EXTENDS ContainerAssigner, TLAPS

(***************************************************************************)
(* What the strategies preserve.  PortsInv is the part of the inductive    *)
(* invariant that speaks of ports only: outside single-port mode readers   *)
(* do not share a port, and in range mode the pool's marks are the readers'*)
(* ports, all of them in the configured range.                             *)
(***************************************************************************)
PortsInv ==
    /\ PortsTypeOK
    /\ NeverFatal
    /\ OneContainerPerPort
    /\ PoolMatchesReaders
    /\ config.mode = "range" => used \subseteq PoolRange

\* A strategy that was just constructed satisfies it.
LEMMA StartPorts ==
  ASSUME NEW cfg \in Configs, PortsStart(cfg)
  PROVE  PortsInv
<1>1. BoundPorts = {}
  BY DEF PortsStart, BoundPorts, NoReaders
<1>2. PortsTypeOK /\ NeverFatal
  BY DEF PortsStart, PortsTypeOK, NeverFatal, NoReaders
<1>3. OneContainerPerPort
  BY DEF PortsStart, OneContainerPerPort, NoReaders
<1> QED
  BY <1>1, <1>2, <1>3 DEF PortsStart, PortsInv, PoolMatchesReaders

\* So does the strategy of a restarted agent.
LEMMA RestartPorts ==
  ASSUME NEW cfg \in Configs, PortsRestart(cfg)
  PROVE  PortsInv'
<1>1. BoundPorts' = {}
  BY DEF PortsRestart, BoundPorts, NoReaders
<1>2. PortsTypeOK' /\ NeverFatal'
  BY DEF PortsRestart, PortsTypeOK, NeverFatal, NoReaders
<1>3. OneContainerPerPort'
  BY DEF PortsRestart, OneContainerPerPort, NoReaders
<1> QED
  BY <1>1, <1>2, <1>3 DEF PortsRestart, PortsInv, PoolMatchesReaders

\* Leaving the strategy alone preserves it.
LEMMA UnchangedPorts ==
  ASSUME PortsInv, UNCHANGED portVars
  PROVE  PortsInv'
  BY DEF portVars, PortsInv, PortsTypeOK, NeverFatal, OneContainerPerPort,
         PoolMatchesReaders, BoundPorts, PoolRange

\* Opening a reader on a port that is free preserves it.
LEMMA RangeOpenPorts ==
  ASSUME PortsInv, config.mode = "range", NEW c \in Containers, NEW p \in PoolFree,
         reader[c] = NoPort, RangeOpen(c, p)
  PROVE  PortsInv'
<1>1. p \in Ports /\ p # NoPort /\ p \in PoolRange
  BY PortsAssumption, RangesAssumption DEF PoolFree, PoolRange, PortsInv, PortsTypeOK
<1>2. PortsTypeOK' /\ NeverFatal'
  BY <1>1 DEF RangeOpen, PortsInv, PortsTypeOK, NeverFatal
<1>3. BoundPorts' = BoundPorts \cup {p}
  BY <1>1 DEF RangeOpen, BoundPorts, PortsInv, PortsTypeOK
<1>4. OneContainerPerPort'
  BY <1>1 DEF RangeOpen, OneContainerPerPort, BoundPorts, PortsInv, PortsTypeOK
<1>5. PoolMatchesReaders' /\ (config.mode = "range" => used \subseteq PoolRange)'
  BY <1>1, <1>3 DEF RangeOpen, PoolMatchesReaders, PortsInv, PoolRange
<1> QED
  BY <1>2, <1>4, <1>5 DEF PortsInv

\* The kernel's choice of a port in ephemeral mode preserves it.
LEMMA EphemeralOpenPorts ==
  ASSUME PortsInv, config.mode = "ephemeral", NEW c \in Containers, NEW p,
         EphemeralOpen(c, p)
  PROVE  PortsInv'
<1>1. PortsTypeOK' /\ NeverFatal'
  BY DEF EphemeralOpen, PortsInv, PortsTypeOK, NeverFatal
<1>2. OneContainerPerPort'
  BY PortsAssumption DEF EphemeralOpen, OneContainerPerPort, BoundPorts, PortsInv, PortsTypeOK
<1> QED
  BY <1>1, <1>2 DEF PortsInv, EphemeralOpen, PoolMatchesReaders

\* Closing a container's reader in ephemeral or single-port mode preserves it.
LEMMA ClosePorts ==
  ASSUME PortsInv, config.mode # "range", NEW c \in Containers,
         reader' = [reader EXCEPT ![c] = NoPort],
         UNCHANGED <<config, used, singleOpen, fatal>>
  PROVE  PortsInv'
<1>1. PortsTypeOK' /\ NeverFatal'
  BY DEF PortsInv, PortsTypeOK, NeverFatal
<1>2. OneContainerPerPort'
  BY DEF OneContainerPerPort, PortsInv, PortsTypeOK
<1> QED
  BY <1>1, <1>2 DEF PortsInv, PoolMatchesReaders

\* unregister_container of PortRangeStrategy gives back a port that was handed
\* out, and only the port of the reader it closes.
LEMMA RangeUnregisterPorts ==
  ASSUME PortsInv, config.mode = "range", NEW c \in Containers, RangeUnregister(c)
  PROVE  PortsInv'
<1>1. CASE reader[c] = NoPort
  BY <1>1, UnchangedPorts DEF RangeUnregister
<1>2. CASE reader[c] # NoPort
  <2>1. reader[c] \in used /\ reader[c] \in PoolRange
    BY <1>2 DEF PortsInv, PoolMatchesReaders, BoundPorts
  <2>2. PortsTypeOK'
    BY <1>2 DEF RangeUnregister, PortsInv, PortsTypeOK, PutIsFatal
  <2>3. NeverFatal'
    BY <1>2, <2>1 DEF RangeUnregister, PutIsFatal, NeverFatal
  <2>4. OneContainerPerPort'
    BY <1>2 DEF RangeUnregister, OneContainerPerPort, PortsInv, PortsTypeOK
  <2>5. BoundPorts' = BoundPorts \ {reader[c]}
    BY <1>2 DEF RangeUnregister, BoundPorts, OneContainerPerPort, PortsInv, PortsTypeOK
  <2>6. PoolMatchesReaders' /\ (config.mode = "range" => used \subseteq PoolRange)'
    BY <1>2, <2>5 DEF RangeUnregister, PoolMatchesReaders, PoolRange, PortsInv
  <2> QED
    BY <2>2, <2>3, <2>4, <2>6 DEF PortsInv
<1> QED
  BY <1>1, <1>2

\* Single-port mode: every container may be attached to the one port.
LEMMA SingleRegisterPorts ==
  ASSUME PortsInv, config.mode = "single", NEW c \in Containers, NEW result,
         SingleRegister(c, result)
  PROVE  PortsInv' /\ result \in Ports \cup {NoPort}
<1>1. config.port \in Ports
  BY ConfigsAssumption DEF PortsInv, PortsTypeOK
<1>2. CASE UNCHANGED portVars /\ result = NoPort
  BY <1>2, UnchangedPorts
<1>3. CASE /\ result = config.port
           /\ singleOpen' = TRUE
           /\ reader' = [reader EXCEPT ![c] = config.port]
           /\ UNCHANGED <<config, used, fatal>>
  <2>1. PortsTypeOK' /\ NeverFatal'
    BY <1>1, <1>3 DEF PortsInv, PortsTypeOK, NeverFatal
  <2> QED
    BY <1>1, <1>3, <2>1 DEF PortsInv, OneContainerPerPort, PoolMatchesReaders
<1> QED
  BY <1>2, <1>3 DEF SingleRegister

(***************************************************************************)
(* The three operations of ContainerAssignerStrategy.                      *)
(***************************************************************************)

\* register_container preserves it, in every mode and with every outcome.
LEMMA RegisterPorts ==
  ASSUME PortsInv, NEW c \in Containers, NEW result, StrategyRegister(c, result)
  PROVE  PortsInv'
<1>1. CASE config.mode = "single" /\ SingleRegister(c, result)
  BY <1>1, SingleRegisterPorts
<1>2. CASE config.mode = "ephemeral" /\ EphemeralRegister(c, result)
  BY <1>2, EphemeralOpenPorts, UnchangedPorts DEF EphemeralRegister
<1>3. CASE config.mode = "range" /\ RangeRegister(c, result)
  BY <1>3, RangeOpenPorts, UnchangedPorts DEF RangeRegister, RangeOpenFailed, IsTaken
<1> QED
  BY <1>1, <1>2, <1>3 DEF StrategyRegister

\* insert_container preserves it for a container that has no reader yet.
LEMMA InsertPorts ==
  ASSUME PortsInv, NEW c \in Containers, NEW p, reader[c] = NoPort, StrategyInsert(c, p)
  PROVE  PortsInv'
<1>1. CASE config.mode = "single" /\ SingleInsert(c, p)
  BY <1>1, SingleRegisterPorts DEF SingleInsert
<1>2. CASE config.mode = "ephemeral" /\ EphemeralInsert(c, p)
  BY <1>2, EphemeralOpenPorts, UnchangedPorts DEF EphemeralInsert
<1>3. CASE config.mode = "range" /\ RangeInsert(c, p)
  BY <1>3, RangeOpenPorts, UnchangedPorts DEF RangeInsert, RangeOpenFailed, MayGet
<1> QED
  BY <1>1, <1>2, <1>3 DEF StrategyInsert

\* unregister_container preserves it.
LEMMA UnregisterPorts ==
  ASSUME PortsInv, NEW c \in Containers, StrategyUnregister(c)
  PROVE  PortsInv'
<1>1. CASE config.mode = "single" /\ SingleUnregister(c)
  BY <1>1, ClosePorts DEF SingleUnregister
<1>2. CASE config.mode = "ephemeral" /\ EphemeralUnregister(c)
  BY <1>2, ClosePorts DEF EphemeralUnregister
<1>3. CASE config.mode = "range" /\ RangeUnregister(c)
  BY <1>3, RangeUnregisterPorts
<1> QED
  BY <1>1, <1>2, <1>3 DEF StrategyUnregister

(***************************************************************************)
(* The inductive invariant.  To know that insert_container never meets an  *)
(* existing reader one must know that a recover job is the first job of a  *)
(* process: nothing is dispatched before recover, and as long as the job   *)
(* waits there is no reader.                                               *)
(***************************************************************************)
RecoverComesFirst ==
    /\ ~recovered => queue = <<>> /\ recovery = NoRecovery /\ reader = NoReaders
    /\ \A i \in 1 .. Len(queue) : queue[i].op = "recover" =>
           i = 1 /\ recovery = NoRecovery /\ reader = NoReaders

IInv == TypeOK /\ PortsInv /\ RecoverComesFirst /\ RecoveryOnFreshState

\* The state in which every agent process starts.
LEMMA InitIInv == Init => IInv
<1> SUFFICES ASSUME Init PROVE IInv
  OBVIOUS
<1>1. PortsInv
  BY StartPorts DEF Init
<1>2. TypeOK
  <2>1. recovery \in [insert : [Containers -> Ports \cup {NoPort}],
                      remove : SUBSET Containers, register : SUBSET Containers]
    BY DEF Init, NoRecovery, NoReaders
  <2>2. cache \in [FileNames -> File]
    BY DEF Init, File
  <2>3. queue \in Seq(Job)
    BY DEF Init
  <2>4. crashes \in 0 .. MaxCrashes
    BY AssignerAssumption DEF Init
  <2> QED
    BY <1>1, <2>1, <2>2, <2>3, <2>4 DEF Init, PortsInv, TypeOK, NoReaders
<1>3. RecoverComesFirst /\ RecoveryOnFreshState
  BY DEF Init, PortsStart, RecoverComesFirst, RecoveryOnFreshState, NoReaders, NoPort,
         NoRecovery, ToInsert
<1> QED
  BY <1>1, <1>2, <1>3 DEF IInv

\* What a cache operation leaves on disk is a file.
LEMMA CacheType ==
  ASSUME cache \in [FileNames -> File], NEW c \in Containers,
         \/ \E p \in Ports : add_container(c, p)
         \/ remove_container(c)
         \/ cache' = [cache EXCEPT ![sanitized_filename[c]] = TornFile]
         \/ UNCHANGED cache
  PROVE  cache' \in [FileNames -> File]
<1>1. sanitized_filename[c] \in FileNames
  BY DEF FileNames
<1>2. cache[sanitized_filename[c]] \in File
  BY <1>1
<1>3. \A p \in Ports : Entry(c, p) \in File
  BY DEF Entry, File
<1>4. NoFile \in File /\ TornFile \in File
  BY DEF File
<1>5. CASE \E p \in Ports : add_container(c, p)
  BY <1>1, <1>2, <1>3, <1>4, <1>5 DEF add_container
<1>6. CASE remove_container(c)
  BY <1>1, <1>2, <1>4, <1>6 DEF remove_container
<1> QED
  BY <1>1, <1>4, <1>5, <1>6

\* The isolator actor's steps leave the strategy and the cache alone.
LEMMA ActorStepIInv == IInv /\ ActorStep => IInv'
<1> SUFFICES ASSUME IInv, ActorStep PROVE IInv'
  OBVIOUS
<1> USE DEF IInv
<1>1. UNCHANGED <<portVars, recovery, cache, processVars>>
  BY DEF ActorStep, Recover, PrepareDebug, Prepare, PrepareTimeout, Cleanup
<1>2. PortsInv' /\ RecoveryOnFreshState'
  BY <1>1, UnchangedPorts DEF portVars, RecoveryOnFreshState, ToInsert
<1>3. /\ recovered' \in BOOLEAN
      /\ registered' \subseteq Containers
      /\ caller' \in Containers \cup {NoContainer}
      /\ phase' \in [Containers -> {"new", "preparing", "running", "orphan", "gone"}]
      /\ told' \in [Containers -> Ports \cup {NoPort}]
  BY DEF ActorStep, Recover, PrepareDebug, Prepare, PrepareTimeout, Cleanup, TypeOK
<1>4. CASE \E states \in SUBSET Containers : Recover(states)
  <2>1. PICK states \in SUBSET Containers : Recover(states)
    BY <1>4
  <2>2. queue = <<>> /\ recovery = NoRecovery /\ reader = NoReaders
    BY <2>1 DEF Recover, RecoverComesFirst
  <2>3. queue' = <<[op |-> "recover", states |-> states]>>
    BY <2>1, <2>2 DEF Recover, Dispatch
  <2>4. queue' \in Seq(Job)
    BY <2>3 DEF Job
  <2>5. RecoverComesFirst'
    BY <1>1, <2>1, <2>2, <2>3 DEF Recover, RecoverComesFirst, portVars
  <2> QED
    BY <1>1, <1>2, <1>3, <2>4, <2>5 DEF TypeOK, portVars, processVars, PortsInv
<1>5. CASE UNCHANGED <<queue, recovered>>
  BY <1>1, <1>2, <1>3, <1>5
     DEF TypeOK, portVars, processVars, PortsInv, RecoverComesFirst
<1>6. CASE /\ recovered /\ recovered'
           /\ \E c \in Containers, op \in {"register", "unregister"} :
                  Dispatch([op |-> op, id |-> c])
  <2>1. PICK c \in Containers, op \in {"register", "unregister"} :
               queue' = Append(queue, [op |-> op, id |-> c])
    BY <1>6 DEF Dispatch
  <2>2. [op |-> op, id |-> c] \in Job
    BY DEF Job
  <2>3. queue' \in Seq(Job)
    BY <2>1, <2>2 DEF TypeOK
  <2>4. RecoverComesFirst'
    BY <1>1, <1>6, <2>1, <2>2 DEF RecoverComesFirst, portVars, TypeOK
  <2> QED
    BY <1>1, <1>2, <1>3, <2>3, <2>4 DEF TypeOK, portVars, processVars, PortsInv
<1>7. ASSUME NEW c \in Containers, PrepareDebug(c) \/ Prepare(c) \/ Cleanup(c)
      PROVE  IInv'
  <2>1. CASE PrepareDebug(c)
    BY <1>5, <2>1 DEF PrepareDebug
  <2>2. CASE Prepare(c)
    <3>1. Dispatch([op |-> "register", id |-> c]) /\ recovered /\ recovered'
      BY <2>2 DEF Prepare
    <3> QED
      BY <1>6, <3>1
  <2>3. CASE Cleanup(c) /\ c \in registered
    <3>1. Dispatch([op |-> "unregister", id |-> c]) /\ recovered /\ recovered'
      BY <2>3 DEF Cleanup, NeedsUnregister
    <3> QED
      BY <1>6, <3>1
  <2>4. CASE Cleanup(c) /\ c \notin registered
    BY <1>5, <2>4 DEF Cleanup, NeedsUnregister
  <2> QED
    BY <1>7, <2>1, <2>2, <2>3, <2>4
<1>8. CASE PrepareTimeout
  BY <1>5, <1>8 DEF PrepareTimeout
<1> QED
  BY <1>4, <1>7, <1>8 DEF ActorStep

\* Taking the next job off the queue.
LEMMA NextJobQueue ==
  ASSUME IInv, NEW op, NextJob(op)
  PROVE  /\ queue' \in Seq(Job) /\ Head(queue) \in Job /\ Head(queue).op = op
         /\ \A i \in 1 .. Len(queue') : queue'[i].op # "recover"
         /\ recovered
         /\ ToInsert = {}
<1>1. queue \in Seq(Job) /\ queue # <<>>
  BY DEF IInv, TypeOK, NextJob
<1>2. queue' = Tail(queue) /\ Len(queue') = Len(queue) - 1
  BY <1>1 DEF NextJob
<1>3. \A i \in 1 .. Len(queue') : queue'[i] = queue[i + 1] /\ i + 1 \in 1 .. Len(queue)
  BY <1>1, <1>2
<1>4. \A i \in 1 .. Len(queue') : queue'[i].op # "recover"
  BY <1>3 DEF IInv, RecoverComesFirst
<1>5. queue' \in Seq(Job) /\ Head(queue) \in Job
  BY <1>1, <1>2
<1> QED
  BY <1>4, <1>5 DEF IInv, RecoverComesFirst, NextJob, Recovering

\* The result of a registration is a port or NoPort, and what goes to disk
\* is typed.
LEMMA RegisterAndCache ==
  ASSUME IInv, NEW c \in Containers, NEW result \in Ports \cup {NoPort},
         register_and_update_cache(c, result)
  PROVE  PortsInv' /\ cache' \in [FileNames -> File]
<1>1. PortsInv'
  BY RegisterPorts DEF IInv, register_and_update_cache
<1>2. \/ \E p \in Ports : add_container(c, p)
      \/ UNCHANGED cache
  BY DEF register_and_update_cache
<1> QED
  BY <1>1, <1>2, CacheType DEF IInv, TypeOK

\* An unregistration leaves typed files and preserves the ports.
LEMMA UnregisterAndCache ==
  ASSUME IInv, NEW c \in Containers, unregister_and_update_cache(c)
  PROVE  PortsInv' /\ cache' \in [FileNames -> File]
  BY UnregisterPorts, CacheType DEF IInv, TypeOK, unregister_and_update_cache

\* The io thread's jobs.
LEMMA IoStepIInv == IInv /\ IoStep => IInv'
<1> SUFFICES ASSUME IInv, IoStep PROVE IInv'
  OBVIOUS
<1>1. CASE RunRegister
  <2>1. NextJob("register")
    BY <1>1 DEF RunRegister
  <2> DEFINE c == Head(queue).id
  <2>2. c \in Containers
    BY <2>1, NextJobQueue DEF Job
  <2>3. PICK result \in Ports \cup {NoPort} :
          /\ register_and_update_cache(c, result)
          /\ IF caller = c
             THEN /\ caller' = NoContainer
                  /\ phase' = [phase EXCEPT ![c] = "running"]
                  /\ told' = [told EXCEPT ![c] = result]
             ELSE UNCHANGED <<caller, phase, told>>
    BY <1>1 DEF RunRegister, Answers
  <2> HIDE DEF c
  <2>4. PortsInv' /\ cache' \in [FileNames -> File]
    BY <2>2, <2>3, RegisterAndCache
  <2>5. /\ caller' \in Containers \cup {NoContainer}
        /\ phase' \in [Containers -> {"new", "preparing", "running", "orphan", "gone"}]
        /\ told' \in [Containers -> Ports \cup {NoPort}]
    BY <2>2, <2>3 DEF IInv, TypeOK
  <2>6. UNCHANGED <<processVars, recovered, registered, recovery>>
    BY <1>1 DEF RunRegister
  <2>7. TypeOK'
    BY <2>1, <2>4, <2>5, <2>6, NextJobQueue DEF IInv, TypeOK, PortsInv, processVars
  <2>8. RecoverComesFirst' /\ RecoveryOnFreshState'
    BY <2>1, <2>6, NextJobQueue DEF RecoverComesFirst, RecoveryOnFreshState, ToInsert
  <2> QED
    BY <2>4, <2>7, <2>8 DEF IInv
<1>2. CASE RunUnregister
  <2>1. NextJob("unregister") /\ Head(queue).id \in Containers
    BY <1>2, NextJobQueue DEF RunUnregister, Job
  <2>2. PortsInv' /\ cache' \in [FileNames -> File]
    BY <1>2, <2>1, UnregisterAndCache DEF RunUnregister
  <2>3. UNCHANGED <<isolatorVars, processVars, recovery>>
    BY <1>2 DEF RunUnregister
  <2>4. TypeOK'
    BY <2>1, <2>2, <2>3, NextJobQueue DEF IInv, TypeOK, PortsInv, isolatorVars, processVars
  <2>5. RecoverComesFirst' /\ RecoveryOnFreshState'
    BY <2>1, <2>3, NextJobQueue
       DEF RecoverComesFirst, RecoveryOnFreshState, ToInsert, isolatorVars
  <2> QED
    BY <2>2, <2>4, <2>5 DEF IInv
<1>3. CASE RunRecover
  <2>1. NextJob("recover") /\ Head(queue).states \subseteq Containers
    BY <1>3, NextJobQueue DEF RunRecover, Job
  <2>2. reader = NoReaders
    <3>1. Head(queue) = queue[1] /\ 1 \in 1 .. Len(queue)
      BY <2>1 DEF NextJob, IInv, TypeOK
    <3> QED
      BY <2>1, <3>1, NextJobQueue DEF IInv, RecoverComesFirst
  <2>3. UNCHANGED <<portVars, isolatorVars, processVars, cache>>
    BY <1>3 DEF RunRecover
  <2>4. PortsInv'
    BY <2>3, UnchangedPorts DEF IInv
  <2>5. recovery' \in [insert : [Containers -> Ports \cup {NoPort}],
                       remove : SUBSET Containers, register : SUBSET Containers]
    BY <1>3, <2>1 DEF RunRecover, OnlyOnDisk
  <2>6. TypeOK'
    BY <2>1, <2>3, <2>4, <2>5, NextJobQueue
       DEF IInv, TypeOK, PortsInv, isolatorVars, processVars
  <2>7. RecoverComesFirst' /\ RecoveryOnFreshState'
    BY <2>1, <2>2, <2>3, NextJobQueue
       DEF RecoverComesFirst, RecoveryOnFreshState, ToInsert, isolatorVars, portVars, NoReaders
  <2> QED
    BY <2>4, <2>6, <2>7 DEF IInv
<1>4. ASSUME NEW c \in Containers, RecoverInsert(c)
      PROVE  IInv'
  <2>1. c \in ToInsert /\ reader[c] = NoPort
    BY <1>4 DEF RecoverInsert, First, IInv, RecoveryOnFreshState
  <2>2. PortsInv'
    BY <1>4, <2>1, InsertPorts DEF RecoverInsert, IInv
  <2>3. UNCHANGED <<isolatorVars, processVars, queue, cache>>
    BY <1>4 DEF RecoverInsert
  <2>4. recovery' = [recovery EXCEPT !.insert = [recovery.insert EXCEPT ![c] = NoPort]]
    BY <1>4 DEF RecoverInsert
  <2>5. TypeOK'
    BY <2>2, <2>3, <2>4 DEF IInv, TypeOK, PortsInv, isolatorVars, processVars
  <2>6. RecoverComesFirst'
    BY <2>1, <2>3 DEF RecoverComesFirst, IInv, isolatorVars, NoRecovery, ToInsert, NoReaders
  <2>7. \A d \in Containers \ {c} : reader'[d] = reader[d]
    BY <1>4 DEF RecoverInsert, StrategyInsert, SingleInsert, SingleRegister, EphemeralInsert,
           EphemeralOpen, RangeInsert, RangeOpen, RangeOpenFailed, portVars, IInv, PortsInv, PortsTypeOK
  <2>8. ToInsert' = ToInsert \ {c}
    BY <2>4 DEF ToInsert, IInv, TypeOK
  <2>9. RecoveryOnFreshState'
    BY <2>7, <2>8 DEF RecoveryOnFreshState, IInv, ToInsert
  <2> QED
    BY <2>2, <2>5, <2>6, <2>9 DEF IInv
<1>5. ASSUME NEW c \in Containers, RecoverRemove(c) \/ RecoverRegister(c)
      PROVE  IInv'
  <2>1. PortsInv' /\ cache' \in [FileNames -> File]
    BY <1>5, UnregisterAndCache, RegisterAndCache DEF RecoverRemove, RecoverRegister
  <2>2. UNCHANGED <<isolatorVars, processVars, queue>>
    BY <1>5 DEF RecoverRemove, RecoverRegister
  <2>3. \/ recovery' = [recovery EXCEPT !.remove = recovery.remove \ {c}]
        \/ recovery' = [recovery EXCEPT !.register = recovery.register \ {c}]
    BY <1>5 DEF RecoverRemove, RecoverRegister
  <2>4. ToInsert = {} /\ recovery # NoRecovery
    BY <1>5 DEF RecoverRemove, RecoverRegister, First, NoRecovery
  <2>5. TypeOK'
    BY <2>1, <2>2, <2>3 DEF IInv, TypeOK, PortsInv, isolatorVars, processVars
  <2>6. RecoverComesFirst'
    BY <2>2, <2>4 DEF RecoverComesFirst, IInv, isolatorVars
  <2>7. RecoveryOnFreshState'
    BY <2>3, <2>4 DEF RecoveryOnFreshState, ToInsert, IInv, TypeOK
  <2> QED
    BY <2>1, <2>5, <2>6, <2>7 DEF IInv
<1> QED
  BY <1>1, <1>2, <1>3, <1>4, <1>5 DEF IoStep

\* A crash wipes everything but the cache; a restart only changes the config.
LEMMA ProcessStepIInv == IInv /\ (Crash \/ Restart) => IInv'
<1> SUFFICES ASSUME IInv, Crash \/ Restart PROVE IInv'
  OBVIOUS
<1>1. CASE Crash
  <2>1. PortsInv' /\ reader' = NoReaders
    BY <1>1, RestartPorts DEF Crash, IInv, PortsInv, PortsTypeOK, PortsRestart
  <2>2. cache' \in [FileNames -> File]
    BY <1>1, CacheType DEF Crash, IInv, TypeOK
  <2>3. recovery' = NoRecovery /\ queue' = <<>> /\ ~recovered'
    BY <1>1 DEF Crash
  <2>4. /\ queue' \in Seq(Job)
        /\ recovery' \in [insert : [Containers -> Ports \cup {NoPort}],
                          remove : SUBSET Containers, register : SUBSET Containers]
    BY <2>3 DEF NoRecovery, NoReaders
  <2>5. crashes' \in 0 .. MaxCrashes
    BY <1>1, AssignerAssumption DEF Crash, IInv, TypeOK
  <2>6. TypeOK'
    BY <1>1, <2>1, <2>2, <2>4, <2>5 DEF Crash, IInv, TypeOK, PortsInv
  <2>7. RecoverComesFirst'
    BY <2>1, <2>3 DEF RecoverComesFirst
  <2>8. RecoveryOnFreshState'
    BY <2>1, <2>3 DEF RecoveryOnFreshState, ToInsert, NoReaders
  <2> QED
    BY <2>1, <2>6, <2>7, <2>8 DEF IInv
<1>2. CASE Restart
  <2>1. PortsInv' /\ reader' = NoReaders
    BY <1>2, RestartPorts DEF Restart, PortsRestart
  <2>2. TypeOK'
    BY <1>2, <2>1 DEF Restart, IInv, TypeOK, PortsInv, isolatorVars
  <2>3. RecoverComesFirst'
    BY <1>2, <2>1 DEF Restart, RecoverComesFirst, IInv, isolatorVars
  <2>4. RecoveryOnFreshState'
    BY <1>2, <2>1 DEF Restart, RecoveryOnFreshState, ToInsert, NoReaders
  <2> QED
    BY <2>1, <2>2, <2>3, <2>4 DEF IInv
<1> QED
  BY <1>1, <1>2

\* Stuttering.
LEMMA StutterIInv == IInv /\ UNCHANGED vars => IInv'
  BY UnchangedPorts
     DEF vars, isolatorVars, processVars, portVars, IInv, TypeOK, PortsInv, PortsTypeOK,
         RecoverComesFirst, RecoveryOnFreshState, ToInsert, NeverFatal, OneContainerPerPort,
         PoolMatchesReaders, BoundPorts, PoolRange

\* The invariant holds in every reachable state.
THEOREM Invariance == Spec => []IInv
<1>1. IInv /\ [Next]_vars => IInv'
  BY ActorStepIInv, IoStepIInv, ProcessStepIInv, StutterIInv DEF Next
<1> QED
  BY <1>1, InitIInv, PTL DEF Spec

\* Every variable keeps its type.
THEOREM TypeCorrect == Spec => []TypeOK
  BY Invariance, PTL DEF IInv

\* RangePool::put never aborts the Mesos agent.
THEOREM PutNeverAborts == Spec => []NeverFatal
  BY Invariance, PTL DEF IInv, PortsInv

\* The pool never loses a port and never hands one out twice.
THEOREM PoolExact == Spec => []PoolMatchesReaders
  BY Invariance, PTL DEF IInv, PortsInv

\* No two containers share a reader's port in ephemeral and range mode.
THEOREM PortsExclusive == Spec => []OneContainerPerPort
  BY Invariance, PTL DEF IInv, PortsInv

\* insert_container never overwrites a reader.
THEOREM RecoveryFresh == Spec => []RecoveryOnFreshState
  BY Invariance, PTL DEF IInv

(***************************************************************************)
(* The jobs and the lives of containers.  What is said of a queue of jobs  *)
(* is preserved when a job is put at its end or taken from its head.       *)
(***************************************************************************)

\* Dispatching a job keeps the ones that wait, at their places.
LEMMA PushQueue ==
  ASSUME IInv, NEW job \in Job, Dispatch(job)
  PROVE  /\ Len(queue) + 1 \in DOMAIN queue' /\ queue'[Len(queue) + 1] = job
         /\ \A i \in DOMAIN queue : i \in DOMAIN queue' /\ queue'[i] = queue[i] /\ i < Len(queue) + 1
         /\ \A i \in DOMAIN queue' : i \in DOMAIN queue \/ i = Len(queue) + 1
         /\ \A i \in DOMAIN queue : queue[i] \in Job
  BY DEF IInv, TypeOK, Dispatch

\* Starting a job moves every other one up by a place.
LEMMA PopQueue ==
  ASSUME IInv, NEW op, NextJob(op)
  PROVE  /\ 1 \in DOMAIN queue /\ queue[1] = Head(queue)
         /\ \A i \in DOMAIN queue' : i + 1 \in DOMAIN queue /\ queue'[i] = queue[i + 1]
         /\ \A i \in DOMAIN queue : i # 1 => i - 1 \in DOMAIN queue' /\ queue'[i - 1] = queue[i]
         /\ \A i \in DOMAIN queue : i \in Nat /\ queue[i] \in Job
         /\ \A i \in DOMAIN queue' : i \in Nat /\ queue'[i] \in Job
<1>1. queue \in Seq(Job) /\ queue # <<>> /\ queue' = Tail(queue)
  BY DEF IInv, TypeOK, NextJob
<1>2. Len(queue) \in Nat /\ Len(queue) > 0 /\ Len(queue') = Len(queue) - 1
  BY <1>1
<1>3. DOMAIN queue = 1 .. Len(queue) /\ DOMAIN queue' = 1 .. (Len(queue) - 1)
  BY <1>1, <1>2
<1>4. \A i \in 1 .. (Len(queue) - 1) : queue'[i] = queue[i + 1]
  BY <1>1, <1>2
<1> QED
  BY <1>1, <1>2, <1>3, <1>4

\* register_container gives a reader to nobody but c.
LEMMA RegisterReaders ==
  ASSUME PortsTypeOK, NEW c \in Containers, NEW result, StrategyRegister(c, result)
  PROVE  /\ config' = config
         /\ \A d \in Containers \ {c} : reader'[d] = reader[d]
         /\ config.mode # "single" => reader'[c] = result
  BY DEF StrategyRegister, SingleRegister, EphemeralRegister, EphemeralOpen, RangeRegister,
         RangeOpen, RangeOpenFailed, portVars, PortsTypeOK

\* Neither does insert_container.
LEMMA InsertReaders ==
  ASSUME PortsTypeOK, NEW c \in Containers, NEW p, StrategyInsert(c, p)
  PROVE  /\ config' = config
         /\ \A d \in Containers \ {c} : reader'[d] = reader[d]
         /\ config.mode # "single" => reader'[c] = p \/ reader'[c] = reader[c]
  BY DEF StrategyInsert, SingleInsert, SingleRegister, EphemeralInsert, EphemeralOpen,
         RangeInsert, RangeOpen, RangeOpenFailed, portVars, PortsTypeOK

\* unregister_container closes c's reader and no other.
LEMMA UnregisterReaders ==
  ASSUME PortsTypeOK, NEW c \in Containers, StrategyUnregister(c)
  PROVE  /\ config' = config
         /\ \A d \in Containers \ {c} : reader'[d] = reader[d]
         /\ reader'[c] = NoPort
  BY DEF StrategyUnregister, SingleUnregister, EphemeralUnregister, RangeUnregister, portVars,
         PortsTypeOK

(***************************************************************************)
(* ReadersTracked, strengthened: whatever may still open a reader for a    *)
(* container (a job in the queue, a recovery under way) is tracked as the  *)
(* reader would be, and a register job is followed by the unregister job.  *)
(***************************************************************************)
Tracked(c) == c \in registered \/ UnregisterPending(c)

UnregisterFollows(i) ==
    \E j \in DOMAIN queue : i < j /\ queue[j] = [op |-> "unregister", id |-> queue[i].id]

TrackInv ==
    /\ ReadersTracked
    /\ \A c \in ToInsert \cup recovery.register : Tracked(c)
    /\ \A i \in DOMAIN queue : queue[i].op = "recover" =>
           \A c \in queue[i].states : Tracked(c)
    /\ \A i \in DOMAIN queue : queue[i].op = "register" =>
           queue[i].id \in registered \/ UnregisterFollows(i)

\* A step that forgets no container and no unregister job, and adds no reader
\* and no work, preserves it.
LEMMA ActorTrack == IInv /\ TrackInv /\ ActorStep => TrackInv'
<1> SUFFICES ASSUME IInv, TrackInv, ActorStep PROVE TrackInv'
  OBVIOUS
<1>1. UNCHANGED <<reader, recovery>>
  BY DEF ActorStep, Recover, PrepareDebug, Prepare, PrepareTimeout, Cleanup, portVars
<1>2. ToInsert' = ToInsert
  BY <1>1 DEF ToInsert
<1>3. CASE UNCHANGED <<registered, queue>>
  BY <1>1, <1>2, <1>3 DEF TrackInv, ReadersTracked, Tracked, UnregisterPending, UnregisterFollows
<1>4. ASSUME NEW states \in SUBSET Containers, Recover(states)
      PROVE  TrackInv'
  <2> DEFINE job == [op |-> "recover", states |-> states]
  <2>1. job \in Job /\ Dispatch(job) /\ registered' = registered \cup states
    BY <1>4 DEF Recover, Job
  <2>2. \A c : UnregisterPending(c) => UnregisterPending(c)'
    BY <2>1, PushQueue DEF UnregisterPending
  <2>3. queue = <<>>
    BY <1>4 DEF Recover, IInv, RecoverComesFirst
  <2>4. \A i \in DOMAIN queue' : queue'[i] = job
    BY <2>1, <2>3 DEF Dispatch
  <2>5. ReadersTracked' /\ \A c \in (ToInsert \cup recovery.register)' : Tracked(c)'
    BY <1>1, <1>2, <2>1, <2>2 DEF TrackInv, ReadersTracked, Tracked
  <2> QED
    BY <2>1, <2>4, <2>5 DEF TrackInv, Tracked
<1>5. ASSUME NEW c \in Containers, Prepare(c)
      PROVE  TrackInv'
  <2> DEFINE job == [op |-> "register", id |-> c]
  <2>1. job \in Job /\ Dispatch(job) /\ registered' = registered \cup {c}
    BY <1>5 DEF Prepare, Job
  <2>2. \A d : UnregisterPending(d) => UnregisterPending(d)'
    BY <2>1, PushQueue DEF UnregisterPending
  <2>3. \A i \in DOMAIN queue : UnregisterFollows(i) => UnregisterFollows(i)'
    BY <2>1, PushQueue DEF UnregisterFollows
  <2>4. \A d : Tracked(d) => Tracked(d)'
    BY <2>1, <2>2 DEF Tracked
  <2>5. ASSUME NEW i \in DOMAIN queue'
        PROVE  /\ queue'[i].op = "recover" => \A d \in queue'[i].states : Tracked(d)'
               /\ queue'[i].op = "register" => queue'[i].id \in registered' \/ UnregisterFollows(i)'
    <3>1. CASE i = Len(queue) + 1
      BY <2>1, <3>1, PushQueue
    <3>2. CASE i \in DOMAIN queue
      BY <2>1, <2>3, <2>4, <3>2, PushQueue DEF TrackInv
    <3> QED
      BY <2>1, <3>1, <3>2, PushQueue
  <2> QED
    BY <1>1, <1>2, <2>4, <2>5 DEF TrackInv, ReadersTracked, Tracked
<1>6. ASSUME NEW c \in Containers, Cleanup(c), c \in registered
      PROVE  TrackInv'
  <2> DEFINE job == [op |-> "unregister", id |-> c]
  <2>1. job \in Job /\ Dispatch(job) /\ registered' = registered \ {c}
    BY <1>6 DEF Cleanup, NeedsUnregister, Job
  <2>2. \A d : UnregisterPending(d) \/ d = c => UnregisterPending(d)'
    BY <2>1, PushQueue DEF UnregisterPending
  <2>3. \A i \in DOMAIN queue : UnregisterFollows(i) \/ queue[i].id = c => UnregisterFollows(i)'
    BY <2>1, PushQueue DEF UnregisterFollows
  <2>4. \A d : Tracked(d) => Tracked(d)'
    BY <2>1, <2>2 DEF Tracked
  <2>5. ASSUME NEW i \in DOMAIN queue'
        PROVE  /\ queue'[i].op = "recover" => \A d \in queue'[i].states : Tracked(d)'
               /\ queue'[i].op = "register" => queue'[i].id \in registered' \/ UnregisterFollows(i)'
    <3>1. CASE i = Len(queue) + 1
      BY <2>1, <3>1, PushQueue
    <3>2. CASE i \in DOMAIN queue
      BY <2>1, <2>3, <2>4, <3>2, PushQueue DEF TrackInv
    <3> QED
      BY <2>1, <3>1, <3>2, PushQueue
  <2> QED
    BY <1>1, <1>2, <2>4, <2>5 DEF TrackInv, ReadersTracked, Tracked
<1>7. ASSUME NEW c \in Containers, Cleanup(c), c \notin registered
      PROVE  TrackInv'
  BY <1>3, <1>7 DEF Cleanup, NeedsUnregister
<1>8. ASSUME NEW c \in Containers, PrepareDebug(c)
      PROVE  TrackInv'
  BY <1>3, <1>8 DEF PrepareDebug
<1>9. CASE PrepareTimeout
  BY <1>3, <1>9 DEF PrepareTimeout
<1> QED
  BY <1>4, <1>5, <1>6, <1>7, <1>8, <1>9 DEF ActorStep

\* The jobs keep it: a register job finds its container tracked, an unregister
\* job closes the reader that it stops tracking.
LEMMA IoTrack == IInv /\ TrackInv /\ IoStep => TrackInv'
<1> SUFFICES ASSUME IInv, TrackInv, IoStep PROVE TrackInv'
  OBVIOUS
<1>0. PortsTypeOK
  BY DEF IInv, PortsInv
<1>1. registered' = registered
  BY DEF IoStep, RunRegister, RunUnregister, RunRecover, RecoverInsert, RecoverRemove,
         RecoverRegister, isolatorVars
<1>2. ASSUME NEW op, NextJob(op), op \in {"register", "unregister", "recover"}
      PROVE  /\ \A c : UnregisterPending(c) /\ (Head(queue).op # "unregister" \/ Head(queue).id # c)
                          => UnregisterPending(c)'
             /\ \A i \in DOMAIN queue' : queue'[i].op # "recover"
             /\ \A i \in DOMAIN queue' : queue'[i].op = "register" =>
                    queue'[i].id \in registered' \/ UnregisterFollows(i)'
  <2>1. \A c : UnregisterPending(c) /\ (Head(queue).op # "unregister" \/ Head(queue).id # c)
                  => UnregisterPending(c)'
    BY <1>2, PopQueue DEF UnregisterPending
  <2>2. \A i \in DOMAIN queue' : queue'[i].op # "recover"
    BY <1>2, NextJobQueue DEF IInv, TypeOK
  <2>3. ASSUME NEW i \in DOMAIN queue', UnregisterFollows(i + 1)
        PROVE  UnregisterFollows(i)'
    <3>1. PICK j \in DOMAIN queue :
                 i + 1 < j /\ queue[j] = [op |-> "unregister", id |-> queue[i + 1].id]
      BY <2>3 DEF UnregisterFollows
    <3>2. j - 1 \in DOMAIN queue' /\ i < j - 1 /\ queue'[j - 1] = queue[j] /\ queue'[i] = queue[i + 1]
      BY <1>2, <3>1, PopQueue
    <3> QED
      BY <3>1, <3>2 DEF UnregisterFollows
  <2> QED
    BY <1>1, <1>2, <2>1, <2>2, <2>3, PopQueue DEF TrackInv
<1>3. CASE RunRegister
  <2>1. NextJob("register") /\ recovery' = recovery
    BY <1>3 DEF RunRegister
  <2> DEFINE c == Head(queue).id
  <2>2. c \in Containers /\ Head(queue).op = "register"
    BY <2>1, NextJobQueue DEF Job
  <2>3. \A d \in Containers \ {c} : reader'[d] = reader[d]
    BY <1>0, <1>3, <2>2, RegisterReaders DEF RunRegister, register_and_update_cache
  <2>4. \A d : Tracked(d) => Tracked(d)'
    BY <1>1, <1>2, <2>1, <2>2 DEF Tracked
  <2>5. Tracked(c)
    BY <2>1, <2>2, PopQueue DEF Tracked, TrackInv, UnregisterFollows, UnregisterPending
  <2> HIDE DEF c
  <2>6. ReadersTracked'
    BY <2>3, <2>4, <2>5 DEF ReadersTracked, TrackInv, Tracked
  <2> QED
    BY <1>2, <2>1, <2>4, <2>6 DEF TrackInv, ToInsert
<1>4. CASE RunUnregister
  <2>1. NextJob("unregister") /\ recovery' = recovery
    BY <1>4 DEF RunUnregister
  <2> DEFINE c == Head(queue).id
  <2>2. c \in Containers /\ Head(queue).op = "unregister"
    BY <2>1, NextJobQueue DEF Job
  <2>3. reader'[c] = NoPort /\ \A d \in Containers \ {c} : reader'[d] = reader[d]
    BY <1>0, <1>4, <2>2, UnregisterReaders DEF RunUnregister, unregister_and_update_cache
  <2>4. \A d \in Containers \ {c} : Tracked(d) => Tracked(d)'
    BY <1>1, <1>2, <2>1 DEF Tracked
  <2> HIDE DEF c
  <2>5. ReadersTracked'
    BY <2>3, <2>4 DEF ReadersTracked, TrackInv, Tracked
  <2>6. ToInsert' = {} /\ recovery'.register = {}
    BY <2>1 DEF NextJob, Recovering, ToInsert
  <2> QED
    BY <1>2, <2>1, <2>5, <2>6 DEF TrackInv
<1>5. CASE RunRecover
  <2>1. NextJob("recover") /\ reader' = reader
    BY <1>5 DEF RunRecover, portVars
  <2> DEFINE states == Head(queue).states
  <2>2. Head(queue).op = "recover" /\ states \subseteq Containers
    BY <2>1, NextJobQueue DEF Job
  <2>3. \A d : Tracked(d) => Tracked(d)'
    BY <1>1, <1>2, <2>1, <2>2 DEF Tracked
  <2>4. \A d \in states : Tracked(d)
    BY <2>1, <2>2, PopQueue DEF TrackInv
  <2>5. (ToInsert \cup recovery.register)' \subseteq states
    BY <1>5 DEF RunRecover, ToInsert
  <2>6. ReadersTracked'
    BY <2>1, <2>3 DEF ReadersTracked, TrackInv, Tracked
  <2> QED
    BY <1>2, <2>1, <2>3, <2>4, <2>5, <2>6 DEF TrackInv
<1>6. ASSUME NEW c \in Containers, RecoverInsert(c) \/ RecoverRemove(c) \/ RecoverRegister(c)
      PROVE  TrackInv'
  <2>1. queue' = queue
    BY <1>6 DEF RecoverInsert, RecoverRemove, RecoverRegister
  <2>2. (ToInsert \cup recovery.register)' \subseteq ToInsert \cup recovery.register
    BY <1>6 DEF RecoverInsert, RecoverRemove, RecoverRegister, ToInsert, IInv, TypeOK
  <2>3. \A d \in Containers \ {c} : reader'[d] = reader[d]
    BY <1>0, <1>6, RegisterReaders, InsertReaders, UnregisterReaders
       DEF RecoverInsert, RecoverRemove, RecoverRegister, register_and_update_cache,
           unregister_and_update_cache
  <2>4. reader'[c] = NoPort \/ c \in ToInsert \cup recovery.register
    BY <1>0, <1>6, UnregisterReaders
       DEF RecoverInsert, RecoverRemove, RecoverRegister, First, unregister_and_update_cache
  <2>5. \A d : Tracked(d) <=> Tracked(d)'
    BY <1>1, <2>1 DEF Tracked, UnregisterPending
  <2>6. ReadersTracked'
    BY <2>3, <2>4, <2>5 DEF ReadersTracked, TrackInv, Tracked
  <2> QED
    BY <1>1, <2>1, <2>2, <2>5, <2>6 DEF TrackInv, UnregisterFollows
<1> QED
  BY <1>3, <1>4, <1>5, <1>6 DEF IoStep

\* TrackInv holds in every reachable state.
LEMMA TrackInvariance == Spec => []TrackInv
<1>1. Init => TrackInv
  BY DEF Init, PortsStart, TrackInv, ReadersTracked, ToInsert, NoRecovery, NoReaders
<1>2. IInv /\ TrackInv /\ (Crash \/ Restart) => TrackInv'
  <2> SUFFICES ASSUME IInv, TrackInv, Crash \/ Restart PROVE TrackInv'
    OBVIOUS
  <2>1. CASE Crash
    BY <2>1 DEF Crash, PortsRestart, TrackInv, ReadersTracked, ToInsert, NoRecovery, NoReaders
  <2>2. CASE Restart
    <3>1. reader' = NoReaders /\ UNCHANGED <<registered, queue, recovery>>
      BY <2>2 DEF Restart, PortsRestart, isolatorVars
    <3> QED
      BY <3>1 DEF TrackInv, ReadersTracked, ToInsert, NoReaders, Tracked, UnregisterPending,
             UnregisterFollows
  <2> QED
    BY <2>1, <2>2
<1>3. TrackInv /\ UNCHANGED vars => TrackInv'
  BY DEF vars, portVars, isolatorVars, TrackInv, ReadersTracked, ToInsert, Tracked,
         UnregisterPending, UnregisterFollows
<1>4. IInv /\ TrackInv /\ [Next]_vars => TrackInv'
  BY <1>2, <1>3, ActorTrack, IoTrack DEF Next
<1> QED
  BY <1>1, <1>4, Invariance, PTL DEF Spec

\* A reader never outlives its container's cleanup unnoticed: ReadersTracked
\* for every number of containers, with every fault of the model.
THEOREM ReadersNeverLeak == Spec => []ReadersTracked
  BY TrackInvariance, PTL DEF TrackInv

(***************************************************************************)
(* ToldPortsPersisted and ReaderOnToldPort need the order in which the     *)
(* life of a container, its jobs and its file pass: nothing of a container *)
(* is on disk before it is prepared; its register job waits only while no  *)
(* port was told to it, its unregister job only once it is gone; what a    *)
(* recovery removes is dead, and what it registers anew was told no port.  *)
(***************************************************************************)
FileOf(c) == cache[sanitized_filename[c]]

OnDisk(c) == FileOf(c).kind = "entry"

Live(c) == phase[c] \in {"preparing", "running"}

LifeInv ==
    /\ ~up => ~recovered
    /\ ~recovered => caller = NoContainer
    /\ \A c \in Containers : phase[c] = "preparing" <=> caller = c
    /\ \A c \in Containers : phase[c] = "new" => ~OnDisk(c)
    /\ \A c \in Containers : told[c] # NoPort => phase[c] \in {"running", "orphan"}

JobsInv ==
    \A i \in DOMAIN queue :
        /\ queue[i].op = "register" =>
               /\ phase[queue[i].id] # "new" /\ told[queue[i].id] = NoPort
               /\ \A j \in DOMAIN queue :
                      queue[j].op = "register" /\ queue[j].id = queue[i].id => i = j
        /\ queue[i].op = "unregister" => phase[queue[i].id] = "gone"
        /\ queue[i].op = "recover" =>
               /\ \A c \in Containers : Live(c) /\ OnDisk(c) => c \in queue[i].states
               /\ \A c \in queue[i].states : phase[c] \in {"running", "gone"}

RecoveryInv ==
    /\ \A c \in recovery.remove : phase[c] \in {"orphan", "gone"}
    /\ \A c \in recovery.register : phase[c] \in {"running", "gone"}
    /\ ~DiskFaults =>
           /\ \A c \in recovery.register : told[c] = NoPort
           /\ \A c \in ToInsert :
                  phase[c] = "running" /\ told[c] # NoPort => recovery.insert[c] = told[c]

ToldInv ==
    /\ IInv /\ LifeInv /\ JobsInv /\ RecoveryInv
    /\ ToldPortsPersisted /\ ReaderOnToldPort

\* No container is called NoContainer, and file names are distinct.
LEMMA Names ==
  /\ \A c \in Containers : c # NoContainer /\ sanitized_filename[c] \in FileNames
  /\ \A c, d \in Containers : c # d => sanitized_filename[c] # sanitized_filename[d]
  BY PortsAssumption, AssignerAssumption DEF NoContainer, FileNames

\* A write or a removal touches one container's file only.
LEMMA CacheFrame ==
  ASSUME cache \in [FileNames -> File], NEW c \in Containers,
         \/ \E p : add_container(c, p)
         \/ remove_container(c)
         \/ cache' = [cache EXCEPT ![sanitized_filename[c]] = TornFile]
  PROVE  \A d \in Containers \ {c} : FileOf(d)' = FileOf(d)
  BY Names DEF add_container, remove_container, FileOf

\* A write leaves the entry on disk if the disk has no faults.
LEMMA AddOnDisk ==
  ASSUME cache \in [FileNames -> File], NEW c \in Containers, NEW p, add_container(c, p),
         ~DiskFaults
  PROVE  FileOf(c)' = Entry(c, p)
  BY Names DEF add_container, FileOf

\* A removal leaves no entry behind if the disk has no faults, and never a new one.
LEMMA RemoveOnDisk ==
  ASSUME cache \in [FileNames -> File], NEW c \in Containers, remove_container(c)
  PROVE  /\ FileOf(c)' \in {NoFile, FileOf(c)}
         /\ ~DiskFaults => FileOf(c)' = NoFile
  BY Names DEF remove_container, FileOf

\* A file that is not there, or torn, is not an entry.
LEMMA NotEntries ==
  ASSUME NEW c, NEW p
  PROVE  /\ NoFile.kind # "entry" /\ TornFile.kind # "entry"
         /\ Entry(c, p).kind = "entry" /\ Entry(c, p).port = p
  BY DEF NoFile, TornFile, Entry

(***************************************************************************)
(* The isolator's steps.                                                   *)
(***************************************************************************)
\* recover(): what the agent does not name is an orphan, told ports stay with the rest.
LEMMA RecoverTold ==
  ASSUME ToldInv, NEW states \in SUBSET Containers, Recover(states)
  PROVE  ToldInv'
<1>0. IInv'
  BY ActorStepIInv DEF ToldInv, ActorStep
<1>1. UNCHANGED <<config, reader, cache, recovery, up, caller, told>>
  BY DEF Recover, portVars, processVars
<1>2. /\ ~recovered /\ caller = NoContainer /\ recovered'
      /\ states \subseteq {c \in Containers : phase[c] = "running"}
      /\ phase' = [c \in Containers |->
                     IF phase[c] = "running" /\ c \notin states THEN "orphan" ELSE phase[c]]
  BY DEF Recover, ActorIdle
<1>3. queue = <<>> /\ recovery = NoRecovery
  BY <1>2 DEF ToldInv, IInv, RecoverComesFirst
<1>4. \A i \in DOMAIN queue' : queue'[i] = [op |-> "recover", states |-> states]
  BY <1>3 DEF Recover, Dispatch
<1>5. \A c \in Containers : FileOf(c)' = FileOf(c)
  BY <1>1 DEF FileOf
<1>6. up
  BY DEF Recover, ActorIdle
<1>7. LifeInv'
  <2>1. \A c \in Containers : phase'[c] = "preparing" <=> phase[c] = "preparing"
    BY <1>2
  <2>2. \A c \in Containers : phase'[c] = "new" <=> phase[c] = "new"
    BY <1>2
  <2>3. \A c \in Containers : phase[c] \in {"running", "orphan"} => phase'[c] \in {"running", "orphan"}
    BY <1>2
  <2> QED
    BY <1>1, <1>2, <1>5, <1>6, <2>1, <2>2, <2>3 DEF ToldInv, LifeInv, OnDisk
<1>8. JobsInv'
  <2>1. \A c \in Containers : Live(c)' => c \in states
    BY <1>2, Names DEF Live, ToldInv, LifeInv
  <2>2. \A c \in states : phase'[c] = "running"
    BY <1>2
  <2> QED
    BY <1>4, <2>1, <2>2 DEF JobsInv
<1>9. RecoveryInv' /\ ToInsert' = {}
  BY <1>1, <1>3 DEF RecoveryInv, NoRecovery, ToInsert, NoReaders
<1>10. \A c \in Containers : phase'[c] = "running" => phase[c] = "running"
  BY <1>2
<1>11. ToldPortsPersisted' /\ ReaderOnToldPort'
  BY <1>1, <1>10 DEF ToldInv, ToldPortsPersisted, ReaderOnToldPort
<1> QED
  BY <1>0, <1>7, <1>8, <1>9, <1>11 DEF ToldInv

\* prepare(): a register job is queued for a container that was told no port.
LEMMA PrepareTold ==
  ASSUME ToldInv, NEW c \in Containers, Prepare(c) \/ PrepareDebug(c)
  PROVE  ToldInv'
<1>0. IInv'
  BY ActorStepIInv DEF ToldInv, ActorStep
<1>1. UNCHANGED <<config, reader, cache, recovery, up, told, recovered>>
  BY DEF Prepare, PrepareDebug, portVars, processVars
<1>2. phase[c] = "new" /\ told[c] = NoPort /\ ~OnDisk(c) /\ recovered /\ up /\ caller = NoContainer
  BY DEF Prepare, PrepareDebug, ActorIdle, ToldInv, LifeInv
<1>3. \A d \in Containers \ {c} : phase'[d] = phase[d]
  BY DEF Prepare, PrepareDebug, ToldInv, IInv, TypeOK
<1>4. \/ phase'[c] = "running" /\ caller' = caller
      \/ phase'[c] = "preparing" /\ caller' = c
  BY DEF Prepare, PrepareDebug, ToldInv, IInv, TypeOK
<1>5. LifeInv'
  BY <1>1, <1>2, <1>3, <1>4, Names DEF ToldInv, LifeInv, OnDisk, FileOf
<1>6. JobsInv'
  <2>1. \A i \in DOMAIN queue :
            /\ queue[i] \in Job
            /\ queue[i].op \in {"register", "unregister"} => queue[i].id \in Containers \ {c}
            /\ queue[i].op = "recover" => queue[i].states \subseteq Containers \ {c}
    <3>1. \A i \in DOMAIN queue : queue[i] \in Job
      BY DEF ToldInv, IInv, TypeOK
    <3> QED
      BY <1>2, <3>1 DEF ToldInv, JobsInv, Job
  <2>2. \A d \in Containers : Live(d)' /\ OnDisk(d)' => Live(d) /\ OnDisk(d)
    BY <1>1, <1>2, <1>3 DEF Live, OnDisk, FileOf
  <2>3. ASSUME NEW i \in DOMAIN queue
        PROVE  /\ queue[i].op = "register" => phase'[queue[i].id] # "new" /\ told'[queue[i].id] = NoPort
               /\ queue[i].op = "unregister" => phase'[queue[i].id] = "gone"
               /\ queue[i].op = "recover" =>
                      /\ \A d \in Containers : Live(d)' /\ OnDisk(d)' => d \in queue[i].states
                      /\ \A d \in queue[i].states : phase'[d] \in {"running", "gone"}
    BY <1>1, <1>3, <2>1, <2>2 DEF ToldInv, JobsInv
  <2>4. CASE PrepareDebug(c)
    <3>1. queue' = queue
      BY <2>4 DEF PrepareDebug
    <3> QED
      BY <2>3, <3>1 DEF JobsInv, ToldInv
  <2>5. CASE Prepare(c)
    <3> DEFINE job == [op |-> "register", id |-> c]
    <3>1. Dispatch(job) /\ job \in Job /\ IInv
      BY <2>5 DEF Prepare, Job, ToldInv
    <3>2. phase'[c] # "new" /\ told'[c] = NoPort
      BY <1>1, <1>2, <1>4
    <3> QED
      BY <2>1, <2>3, <3>1, <3>2, PushQueue DEF JobsInv, ToldInv
  <2> QED
    BY <2>4, <2>5
<1>7. RecoveryInv'
  <2>1. c \notin recovery.remove /\ c \notin recovery.register
    BY <1>2 DEF ToldInv, RecoveryInv
  <2>2. recovery.remove \subseteq Containers /\ recovery.register \subseteq Containers
    BY DEF ToldInv, IInv, TypeOK
  <2> QED
    BY <1>1, <1>2, <1>3, <2>1, <2>2 DEF ToldInv, RecoveryInv, ToInsert
<1>8. ToldPortsPersisted' /\ ReaderOnToldPort'
  BY <1>1, <1>2, <1>3 DEF ToldInv, ToldPortsPersisted, ReaderOnToldPort
<1> QED
  BY <1>0, <1>5, <1>6, <1>7, <1>8 DEF ToldInv

\* A prepare() that timed out tells no port, and its job is still waiting.
LEMMA TimeoutTold ==
  ASSUME ToldInv, PrepareTimeout
  PROVE  ToldInv'
<1>0. IInv'
  BY ActorStepIInv DEF ToldInv, ActorStep
<1>1. UNCHANGED <<config, reader, cache, recovery, up, told, recovered, queue>>
  BY DEF PrepareTimeout, portVars, processVars
<1>2. /\ caller \in Containers /\ phase[caller] = "preparing" /\ told[caller] = NoPort
      /\ caller' = NoContainer /\ phase' = [phase EXCEPT ![caller] = "running"]
  BY DEF PrepareTimeout, ToldInv, LifeInv, IInv, TypeOK
<1>3. phase'[caller] = "running" /\ \A d \in Containers \ {caller} : phase'[d] = phase[d]
  BY <1>2 DEF ToldInv, IInv, TypeOK
<1>4. LifeInv'
  BY <1>1, <1>2, <1>3, Names DEF ToldInv, LifeInv, OnDisk, FileOf
<1>5. JobsInv'
  <2>1. \A i \in DOMAIN queue : queue[i] \in Job
    BY DEF ToldInv, IInv, TypeOK
  <2>2. \A d \in Containers : Live(d)' /\ OnDisk(d)' => Live(d) /\ OnDisk(d)
    BY <1>1, <1>2, <1>3 DEF Live, OnDisk, FileOf
  <2> QED
    BY <1>1, <1>2, <1>3, <2>1, <2>2 DEF ToldInv, JobsInv, Job
<1>6. RecoveryInv'
  <2>1. recovery.remove \subseteq Containers /\ recovery.register \subseteq Containers
    BY DEF ToldInv, IInv, TypeOK
  <2> QED
    BY <1>1, <1>2, <1>3, <2>1 DEF ToldInv, RecoveryInv, ToInsert
<1>7. ToldPortsPersisted' /\ ReaderOnToldPort'
  BY <1>1, <1>2, <1>3 DEF ToldInv, ToldPortsPersisted, ReaderOnToldPort
<1> QED
  BY <1>0, <1>4, <1>5, <1>6, <1>7 DEF ToldInv

\* cleanup(): the container is gone before its unregister job is queued.
LEMMA CleanupTold ==
  ASSUME ToldInv, NEW c \in Containers, Cleanup(c)
  PROVE  ToldInv'
<1>0. IInv'
  BY ActorStepIInv DEF ToldInv, ActorStep
<1>1. UNCHANGED <<config, reader, cache, recovery, up, recovered, caller>>
  BY DEF Cleanup, portVars, processVars
<1>2. /\ phase[c] \in {"running", "orphan"} /\ phase'[c] = "gone" /\ told'[c] = NoPort
      /\ \A d \in Containers \ {c} : phase'[d] = phase[d] /\ told'[d] = told[d]
      /\ up /\ recovered
  BY DEF Cleanup, ToldInv, IInv, TypeOK, ActorIdle
<1>3. LifeInv'
  BY <1>1, <1>2 DEF ToldInv, LifeInv, OnDisk, FileOf
<1>4. JobsInv'
  <2>1. \A i \in DOMAIN queue : queue[i] \in Job
    BY DEF ToldInv, IInv, TypeOK
  <2>2. \A d \in Containers : Live(d)' /\ OnDisk(d)' => Live(d) /\ OnDisk(d)
    BY <1>1, <1>2 DEF Live, OnDisk, FileOf
  <2>3. ASSUME NEW i \in DOMAIN queue
        PROVE  /\ queue[i].op = "register" => phase'[queue[i].id] # "new" /\ told'[queue[i].id] = NoPort
               /\ queue[i].op = "unregister" => phase'[queue[i].id] = "gone"
               /\ queue[i].op = "recover" =>
                      /\ \A d \in Containers : Live(d)' /\ OnDisk(d)' => d \in queue[i].states
                      /\ \A d \in queue[i].states : phase'[d] \in {"running", "gone"}
    BY <1>2, <2>1, <2>2 DEF ToldInv, JobsInv, Job
  <2>4. CASE c \notin registered
    <3>1. queue' = queue
      BY <2>4 DEF Cleanup, NeedsUnregister
    <3> QED
      BY <2>3, <3>1 DEF ToldInv, JobsInv
  <2>5. CASE c \in registered
    <3> DEFINE job == [op |-> "unregister", id |-> c]
    <3>1. Dispatch(job) /\ job \in Job /\ IInv
      BY <2>5 DEF Cleanup, NeedsUnregister, Job, ToldInv
    <3> QED
      BY <1>2, <2>3, <3>1, PushQueue DEF JobsInv, ToldInv
  <2> QED
    BY <2>4, <2>5
<1>5. RecoveryInv'
  <2>1. recovery.remove \subseteq Containers /\ recovery.register \subseteq Containers
    BY DEF ToldInv, IInv, TypeOK
  <2> QED
    BY <1>1, <1>2, <2>1 DEF ToldInv, RecoveryInv, ToInsert
<1>6. ToldPortsPersisted' /\ ReaderOnToldPort'
  BY <1>1, <1>2 DEF ToldInv, ToldPortsPersisted, ReaderOnToldPort
<1> QED
  BY <1>0, <1>3, <1>4, <1>5, <1>6 DEF ToldInv

(***************************************************************************)
(* The jobs.                                                               *)
(***************************************************************************)

\* What register_and_update_cache does to readers and files.
LEMMA RegisterEffect ==
  ASSUME IInv, NEW c \in Containers, NEW result \in Ports \cup {NoPort},
         register_and_update_cache(c, result)
  PROVE  /\ config' = config
         /\ \A d \in Containers \ {c} : reader'[d] = reader[d] /\ FileOf(d)' = FileOf(d)
         /\ config.mode # "single" => reader'[c] = result
         /\ ~DiskFaults /\ result # NoPort => FileOf(c)' = Entry(c, result)
         /\ result = NoPort => FileOf(c)' = FileOf(c)
<1>1. PortsTypeOK /\ cache \in [FileNames -> File]
  BY DEF IInv, TypeOK
<1>2. CASE result = NoPort
  BY <1>1, <1>2, RegisterReaders DEF register_and_update_cache, FileOf
<1>3. CASE result # NoPort
  <2>1. StrategyRegister(c, result) /\ add_container(c, result)
    BY <1>3 DEF register_and_update_cache
  <2>2. \A d \in Containers \ {c} : FileOf(d)' = FileOf(d)
    BY <1>1, <2>1, CacheFrame
  <2> QED
    BY <1>1, <1>3, <2>1, <2>2, RegisterReaders, AddOnDisk
<1> QED
  BY <1>2, <1>3

\* What unregister_and_update_cache does to readers and files.
LEMMA UnregisterEffect ==
  ASSUME IInv, NEW c \in Containers, unregister_and_update_cache(c)
  PROVE  /\ config' = config /\ reader'[c] = NoPort
         /\ \A d \in Containers \ {c} : reader'[d] = reader[d] /\ FileOf(d)' = FileOf(d)
         /\ OnDisk(c)' => OnDisk(c) /\ FileOf(c)' = FileOf(c)
         /\ ~DiskFaults => ~OnDisk(c)'
<1>1. PortsTypeOK /\ cache \in [FileNames -> File]
  BY DEF IInv, TypeOK
<1>2. StrategyUnregister(c) /\ remove_container(c)
  BY DEF unregister_and_update_cache
<1>3. \A d \in Containers \ {c} : FileOf(d)' = FileOf(d)
  BY <1>1, <1>2, CacheFrame
<1>4. NoFile.kind # "entry"
  BY NotEntries
<1>5. FileOf(c)' \in {NoFile, FileOf(c)} /\ (~DiskFaults => FileOf(c)' = NoFile)
  BY <1>1, <1>2, RemoveOnDisk
<1> QED
  BY <1>1, <1>2, <1>3, <1>4, <1>5, UnregisterReaders DEF OnDisk

\* The register job writes the port to disk before it is told.
LEMMA RunRegisterTold ==
  ASSUME ToldInv, RunRegister
  PROVE  ToldInv'
<1>0. IInv /\ IInv'
  BY IoStepIInv DEF ToldInv, IoStep
<1>1. NextJob("register") /\ UNCHANGED <<up, recovered, recovery>>
  BY DEF RunRegister, processVars
<1>2. PICK c \in Containers : c = Head(queue).id /\ Head(queue).op = "register"
  BY <1>0, <1>1, NextJobQueue DEF Job
<1>3. PICK result \in Ports \cup {NoPort} :
        /\ register_and_update_cache(c, result)
        /\ IF caller = c
           THEN /\ caller' = NoContainer
                /\ phase' = [phase EXCEPT ![c] = "running"]
                /\ told' = [told EXCEPT ![c] = result]
           ELSE UNCHANGED <<caller, phase, told>>
  BY <1>2 DEF RunRegister, Answers
<1>4. /\ phase[c] # "new" /\ told[c] = NoPort
      /\ \A i \in DOMAIN queue : queue[i].op = "register" /\ queue[i].id = c => i = 1
  BY <1>0, <1>1, <1>2, PopQueue DEF ToldInv, JobsInv
<1>5. /\ \A d \in Containers \ {c} : phase'[d] = phase[d] /\ told'[d] = told[d]
      /\ \/ caller = c /\ caller' = NoContainer /\ phase'[c] = "running" /\ told'[c] = result
         \/ caller # c /\ caller' = caller /\ phase'[c] = phase[c] /\ told'[c] = NoPort
  BY <1>0, <1>2, <1>3, <1>4 DEF IInv, TypeOK
<1>6. /\ config' = config
      /\ \A d \in Containers \ {c} : reader'[d] = reader[d] /\ FileOf(d)' = FileOf(d)
      /\ config.mode # "single" => reader'[c] = result
      /\ ~DiskFaults /\ result # NoPort => FileOf(c)' = Entry(c, result)
  BY <1>0, <1>2, <1>3, RegisterEffect
<1>7. LifeInv'
  BY <1>1, <1>2, <1>4, <1>5, <1>6, Names DEF ToldInv, LifeInv, OnDisk
<1>8. JobsInv'
  <2>1. \A i \in DOMAIN queue' : queue'[i].op # "recover"
    BY <1>0, <1>1, NextJobQueue DEF IInv, TypeOK
  <2>2. ASSUME NEW i \in DOMAIN queue', queue'[i].op = "register"
        PROVE  /\ phase'[queue'[i].id] # "new" /\ told'[queue'[i].id] = NoPort
               /\ \A j \in DOMAIN queue' :
                      queue'[j].op = "register" /\ queue'[j].id = queue'[i].id => i = j
    <3>1. /\ i + 1 \in DOMAIN queue /\ queue'[i] = queue[i + 1] /\ i \in Nat
          /\ queue'[i].id \in Containers /\ i + 1 # 1
          /\ \A j \in DOMAIN queue' : j + 1 \in DOMAIN queue /\ queue'[j] = queue[j + 1] /\ j \in Nat
          /\ \A j \in DOMAIN queue' : (i + 1 = j + 1) => i = j
      BY <1>0, <1>1, <2>2, PopQueue DEF Job, IInv, TypeOK
    <3>2. queue'[i].id # c
      BY <1>4, <2>2, <3>1
    <3> QED
      BY <1>5, <2>2, <3>1, <3>2 DEF ToldInv, JobsInv
  <2>3. ASSUME NEW i \in DOMAIN queue', queue'[i].op = "unregister"
        PROVE  phase'[queue'[i].id] = "gone"
    <3>1. i + 1 \in DOMAIN queue /\ queue'[i] = queue[i + 1] /\ queue'[i].id \in Containers
      BY <1>0, <1>1, <2>3, PopQueue DEF Job
    <3>2. phase[queue'[i].id] = "gone"
      BY <2>3, <3>1 DEF ToldInv, JobsInv
    <3> QED
      BY <1>2, <1>5, <3>1, <3>2 DEF ToldInv, LifeInv
  <2> QED
    BY <2>1, <2>2, <2>3 DEF JobsInv
<1>9. RecoveryInv'
  BY <1>1 DEF NextJob, Recovering, RecoveryInv, ToInsert
<1>10. ToldPortsPersisted' /\ ReaderOnToldPort'
  BY <1>2, <1>5, <1>6 DEF ToldInv, ToldPortsPersisted, ReaderOnToldPort, FileOf
<1> QED
  BY <1>0, <1>7, <1>8, <1>9, <1>10 DEF ToldInv

\* The unregister job removes the file of a container that is gone.
LEMMA RunUnregisterTold ==
  ASSUME ToldInv, RunUnregister
  PROVE  ToldInv'
<1>0. IInv /\ IInv'
  BY IoStepIInv DEF ToldInv, IoStep
<1>1. NextJob("unregister") /\ UNCHANGED <<up, recovered, caller, phase, told, recovery>>
  BY DEF RunUnregister, processVars, isolatorVars
<1> DEFINE c == Head(queue).id
<1>2. c \in Containers /\ Head(queue).op = "unregister"
  BY <1>0, <1>1, NextJobQueue DEF Job
<1>3. phase[c] = "gone"
  BY <1>0, <1>1, <1>2, PopQueue DEF ToldInv, JobsInv
<1>4. unregister_and_update_cache(c)
  BY DEF RunUnregister
<1> HIDE DEF c
<1>5. /\ config' = config /\ reader'[c] = NoPort
      /\ \A d \in Containers \ {c} : reader'[d] = reader[d] /\ FileOf(d)' = FileOf(d)
  BY <1>0, <1>2, <1>4, UnregisterEffect
<1>6. LifeInv'
  BY <1>1, <1>3, <1>5 DEF ToldInv, LifeInv, OnDisk
<1>7. JobsInv'
  <2>1. \A i \in DOMAIN queue' : queue'[i].op # "recover"
    BY <1>0, <1>1, NextJobQueue DEF IInv, TypeOK
  <2>2. \A i \in DOMAIN queue' : i + 1 \in DOMAIN queue /\ queue'[i] = queue[i + 1] /\ i \in Nat
    BY <1>0, <1>1, PopQueue
  <2>3. \A i, j \in DOMAIN queue' : i + 1 = j + 1 => i = j
    BY <2>2
  <2> QED
    BY <1>1, <2>1, <2>2, <2>3 DEF ToldInv, JobsInv
<1>8. RecoveryInv'
  BY <1>1 DEF NextJob, Recovering, RecoveryInv, ToInsert
<1>9. ToldPortsPersisted' /\ ReaderOnToldPort'
  BY <1>1, <1>3, <1>5 DEF ToldInv, ToldPortsPersisted, ReaderOnToldPort, FileOf
<1> QED
  BY <1>0, <1>6, <1>7, <1>8, <1>9 DEF ToldInv

\* The recover job sorts what is on disk by what is alive.
LEMMA RunRecoverTold ==
  ASSUME ToldInv, RunRecover
  PROVE  ToldInv'
<1>0. IInv /\ IInv'
  BY IoStepIInv DEF ToldInv, IoStep
<1>1. NextJob("recover") /\ UNCHANGED <<up, recovered, caller, phase, told, config, reader, cache>>
  BY DEF RunRecover, processVars, isolatorVars, portVars
<1> DEFINE states == Head(queue).states
<1>2. states \subseteq Containers /\ Head(queue).op = "recover"
  BY <1>0, <1>1, NextJobQueue DEF Job
<1>3. /\ \A c \in Containers : Live(c) /\ OnDisk(c) => c \in states
      /\ \A c \in states : phase[c] \in {"running", "gone"}
  BY <1>0, <1>1, <1>2, PopQueue DEF ToldInv, JobsInv
<1>4. PICK disk \in [Containers -> Ports \cup {NoPort}] :
        /\ IsDiskContent(disk)
        /\ recovery' = [insert   |-> [c \in Containers |->
                                         IF c \in states THEN disk[c] ELSE NoPort],
                        remove   |-> {c \in Containers : disk[c] # NoPort} \ states,
                        register |-> states \ {c \in Containers : disk[c] # NoPort}]
  BY DEF RunRecover, OnlyOnDisk
<1> HIDE DEF states
<1>5. /\ recovery'.insert = [c \in Containers |-> IF c \in states THEN disk[c] ELSE NoPort]
      /\ recovery'.remove = {c \in Containers : disk[c] # NoPort} \ states
      /\ recovery'.register = states \ {c \in Containers : disk[c] # NoPort}
  BY <1>4
<1>6. \A c \in Containers : /\ disk[c] # NoPort => OnDisk(c) /\ disk[c] = FileOf(c).port
                            /\ OnDisk(c) /\ ~DiskFaults => disk[c] # NoPort
  <2>1. ASSUME NEW c \in Containers
        PROVE  \/ OnDisk(c) /\ disk[c] = FileOf(c).port
               \/ (~OnDisk(c) \/ DiskFaults) /\ disk[c] = NoPort
    BY <1>4 DEF IsDiskContent, OnDisk, FileOf
  <2>2. ASSUME NEW c \in Containers, OnDisk(c)
        PROVE  FileOf(c).port \in Ports
    <3>1. FileOf(c) \in File
      BY <1>0, Names DEF FileOf, IInv, TypeOK
    <3> QED
      BY <2>2, <3>1, NotEntries DEF OnDisk, File
  <2> QED
    BY <2>1, <2>2, PortsAssumption
<1>7. LifeInv'
  BY <1>1 DEF ToldInv, LifeInv, OnDisk, FileOf
<1>8. JobsInv'
  <2>1. \A i \in DOMAIN queue' : queue'[i].op # "recover"
    BY <1>0, <1>1, NextJobQueue DEF IInv, TypeOK
  <2>2. \A i \in DOMAIN queue' : i + 1 \in DOMAIN queue /\ queue'[i] = queue[i + 1] /\ i \in Nat
    BY <1>0, <1>1, PopQueue
  <2>3. \A i, j \in DOMAIN queue' : i + 1 = j + 1 => i = j
    BY <2>2
  <2> QED
    BY <1>1, <2>1, <2>2, <2>3 DEF ToldInv, JobsInv
<1>9. RecoveryInv'
  <2>1. \A c \in recovery'.remove : phase[c] \in {"orphan", "gone"}
    BY <1>0, <1>3, <1>5, <1>6 DEF Live, ToldInv, LifeInv, IInv, TypeOK
  <2>2. \A c \in recovery'.register : phase[c] \in {"running", "gone"}
    BY <1>3, <1>5
  <2>3. ASSUME ~DiskFaults, NEW c \in Containers, phase[c] = "running", told[c] # NoPort
        PROVE  OnDisk(c) /\ FileOf(c).port = told[c]
    BY <2>3, NotEntries DEF ToldInv, ToldPortsPersisted, OnDisk, FileOf
  <2>4. ASSUME ~DiskFaults, NEW c \in recovery'.register
        PROVE  told[c] = NoPort
    <3>1. c \in states /\ c \in Containers /\ disk[c] = NoPort
      BY <1>2, <1>5
    <3> QED
      BY <1>3, <1>6, <2>3, <2>4, <3>1 DEF ToldInv, LifeInv
  <2>5. ASSUME ~DiskFaults, NEW c \in ToInsert', phase[c] = "running", told[c] # NoPort
        PROVE  recovery'.insert[c] = told[c]
    <3>1. c \in Containers /\ recovery'.insert[c] = disk[c] /\ disk[c] # NoPort
      BY <1>5 DEF ToInsert
    <3> QED
      BY <1>6, <2>3, <2>5, <3>1
  <2> QED
    BY <1>1, <2>1, <2>2, <2>4, <2>5 DEF RecoveryInv
<1>10. ToldPortsPersisted' /\ ReaderOnToldPort'
  BY <1>1 DEF ToldInv, ToldPortsPersisted, ReaderOnToldPort
<1> QED
  BY <1>0, <1>7, <1>8, <1>9, <1>10 DEF ToldInv

\* A recovered container gets the reader on the port it was told.
LEMMA RecoverInsertTold ==
  ASSUME ToldInv, NEW c \in Containers, RecoverInsert(c)
  PROVE  ToldInv'
<1>0. IInv /\ IInv'
  BY IoStepIInv DEF ToldInv, IoStep
<1>1. /\ c \in ToInsert /\ StrategyInsert(c, recovery.insert[c])
      /\ UNCHANGED <<up, recovered, caller, phase, told, queue, cache>>
  BY DEF RecoverInsert, processVars, isolatorVars, First
<1>2. /\ recovery' = [recovery EXCEPT !.insert = [recovery.insert EXCEPT ![c] = NoPort]]
  BY DEF RecoverInsert
<1>3. /\ recovery'.remove = recovery.remove /\ recovery'.register = recovery.register
      /\ \A d \in ToInsert' : d \in ToInsert /\ recovery'.insert[d] = recovery.insert[d]
  BY <1>0, <1>2 DEF ToInsert, IInv, TypeOK
<1>4. reader[c] = NoPort /\ PortsTypeOK
  BY <1>0, <1>1 DEF IInv, RecoveryOnFreshState, PortsInv
<1>5. /\ config' = config
      /\ \A d \in Containers \ {c} : reader'[d] = reader[d]
      /\ config.mode # "single" => reader'[c] = recovery.insert[c] \/ reader'[c] = NoPort
  BY <1>1, <1>4, InsertReaders
<1>6. LifeInv' /\ JobsInv' /\ ToldPortsPersisted'
  BY <1>1 DEF ToldInv, LifeInv, JobsInv, ToldPortsPersisted, OnDisk, FileOf, Live
<1>7. RecoveryInv'
  BY <1>1, <1>3 DEF ToldInv, RecoveryInv
<1>8. ReaderOnToldPort'
  BY <1>1, <1>5 DEF ToldInv, RecoveryInv, ReaderOnToldPort
<1> QED
  BY <1>0, <1>6, <1>7, <1>8 DEF ToldInv

\* The file of a dead container is removed.
LEMMA RecoverRemoveTold ==
  ASSUME ToldInv, NEW c \in Containers, RecoverRemove(c)
  PROVE  ToldInv'
<1>0. IInv /\ IInv'
  BY IoStepIInv DEF ToldInv, IoStep
<1>1. /\ c \in recovery.remove /\ unregister_and_update_cache(c)
      /\ UNCHANGED <<up, recovered, caller, phase, told, queue>>
  BY DEF RecoverRemove, processVars, isolatorVars, First
<1>2. /\ recovery'.insert = recovery.insert /\ recovery'.register = recovery.register
      /\ recovery'.remove \subseteq recovery.remove
  BY <1>0 DEF RecoverRemove, IInv, TypeOK
<1>3. phase[c] \in {"orphan", "gone"}
  BY <1>1 DEF ToldInv, RecoveryInv
<1>4. /\ config' = config /\ reader'[c] = NoPort
      /\ \A d \in Containers \ {c} : reader'[d] = reader[d] /\ FileOf(d)' = FileOf(d)
  BY <1>0, <1>1, UnregisterEffect
<1>5. LifeInv'
  BY <1>1, <1>3, <1>4 DEF ToldInv, LifeInv, OnDisk
<1>6. JobsInv'
  <2>1. \A d \in Containers : Live(d)' /\ OnDisk(d)' => Live(d) /\ OnDisk(d)
    BY <1>1, <1>3, <1>4 DEF Live, OnDisk
  <2> QED
    BY <1>1, <2>1 DEF ToldInv, JobsInv
<1>7. RecoveryInv'
  BY <1>1, <1>2 DEF ToldInv, RecoveryInv, ToInsert
<1>8. ToldPortsPersisted' /\ ReaderOnToldPort'
  BY <1>1, <1>3, <1>4 DEF ToldInv, ToldPortsPersisted, ReaderOnToldPort, FileOf
<1> QED
  BY <1>0, <1>5, <1>6, <1>7, <1>8 DEF ToldInv

\* A container without a file is registered anew, and was told no port before.
LEMMA RecoverRegisterTold ==
  ASSUME ToldInv, NEW c \in Containers, RecoverRegister(c)
  PROVE  ToldInv'
<1>0. IInv /\ IInv'
  BY IoStepIInv DEF ToldInv, IoStep
<1>1. /\ c \in recovery.register
      /\ UNCHANGED <<up, recovered, caller, phase, told, queue>>
  BY DEF RecoverRegister, processVars, isolatorVars, First
<1>2. /\ recovery'.insert = recovery.insert /\ recovery'.remove = recovery.remove
      /\ recovery'.register \subseteq recovery.register
  BY <1>0 DEF RecoverRegister, IInv, TypeOK
<1>3. phase[c] \in {"running", "gone"} /\ (~DiskFaults => told[c] = NoPort)
  BY <1>1 DEF ToldInv, RecoveryInv
<1>4. /\ config' = config
      /\ \A d \in Containers \ {c} : reader'[d] = reader[d] /\ FileOf(d)' = FileOf(d)
  BY <1>0, RegisterEffect DEF RecoverRegister
<1>5. LifeInv'
  BY <1>1, <1>3, <1>4 DEF ToldInv, LifeInv, OnDisk
<1>6. JobsInv'
  <2>1. \A i \in DOMAIN queue : queue[i].op # "recover"
    BY <1>0, <1>1 DEF IInv, RecoverComesFirst, NoRecovery, TypeOK
  <2> QED
    BY <1>1, <2>1 DEF ToldInv, JobsInv
<1>7. RecoveryInv'
  BY <1>1, <1>2 DEF ToldInv, RecoveryInv, ToInsert
<1>8. ToldPortsPersisted' /\ ReaderOnToldPort'
  BY <1>1, <1>3, <1>4 DEF ToldInv, ToldPortsPersisted, ReaderOnToldPort, FileOf
<1> QED
  BY <1>0, <1>5, <1>6, <1>7, <1>8 DEF ToldInv

(***************************************************************************)
(* Death and restart.                                                      *)
(***************************************************************************)

\* Dying in the middle of a write tears the file of a container that was told
\* no port, or of one that no longer runs.
LEMMA CrashTold ==
  ASSUME ToldInv, Crash
  PROVE  ToldInv'
<1>0. IInv /\ IInv'
  BY ProcessStepIInv DEF ToldInv
<1>1. /\ ~up' /\ ~recovered' /\ caller' = NoContainer /\ queue' = <<>> /\ told' = told
      /\ recovery' = NoRecovery /\ reader' = NoReaders
      /\ phase' = [c \in Containers |->
                     IF phase[c] = "preparing" THEN "gone" ELSE phase[c]]
  BY DEF Crash, PortsRestart
<1>2. \A c \in Containers : OnDisk(c)' => OnDisk(c)
  <2>1. TornFile.kind # "entry"
    BY NotEntries
  <2>2. ASSUME NEW c \in Containers,
               cache' = [cache EXCEPT ![sanitized_filename[c]] = TornFile]
        PROVE  FileOf(c)' = TornFile /\ \A d \in Containers \ {c} : FileOf(d)' = FileOf(d)
    BY <1>0, <2>2, Names DEF FileOf, IInv, TypeOK
  <2> QED
    BY <2>1, <2>2 DEF Crash, OnDisk, FileOf
<1>3. /\ \A c \in Containers : phase'[c] # "preparing"
      /\ \A c \in Containers : phase'[c] = "new" => phase[c] = "new"
      /\ \A c \in Containers : phase[c] \in {"running", "orphan"} => phase'[c] = phase[c]
      /\ \A c \in Containers : phase'[c] = "running" => phase[c] = "running"
  BY <1>1
<1>4. LifeInv'
  BY <1>1, <1>2, <1>3, Names DEF ToldInv, LifeInv
<1>5. JobsInv' /\ RecoveryInv' /\ ReaderOnToldPort'
  BY <1>1 DEF JobsInv, RecoveryInv, ReaderOnToldPort, NoRecovery, ToInsert, NoReaders
<1>6. ToldPortsPersisted'
  <2>1. ASSUME NEW c \in Containers, Writing(c), ~DiskFaults
        PROVE  told[c] = NoPort
    <3>1. CASE queue # <<>> /\ Head(queue) = [op |-> "register", id |-> c]
      <4>1. 1 \in DOMAIN queue /\ queue[1] = Head(queue)
        BY <1>0, <3>1 DEF IInv, TypeOK
      <4> QED
        BY <3>1, <4>1 DEF ToldInv, JobsInv
    <3>2. CASE c \in recovery.register
      BY <2>1, <3>2 DEF ToldInv, RecoveryInv
    <3> QED
      BY <2>1, <3>1, <3>2 DEF Writing, First
  <2>2. ASSUME ~DiskFaults, NEW c \in Containers, phase[c] = "running", told[c] # NoPort
        PROVE  FileOf(c)' = FileOf(c)
    BY <1>0, <2>1, <2>2, Names DEF Crash, FileOf, IInv, TypeOK
  <2> QED
    BY <1>1, <1>3, <2>2 DEF ToldInv, ToldPortsPersisted, FileOf
<1> QED
  BY <1>0, <1>4, <1>5, <1>6 DEF ToldInv

\* A restart loses the readers and the jobs, and keeps the files.
LEMMA RestartTold ==
  ASSUME ToldInv, Restart
  PROVE  ToldInv'
<1>0. IInv /\ IInv'
  BY ProcessStepIInv DEF ToldInv
<1>1. /\ ~up /\ reader' = NoReaders
      /\ UNCHANGED <<recovered, caller, phase, told, queue, recovery, cache>>
  BY DEF Restart, PortsRestart, isolatorVars
<1>2. LifeInv'
  BY <1>1 DEF ToldInv, LifeInv, OnDisk, FileOf
<1>3. JobsInv' /\ RecoveryInv' /\ ToldPortsPersisted'
  BY <1>1 DEF ToldInv, JobsInv, RecoveryInv, ToldPortsPersisted, ToInsert, Live, OnDisk, FileOf
<1>4. ReaderOnToldPort'
  BY <1>1 DEF ReaderOnToldPort, NoReaders
<1> QED
  BY <1>0, <1>2, <1>3, <1>4 DEF ToldInv

\* ToldInv holds in every reachable state.
LEMMA ToldInvariance == Spec => []ToldInv
<1>1. Init => ToldInv
  <2> SUFFICES ASSUME Init PROVE ToldInv
    OBVIOUS
  <2>1. IInv
    BY InitIInv
  <2>2. \A c \in Containers : ~OnDisk(c)
    BY Names, NotEntries DEF Init, OnDisk, FileOf
  <2>3. LifeInv
    BY <2>2, Names DEF Init, LifeInv, NoReaders
  <2> QED
    BY <2>1, <2>3 DEF Init, PortsStart, ToldInv, JobsInv, RecoveryInv, NoRecovery, ToInsert,
           NoReaders, ToldPortsPersisted, ReaderOnToldPort
<1>2. ToldInv /\ UNCHANGED vars => ToldInv'
  <2> SUFFICES ASSUME ToldInv, UNCHANGED vars PROVE ToldInv'
    OBVIOUS
  <2>1. IInv'
    BY StutterIInv DEF ToldInv
  <2> QED
    BY <2>1 DEF vars, portVars, isolatorVars, processVars, ToldInv, LifeInv, JobsInv, RecoveryInv,
           ToInsert, ToldPortsPersisted, ReaderOnToldPort, OnDisk, FileOf, Live
<1>3. ToldInv /\ [Next]_vars => ToldInv'
  BY <1>2, RecoverTold, PrepareTold, TimeoutTold, CleanupTold, RunRegisterTold,
     RunUnregisterTold, RunRecoverTold, RecoverInsertTold, RecoverRemoveTold,
     RecoverRegisterTold, CrashTold, RestartTold DEF Next, IoStep, ActorStep
<1> QED
  BY <1>1, <1>3, PTL DEF Spec

\* The port a running container was launched with is on disk as long as it
\* runs, on a disk without faults, through any number of restarts.
THEOREM ToldPortsSurvive == Spec => []ToldPortsPersisted
  BY ToldInvariance, PTL DEF ToldInv

\* A restarted agent never listens for a container on another port than the
\* one the container was launched with (ephemeral and range mode).
THEOREM RecoveredReadersAgree == Spec => []ReaderOnToldPort
  BY ToldInvariance, PTL DEF ToldInv

(***************************************************************************)
(* EachIsGivenADifferentPort holds when nothing outside the agent takes a  *)
(* port away and the disk works, in the modes that give each container a   *)
(* reader.  Under these conditions the entries on disk of the containers   *)
(* that live name different ports, because each such entry's port is held  *)
(* by a reader when a new port is chosen, or is outside the range that the *)
(* agent now chooses from; a recovery opens every reader on a free port.   *)
(***************************************************************************)
Undisturbed ==
    /\ ~OpenMayFail /\ ~DiskFaults
    /\ \A cfg \in Configs : cfg.mode # "single"

EntriesDiffer(S) ==
    \A c, d \in S : c # d /\ OnDisk(c) /\ OnDisk(d) => FileOf(c).port # FileOf(d).port

Placed(c) ==
    \/ reader[c] = FileOf(c).port
    \/ config.mode = "range" /\ FileOf(c).port \notin PoolRange

PlaceInv ==
    /\ EntriesDiffer({c \in Containers : Live(c)})
    /\ \A i \in DOMAIN queue : queue[i].op = "recover" => EntriesDiffer(queue[i].states)
    /\ \A c \in ToInsert :
           /\ recovery.insert[c] \notin BoundPorts
           /\ \A d \in ToInsert : c # d => recovery.insert[c] # recovery.insert[d]
           /\ OnDisk(c) => FileOf(c).port = recovery.insert[c]
    /\ (recovered /\ \A i \in DOMAIN queue : queue[i].op # "recover") =>
           \A c \in Containers \ ToInsert : Live(c) /\ OnDisk(c) => Placed(c)

\* The isolator's steps write no file and open no reader.
LEMMA ActorPlace ==
  ASSUME ToldInv, PlaceInv, ActorStep
  PROVE  PlaceInv'
<1>1. UNCHANGED <<config, reader, cache, recovery>>
  BY DEF ActorStep, Recover, PrepareDebug, Prepare, PrepareTimeout, Cleanup, portVars
<1>2. /\ \A c \in Containers : FileOf(c)' = FileOf(c) /\ (OnDisk(c)' <=> OnDisk(c))
      /\ \A c \in Containers : Placed(c)' <=> Placed(c)
      /\ ToInsert' = ToInsert /\ BoundPorts' = BoundPorts
  BY <1>1 DEF FileOf, OnDisk, Placed, PoolRange, ToInsert, BoundPorts
<1>3. \A c \in Containers : Live(c)' /\ OnDisk(c) => Live(c)
  BY DEF ActorStep, Recover, PrepareDebug, Prepare, PrepareTimeout, Cleanup, Live, ToldInv,
         LifeInv, IInv, TypeOK
<1>4. EntriesDiffer({c \in Containers : Live(c)})'
  BY <1>2, <1>3 DEF PlaceInv, EntriesDiffer
<1>5. (\A c \in ToInsert :
           /\ recovery.insert[c] \notin BoundPorts
           /\ \A d \in ToInsert : c # d => recovery.insert[c] # recovery.insert[d]
           /\ OnDisk(c) => FileOf(c).port = recovery.insert[c])'
  BY <1>1, <1>2 DEF PlaceInv, ToInsert
<1>6. CASE \E states \in SUBSET Containers : Recover(states)
  <2>1. PICK states \in SUBSET Containers : Recover(states)
    BY <1>6
  <2>2. queue = <<>>
    BY <2>1 DEF Recover, ToldInv, IInv, RecoverComesFirst
  <2>3. 1 \in DOMAIN queue' /\ \A i \in DOMAIN queue' : queue'[i] = [op |-> "recover", states |-> states]
    BY <2>1, <2>2 DEF Recover, Dispatch
  <2>4. EntriesDiffer(states)'
    BY <1>2, <2>1 DEF Recover, PlaceInv, EntriesDiffer, Live
  <2> QED
    BY <1>4, <1>5, <2>3, <2>4 DEF PlaceInv
<1>7. CASE ~ \E states \in SUBSET Containers : Recover(states)
  <2>1. recovered' = recovered
    BY <1>7 DEF ActorStep, PrepareDebug, Prepare, PrepareTimeout, Cleanup
  <2>2. \/ queue' = queue
        \/ \E job \in Job : job.op # "recover" /\ Dispatch(job)
    <3>1. \A c \in Containers : /\ [op |-> "register", id |-> c] \in Job
                                /\ [op |-> "unregister", id |-> c] \in Job
      BY DEF Job
    <3> QED
      BY <1>7, <3>1 DEF ActorStep, PrepareDebug, Prepare, PrepareTimeout, Cleanup
  <2>3. /\ \A i \in DOMAIN queue' : queue'[i].op = "recover" => i \in DOMAIN queue /\ queue'[i] = queue[i]
        /\ \A i \in DOMAIN queue : i \in DOMAIN queue' /\ queue'[i] = queue[i]
    BY <2>2, PushQueue DEF ToldInv
  <2>4. \A i \in DOMAIN queue : queue[i].op = "recover" => queue[i].states \subseteq Containers
    BY DEF ToldInv, IInv, TypeOK, Job
  <2>5. \A i \in DOMAIN queue' : queue'[i].op = "recover" => EntriesDiffer(queue[i].states)'
    BY <1>2, <2>3, <2>4 DEF PlaceInv, EntriesDiffer
  <2> QED
    BY <1>2, <1>3, <1>4, <1>5, <2>1, <2>3, <2>5 DEF PlaceInv
<1> QED
  BY <1>6, <1>7

\* A port chosen for c differs from the port of every other entry: that one is
\* held by a reader, or the range does not have it.
LEMMA RegisterPlace ==
  ASSUME Undisturbed, ToldInv, PlaceInv, IInv', NEW c \in Containers,
         NEW result \in Ports \cup {NoPort}, register_and_update_cache(c, result),
         ToInsert = {}, ToInsert' = {}, recovered,
         \A i \in DOMAIN queue' : queue'[i].op # "recover",
         \A i \in DOMAIN queue : queue[i].op # "recover",
         \A d \in Containers : Live(d)' => Live(d)
  PROVE  PlaceInv'
<1>1. IInv /\ PortsInv' /\ config \in Configs /\ config.mode # "single"
  BY DEF ToldInv, IInv, PortsInv, PortsTypeOK, Undisturbed
<1>2. /\ config' = config
      /\ \A d \in Containers \ {c} : reader'[d] = reader[d] /\ FileOf(d)' = FileOf(d)
      /\ reader'[c] = result
      /\ result # NoPort => FileOf(c)' = Entry(c, result)
      /\ result = NoPort => FileOf(c)' = FileOf(c)
  BY <1>1, RegisterEffect DEF Undisturbed
<1>3. \A d \in Containers : Live(d) /\ OnDisk(d) => Placed(d)
  BY DEF PlaceInv
<1>4. ASSUME NEW d \in Containers \ {c}
      PROVE  /\ FileOf(d)' = FileOf(d) /\ (OnDisk(d)' <=> OnDisk(d))
             /\ Placed(d)' <=> Placed(d)
  BY <1>2 DEF OnDisk, Placed, PoolRange
<1>5. CASE result = NoPort
  <2>1. reader[c] = NoPort
    BY <1>1, <1>5 DEF register_and_update_cache, StrategyRegister, EphemeralRegister, RangeRegister,
           EphemeralOpen, IsTaken, RangeOpen, RangeOpenFailed, portVars
  <2>2. \A d \in Containers : /\ FileOf(d)' = FileOf(d) /\ (OnDisk(d)' <=> OnDisk(d))
                              /\ Placed(d)' <=> Placed(d)
    BY <1>2, <1>4, <1>5, <2>1 DEF OnDisk, Placed, PoolRange
  <2> QED
    BY <1>3, <2>2 DEF PlaceInv, EntriesDiffer
<1>6. CASE result # NoPort
  <2>1. FileOf(c)'.port = result /\ OnDisk(c)'
    BY <1>2, <1>6, NotEntries DEF OnDisk
  <2>2. Placed(c)'
    BY <1>2, <2>1 DEF Placed
  <2>3. config.mode = "range" => result \in PoolRange
    BY <1>1, <1>2, <1>6 DEF PortsInv, PoolMatchesReaders, BoundPorts, PoolRange
  <2>4. \A d \in Containers \ {c} : reader[d] # result
    BY <1>1, <1>2, <1>6 DEF PortsInv, OneContainerPerPort
  <2>5. ASSUME NEW d \in Containers \ {c}, Live(d), OnDisk(d)
        PROVE  FileOf(d)'.port # result
    BY <1>2, <1>3, <2>3, <2>4, <2>5 DEF Placed
  <2>6. EntriesDiffer({d \in Containers : Live(d)})'
    BY <1>2, <1>4, <2>1, <2>5 DEF PlaceInv, EntriesDiffer
  <2> QED
    BY <1>3, <1>4, <2>2, <2>6 DEF PlaceInv
<1> QED
  BY <1>5, <1>6

\* An unregistration takes one entry and one reader away.
LEMMA UnregisterPlace ==
  ASSUME Undisturbed, ToldInv, PlaceInv, NEW c \in Containers, unregister_and_update_cache(c),
         ToInsert = {}, ToInsert' = {}, recovered,
         \A i \in DOMAIN queue' : queue'[i].op # "recover",
         \A i \in DOMAIN queue : queue[i].op # "recover",
         phase' = phase
  PROVE  PlaceInv'
<1>1. /\ config' = config /\ ~OnDisk(c)'
      /\ \A d \in Containers \ {c} : reader'[d] = reader[d] /\ FileOf(d)' = FileOf(d)
  BY UnregisterEffect DEF ToldInv, Undisturbed
<1>2. \A d \in Containers \ {c} : /\ FileOf(d)' = FileOf(d) /\ (OnDisk(d)' <=> OnDisk(d))
                                  /\ Placed(d)' <=> Placed(d)
  BY <1>1 DEF OnDisk, Placed, PoolRange
<1>3. EntriesDiffer({d \in Containers : Live(d)})'
  BY <1>1, <1>2 DEF PlaceInv, EntriesDiffer, Live
<1> QED
  BY <1>1, <1>2, <1>3 DEF PlaceInv, Live

\* The jobs.
LEMMA IoPlace ==
  ASSUME Undisturbed, ToldInv, PlaceInv, IoStep
  PROVE  PlaceInv'
<1>0. IInv /\ IInv' /\ PortsInv /\ config \in Configs /\ config.mode # "single"
  BY IoStepIInv DEF ToldInv, IInv, PortsInv, PortsTypeOK, Undisturbed
<1>1. ASSUME NEW op, NextJob(op), op # "recover"
      PROVE  /\ \A i \in DOMAIN queue : queue[i].op # "recover"
             /\ \A i \in DOMAIN queue' : queue'[i].op # "recover"
             /\ recovered /\ ToInsert = {}
             /\ Head(queue) \in Job /\ Head(queue).op = op
  <2>1. /\ \A i \in DOMAIN queue' : queue'[i].op # "recover"
        /\ Head(queue) \in Job /\ Head(queue).op = op /\ recovered /\ ToInsert = {}
    BY <1>0, <1>1, NextJobQueue DEF IInv, TypeOK
  <2>2. \A i \in DOMAIN queue : queue[i].op = "recover" => i = 1
    BY <1>0 DEF IInv, RecoverComesFirst, TypeOK
  <2> QED
    BY <1>0, <1>1, <2>1, <2>2, PopQueue
<1>2. CASE RunRegister
  <2>1. NextJob("register") /\ recovery' = recovery
    BY <1>2 DEF RunRegister
  <2>2. PICK c \in Containers : c = Head(queue).id
    BY <1>1, <2>1 DEF Job
  <2>3. PICK result \in Ports \cup {NoPort} : register_and_update_cache(c, result)
    BY <1>2, <2>2 DEF RunRegister
  <2>4. \A d \in Containers : Live(d)' => Live(d)
    BY <1>2 DEF RunRegister, Answers, Live, ToldInv, LifeInv, IInv, TypeOK
  <2>5. ToInsert = {} /\ ToInsert' = {}
    BY <1>1, <2>1 DEF ToInsert
  <2> QED
    BY <1>0, <1>1, <2>1, <2>3, <2>4, <2>5, RegisterPlace
<1>3. CASE RunUnregister
  <2>1. NextJob("unregister") /\ recovery' = recovery /\ phase' = phase
    BY <1>3 DEF RunUnregister, isolatorVars
  <2>2. PICK c \in Containers : c = Head(queue).id
    BY <1>1, <2>1 DEF Job
  <2>3. unregister_and_update_cache(c)
    BY <1>3, <2>2 DEF RunUnregister
  <2>5. ToInsert = {} /\ ToInsert' = {}
    BY <1>1, <2>1 DEF ToInsert
  <2> QED
    BY <1>1, <2>1, <2>3, <2>5, UnregisterPlace
<1>4. CASE RunRecover
  <2>1. NextJob("recover") /\ UNCHANGED <<config, reader, cache, phase>>
    BY <1>4 DEF RunRecover, portVars, isolatorVars
  <2>2. PICK states \in SUBSET Containers : states = Head(queue).states /\ Head(queue).op = "recover"
    BY <1>0, <2>1, NextJobQueue DEF Job
  <2>3. /\ EntriesDiffer(states) /\ reader = NoReaders
        /\ \A c \in Containers : Live(c) /\ OnDisk(c) => c \in states
    BY <1>0, <2>1, <2>2, PopQueue DEF PlaceInv, ToldInv, JobsInv, IInv, RecoverComesFirst, TypeOK
  <2>4. PICK disk \in [Containers -> Ports \cup {NoPort}] :
          /\ IsDiskContent(disk)
          /\ recovery'.insert = [c \in Containers |-> IF c \in states THEN disk[c] ELSE NoPort]
    BY <1>4, <2>2 DEF RunRecover
  <2>5. /\ \A c \in Containers : disk[c] # NoPort => OnDisk(c) /\ disk[c] = FileOf(c).port
        /\ \A c \in Containers : OnDisk(c) => disk[c] = FileOf(c).port
    BY <2>4 DEF IsDiskContent, OnDisk, FileOf, Undisturbed
  <2>6. \A c \in Containers : OnDisk(c) => FileOf(c).port \in Ports
    <3>1. \A c \in Containers : FileOf(c) \in File
      BY <1>0, Names DEF FileOf, IInv, TypeOK
    <3> QED
      BY <3>1, NotEntries DEF OnDisk, File
  <2>7. BoundPorts' = {}
    BY <2>1, <2>3 DEF BoundPorts, NoReaders
  <2>8. /\ ToInsert' = {c \in states : disk[c] # NoPort}
        /\ \A c \in ToInsert' : recovery'.insert[c] = disk[c]
    BY <2>4 DEF ToInsert
  <2>9. /\ \A c \in Containers : FileOf(c)' = FileOf(c) /\ (OnDisk(c)' <=> OnDisk(c))
        /\ \A c \in Containers : Live(c)' <=> Live(c)
    BY <2>1 DEF FileOf, OnDisk, Live
  <2>10. EntriesDiffer({c \in Containers : Live(c)})'
    BY <2>9 DEF PlaceInv, EntriesDiffer
  <2>11. \A i \in DOMAIN queue' : queue'[i].op # "recover"
    BY <1>0, <2>1, NextJobQueue DEF IInv, TypeOK
  <2>12. ASSUME NEW c \in ToInsert'
         PROVE  /\ recovery'.insert[c] \notin BoundPorts'
                /\ \A d \in ToInsert' : c # d => recovery'.insert[c] # recovery'.insert[d]
                /\ OnDisk(c)' => FileOf(c)'.port = recovery'.insert[c]
    BY <2>3, <2>5, <2>7, <2>8, <2>9 DEF EntriesDiffer
  <2>13. \A c \in Containers : Live(c)' /\ OnDisk(c)' => c \in ToInsert'
    BY <2>3, <2>5, <2>6, <2>8, <2>9, PortsAssumption
  <2> QED
    BY <2>10, <2>11, <2>12, <2>13 DEF PlaceInv
<1>5. ASSUME NEW c \in Containers, RecoverInsert(c)
      PROVE  PlaceInv'
  <2>1. /\ c \in ToInsert /\ StrategyInsert(c, recovery.insert[c])
        /\ UNCHANGED <<phase, queue, cache, recovered>>
    BY <1>5 DEF RecoverInsert, isolatorVars, First
  <2>2. recovery' = [recovery EXCEPT !.insert = [recovery.insert EXCEPT ![c] = NoPort]]
    BY <1>5 DEF RecoverInsert
  <2>3. /\ ToInsert' = ToInsert \ {c}
        /\ \A d \in ToInsert' : recovery'.insert[d] = recovery.insert[d]
    BY <1>0, <2>2 DEF ToInsert, IInv, TypeOK
  <2> DEFINE p == recovery.insert[c]
  <2>4. p \notin BoundPorts
    BY <2>1 DEF PlaceInv
  <2>5. /\ config' = config
        /\ \A d \in Containers \ {c} : reader'[d] = reader[d]
        /\ \/ reader'[c] = p
           \/ reader' = reader /\ config.mode = "range" /\ p \notin PoolRange
    <3>1. CASE config.mode = "ephemeral"
      BY <1>0, <2>1, <2>4, <3>1
         DEF StrategyInsert, EphemeralInsert, EphemeralOpen, OpenFails, Undisturbed, PortsInv, PortsTypeOK
    <3>2. CASE config.mode = "range"
      BY <1>0, <2>1, <2>4, <3>2
         DEF StrategyInsert, RangeInsert, RangeOpen, OpenFails, MayGet, PoolFree, portVars,
             Undisturbed, PortsInv, PortsTypeOK, PoolMatchesReaders
    <3> QED
      BY <1>0, <2>1, <3>1, <3>2 DEF StrategyInsert
  <2>6. \A d \in Containers : /\ FileOf(d)' = FileOf(d) /\ (OnDisk(d)' <=> OnDisk(d))
                              /\ Live(d)' <=> Live(d)
    BY <2>1 DEF FileOf, OnDisk, Live
  <2>7. BoundPorts' \subseteq BoundPorts \cup {p}
    BY <2>5 DEF BoundPorts
  <2>8. EntriesDiffer({d \in Containers : Live(d)})'
    BY <2>6 DEF PlaceInv, EntriesDiffer
  <2>9. \A i \in DOMAIN queue' : queue'[i].op # "recover"
    <3>1. recovery # NoRecovery
      BY <2>1 DEF ToInsert, NoRecovery, NoReaders
    <3> QED
      BY <1>0, <2>1, <3>1 DEF IInv, RecoverComesFirst, TypeOK
  <2>10. ASSUME NEW d \in ToInsert'
         PROVE  /\ recovery'.insert[d] \notin BoundPorts'
                /\ \A e \in ToInsert' : d # e => recovery'.insert[d] # recovery'.insert[e]
                /\ OnDisk(d)' => FileOf(d)'.port = recovery'.insert[d]
    <3>1. d \in ToInsert /\ d \in Containers /\ d # c /\ ToInsert' \subseteq ToInsert
      BY <2>3 DEF ToInsert
    <3> QED
      BY <2>1, <2>3, <2>6, <2>7, <3>1 DEF PlaceInv
  <2>11. ASSUME recovered, NEW d \in Containers \ ToInsert', Live(d)', OnDisk(d)'
         PROVE  Placed(d)'
    <3>1. CASE d = c
      <4>1. FileOf(c)'.port = p
        BY <2>1, <2>6, <2>11, <3>1 DEF PlaceInv
      <4>2. PoolRange' = PoolRange
        BY <2>5 DEF PoolRange
      <4> QED
        BY <2>5, <3>1, <4>1, <4>2 DEF Placed
    <3>2. CASE d # c
      <4>1. d \in Containers \ ToInsert /\ Live(d) /\ OnDisk(d)
        BY <2>3, <2>6, <2>11, <3>2
      <4>2. Placed(d)
        BY <2>1, <2>9, <2>11, <4>1 DEF PlaceInv
      <4> QED
        BY <2>5, <2>6, <3>2, <4>2 DEF Placed, PoolRange
    <3> QED
      BY <3>1, <3>2
  <2> QED
    BY <2>1, <2>8, <2>9, <2>10, <2>11 DEF PlaceInv
<1>6. ASSUME NEW c \in Containers, RecoverRemove(c) \/ RecoverRegister(c)
      PROVE  PlaceInv'
  <2>1. /\ UNCHANGED <<phase, queue>> /\ ToInsert = {} /\ recovery # NoRecovery
        /\ recovery'.insert = recovery.insert
    BY <1>0, <1>6 DEF RecoverRemove, RecoverRegister, isolatorVars, First, NoRecovery, IInv, TypeOK
  <2>2. recovered /\ ToInsert' = {}
    BY <1>0, <2>1 DEF IInv, RecoverComesFirst, ToInsert
  <2>3. \A i \in DOMAIN queue : queue[i].op # "recover"
    BY <1>0, <2>1 DEF IInv, RecoverComesFirst, TypeOK
  <2>4. \A d \in Containers : Live(d)' => Live(d)
    BY <2>1 DEF Live
  <2>5. CASE RecoverRemove(c)
    BY <2>1, <2>2, <2>3, <2>5, UnregisterPlace DEF RecoverRemove
  <2>6. CASE RecoverRegister(c)
    BY <1>0, <2>1, <2>2, <2>3, <2>4, <2>6, RegisterPlace DEF RecoverRegister
  <2> QED
    BY <1>6, <2>5, <2>6
<1> QED
  BY <1>2, <1>3, <1>4, <1>5, <1>6 DEF IoStep

\* A crash forgets readers and jobs; what is torn is no entry.
LEMMA ProcessPlace ==
  ASSUME ToldInv, PlaceInv, Crash \/ Restart
  PROVE  PlaceInv'
<1>1. CASE Crash
  <2>1. ~recovered' /\ queue' = <<>> /\ recovery' = NoRecovery
    BY <1>1 DEF Crash
  <2>2. \A c \in Containers : Live(c)' => Live(c)
    BY <1>1 DEF Crash, Live
  <2>3. \A c \in Containers : OnDisk(c)' => OnDisk(c) /\ FileOf(c)' = FileOf(c)
    <3>1. TornFile.kind # "entry" /\ cache \in [FileNames -> File]
      BY NotEntries DEF ToldInv, IInv, TypeOK
    <3>2. ASSUME NEW c \in Containers,
                 cache' = [cache EXCEPT ![sanitized_filename[c]] = TornFile]
          PROVE  FileOf(c)' = TornFile /\ \A d \in Containers \ {c} : FileOf(d)' = FileOf(d)
      BY <3>1, <3>2, Names DEF FileOf
    <3> QED
      BY <1>1, <3>1, <3>2 DEF Crash, OnDisk, FileOf
  <2>4. EntriesDiffer({c \in Containers : Live(c)})'
    BY <2>2, <2>3 DEF PlaceInv, EntriesDiffer
  <2>5. ToInsert' = {}
    BY <2>1 DEF ToInsert, NoRecovery, NoReaders
  <2> QED
    BY <2>1, <2>4, <2>5 DEF PlaceInv
<1>2. CASE Restart
  <2>1. ~recovered /\ ~recovered' /\ UNCHANGED <<queue, recovery, phase, cache>>
    BY <1>2 DEF Restart, isolatorVars, ToldInv, LifeInv
  <2>2. queue' = <<>> /\ ToInsert' = {}
    BY <2>1 DEF ToldInv, IInv, RecoverComesFirst, ToInsert, NoRecovery, NoReaders
  <2>3. EntriesDiffer({c \in Containers : Live(c)})'
    BY <2>1 DEF PlaceInv, EntriesDiffer, Live, OnDisk, FileOf
  <2> QED
    BY <2>1, <2>2, <2>3 DEF PlaceInv
<1> QED
  BY <1>1, <1>2

\* Two containers that run at the same time were never launched with the same
\* port, whatever crashes, restarts and changes of parameters came between.
THEOREM PortsGivenOnce ==
  ASSUME Undisturbed
  PROVE  Spec => []EachIsGivenADifferentPort
<1>1. Init => PlaceInv
  <2> SUFFICES ASSUME Init PROVE PlaceInv
    OBVIOUS
  <2>1. \A c \in Containers : ~OnDisk(c)
    BY Names, NotEntries DEF Init, OnDisk, FileOf
  <2> QED
    BY <2>1 DEF Init, PlaceInv, EntriesDiffer, NoRecovery, NoReaders, ToInsert
<1>2. PlaceInv /\ UNCHANGED vars => PlaceInv'
  <2> SUFFICES ASSUME PlaceInv, UNCHANGED vars PROVE PlaceInv'
    OBVIOUS
  <2> QED
    BY DEF vars, portVars, isolatorVars, PlaceInv, EntriesDiffer, Placed, PoolRange, ToInsert,
           BoundPorts, OnDisk, FileOf, Live
<1>3. ToldInv /\ PlaceInv /\ [Next]_vars => PlaceInv'
  BY <1>2, ActorPlace, IoPlace, ProcessPlace DEF Next
<1>4. ToldInv /\ PlaceInv => EachIsGivenADifferentPort
  <2> SUFFICES ASSUME ToldInv, PlaceInv, NEW c \in Containers, NEW d \in Containers,
                      c # d, phase[c] = "running", phase[d] = "running", told[c] # NoPort,
                      told[c] = told[d]
               PROVE  FALSE
    BY DEF EachIsGivenADifferentPort
  <2>1. FileOf(c) = Entry(c, told[c]) /\ FileOf(d) = Entry(d, told[d])
    BY DEF ToldInv, ToldPortsPersisted, Undisturbed, FileOf
  <2>2. OnDisk(c) /\ OnDisk(d) /\ FileOf(c).port = FileOf(d).port
    BY <2>1, NotEntries DEF OnDisk
  <2> QED
    BY <2>2 DEF PlaceInv, EntriesDiffer, Live
<1> QED
  BY <1>1, <1>3, <1>4, ToldInvariance, PTL DEF Spec

=============================================================================
