------------------------- MODULE ContainerAssigner --------------------------
(***************************************************************************)
(* The Mesos module's isolator (isolator_module.cpp), its                  *)
(* ContainerAssigner (container_assigner.cpp) and the on-disk state cache  *)
(* (container_state_cache_impl.cpp), over the strategies of ContainerPorts.*)
(*                                                                         *)
(* Three threads of control interleave:                                    *)
(*   - the isolator actor, which serves recover, prepare and cleanup one   *)
(*     at a time and blocks inside prepare until the io thread answers or  *)
(*     five seconds have passed (sync_util::dispatch_get);                 *)
(*   - the io_service thread, which runs the dispatched jobs in order;     *)
(*   - the agent process as a whole, which may die at any point and is     *)
(*     then restarted, with other parameters perhaps.                      *)
(* What a dead agent leaves behind is its state cache and its containers.  *)
(***************************************************************************)
EXTENDS ContainerPorts, Sequences

CONSTANTS
    DebugContainers,     \* nested containers of class DEBUG
    sanitized_filename,  \* container id -> name of its file in the state cache
    DiskFaults,          \* whether file operations may fail
    MaxCrashes           \* bound: agent deaths in a behaviour

\* Mesos container ids hold no slash, so stripping slashes keeps them distinct.
ASSUME AssignerAssumption ==
    /\ DebugContainers \subseteq Containers
    /\ DOMAIN sanitized_filename = Containers
    /\ \A c, d \in Containers :
           sanitized_filename[c] = sanitized_filename[d] => c = d
    /\ DiskFaults \in BOOLEAN
    /\ MaxCrashes \in Nat

NoContainer == 0
NoFile == [kind |-> "none"]
TornFile == [kind |-> "torn"]     \* there, and not parseable
Entry(c, p) == [kind |-> "entry", id |-> c, port |-> p]

FileNames == {sanitized_filename[c] : c \in Containers}

File == {NoFile, TornFile}
            \cup [kind : {"entry"}, id : Containers, port : Ports]

Job == [op : {"recover"}, states : SUBSET Containers]
           \cup [op : {"register", "unregister"}, id : Containers]

NoRecovery == [insert |-> NoReaders, remove |-> {}, register |-> {}]

VARIABLES
    up,           \* the agent process is running
    recovered,    \* IsolatorProcess::recover has been called in this process
    registered,   \* IsolatorProcess::registered
    caller,       \* the container whose prepare is blocked in dispatch_get
    queue,        \* jobs dispatched to the io_service and not started
    recovery,     \* what recover_containers_imp still has to do
    cache,        \* the state cache directory: file name -> content
    phase,        \* Mesos' view of a container
    told,         \* the port in the environment a container was launched with
    crashes       \* agent deaths so far

isolatorVars == <<recovered, registered, caller, phase, told>>
processVars == <<up, crashes>>
vars == <<portVars, isolatorVars, processVars, queue, recovery, cache>>

TypeOK ==
    /\ PortsTypeOK
    /\ up \in BOOLEAN
    /\ recovered \in BOOLEAN
    /\ registered \subseteq Containers
    /\ caller \in Containers \cup {NoContainer}
    /\ queue \in Seq(Job)
    /\ recovery \in [insert : [Containers -> Ports \cup {NoPort}],
                     remove : SUBSET Containers, register : SUBSET Containers]
    /\ cache \in [FileNames -> File]
    /\ phase \in [Containers -> {"new", "preparing", "running", "orphan", "gone"}]
    /\ told \in [Containers -> Ports \cup {NoPort}]
    /\ crashes \in 0 .. MaxCrashes

Init ==
    /\ \E cfg \in Configs : PortsStart(cfg)
    /\ up = TRUE
    /\ recovered = FALSE
    /\ registered = {}
    /\ caller = NoContainer
    /\ queue = <<>>
    /\ recovery = NoRecovery
    /\ cache = [f \in FileNames |-> NoFile]
    /\ phase = [c \in Containers |-> "new"]
    /\ told = NoReaders
    /\ crashes = 0

(***************************************************************************)
(* ContainerStateCacheImpl.                                                *)
(***************************************************************************)

\* get_containers(): the parseable files; a file (or the directory) that
\* cannot be read is skipped.
IsDiskContent(disk) ==
    \A c \in Containers :
        LET file == cache[sanitized_filename[c]]
        IN  \/ file.kind = "entry" /\ disk[c] = file.port
            \/ (file.kind # "entry" \/ DiskFaults) /\ disk[c] = NoPort

\* add_container(): the result of the write is not looked at.
add_container(c, p) ==
    \E content \in {Entry(c, p)} \cup
                   (IF DiskFaults THEN {TornFile, cache[sanitized_filename[c]]}
                                  ELSE {}) :
        cache' = [cache EXCEPT ![sanitized_filename[c]] = content]

remove_container(c) ==
    \E content \in {NoFile} \cup
                   (IF DiskFaults THEN {cache[sanitized_filename[c]]} ELSE {}) :
        cache' = [cache EXCEPT ![sanitized_filename[c]] = content]

(***************************************************************************)
(* IsolatorProcess and the public operations of ContainerAssigner.         *)
(***************************************************************************)
ActorIdle == up /\ ~fatal /\ caller = NoContainer

Dispatch(job) == queue' = Append(queue, job)

\* Mesos recovers the running containers it still knows; the others are
\* orphans, which are not passed on and not tracked, and which Mesos destroys.
Recover(states) ==
    /\ ActorIdle /\ ~recovered
    /\ states \subseteq {c \in Containers : phase[c] = "running"}
    /\ recovered' = TRUE
    /\ registered' = registered \cup states
    /\ phase' = [c \in Containers |->
                    IF phase[c] = "running" /\ c \notin states THEN "orphan" ELSE phase[c]]
    /\ Dispatch([op |-> "recover", states |-> states])
    /\ UNCHANGED <<portVars, processVars, caller, told, recovery, cache>>

PrepareDebug(c) ==
    /\ ActorIdle /\ recovered
    /\ c \in DebugContainers /\ phase[c] = "new"
    /\ phase' = [phase EXCEPT ![c] = "running"]
    /\ UNCHANGED <<portVars, processVars, recovered, registered, caller, told,
                   queue, recovery, cache>>

Prepare(c) ==
    /\ ActorIdle /\ recovered
    /\ c \notin DebugContainers /\ phase[c] = "new"
    /\ phase' = [phase EXCEPT ![c] = "preparing"]
    /\ registered' = registered \cup {c}
    /\ caller' = c
    /\ Dispatch([op |-> "register", id |-> c])
    /\ UNCHANGED <<portVars, processVars, recovered, told, recovery, cache>>

\* dispatch_get gives up; the job stays where it is.
PrepareTimeout ==
    /\ up /\ ~fatal /\ caller # NoContainer
    /\ phase' = [phase EXCEPT ![caller] = "running"]
    /\ caller' = NoContainer
    /\ UNCHANGED <<portVars, processVars, recovered, registered, told, queue,
                   recovery, cache>>

\* Mutant: a container that was launched without an endpoint is taken for one
\* that was never registered.
NeedsUnregisterIfTold(c) == told[c] # NoPort

NeedsUnregister(c) == c \in registered

Cleanup(c) ==
    /\ ActorIdle /\ recovered /\ phase[c] \in {"running", "orphan"}
    /\ phase' = [phase EXCEPT ![c] = "gone"]
    /\ told' = [told EXCEPT ![c] = NoPort]    \* its environment is gone with it
    /\ registered' = registered \ {c}
    /\ IF NeedsUnregister(c)
       THEN Dispatch([op |-> "unregister", id |-> c])
       ELSE UNCHANGED queue
    /\ UNCHANGED <<portVars, processVars, recovered, caller, recovery, cache>>

(***************************************************************************)
(* The jobs, on the io_service thread.                                     *)
(***************************************************************************)
ToInsert == {c \in Containers : recovery.insert[c] # NoPort}

Recovering == ToInsert \cup recovery.remove \cup recovery.register # {}

\* Mutant: recovery is cut into jobs of its own, between which others run.
NextJobDuringRecovery(op) ==
    /\ up /\ ~fatal /\ queue # <<>>
    /\ Head(queue).op = op
    /\ queue' = Tail(queue)

NextJob(op) ==
    /\ up /\ ~fatal /\ ~Recovering /\ queue # <<>>
    /\ Head(queue).op = op
    /\ queue' = Tail(queue)

\* Mutant: the outcome is cached without a look at whether it is an error.
CacheEveryOutcome(c, result) ==
    /\ StrategyRegister(c, result)
    /\ add_container(c, result)

\* register_and_update_cache: the result of the strategy, cached if it is one.
register_and_update_cache(c, result) ==
    /\ StrategyRegister(c, result)
    /\ IF result = NoPort THEN UNCHANGED cache ELSE add_container(c, result)

unregister_and_update_cache(c) ==
    /\ StrategyUnregister(c)
    /\ remove_container(c)

\* Mutant: a failed registration does not notify the waiting caller.
AnswersSuccess(c, result) == caller = c /\ result # NoPort

\* The answer reaches the caller only if it still holds its ticket.
Answers(c, result) == caller = c

RunRegister ==
    /\ NextJob("register")
    /\ LET c == Head(queue).id
       IN  \E result \in Ports \cup {NoPort} :
               /\ register_and_update_cache(c, result)
               /\ IF Answers(c, result)
                  THEN /\ caller' = NoContainer
                       /\ phase' = [phase EXCEPT ![c] = "running"]
                       /\ told' = [told EXCEPT ![c] = result]
                  ELSE UNCHANGED <<caller, phase, told>>
    /\ UNCHANGED <<processVars, recovered, registered, recovery>>

RunUnregister ==
    /\ NextJob("unregister")
    /\ unregister_and_update_cache(Head(queue).id)
    /\ UNCHANGED <<isolatorVars, processVars, recovery>>

\* Mutant: the state cache is emptied once it has been read.
RemoveEverything(onDisk, states) == onDisk

\* Mutant: entries of containers that no longer exist stay in the cache.
RemoveNothing(onDisk, states) == {}

\* Case #2 of the reconciliation: found only in the state cache.
OnlyOnDisk(onDisk, states) == onDisk \ states

\* recover_containers_imp: reconcile what Mesos recovered with what is on disk.
RunRecover ==
    /\ NextJob("recover")
    /\ \E disk \in [Containers -> Ports \cup {NoPort}] :
           /\ IsDiskContent(disk)
           /\ LET states == Head(queue).states
                  onDisk == {c \in Containers : disk[c] # NoPort}
              IN  recovery' = [insert   |-> [c \in Containers |->
                                                IF c \in states THEN disk[c] ELSE NoPort],
                               remove   |-> OnlyOnDisk(onDisk, states),
                               register |-> states \ onDisk]
    /\ UNCHANGED <<portVars, isolatorVars, processVars, cache>>

First(S, c) == c \in S /\ \A d \in S : c <= d

RecoverInsert(c) ==
    /\ up /\ ~fatal
    /\ First(ToInsert, c)
    /\ StrategyInsert(c, recovery.insert[c])
    /\ recovery' = [recovery EXCEPT !.insert[c] = NoPort]
    /\ UNCHANGED <<isolatorVars, processVars, queue, cache>>

RecoverRemove(c) ==
    /\ up /\ ~fatal
    /\ ToInsert = {} /\ First(recovery.remove, c)
    /\ unregister_and_update_cache(c)
    /\ recovery' = [recovery EXCEPT !.remove = @ \ {c}]
    /\ UNCHANGED <<isolatorVars, processVars, queue>>

RecoverRegister(c) ==
    /\ up /\ ~fatal
    /\ ToInsert = {} /\ recovery.remove = {} /\ First(recovery.register, c)
    /\ \E result \in Ports \cup {NoPort} : register_and_update_cache(c, result)
    /\ recovery' = [recovery EXCEPT !.register = @ \ {c}]
    /\ UNCHANGED <<isolatorVars, processVars, queue>>

(***************************************************************************)
(* Death and restart of the agent.                                         *)
(***************************************************************************)

\* The container whose file the io thread may be writing.
Writing(c) ==
    /\ \/ ~Recovering /\ queue # <<>> /\ Head(queue) = [op |-> "register", id |-> c]
       \/ ToInsert = {} /\ recovery.remove = {} /\ First(recovery.register, c)
    /\ config.mode = "range" => reader[c] # NoPort \/ PoolFree # {}

\* Sockets, jobs and maps die with the process, and so does a container that
\* was not launched yet.  os::write truncates and then writes: dying inside
\* it leaves a torn file.
Crash ==
    /\ up /\ crashes < MaxCrashes
    /\ up' = FALSE
    /\ crashes' = crashes + 1
    /\ \/ UNCHANGED cache
       \/ \E c \in Containers :
              Writing(c) /\ cache' = [cache EXCEPT ![sanitized_filename[c]] = TornFile]
    /\ PortsRestart(config)
    /\ recovered' = FALSE
    /\ registered' = {}
    /\ caller' = NoContainer
    /\ queue' = <<>>
    /\ recovery' = NoRecovery
    /\ phase' = [c \in Containers |->
                    IF phase[c] = "preparing" THEN "gone" ELSE phase[c]]
    /\ UNCHANGED told

Restart ==
    /\ ~up
    /\ up' = TRUE
    /\ \E cfg \in Configs : PortsRestart(cfg)
    /\ UNCHANGED <<isolatorVars, crashes, queue, recovery, cache>>

(***************************************************************************)
(* The whole.                                                              *)
(***************************************************************************)
IoStep ==
    \/ RunRegister
    \/ RunUnregister
    \/ RunRecover
    \/ \E c \in Containers : RecoverInsert(c) \/ RecoverRemove(c) \/ RecoverRegister(c)

ActorStep ==
    \/ \E states \in SUBSET Containers : Recover(states)
    \/ \E c \in Containers : PrepareDebug(c) \/ Prepare(c) \/ Cleanup(c)
    \/ PrepareTimeout

Next == IoStep \/ ActorStep \/ Crash \/ Restart

Spec == Init /\ [][Next]_vars

\* The io thread is always scheduled, an agent that died is restarted, and
\* Mesos calls recover once at the start of every agent.
FairSpec ==
    /\ Spec
    /\ WF_vars(IoStep)
    /\ WF_vars(Restart)
    /\ WF_vars(\E states \in SUBSET Containers : Recover(states))

(***************************************************************************)
(* Properties.                                                             *)
(***************************************************************************)

\* RangePool::put never meets a port that it did not hand out: the LOG(FATAL)s
\* of range_pool.hpp ("We REALLY shouldn't be getting back numbers that we
\* didn't hand out!") would take the whole Mesos agent down.
NeverFatal == ~fatal

\* In range mode the pool's marks are exactly the ports of open readers,
\* through every failed open, reuse, timed-out registration and recovery: no
\* port is lost to the pool and none is handed out while it is listened on.
PoolMatchesReaders == config.mode = "range" => used = BoundPorts

\* Outside single-port mode no two containers share a reader's port.
OneContainerPerPort ==
    config.mode # "single" =>
        \A c, d \in Containers :
            c # d /\ reader[c] # NoPort => reader[c] # reader[d]

\* recover_containers_imp expects that "any internal state in the
\* ContainerAssigner or PortReader(s) *should* be empty": a recovered container
\* has no reader yet when insert_container is called for it, whose overwriting
\* of an existing reader would leak that reader's port.
RecoveryOnFreshState == \A c \in ToInsert : reader[c] = NoPort

\* A reader belongs to a container the isolator tracks, or its unregistration
\* is under way: also when prepare timed out and its job ran after all, a
\* reader cannot outlive the container's cleanup.
UnregisterPending(c) ==
    \E i \in DOMAIN queue : queue[i] = [op |-> "unregister", id |-> c]

ReadersTracked ==
    \A c \in Containers :
        reader[c] # NoPort => c \in registered \/ UnregisterPending(c)

\* The port that a running container was launched with is on disk before the
\* container runs and as long as it runs, so no restart can lose it.
ToldPortsPersisted ==
    ~DiskFaults =>
        \A c \in Containers :
            phase[c] = "running" /\ told[c] # NoPort =>
                cache[sanitized_filename[c]] = Entry(c, told[c])

\* A container that has a reader has it on the port it was launched with, after
\* any number of restarts: case #3 of recover_containers_imp (a new port for a
\* container that runs already) never hits a container that was told a port.
ReaderOnToldPort ==
    (~DiskFaults /\ config.mode # "single") =>
        \A c \in Containers :
            reader[c] # NoPort /\ told[c] # NoPort /\ phase[c] = "running" =>
                reader[c] = told[c]

\* container_reader.hpp: "there is one ContainerReader for each container,
\* since each is given a different port".  Two containers that run at the same
\* time were never launched with the same port.
EachIsGivenADifferentPort ==
    \A c, d \in Containers :
        (c # d /\ phase[c] = "running" /\ phase[d] = "running" /\ told[c] # NoPort)
            => told[c] # told[d]

\* A container that is gone (or an orphan after a restart) is forgotten: its
\* reader is closed and its entry leaves the state cache, whatever crashes
\* came in between.
Forgotten(c) ==
    reader[c] = NoPort /\ cache[sanitized_filename[c]].kind # "entry"

DeadContainersForgotten ==
    \A c \in Containers : (phase[c] \in {"gone", "orphan"}) ~> Forgotten(c)

\* prepare always answers Mesos: it cannot block the isolator for ever, because
\* it waits on the io thread only and the io thread waits on nobody.
PrepareReturns ==
    \A c \in Containers : (phase[c] = "preparing") ~> (phase[c] # "preparing")

=============================================================================
