------------------------------ MODULE SyncUtil ------------------------------
(***************************************************************************)
(* sync_util::dispatch_get (mesos_module/sync_util.hpp, sync_util.cpp):    *)
(* how a thread has a function run on the io_service thread and waits for  *)
(* its result, for at most timeout_secs.                                   *)
(*                                                                         *)
(* `out' and `cv' live in the caller's stack frame.  The callback gets raw *)
(* pointers to them and may run after the caller has gone; the next call   *)
(* of the same thread is likely to reuse the very addresses.  So out and   *)
(* notified are one cell per thread, shared by its successive calls.       *)
(* Sections under tickets->mutex are single steps.                         *)
(***************************************************************************)
EXTENDS Naturals, Sequences

CONSTANTS
    Threads,      \* threads other than the dispatcher's that call dispatch_get
    IoThread,     \* the io_service thread; functions it runs may call it too
    MaxCalls,     \* bound: calls of one thread
    Timed,        \* the callers that pass timeout_secs # 0
    IoMayStop     \* whether io_service::stop() may come before a job has run

Callers == Threads \cup {IoThread}

ASSUME SyncAssumption ==
    /\ IoThread \notin Threads
    /\ MaxCalls \in Nat
    /\ Timed \subseteq Callers
    /\ IoMayStop \in BOOLEAN

VARIABLES
    pc,           \* where each caller is in dispatch_get
    calls,        \* caller -> number of its current or latest call
    ticket,       \* caller -> ticket of that call
    tickets,      \* Tickets::tickets, the outstanding ones
    next_ticket,  \* Tickets::next_ticket
    out,          \* caller -> the frame's `out': call that produced it, or 0
    notified,     \* callers whose cv has been notified since they last woke
    result,       \* caller -> what its latest call returned
    queue,        \* posted to the io_service
    io,           \* the job whose function has run and whose result is not
                  \* handed over yet, or NoJob
    ran,          \* the calls <<caller, number>> whose function has run
    stopped,      \* the io_service was stopped
    wild          \* a callback wrote through a pointer to a dead frame

vars == <<pc, calls, ticket, tickets, next_ticket, out, notified, result,
          queue, io, ran, stopped, wild>>

NoJob == [owner |-> IoThread, call |-> 0, ticket |-> 0]

Job == [owner : Callers, call : Nat, ticket : Nat]

JobOf(t) == [owner |-> t, call |-> calls[t], ticket |-> ticket[t]]

TypeOK ==
    /\ pc \in [Callers -> {"idle", "ticketed", "dispatched", "waiting"}]
    /\ calls \in [Callers -> Nat]
    /\ ticket \in [Callers -> Nat]
    /\ tickets \subseteq Nat
    /\ next_ticket \in Nat
    /\ out \in [Callers -> Nat]
    /\ notified \subseteq Callers
    /\ result \in [Callers -> Nat]
    /\ queue \in Seq(Job)
    /\ io \in Job
    /\ ran \subseteq Callers \X Nat
    /\ stopped \in BOOLEAN
    /\ wild \in BOOLEAN

Init ==
    /\ pc = [t \in Callers |-> "idle"]
    /\ calls = [t \in Callers |-> 0]
    /\ ticket = [t \in Callers |-> 0]
    /\ tickets = {}
    /\ next_ticket = 0
    /\ out = [t \in Callers |-> 0]
    /\ notified = {}
    /\ result = [t \in Callers |-> 0]
    /\ queue = <<>>
    /\ io = NoJob
    /\ ran = {}
    /\ stopped = FALSE
    /\ wild = FALSE

InScope(t) == pc[t] # "idle"

(***************************************************************************)
(* The caller.                                                             *)
(***************************************************************************)

\* Enter dispatch_get and take a ticket (locked_get_next_ticket).  A function
\* on the io thread may do so while the io thread runs it.
TakeTicket(t) ==
    /\ pc[t] = "idle" /\ calls[t] < MaxCalls
    /\ t = IoThread => io # NoJob
    /\ pc' = [pc EXCEPT ![t] = "ticketed"]
    /\ calls' = [calls EXCEPT ![t] = @ + 1]
    /\ next_ticket' = next_ticket + 1
    /\ ticket' = [ticket EXCEPT ![t] = next_ticket + 1]
    /\ tickets' = tickets \cup {next_ticket + 1}
    /\ out' = [out EXCEPT ![t] = 0]
    /\ notified' = notified \ {t}
    /\ result' = [result EXCEPT ![t] = 0]
    /\ UNCHANGED <<queue, io, ran, stopped, wild>>

\* Mutant: the callback trusts its pointers.
TicketFoundAlways(job) == TRUE

\* locked_find_ticket.
TicketFound(job) == job.ticket \in tickets

\* The second half of _exec_and_pass_result_cb, under the lock.
PassResult(job) ==
    IF TicketFound(job)
    THEN /\ out' = [out EXCEPT ![job.owner] = job.call]
         /\ notified' = notified \cup {job.owner}
         /\ wild' = (wild \/ ~InScope(job.owner))
    ELSE UNCHANGED <<out, notified, wild>>

\* io_service::dispatch from another thread queues the job ...
DispatchPosted(t) ==
    /\ pc[t] = "ticketed" /\ t # IoThread
    /\ queue' = Append(queue, JobOf(t))
    /\ pc' = [pc EXCEPT ![t] = "dispatched"]
    /\ UNCHANGED <<calls, ticket, tickets, next_ticket, out, notified, result,
                   io, ran, stopped, wild>>

\* ... and from the io thread itself runs it before it returns.
DispatchInline(t) ==
    /\ pc[t] = "ticketed" /\ t = IoThread
    /\ ran' = ran \cup {<<t, calls[t]>>}
    /\ PassResult(JobOf(t))
    /\ pc' = [pc EXCEPT ![t] = "dispatched"]
    /\ UNCHANGED <<calls, ticket, tickets, next_ticket, result, queue, io, stopped>>

\* Mutant: the ticket of a call that timed out is left behind.
LeaveTicketOnTimeout(t) ==
    /\ pc' = [pc EXCEPT ![t] = "idle"]
    /\ tickets' = IF out[t] = 0 THEN tickets ELSE tickets \ {ticket[t]}
    /\ result' = [result EXCEPT ![t] = out[t]]
    /\ UNCHANGED <<calls, ticket, next_ticket, out, notified, queue, io, ran,
                   stopped, wild>>

\* Leave dispatch_get: locked_clear_ticket, "regardless of outcome".
Leave(t) ==
    /\ pc' = [pc EXCEPT ![t] = "idle"]
    /\ tickets' = tickets \ {ticket[t]}
    /\ result' = [result EXCEPT ![t] = out[t]]
    /\ UNCHANGED <<calls, ticket, next_ticket, out, notified, queue, io, ran,
                   stopped, wild>>

Wait(t) ==
    /\ pc' = [pc EXCEPT ![t] = "waiting"]
    /\ notified' = notified \ {t}
    /\ UNCHANGED <<calls, ticket, tickets, next_ticket, out, result, queue, io,
                   ran, stopped, wild>>

\* Mutant: the caller waits without looking whether the result is there.
WaitUnchecked(t) == pc[t] = "dispatched" /\ Wait(t)

\* Back from dispatch: is the result there already?
FirstCheck(t) ==
    /\ pc[t] = "dispatched"
    /\ IF out[t] # 0 THEN Leave(t) ELSE Wait(t)

\* Woken by notify_all and the result is there.  (A wake-up for no reason finds
\* no result and goes back to waiting, which changes nothing.)
Wake(t) ==
    /\ pc[t] = "waiting" /\ t \in notified /\ out[t] # 0
    /\ Leave(t)

\* wait_for says timeout; a result that arrived meanwhile still counts.
Timeout(t) ==
    /\ pc[t] = "waiting" /\ t \in Timed
    /\ Leave(t)

(***************************************************************************)
(* The io_service thread.                                                  *)
(***************************************************************************)

\* Run the function of the next job (before the lock is taken).
RunJob ==
    /\ io = NoJob /\ queue # <<>> /\ ~stopped
    /\ io' = Head(queue)
    /\ queue' = Tail(queue)
    /\ ran' = ran \cup {<<Head(queue).owner, Head(queue).call>>}
    /\ UNCHANGED <<pc, calls, ticket, tickets, next_ticket, out, notified,
                   result, stopped, wild>>

\* Hand its result over.  A function that called dispatch_get itself has
\* returned from it by then.
FinishJob ==
    /\ io # NoJob /\ pc[IoThread] = "idle"
    /\ PassResult(io)
    /\ io' = NoJob
    /\ UNCHANGED <<pc, calls, ticket, tickets, next_ticket, result, queue, ran, stopped>>

\* io_service::stop(): the running job ends, no further job is started.
Stop ==
    /\ IoMayStop /\ ~stopped
    /\ stopped' = TRUE
    /\ UNCHANGED <<pc, calls, ticket, tickets, next_ticket, out, notified,
                   result, queue, io, ran, wild>>

CallerStep(t) ==
    \/ DispatchPosted(t)
    \/ DispatchInline(t)
    \/ FirstCheck(t)
    \/ Wake(t)
    \/ Timeout(t)

Next ==
    \/ \E t \in Callers : TakeTicket(t) \/ CallerStep(t)
    \/ RunJob
    \/ FinishJob
    \/ Stop

Spec == Init /\ [][Next]_vars

\* Every thread that can run gets to run, and a timeout that is armed fires.
FairSpec ==
    /\ Spec
    /\ \A t \in Callers : WF_vars(CallerStep(t))
    /\ WF_vars(RunJob)
    /\ WF_vars(FinishJob)

(***************************************************************************)
(* Properties.                                                             *)
(***************************************************************************)

\* The comment "DO NOT touch 'out' or 'cv', they are likely out of scope!":
\* no callback writes to the frame of a call that has returned, however late
\* it runs.
NoWildWrite == ~wild

\* What a call returns is the result of its own function: the late result of
\* a call that timed out is never taken for the result of the next call of
\* the same thread, whose `out' sits at the same address.
NoStaleResult == \A t \in Callers : out[t] \in {0, calls[t]}

\* dispatch_get implements its contract.
inCall == {t \in Callers : pc[t] # "idle"}

Contract == INSTANCE SyncCall WITH
    Callers <- Callers, MaxCalls <- MaxCalls, calls <- calls, inCall <- inCall,
    ran <- ran, result <- result

ImplementsContract == Contract!AbsSpec

\* Every call returns: no notification is lost between the check of `out' and
\* the wait, and the io thread does not wait for itself.  Only a caller that
\* waits indefinitely may be kept, by an io_service that was stopped.
CallsReturn ==
    \A t \in Callers :
        (pc[t] # "idle") ~> (pc[t] = "idle" \/ (stopped /\ t \notin Timed))
=============================================================================
