-------------------------- MODULE SyncUtil_proofs ---------------------------
(***************************************************************************)
(* Proofs about SyncUtil, for any number of threads and of calls.          *)
(***************************************************************************)
EXTENDS SyncUtil, TLAPS

(***************************************************************************)
(* The inductive invariant.  The outstanding tickets are exactly those of  *)
(* the calls in progress, and tickets are not reused: a job that is still  *)
(* to be handed over carries the ticket of its own call, of a call that is *)
(* over, or none.                                                          *)
(***************************************************************************)
TicketsExact ==
    /\ \A t \in Callers : ticket[t] <= next_ticket
    /\ \A t, u \in Callers : ticket[t] = ticket[u] => t = u \/ ticket[t] = 0
    /\ \A t \in Callers : InScope(t) => ticket[t] # 0
    /\ \A k \in tickets : \E t \in Callers : InScope(t) /\ ticket[t] = k

JobOK(job) ==
    /\ job.ticket <= next_ticket
    /\ \A t \in Callers : ticket[t] = job.ticket /\ job.ticket # 0 =>
           t = job.owner /\ calls[t] = job.call

JobsOK ==
    /\ JobOK(io)
    /\ \A i \in 1 .. Len(queue) : JobOK(queue[i])

IInv == TypeOK /\ TicketsExact /\ JobsOK /\ NoStaleResult /\ NoWildWrite

\* Nobody has called dispatch_get yet.
LEMMA InitIInv == Init => IInv
<1> SUFFICES ASSUME Init PROVE IInv
  OBVIOUS
<1>1. IoThread \in Callers
  BY DEF Callers
<1>2. NoJob \in Job
  BY <1>1 DEF NoJob, Job
<1>3. queue \in Seq(Job)
  BY DEF Init
<1>4. TypeOK
  BY <1>2, <1>3 DEF Init, TypeOK
<1>5. TicketsExact /\ JobsOK /\ NoStaleResult /\ NoWildWrite
  BY DEF Init, TicketsExact, JobsOK, JobOK, NoJob, NoStaleResult, NoWildWrite, InScope
<1> QED
  BY <1>4, <1>5 DEF IInv

\* A result is passed only to the call that is waiting for it.
LEMMA PassResultOK ==
  ASSUME IInv, NEW job \in Job, JobOK(job), PassResult(job)
  PROVE  /\ out' \in [Callers -> Nat] /\ notified' \subseteq Callers
         /\ wild' = FALSE
         /\ \A t \in Callers : out'[t] \in {0, calls[t]}
<1>1. job.owner \in Callers /\ job.call \in Nat /\ job.ticket \in Nat
  BY DEF Job
<1>2. CASE TicketFound(job)
  <2>1. PICK t \in Callers : InScope(t) /\ ticket[t] = job.ticket
    BY <1>2 DEF IInv, TicketsExact, TicketFound
  <2>2. t = job.owner /\ calls[t] = job.call
    BY <2>1 DEF JobOK, IInv, TicketsExact
  <2> QED
    BY <1>1, <1>2, <2>1, <2>2 DEF PassResult, IInv, TypeOK, NoStaleResult, NoWildWrite
<1>3. CASE ~TicketFound(job)
  BY <1>3 DEF PassResult, IInv, TypeOK, NoStaleResult, NoWildWrite
<1> QED
  BY <1>2, <1>3

\* Taking a ticket that nobody has.
LEMMA TakeTicketIInv ==
  ASSUME IInv, NEW t \in Callers, TakeTicket(t)
  PROVE  IInv'
<1>1. TypeOK'
  BY DEF TakeTicket, IInv, TypeOK
<1>2. TicketsExact'
  BY SMTT(30) DEF TakeTicket, IInv, TypeOK, TicketsExact, InScope
<1>3. ASSUME NEW job \in Job, JobOK(job)
      PROVE  JobOK(job)'
  <2>1. job.ticket \in Nat /\ next_ticket \in Nat /\ next_ticket' = next_ticket + 1
    BY <1>3 DEF Job, IInv, TypeOK, TakeTicket
  <2>2. ticket'[t] = next_ticket + 1
    BY DEF TakeTicket, IInv, TypeOK
  <2>3. \A u \in Callers \ {t} : ticket'[u] = ticket[u] /\ calls'[u] = calls[u]
    BY DEF TakeTicket, IInv, TypeOK
  <2> QED
    BY <1>3, <2>1, <2>2, <2>3 DEF JobOK
<1>4. JobsOK'
  BY <1>3 DEF TakeTicket, IInv, TypeOK, JobsOK
<1>5. NoStaleResult' /\ NoWildWrite'
  BY DEF TakeTicket, IInv, TypeOK, NoStaleResult, NoWildWrite
<1> QED
  BY <1>1, <1>2, <1>4, <1>5 DEF IInv

\* Leaving dispatch_get clears the ticket of this call and no other.
LEMMA LeaveIInv ==
  ASSUME IInv, NEW t \in Callers, InScope(t), Leave(t)
  PROVE  IInv'
<1>1. TypeOK'
  BY DEF Leave, IInv, TypeOK
<1>2. TicketsExact'
  BY DEF Leave, IInv, TypeOK, TicketsExact, InScope
<1>3. JobsOK' /\ NoStaleResult' /\ NoWildWrite'
  BY DEF Leave, IInv, JobsOK, JobOK, NoStaleResult, NoWildWrite
<1> QED
  BY <1>1, <1>2, <1>3 DEF IInv

\* Going to wait changes nothing that the invariant speaks of.
LEMMA WaitIInv ==
  ASSUME IInv, NEW t \in Callers, InScope(t), Wait(t)
  PROVE  IInv'
<1>1. TypeOK'
  BY DEF Wait, IInv, TypeOK
<1>2. TicketsExact'
  BY DEF Wait, IInv, TypeOK, TicketsExact, InScope
<1>3. JobsOK' /\ NoStaleResult' /\ NoWildWrite'
  BY DEF Wait, IInv, JobsOK, JobOK, NoStaleResult, NoWildWrite
<1> QED
  BY <1>1, <1>2, <1>3 DEF IInv

\* The steps of a caller inside dispatch_get.
LEMMA CallerStepIInv ==
  ASSUME IInv, NEW t \in Callers, CallerStep(t)
  PROVE  IInv'
<1>1. JobOf(t) \in Job /\ JobOK(JobOf(t))
  BY DEF IInv, TypeOK, TicketsExact, JobOf, Job, JobOK
<1>2. CASE DispatchPosted(t)
  <2>1. queue' = Append(queue, JobOf(t)) /\ queue' \in Seq(Job)
    BY <1>1, <1>2 DEF DispatchPosted, IInv, TypeOK
  <2>2. TypeOK'
    BY <1>2, <2>1 DEF DispatchPosted, IInv, TypeOK
  <2>3. TicketsExact' /\ NoStaleResult' /\ NoWildWrite'
    BY <1>2 DEF DispatchPosted, IInv, TypeOK, TicketsExact, InScope, NoStaleResult, NoWildWrite
  <2>4. JobsOK'
    <3>1. \A i \in 1 .. Len(queue') : queue'[i] = JobOf(t) \/ (i \in 1 .. Len(queue) /\ queue'[i] = queue[i])
      BY <1>1, <2>1 DEF IInv, TypeOK
    <3> QED
      BY <1>1, <1>2, <3>1 DEF DispatchPosted, IInv, JobsOK, JobOK
  <2> QED
    BY <2>2, <2>3, <2>4 DEF IInv
<1>3. CASE DispatchInline(t)
  <2>1. /\ out' \in [Callers -> Nat] /\ notified' \subseteq Callers
        /\ wild' = FALSE
        /\ \A u \in Callers : out'[u] \in {0, calls[u]}
    BY <1>1, <1>3, PassResultOK DEF DispatchInline
  <2>2. TypeOK'
    <3>1. <<t, calls[t]>> \in Callers \X Nat
      BY DEF IInv, TypeOK
    <3>2. ran' \subseteq Callers \X Nat
      BY <1>3, <3>1 DEF DispatchInline, IInv, TypeOK
    <3> QED
      BY <1>3, <2>1, <3>2 DEF DispatchInline, IInv, TypeOK
  <2>3. TicketsExact' /\ JobsOK'
    BY <1>3 DEF DispatchInline, IInv, TypeOK, TicketsExact, InScope, JobsOK, JobOK
  <2>4. NoStaleResult' /\ NoWildWrite'
    BY <1>3, <2>1 DEF DispatchInline, NoStaleResult, NoWildWrite
  <2> QED
    BY <2>2, <2>3, <2>4 DEF IInv
<1>4. CASE FirstCheck(t) \/ Wake(t) \/ Timeout(t)
  BY <1>4, LeaveIInv, WaitIInv DEF FirstCheck, Wake, Timeout, InScope
<1> QED
  BY <1>2, <1>3, <1>4 DEF CallerStep

\* The io thread hands a result over only to the call that asked for it.
LEMMA IoIInv ==
  ASSUME IInv, RunJob \/ FinishJob \/ Stop
  PROVE  IInv'
<1>1. CASE RunJob
  <2>1. queue \in Seq(Job) /\ queue # <<>>
    BY <1>1 DEF RunJob, IInv, TypeOK
  <2>2. /\ Head(queue) \in Job /\ queue' \in Seq(Job)
        /\ Head(queue) = queue[1] /\ 1 \in 1 .. Len(queue)
        /\ \A i \in 1 .. Len(queue') : queue'[i] = queue[i + 1] /\ i + 1 \in 1 .. Len(queue)
    BY <1>1, <2>1 DEF RunJob
  <2>3. TypeOK'
    <3>1. <<Head(queue).owner, Head(queue).call>> \in Callers \X Nat
      BY <2>2 DEF Job
    <3>2. ran' \subseteq Callers \X Nat
      BY <1>1, <3>1 DEF RunJob, IInv, TypeOK
    <3> QED
      BY <1>1, <2>2, <3>2 DEF RunJob, IInv, TypeOK
  <2>4. TicketsExact' /\ NoStaleResult' /\ NoWildWrite'
    BY <1>1 DEF RunJob, IInv, TicketsExact, InScope, NoStaleResult, NoWildWrite
  <2>5. JobsOK'
    BY <1>1, <2>2 DEF RunJob, IInv, JobsOK, JobOK
  <2> QED
    BY <2>3, <2>4, <2>5 DEF IInv
<1>2. CASE FinishJob
  <2>1. /\ out' \in [Callers -> Nat] /\ notified' \subseteq Callers
        /\ wild' = FALSE
        /\ \A u \in Callers : out'[u] \in {0, calls[u]}
    BY <1>2, PassResultOK DEF FinishJob, IInv, TypeOK, JobsOK
  <2>2. NoJob \in Job /\ JobOK(NoJob)'
    BY <1>2 DEF NoJob, Job, JobOK, Callers, FinishJob, IInv, TypeOK
  <2>3. TypeOK'
    BY <1>2, <2>1, <2>2 DEF FinishJob, IInv, TypeOK
  <2>4. TicketsExact' /\ JobsOK'
    BY <1>2, <2>2 DEF FinishJob, IInv, TicketsExact, InScope, JobsOK, JobOK
  <2>5. NoStaleResult' /\ NoWildWrite'
    BY <1>2, <2>1 DEF FinishJob, NoStaleResult, NoWildWrite
  <2> QED
    BY <2>3, <2>4, <2>5 DEF IInv
<1>3. CASE Stop
  BY <1>3 DEF Stop, IInv, TypeOK, TicketsExact, InScope, JobsOK, JobOK, NoStaleResult, NoWildWrite
<1> QED
  BY <1>1, <1>2, <1>3

\* Stuttering.
LEMMA StutterIInv == IInv /\ UNCHANGED vars => IInv'
<1> SUFFICES ASSUME IInv, UNCHANGED vars PROVE IInv'
  OBVIOUS
<1> USE DEF vars
<1>1. TypeOK'
  BY DEF IInv, TypeOK
<1>2. TicketsExact' /\ JobsOK'
  BY DEF IInv, TicketsExact, InScope, JobsOK, JobOK
<1>3. NoStaleResult' /\ NoWildWrite'
  BY DEF IInv, NoStaleResult, NoWildWrite
<1> QED
  BY <1>1, <1>2, <1>3 DEF IInv

\* The invariant holds in every reachable state.
THEOREM Invariance == Spec => []IInv
<1>1. IInv /\ [Next]_vars => IInv'
  BY TakeTicketIInv, CallerStepIInv, IoIInv, StutterIInv DEF Next
<1> QED
  BY <1>1, InitIInv, PTL DEF Spec

\* No callback ever writes to the frame of a call that has returned.
THEOREM FramesSafe == Spec => []NoWildWrite
  BY Invariance, PTL DEF IInv

\* No call ever returns the result of an earlier call.
THEOREM ResultsFresh == Spec => []NoStaleResult
  BY Invariance, PTL DEF IInv

(***************************************************************************)
(* dispatch_get implements its contract.  The refinement needs to know     *)
(* that a function runs at most once: the jobs in the queue are different  *)
(* calls that were begun and have not run, and the call whose job is not   *)
(* dispatched yet is none of them.                                         *)
(***************************************************************************)
NotRun(t, k) == k \in 1 .. calls[t] /\ <<t, k>> \notin ran

CallsInv ==
    /\ \A t \in Callers : calls[t] <= MaxCalls
    /\ \A t \in Callers : InScope(t) => result[t] = 0 /\ calls[t] # 0
    /\ \A t \in Callers, k \in Nat : <<t, k>> \in ran => k <= calls[t]
    /\ \A t \in Callers : pc[t] = "ticketed" => NotRun(t, calls[t])
    /\ \A t \in Callers : out[t] # 0 => <<t, calls[t]>> \in ran

QueueInv ==
    /\ io # NoJob => <<io.owner, io.call>> \in ran
    /\ \A i \in 1 .. Len(queue) :
           /\ queue[i].owner # IoThread
           /\ NotRun(queue[i].owner, queue[i].call)
           /\ pc[queue[i].owner] = "ticketed" => queue[i].call # calls[queue[i].owner]
    /\ \A i, j \in 1 .. Len(queue) :
           queue[i].owner = queue[j].owner /\ queue[i].call = queue[j].call => i = j

RInv == IInv /\ CallsInv /\ QueueInv

\* A call's number and its place in the queue, for the steps below.
LEMMA QueueTyped ==
  ASSUME IInv
  PROVE  /\ queue \in Seq(Job) /\ Len(queue) \in Nat
         /\ \A i \in 1 .. Len(queue) : queue[i] \in Job /\ queue[i].owner \in Callers /\ queue[i].call \in Nat
         /\ \A t \in Callers : calls[t] \in Nat
<1>1. queue \in Seq(Job) /\ Len(queue) \in Nat
  BY DEF IInv, TypeOK
<1>2. \A i \in 1 .. Len(queue) : queue[i] \in Job
  BY <1>1
<1>3. \A job \in Job : job.owner \in Callers /\ job.call \in Nat
  BY DEF Job
<1> QED
  BY <1>1, <1>2, <1>3 DEF IInv, TypeOK

\* Beginning a call.
LEMMA TakeTicketRefines ==
  ASSUME RInv, NEW t \in Callers, TakeTicket(t)
  PROVE  RInv' /\ Contract!Begin(t)
<1>0. IInv /\ IInv'
  BY TakeTicketIInv DEF RInv
<1>1. /\ pc[t] = "idle" /\ calls[t] < MaxCalls /\ calls[t] \in Nat /\ MaxCalls \in Nat
      /\ pc' = [pc EXCEPT ![t] = "ticketed"] /\ pc'[t] = "ticketed"
      /\ calls'[t] = calls[t] + 1 /\ out'[t] = 0 /\ result'[t] = 0
      /\ \A u \in Callers \ {t} : /\ pc'[u] = pc[u] /\ calls'[u] = calls[u]
                                  /\ out'[u] = out[u] /\ result'[u] = result[u]
      /\ UNCHANGED <<queue, io, ran>>
  BY <1>0, SyncAssumption DEF TakeTicket, IInv, TypeOK
<1>2. \A u \in Callers, k \in Nat : NotRun(u, k) => NotRun(u, k)'
  <2>1. \A u \in Callers : calls[u] \in Nat /\ calls'[u] \in Nat
    BY <1>0 DEF IInv, TypeOK
  <2>2. \A u \in Callers : calls[u] <= calls'[u]
    BY <1>1, <2>1
  <2> QED
    BY <1>1, <2>1, <2>2 DEF NotRun
<1>3. CallsInv'
  <2>1. <<t, calls[t] + 1>> \notin ran
    BY <1>1 DEF RInv, CallsInv
  <2>2. NotRun(t, calls[t])'
    BY <1>1, <2>1 DEF NotRun
  <2>3. \A u \in Callers \ {t} : pc'[u] = "ticketed" => NotRun(u, calls[u])'
    BY <1>1 DEF RInv, CallsInv, NotRun
  <2>4. \A u \in Callers, k \in Nat : <<u, k>> \in ran' => k <= calls'[u]
    <3>1. \A u \in Callers : calls[u] \in Nat /\ calls'[u] \in Nat
      BY <1>0 DEF IInv, TypeOK
    <3>2. \A u \in Callers : calls[u] <= calls'[u]
      BY <1>1, <3>1
    <3> QED
      BY <1>1, <3>1, <3>2 DEF RInv, CallsInv
  <2>5. \A u \in Callers : calls'[u] <= MaxCalls
    BY <1>1 DEF RInv, CallsInv
  <2> QED
    BY <1>1, <2>2, <2>3, <2>4, <2>5 DEF RInv, CallsInv, InScope
<1>4. QueueInv'
  <2>1. ASSUME NEW i \in 1 .. Len(queue)
        PROVE  /\ queue[i].owner # IoThread
               /\ NotRun(queue[i].owner, queue[i].call)'
               /\ pc'[queue[i].owner] = "ticketed" => queue[i].call # calls'[queue[i].owner]
    <3>1. queue[i].owner \in Callers /\ queue[i].call \in Nat
      BY <1>0, QueueTyped
    <3>2. NotRun(queue[i].owner, queue[i].call) /\ queue[i].owner # IoThread
      BY DEF RInv, QueueInv
    <3>3. queue[i].owner = t => queue[i].call <= calls[t]
      BY <3>2 DEF NotRun
    <3>4. queue[i].owner = t => queue[i].call # calls'[t]
      BY <1>1, <3>1, <3>3
    <3>5. NotRun(queue[i].owner, queue[i].call)'
      BY <1>1, <1>2, <3>1, <3>2 DEF NotRun
    <3> QED
      BY <1>1, <3>1, <3>2, <3>4, <3>5 DEF RInv, QueueInv
  <2> QED
    BY <1>1, <2>1 DEF RInv, QueueInv, NotRun
<1>5. Contract!Begin(t)
  <2>1. inCall' = inCall \cup {t} /\ t \notin inCall
    BY <1>1 DEF inCall
  <2> QED
    BY <1>1, <2>1 DEF Contract!Begin, TakeTicket
<1> QED
  BY <1>0, <1>3, <1>4, <1>5 DEF RInv

\* Leaving with the result of the call's own function, or with nothing.
LEMMA LeaveRefines ==
  ASSUME RInv, NEW t \in Callers, InScope(t), pc[t] # "ticketed", Leave(t)
  PROVE  RInv' /\ (Contract!ReturnResult(t) \/ Contract!ReturnNothing(t))
<1>0. IInv /\ IInv'
  BY LeaveIInv DEF RInv
<1>1. /\ pc'[t] = "idle" /\ \A u \in Callers \ {t} : pc'[u] = pc[u] /\ result'[u] = result[u]
      /\ result' = [result EXCEPT ![t] = out[t]]
      /\ UNCHANGED <<calls, out, queue, io, ran>>
  BY <1>0 DEF Leave, IInv, TypeOK
<1>2. CallsInv'
  BY <1>0, <1>1 DEF RInv, CallsInv, InScope, NotRun
<1>3. QueueInv'
  BY <1>0, <1>1, QueueTyped DEF RInv, QueueInv, NotRun
<1>4. inCall' = inCall \ {t} /\ t \in inCall
  BY <1>1 DEF inCall, InScope
<1>5. CASE out[t] = 0
  <2>1. result' = result
    BY <1>0, <1>1, <1>5 DEF RInv, CallsInv, IInv, TypeOK
  <2> QED
    BY <1>0, <1>1, <1>2, <1>3, <1>4, <2>1 DEF RInv, Contract!ReturnNothing
<1>6. CASE out[t] # 0
  <2>1. out[t] = calls[t] /\ <<t, calls[t]>> \in ran
    BY <1>0, <1>6 DEF RInv, CallsInv, IInv, NoStaleResult
  <2> QED
    BY <1>0, <1>1, <1>2, <1>3, <1>4, <2>1 DEF RInv, Contract!ReturnResult
<1> QED
  BY <1>5, <1>6

\* The refined steps between a call's beginning and its end.
LEMMA CallerStepRefines ==
  ASSUME RInv, NEW t \in Callers, CallerStep(t)
  PROVE  RInv' /\ (Contract!AbsNext \/ UNCHANGED Contract!absVars)
<1>0. IInv /\ IInv'
  BY CallerStepIInv DEF RInv
<1>1. CASE DispatchPosted(t)
  <2>1. /\ pc[t] = "ticketed" /\ pc'[t] = "dispatched" /\ t # IoThread
        /\ \A u \in Callers \ {t} : pc'[u] = pc[u]
        /\ UNCHANGED <<calls, out, result, io, ran>>
    BY <1>0, <1>1 DEF DispatchPosted, IInv, TypeOK
  <2>2. inCall' = inCall
    BY <2>1 DEF inCall
  <2>3. CallsInv'
    BY <1>0, <2>1 DEF RInv, CallsInv, InScope, NotRun
  <2>4. JobOf(t) \in Job /\ JobOf(t).owner = t /\ JobOf(t).call = calls[t]
    BY <1>0 DEF JobOf, Job, IInv, TypeOK
  <2>5. /\ Len(queue') = Len(queue) + 1 /\ queue'[Len(queue) + 1] = JobOf(t)
        /\ \A i \in 1 .. Len(queue) : queue'[i] = queue[i]
        /\ Len(queue) \in Nat
    BY <1>0, <1>1, <2>4, QueueTyped DEF DispatchPosted
  <2>6. \A i \in 1 .. Len(queue') : i \in 1 .. Len(queue) \/ i = Len(queue) + 1
    BY <2>5
  <2>7. ASSUME NEW i \in 1 .. Len(queue)
        PROVE  queue[i].owner # t \/ queue[i].call # calls[t]
    BY <2>1 DEF RInv, QueueInv
  <2>8. NotRun(t, calls[t])
    BY <2>1 DEF RInv, CallsInv
  <2>9. ASSUME NEW i \in 1 .. Len(queue')
        PROVE  /\ queue'[i].owner # IoThread
               /\ NotRun(queue'[i].owner, queue'[i].call)
               /\ pc'[queue'[i].owner] = "ticketed" => queue'[i].call # calls[queue'[i].owner]
    <3>1. CASE i = Len(queue) + 1
      BY <2>1, <2>4, <2>5, <2>8, <3>1
    <3>2. CASE i \in 1 .. Len(queue)
      BY <1>0, <2>1, <2>5, <3>2, QueueTyped DEF RInv, QueueInv
    <3> QED
      BY <2>6, <3>1, <3>2
  <2>10. ASSUME NEW i \in 1 .. Len(queue'), NEW j \in 1 .. Len(queue'),
                queue'[i].owner = queue'[j].owner, queue'[i].call = queue'[j].call
         PROVE  i = j
    BY <2>4, <2>5, <2>6, <2>7, <2>10 DEF RInv, QueueInv
  <2>11. QueueInv'
    BY <2>1, <2>9, <2>10 DEF RInv, QueueInv, NotRun
  <2> QED
    BY <1>0, <2>1, <2>2, <2>3, <2>11 DEF RInv, Contract!absVars
<1>2. CASE DispatchInline(t)
  <2>1. /\ pc[t] = "ticketed" /\ pc'[t] = "dispatched" /\ t = IoThread
        /\ \A u \in Callers \ {t} : pc'[u] = pc[u]
        /\ ran' = ran \cup {<<t, calls[t]>>} /\ PassResult(JobOf(t))
        /\ UNCHANGED <<calls, result, queue, io>>
    BY <1>0, <1>2 DEF DispatchInline, IInv, TypeOK
  <2>2. inCall' = inCall
    BY <2>1 DEF inCall
  <2>3. NotRun(t, calls[t])
    BY <2>1 DEF RInv, CallsInv
  <2>4. \A u \in Callers \ {t} : out'[u] = out[u]
    BY <1>0, <2>1 DEF PassResult, JobOf, IInv, TypeOK
  <2>5. CallsInv'
    <3>1. \A u \in Callers, k \in Nat : <<u, k>> \in ran' => k <= calls'[u]
      BY <1>0, <2>1 DEF RInv, CallsInv, IInv, TypeOK
    <3>2. \A u \in Callers : pc'[u] = "ticketed" => NotRun(u, calls[u])'
      BY <2>1 DEF RInv, CallsInv, NotRun
    <3>3. \A u \in Callers : out'[u] # 0 => <<u, calls'[u]>> \in ran'
      BY <2>1, <2>4 DEF RInv, CallsInv
    <3> QED
      BY <2>1, <3>1, <3>2, <3>3 DEF RInv, CallsInv, InScope
  <2>6. QueueInv'
    <3>1. ASSUME NEW i \in 1 .. Len(queue)
          PROVE  NotRun(queue[i].owner, queue[i].call)' /\ (pc'[queue[i].owner] = "ticketed" => pc[queue[i].owner] = "ticketed")
      BY <1>0, <2>1, QueueTyped DEF RInv, QueueInv, NotRun
    <3> QED
      BY <2>1, <3>1 DEF RInv, QueueInv, NotRun
  <2>7. Contract!RunFunction(t, calls[t])
    BY <2>1, <2>2, <2>3 DEF Contract!RunFunction, NotRun
  <2>8. calls[t] \in 1 .. MaxCalls
    BY <1>0, <2>3, SyncAssumption DEF RInv, CallsInv, NotRun, IInv, TypeOK
  <2> QED
    BY <1>0, <2>5, <2>6, <2>7, <2>8 DEF RInv, Contract!AbsNext
<1>3. CASE /\ Leave(t)
           /\ pc[t] \in {"dispatched", "waiting"}
  BY <1>3, LeaveRefines DEF InScope, Contract!AbsNext
<1>4. CASE Wait(t) /\ pc[t] = "dispatched"
  <2>1. /\ pc'[t] = "waiting" /\ \A u \in Callers \ {t} : pc'[u] = pc[u]
        /\ UNCHANGED <<calls, out, result, queue, io, ran>>
    BY <1>0, <1>4 DEF Wait, IInv, TypeOK
  <2>2. inCall' = inCall
    BY <1>4, <2>1 DEF inCall
  <2>3. CallsInv'
    BY <1>0, <1>4, <2>1 DEF RInv, CallsInv, InScope, NotRun
  <2>4. QueueInv'
    BY <1>0, <2>1, QueueTyped DEF RInv, QueueInv, NotRun
  <2> QED
    BY <1>0, <2>1, <2>2, <2>3, <2>4 DEF RInv, Contract!absVars
<1> QED
  BY <1>1, <1>2, <1>3, <1>4 DEF CallerStep, FirstCheck, Wake, Timeout

\* The io thread runs the function of a call that has not run yet.
LEMMA IoRefines ==
  ASSUME RInv, RunJob \/ FinishJob \/ Stop
  PROVE  RInv' /\ (Contract!AbsNext \/ UNCHANGED Contract!absVars)
<1>0. IInv /\ IInv'
  BY IoIInv DEF RInv
<1>1. CASE RunJob
  <2>1. /\ queue # <<>> /\ io' = Head(queue) /\ queue' = Tail(queue)
        /\ ran' = ran \cup {<<Head(queue).owner, Head(queue).call>>}
        /\ UNCHANGED <<pc, calls, out, result>>
    BY <1>1 DEF RunJob
  <2>2. /\ 1 \in 1 .. Len(queue) /\ Head(queue) = queue[1]
        /\ \A i \in 1 .. Len(queue') : /\ i + 1 \in 1 .. Len(queue) /\ queue'[i] = queue[i + 1]
                                       /\ i \in Nat /\ i + 1 # 1
    BY <1>0, <2>1, QueueTyped
  <2>3. PICK t \in Callers, k \in Nat : t = queue[1].owner /\ k = queue[1].call
    BY <1>0, <2>2, QueueTyped
  <2>4. NotRun(t, k) /\ (pc[t] = "ticketed" => k # calls[t])
    BY <2>2, <2>3 DEF RInv, QueueInv
  <2>5. ran' = ran \cup {<<t, k>>}
    BY <2>1, <2>2, <2>3
  <2>6. CallsInv'
    <3>1. \A u \in Callers, j \in Nat : <<u, j>> \in ran' => j <= calls'[u]
      BY <2>1, <2>4, <2>5 DEF RInv, CallsInv, NotRun
    <3>2. \A u \in Callers : pc[u] = "ticketed" => NotRun(u, calls[u])'
      BY <2>1, <2>4, <2>5 DEF RInv, CallsInv, NotRun
    <3> QED
      BY <2>1, <3>1, <3>2 DEF RInv, CallsInv, InScope
  <2>7. QueueInv'
    <3>1. ASSUME NEW i \in 1 .. Len(queue')
          PROVE  /\ queue'[i].owner # IoThread
                 /\ NotRun(queue'[i].owner, queue'[i].call)
                 /\ pc[queue'[i].owner] = "ticketed" => queue'[i].call # calls[queue'[i].owner]
                 /\ <<queue'[i].owner, queue'[i].call>> # <<t, k>>
      BY <2>2, <2>3 DEF RInv, QueueInv
    <3>2. ASSUME NEW i \in 1 .. Len(queue'), NEW j \in 1 .. Len(queue'),
                 queue'[i].owner = queue'[j].owner, queue'[i].call = queue'[j].call
          PROVE  i = j
      <4>1. i + 1 = j + 1
        BY <2>2, <3>2 DEF RInv, QueueInv
      <4> QED
        BY <2>2, <4>1
    <3>3. io' # NoJob => <<io'.owner, io'.call>> \in ran'
      BY <2>1
    <3>4. ASSUME NEW i \in 1 .. Len(queue')
          PROVE  NotRun(queue[i].owner, queue[i].call)'
      BY <2>1, <2>5, <3>1 DEF NotRun
    <3> QED
      BY <2>1, <3>1, <3>2, <3>3, <3>4 DEF QueueInv
  <2>8. k \in 1 .. MaxCalls /\ inCall' = inCall
    BY <1>0, <2>1, <2>4, SyncAssumption, QueueTyped DEF RInv, CallsInv, NotRun, inCall
  <2>9. Contract!RunFunction(t, k)
    BY <2>1, <2>4, <2>5, <2>8 DEF Contract!RunFunction, NotRun
  <2> QED
    BY <1>0, <2>6, <2>7, <2>8, <2>9 DEF RInv, Contract!AbsNext
<1>2. CASE FinishJob
  <2>1. /\ io # NoJob /\ PassResult(io) /\ io' = NoJob
        /\ UNCHANGED <<pc, calls, result, queue, ran>>
    BY <1>2 DEF FinishJob
  <2>2. \A u \in Callers : out'[u] # 0 => <<u, calls[u]>> \in ran
    <3>1. CASE ~TicketFound(io)
      BY <2>1, <3>1 DEF PassResult, RInv, CallsInv
    <3>2. CASE TicketFound(io)
      <4>1. out' = [out EXCEPT ![io.owner] = io.call] /\ <<io.owner, io.call>> \in ran
        BY <2>1, <3>2 DEF PassResult, RInv, QueueInv
      <4>2. PICK u \in Callers : InScope(u) /\ ticket[u] = io.ticket /\ ticket[u] # 0
        BY <1>0, <3>2 DEF IInv, TicketsExact, TicketFound
      <4>3. u = io.owner /\ calls[u] = io.call
        BY <1>0, <4>2 DEF IInv, JobsOK, JobOK
      <4> QED
        BY <1>0, <4>1, <4>3 DEF RInv, CallsInv, IInv, TypeOK
    <3> QED
      BY <3>1, <3>2
  <2>3. CallsInv' /\ QueueInv'
    BY <2>1, <2>2 DEF RInv, CallsInv, QueueInv, InScope, NotRun
  <2> QED
    BY <1>0, <2>1, <2>3 DEF RInv, Contract!absVars, inCall
<1>3. CASE Stop
  BY <1>0, <1>3 DEF Stop, RInv, CallsInv, QueueInv, InScope, NotRun, Contract!absVars, inCall
<1> QED
  BY <1>1, <1>2, <1>3

\* Every call of dispatch_get has its function run at most once and returns the
\* result of this very function or nothing, for any number of threads, of calls
\* and of timeouts: SyncUtil implements SyncCall.
THEOREM Refinement == Spec => ImplementsContract
<1>1. Init => RInv /\ Contract!AbsInit
  <2> SUFFICES ASSUME Init PROVE RInv /\ Contract!AbsInit
    OBVIOUS
  <2>1. IInv
    BY InitIInv
  <2>2. CallsInv /\ QueueInv
    BY SyncAssumption DEF Init, CallsInv, QueueInv, InScope
  <2>3. Contract!AbsInit
    BY DEF Init, Contract!AbsInit, inCall
  <2> QED
    BY <2>1, <2>2, <2>3 DEF RInv
<1>2. RInv /\ [Next]_vars => RInv' /\ [Contract!AbsNext]_Contract!absVars
  <2> SUFFICES ASSUME RInv, [Next]_vars
               PROVE  RInv' /\ (Contract!AbsNext \/ UNCHANGED Contract!absVars)
    OBVIOUS
  <2>1. CASE UNCHANGED vars
    <3>1. IInv'
      BY <2>1, StutterIInv DEF RInv
    <3> QED
      BY <2>1, <3>1 DEF vars, RInv, CallsInv, QueueInv, InScope, NotRun, Contract!absVars, inCall
  <2>2. ASSUME NEW t \in Callers, TakeTicket(t)
        PROVE  RInv' /\ Contract!AbsNext
    BY <2>2, TakeTicketRefines DEF Contract!AbsNext
  <2> QED
    BY <2>1, <2>2, CallerStepRefines, IoRefines DEF Next
<1> QED
  BY <1>1, <1>2, PTL DEF Spec, ImplementsContract, Contract!AbsSpec

=============================================================================
