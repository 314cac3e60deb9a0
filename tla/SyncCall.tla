------------------------------ MODULE SyncCall ------------------------------
(***************************************************************************)
(* What sync_util::dispatch_get promises to its callers: a call hands one  *)
(* function to the dispatcher thread, where it runs at most once, and      *)
(* returns either the result of this very function or nothing (a timeout). *)
(* A function whose caller has given up still runs.                        *)
(***************************************************************************)
EXTENDS Naturals

CONSTANTS
    Callers,   \* the threads that call dispatch_get
    MaxCalls   \* bound: calls of one thread

VARIABLES
    calls,     \* caller -> number of calls it has begun
    inCall,    \* callers whose latest call has not returned
    ran,       \* the calls <<caller, number>> whose function has run
    result     \* caller -> what its latest call returned: the number of the
               \* call whose function produced it, or 0 for nothing

absVars == <<calls, inCall, ran, result>>

AbsInit ==
    /\ calls = [t \in Callers |-> 0]
    /\ inCall = {}
    /\ ran = {}
    /\ result = [t \in Callers |-> 0]

Begin(t) ==
    /\ t \notin inCall /\ calls[t] < MaxCalls
    /\ calls' = [calls EXCEPT ![t] = @ + 1]
    /\ inCall' = inCall \cup {t}
    /\ result' = [result EXCEPT ![t] = 0]
    /\ UNCHANGED ran

RunFunction(t, k) ==
    /\ k \in 1 .. calls[t] /\ <<t, k>> \notin ran
    /\ ran' = ran \cup {<<t, k>>}
    /\ UNCHANGED <<calls, inCall, result>>

ReturnResult(t) ==
    /\ t \in inCall /\ <<t, calls[t]>> \in ran
    /\ inCall' = inCall \ {t}
    /\ result' = [result EXCEPT ![t] = calls[t]]
    /\ UNCHANGED <<calls, ran>>

ReturnNothing(t) ==
    /\ t \in inCall
    /\ inCall' = inCall \ {t}
    /\ UNCHANGED <<calls, ran, result>>

AbsNext ==
    \E t \in Callers :
        \/ Begin(t)
        \/ \E k \in 1 .. MaxCalls : RunFunction(t, k)
        \/ ReturnResult(t)
        \/ ReturnNothing(t)

AbsSpec == AbsInit /\ [][AbsNext]_absVars
=============================================================================
