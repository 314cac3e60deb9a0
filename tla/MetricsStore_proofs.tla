------------------------ MODULE MetricsStore_proofs -------------------------
(***************************************************************************)
(* For every poll period, expiry, clock resolution and number of keys: the *)
(* HTTP producer's expiry leaves no gaps in the data of a running          *)
(* container, and what is stale does not stay.                             *)
(***************************************************************************)
EXTENDS MetricsStore, TLAPS

(***************************************************************************)
(* The invariant.                                                          *)
(***************************************************************************)

\* Everybody is on time.
Timing ==
    /\ sentAt <= now /\ sweptAt <= now
    /\ fetching => now <= polledAt + FetchTime /\ polledAt <= sentAt + PollPeriod
    /\ ~fetching => now <= wake
    /\ wake <= sentAt + PollPeriod
    /\ pending # {} => now <= sentAt + StoreTime
    /\ Sweeping => now <= sweptAt + JanitorTime
    /\ nextSweep = sweptAt + JanitorInterval
    /\ now <= nextSweep
    /\ message + FetchTime + TicksPerSecond > sentAt

\* A message's lag never makes it stale by itself.
LagCovered == FetchTime + StoreTime + TicksPerSecond <= CacheExpiry

\* What the latest run of the janitor has left, and what it still has to see.
Swept ==
    \A k \in Keys : store[k] # Absent =>
        /\ swept[k] = Absent => store[k] + CacheExpiry >= sweptAt
        /\ swept[k] # Absent =>
               /\ store[k] + CacheExpiry + JanitorInterval >= sweptAt
               /\ store[k] = swept[k] \/ store[k] + CacheExpiry >= sweptAt

\* The slack that the second poll period in the expiry has to cover.
Slack == 2 * FetchTime + StoreTime + JanitorTime + TicksPerSecond <= PollPeriod

\* Everything known of a container that runs is of the latest message, or of
\* the one before and about to be overwritten.
Fresh ==
    \A k \in Keys :
        /\ life[k] = "new" => store[k] = Absent /\ swept[k] = Absent /\ k \notin pending
        /\ life[k] = "running" /\ store[k] # Absent =>
               \/ store[k] = message
               \/ /\ k \in pending
                  /\ store[k] + 2 * FetchTime + PollPeriod + TicksPerSecond > sentAt
        /\ life[k] = "running" /\ swept[k] # Absent =>
               swept[k] + 2 * FetchTime + PollPeriod + StoreTime + TicksPerSecond > sweptAt

(***************************************************************************)
(* Facts.                                                                  *)
(***************************************************************************)

\* time.Unix() loses less than a second and never yields a later time.
LEMMA UnixBounds ==
    ASSUME NEW t \in Nat
    PROVE  Unix(t) \in Nat /\ Unix(t) <= t /\ Unix(t) + TicksPerSecond > t
  BY StoreAssumption DEF Unix

\* The expiry in force is a duration.
LEMMA ExpiryType == CacheExpiry \in Nat
  BY StoreAssumption DEF CacheExpiry

\* The initial state is well-typed and on time.
LEMMA InitTiming == Init => TypeOK /\ Timing
  <1> SUFFICES ASSUME Init PROVE TypeOK /\ Timing
    OBVIOUS
  <1>1. now \in Nat
    BY StoreAssumption DEF Init
  <1>2. Unix(now) \in Nat /\ Unix(now) + TicksPerSecond > now
    BY <1>1, UnixBounds
  <1>3. TypeOK
    <2>1. life \in [Keys -> {"new", "running", "gone"}]
      BY DEF Init
    <2>2. now + JanitorInterval \in Nat
      BY <1>1, StoreAssumption
    <2> QED
      BY <1>1, <1>2, <2>1, <2>2 DEF Init, TypeOK
  <1>4. Timing
    BY <1>1, <1>2, StoreAssumption DEF Init, Timing, Sweeping
  <1> QED
    BY <1>3, <1>4

\* Every step keeps the types.
LEMMA StepType == TypeOK /\ [Next]_vars => TypeOK'
  <1> SUFFICES ASSUME TypeOK, [Next]_vars PROVE TypeOK'
    OBVIOUS
  <1>1. ASSUME NEW k \in Keys, Begin(k) \/ End(k) PROVE TypeOK'
    BY <1>1 DEF TypeOK, Begin, End
  <1>2. ASSUME NEW k \in Keys, writeObjectToStore(k) PROVE TypeOK'
    BY <1>2 DEF TypeOK, writeObjectToStore
  <1>3. ASSUME NEW k \in Keys, JanitorVisit(k) PROVE TypeOK'
    <2>1. store' \in [Keys -> Nat \cup {Absent}]
      BY <1>3 DEF TypeOK, JanitorVisit
    <2>2. swept' \in [Keys -> Nat \cup {Absent}]
      BY <1>3 DEF TypeOK, JanitorVisit
    <2> QED
      BY <1>3, <2>1, <2>2 DEF TypeOK, JanitorVisit
  <1>4. CASE Poll
    BY <1>4 DEF TypeOK, Poll
  <1>5. ASSUME NEW reported \in SUBSET Keys, Send(reported) PROVE TypeOK'
    <2>1. Unix(polledAt) \in Nat
      BY UnixBounds DEF TypeOK
    <2>2. now + PollPeriod \in Nat
      BY StoreAssumption DEF TypeOK
    <2> QED
      BY <1>5, <2>1, <2>2 DEF TypeOK, Send
  <1>6. CASE JanitorStart
    BY <1>6, StoreAssumption DEF TypeOK, JanitorStart
  <1>7. CASE Tick
    BY <1>7 DEF TypeOK, Tick
  <1>8. CASE UNCHANGED vars
    BY <1>8 DEF TypeOK, vars
  <1> QED
    BY <1>1, <1>2, <1>3, <1>4, <1>5, <1>6, <1>7, <1>8 DEF Next

\* Every step keeps everybody on time.
LEMMA StepTiming == TypeOK /\ Timing /\ [Next]_vars => Timing'
  <1> SUFFICES ASSUME TypeOK, Timing, [Next]_vars PROVE Timing'
    OBVIOUS
  <1> USE StoreAssumption, PaceAssumption
  <1>1. ASSUME NEW k \in Keys, Begin(k) \/ End(k) PROVE Timing'
    BY <1>1 DEF Timing, TypeOK, Begin, End, Sweeping
  <1>2. ASSUME NEW k \in Keys, writeObjectToStore(k) PROVE Timing'
    BY <1>2 DEF Timing, TypeOK, writeObjectToStore, Sweeping
  <1>3. ASSUME NEW k \in Keys, JanitorVisit(k) PROVE Timing'
    BY <1>3 DEF Timing, TypeOK, JanitorVisit, Sweeping, Absent
  <1>4. CASE Poll
    BY <1>4 DEF Timing, TypeOK, Poll, Sweeping
  <1>5. ASSUME NEW reported \in SUBSET Keys, Send(reported) PROVE Timing'
    <2>1. Unix(polledAt) \in Nat /\ Unix(polledAt) + TicksPerSecond > polledAt
      BY UnixBounds DEF TypeOK
    <2> QED
      BY <1>5, <2>1 DEF Timing, TypeOK, Send, Sweeping
  <1>6. CASE JanitorStart
    BY <1>6 DEF Timing, TypeOK, JanitorStart, Sweeping
  <1>7. CASE Tick
    BY <1>7 DEF Timing, TypeOK, Tick, Sweeping
  <1>8. CASE UNCHANGED vars
    BY <1>8 DEF Timing, TypeOK, vars, Sweeping
  <1> QED
    BY <1>1, <1>2, <1>3, <1>4, <1>5, <1>6, <1>7, <1>8 DEF Next

\* Every step keeps what the janitor owes.
LEMMA StepSwept ==
    LagCovered => (TypeOK /\ Timing /\ Swept /\ [Next]_vars => Swept')
  <1> SUFFICES ASSUME LagCovered, TypeOK, Timing, Swept, [Next]_vars PROVE Swept'
    OBVIOUS
  <1> USE StoreAssumption, ExpiryType
  <1>1. ASSUME NEW k \in Keys, Begin(k) \/ End(k) PROVE Swept'
    BY <1>1 DEF Swept, Begin, End
  <1>2. ASSUME NEW k \in Keys, writeObjectToStore(k) PROVE Swept'
    <2>1. message + CacheExpiry >= sweptAt
      BY <1>2 DEF LagCovered, Timing, TypeOK, writeObjectToStore
    <2>2. ASSUME NEW j \in Keys PROVE j = k \/ store'[j] = store[j]
      BY <1>2 DEF writeObjectToStore, TypeOK
    <2>3. store'[k] = message /\ UNCHANGED <<swept, sweptAt>>
      BY <1>2 DEF writeObjectToStore, TypeOK
    <2> QED
      BY <2>1, <2>2, <2>3 DEF Swept, TypeOK
  <1>3. ASSUME NEW k \in Keys, JanitorVisit(k) PROVE Swept'
    <2> SUFFICES ASSUME NEW j \in Keys, store'[j] # Absent
                 PROVE  /\ swept'[j] = Absent => store'[j] + CacheExpiry >= sweptAt'
                        /\ swept'[j] # Absent =>
                               /\ store'[j] + CacheExpiry + JanitorInterval >= sweptAt'
                               /\ store'[j] = swept'[j] \/ store'[j] + CacheExpiry >= sweptAt'
      BY DEF Swept
    <2>1. store'[j] = store[j] /\ sweptAt' = sweptAt
      BY <1>3 DEF JanitorVisit, TypeOK
    <2>2. CASE j # k
      BY <1>3, <2>1, <2>2 DEF JanitorVisit, TypeOK, Swept
    <2>3. CASE j = k
      <3>1. swept'[k] = Absent /\ swept[k] # Absent /\ ~Expired(swept[k])
        BY <1>3, <2>3 DEF JanitorVisit, TypeOK, Absent
      <3> QED
        BY <2>1, <2>3, <3>1 DEF Swept, TypeOK, Expired, Timing, Absent
    <2> QED
      BY <2>2, <2>3
  <1>4. CASE Poll
    BY <1>4 DEF Swept, Poll
  <1>5. ASSUME NEW reported \in SUBSET Keys, Send(reported) PROVE Swept'
    BY <1>5 DEF Swept, Send
  <1>6. CASE JanitorStart
    <2>1. now = sweptAt + JanitorInterval
      BY <1>6 DEF JanitorStart, Timing, TypeOK
    <2>2. \A k \in Keys : swept[k] = Absent
      BY <1>6 DEF JanitorStart, Sweeping
    <2> QED
      BY <1>6, <2>1, <2>2 DEF JanitorStart, Swept, TypeOK
  <1>7. CASE Tick
    BY <1>7 DEF Swept, Tick
  <1>8. CASE UNCHANGED vars
    BY <1>8 DEF Swept, vars
  <1> QED
    BY <1>1, <1>2, <1>3, <1>4, <1>5, <1>6, <1>7, <1>8 DEF Next

\* Every step keeps the data of running containers fresh.
LEMMA StepFresh ==
    ~MayMiss => (TypeOK /\ Timing /\ Fresh /\ [Next]_vars => Fresh')
  <1> SUFFICES ASSUME ~MayMiss, TypeOK, Timing, Fresh, [Next]_vars PROVE Fresh'
    OBVIOUS
  <1> USE StoreAssumption
  <1>1. ASSUME NEW k \in Keys, Begin(k) PROVE Fresh'
    BY <1>1 DEF Fresh, Begin, TypeOK
  <1>2. ASSUME NEW k \in Keys, End(k) PROVE Fresh'
    BY <1>2 DEF Fresh, End, TypeOK
  <1>3. ASSUME NEW k \in Keys, writeObjectToStore(k) PROVE Fresh'
    BY <1>3 DEF Fresh, writeObjectToStore, TypeOK
  <1>4. ASSUME NEW k \in Keys, JanitorVisit(k) PROVE Fresh'
    BY <1>4 DEF Fresh, JanitorVisit, TypeOK, Absent
  <1>5. CASE Poll
    BY <1>5 DEF Fresh, Poll
  <1>6. ASSUME NEW reported \in SUBSET Keys, Send(reported) PROVE Fresh'
    <2>1. \A k \in Keys : life[k] = "running" /\ store[k] # Absent =>
              store[k] = message /\ k \in reported
      BY <1>6 DEF Fresh, Send, Running
    <2>2. message + 2 * FetchTime + PollPeriod + TicksPerSecond > now
      BY <1>6 DEF Timing, TypeOK, Send
    <2>3. \A k \in reported : life[k] # "new"
      BY <1>6 DEF Send, Running
    <2> QED
      BY <1>6, <2>1, <2>2, <2>3 DEF Fresh, Send, TypeOK
  <1>7. CASE JanitorStart
    <2>1. message + 2 * FetchTime + PollPeriod + TicksPerSecond > now
      BY DEF Timing, TypeOK
    <2>2. pending # {} => now <= sentAt + StoreTime
      BY DEF Timing
    <2>3. ASSUME NEW k \in Keys, life[k] = "running", store[k] # Absent
          PROVE  store[k] + 2 * FetchTime + PollPeriod + StoreTime + TicksPerSecond > now
      <3>1. CASE store[k] = message
        BY <2>1, <3>1 DEF TypeOK
      <3>2. CASE k \in pending /\ store[k] + 2 * FetchTime + PollPeriod + TicksPerSecond > sentAt
        <4>1. store[k] \in Nat
          BY <2>3 DEF TypeOK, Absent
        <4> QED
          BY <2>2, <3>2, <4>1 DEF TypeOK
      <3> QED
        BY <2>3, <3>1, <3>2 DEF Fresh
    <2> QED
      BY <1>7, <2>3 DEF Fresh, JanitorStart, TypeOK
  <1>8. CASE Tick
    BY <1>8 DEF Fresh, Tick
  <1>9. CASE UNCHANGED vars
    BY <1>9 DEF Fresh, vars
  <1> QED
    BY <1>1, <1>2, <1>3, <1>4, <1>5, <1>6, <1>7, <1>8, <1>9 DEF Next

(***************************************************************************)
(* Theorems.                                                               *)
(***************************************************************************)

\* The types, and that neither the collector's loop nor the janitor is late.
THEOREM OnTime == Spec => [](TypeOK /\ Timing)
  <1>1. Init => TypeOK /\ Timing
    BY InitTiming
  <1>2. TypeOK /\ Timing /\ [Next]_vars => (TypeOK /\ Timing)'
    BY StepType, StepTiming
  <1> QED
    BY <1>1, <1>2, PTL DEF Spec

\* The janitor keeps up: no object gets older than the expiry plus one round of
\* the janitor, whatever polls fail and whatever races with the janitor.
THEOREM JanitorKeepsUp == ASSUME LagCovered PROVE Spec => []StaleBounded
  <1>1. Init => Swept
    BY DEF Init, Swept
  <1>2. TypeOK /\ Timing /\ Swept /\ [Next]_vars => Swept'
    BY StepSwept
  <1>3. TypeOK /\ Timing /\ Swept => StaleBounded
    <2> SUFFICES ASSUME TypeOK, Timing, Swept, NEW k \in Keys, store[k] # Absent
                 PROVE  now - store[k] <= CacheExpiry + JanitorInterval + JanitorTime
      BY DEF StaleBounded
    <2>1. CASE swept[k] = Absent
      BY <2>1, StoreAssumption, ExpiryType DEF Swept, Timing, TypeOK, Absent
    <2>2. CASE swept[k] # Absent
      BY <2>2, StoreAssumption, ExpiryType DEF Swept, Timing, TypeOK, Absent, Sweeping
    <2> QED
      BY <2>1, <2>2
  <1> QED
    BY <1>1, <1>2, <1>3, OnTime, PTL DEF Spec

\* The expiry that getNewConfig enforces for the HTTP producer is enough: as
\* long as every poll reports every running container and a poll, its storing
\* and a run of the janitor take less than a poll period together, a running
\* container's data is never evicted.
THEOREM ExpirySuffices ==
    ASSUME Producer = "http", ~MayMiss, Slack
    PROVE  Spec => NoGaps
  <1>1. Init => Fresh
    BY DEF Init, Fresh
  <1>2. TypeOK /\ Timing /\ Fresh /\ [Next]_vars => Fresh'
    BY StepFresh
  <1>3. TypeOK /\ Timing /\ Fresh /\ [Next]_vars =>
            [\A k \in Running : store[k] # Absent => store'[k] # Absent]_vars
    <2> SUFFICES ASSUME TypeOK, Timing, Fresh, Next,
                        NEW k \in Running, store[k] # Absent
                 PROVE  store'[k] # Absent
      OBVIOUS
    <2>0. k \in Keys /\ life[k] = "running"
      BY DEF Running
    <2>1. CASE UNCHANGED store
      BY <2>1
    <2>2. ASSUME NEW j \in Keys, writeObjectToStore(j) PROVE store'[k] # Absent
      BY <2>0, <2>2 DEF writeObjectToStore, TypeOK, Absent
    <2>3. ASSUME NEW j \in Keys, JanitorVisit(j) PROVE store'[k] # Absent
      <3>1. CASE j # k
        BY <2>0, <2>3, <3>1 DEF JanitorVisit, TypeOK
      <3>2. CASE j = k
        <4>1. /\ swept[k] # Absent
              /\ swept[k] + 2 * FetchTime + PollPeriod + StoreTime + TicksPerSecond > sweptAt
              /\ now <= sweptAt + JanitorTime
          BY <2>0, <2>3, <3>2 DEF JanitorVisit, Fresh, Timing, Sweeping
        <4>2. CacheExpiry >= 2 * PollPeriod
          BY StoreAssumption DEF CacheExpiry
        <4>3. ~Expired(swept[k])
          BY <2>0, <4>1, <4>2, ExpiryType, StoreAssumption
             DEF Expired, Slack, TypeOK, Absent
        <4> QED
          BY <2>3, <3>2, <4>3 DEF JanitorVisit
      <3> QED
        BY <3>1, <3>2
    <2> QED
      BY <2>1, <2>2, <2>3 DEF Next, Begin, End, Poll, Send, JanitorStart, Tick
  <1> QED
    BY <1>1, <1>2, <1>3, OnTime, PTL DEF Spec, NoGaps
=============================================================================
