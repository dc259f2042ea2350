-------------------------- MODULE ThreadPoolProofs --------------------------
(***************************************************************************)
(* Proofs about ThreadPool, for all sets of workers, numbers of jobs and   *)
(* of calls: a call outlives its jobs, and the jobs of a call run once     *)
(* each before the next call begins.                                       *)
(***************************************************************************)
EXTENDS ThreadPool, FiniteSetTheorems, TLAPS

Calling == caller \in {"enqueue", "asleep", "woken"}

(* The workers whose job is not counted yet, and those counted as working. *)
Taken == {w \in Workers : at[w] \in {"running", "finishing"}}
OnJob == {w \in Workers : at[w] \in {"running", "finishing", "notified", "retiring"}}

(* Jobs of the call that workers took from the queue. *)
Handed == enqueued - Len(jobs)

Places ==
  /\ caller \in {"asleep", "woken"} => enqueued = NbJobs
  /\ ~ Calling => enqueued = 0
  /\ \A w \in Workers : at[w] = "notified" <=> mutex = w
  /\ mutex = "caller" <=> caller = "enqueue"
  /\ terminate <=> caller \in {"join", "end"}
  /\ caller \in {"stop", "join", "end"} <=> call = Rounds + 1

(* Every job of the call waits, is being run, or is counted. *)
Counts ==
  /\ working = Cardinality(OnJob)
  /\ enqueued = finished + Len(jobs) + Cardinality(Taken)

Owned ==
  /\ \A w \in Workers : InUse(w) => job[w][1] = call /\ job[w][2] \in Jobs /\ Calling
  /\ \A i \in DOMAIN jobs : jobs[i][1] = call

PoolInv == TypeOK /\ Places /\ Counts /\ Owned

(* The jobs leave the queue in order; one that left has run or is running. *)
InOrder ==
  /\ \A i \in DOMAIN jobs : jobs[i][2] = Handed + i
  /\ ran \subseteq 1..Handed
  /\ \A w \in Workers : at[w] = "running" => job[w][2] \in (1..Handed) \ ran
  /\ \A w, v \in Workers :
       at[w] = "running" /\ at[v] = "running" /\ job[w][2] = job[v][2] => w = v
  /\ \A j \in (1..Handed) \ ran : \E w \in Workers : at[w] = "running" /\ job[w][2] = j

-----------------------------------------------------------------------------
LEMMA WorkersCount ==
  ASSUME NEW S \in SUBSET Workers
  PROVE  /\ IsFiniteSet(S) /\ Cardinality(S) \in Nat /\ Cardinality(S) <= Cardinality(Workers)
         /\ Cardinality(Workers) \in Nat
         /\ Cardinality(S) = 0 <=> S = {}
         /\ \A w \in Workers :
              /\ w \notin S => Cardinality(S \union {w}) = Cardinality(S) + 1
              /\ w \in S => Cardinality(S \ {w}) = Cardinality(S) - 1
<1>1. IsFiniteSet(Workers)
  BY ConstantsAssumption DEF ConstantsAssumption
<1>2. IsFiniteSet(S) /\ Cardinality(S) <= Cardinality(Workers)
  BY <1>1, FS_Subset
<1>3. Cardinality(S) \in Nat /\ Cardinality(Workers) \in Nat
  BY <1>1, <1>2, FS_CardinalityType
<1>4. Cardinality(S) = 0 <=> S = {}
  BY <1>2, FS_EmptySet
<1>5. ASSUME NEW w \in Workers
      PROVE  /\ w \notin S => Cardinality(S \union {w}) = Cardinality(S) + 1
             /\ w \in S => Cardinality(S \ {w}) = Cardinality(S) - 1
  BY <1>2, FS_AddElement, FS_RemoveElement
<1> QED BY <1>2, <1>3, <1>4, <1>5

LEMMA Counted ==
  ASSUME TypeOK
  PROVE  /\ Cardinality(Taken) \in Nat /\ Cardinality(OnJob) \in 0..Cardinality(Workers)
         /\ Cardinality(Taken) = 0 <=> Taken = {}
         /\ Cardinality(OnJob) = 0 <=> OnJob = {}
         /\ Len(jobs) \in Nat
<1>1. Taken \in SUBSET Workers /\ OnJob \in SUBSET Workers
  BY DEF Taken, OnJob
<1>2. Len(jobs) \in Nat
  BY DEF TypeOK
<1> QED BY <1>1, <1>2, WorkersCount

(* A worker goes from one place to another. *)
LEMMA Moves ==
  ASSUME TypeOK, NEW w \in Workers,
         NEW to \in {"ready", "waiting", "running", "finishing", "notified", "retiring", "exited"},
         at' = [at EXCEPT ![w] = to]
  PROVE  /\ at' \in [Workers -> {"ready", "waiting", "running", "finishing", "notified",
                                 "retiring", "exited"}]
         /\ at'[w] = to /\ \A v \in Workers : v # w => at'[v] = at[v]
         /\ Cardinality(Taken') = Cardinality(Taken)
              + (IF to \in {"running", "finishing"} THEN 1 ELSE 0)
              - (IF at[w] \in {"running", "finishing"} THEN 1 ELSE 0)
         /\ Cardinality(OnJob') = Cardinality(OnJob)
              + (IF to \in {"running", "finishing", "notified", "retiring"} THEN 1 ELSE 0)
              - (IF at[w] \in {"running", "finishing", "notified", "retiring"} THEN 1 ELSE 0)
<1>1. /\ at' \in [Workers -> {"ready", "waiting", "running", "finishing", "notified",
                             "retiring", "exited"}]
      /\ at'[w] = to /\ \A v \in Workers : v # w => at'[v] = at[v]
  BY DEF TypeOK
<1>2. ASSUME NEW P, NEW S \in SUBSET Workers, NEW T \in SUBSET Workers,
             S = {v \in Workers : at[v] \in P}, T = {v \in Workers : at'[v] \in P}
      PROVE  Cardinality(T) = Cardinality(S) + (IF to \in P THEN 1 ELSE 0)
                                             - (IF at[w] \in P THEN 1 ELSE 0)
  <2>1. Cardinality(S) \in Nat /\ w \in Workers
    BY WorkersCount
  <2>2. CASE to \in P /\ at[w] \notin P
    <3>1. T = S \union {w} /\ w \notin S
      BY <1>1, <1>2, <2>2
    <3> QED BY <2>1, <2>2, <3>1, WorkersCount
  <2>3. CASE to \notin P /\ at[w] \in P
    <3>1. T = S \ {w} /\ w \in S
      BY <1>1, <1>2, <2>3
    <3> QED BY <2>1, <2>3, <3>1, WorkersCount
  <2>4. CASE to \in P <=> at[w] \in P
    <3>1. T = S
      BY <1>1, <1>2, <2>4
    <3> QED BY <2>1, <2>4, <3>1
  <2> QED BY <2>2, <2>3, <2>4
<1>3. /\ Taken \in SUBSET Workers /\ Taken' \in SUBSET Workers
      /\ OnJob \in SUBSET Workers /\ OnJob' \in SUBSET Workers
  BY DEF Taken, OnJob
<1>4. Cardinality(Taken') = Cardinality(Taken)
        + (IF to \in {"running", "finishing"} THEN 1 ELSE 0)
        - (IF at[w] \in {"running", "finishing"} THEN 1 ELSE 0)
  <2> DEFINE P == {"running", "finishing"}
  <2>1. Taken = {v \in Workers : at[v] \in P} /\ Taken' = {v \in Workers : at'[v] \in P}
    BY DEF Taken
  <2> HIDE DEF P
  <2>2. Cardinality(Taken') = Cardinality(Taken) + (IF to \in P THEN 1 ELSE 0)
                                                 - (IF at[w] \in P THEN 1 ELSE 0)
    BY <1>2, <1>3, <2>1
  <2> QED BY <2>2 DEF P
<1>5. Cardinality(OnJob') = Cardinality(OnJob)
        + (IF to \in {"running", "finishing", "notified", "retiring"} THEN 1 ELSE 0)
        - (IF at[w] \in {"running", "finishing", "notified", "retiring"} THEN 1 ELSE 0)
  <2> DEFINE P == {"running", "finishing", "notified", "retiring"}
  <2>1. OnJob = {v \in Workers : at[v] \in P} /\ OnJob' = {v \in Workers : at'[v] \in P}
    BY DEF OnJob
  <2> HIDE DEF P
  <2>2. Cardinality(OnJob') = Cardinality(OnJob) + (IF to \in P THEN 1 ELSE 0)
                                                 - (IF at[w] \in P THEN 1 ELSE 0)
    BY <1>2, <1>3, <2>1
  <2> QED BY <2>2 DEF P
<1> QED BY <1>1, <1>4, <1>5

(* Where workers and the caller are, and who holds the mutex. *)
LEMMA Names ==
  /\ Nobody # "caller" /\ \A w \in Workers : w # "caller" /\ w # Nobody
  /\ NbJobs \in Nat \ {0} /\ Rounds \in Nat \ {0}
BY ConstantsAssumption DEF ConstantsAssumption

-----------------------------------------------------------------------------
LEMMA PoolInvInit == Init => PoolInv
<1> SUFFICES ASSUME Init PROVE PoolInv
  OBVIOUS
<1>1. Taken = {} /\ OnJob = {}
  BY DEF Init, Taken, OnJob
<1>2. Cardinality(Taken) = 0 /\ Cardinality(OnJob) = 0
  BY <1>1, FS_EmptySet
<1>3. TypeOK
  <2>1. Cardinality(Workers) \in Nat /\ NbJobs \in Nat \ {0} /\ Rounds \in Nat \ {0}
    BY WorkersCount, Names
  <2>2. jobs \in Seq((1..Rounds) \X Jobs)
    BY DEF Init
  <2>3. job \in [Workers -> (0..Rounds) \X (0..NbJobs)]
    BY <2>1 DEF Init
  <2>4. 1 \in 1..(Rounds + 1) /\ 0 \in 0..NbJobs /\ 0 \in 0..Cardinality(Workers)
    BY <2>1
  <2> QED BY <2>2, <2>3, <2>4 DEF Init, TypeOK
<1>4. Places
  BY Names DEF Init, Places, Calling
<1>5. Owned
  BY DEF Init, Owned, InUse
<1> QED BY <1>2, <1>3, <1>4, <1>5 DEF PoolInv, Counts, Init

(* ThreadLoop: the steps that neither take nor end a job. *)
LEMMA InvIdleWorker ==
  ASSUME PoolInv, NEW w \in Workers, Leave(w) \/ WaitForJob(w) \/ WakeForNothing(w)
  PROVE  PoolInv'
<1>1. PICK to \in {"ready", "waiting", "exited"} : at' = [at EXCEPT ![w] = to]
  BY DEF Leave, WaitForJob, WakeForNothing
<1>2. /\ at[w] \in {"ready", "waiting"} /\ UNCHANGED <<pool, job, caller, frame, ran>>
  BY DEF Leave, WaitForJob, WakeForNothing
<1>3. /\ at' \in [Workers -> {"ready", "waiting", "running", "finishing", "notified",
                             "retiring", "exited"}]
      /\ at'[w] = to /\ \A v \in Workers : v # w => at'[v] = at[v]
      /\ Cardinality(Taken') = Cardinality(Taken) /\ Cardinality(OnJob') = Cardinality(OnJob)
  <2>1. TypeOK /\ Cardinality(Taken) \in Nat /\ Cardinality(OnJob) \in Nat
    BY Counted DEF PoolInv
  <2>2. /\ at' \in [Workers -> {"ready", "waiting", "running", "finishing", "notified",
                               "retiring", "exited"}]
        /\ at'[w] = to /\ \A v \in Workers : v # w => at'[v] = at[v]
        /\ Cardinality(Taken') = Cardinality(Taken) + 0 - 0
        /\ Cardinality(OnJob') = Cardinality(OnJob) + 0 - 0
    BY <1>1, <1>2, <2>1, Moves
  <2> QED BY <2>1, <2>2
<1>4. TypeOK'
  BY <1>2, <1>3 DEF PoolInv, TypeOK, pool, frame
<1>5. Places'
  BY <1>2, <1>3 DEF PoolInv, Places, Calling, pool, frame
<1>6. Counts'
  BY <1>2, <1>3 DEF PoolInv, Counts, pool, frame
<1>7. Owned'
  BY <1>2, <1>3 DEF PoolInv, Owned, InUse, Calling, pool, frame
<1> QED BY <1>4, <1>5, <1>6, <1>7 DEF PoolInv

LEMMA Taking ==
  ASSUME TypeOK, jobs # << >>
  PROVE  /\ Head(jobs) = jobs[1] /\ Head(jobs) \in (1..Rounds) \X Jobs
         /\ Tail(jobs) \in Seq((1..Rounds) \X Jobs) /\ Len(Tail(jobs)) = Len(jobs) - 1
         /\ DOMAIN jobs = 1..Len(jobs) /\ 1 \in DOMAIN jobs /\ Len(jobs) \in Nat
         /\ DOMAIN Tail(jobs) = 1..(Len(jobs) - 1)
         /\ \A i \in 1..(Len(jobs) - 1) : i + 1 \in DOMAIN jobs /\ Tail(jobs)[i] = jobs[i + 1]
BY DEF TypeOK

LEMMA InvTakeJob ==
  ASSUME PoolInv, NEW w \in Workers, TakeJob(w)
  PROVE  PoolInv'
<1>1. /\ at[w] = "ready" /\ jobs # << >> /\ job' = [job EXCEPT ![w] = Head(jobs)]
      /\ jobs' = Tail(jobs) /\ working' = working + 1 /\ at' = [at EXCEPT ![w] = "running"]
      /\ UNCHANGED <<terminate, caller, call, enqueued, finished, mutex, ran>>
  BY DEF TakeJob, frame
<1>2. /\ at' \in [Workers -> {"ready", "waiting", "running", "finishing", "notified",
                             "retiring", "exited"}]
      /\ at'[w] = "running" /\ \A v \in Workers : v # w => at'[v] = at[v]
      /\ Cardinality(Taken') = Cardinality(Taken) + 1
      /\ Cardinality(OnJob') = Cardinality(OnJob) + 1
  <2>1. TypeOK /\ Cardinality(Taken) \in Nat /\ Cardinality(OnJob) \in Nat
    BY Counted DEF PoolInv
  <2>2. /\ at' \in [Workers -> {"ready", "waiting", "running", "finishing", "notified",
                               "retiring", "exited"}]
        /\ at'[w] = "running" /\ \A v \in Workers : v # w => at'[v] = at[v]
        /\ Cardinality(Taken') = Cardinality(Taken) + 1 - 0
        /\ Cardinality(OnJob') = Cardinality(OnJob) + 1 - 0
    BY <1>1, <2>1, Moves
  <2> QED BY <2>1, <2>2
<1>3. Cardinality(OnJob') \in 0..Cardinality(Workers) /\ Cardinality(Taken) \in Nat
  <2>1. OnJob' \in SUBSET Workers
    BY DEF OnJob
  <2> QED BY <2>1, WorkersCount, Counted DEF PoolInv
<1>4. /\ Head(jobs) = jobs[1] /\ Head(jobs) \in (1..Rounds) \X Jobs
      /\ jobs' \in Seq((1..Rounds) \X Jobs) /\ Len(jobs') = Len(jobs) - 1 /\ Len(jobs) \in Nat
      /\ 1 \in DOMAIN jobs /\ DOMAIN jobs' = 1..(Len(jobs) - 1)
      /\ \A i \in DOMAIN jobs' : i + 1 \in DOMAIN jobs /\ jobs'[i] = jobs[i + 1]
  BY <1>1, Taking DEF PoolInv
<1>5. TypeOK'
  <2>1. job' \in [Workers -> (0..Rounds) \X (0..NbJobs)]
    <3>1. Head(jobs) \in (0..Rounds) \X (0..NbJobs)
      BY <1>4, Names DEF Jobs
    <3> QED BY <1>1, <3>1 DEF PoolInv, TypeOK
  <2>2. working' \in 0..Cardinality(Workers)
    BY <1>1, <1>2, <1>3 DEF PoolInv, Counts
  <2> QED BY <1>1, <1>2, <1>4, <2>1, <2>2 DEF PoolInv, TypeOK
<1>6. Places'
  BY <1>1, <1>2, Names DEF PoolInv, Places, Calling
<1>7. Counts'
  <2>1. /\ Len(jobs) \in Nat /\ Cardinality(Taken) \in Nat /\ finished \in Nat
        /\ enqueued = finished + Len(jobs) + Cardinality(Taken) /\ working = Cardinality(OnJob)
    BY <1>3, <1>4 DEF PoolInv, Counts, TypeOK
  <2>2. enqueued' = finished' + Len(jobs') + Cardinality(Taken')
    BY <1>1, <1>2, <1>4, <2>1
  <2>3. working' = Cardinality(OnJob')
    BY <1>1, <1>2, <2>1
  <2> QED BY <2>2, <2>3 DEF Counts
<1>8. Calling
  BY <1>1, <1>3, <1>4 DEF PoolInv, Places, Counts, TypeOK
<1>9. Owned'
  <2>1. jobs[1][1] = call /\ jobs[1][2] \in Jobs
    BY <1>4 DEF PoolInv, Owned
  <2>2. job'[w] = jobs[1] /\ \A v \in Workers : v # w => job'[v] = job[v]
    BY <1>1, <1>4 DEF PoolInv, TypeOK
  <2>3. \A v \in Workers : InUse(v)' => job'[v][1] = call' /\ job'[v][2] \in Jobs /\ Calling'
    BY <1>1, <1>2, <1>8, <2>1, <2>2 DEF PoolInv, Owned, InUse, Calling
  <2>4. \A i \in DOMAIN jobs' : jobs'[i][1] = call'
    BY <1>1, <1>4 DEF PoolInv, Owned
  <2> QED BY <2>3, <2>4 DEF Owned
<1> QED BY <1>5, <1>6, <1>7, <1>9 DEF PoolInv

(* The job enqueue_and_wait wraps. *)
LEMMA InvRunJob ==
  ASSUME PoolInv, NEW w \in Workers, RunJob(w)
  PROVE  PoolInv'
<1>1. /\ at[w] = "running" /\ at' = [at EXCEPT ![w] = "finishing"] /\ ran' = ran \union {job[w][2]}
      /\ UNCHANGED <<jobs, terminate, working, job, caller, call, enqueued, finished, mutex>>
  BY DEF RunJob, pool, frame
<1>2. /\ at' \in [Workers -> {"ready", "waiting", "running", "finishing", "notified",
                             "retiring", "exited"}]
      /\ at'[w] = "finishing" /\ \A v \in Workers : v # w => at'[v] = at[v]
      /\ Cardinality(Taken') = Cardinality(Taken) /\ Cardinality(Taken') \in Nat
      /\ Cardinality(OnJob') = Cardinality(OnJob)
      /\ Cardinality(OnJob') \in 0..Cardinality(Workers) /\ Cardinality(Taken) \in Nat
  <2>1. /\ TypeOK /\ Cardinality(Taken) \in Nat /\ Cardinality(OnJob) \in Nat
        /\ Cardinality(OnJob') \in 0..Cardinality(Workers) /\ Cardinality(Taken') \in Nat
    <3>1. OnJob' \in SUBSET Workers /\ Taken' \in SUBSET Workers
      BY DEF OnJob, Taken
    <3> QED BY <3>1, WorkersCount, Counted DEF PoolInv
  <2>2. /\ at' \in [Workers -> {"ready", "waiting", "running", "finishing", "notified",
                               "retiring", "exited"}]
        /\ at'[w] = "finishing" /\ \A v \in Workers : v # w => at'[v] = at[v]
        /\ Cardinality(Taken') = Cardinality(Taken) + 1 - 1
        /\ Cardinality(OnJob') = Cardinality(OnJob) + 1 - 1
    BY <1>1, <2>1, Moves
  <2> QED BY <2>1, <2>2
<1>3. Len(jobs) \in Nat /\ Cardinality(Taken) # 0
  <2>1. w \in Taken
    BY <1>1 DEF Taken
  <2> QED BY <2>1, Counted DEF PoolInv
<1>4. job[w][2] \in Jobs
  BY <1>1 DEF PoolInv, Owned, InUse
<1>5. TypeOK'
  BY <1>1, <1>2, <1>4 DEF PoolInv, TypeOK
<1>6. Places'
  BY <1>1, <1>2, Names DEF PoolInv, Places, Calling
<1>7. Counts'
  BY <1>1, <1>2 DEF PoolInv, Counts
<1>8. Owned'
  BY <1>1, <1>2 DEF PoolInv, Owned, InUse, Calling
<1> QED BY <1>5, <1>6, <1>7, <1>8 DEF PoolInv

LEMMA InvFinishJob ==
  ASSUME PoolInv, NEW w \in Workers, FinishJob(w)
  PROVE  PoolInv'
<1>1. /\ at[w] = "finishing" /\ at' = [at EXCEPT ![w] = "notified"] /\ mutex = Nobody /\ mutex' = w
      /\ finished' = finished + 1 /\ caller' = (IF caller = "asleep" THEN "woken" ELSE caller)
      /\ UNCHANGED <<jobs, terminate, working, job, call, enqueued, ran>>
  BY DEF FinishJob, pool
<1>2. /\ at' \in [Workers -> {"ready", "waiting", "running", "finishing", "notified",
                             "retiring", "exited"}]
      /\ at'[w] = "notified" /\ \A v \in Workers : v # w => at'[v] = at[v]
      /\ Cardinality(Taken') = Cardinality(Taken) - 1 /\ Cardinality(Taken') \in Nat
      /\ Cardinality(OnJob') = Cardinality(OnJob)
      /\ Cardinality(OnJob') \in 0..Cardinality(Workers) /\ Cardinality(Taken) \in Nat
  <2>1. /\ TypeOK /\ Cardinality(Taken) \in Nat /\ Cardinality(OnJob) \in Nat
        /\ Cardinality(OnJob') \in 0..Cardinality(Workers) /\ Cardinality(Taken') \in Nat
    <3>1. OnJob' \in SUBSET Workers /\ Taken' \in SUBSET Workers
      BY DEF OnJob, Taken
    <3> QED BY <3>1, WorkersCount, Counted DEF PoolInv
  <2>2. /\ at' \in [Workers -> {"ready", "waiting", "running", "finishing", "notified",
                               "retiring", "exited"}]
        /\ at'[w] = "notified" /\ \A v \in Workers : v # w => at'[v] = at[v]
        /\ Cardinality(Taken') = Cardinality(Taken) + 0 - 1
        /\ Cardinality(OnJob') = Cardinality(OnJob) + 1 - 1
    BY <1>1, <2>1, Moves
  <2> QED BY <2>1, <2>2
<1>3. /\ Len(jobs) \in Nat /\ finished \in Nat /\ enqueued \in 0..NbJobs
      /\ enqueued = finished + Len(jobs) + Cardinality(Taken)
  BY Counted DEF PoolInv, TypeOK, Counts
<1>4. finished' \in 0..NbJobs
  BY <1>1, <1>2, <1>3, Names
<1>5. Calling /\ caller # "enqueue" /\ Calling'
  BY <1>1, Names DEF PoolInv, Owned, InUse, Calling, Places
<1>6. TypeOK'
  BY <1>1, <1>2, <1>4 DEF PoolInv, TypeOK
<1>7. Places'
  <2>1. \A v \in Workers : at'[v] = "notified" <=> mutex' = v
    BY <1>1, <1>2, Names DEF PoolInv, Places
  <2> QED BY <1>1, <1>5, <2>1, Names DEF PoolInv, Places, Calling
<1>8. Counts'
  BY <1>1, <1>2, <1>3 DEF PoolInv, Counts
<1>9. Owned'
  BY <1>1, <1>2, <1>5 DEF PoolInv, Owned, InUse
<1> QED BY <1>6, <1>7, <1>8, <1>9 DEF PoolInv

LEMMA InvReleaseMutex ==
  ASSUME PoolInv, NEW w \in Workers, ReleaseMutex(w)
  PROVE  PoolInv'
<1>1. /\ at[w] = "notified" /\ at' = [at EXCEPT ![w] = "retiring"] /\ mutex' = Nobody
      /\ UNCHANGED <<jobs, terminate, working, job, caller, call, enqueued, finished, ran>>
  BY DEF ReleaseMutex, pool
<1>2. /\ at' \in [Workers -> {"ready", "waiting", "running", "finishing", "notified",
                             "retiring", "exited"}]
      /\ at'[w] = "retiring" /\ \A v \in Workers : v # w => at'[v] = at[v]
      /\ Cardinality(Taken') = Cardinality(Taken) /\ Cardinality(Taken') \in Nat
      /\ Cardinality(OnJob') = Cardinality(OnJob)
      /\ Cardinality(OnJob') \in 0..Cardinality(Workers) /\ Cardinality(Taken) \in Nat
  <2>1. /\ TypeOK /\ Cardinality(Taken) \in Nat /\ Cardinality(OnJob) \in Nat
        /\ Cardinality(OnJob') \in 0..Cardinality(Workers) /\ Cardinality(Taken') \in Nat
    <3>1. OnJob' \in SUBSET Workers /\ Taken' \in SUBSET Workers
      BY DEF OnJob, Taken
    <3> QED BY <3>1, WorkersCount, Counted DEF PoolInv
  <2>2. /\ at' \in [Workers -> {"ready", "waiting", "running", "finishing", "notified",
                               "retiring", "exited"}]
        /\ at'[w] = "retiring" /\ \A v \in Workers : v # w => at'[v] = at[v]
        /\ Cardinality(Taken') = Cardinality(Taken) + 0 - 0
        /\ Cardinality(OnJob') = Cardinality(OnJob) + 1 - 1
    BY <1>1, <2>1, Moves
  <2> QED BY <2>1, <2>2
<1>3. TypeOK'
  BY <1>1, <1>2 DEF PoolInv, TypeOK
<1>4. Places'
  <2>1. mutex = w /\ \A v \in Workers : at'[v] # "notified"
    BY <1>1, <1>2 DEF PoolInv, Places
  <2> QED BY <1>1, <2>1, Names DEF PoolInv, Places, Calling
<1>5. Counts'
  BY <1>1, <1>2 DEF PoolInv, Counts
<1>6. Owned'
  BY <1>1, <1>2 DEF PoolInv, Owned, InUse, Calling
<1> QED BY <1>3, <1>4, <1>5, <1>6 DEF PoolInv

LEMMA InvRetireJob ==
  ASSUME PoolInv, NEW w \in Workers, RetireJob(w)
  PROVE  PoolInv'
<1>1. /\ at[w] = "retiring" /\ at' = [at EXCEPT ![w] = "ready"] /\ working' = working - 1
      /\ UNCHANGED <<jobs, terminate, job, caller, call, enqueued, finished, mutex, ran>>
  BY DEF RetireJob, frame
<1>2. /\ at' \in [Workers -> {"ready", "waiting", "running", "finishing", "notified",
                             "retiring", "exited"}]
      /\ at'[w] = "ready" /\ \A v \in Workers : v # w => at'[v] = at[v]
      /\ Cardinality(Taken') = Cardinality(Taken) /\ Cardinality(Taken') \in Nat
      /\ Cardinality(OnJob') = Cardinality(OnJob) - 1
      /\ Cardinality(OnJob') \in 0..Cardinality(Workers) /\ Cardinality(Taken) \in Nat
  <2>1. /\ TypeOK /\ Cardinality(Taken) \in Nat /\ Cardinality(OnJob) \in Nat
        /\ Cardinality(OnJob') \in 0..Cardinality(Workers) /\ Cardinality(Taken') \in Nat
    <3>1. OnJob' \in SUBSET Workers /\ Taken' \in SUBSET Workers
      BY DEF OnJob, Taken
    <3> QED BY <3>1, WorkersCount, Counted DEF PoolInv
  <2>2. /\ at' \in [Workers -> {"ready", "waiting", "running", "finishing", "notified",
                               "retiring", "exited"}]
        /\ at'[w] = "ready" /\ \A v \in Workers : v # w => at'[v] = at[v]
        /\ Cardinality(Taken') = Cardinality(Taken) + 0 - 0
        /\ Cardinality(OnJob') = Cardinality(OnJob) + 0 - 1
    BY <1>1, <2>1, Moves
  <2> QED BY <2>1, <2>2
<1>3. TypeOK' /\ Counts'
  BY <1>1, <1>2 DEF PoolInv, TypeOK, Counts
<1>4. Places'
  BY <1>1, <1>2 DEF PoolInv, Places, Calling
<1>5. Owned'
  BY <1>1, <1>2 DEF PoolInv, Owned, InUse, Calling
<1> QED BY <1>3, <1>4, <1>5 DEF PoolInv

-----------------------------------------------------------------------------
(* enqueue_and_wait: what leaves the workers where they are. *)
LEMMA SameCounts ==
  ASSUME PoolInv, \A w \in Workers : at'[w] # at[w] => at[w] = "waiting" /\ at'[w] = "ready"
  PROVE  /\ Taken' = Taken /\ OnJob' = OnJob
         /\ \A w \in Workers : InUse(w)' = InUse(w) /\ (at'[w] = "notified" <=> at[w] = "notified")
BY DEF Taken, OnJob, InUse

LEMMA InvCaller ==
  ASSUME PoolInv, BeginCall \/ WaitForJobs \/ CallerWakesForNothing \/ Stop \/ Join
  PROVE  PoolInv'
<1>1. /\ UNCHANGED <<jobs, working, job, call, enqueued, finished, ran>>
      /\ \A w \in Workers : at'[w] # at[w] => at[w] = "waiting" /\ at'[w] = "ready"
      /\ at' \in [Workers -> {"ready", "waiting", "running", "finishing", "notified",
                              "retiring", "exited"}]
  BY DEF PoolInv, TypeOK, BeginCall, WaitForJobs, CallerWakesForNothing, Stop, Join, pool, frame
<1>2. /\ Taken' = Taken /\ OnJob' = OnJob
      /\ \A w \in Workers : InUse(w)' = InUse(w) /\ (at'[w] = "notified" <=> at[w] = "notified")
  BY <1>1, SameCounts
<1>3. TypeOK'
  BY <1>1 DEF PoolInv, TypeOK, BeginCall, WaitForJobs, CallerWakesForNothing, Stop, Join, pool, frame
<1>4. Counts'
  BY <1>1, <1>2 DEF PoolInv, Counts
<1>5. CASE BeginCall
  <2>1. /\ caller = "begin" /\ caller' = "enqueue" /\ mutex = Nobody /\ mutex' = "caller"
        /\ terminate' = terminate
    BY <1>5 DEF BeginCall, pool
  <2>2. Places'
    BY <1>1, <1>2, <2>1, Names DEF PoolInv, Places, Calling
  <2>3. Owned'
    BY <1>1, <1>2, <2>1 DEF PoolInv, Owned, Calling
  <2> QED BY <1>3, <1>4, <2>2, <2>3 DEF PoolInv
<1>6. CASE WaitForJobs
  <2>1. /\ \/ caller = "enqueue" /\ enqueued = NbJobs
           \/ caller = "woken" /\ mutex = Nobody
        /\ caller' = "asleep" /\ mutex' = Nobody /\ terminate' = terminate
    BY <1>6 DEF WaitForJobs, pool
  <2>2. Places'
    <3>1. \A w \in Workers : at[w] # "notified"
      BY <2>1, Names DEF PoolInv, Places
    <3> QED BY <1>1, <1>2, <2>1, <3>1, Names DEF PoolInv, Places, Calling
  <2>3. Owned'
    BY <1>1, <1>2, <2>1 DEF PoolInv, Owned, Calling
  <2> QED BY <1>3, <1>4, <2>2, <2>3 DEF PoolInv
<1>7. CASE CallerWakesForNothing
  <2>1. caller = "asleep" /\ caller' = "woken" /\ mutex' = mutex /\ terminate' = terminate
    BY <1>7 DEF CallerWakesForNothing, pool, frame
  <2>2. Places' /\ Owned'
    BY <1>1, <1>2, <2>1, Names DEF PoolInv, Places, Owned, Calling
  <2> QED BY <1>3, <1>4, <2>2 DEF PoolInv
<1>8. CASE Stop \/ Join
  <2>1. /\ mutex' = mutex
        /\ \/ caller = "stop" /\ caller' = "join" /\ terminate' = TRUE
           \/ caller = "join" /\ caller' = "end" /\ terminate' = terminate
    BY <1>8 DEF Stop, Join, pool, frame
  <2>2. Places' /\ Owned'
    BY <1>1, <1>2, <2>1, Names DEF PoolInv, Places, Owned, Calling
  <2> QED BY <1>3, <1>4, <2>2 DEF PoolInv
<1> QED BY <1>5, <1>6, <1>7, <1>8

LEMMA InvEnqueueJob ==
  ASSUME PoolInv, EnqueueJob
  PROVE  PoolInv'
<1>1. /\ caller = "enqueue" /\ enqueued < NbJobs /\ enqueued' = enqueued + 1
      /\ jobs' = Append(jobs, <<call, enqueued + 1>>)
      /\ UNCHANGED <<terminate, working, job, caller, call, finished, mutex, ran>>
      /\ \A w \in Workers : at'[w] # at[w] => at[w] = "waiting" /\ at'[w] = "ready"
      /\ at' \in [Workers -> {"ready", "waiting", "running", "finishing", "notified",
                              "retiring", "exited"}]
  BY DEF PoolInv, TypeOK, EnqueueJob, Waiting
<1>2. /\ Taken' = Taken /\ OnJob' = OnJob
      /\ \A w \in Workers : InUse(w)' = InUse(w) /\ (at'[w] = "notified" <=> at[w] = "notified")
  BY <1>1, SameCounts
<1>3. /\ jobs \in Seq((1..Rounds) \X Jobs) /\ <<call, enqueued + 1>> \in (1..Rounds) \X Jobs
  BY <1>1, Names DEF PoolInv, TypeOK, Places, Jobs
<1>4. /\ jobs' \in Seq((1..Rounds) \X Jobs) /\ Len(jobs') = Len(jobs) + 1 /\ Len(jobs) \in Nat
      /\ \A i \in DOMAIN jobs' : \/ i \in DOMAIN jobs /\ jobs'[i] = jobs[i]
                                 \/ jobs'[i] = <<call, enqueued + 1>>
  BY <1>1, <1>3
<1>5. TypeOK'
  <2>1. enqueued' \in 0..NbJobs
    BY <1>1, Names DEF PoolInv, TypeOK
  <2> QED BY <1>1, <1>4, <2>1 DEF PoolInv, TypeOK
<1>6. Counts'
  <2>1. /\ Len(jobs) \in Nat /\ Cardinality(Taken) \in Nat /\ finished \in Nat
        /\ enqueued = finished + Len(jobs) + Cardinality(Taken) /\ working = Cardinality(OnJob)
    BY Counted DEF PoolInv, Counts, TypeOK
  <2>2. enqueued' = finished' + Len(jobs') + Cardinality(Taken')
    BY <1>1, <1>2, <1>4, <2>1
  <2> QED BY <1>1, <1>2, <2>1, <2>2 DEF Counts
<1>7. Places'
  BY <1>1, <1>2 DEF PoolInv, Places, Calling
<1>8. Owned'
  BY <1>1, <1>2, <1>4 DEF PoolInv, Owned, Calling
<1> QED BY <1>5, <1>6, <1>7, <1>8 DEF PoolInv

(* A call returns when its jobs were counted, and nobody is left with them. *)
LEMMA AllCounted ==
  ASSUME PoolInv, EndCall
  PROVE  /\ enqueued = NbJobs /\ Len(jobs) = 0 /\ jobs = << >> /\ Taken = {}
         /\ \A w \in Workers : ~ InUse(w)
         /\ call \in 1..Rounds /\ finished = NbJobs
<1>1. /\ enqueued = NbJobs /\ finished >= NbJobs /\ Calling
      /\ \A w \in Workers : at[w] # "notified"
  BY Names DEF EndCall, PoolInv, Places, Calling
<1>2. /\ Len(jobs) \in Nat /\ Cardinality(Taken) \in Nat /\ finished \in 0..NbJobs /\ jobs \in Seq((1..Rounds) \X Jobs)
      /\ enqueued = finished + Len(jobs) + Cardinality(Taken)
      /\ Cardinality(Taken) = 0 <=> Taken = {}
  BY Counted DEF PoolInv, TypeOK, Counts
<1>3. Len(jobs) = 0 /\ Cardinality(Taken) = 0 /\ finished = NbJobs
  BY <1>1, <1>2, Names
<1>4. jobs = << >>
  BY <1>2, <1>3
<1>5. \A w \in Workers : ~ InUse(w)
  BY <1>1, <1>2, <1>3 DEF Taken, InUse
<1>6. call \in 1..Rounds
  <2>1. call # Rounds + 1
    BY <1>1 DEF PoolInv, Places, Calling
  <2> QED BY <2>1, Names DEF PoolInv, TypeOK
<1> QED BY <1>1, <1>2, <1>3, <1>4, <1>5, <1>6

LEMMA InvEndCall ==
  ASSUME PoolInv, EndCall
  PROVE  PoolInv'
<1>1. /\ Len(jobs) = 0 /\ jobs = << >> /\ Taken = {} /\ call \in 1..Rounds
      /\ \A w \in Workers : ~ InUse(w)
  BY AllCounted
<1>2. /\ call' = call + 1 /\ caller' = (IF call = Rounds THEN "stop" ELSE "begin")
      /\ enqueued' = 0 /\ finished' = 0 /\ mutex' = Nobody /\ ran' = {}
      /\ UNCHANGED <<jobs, terminate, working, at, job>>
      /\ caller \in {"enqueue", "woken"}
  BY DEF EndCall, pool
<1>3. /\ Taken' = {} /\ OnJob' = OnJob /\ \A w \in Workers : ~ InUse(w)'
  BY <1>1, <1>2 DEF Taken, OnJob, InUse
<1>4. TypeOK'
  BY <1>1, <1>2, Names DEF PoolInv, TypeOK
<1>5. Counts'
  BY <1>1, <1>2, <1>3, FS_EmptySet DEF PoolInv, Counts
<1>6. Places'
  <2>1. \A w \in Workers : at[w] # "notified"
    BY <1>1 DEF InUse
  <2>2. ~ terminate /\ call' = Rounds + 1 <=> call = Rounds
    BY <1>1, <1>2, Names DEF PoolInv, Places
  <2> QED BY <1>1, <1>2, <2>1, <2>2, Names DEF PoolInv, Places, Calling
<1>7. Owned'
  BY <1>1, <1>2, <1>3 DEF Owned
<1> QED BY <1>4, <1>5, <1>6, <1>7 DEF PoolInv

LEMMA PoolInvNext == PoolInv /\ [Next]_vars => PoolInv'
<1> SUFFICES ASSUME PoolInv, [Next]_vars PROVE PoolInv'
  OBVIOUS
<1>1. CASE BeginCall \/ WaitForJobs \/ CallerWakesForNothing \/ Stop \/ Join
  BY <1>1, InvCaller
<1>2. CASE EnqueueJob
  BY <1>2, InvEnqueueJob
<1>3. CASE EndCall
  BY <1>3, InvEndCall
<1>4. ASSUME NEW w \in Workers, WorkerStep(w) \/ WakeForNothing(w) PROVE PoolInv'
  BY <1>4, InvIdleWorker, InvTakeJob, InvRunJob, InvFinishJob, InvReleaseMutex, InvRetireJob
     DEF WorkerStep
<1>5. CASE UNCHANGED vars
  BY <1>5 DEF vars, PoolInv, TypeOK, Places, Counts, Owned, Calling, Taken, OnJob, InUse
<1> QED BY <1>1, <1>2, <1>3, <1>4, <1>5 DEF Next, CallerStep, Terminated

LEMMA PoolInvHolds == Spec => []PoolInv
BY PoolInvInit, PoolInvNext, PTL DEF Spec

(* The pool and the calls keep their shape: no worker counts a job more     *)
(* than once, and the counters stay within the workers and the jobs.        *)
THEOREM TypeCorrect == Spec => []TypeOK
<1>1. PoolInv => TypeOK
  BY DEF PoolInv
<1> QED BY <1>1, PoolInvHolds, PTL

(* enqueue_and_wait: the call does not return, taking its counter, mutex    *)
(* and jobs away, while a worker or the queue still has one of its jobs.    *)
THEOREM CallOutlivesItsJobsHolds == Spec => []CallOutlivesItsJobs
<1>1. PoolInv => CallOutlivesItsJobs
  <2> SUFFICES ASSUME PoolInv PROVE CallOutlivesItsJobs
    OBVIOUS
  <2>1. jobs # << >> => Calling
    <3> SUFFICES ASSUME jobs # << >>, ~ Calling PROVE FALSE
      OBVIOUS
    <3>1. Len(jobs) \in Nat \ {0} /\ enqueued = 0 /\ finished \in Nat
      BY DEF PoolInv, TypeOK, Places
    <3>2. Cardinality(Taken) \in Nat /\ enqueued = finished + Len(jobs) + Cardinality(Taken)
      BY Counted DEF PoolInv, Counts
    <3> QED BY <3>1, <3>2
  <2>2. \A i \in DOMAIN jobs : jobs # << >>
    BY DEF PoolInv, TypeOK
  <2> QED BY <2>1, <2>2 DEF PoolInv, Owned, CallOutlivesItsJobs, Calling
<1> QED BY <1>1, PoolInvHolds, PTL

(* busy: the pool is busy as long as one of its workers uses a job. *)
THEOREM BusyWhileWorkingHolds == Spec => []BusyWhileWorking
<1>1. PoolInv => BusyWhileWorking
  <2> SUFFICES ASSUME PoolInv, NEW w \in Workers, InUse(w) PROVE working > 0
    BY DEF BusyWhileWorking, Busy
  <2>1. w \in OnJob
    BY DEF OnJob, InUse
  <2>2. Cardinality(OnJob) # 0 /\ Cardinality(OnJob) \in 0..Cardinality(Workers)
    BY <2>1, Counted DEF PoolInv
  <2>3. Cardinality(Workers) \in Nat
    BY WorkersCount
  <2> QED BY <2>2, <2>3 DEF PoolInv, Counts
<1> QED BY <1>1, PoolInvHolds, PTL

-----------------------------------------------------------------------------
LEMMA HandedType ==
  ASSUME PoolInv
  PROVE  Handed \in 0..NbJobs /\ Len(jobs) \in Nat /\ enqueued = Handed + Len(jobs)
<1>1. /\ Len(jobs) \in Nat /\ Cardinality(Taken) \in Nat /\ finished \in Nat /\ enqueued \in 0..NbJobs
      /\ enqueued = finished + Len(jobs) + Cardinality(Taken)
  BY Counted DEF PoolInv, TypeOK, Counts
<1> QED BY <1>1, Names DEF Handed

LEMMA InOrderInit == Init => InOrder
<1> SUFFICES ASSUME Init PROVE InOrder
  OBVIOUS
<1>1. Handed = 0 /\ DOMAIN jobs = {} /\ ran = {} /\ \A w \in Workers : at[w] = "ready"
  <2>1. jobs = << >> /\ enqueued = 0 /\ ran = {} /\ \A w \in Workers : at[w] = "ready"
    BY DEF Init
  <2>2. Len(jobs) = 0 /\ DOMAIN jobs = {} /\ 0 - 0 = 0
    BY <2>1
  <2>3. Handed = 0 - 0
    BY <2>1, <2>2, Zenon DEF Handed
  <2> QED BY <2>1, <2>2, <2>3, Zenon
<1>2. 1..Handed = {}
  BY <1>1
<1> QED BY <1>1, <1>2 DEF InOrder

LEMMA SameOrder ==
  ASSUME InOrder, UNCHANGED <<jobs, job, enqueued, ran>>,
         \A w \in Workers : at'[w] = "running" <=> at[w] = "running"
  PROVE  InOrder'
BY DEF InOrder, Handed

(* The next job goes from the queue to a worker. *)
LEMMA InOrderTakeJob ==
  ASSUME PoolInv, InOrder, NEW w \in Workers, TakeJob(w)
  PROVE  InOrder'
<1> DEFINE n == Handed + 1
<1>1. /\ at[w] = "ready" /\ jobs # << >> /\ job' = [job EXCEPT ![w] = Head(jobs)]
      /\ jobs' = Tail(jobs) /\ at' = [at EXCEPT ![w] = "running"]
      /\ UNCHANGED <<enqueued, ran>>
  BY DEF TakeJob, frame
<1>2. /\ Head(jobs) = jobs[1] /\ 1 \in DOMAIN jobs /\ Len(jobs') = Len(jobs) - 1
      /\ DOMAIN jobs' = 1..(Len(jobs) - 1)
      /\ \A i \in DOMAIN jobs' : i + 1 \in DOMAIN jobs /\ jobs'[i] = jobs[i + 1]
  BY <1>1, Taking DEF PoolInv
<1>3. Handed \in Nat /\ Handed' = n /\ enqueued \in Nat
  BY <1>1, <1>2, HandedType, Names DEF PoolInv, TypeOK, Handed
<1>4. /\ at'[w] = "running" /\ job'[w] = jobs[1] /\ jobs[1][2] = n
      /\ \A v \in Workers : v # w => at'[v] = at[v] /\ job'[v] = job[v]
  BY <1>1, <1>2 DEF PoolInv, TypeOK, InOrder
<1>5. 1..n = (1..Handed) \union {n} /\ n \notin 1..Handed
  BY <1>3
<1>6. \A i \in DOMAIN jobs' : jobs'[i][2] = Handed' + i
  BY <1>2, <1>3 DEF InOrder
<1>7. ran' \subseteq 1..Handed' /\ n \notin ran
  BY <1>1, <1>3, <1>5 DEF InOrder
<1> HIDE DEF n
<1>8. \A v \in Workers : at'[v] = "running" => job'[v][2] \in (1..Handed') \ ran'
  BY <1>1, <1>3, <1>4, <1>5, <1>7 DEF InOrder
<1>9. \A u, v \in Workers :
        at'[u] = "running" /\ at'[v] = "running" /\ job'[u][2] = job'[v][2] => u = v
  BY <1>4, <1>5 DEF InOrder
<1>10. \A j \in (1..Handed') \ ran' : \E v \in Workers : at'[v] = "running" /\ job'[v][2] = j
  BY <1>1, <1>3, <1>4, <1>5 DEF InOrder
<1> QED BY <1>6, <1>7, <1>8, <1>9, <1>10 DEF InOrder

(* A job that runs was handed out and has not run before. *)
LEMMA InOrderRunJob ==
  ASSUME PoolInv, InOrder, NEW w \in Workers, RunJob(w)
  PROVE  InOrder' /\ Barrier!Run /\ call \in 1..Rounds
<1>1. /\ at[w] = "running" /\ at' = [at EXCEPT ![w] = "finishing"]
      /\ ran' = ran \union {job[w][2]} /\ UNCHANGED <<jobs, job, enqueued, call>>
  BY DEF RunJob, pool, frame
<1>2. /\ at'[w] = "finishing" /\ \A v \in Workers : v # w => at'[v] = at[v]
      /\ job[w][2] \in (1..Handed) \ ran /\ Handed' = Handed
  BY <1>1 DEF PoolInv, TypeOK, InOrder, Handed
<1>3. /\ \A i \in DOMAIN jobs' : jobs'[i][2] = Handed' + i
      /\ ran' \subseteq 1..Handed'
  BY <1>1, <1>2 DEF InOrder
<1>4. \A v \in Workers : at'[v] = "running" => job'[v][2] \in (1..Handed') \ ran'
  BY <1>1, <1>2 DEF InOrder
<1>5. \A u, v \in Workers :
        at'[u] = "running" /\ at'[v] = "running" /\ job'[u][2] = job'[v][2] => u = v
  BY <1>1, <1>2 DEF InOrder
<1>6. \A j \in (1..Handed') \ ran' : \E v \in Workers : at'[v] = "running" /\ job'[v][2] = j
  BY <1>1, <1>2 DEF InOrder
<1>7. Barrier!Run
  BY <1>1, <1>2 DEF Barrier!Run, PoolInv, Owned, InUse
<1>8. call \in 1..Rounds
  <2>1. Calling
    BY <1>1 DEF PoolInv, Owned, InUse
  <2>2. call # Rounds + 1
    BY <2>1 DEF PoolInv, Places, Calling
  <2> QED BY <2>2, Names DEF PoolInv, TypeOK
<1> QED BY <1>3, <1>4, <1>5, <1>6, <1>7, <1>8 DEF InOrder

LEMMA InOrderEnqueueJob ==
  ASSUME PoolInv, InOrder, EnqueueJob
  PROVE  InOrder'
<1>1. /\ enqueued' = enqueued + 1 /\ jobs' = Append(jobs, <<call, enqueued + 1>>)
      /\ UNCHANGED <<job, ran>>
      /\ \A w \in Workers : at'[w] = "running" <=> at[w] = "running"
  BY DEF PoolInv, TypeOK, EnqueueJob, Waiting
<1>2. jobs \in Seq((1..Rounds) \X Jobs) /\ enqueued = Handed + Len(jobs) /\ Len(jobs) \in Nat /\ Handed \in Nat
  BY HandedType, Names DEF PoolInv, TypeOK
<1>3. /\ Len(jobs') = Len(jobs) + 1 /\ DOMAIN jobs' = 1..(Len(jobs) + 1) /\ DOMAIN jobs = 1..Len(jobs)
      /\ \A i \in 1..Len(jobs) : jobs'[i] = jobs[i]
      /\ jobs'[Len(jobs) + 1] = <<call, enqueued + 1>>
  BY <1>1, <1>2
<1>4. Handed' = Handed
  BY <1>1, <1>2, <1>3 DEF Handed
<1>5. \A i \in DOMAIN jobs' : jobs'[i][2] = Handed' + i
  <2>1. ASSUME NEW i \in 1..Len(jobs) PROVE jobs'[i][2] = Handed' + i
    BY <1>3, <1>4 DEF InOrder
  <2>2. jobs'[Len(jobs) + 1][2] = Handed' + (Len(jobs) + 1)
    BY <1>2, <1>3, <1>4
  <2>3. \A i \in DOMAIN jobs' : i \in 1..Len(jobs) \/ i = Len(jobs) + 1
    BY <1>2, <1>3
  <2> QED BY <2>1, <2>2, <2>3
<1> QED BY <1>1, <1>4, <1>5 DEF InOrder

(* When a call returns, all its jobs have run. *)
LEMMA InOrderEndCall ==
  ASSUME PoolInv, InOrder, EndCall
  PROVE  InOrder' /\ Barrier!NextRound /\ call \in 1..Rounds
<1>1. /\ enqueued = NbJobs /\ Len(jobs) = 0 /\ jobs = << >> /\ call \in 1..Rounds
      /\ \A w \in Workers : ~ InUse(w)
  BY AllCounted
<1>2. /\ call' = call + 1 /\ enqueued' = 0 /\ ran' = {} /\ UNCHANGED <<jobs, at, job>>
  BY DEF EndCall, pool
<1>3. \A w \in Workers : at[w] # "running"
  BY <1>1 DEF InUse
<1>4. Handed = NbJobs /\ Handed' = 0
  <2>1. NbJobs - 0 = NbJobs /\ 0 - 0 = 0 /\ Len(jobs') = Len(jobs)
    BY <1>2, Names
  <2> QED BY <1>1, <1>2, <2>1 DEF Handed
<1>5. ran = Jobs
  BY <1>3, <1>4 DEF InOrder, Jobs
<1>6. InOrder'
  <2>1. 1..Handed' = {} /\ DOMAIN jobs' = {}
    BY <1>1, <1>2, <1>4
  <2> QED BY <1>2, <1>3, <2>1 DEF InOrder
<1>7. Barrier!NextRound
  BY <1>1, <1>2, <1>5, Names DEF Barrier!NextRound
<1> QED BY <1>1, <1>6, <1>7

(* Every step of the pool is one of the barrier, or none. *)
LEMMA BarrierStep ==
  PoolInv /\ InOrder /\ [Next]_vars => InOrder' /\ [Barrier!Next]_<<call, ran>>
<1> SUFFICES ASSUME PoolInv, InOrder, [Next]_vars
             PROVE  InOrder' /\ [Barrier!Next]_<<call, ran>>
  OBVIOUS
<1>1. ASSUME UNCHANGED <<jobs, job, enqueued, ran, call>>,
             \A w \in Workers : at'[w] = "running" <=> at[w] = "running"
      PROVE  InOrder' /\ [Barrier!Next]_<<call, ran>>
  BY <1>1, SameOrder
<1>2. CASE EnqueueJob
  BY <1>2, InOrderEnqueueJob DEF EnqueueJob
<1>3. CASE EndCall
  BY <1>3, InOrderEndCall, Names DEF Barrier!Next
<1>4. CASE BeginCall \/ WaitForJobs \/ CallerWakesForNothing \/ Stop \/ Join
  <2>1. UNCHANGED <<jobs, job, enqueued, ran, call>>
    BY <1>4 DEF BeginCall, WaitForJobs, CallerWakesForNothing, Stop, Join, pool, frame
  <2>2. \A w \in Workers : at'[w] = "running" <=> at[w] = "running"
    BY <1>4 DEF BeginCall, WaitForJobs, CallerWakesForNothing, Stop, Join
  <2> QED BY <1>1, <2>1, <2>2
<1>5. ASSUME NEW w \in Workers, TakeJob(w) PROVE InOrder' /\ [Barrier!Next]_<<call, ran>>
  BY <1>5, InOrderTakeJob DEF TakeJob, frame
<1>6. ASSUME NEW w \in Workers, RunJob(w) PROVE InOrder' /\ [Barrier!Next]_<<call, ran>>
  BY <1>6, InOrderRunJob, Names DEF Barrier!Next
<1>7. ASSUME NEW w \in Workers, \/ Leave(w) \/ WaitForJob(w) \/ WakeForNothing(w)
                                \/ FinishJob(w) \/ ReleaseMutex(w) \/ RetireJob(w)
      PROVE  InOrder' /\ [Barrier!Next]_<<call, ran>>
  <2>1. UNCHANGED <<jobs, job, enqueued, ran, call>>
    BY <1>7 DEF Leave, WaitForJob, WakeForNothing, FinishJob, ReleaseMutex, RetireJob, pool, frame
  <2>2. \A v \in Workers : at'[v] = "running" <=> at[v] = "running"
    BY <1>7 DEF PoolInv, TypeOK, Leave, WaitForJob, WakeForNothing, FinishJob, ReleaseMutex, RetireJob
  <2> QED BY <1>1, <2>1, <2>2
<1>8. CASE UNCHANGED vars
  BY <1>1, <1>8 DEF vars
<1> QED BY <1>2, <1>3, <1>4, <1>5, <1>6, <1>7, <1>8 DEF Next, CallerStep, WorkerStep, Terminated

(* dispatch_apply and dispatch_revert: the pool does what BatchBarrier      *)
(* promises; that it gets to the end is for FairSpec, and TLC.              *)
THEOREM PoolIsBarrier == Spec => Barrier!Init /\ [][Barrier!Next]_<<call, ran>>
<1>1. Init => Barrier!Init
  BY DEF Init, Barrier!Init
<1> QED BY <1>1, PoolInvInit, PoolInvNext, InOrderInit, BarrierStep, PTL DEF Spec
=============================================================================
