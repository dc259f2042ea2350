----------------------------- MODULE ThreadPool -----------------------------
(***************************************************************************)
(* The thread pool of octopus (utils/ThreadPool.cc) at work for            *)
(* dispatch_apply and dispatch_revert (StepContainer.hh): the simulation   *)
(* thread hands the jobs of one container after the other to the workers   *)
(* with enqueue_and_wait, and stops the pool when the world is destroyed.  *)
(* A container has one job per type of step; the worlds the engine makes   *)
(* have fewer workers than types (WorldContext.hh).                        *)
(*                                                                         *)
(* A critical section that waits for nothing is one action.  The mutex of  *)
(* a call is held across actions: by the caller while it enqueues, by a    *)
(* worker from the increment of the counter to the end of the job.         *)
(***************************************************************************)
EXTENDS Naturals, Sequences, FiniteSets

CONSTANTS Workers,  \* the threads of the pool
          NbJobs,   \* jobs of one call: the number of step types
          Rounds,   \* bound: calls before the pool is stopped
          Nobody    \* holds no mutex

ASSUME ConstantsAssumption ==
  /\ IsFiniteSet(Workers) /\ Workers # {}
  /\ NbJobs \in Nat \ {0} /\ Rounds \in Nat \ {0}
  /\ Nobody \notin Workers \union {"caller"} /\ "caller" \notin Workers

Jobs == 1..NbJobs

VARIABLES jobs,       \* the queue of the pool: <<call, n>> stands for a job
          terminate,  \* should_terminate
          working,    \* the jobs taken and not retired
          at,         \* at[w]: where worker w is in ThreadLoop
          job,        \* job[w]: the job w took last
          caller,     \* where the simulation thread is
          call,       \* which call of enqueue_and_wait it is in
          enqueued,   \* n: jobs of the call enqueued
          finished,   \* finished_l of the call
          mutex,      \* who holds terminationMutex_l of the call
          ran         \* history: the jobs of the call whose body has run

pool == <<jobs, terminate, working>>
frame == <<call, enqueued, finished, mutex>>
vars == <<jobs, terminate, working, at, job, caller, call, enqueued, finished,
          mutex, ran>>

Waiting == {w \in Workers : at[w] = "waiting"}

Init ==
  /\ jobs = << >> /\ terminate = FALSE /\ working = 0
  /\ at = [w \in Workers |-> "ready"]
  /\ job = [w \in Workers |-> <<0, 0>>]
  /\ caller = "begin" /\ call = 1 /\ enqueued = 0 /\ finished = 0
  /\ mutex = Nobody /\ ran = {}

-----------------------------------------------------------------------------
(* ThreadLoop.  A woken worker looks at the condition again. *)
Leave(w) ==
  /\ at[w] = "ready" /\ terminate
  /\ at' = [at EXCEPT ![w] = "exited"]
  /\ UNCHANGED <<pool, job, caller, frame, ran>>

(* Altered TakeJob: the job is taken without being counted. *)
TakeJobUncounted(w) ==
  /\ at[w] = "ready" /\ ~ terminate /\ jobs # << >>
  /\ job' = [job EXCEPT ![w] = Head(jobs)]
  /\ jobs' = Tail(jobs)
  /\ at' = [at EXCEPT ![w] = "running"]
  /\ UNCHANGED <<terminate, working, caller, frame, ran>>

TakeJob(w) ==
  /\ at[w] = "ready" /\ ~ terminate /\ jobs # << >>
  /\ job' = [job EXCEPT ![w] = Head(jobs)]
  /\ jobs' = Tail(jobs)
  /\ working' = working + 1
  /\ at' = [at EXCEPT ![w] = "running"]
  /\ UNCHANGED <<terminate, caller, frame, ran>>

WaitForJob(w) ==
  /\ at[w] = "ready" /\ ~ terminate /\ jobs = << >>
  /\ at' = [at EXCEPT ![w] = "waiting"]
  /\ UNCHANGED <<pool, job, caller, frame, ran>>

WakeForNothing(w) ==
  /\ at[w] = "waiting"
  /\ at' = [at EXCEPT ![w] = "ready"]
  /\ UNCHANGED <<pool, job, caller, frame, ran>>

(* The job enqueue_and_wait wraps: jobs_p[n] runs, *)
RunJob(w) ==
  /\ at[w] = "running"
  /\ ran' = ran \union {job[w][2]}
  /\ at' = [at EXCEPT ![w] = "finishing"]
  /\ UNCHANGED <<pool, job, caller, frame>>

(* Altered FinishJob: the mutex is released before the caller is notified. *)
FinishJobUnlocked(w) ==
  /\ at[w] = "finishing" /\ mutex = Nobody
  /\ mutex' = Nobody
  /\ finished' = finished + 1
  /\ caller' = IF caller = "asleep" THEN "woken" ELSE caller
  /\ at' = [at EXCEPT ![w] = "notified"]
  /\ UNCHANGED <<pool, job, call, enqueued, ran>>

(* the counter is incremented and the caller notified under the mutex, *)
FinishJob(w) ==
  /\ at[w] = "finishing" /\ mutex = Nobody
  /\ mutex' = w
  /\ finished' = finished + 1
  /\ caller' = IF caller = "asleep" THEN "woken" ELSE caller
  /\ at' = [at EXCEPT ![w] = "notified"]
  /\ UNCHANGED <<pool, job, call, enqueued, ran>>

(* which is then released. *)
ReleaseMutex(w) ==
  /\ at[w] = "notified"
  /\ mutex' = Nobody
  /\ at' = [at EXCEPT ![w] = "retiring"]
  /\ UNCHANGED <<pool, job, caller, call, enqueued, finished, ran>>

(* Altered RetireJob: the job is retired without being discounted. *)
RetireJobCounted(w) ==
  /\ at[w] = "retiring"
  /\ at' = [at EXCEPT ![w] = "ready"]
  /\ UNCHANGED <<pool, job, caller, frame, ran>>

RetireJob(w) ==
  /\ at[w] = "retiring"
  /\ working' = working - 1
  /\ at' = [at EXCEPT ![w] = "ready"]
  /\ UNCHANGED <<jobs, terminate, job, caller, frame, ran>>

-----------------------------------------------------------------------------
(* enqueue_and_wait, once for each container. *)

BeginCall ==
  /\ caller = "begin" /\ mutex = Nobody
  /\ mutex' = "caller" /\ caller' = "enqueue"
  /\ UNCHANGED <<pool, at, job, call, enqueued, finished, ran>>

(* queueJob: notify_one wakes a waiting worker, if there is one. *)
EnqueueJob ==
  /\ caller = "enqueue" /\ enqueued < NbJobs
  /\ jobs' = Append(jobs, <<call, enqueued + 1>>)
  /\ enqueued' = enqueued + 1
  /\ IF Waiting = {} THEN at' = at
     ELSE \E w \in Waiting : at' = [at EXCEPT ![w] = "ready"]
  /\ UNCHANGED <<terminate, working, job, caller, call, finished, mutex, ran>>

(* The wait gives the mutex back and needs it again to look at the counter. *)
WaitForJobs ==
  /\ \/ caller = "enqueue" /\ enqueued = NbJobs
     \/ caller = "woken" /\ mutex = Nobody
  /\ finished < NbJobs
  /\ caller' = "asleep" /\ mutex' = Nobody
  /\ UNCHANGED <<pool, at, job, call, enqueued, finished, ran>>

CallerWakesForNothing ==
  /\ caller = "asleep" /\ caller' = "woken"
  /\ UNCHANGED <<pool, at, job, frame, ran>>

(* Altered EndCall: the caller does not look at the counter when it wakes. *)
EndCallOnWakeUp ==
  /\ \/ caller = "enqueue" /\ enqueued = NbJobs /\ finished >= NbJobs
     \/ caller = "woken" /\ mutex = Nobody
  /\ call' = call + 1 /\ caller' = IF call = Rounds THEN "stop" ELSE "begin"
  /\ enqueued' = 0 /\ finished' = 0 /\ mutex' = Nobody /\ ran' = {}
  /\ UNCHANGED <<pool, at, job>>

(* The call returns: its counter, its mutex and its jobs are gone. *)
EndCall ==
  /\ \/ caller = "enqueue" /\ enqueued = NbJobs
     \/ caller = "woken" /\ mutex = Nobody
  /\ finished >= NbJobs
  /\ call' = call + 1 /\ caller' = IF call = Rounds THEN "stop" ELSE "begin"
  /\ enqueued' = 0 /\ finished' = 0 /\ mutex' = Nobody /\ ran' = {}
  /\ UNCHANGED <<pool, at, job>>

(* Altered Stop: only one of the waiting workers is woken. *)
StopNotifiesOne ==
  /\ caller = "stop"
  /\ terminate' = TRUE
  /\ IF Waiting = {} THEN at' = at
     ELSE \E w \in Waiting : at' = [at EXCEPT ![w] = "ready"]
  /\ caller' = "join"
  /\ UNCHANGED <<jobs, working, job, frame, ran>>

(* stop, by the destructor of the pool: every worker is woken and joined. *)
Stop ==
  /\ caller = "stop"
  /\ terminate' = TRUE
  /\ at' = [w \in Workers |-> IF at[w] = "waiting" THEN "ready" ELSE at[w]]
  /\ caller' = "join"
  /\ UNCHANGED <<jobs, working, job, frame, ran>>

Join ==
  /\ caller = "join" /\ \A w \in Workers : at[w] = "exited"
  /\ caller' = "end"
  /\ UNCHANGED <<pool, at, job, frame, ran>>

Terminated == caller = "end" /\ UNCHANGED vars

WorkerStep(w) == \/ Leave(w) \/ TakeJob(w) \/ WaitForJob(w) \/ RunJob(w)
                 \/ FinishJob(w) \/ ReleaseMutex(w) \/ RetireJob(w)

CallerStep == \/ BeginCall \/ EnqueueJob \/ WaitForJobs \/ EndCall
              \/ Stop \/ Join

Next == \/ CallerStep \/ CallerWakesForNothing \/ Terminated
        \/ \E w \in Workers : WorkerStep(w) \/ WakeForNothing(w)

Spec == Init /\ [][Next]_vars

(* The operating system runs every thread that can run.  Mutexes need not  *)
(* be fair, and nothing is asked of spurious wake-ups.                     *)
FairSpec ==
  /\ Spec /\ WF_vars(CallerStep)
  /\ \A w \in Workers : WF_vars(WorkerStep(w))

-----------------------------------------------------------------------------
(* The data of the pool and of the call keep their shape. *)
TypeOK ==
  /\ jobs \in Seq((1..Rounds) \X Jobs)
  /\ terminate \in BOOLEAN /\ working \in 0..Cardinality(Workers)
  /\ at \in [Workers -> {"ready", "waiting", "running", "finishing", "notified",
                         "retiring", "exited"}]
  /\ job \in [Workers -> (0..Rounds) \X (0..NbJobs)]
  /\ caller \in {"begin", "enqueue", "asleep", "woken", "stop", "join", "end"}
  /\ call \in 1..(Rounds + 1) /\ enqueued \in 0..NbJobs /\ finished \in 0..NbJobs
  /\ mutex \in Workers \union {"caller", Nobody}
  /\ ran \subseteq Jobs

(* enqueue_and_wait keeps its counter, mutex, condition variable and jobs  *)
(* on the stack and workers use them by reference: while a worker has yet  *)
(* to run, count or leave a job, or a job waits in the queue, the call     *)
(* that owns it has not returned.                                          *)
InUse(w) == at[w] \in {"running", "finishing", "notified"}
CallOutlivesItsJobs ==
  /\ \A w \in Workers : InUse(w) =>
       job[w][1] = call /\ caller \in {"enqueue", "asleep", "woken"}
  /\ \A i \in DOMAIN jobs :
       jobs[i][1] = call /\ caller \in {"enqueue", "asleep", "woken"}

(* busy: the pool never says it is idle while a job is queued or running. *)
Busy == working > 0 \/ jobs # << >>
BusyWhileWorking == (\E w \in Workers : InUse(w)) => Busy

(* dispatch_apply and dispatch_revert: container by container, every job   *)
(* once, and the last container is reached.                                *)
Barrier == INSTANCE BatchBarrier WITH round <- call
BarrierSpec == Barrier!Spec

(* Every call returns and then stop does: no wake-up is lost. *)
PoolStops == <>(caller = "end")
=============================================================================
