----------------------------- MODULE CThreadPool -----------------------------
(***************************************************************************)
(* The C++ worker pool, socket/libcurl/pool/thread_pool.cpp.  The main     *)
(* thread creates the pool, adds jobs and destroys it; it does so by the   *)
(* calls below, from whatever program uses the pool.  The destructor sets  *)
(* shutdown and broadcasts without holding queue_mutex.                    *)
(***************************************************************************)
EXTENDS Integers, Sequences, FiniteSets

CONSTANTS
    Workers,    \* the max_thread_num worker threads
    Jobs,       \* the jobs the program can add
    None        \* no thread, no job

Main == "main"

PoolAssumption ==
    /\ IsFiniteSet(Workers)
    /\ None \notin Workers /\ None \notin Jobs /\ None # Main
    /\ Main \notin Workers

VARIABLES
    shutdown, queue_job, cur_queue_size,    \* the members of CThreadPool
    queue_mutex,    \* the thread that holds it, or None
    pc,             \* where each worker is in thread_routine
    job,            \* each worker's local variable of that name
    mpc,            \* where the main thread is inside a call of the pool
    new,            \* pool_add_job's local variable job
    added,          \* history: the jobs added
    missed          \* history: the workers the broadcast could not reach

members == <<shutdown, queue_job, cur_queue_size, queue_mutex>>
pool == <<members, pc, job, mpc, new, added, missed>>

WorkerPC == {"unborn", "lock", "test", "cond_wait", "waiting", "relock",
             "check", "count", "pop", "run", "delete", "exited"}
MainPC == {"create", "idle", "add_lock", "add_push", "add_count", "add_signal",
           "bcast", "join", "clear", "returned"}

TypeOK ==
    /\ shutdown \in BOOLEAN
    /\ queue_job \in Seq(Jobs)
    /\ cur_queue_size \in Nat
    /\ queue_mutex \in Workers \cup {Main, None}
    /\ pc \in [Workers -> WorkerPC]
    /\ job \in [Workers -> Jobs \cup {None}]
    /\ mpc \in MainPC
    /\ new \in Jobs \cup {None}
    /\ added \subseteq Jobs
    /\ missed \subseteq Workers

Init ==
    /\ shutdown = FALSE
    /\ queue_job = <<>>
    /\ cur_queue_size = 0
    /\ queue_mutex = None
    /\ pc = [w \in Workers |-> "unborn"]
    /\ job = [w \in Workers |-> None]
    /\ mpc = "create"
    /\ new = None
    /\ added = {}
    /\ missed = {}

-----------------------------------------------------------------------------
(* thread_routine, run by worker w. *)

at(w, l) == pc[w] = l
go(w, l) == pc' = [pc EXCEPT ![w] = l]
keepMain == UNCHANGED <<mpc, new, added, missed>>

(* pthread_mutex_lock, on line 9 or on the way out of pthread_cond_wait. *)
worker_lock(w) ==
    /\ at(w, "lock") \/ at(w, "relock")
    /\ queue_mutex = None
    /\ queue_mutex' = w
    /\ go(w, "test")
    /\ UNCHANGED <<shutdown, queue_job, cur_queue_size, job>> /\ keepMain

(* while (pool->cur_queue_size == 0 && !pool->shutdown) *)
worker_test(w) ==
    /\ at(w, "test")
    /\ go(w, IF cur_queue_size = 0 /\ ~shutdown THEN "cond_wait" ELSE "check")
    /\ UNCHANGED <<members, job>> /\ keepMain

(* The mutex is released and the worker sleeps. *)
pthread_cond_wait(w) ==
    /\ at(w, "cond_wait")
    /\ queue_mutex' = None
    /\ go(w, "waiting")
    /\ UNCHANGED <<shutdown, queue_job, cur_queue_size, job>> /\ keepMain

spurious_wakeup(w) ==
    /\ at(w, "waiting")
    /\ go(w, "relock")
    /\ UNCHANGED <<members, job>> /\ keepMain

(* Mutant: the worker exits with the mutex locked. *)
worker_check_locked(w) ==
    /\ at(w, "check")
    /\ go(w, IF shutdown THEN "exited" ELSE "count")
    /\ UNCHANGED <<members, job>> /\ keepMain

(* if (pool->shutdown): unlock and pthread_exit. *)
worker_check(w) ==
    /\ at(w, "check")
    /\ go(w, IF shutdown THEN "exited" ELSE "count")
    /\ queue_mutex' = IF shutdown THEN None ELSE queue_mutex
    /\ UNCHANGED <<shutdown, queue_job, cur_queue_size, job>> /\ keepMain

(* The two assertions, then cur_queue_size--. *)
worker_count(w) ==
    /\ at(w, "count")
    /\ cur_queue_size' = cur_queue_size - 1
    /\ go(w, "pop")
    /\ UNCHANGED <<shutdown, queue_job, queue_mutex, job>> /\ keepMain

(* front(), pop_front() and unlock. *)
worker_pop(w) ==
    /\ at(w, "pop")
    /\ job' = [job EXCEPT ![w] = Head(queue_job)]
    /\ queue_job' = Tail(queue_job)
    /\ queue_mutex' = None
    /\ go(w, "run")
    /\ UNCHANGED <<shutdown, cur_queue_size>> /\ keepMain

(* The callback returns. *)
worker_run(w) ==
    /\ at(w, "run")
    /\ go(w, "delete")
    /\ UNCHANGED <<members, job>> /\ keepMain

worker_delete(w) ==
    /\ at(w, "delete")
    /\ job' = [job EXCEPT ![w] = None]
    /\ go(w, "lock")
    /\ UNCHANGED members /\ keepMain

(* All of thread_routine but the callback. *)
thread_routine(w) ==
    \/ worker_lock(w)
    \/ worker_test(w)
    \/ pthread_cond_wait(w)
    \/ worker_check(w)
    \/ worker_count(w)
    \/ worker_pop(w)
    \/ worker_delete(w)

-----------------------------------------------------------------------------
(* The constructor, pool_add_job and the destructor, run by the main       *)
(* thread.                                                                 *)

keepWorkers == UNCHANGED <<pc, job>>

(* One turn of the pthread_create loop. *)
pthread_create ==
    /\ mpc = "create"
    /\ \E w \in Workers :
         /\ at(w, "unborn")
         /\ go(w, "lock")
         /\ mpc' = IF \A v \in Workers \ {w} : pc[v] # "unborn"
                   THEN "idle" ELSE "create"
    /\ UNCHANGED <<members, job, new, added, missed>>

pool_add_job(j) ==
    /\ mpc = "idle"
    /\ new' = j
    /\ mpc' = "add_lock"
    /\ UNCHANGED <<members, added, missed>> /\ keepWorkers

add_lock ==
    /\ mpc = "add_lock"
    /\ queue_mutex = None
    /\ queue_mutex' = Main
    /\ mpc' = "add_push"
    /\ UNCHANGED <<shutdown, queue_job, cur_queue_size, new, added, missed>>
    /\ keepWorkers

add_push ==
    /\ mpc = "add_push"
    /\ queue_job' = Append(queue_job, new)
    /\ added' = added \cup {new}
    /\ new' = None
    /\ mpc' = "add_count"
    /\ UNCHANGED <<shutdown, cur_queue_size, queue_mutex, missed>> /\ keepWorkers

(* cur_queue_size++ and unlock. *)
add_count ==
    /\ mpc = "add_count"
    /\ cur_queue_size' = cur_queue_size + 1
    /\ queue_mutex' = None
    /\ mpc' = "add_signal"
    /\ UNCHANGED <<shutdown, queue_job, new, added, missed>> /\ keepWorkers

Waiting == {w \in Workers : at(w, "waiting")}

(* Mutant: the signal is forgotten. *)
add_signal_none ==
    /\ mpc = "add_signal"
    /\ mpc' = "idle"
    /\ UNCHANGED <<members, pc, job, new, added, missed>>

(* pthread_cond_signal, after the unlock. *)
add_signal ==
    /\ mpc = "add_signal"
    /\ \/ Waiting = {} /\ pc' = pc
       \/ \E w \in Waiting : go(w, "relock")
    /\ mpc' = "idle"
    /\ UNCHANGED <<members, job, new, added, missed>>

(* ~CThreadPool: shutdown = 1. *)
destructor ==
    /\ mpc = "idle"
    /\ ~shutdown
    /\ shutdown' = TRUE
    /\ mpc' = "bcast"
    /\ UNCHANGED <<queue_job, cur_queue_size, queue_mutex, new, added, missed>>
    /\ keepWorkers

(* Mutant: a signal instead of the broadcast. *)
broadcast_one ==
    /\ mpc = "bcast"
    /\ \/ Waiting = {} /\ pc' = pc
       \/ \E w \in Waiting : go(w, "relock")
    /\ missed' = {w \in Workers : at(w, "cond_wait")}
    /\ mpc' = "join"
    /\ UNCHANGED <<members, job, new, added>>

(* pthread_cond_broadcast wakes those who sleep now.  A worker that has    *)
(* done its test but not begun to wait does not hear it.                   *)
broadcast ==
    /\ mpc = "bcast"
    /\ pc' = [w \in Workers |-> IF at(w, "waiting") THEN "relock" ELSE pc[w]]
    /\ missed' = {w \in Workers : at(w, "cond_wait")}
    /\ mpc' = "join"
    /\ UNCHANGED <<members, job, new, added>>

(* Mutant: the destructor does not join. *)
join_workers_none ==
    /\ mpc = "join"
    /\ mpc' = "clear"
    /\ UNCHANGED <<members, new, added, missed>> /\ keepWorkers

(* The pthread_join loop: the threads are joinable. *)
join_workers ==
    /\ mpc = "join"
    /\ \A w \in Workers : at(w, "exited")
    /\ mpc' = "clear"
    /\ UNCHANGED <<members, new, added, missed>> /\ keepWorkers

(* The remaining jobs are deleted one by one; then the list is empty, and  *)
(* the mutex and the condition are destroyed.                              *)
clear ==
    /\ mpc = "clear"
    /\ queue_job' = IF queue_job = <<>> THEN <<>> ELSE Tail(queue_job)
    /\ mpc' = IF queue_job = <<>> THEN "returned" ELSE "clear"
    /\ UNCHANGED <<shutdown, cur_queue_size, queue_mutex, new, added, missed>>
    /\ keepWorkers

(* The steps inside a call. *)
pool_call ==
    \/ pthread_create
    \/ add_lock
    \/ add_push
    \/ add_count
    \/ add_signal
    \/ broadcast
    \/ join_workers
    \/ clear

-----------------------------------------------------------------------------
(* The pool under a program that adds each job at most once and then       *)
(* destroys the pool, or never does.                                       *)
PoolNext ==
    \/ pool_call
    \/ \E j \in Jobs \ added : pool_add_job(j)
    \/ destructor
    \/ \E w \in Workers : thread_routine(w) \/ worker_run(w) \/ spurious_wakeup(w)

(* Every thread that can run is scheduled; a callback returns; nothing but *)
(* a signal has to wake a sleeper.                                         *)
PoolFairness ==
    /\ WF_pool(pool_call)
    /\ \A w \in Workers : WF_pool(thread_routine(w) \/ worker_run(w))

PoolSpec == Init /\ [][PoolNext]_pool
FairPoolSpec == PoolSpec /\ PoolFairness

-----------------------------------------------------------------------------
(* Properties *)

(* The assertions of lines 22 and 23 hold whenever a worker reaches them:  *)
(* the two counts of the queue agree whenever a worker can look at them,   *)
(* although pool_add_job signals after it has released the mutex and a     *)
(* woken worker may find that another one has taken its job.               *)
AssertsHold ==
    \A w \in Workers : at(w, "count") => cur_queue_size # 0 /\ queue_job # <<>>

(* A worker that sleeps although the pool is shutting down is one that was *)
(* between its test (line 10) and its wait (line 12) when line 48          *)
(* broadcast; every other worker hears of the shutdown.                    *)
OnlyMissedSleep ==
    mpc = "join" => \A w \in Workers \ missed : pc[w] \notin {"waiting", "cond_wait"}

(* A queued job is never left to sleepers: once its signal has been given, *)
(* outside the mutex, some worker is awake and will come to the test.      *)
NoLostWakeup ==
    (cur_queue_size # 0 /\ mpc # "add_signal" /\ ~shutdown) =>
        \E w \in Workers : pc[w] \notin {"unborn", "cond_wait", "waiting", "exited"}

(* What the pool's threads rely on. *)
CppPoolRight == TypeOK /\ AssertsHold /\ OnlyMissedSleep /\ NoLostWakeup

(* Every job added is eventually taken by a worker, unless the pool is     *)
(* being destroyed.                                                        *)
JobTaken ==
    \A j \in Jobs :
        (j \in added) ~> (shutdown \/ \A i \in 1..Len(queue_job) : queue_job[i] # j)

(* The destructor returns once it has been called, if no worker missed the *)
(* broadcast.                                                              *)
DestructorReturnsIfHeard ==
    (mpc = "join" /\ missed = {}) ~> (mpc = "returned")

(* The destructor returns once it has been called: multi.cpp (lines 243    *)
(* and 244) has the master wait for the workers to exit, and names as the  *)
(* only ones that do not those that are still downloading.                 *)
DestructorReturns == shutdown ~> (mpc = "returned")

-----------------------------------------------------------------------------
(* A job can still start while the destructor waits in pthread_join; the   *)
(* pool is closed when all workers have exited.                            *)
Running == {job[w] : w \in {v \in Workers : job[v] # None}}
Closed == mpc \in {"clear", "returned"}

JP == INSTANCE JobPool WITH
          submitted <- added, pending <- queue_job, running <- Running, closed <- Closed

(* The C++ pool keeps the promise JobPool states. *)
CppImplementsJobPool == JP!Spec
=============================================================================
