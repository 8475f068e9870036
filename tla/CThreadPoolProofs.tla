------------------------- MODULE CThreadPoolProofs -------------------------
(***************************************************************************)
(* Proofs about the C++ worker pool, for any number of workers and jobs.   *)
(***************************************************************************)
EXTENDS MCPools, TLAPS

(* What the operators on sequences give. *)
LEMMA EmptySeq ==
    ASSUME NEW S
    PROVE  /\ <<>> \in Seq(S) /\ Len(<<>>) = 0
           /\ \A s \in Seq(S) : s # <<>> => Len(s) \in Nat \ {0}
  OBVIOUS

(* Who holds queue_mutex is where a holder is. *)
MutexInv ==
    /\ \A w \in Workers : queue_mutex = w <=> c_pc[w] \in {"test", "cond_wait", "check", "count", "pop"}
    /\ queue_mutex = C!Main <=> c_mpc \in {"add_push", "add_count"}

(* The two counts of the queue differ only while the holder of the mutex   *)
(* is between the two assignments.                                         *)
between == c_mpc = "add_count" \/ \E w \in Workers : c_pc[w] = "pop"
CountInv ==
    c_mpc \notin {"clear", "returned"} =>
        /\ between => Len(queue_job) = cur_queue_size + 1
        /\ ~between => Len(queue_job) = cur_queue_size

(* What a worker knows from its test. *)
TestInv ==
    \A w \in Workers :
        /\ c_pc[w] = "check" => c_shutdown \/ cur_queue_size # 0
        /\ c_pc[w] = "count" => cur_queue_size # 0

(* What the main thread knows of the shutdown and of the workers. *)
ShutdownInv ==
    /\ c_shutdown <=> c_mpc \in {"bcast", "join", "clear", "returned"}
    /\ c_mpc \in {"clear", "returned"} => \A w \in Workers : c_pc[w] = "exited"

(* Nobody waits for a queue that is not empty, unless the signal is still  *)
(* to be given; workers exit only in a shutdown.                           *)
WakeupInv ==
    /\ C!NoLostWakeup
    /\ \A w \in Workers : c_pc[w] = "cond_wait" => cur_queue_size = 0
    /\ \A w \in Workers : c_pc[w] = "exited" => c_shutdown
    /\ c_mpc # "create" => Workers # {} /\ \A w \in Workers : c_pc[w] # "unborn"
    /\ c_mpc = "create" => cur_queue_size = 0

(* A job has one owner: pool_add_job, the queue, or one worker. *)
JobInv ==
    /\ c_mpc \in {"add_lock", "add_push"} => c_new \in Jobs \ c_added
    /\ \A i \in 1..Len(queue_job) : queue_job[i] \in c_added
    /\ \A i, k \in 1..Len(queue_job) : queue_job[i] = queue_job[k] => i = k
    /\ \A w \in Workers : job[w] # None <=> c_pc[w] \in {"run", "delete"}
    /\ \A w \in Workers : job[w] # None =>
          /\ job[w] \in c_added
          /\ \A i \in 1..Len(queue_job) : queue_job[i] # job[w]
          /\ \A v \in Workers : job[v] = job[w] => v = w

PoolInv == C!TypeOK /\ MutexInv /\ CountInv /\ TestInv /\ ShutdownInv /\ C!OnlyMissedSleep /\ JobInv /\ WakeupInv

(* An empty pool has the invariant. *)
LEMMA Initially == C!PoolAssumption /\ C!Init => PoolInv
<1> SUFFICES ASSUME C!PoolAssumption, C!Init PROVE PoolInv
  OBVIOUS
<1> USE DEF C!Init
<1>1. C!TypeOK
  <2>1. c_pc \in [Workers -> C!WorkerPC] /\ job \in [Workers -> Jobs \cup {None}]
    BY DEF C!WorkerPC
  <2>2. queue_job \in Seq(Jobs)
    BY EmptySeq
  <2> QED
    BY <2>1, <2>2, Zenon DEF C!TypeOK, C!MainPC
<1>2. MutexInv
  BY DEF C!PoolAssumption, MutexInv, C!Main
<1>3. CountInv
  BY DEF CountInv, between
<1>4. TestInv
  BY DEF TestInv
<1>5. ShutdownInv
  BY DEF ShutdownInv
<1>6. C!OnlyMissedSleep
  BY DEF C!OnlyMissedSleep
<1>7. JobInv
  BY DEF JobInv
<1>8. WakeupInv
  BY DEF WakeupInv, C!NoLostWakeup
<1> QED
  BY <1>1, <1>2, <1>3, <1>4, <1>5, <1>6, <1>7, <1>8 DEF PoolInv

(* Every step of thread_routine, of cond_wait and of a job keeps it. *)
LEMMA WorkerSteps ==
    ASSUME C!PoolAssumption, PoolInv, NEW w \in Workers,
           C!thread_routine(w) \/ C!worker_run(w) \/ C!spurious_wakeup(w)
    PROVE  PoolInv'
<1> USE C!PoolAssumption, PoolInv
        DEF C!PoolAssumption, PoolInv, C!at, C!go, C!keepMain, C!members
<1>1. CASE C!worker_lock(w)
  <2>1. C!TypeOK'
    BY <1>1 DEF C!worker_lock, C!TypeOK, C!WorkerPC, C!MainPC, TestInv, CountInv, between
  <2>2. MutexInv'
    BY <1>1 DEF C!worker_lock, MutexInv, C!TypeOK
  <2>3. CountInv'
    BY <1>1 DEF C!worker_lock, CountInv, between, MutexInv, C!TypeOK
  <2>4. TestInv'
    BY <1>1 DEF C!worker_lock, TestInv, MutexInv, C!TypeOK
  <2>5. ShutdownInv'
    BY <1>1 DEF C!worker_lock, ShutdownInv, C!TypeOK
  <2>6. C!OnlyMissedSleep'
    BY <1>1 DEF C!worker_lock, C!OnlyMissedSleep, C!TypeOK, ShutdownInv
  <2>7. JobInv'
    BY <1>1 DEF C!worker_lock, JobInv, C!TypeOK, CountInv, between
  <2>8. WakeupInv'
    BY <1>1 DEF C!worker_lock, WakeupInv, C!NoLostWakeup, C!TypeOK, MutexInv, TestInv, ShutdownInv
  <2> QED
    BY <2>1, <2>2, <2>3, <2>4, <2>5, <2>6, <2>7, <2>8 DEF PoolInv
<1>2. CASE C!worker_test(w)
  <2>1. C!TypeOK'
    BY <1>2 DEF C!worker_test, C!TypeOK, C!WorkerPC, C!MainPC, TestInv, CountInv, between
  <2>2. MutexInv'
    BY <1>2 DEF C!worker_test, MutexInv, C!TypeOK
  <2>3. CountInv'
    BY <1>2 DEF C!worker_test, CountInv, between, MutexInv, C!TypeOK
  <2>4. TestInv'
    BY <1>2 DEF C!worker_test, TestInv, MutexInv, C!TypeOK
  <2>5. ShutdownInv'
    BY <1>2 DEF C!worker_test, ShutdownInv, C!TypeOK
  <2>6. C!OnlyMissedSleep'
    BY <1>2 DEF C!worker_test, C!OnlyMissedSleep, C!TypeOK, ShutdownInv
  <2>7. JobInv'
    BY <1>2 DEF C!worker_test, JobInv, C!TypeOK, CountInv, between
  <2>8. WakeupInv'
    BY <1>2, SMTT(30) DEF C!worker_test, WakeupInv, C!NoLostWakeup, C!TypeOK, MutexInv, TestInv, ShutdownInv
  <2> QED
    BY <2>1, <2>2, <2>3, <2>4, <2>5, <2>6, <2>7, <2>8 DEF PoolInv
<1>3. CASE C!pthread_cond_wait(w)
  <2>1. C!TypeOK'
    BY <1>3 DEF C!pthread_cond_wait, C!TypeOK, C!WorkerPC, C!MainPC, TestInv, CountInv, between
  <2>2. MutexInv'
    BY <1>3 DEF C!pthread_cond_wait, MutexInv, C!TypeOK
  <2>3. CountInv'
    BY <1>3 DEF C!pthread_cond_wait, CountInv, between, MutexInv, C!TypeOK
  <2>4. TestInv'
    BY <1>3 DEF C!pthread_cond_wait, TestInv, MutexInv, C!TypeOK
  <2>5. ShutdownInv'
    BY <1>3 DEF C!pthread_cond_wait, ShutdownInv, C!TypeOK
  <2>6. C!OnlyMissedSleep'
    BY <1>3 DEF C!pthread_cond_wait, C!OnlyMissedSleep, C!TypeOK, ShutdownInv
  <2>7. JobInv'
    BY <1>3 DEF C!pthread_cond_wait, JobInv, C!TypeOK, CountInv, between
  <2>8. WakeupInv'
    BY <1>3, SMTT(30) DEF C!pthread_cond_wait, WakeupInv, C!NoLostWakeup, C!TypeOK, MutexInv, TestInv, ShutdownInv
  <2> QED
    BY <2>1, <2>2, <2>3, <2>4, <2>5, <2>6, <2>7, <2>8 DEF PoolInv
<1>4. CASE C!worker_check(w)
  <2>1. C!TypeOK'
    BY <1>4 DEF C!worker_check, C!TypeOK, C!WorkerPC, C!MainPC, TestInv, CountInv, between
  <2>2. MutexInv'
    BY <1>4 DEF C!worker_check, MutexInv, C!TypeOK
  <2>3. CountInv'
    BY <1>4 DEF C!worker_check, CountInv, between, MutexInv, C!TypeOK
  <2>4. TestInv'
    BY <1>4 DEF C!worker_check, TestInv, MutexInv, C!TypeOK
  <2>5. ShutdownInv'
    BY <1>4 DEF C!worker_check, ShutdownInv, C!TypeOK
  <2>6. C!OnlyMissedSleep'
    BY <1>4 DEF C!worker_check, C!OnlyMissedSleep, C!TypeOK, ShutdownInv
  <2>7. JobInv'
    BY <1>4 DEF C!worker_check, JobInv, C!TypeOK, CountInv, between
  <2>8. WakeupInv'
    BY <1>4 DEF C!worker_check, WakeupInv, C!NoLostWakeup, C!TypeOK, MutexInv, TestInv, ShutdownInv
  <2> QED
    BY <2>1, <2>2, <2>3, <2>4, <2>5, <2>6, <2>7, <2>8 DEF PoolInv
<1>5. CASE C!worker_count(w)
  <2>1. C!TypeOK'
    BY <1>5 DEF C!worker_count, C!TypeOK, C!WorkerPC, C!MainPC, TestInv, CountInv, between
  <2>2. MutexInv'
    BY <1>5 DEF C!worker_count, MutexInv, C!TypeOK
  <2>3. CountInv'
    BY <1>5 DEF C!worker_count, CountInv, between, MutexInv, C!TypeOK
  <2>4. TestInv'
    BY <1>5 DEF C!worker_count, TestInv, MutexInv, C!TypeOK
  <2>5. ShutdownInv'
    BY <1>5 DEF C!worker_count, ShutdownInv, C!TypeOK
  <2>6. C!OnlyMissedSleep'
    BY <1>5 DEF C!worker_count, C!OnlyMissedSleep, C!TypeOK, ShutdownInv
  <2>7. JobInv'
    BY <1>5 DEF C!worker_count, JobInv, C!TypeOK, CountInv, between
  <2>8. WakeupInv'
    BY <1>5, SMTT(30) DEF C!worker_count, WakeupInv, C!NoLostWakeup, C!TypeOK, MutexInv, TestInv, ShutdownInv
  <2> QED
    BY <2>1, <2>2, <2>3, <2>4, <2>5, <2>6, <2>7, <2>8 DEF PoolInv
<1>6. CASE C!worker_pop(w)
  <2> DEFINE n == Len(queue_job)
  <2>0. /\ n \in Nat /\ n > 0
        /\ Head(queue_job) = queue_job[1] /\ queue_job[1] \in Jobs
        /\ Tail(queue_job) \in Seq(Jobs) /\ Len(Tail(queue_job)) = n - 1
        /\ \A i \in 1..(n - 1) : Tail(queue_job)[i] = queue_job[i + 1]
    BY <1>6 DEF C!worker_pop, C!TypeOK, CountInv, between, ShutdownInv
  <2>1. C!TypeOK'
    BY <1>6, <2>0 DEF C!worker_pop, C!TypeOK, C!WorkerPC, C!MainPC
  <2>2. MutexInv'
    BY <1>6 DEF C!worker_pop, MutexInv, C!TypeOK
  <2>3. CountInv'
    <3>1. ~between'
      BY <1>6 DEF C!worker_pop, between, MutexInv, C!TypeOK, C!WorkerPC
    <3>2. c_mpc \notin {"clear", "returned"} => n = cur_queue_size + 1
      BY <1>6 DEF C!worker_pop, CountInv, between
    <3>3. Len(queue_job') = n - 1 /\ UNCHANGED <<cur_queue_size, c_mpc>>
      BY <1>6, <2>0 DEF C!worker_pop
    <3>4. n \in Nat /\ cur_queue_size \in Nat
      BY <2>0 DEF C!TypeOK
    <3>5. c_mpc' \notin {"clear", "returned"} => Len(queue_job') = cur_queue_size'
      BY <3>2, <3>3, <3>4
    <3> QED
      BY <3>1, <3>5 DEF CountInv
  <2>4. TestInv'
    BY <1>6 DEF C!worker_pop, TestInv, MutexInv, C!TypeOK
  <2>5. ShutdownInv'
    BY <1>6 DEF C!worker_pop, ShutdownInv, C!TypeOK
  <2>6. C!OnlyMissedSleep'
    BY <1>6, SMTT(30) DEF C!worker_pop, C!OnlyMissedSleep, C!TypeOK, ShutdownInv
  <2>7. JobInv'
    <3>1. /\ queue_job' = Tail(queue_job) /\ job' = [job EXCEPT ![w] = queue_job[1]]
          /\ Len(queue_job') = n - 1
          /\ \A i \in 1..(n - 1) : queue_job'[i] = queue_job[i + 1]
      BY <1>6, <2>0 DEF C!worker_pop
    <3> QED
      BY <1>6, <2>0, <3>1, SMTT(30) DEF C!worker_pop, JobInv, C!TypeOK
  <2>8. WakeupInv'
    BY <1>6, SMTT(30) DEF C!worker_pop, WakeupInv, C!NoLostWakeup, C!TypeOK, MutexInv, TestInv, ShutdownInv
  <2> QED
    BY <2>1, <2>2, <2>3, <2>4, <2>5, <2>6, <2>7, <2>8 DEF PoolInv
<1>7. CASE C!worker_run(w)
  <2>1. C!TypeOK'
    BY <1>7 DEF C!worker_run, C!TypeOK, C!WorkerPC, C!MainPC, TestInv, CountInv, between
  <2>2. MutexInv'
    BY <1>7 DEF C!worker_run, MutexInv, C!TypeOK
  <2>3. CountInv'
    BY <1>7 DEF C!worker_run, CountInv, between, MutexInv, C!TypeOK
  <2>4. TestInv'
    BY <1>7 DEF C!worker_run, TestInv, MutexInv, C!TypeOK
  <2>5. ShutdownInv'
    BY <1>7 DEF C!worker_run, ShutdownInv, C!TypeOK
  <2>6. C!OnlyMissedSleep'
    BY <1>7, SMTT(30) DEF C!worker_run, C!OnlyMissedSleep, C!TypeOK, ShutdownInv
  <2>7. JobInv'
    BY <1>7, SMTT(30) DEF C!worker_run, JobInv, C!TypeOK, CountInv, between
  <2>8. WakeupInv'
    BY <1>7, SMTT(30) DEF C!worker_run, WakeupInv, C!NoLostWakeup, C!TypeOK, MutexInv, TestInv, ShutdownInv
  <2> QED
    BY <2>1, <2>2, <2>3, <2>4, <2>5, <2>6, <2>7, <2>8 DEF PoolInv
<1>8. CASE C!worker_delete(w)
  <2>1. C!TypeOK'
    BY <1>8 DEF C!worker_delete, C!TypeOK, C!WorkerPC, C!MainPC, TestInv, CountInv, between
  <2>2. MutexInv'
    BY <1>8 DEF C!worker_delete, MutexInv, C!TypeOK
  <2>3. CountInv'
    BY <1>8 DEF C!worker_delete, CountInv, between, MutexInv, C!TypeOK
  <2>4. TestInv'
    BY <1>8 DEF C!worker_delete, TestInv, MutexInv, C!TypeOK
  <2>5. ShutdownInv'
    BY <1>8 DEF C!worker_delete, ShutdownInv, C!TypeOK
  <2>6. C!OnlyMissedSleep'
    BY <1>8, SMTT(30) DEF C!worker_delete, C!OnlyMissedSleep, C!TypeOK, ShutdownInv
  <2>7. JobInv'
    BY <1>8, SMTT(30) DEF C!worker_delete, JobInv, C!TypeOK, CountInv, between
  <2>8. WakeupInv'
    BY <1>8, SMTT(30) DEF C!worker_delete, WakeupInv, C!NoLostWakeup, C!TypeOK, MutexInv, TestInv, ShutdownInv
  <2> QED
    BY <2>1, <2>2, <2>3, <2>4, <2>5, <2>6, <2>7, <2>8 DEF PoolInv
<1>9. CASE C!spurious_wakeup(w)
  <2>1. C!TypeOK'
    BY <1>9 DEF C!spurious_wakeup, C!TypeOK, C!WorkerPC, C!MainPC, TestInv, CountInv, between
  <2>2. MutexInv'
    BY <1>9, SMTT(30) DEF C!spurious_wakeup, MutexInv, C!TypeOK
  <2>3. CountInv'
    BY <1>9 DEF C!spurious_wakeup, CountInv, between, MutexInv, C!TypeOK
  <2>4. TestInv'
    BY <1>9 DEF C!spurious_wakeup, TestInv, MutexInv, C!TypeOK
  <2>5. ShutdownInv'
    BY <1>9 DEF C!spurious_wakeup, ShutdownInv, C!TypeOK
  <2>6. C!OnlyMissedSleep'
    BY <1>9, SMTT(30) DEF C!spurious_wakeup, C!OnlyMissedSleep, C!TypeOK, ShutdownInv
  <2>7. JobInv'
    BY <1>9, SMTT(30) DEF C!spurious_wakeup, JobInv, C!TypeOK, CountInv, between
  <2>8. WakeupInv'
    BY <1>9, SMTT(30) DEF C!spurious_wakeup, WakeupInv, C!NoLostWakeup, C!TypeOK, MutexInv, TestInv, ShutdownInv
  <2> QED
    BY <2>1, <2>2, <2>3, <2>4, <2>5, <2>6, <2>7, <2>8 DEF PoolInv
<1> QED
  BY <1>1, <1>2, <1>3, <1>4, <1>5, <1>6, <1>7, <1>8, <1>9 DEF C!thread_routine

(* Every step of the constructor, pool_add_job and the destructor keeps it. *)
LEMMA MainSteps ==
    ASSUME C!PoolAssumption, PoolInv, C!pool_call \/ C!destructor \/ \E j \in Jobs \ c_added : C!pool_add_job(j)
    PROVE  PoolInv'
<1> USE C!PoolAssumption, PoolInv
        DEF C!PoolAssumption, PoolInv, C!at, C!go, C!keepWorkers, C!members
<1>1. CASE C!pthread_create
  <2>1. C!TypeOK'
    BY <1>1 DEF C!pthread_create, C!TypeOK, C!WorkerPC, C!MainPC, TestInv, CountInv, between
  <2>2. MutexInv'
    BY <1>1, SMTT(30) DEF C!pthread_create, MutexInv, C!TypeOK
  <2>3. CountInv'
    BY <1>1 DEF C!pthread_create, CountInv, between, MutexInv, C!TypeOK
  <2>4. TestInv'
    BY <1>1 DEF C!pthread_create, TestInv, MutexInv, C!TypeOK
  <2>5. ShutdownInv'
    BY <1>1 DEF C!pthread_create, ShutdownInv, C!TypeOK
  <2>6. C!OnlyMissedSleep'
    BY <1>1, SMTT(30) DEF C!pthread_create, C!OnlyMissedSleep, C!TypeOK, ShutdownInv
  <2>7. JobInv'
    BY <1>1, SMTT(30) DEF C!pthread_create, JobInv, C!TypeOK, CountInv, between
  <2>8. WakeupInv'
    BY <1>1, SMTT(30) DEF C!pthread_create, WakeupInv, C!NoLostWakeup, C!TypeOK, MutexInv, TestInv, ShutdownInv
  <2> QED
    BY <2>1, <2>2, <2>3, <2>4, <2>5, <2>6, <2>7, <2>8, SMTT(30) DEF PoolInv
<1>2. CASE C!add_lock
  <2>1. C!TypeOK'
    BY <1>2 DEF C!add_lock, C!TypeOK, C!WorkerPC, C!MainPC, TestInv, CountInv, between
  <2>2. MutexInv'
    BY <1>2, SMTT(30) DEF C!add_lock, MutexInv, C!TypeOK
  <2>3. CountInv'
    BY <1>2, SMTT(30) DEF C!add_lock, CountInv, between, MutexInv, C!TypeOK
  <2>4. TestInv'
    BY <1>2 DEF C!add_lock, TestInv, MutexInv, C!TypeOK
  <2>5. ShutdownInv'
    BY <1>2, SMTT(30) DEF C!add_lock, ShutdownInv, C!TypeOK
  <2>6. C!OnlyMissedSleep'
    BY <1>2, SMTT(30) DEF C!add_lock, C!OnlyMissedSleep, C!TypeOK, ShutdownInv
  <2>7. JobInv'
    BY <1>2, SMTT(30) DEF C!add_lock, JobInv, C!TypeOK, CountInv, between
  <2>8. WakeupInv'
    BY <1>2, SMTT(30) DEF C!add_lock, WakeupInv, C!NoLostWakeup, C!TypeOK, MutexInv, TestInv, ShutdownInv
  <2> QED
    BY <2>1, <2>2, <2>3, <2>4, <2>5, <2>6, <2>7, <2>8 DEF PoolInv
<1>3. CASE C!add_push
  <2>1. C!TypeOK'
    BY <1>3 DEF C!add_push, C!TypeOK, C!WorkerPC, C!MainPC, JobInv
  <2>2. MutexInv'
    BY <1>3 DEF C!add_push, MutexInv, C!TypeOK
  <2>3. CountInv'
    BY <1>3 DEF C!add_push, CountInv, between, MutexInv, C!TypeOK
  <2>4. TestInv'
    BY <1>3 DEF C!add_push, TestInv, MutexInv, C!TypeOK
  <2>5. ShutdownInv'
    BY <1>3 DEF C!add_push, ShutdownInv, C!TypeOK
  <2>6. C!OnlyMissedSleep'
    BY <1>3, SMTT(30) DEF C!add_push, C!OnlyMissedSleep, C!TypeOK, ShutdownInv
  <2>7. JobInv'
    BY <1>3, SMTT(30) DEF C!add_push, JobInv, C!TypeOK, CountInv, between
  <2>8. WakeupInv'
    BY <1>3, SMTT(30) DEF C!add_push, WakeupInv, C!NoLostWakeup, C!TypeOK, MutexInv, TestInv, ShutdownInv
  <2> QED
    BY <2>1, <2>2, <2>3, <2>4, <2>5, <2>6, <2>7, <2>8 DEF PoolInv
<1>4. CASE C!add_count
  <2>1. C!TypeOK'
    BY <1>4 DEF C!add_count, C!TypeOK, C!WorkerPC, C!MainPC, TestInv, CountInv, between
  <2>2. MutexInv'
    BY <1>4 DEF C!add_count, MutexInv, C!TypeOK
  <2>3. CountInv'
    BY <1>4 DEF C!add_count, CountInv, between, MutexInv, C!TypeOK
  <2>4. TestInv'
    BY <1>4, SMTT(30) DEF C!add_count, TestInv, MutexInv, C!TypeOK
  <2>5. ShutdownInv'
    BY <1>4 DEF C!add_count, ShutdownInv, C!TypeOK
  <2>6. C!OnlyMissedSleep'
    BY <1>4, SMTT(30) DEF C!add_count, C!OnlyMissedSleep, C!TypeOK, ShutdownInv
  <2>7. JobInv'
    BY <1>4, SMTT(30) DEF C!add_count, JobInv, C!TypeOK, CountInv, between
  <2>8. WakeupInv'
    BY <1>4, SMTT(30) DEF C!add_count, WakeupInv, C!NoLostWakeup, C!TypeOK, MutexInv, TestInv, ShutdownInv
  <2> QED
    BY <2>1, <2>2, <2>3, <2>4, <2>5, <2>6, <2>7, <2>8 DEF PoolInv
<1>5. CASE C!add_signal
  <2>1. C!TypeOK'
    BY <1>5, SMTT(30) DEF C!add_signal, C!Waiting, C!TypeOK, C!WorkerPC, C!MainPC, TestInv, CountInv, between
  <2>2. MutexInv'
    BY <1>5 DEF C!add_signal, C!Waiting, MutexInv, C!TypeOK
  <2>3. CountInv'
    BY <1>5, SMTT(30) DEF C!add_signal, C!Waiting, CountInv, between, MutexInv, C!TypeOK
  <2>4. TestInv'
    BY <1>5 DEF C!add_signal, C!Waiting, TestInv, MutexInv, C!TypeOK
  <2>5. ShutdownInv'
    BY <1>5 DEF C!add_signal, C!Waiting, ShutdownInv, C!TypeOK
  <2>6. C!OnlyMissedSleep'
    BY <1>5, SMTT(30) DEF C!add_signal, C!Waiting, C!OnlyMissedSleep, C!TypeOK, ShutdownInv
  <2>7. JobInv'
    BY <1>5, SMTT(30) DEF C!add_signal, C!Waiting, JobInv, C!TypeOK, CountInv, between
  <2>8. WakeupInv'
    BY <1>5, SMTT(30) DEF C!add_signal, C!Waiting, WakeupInv, C!NoLostWakeup, C!TypeOK, MutexInv, TestInv, ShutdownInv
  <2> QED
    BY <2>1, <2>2, <2>3, <2>4, <2>5, <2>6, <2>7, <2>8 DEF PoolInv
<1>6. CASE C!destructor
  <2>1. C!TypeOK'
    BY <1>6 DEF C!destructor, C!TypeOK, C!WorkerPC, C!MainPC, TestInv, CountInv, between
  <2>2. MutexInv'
    BY <1>6 DEF C!destructor, MutexInv, C!TypeOK
  <2>3. CountInv'
    BY <1>6 DEF C!destructor, CountInv, between, MutexInv, C!TypeOK
  <2>4. TestInv'
    BY <1>6 DEF C!destructor, TestInv, MutexInv, C!TypeOK
  <2>5. ShutdownInv'
    BY <1>6 DEF C!destructor, ShutdownInv, C!TypeOK
  <2>6. C!OnlyMissedSleep'
    BY <1>6, SMTT(30) DEF C!destructor, C!OnlyMissedSleep, C!TypeOK, ShutdownInv
  <2>7. JobInv'
    BY <1>6, SMTT(30) DEF C!destructor, JobInv, C!TypeOK, CountInv, between
  <2>8. WakeupInv'
    BY <1>6, SMTT(30) DEF C!destructor, WakeupInv, C!NoLostWakeup, C!TypeOK, MutexInv, TestInv, ShutdownInv
  <2> QED
    BY <2>1, <2>2, <2>3, <2>4, <2>5, <2>6, <2>7, <2>8 DEF PoolInv
<1>7. CASE C!broadcast
  <2>1. C!TypeOK'
    BY <1>7 DEF C!broadcast, C!TypeOK, C!WorkerPC, C!MainPC, TestInv, CountInv, between
  <2>2. MutexInv'
    BY <1>7, SMTT(30) DEF C!broadcast, MutexInv, C!TypeOK
  <2>3. CountInv'
    BY <1>7 DEF C!broadcast, CountInv, between, MutexInv, C!TypeOK
  <2>4. TestInv'
    BY <1>7, SMTT(30) DEF C!broadcast, TestInv, MutexInv, C!TypeOK
  <2>5. ShutdownInv'
    BY <1>7 DEF C!broadcast, ShutdownInv, C!TypeOK
  <2>6. C!OnlyMissedSleep'
    BY <1>7, SMTT(30) DEF C!broadcast, C!OnlyMissedSleep, C!TypeOK, ShutdownInv
  <2>7. JobInv'
    BY <1>7, SMTT(30) DEF C!broadcast, JobInv, C!TypeOK, CountInv, between
  <2>8. WakeupInv'
    BY <1>7, SMTT(30) DEF C!broadcast, WakeupInv, C!NoLostWakeup, C!TypeOK, MutexInv, TestInv, ShutdownInv
  <2> QED
    BY <2>1, <2>2, <2>3, <2>4, <2>5, <2>6, <2>7, <2>8 DEF PoolInv
<1>8. CASE C!join_workers
  <2>1. C!TypeOK'
    BY <1>8, SMTT(30) DEF C!join_workers, C!TypeOK, C!WorkerPC, C!MainPC, TestInv, CountInv, between
  <2>2. MutexInv'
    BY <1>8, SMTT(30) DEF C!join_workers, MutexInv, C!TypeOK
  <2>3. CountInv'
    BY <1>8, SMTT(30) DEF C!join_workers, CountInv, between, MutexInv, C!TypeOK
  <2>4. TestInv'
    BY <1>8, SMTT(30) DEF C!join_workers, TestInv, MutexInv, C!TypeOK
  <2>5. ShutdownInv'
    BY <1>8 DEF C!join_workers, ShutdownInv, C!TypeOK
  <2>6. C!OnlyMissedSleep'
    BY <1>8, SMTT(30) DEF C!join_workers, C!OnlyMissedSleep, C!TypeOK, ShutdownInv
  <2>7. JobInv'
    BY <1>8, SMTT(30) DEF C!join_workers, JobInv, C!TypeOK, CountInv, between
  <2>8. WakeupInv'
    BY <1>8, SMTT(30) DEF C!join_workers, WakeupInv, C!NoLostWakeup, C!TypeOK, MutexInv, TestInv, ShutdownInv
  <2> QED
    BY <2>1, <2>2, <2>3, <2>4, <2>5, <2>6, <2>7, <2>8 DEF PoolInv
<1>9. CASE C!clear
  <2>1. C!TypeOK'
    BY <1>9 DEF C!clear, C!TypeOK, C!WorkerPC, C!MainPC, TestInv, CountInv, between
  <2>2. MutexInv'
    BY <1>9, SMTT(30) DEF C!clear, MutexInv, C!TypeOK
  <2>3. CountInv'
    BY <1>9, SMTT(30) DEF C!clear, CountInv, between, MutexInv, C!TypeOK
  <2>4. TestInv'
    BY <1>9 DEF C!clear, TestInv, MutexInv, C!TypeOK
  <2>5. ShutdownInv'
    BY <1>9, SMTT(30) DEF C!clear, ShutdownInv, C!TypeOK
  <2>6. C!OnlyMissedSleep'
    BY <1>9, SMTT(30) DEF C!clear, C!OnlyMissedSleep, C!TypeOK, ShutdownInv
  <2>7. JobInv'
    BY <1>9, SMTT(30) DEF C!clear, JobInv, C!TypeOK, CountInv, between
  <2>8. WakeupInv'
    BY <1>9 DEF C!clear, WakeupInv, C!NoLostWakeup, C!TypeOK, MutexInv, TestInv, ShutdownInv
  <2> QED
    BY <2>1, <2>2, <2>3, <2>4, <2>5, <2>6, <2>7, <2>8 DEF PoolInv
<1>10. ASSUME NEW j \in Jobs \ c_added, C!pool_add_job(j)
      PROVE  PoolInv'
  <2>1. C!TypeOK'
    BY <1>10, SMTT(30) DEF C!pool_add_job, C!TypeOK, C!WorkerPC, C!MainPC, TestInv, CountInv, between
  <2>2. MutexInv'
    BY <1>10, SMTT(30) DEF C!pool_add_job, MutexInv, C!TypeOK
  <2>3. CountInv'
    BY <1>10, SMTT(30) DEF C!pool_add_job, CountInv, between, MutexInv, C!TypeOK
  <2>4. TestInv'
    BY <1>10, SMTT(30) DEF C!pool_add_job, TestInv, MutexInv, C!TypeOK
  <2>5. ShutdownInv'
    BY <1>10, SMTT(30) DEF C!pool_add_job, ShutdownInv, C!TypeOK
  <2>6. C!OnlyMissedSleep'
    BY <1>10, SMTT(30) DEF C!pool_add_job, C!OnlyMissedSleep, C!TypeOK, ShutdownInv
  <2>7. JobInv'
    BY <1>10, SMTT(30) DEF C!pool_add_job, JobInv, C!TypeOK, CountInv, between
  <2>8. WakeupInv'
    BY <1>10 DEF C!pool_add_job, WakeupInv, C!NoLostWakeup, C!TypeOK, MutexInv, TestInv, ShutdownInv
  <2> QED
    BY <2>1, <2>2, <2>3, <2>4, <2>5, <2>6, <2>7, <2>8, SMTT(30) DEF PoolInv
<1> QED
  BY <1>1, <1>2, <1>3, <1>4, <1>5, <1>6, <1>7, <1>8, <1>9, <1>10, SMTT(30) DEF C!pool_call

(* Where MCPools runs the C++ pool, it is this pool that runs. *)
LEMMA RunsThePool == FairPools => C!PoolSpec
<1>1. InitPools => C!Init
  BY DEF InitPools
<1>2. [NextPools]_allVars => [C!PoolNext]_(C!pool)
  BY DEF NextPools, allVars, cVars, C!pool, C!members
<1> QED
  BY <1>1, <1>2, PTL DEF FairPools, C!PoolSpec

(* PoolInv is inductive. *)
THEOREM InductiveInvariant == C!PoolSpec => []PoolInv
<1>1. PoolInv /\ [C!PoolNext]_(C!pool) => PoolInv'
  <2> SUFFICES ASSUME PoolInv, [C!PoolNext]_(C!pool) PROVE PoolInv'
    BY SMTT(30)
  <2>1. CASE UNCHANGED C!pool
    BY <2>1 DEF C!pool, C!members, PoolInv, C!TypeOK, MutexInv, CountInv, between, TestInv, ShutdownInv,
                C!OnlyMissedSleep, JobInv, WakeupInv, C!NoLostWakeup
  <2> QED
    BY <2>1, PoolsAssumption, WorkerSteps, MainSteps DEF C!PoolNext
<1>2. C!Init => PoolInv
  BY PoolsAssumption, Initially
<1> QED
  BY <1>1, <1>2, PTL DEF C!PoolSpec

(* The types, the two assertions of thread_routine, and that only a worker *)
(* caught between its test and its wait sleeps through the broadcast.      *)
THEOREM CppPoolRightHolds == C!PoolSpec => []CppPoolRight
<1>1. PoolInv => CppPoolRight
  <2> SUFFICES ASSUME PoolInv PROVE C!AssertsHold
    BY DEF PoolInv, CppPoolRight, C!CppPoolRight, WakeupInv
  <2> SUFFICES ASSUME NEW w \in Workers, c_pc[w] = "count"
               PROVE  cur_queue_size # 0 /\ queue_job # <<>>
    BY DEF C!AssertsHold, C!at
  <2>1. cur_queue_size # 0
    BY DEF PoolInv, TestInv
  <2>2. c_mpc \notin {"clear", "returned"}
    BY DEF PoolInv, ShutdownInv
  <2> QED
    BY <2>1, <2>2 DEF PoolInv, CountInv, C!TypeOK
<1> QED
  BY <1>1, InductiveInvariant, PTL

(* A step that touches neither the queue nor a worker's job, and does not  *)
(* end the joins, is a stutter of the abstract pool.                       *)
LEMMA Stutter ==
    UNCHANGED <<c_added, queue_job, job>> /\ C!Closed' = C!Closed => UNCHANGED C!JP!jobVars
BY DEF C!JP!jobVars, C!Running

(* Every step of the pool is a step of JobPool or a stutter. *)
LEMMA StepRefines ==
    ASSUME C!PoolAssumption, PoolInv, [C!PoolNext]_(C!pool)
    PROVE  [C!JP!Next]_(C!JP!jobVars)
<1> USE DEF C!keepMain, C!keepWorkers, C!members
<1>1. CASE C!pthread_create \/ C!add_lock \/ C!add_count \/ C!add_signal \/ C!broadcast \/ C!destructor
  BY <1>1, Stutter DEF C!pthread_create, C!add_lock, C!add_count, C!add_signal, C!broadcast, C!destructor, C!Closed
<1>2. ASSUME NEW j \in Jobs, C!pool_add_job(j)
      PROVE  UNCHANGED C!JP!jobVars
  BY <1>2, Stutter DEF C!pool_add_job, C!Closed
<1>3. CASE C!add_push
  <2>1. c_new \in Jobs \ c_added
    BY <1>3 DEF C!add_push, PoolInv, JobInv
  <2>2. C!JP!Submit(c_new)
    BY <1>3, <2>1 DEF C!add_push, C!JP!Submit, C!Running, C!Closed
  <2> QED
    BY <2>1, <2>2, SMTT(30) DEF C!JP!Next
<1>4. CASE C!join_workers
  <2>1. C!JP!Close
    BY <1>4 DEF C!join_workers, C!JP!Close, C!Running, C!Closed
  <2> QED
    BY <2>1, SMTT(30) DEF C!JP!Next
<1>5. CASE C!clear
  <2>1. CASE queue_job # <<>>
    <3>1. C!JP!Discard
      BY <1>5, <2>1, SMTT(30) DEF C!clear, C!JP!Discard, C!Running, C!Closed
    <3> QED
      BY <3>1, SMTT(30) DEF C!JP!Next
  <2>2. CASE queue_job = <<>>
    BY <1>5, <2>2, Stutter, SMTT(30) DEF C!clear, C!Closed
  <2> QED
    BY <2>1, <2>2
<1>6. ASSUME NEW w \in Workers, C!thread_routine(w) \/ C!worker_run(w) \/ C!spurious_wakeup(w)
      PROVE  [C!JP!Next]_(C!JP!jobVars)
  <2>1. CASE C!worker_pop(w)
    <3>1. ~C!Closed /\ job[w] = None
      BY <2>1 DEF C!worker_pop, C!at, C!Closed, PoolInv, ShutdownInv, JobInv, C!TypeOK
    <3>2. queue_job # <<>>
      BY <2>1, <3>1 DEF C!worker_pop, C!at, C!Closed, PoolInv, CountInv, between, C!TypeOK
    <3>3. Head(queue_job) # None
      BY <3>2, SMTT(30) DEF C!PoolAssumption, PoolInv, C!TypeOK
    <3>4. C!Running' = C!Running \cup {Head(queue_job)}
      BY <2>1, <3>1, <3>3 DEF C!worker_pop, C!Running, PoolInv, C!TypeOK
    <3>5. C!JP!Start
      BY <2>1, <3>1, <3>2, <3>4 DEF C!worker_pop, C!JP!Start, C!Closed
    <3> QED
      BY <3>5 DEF C!JP!Next
  <2>2. CASE C!worker_delete(w)
    <3>1. job[w] \in Jobs /\ job[w] # None
      BY <2>2 DEF C!worker_delete, C!at, PoolInv, C!TypeOK, JobInv
    <3>2. C!Running' = C!Running \ {job[w]}
      BY <2>2, <3>1, SMTT(30) DEF C!worker_delete, C!Running, PoolInv, C!TypeOK, JobInv
    <3>3. C!JP!Finish(job[w])
      BY <2>2, <3>1, <3>2, Zenon DEF C!worker_delete, C!JP!Finish, C!Running, C!Closed
    <3> QED
      BY <3>1, <3>3, SMTT(30) DEF C!JP!Next
  <2>3. CASE C!worker_lock(w) \/ C!worker_test(w) \/ C!pthread_cond_wait(w) \/ C!worker_check(w)
             \/ C!worker_count(w) \/ C!worker_run(w) \/ C!spurious_wakeup(w)
    BY <2>3, Stutter DEF C!worker_lock, C!worker_test, C!pthread_cond_wait, C!worker_check,
                         C!worker_count, C!worker_run, C!spurious_wakeup, C!Closed
  <2> QED
    BY <1>6, <2>1, <2>2, <2>3 DEF C!thread_routine
<1>7. CASE UNCHANGED C!pool
  BY <1>7, Stutter DEF C!pool, C!Closed
<1> QED
  BY <1>1, <1>2, <1>3, <1>4, <1>5, <1>6, <1>7, SMTT(30) DEF C!PoolNext, C!pool_call

(* The C++ pool implements JobPool: jobs start in the order of             *)
(* pool_add_job, each once and with one worker, and none after the joins.  *)
THEOREM Refinement == C!PoolSpec => CppImplementsJobPool
<1>1. C!Init => C!JP!Init
  BY DEF C!Init, C!JP!Init, C!Running, C!Closed
<1>2. PoolInv /\ [C!PoolNext]_(C!pool) => [C!JP!Next]_(C!JP!jobVars)
  BY PoolsAssumption, StepRefines
<1> QED
  BY <1>1, <1>2, InductiveInvariant, PTL DEF C!PoolSpec, C!JP!Spec, C!CppImplementsJobPool, CppImplementsJobPool
============================================================================
