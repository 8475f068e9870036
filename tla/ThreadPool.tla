----------------------------- MODULE ThreadPool -----------------------------
(***************************************************************************)
(* The C worker pool, thread/pool/thread_pool.c.  One thread (test.c's     *)
(* main) creates the pool, adds work and destroys the pool; the workers    *)
(* run thread_routine.  A step is what a thread does between two points    *)
(* where another thread can interfere, so the unlocked accesses of         *)
(* tpool_destroy to shutdown and to the queue are steps of their own.      *)
(***************************************************************************)
EXTENDS Naturals, Sequences, FiniteSets

CONSTANTS
    Workers,    \* the max_thr_num worker threads
    Jobs,       \* the work items the program can add
    None        \* no thread, no work

ASSUME ConstantsAssumption ==
    /\ IsFiniteSet(Workers)
    /\ Workers # {}
    /\ None \notin Workers \cup Jobs

Main == "main"

ASSUME MainAssumption == Main \notin Workers \cup {None}

VARIABLES
    tpool,      \* the pool object: "none", "live" or "freed"
    shutdown,   \* tpool->shutdown
    queue_head, \* the list hanging off tpool->queue_head
    queue_lock, \* the thread that holds tpool->queue_lock, or None
    work,       \* each worker's local variable of that name
    pc,         \* where each worker is in thread_routine
    mpc,        \* where the main thread is
    new,        \* tpool_add_work's local variable work
    added,      \* history: the jobs queued, in order
    started,    \* history: the jobs taken by a worker, in order
    dropped,    \* history: the jobs tpool_destroy freed unrun, in order
    freed       \* the work items passed to free()

poolVars == <<tpool, shutdown, queue_head, queue_lock>>
history == <<added, started, dropped>>
vars == <<tpool, shutdown, queue_head, queue_lock, work, pc, mpc, new,
          added, started, dropped, freed>>

(* Where a worker dereferences tpool next. *)
UsesPool == {"lock", "test", "cond_wait", "relock", "check", "take"}
WorkerPC == UsesPool \cup {"unborn", "waiting", "run", "free", "exited", "dangling"}
MainPC == {"create", "idle", "add_lock", "add_link", "add_signal", "set",
           "bcast_lock", "bcast", "join", "drain", "release", "returned",
           "exit"}

SeqRange(s) == {s[i] : i \in 1..Len(s)}

TypeOK ==
    /\ tpool \in {"none", "live", "freed"}
    /\ shutdown \in BOOLEAN
    /\ queue_head \in Seq(Jobs)
    /\ queue_lock \in Workers \cup {Main, None}
    /\ work \in [Workers -> Jobs \cup {None}]
    /\ pc \in [Workers -> WorkerPC]
    /\ mpc \in MainPC
    /\ new \in Jobs \cup {None}
    /\ added \in Seq(Jobs)
    /\ started \in Seq(Jobs)
    /\ dropped \in Seq(Jobs)
    /\ freed \subseteq Jobs

Init ==
    /\ tpool = "none"
    /\ shutdown = FALSE
    /\ queue_head = <<>>
    /\ queue_lock = None
    /\ work = [w \in Workers |-> None]
    /\ pc = [w \in Workers |-> "unborn"]
    /\ mpc = "create"
    /\ new = None
    /\ added = <<>>
    /\ started = <<>>
    /\ dropped = <<>>
    /\ freed = {}

-----------------------------------------------------------------------------
(* tpool_create, run by the main thread. *)

(* The pool is allocated and initialised; a failing call ends the process. *)
tpool_create ==
    /\ mpc = "create"
    /\ tpool = "none"
    /\ \/ tpool' = "live" /\ mpc' = mpc
       \/ tpool' = tpool /\ mpc' = "exit"
    /\ UNCHANGED <<shutdown, queue_head, queue_lock, work, pc, new, history, freed>>

(* One turn of the pthread_create loop; the new worker can run at once. *)
pthread_create ==
    /\ mpc = "create"
    /\ tpool = "live"
    /\ \/ \E w \in Workers :
            /\ pc[w] = "unborn"
            /\ pc' = [pc EXCEPT ![w] = "lock"]
            /\ mpc' = IF \A v \in Workers \ {w} : pc[v] # "unborn"
                       THEN "idle" ELSE "create"
       \/ mpc' = "exit" /\ pc' = pc
    /\ UNCHANGED <<poolVars, work, new, history, freed>>

-----------------------------------------------------------------------------
(* thread_routine, run by worker w.  pthread_cond_wait releases the lock   *)
(* and sleeps in one step; a sleeper leaves "waiting" when it is signalled *)
(* or for no reason at all, and then competes for the lock again.          *)

Alive == mpc # "exit"

(* pthread_mutex_lock, on line 17 or inside pthread_cond_wait. *)
worker_lock(w) ==
    /\ Alive
    /\ pc[w] \in {"lock", "relock"}
    /\ tpool = "live"
    /\ queue_lock = None
    /\ queue_lock' = w
    /\ pc' = [pc EXCEPT ![w] = "test"]
    /\ UNCHANGED <<tpool, shutdown, queue_head, work, mpc, new, history, freed>>

(* while (!tpool->queue_head && !tpool->shutdown) *)
worker_test(w) ==
    /\ Alive
    /\ pc[w] = "test"
    /\ tpool = "live"
    /\ pc' = [pc EXCEPT ![w] = IF queue_head = <<>> /\ ~shutdown
                               THEN "cond_wait" ELSE "check"]
    /\ UNCHANGED <<poolVars, work, mpc, new, history, freed>>

pthread_cond_wait(w) ==
    /\ Alive
    /\ pc[w] = "cond_wait"
    /\ tpool = "live"
    /\ queue_lock' = None
    /\ pc' = [pc EXCEPT ![w] = "waiting"]
    /\ UNCHANGED <<tpool, shutdown, queue_head, work, mpc, new, history, freed>>

spurious_wakeup(w) ==
    /\ Alive
    /\ pc[w] = "waiting"
    /\ tpool = "live"
    /\ pc' = [pc EXCEPT ![w] = "relock"]
    /\ UNCHANGED <<poolVars, work, mpc, new, history, freed>>

(* Mutant: a worker that sees work takes it even when shutdown is set. *)
worker_check_drains(w) ==
    /\ Alive
    /\ pc[w] = "check"
    /\ tpool = "live"
    /\ IF shutdown /\ queue_head = <<>>
       THEN /\ queue_lock' = None
            /\ pc' = [pc EXCEPT ![w] = "exited"]
       ELSE /\ queue_lock' = queue_lock
            /\ pc' = [pc EXCEPT ![w] = "take"]
    /\ UNCHANGED <<tpool, shutdown, queue_head, work, mpc, new, history, freed>>

(* if (tpool->shutdown): unlock and pthread_exit. *)
worker_check(w) ==
    /\ Alive
    /\ pc[w] = "check"
    /\ tpool = "live"
    /\ IF shutdown
       THEN /\ queue_lock' = None
            /\ pc' = [pc EXCEPT ![w] = "exited"]
       ELSE /\ queue_lock' = queue_lock
            /\ pc' = [pc EXCEPT ![w] = "take"]
    /\ UNCHANGED <<tpool, shutdown, queue_head, work, mpc, new, history, freed>>

(* The head of the queue is unlinked and the lock released. *)
worker_take(w) ==
    /\ Alive
    /\ pc[w] = "take"
    /\ tpool = "live"
    /\ work' = [work EXCEPT ![w] = Head(queue_head)]
    /\ queue_head' = Tail(queue_head)
    /\ started' = Append(started, Head(queue_head))
    /\ queue_lock' = None
    /\ pc' = [pc EXCEPT ![w] = "run"]
    /\ UNCHANGED <<tpool, shutdown, mpc, new, added, dropped, freed>>

(* work->routine(work->arg), which returns. *)
worker_run(w) ==
    /\ Alive
    /\ pc[w] = "run"
    /\ pc' = [pc EXCEPT ![w] = "free"]
    /\ UNCHANGED <<poolVars, work, mpc, new, history, freed>>

worker_free(w) ==
    /\ Alive
    /\ pc[w] = "free"
    /\ freed' = freed \cup {work[w]}
    /\ work' = [work EXCEPT ![w] = None]
    /\ pc' = [pc EXCEPT ![w] = "lock"]
    /\ UNCHANGED <<poolVars, mpc, new, history>>

(* The worker reaches for a pool that tpool_destroy has freed: anything    *)
(* may follow, and the model follows that worker no further.               *)
worker_dangles(w) ==
    /\ Alive
    /\ pc[w] \in UsesPool
    /\ tpool = "freed"
    /\ pc' = [pc EXCEPT ![w] = "dangling"]
    /\ UNCHANGED <<poolVars, work, mpc, new, history, freed>>

thread_routine(w) ==
    \/ worker_lock(w)
    \/ worker_test(w)
    \/ pthread_cond_wait(w)
    \/ worker_check(w)
    \/ worker_take(w)
    \/ worker_run(w)
    \/ worker_free(w)
    \/ worker_dangles(w)

-----------------------------------------------------------------------------
(* tpool_add_work, run by the main thread. *)

(* The work item is allocated; if that fails the call returns -1 and has   *)
(* changed nothing.                                                        *)
tpool_add_work ==
    /\ mpc = "idle"
    /\ \E j \in Jobs \ SeqRange(added) :
         /\ new' = j
         /\ mpc' = "add_lock"
    /\ UNCHANGED <<poolVars, work, pc, history, freed>>

add_lock ==
    /\ mpc = "add_lock"
    /\ queue_lock = None
    /\ queue_lock' = Main
    /\ mpc' = "add_link"
    /\ UNCHANGED <<tpool, shutdown, queue_head, work, pc, new, history, freed>>

(* The item goes behind the last one of the list. *)
add_link ==
    /\ mpc = "add_link"
    /\ queue_head' = Append(queue_head, new)
    /\ added' = Append(added, new)
    /\ new' = None
    /\ mpc' = "add_signal"
    /\ UNCHANGED <<tpool, shutdown, queue_lock, work, pc, started, dropped, freed>>

Waiting == {w \in Workers : pc[w] = "waiting"}

(* Mutant: the workers are not told of the new item. *)
add_signal_none ==
    /\ mpc = "add_signal"
    /\ queue_lock' = None
    /\ mpc' = "idle"
    /\ UNCHANGED <<tpool, shutdown, queue_head, work, pc, new, history, freed>>

(* pthread_cond_signal wakes a sleeper if there is one; then unlock. *)
add_signal ==
    /\ mpc = "add_signal"
    /\ \/ Waiting = {} /\ pc' = pc
       \/ \E w \in Waiting : pc' = [pc EXCEPT ![w] = "relock"]
    /\ queue_lock' = None
    /\ mpc' = "idle"
    /\ UNCHANGED <<tpool, shutdown, queue_head, work, new, history, freed>>

-----------------------------------------------------------------------------
(* tpool_destroy, run by the main thread. *)

(* The test of shutdown, outside the lock; a second call would return. *)
tpool_destroy ==
    /\ mpc = "idle"
    /\ ~shutdown
    /\ mpc' = "set"
    /\ UNCHANGED <<poolVars, work, pc, new, history, freed>>

(* tpool->shutdown = 1, outside the lock. *)
set_shutdown ==
    /\ mpc = "set"
    /\ shutdown' = TRUE
    /\ mpc' = "bcast_lock"
    /\ UNCHANGED <<tpool, queue_head, queue_lock, work, pc, new, history, freed>>

(* Mutant: the broadcast is made without the lock. *)
broadcast_no_lock ==
    /\ mpc = "bcast_lock"
    /\ mpc' = "bcast"
    /\ UNCHANGED <<poolVars, work, pc, new, history, freed>>

broadcast_lock ==
    /\ mpc = "bcast_lock"
    /\ queue_lock = None
    /\ queue_lock' = Main
    /\ mpc' = "bcast"
    /\ UNCHANGED <<tpool, shutdown, queue_head, work, pc, new, history, freed>>

(* pthread_cond_broadcast and unlock. *)
broadcast ==
    /\ mpc = "bcast"
    /\ pc' = [w \in Workers |-> IF pc[w] = "waiting" THEN "relock" ELSE pc[w]]
    /\ queue_lock' = None
    /\ mpc' = "join"
    /\ UNCHANGED <<tpool, shutdown, queue_head, work, new, history, freed>>

(* The attribute the workers are created with. *)
DETACHED == TRUE

(* pthread_join on a detached thread reports an error at once; only a      *)
(* joinable thread would be waited for.                                    *)
join_workers ==
    /\ mpc = "join"
    /\ DETACHED \/ \A w \in Workers : pc[w] = "exited"
    /\ mpc' = "drain"
    /\ UNCHANGED <<poolVars, work, pc, new, history, freed>>

(* One turn of the loop that frees the queue, outside the lock. *)
drain ==
    /\ mpc = "drain"
    /\ IF queue_head # <<>>
       THEN /\ queue_head' = Tail(queue_head)
            /\ dropped' = Append(dropped, Head(queue_head))
            /\ freed' = freed \cup {Head(queue_head)}
            /\ mpc' = mpc
       ELSE /\ mpc' = "release"
            /\ UNCHANGED <<queue_head, dropped, freed>>
    /\ UNCHANGED <<tpool, shutdown, queue_lock, work, pc, new, added, started>>

(* The mutex and the condition are destroyed and the pool freed. *)
release ==
    /\ mpc = "release"
    /\ tpool' = "freed"
    /\ mpc' = "returned"
    /\ UNCHANGED <<shutdown, queue_head, queue_lock, work, pc, new, history, freed>>

main ==
    \/ tpool_create
    \/ pthread_create
    \/ tpool_add_work
    \/ add_lock
    \/ add_link
    \/ add_signal
    \/ tpool_destroy
    \/ set_shutdown
    \/ broadcast_lock
    \/ broadcast
    \/ join_workers
    \/ drain
    \/ release

(* The threads have all ended. *)
terminated ==
    /\ \/ mpc = "exit"
       \/ mpc = "returned" /\ \A w \in Workers : pc[w] \in {"exited", "dangling"}
    /\ UNCHANGED vars

Next ==
    \/ main
    \/ \E w \in Workers : thread_routine(w) \/ spurious_wakeup(w)
    \/ terminated

(* The scheduler runs every thread that can run.  Nothing forces the       *)
(* program to add work or to destroy the pool, and nothing wakes a sleeper *)
(* but a signal.                                                           *)
finish_call == mpc # "idle" /\ main
Fairness ==
    /\ WF_vars(finish_call)
    /\ \A w \in Workers : WF_vars(thread_routine(w))

Spec == Init /\ [][Next]_vars
FairSpec == Spec /\ Fairness

-----------------------------------------------------------------------------
(* Properties *)

(* FIFO, nothing lost and nothing started twice: at every moment the jobs  *)
(* that were queued are, in that order, those the workers have taken,      *)
(* then those tpool_destroy has thrown away, then those still in the list; *)
(* the lock-free drain of lines 108-112 never races a worker's take.       *)
FifoDispatch == added = started \o dropped \o queue_head

(* Each work item has one owner: an item in the list is in no worker's     *)
(* hands and has not been freed, and an item a worker holds is held by no  *)
(* other worker and has not been freed under it (lines 26-31, 108-112).    *)
OneOwner ==
    /\ SeqRange(queue_head) \cap freed = {}
    /\ \A w \in Workers : work[w] # None =>
         /\ work[w] \notin freed \cup SeqRange(queue_head)
         /\ \A v \in Workers \ {w} : work[v] # work[w]

(* tpool_destroy frees the list without the lock, on the strength of the   *)
(* broadcast it made under it: from then on no worker is past the shutdown *)
(* test of line 22, and none is asleep or about to sleep.                  *)
AfterBroadcast ==
    mpc \in {"join", "drain", "release", "returned"} =>
        \A w \in Workers : pc[w] \notin {"take", "cond_wait", "waiting", "unborn"}

(* A queued job is never left to sleeping workers: while the list is not   *)
(* empty and the signal of line 159 is not still due, some worker is awake *)
(* and on its way to the list (or the workers are still being created).    *)
NoLostWakeup ==
    (queue_head # <<>> /\ mpc # "add_signal") =>
        \E w \in Workers : pc[w] \notin {"unborn", "waiting"}

(* Every queued job is eventually taken by a worker, unless the pool is    *)
(* being destroyed.                                                        *)
JobTaken ==
    \A j \in Jobs :
        (j \in SeqRange(added)) ~> (j \in SeqRange(started) \/ shutdown)

(* tpool_destroy returns and no worker sleeps on, not even the one that    *)
(* tested shutdown just before line 95 set it: each exits, unless the pool *)
(* is freed before it gets to line 22 (the threads are detached, so the    *)
(* joins of line 103 wait for nobody).                                     *)
DestroyEnds ==
    shutdown ~> /\ mpc = "returned"
                /\ \A w \in Workers : pc[w] \in {"exited", "dangling"}

-----------------------------------------------------------------------------
(* The pool is closed from the broadcast on: setting shutdown does not yet *)
(* stop the worker that has just passed the test of line 22.               *)
Running == {work[w] : w \in {v \in Workers : work[v] # None}}
Closed == mpc \in {"join", "drain", "release", "returned"}

Pool == INSTANCE JobPool WITH
            submitted <- SeqRange(added),
            pending <- queue_head,
            running <- Running,
            closed <- Closed

(* The pool keeps the promise JobPool states. *)
ImplementsJobPool == Pool!Spec

-----------------------------------------------------------------------------
(* The inductive invariant behind the properties above. *)

(* Who holds the lock, where: between lines 17 and 28 the worker, between  *)
(* lines 145 and 160 and between 98 and 100 the main thread.               *)
LockInv ==
    /\ \A w \in Workers :
         pc[w] \in {"test", "cond_wait", "check", "take"} => queue_lock = w
    /\ mpc \in {"add_link", "add_signal", "bcast"} => queue_lock = Main

(* What the tests of lines 19 and 22 have established when the worker gets *)
(* to the wait and to the take.                                            *)
TakeInv ==
    \A w \in Workers :
        /\ pc[w] = "cond_wait" => queue_head = <<>>
        /\ pc[w] = "take" => queue_head # <<>>
        /\ pc[w] = "check" /\ ~shutdown => queue_head # <<>>

(* How far the main thread has come. *)
PhaseInv ==
    /\ shutdown <=> mpc \in {"bcast_lock", "bcast"} \/ Closed
    /\ mpc \notin {"create", "exit"} => \A w \in Workers : pc[w] # "unborn"
    /\ ~Closed => dropped = <<>>
    /\ tpool = "freed" <=> mpc = "returned"
    /\ mpc = "create" => queue_head = <<>>

(* Who owns which work item, and that the list holds none twice. *)
OwnerInv ==
    /\ \A w \in Workers : pc[w] \in {"run", "free"} <=> work[w] # None
    /\ mpc \in {"add_lock", "add_link"} => new \in Jobs \ SeqRange(added)
    /\ SeqRange(queue_head) \cup Running \cup freed \subseteq SeqRange(added)
    /\ \A i, j \in 1..Len(queue_head) : queue_head[i] = queue_head[j] => i = j

IInv ==
    /\ TypeOK
    /\ LockInv /\ TakeInv /\ PhaseInv
    /\ AfterBroadcast /\ NoLostWakeup
    /\ FifoDispatch
    /\ OwnerInv /\ OneOwner
=============================================================================
