------------------------------ MODULE MCPools ------------------------------
(***************************************************************************)
(* The two worker pools, in C (ThreadPool) and in C++ (CThreadPool), with  *)
(* three workers and two jobs.  A behaviour is one of one of them.         *)
(***************************************************************************)
EXTENDS ThreadPool

VARIABLES
    program,
    c_shutdown, queue_job, cur_queue_size, queue_mutex,
    c_pc, job, c_mpc, c_new, c_added, missed

C == INSTANCE CThreadPool WITH
    shutdown <- c_shutdown, pc <- c_pc, mpc <- c_mpc, new <- c_new, added <- c_added

ASSUME PoolsAssumption == C!PoolAssumption

cVars == <<c_shutdown, queue_job, cur_queue_size, queue_mutex, c_pc, job, c_mpc, c_new, c_added, missed>>
allVars == <<program, vars, cVars>>

InitPools == program \in {"c", "c++"} /\ Init /\ C!Init

(* A program that uses the C++ pool may stop at any time. *)
NextPools ==
    /\ UNCHANGED program
    /\ \/ program = "c" /\ Next /\ UNCHANGED cVars
       \/ program = "c++" /\ C!PoolNext /\ UNCHANGED vars
       \/ program = "c++" /\ UNCHANGED <<vars, cVars>>

FairPools ==
    /\ InitPools /\ [][NextPools]_allVars
    /\ WF_vars(program = "c" /\ finish_call)
    /\ \A w \in Workers : WF_vars(program = "c" /\ thread_routine(w))
    /\ WF_cVars(program = "c++" /\ C!pool_call)
    /\ \A w \in Workers : WF_cVars(program = "c++" /\ (C!thread_routine(w) \/ C!worker_run(w)))

-----------------------------------------------------------------------------
(* In the C++ pool the assertions of thread_routine hold, its state stays  *)
(* in its types, and a worker sleeps through the shutdown only if it was   *)
(* between its test and its wait when the destructor broadcast; no queued  *)
(* job is left to sleepers.                                                *)
CppPoolRight == C!CppPoolRight

(* The C++ pool, too, runs every job it was given once, in the order of    *)
(* pool_add_job.                                                           *)
CppImplementsJobPool == C!CppImplementsJobPool

(* In both pools, every job added is eventually taken by a worker, unless  *)
(* the pool is being destroyed: no signal is lost.                         *)
JobsTaken == JobTaken /\ C!JobTaken

(* tpool_destroy returns and no worker sleeps on; the destructor of the    *)
(* C++ pool returns if every sleeper heard its broadcast.                  *)
ShutdownsEnd == DestroyEnds /\ C!DestructorReturnsIfHeard
=============================================================================
