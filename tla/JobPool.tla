------------------------------- MODULE JobPool -------------------------------
(***************************************************************************)
(* What a worker pool promises its caller, whatever its locks look like:   *)
(* jobs are started in the order they were submitted, each one by one      *)
(* worker and at most once, and once the pool is closed no further job     *)
(* starts; the jobs still waiting are discarded.  Both pools of the        *)
(* repository implement it: thread/pool/thread_pool.c (ThreadPool.tla) and *)
(* socket/libcurl/pool/thread_pool.cpp (CThreadPool.tla).                  *)
(***************************************************************************)
EXTENDS Sequences

CONSTANT Jobs

VARIABLES
    submitted,  \* the jobs the pool has accepted so far
    pending,    \* the accepted jobs no worker has taken, oldest first
    running,    \* the jobs in the hands of a worker
    closed      \* no job starts any more

jobVars == <<submitted, pending, running, closed>>

Init ==
    /\ submitted = {}
    /\ pending = <<>>
    /\ running = {}
    /\ closed = FALSE

Submit(j) ==
    /\ ~closed
    /\ j \notin submitted
    /\ submitted' = submitted \cup {j}
    /\ pending' = Append(pending, j)
    /\ UNCHANGED <<running, closed>>

Start ==
    /\ ~closed
    /\ pending # <<>>
    /\ running' = running \cup {Head(pending)}
    /\ pending' = Tail(pending)
    /\ UNCHANGED <<submitted, closed>>

Finish(j) ==
    /\ j \in running
    /\ running' = running \ {j}
    /\ UNCHANGED <<submitted, pending, closed>>

Close ==
    /\ ~closed
    /\ closed' = TRUE
    /\ UNCHANGED <<submitted, pending, running>>

Discard ==
    /\ closed
    /\ pending # <<>>
    /\ pending' = Tail(pending)
    /\ UNCHANGED <<submitted, running, closed>>

Next ==
    \/ \E j \in Jobs : Submit(j) \/ Finish(j)
    \/ Start
    \/ Close
    \/ Discard

Spec == Init /\ [][Next]_jobVars
=============================================================================
