------------------------------- MODULE GzLock -------------------------------
(***************************************************************************)
(* foo.lock of zlib-1.2.8/examples/gzlog.c: log_lock, log_touch, log_check *)
(* and log_unlock, used by several processes.  Every system call is a      *)
(* step, except that utimes and the stat right behind it are one.          *)
(***************************************************************************)
EXTENDS Integers

CONSTANTS
    Users, NoLock,
    PATIENCE,   \* how old a lock may be in seconds before it is stale
    MaxTime     \* a bound on the clock

ASSUME GzLockAssumption == PATIENCE \in Nat /\ MaxTime \in Nat /\ NoLock \notin [mtime : Nat, by : Users]

VARIABLES
    now,    \* time(NULL)
    lock,   \* foo.lock: its modify time and who created it, or NoLock
    at,     \* where each process is
    saved,  \* lock of its struct log
    raced   \* whether a stat was overtaken: a lock was deleted that was not
            \* stale any more, or the lock of another was touched as our own

lockVars == <<now, lock, at, saved, raced>>

LockInit ==
    /\ now = 1 /\ lock = NoLock
    /\ at = [p \in Users |-> "out"] /\ saved = [p \in Users |-> 0]
    /\ raced = FALSE

goes(p, from, goto) == at[p] = from /\ at' = [at EXCEPT ![p] = goto]

(* Mutant: stale as soon as the patience is over, not after it. *)
stale_soon == now - lock.mtime >= PATIENCE

stale == now - lock.mtime > PATIENCE

-----------------------------------------------------------------------------
wants_lock(p) == goes(p, "out", "create") /\ UNCHANGED <<now, lock, saved, raced>>

(* The loop of log_lock: open with O_EXCL; if there is a lock, stat, which *)
(* fails if it has gone, and unlink if it is old; sleep otherwise.         *)
create_lock(p) ==
    /\ goes(p, "create", IF lock = NoLock THEN "created" ELSE "stat")
    /\ lock' = IF lock = NoLock THEN [mtime |-> now, by |-> p] ELSE lock
    /\ UNCHANGED <<now, saved, raced>>

stat_lock(p) ==
    /\ goes(p, "stat", IF lock # NoLock /\ stale THEN "stale" ELSE "create")
    /\ UNCHANGED <<now, lock, saved, raced>>

unlink_lock(p) ==
    /\ goes(p, "stale", "create")
    /\ lock' = NoLock
    /\ raced' = (raced \/ (lock # NoLock /\ ~stale))
    /\ UNCHANGED <<now, saved>>

has_lock(p) ==
    /\ goes(p, "created", "work")
    /\ saved' = IF lock = NoLock THEN saved ELSE [saved EXCEPT ![p] = lock.mtime]
    /\ UNCHANGED <<now, lock, raced>>

(* log_touch, of whoever's lock it is. *)
touched(p) ==
    /\ lock' = IF lock = NoLock THEN NoLock ELSE [lock EXCEPT !.mtime = now]
    /\ saved' = IF lock = NoLock THEN saved ELSE [saved EXCEPT ![p] = now]
    /\ UNCHANGED now

log_touch(p) == at[p] = "work" /\ touched(p) /\ UNCHANGED <<at, raced>>

(* log_check: whether the lock is not our own.  If it is, it is touched.   *)
log_check(p) == lock = NoLock \/ lock.mtime # saved[p]

(* Between two calls the lock is kept, and not touched. *)
leave(p) == goes(p, "work", "idle") /\ UNCHANGED <<now, lock, saved, raced>>

call(p) ==
    /\ goes(p, "idle", IF log_check(p) THEN "create" ELSE "checked")
    /\ UNCHANGED <<now, lock, saved, raced>>

close(p) ==
    /\ goes(p, "idle", IF log_check(p) THEN "out" ELSE "closing")
    /\ UNCHANGED <<now, lock, saved, raced>>

keep(p) ==
    /\ goes(p, "checked", "work") \/ goes(p, "closing", "unlock")
    /\ touched(p)
    /\ raced' = (raced \/ lock = NoLock \/ lock.by # p)

log_unlock(p) ==
    /\ goes(p, "unlock", "out")
    /\ lock' = NoLock /\ saved' = [saved EXCEPT ![p] = 0]
    /\ UNCHANGED <<now, raced>>

(* A process is killed; the lock stays. *)
killed(p) ==
    /\ at[p] # "out"
    /\ at' = [at EXCEPT ![p] = "out"] /\ saved' = [saved EXCEPT ![p] = 0]
    /\ UNCHANGED <<now, lock, raced>>

(* A process in the middle of a call touches the lock in time; one that    *)
(* waits for the lock may be held up for any time.                         *)
holds(p) == at[p] \in {"created", "work", "unlock"}

tick ==
    /\ now < MaxTime /\ now' = now + 1
    /\ lock # NoLock /\ now' - lock.mtime > PATIENCE => \A p \in Users : ~holds(p)
    /\ UNCHANGED <<lock, at, saved, raced>>

LockNext ==
    \/ \E p \in Users :
          \/ wants_lock(p) \/ create_lock(p) \/ stat_lock(p) \/ unlink_lock(p) \/ has_lock(p)
          \/ log_touch(p) \/ leave(p) \/ call(p) \/ close(p) \/ keep(p) \/ log_unlock(p) \/ killed(p)
    \/ tick

LockSpec == LockInit /\ [][LockNext]_lockVars

-----------------------------------------------------------------------------
(* "In order to gain exclusive access to the log files, first a foo.lock   *)
(* file must be exclusively created" (gzlog.c): one process is in a call.  *)
Exclusive == \A p, q \in Users : holds(p) /\ holds(q) => p = q

(* Whoever is in a call has created the lock that is there, after crashes  *)
(* and after locks were taken from idle processes, unless a lock changed   *)
(* between the stat that found it old, or our own, and the next call.      *)
OwnLock == ~raced => \A p \in Users : holds(p) => lock # NoLock /\ lock.by = p
=============================================================================
