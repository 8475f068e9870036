-------------------------- MODULE ThreadPoolProofs --------------------------
(***************************************************************************)
(* Proofs about the C worker pool, for any number of workers and jobs.     *)
(* IInv, the conjunction of the properties and of what the threads know    *)
(* at each program point, is inductive; there is one lemma per conjunct    *)
(* and in it one step per action.                                          *)
(***************************************************************************)
EXTENDS ThreadPool, TLAPS

(* What the operators on sequences give. *)
LEMMA EmptySeq ==
    ASSUME NEW S
    PROVE  /\ <<>> \in Seq(S) /\ Len(<<>>) = 0
           /\ \A s \in Seq(S) : s # <<>> => Len(s) \in Nat \ {0}
  OBVIOUS

LEMMA LenProperties ==
    ASSUME NEW S, NEW s \in Seq(S)
    PROVE  Len(s) \in Nat /\ s \in [1..Len(s) -> S] /\ DOMAIN s = 1..Len(s)
  OBVIOUS

LEMMA SeqEqual ==
    ASSUME NEW S, NEW s \in Seq(S), NEW t \in Seq(S), Len(s) = Len(t), \A k \in 1..Len(s) : s[k] = t[k]
    PROVE  s = t
  OBVIOUS

LEMMA AppendProperties ==
    ASSUME NEW S, NEW s \in Seq(S), NEW x \in S
    PROVE  /\ Append(s, x) \in Seq(S) /\ Append(s, x) # <<>> /\ Len(Append(s, x)) = Len(s) + 1
           /\ \A k \in 1..Len(s) : Append(s, x)[k] = s[k]
           /\ Append(s, x)[Len(s) + 1] = x
  OBVIOUS

LEMMA ConcatProperties ==
    ASSUME NEW S, NEW s \in Seq(S), NEW t \in Seq(S)
    PROVE  /\ s \o t \in Seq(S) /\ Len(s \o t) = Len(s) + Len(t)
           /\ \A k \in 1..(Len(s) + Len(t)) : (s \o t)[k] = IF k <= Len(s) THEN s[k] ELSE t[k - Len(s)]
  OBVIOUS

LEMMA ConcatAssociative ==
    ASSUME NEW S, NEW s \in Seq(S), NEW t \in Seq(S), NEW u \in Seq(S)
    PROVE  (s \o t) \o u = s \o (t \o u)
  <1>1. /\ Len(s) \in Nat /\ Len(t) \in Nat /\ Len(u) \in Nat /\ s \o t \in Seq(S) /\ t \o u \in Seq(S)
        /\ (s \o t) \o u \in Seq(S) /\ s \o (t \o u) \in Seq(S)
    BY ConcatProperties
  <1> QED BY <1>1, ConcatProperties, SeqEqual

LEMMA AppendIsConcat ==
    ASSUME NEW S, NEW s \in Seq(S), NEW x \in S
    PROVE  Append(s, x) = s \o <<x>>
  <1>1. <<x>> \in Seq(S) /\ Len(<<x>>) = 1 /\ <<x>>[1] = x
    OBVIOUS
  <1> QED BY <1>1, AppendProperties, ConcatProperties, SeqEqual

LEMMA ConcatEmptySeq ==
    ASSUME NEW S, NEW s \in Seq(S)
    PROVE  s \o <<>> = s /\ <<>> \o s = s
  <1>1. <<>> \in Seq(S) /\ Len(<<>>) = 0 /\ Len(s) \in Nat
    OBVIOUS
  <1>2. s \o <<>> = s
    BY <1>1, ConcatProperties, SeqEqual
  <1>3. <<>> \o s = s
    BY <1>1, ConcatProperties, SeqEqual
  <1> QED BY <1>2, <1>3

LEMMA HeadTailProperties ==
    ASSUME NEW S, NEW s \in Seq(S), s # <<>>
    PROVE  /\ Head(s) \in S /\ Tail(s) \in Seq(S) /\ Len(Tail(s)) = Len(s) - 1
           /\ \A k \in 1..Len(Tail(s)) : Tail(s)[k] = s[k + 1]
  OBVIOUS

(* Every step keeps the types: the list only ever holds work items, and a  *)
(* worker that reaches line 26 finds one there.                            *)
LEMMA StepTypeOK ==
    TypeOK /\ TakeInv /\ OwnerInv /\ [Next]_vars => TypeOK'
<1> SUFFICES ASSUME TypeOK, TakeInv, OwnerInv, [Next]_vars
             PROVE  TypeOK'
  OBVIOUS
<1> USE DEF TypeOK, WorkerPC, UsesPool, MainPC, poolVars, history
<1>1. CASE tpool_create
  BY <1>1 DEF tpool_create
<1>2. CASE pthread_create
  BY <1>2, Zenon DEF pthread_create
<1>3. CASE tpool_add_work
  BY <1>3 DEF tpool_add_work
<1>4. CASE add_lock
  BY <1>4 DEF add_lock
<1>5. CASE add_link
  BY <1>5 DEF add_link, OwnerInv
<1>6. CASE add_signal
  BY <1>6 DEF add_signal, Waiting
<1>7. CASE tpool_destroy
  BY <1>7 DEF tpool_destroy
<1>8. CASE set_shutdown
  BY <1>8 DEF set_shutdown
<1>9. CASE broadcast_lock
  BY <1>9 DEF broadcast_lock
<1>10. CASE broadcast
  BY <1>10 DEF broadcast
<1>11. CASE join_workers
  BY <1>11 DEF join_workers
<1>12. CASE drain
  <2>1. CASE queue_head # <<>>
    <3>1. Head(queue_head) \in Jobs /\ Tail(queue_head) \in Seq(Jobs)
      BY <2>1
    <3>2. /\ queue_head' = Tail(queue_head)
          /\ dropped' = Append(dropped, Head(queue_head))
          /\ freed' = freed \cup {Head(queue_head)}
          /\ mpc' = mpc
      BY <1>12, <2>1 DEF drain
    <3>3. dropped' \in Seq(Jobs)
      BY <3>1, <3>2, AppendProperties
    <3>4. freed' \subseteq Jobs
      BY <3>1, <3>2
    <3> QED
      BY <1>12, <3>1, <3>2, <3>3, <3>4 DEF drain
  <2>2. CASE queue_head = <<>>
    BY <1>12, <2>2 DEF drain
  <2> QED
    BY <2>1, <2>2
<1>13. CASE release
  BY <1>13 DEF release
<1>14. ASSUME NEW w \in Workers, thread_routine(w) \/ spurious_wakeup(w)
       PROVE  TypeOK'
  <2>1. CASE worker_lock(w)
    BY <2>1 DEF worker_lock
  <2>2. CASE worker_test(w)
    BY <2>2 DEF worker_test
  <2>3. CASE pthread_cond_wait(w)
    BY <2>3 DEF pthread_cond_wait
  <2>4. CASE worker_check(w)
    BY <2>4, Zenon DEF worker_check
  <2>5. CASE worker_take(w)
    <3>1. queue_head # <<>>
      BY <2>5 DEF worker_take, TakeInv
    <3> QED
      BY <2>5, <3>1 DEF worker_take
  <2>6. CASE worker_run(w)
    BY <2>6 DEF worker_run
  <2>7. CASE worker_free(w)
    BY <2>7 DEF worker_free, OwnerInv
  <2>8. CASE worker_dangles(w)
    BY <2>8 DEF worker_dangles
  <2>9. CASE spurious_wakeup(w)
    BY <2>9 DEF spurious_wakeup
  <2> QED
    BY <1>14, <2>1, <2>2, <2>3, <2>4, <2>5, <2>6, <2>7, <2>8, <2>9
       DEF thread_routine
<1>15. CASE UNCHANGED vars
  BY <1>15 DEF vars
<1> QED
  BY <1>1, <1>2, <1>3, <1>4, <1>5, <1>6, <1>7,
     <1>8, <1>9, <1>10, <1>11, <1>12, <1>13, <1>14, <1>15
     DEF Next, main, terminated

(* The lock is held by one thread at a time and released on every path. *)
LEMMA StepLock ==
    TypeOK /\ LockInv /\ [Next]_vars => LockInv'
<1> SUFFICES ASSUME TypeOK, LockInv, [Next]_vars
             PROVE  LockInv'
  OBVIOUS
<1> USE ConstantsAssumption, MainAssumption DEF TypeOK, WorkerPC, UsesPool, MainPC, poolVars, history, LockInv
<1>1. CASE tpool_create
  BY <1>1 DEF tpool_create
<1>2. CASE pthread_create
  BY <1>2 DEF pthread_create
<1>3. CASE tpool_add_work
  BY <1>3 DEF tpool_add_work
<1>4. CASE add_lock
  BY <1>4 DEF add_lock
<1>5. CASE add_link
  BY <1>5 DEF add_link
<1>6. CASE add_signal
  BY <1>6 DEF add_signal, Waiting
<1>7. CASE tpool_destroy
  BY <1>7 DEF tpool_destroy
<1>8. CASE set_shutdown
  BY <1>8 DEF set_shutdown
<1>9. CASE broadcast_lock
  BY <1>9 DEF broadcast_lock
<1>10. CASE broadcast
  BY <1>10 DEF broadcast
<1>11. CASE join_workers
  BY <1>11 DEF join_workers
<1>12. CASE drain
  <2>1. CASE queue_head # <<>>
    BY <1>12, <2>1 DEF drain
  <2>2. CASE queue_head = <<>>
    BY <1>12, <2>2 DEF drain
  <2> QED
    BY <2>1, <2>2
<1>13. CASE release
  BY <1>13 DEF release
<1>14. ASSUME NEW w \in Workers, thread_routine(w) \/ spurious_wakeup(w)
       PROVE  LockInv'
  <2>1. CASE worker_lock(w)
    BY <2>1 DEF worker_lock
  <2>2. CASE worker_test(w)
    BY <2>2 DEF worker_test
  <2>3. CASE pthread_cond_wait(w)
    BY <2>3 DEF pthread_cond_wait
  <2>4. CASE worker_check(w)
    BY <2>4 DEF worker_check
  <2>5. CASE worker_take(w)
    BY <2>5 DEF worker_take
  <2>6. CASE worker_run(w)
    BY <2>6 DEF worker_run
  <2>7. CASE worker_free(w)
    BY <2>7 DEF worker_free
  <2>8. CASE worker_dangles(w)
    BY <2>8 DEF worker_dangles
  <2>9. CASE spurious_wakeup(w)
    BY <2>9 DEF spurious_wakeup
  <2> QED
    BY <1>14, <2>1, <2>2, <2>3, <2>4, <2>5, <2>6, <2>7, <2>8, <2>9
       DEF thread_routine
<1>15. CASE UNCHANGED vars
  BY <1>15, SMTT(30) DEF vars
<1> QED
  BY <1>1, <1>2, <1>3, <1>4, <1>5, <1>6, <1>7,
     <1>8, <1>9, <1>10, <1>11, <1>12, <1>13, <1>14, <1>15
     DEF Next, main, terminated

(* What a worker knows of the list while it holds the lock stays true. *)
LEMMA StepTake ==
    TypeOK /\ LockInv /\ TakeInv /\ PhaseInv /\ AfterBroadcast /\ [Next]_vars => TakeInv'
<1> SUFFICES ASSUME TypeOK, LockInv, TakeInv, PhaseInv, AfterBroadcast, [Next]_vars
             PROVE  TakeInv'
  OBVIOUS
<1> USE ConstantsAssumption, MainAssumption DEF TypeOK, WorkerPC, UsesPool, MainPC, poolVars, history, TakeInv, LockInv
<1>1. CASE tpool_create
  BY <1>1 DEF tpool_create
<1>2. CASE pthread_create
  BY <1>2 DEF pthread_create
<1>3. CASE tpool_add_work
  BY <1>3 DEF tpool_add_work
<1>4. CASE add_lock
  BY <1>4 DEF add_lock
<1>5. CASE add_link
  BY <1>5 DEF add_link
<1>6. CASE add_signal
  BY <1>6 DEF add_signal, Waiting
<1>7. CASE tpool_destroy
  BY <1>7 DEF tpool_destroy
<1>8. CASE set_shutdown
  BY <1>8 DEF set_shutdown
<1>9. CASE broadcast_lock
  BY <1>9 DEF broadcast_lock
<1>10. CASE broadcast
  BY <1>10 DEF broadcast
<1>11. CASE join_workers
  BY <1>11 DEF join_workers
<1>12. CASE drain
  <2>1. CASE queue_head # <<>>
    BY <1>12, <2>1 DEF drain, AfterBroadcast, PhaseInv, Closed
  <2>2. CASE queue_head = <<>>
    BY <1>12, <2>2 DEF drain, AfterBroadcast, PhaseInv, Closed
  <2> QED
    BY <2>1, <2>2
<1>13. CASE release
  BY <1>13 DEF release
<1>14. ASSUME NEW w \in Workers, thread_routine(w) \/ spurious_wakeup(w)
       PROVE  TakeInv'
  <2>1. CASE worker_lock(w)
    BY <2>1 DEF worker_lock
  <2>2. CASE worker_test(w)
    BY <2>2 DEF worker_test
  <2>3. CASE pthread_cond_wait(w)
    BY <2>3 DEF pthread_cond_wait
  <2>4. CASE worker_check(w)
    BY <2>4 DEF worker_check
  <2>5. CASE worker_take(w)
    BY <2>5 DEF worker_take
  <2>6. CASE worker_run(w)
    BY <2>6 DEF worker_run
  <2>7. CASE worker_free(w)
    BY <2>7 DEF worker_free
  <2>8. CASE worker_dangles(w)
    BY <2>8 DEF worker_dangles
  <2>9. CASE spurious_wakeup(w)
    BY <2>9 DEF spurious_wakeup
  <2> QED
    BY <1>14, <2>1, <2>2, <2>3, <2>4, <2>5, <2>6, <2>7, <2>8, <2>9
       DEF thread_routine
<1>15. CASE UNCHANGED vars
  BY <1>15 DEF vars
<1> QED
  BY <1>1, <1>2, <1>3, <1>4, <1>5, <1>6, <1>7,
     <1>8, <1>9, <1>10, <1>11, <1>12, <1>13, <1>14, <1>15
     DEF Next, main, terminated

(* The phases of the main thread. *)
LEMMA StepPhase ==
    TypeOK /\ LockInv /\ TakeInv /\ PhaseInv /\ AfterBroadcast /\ [Next]_vars => PhaseInv'
<1> SUFFICES ASSUME TypeOK, LockInv, TakeInv, PhaseInv, AfterBroadcast, [Next]_vars
             PROVE  PhaseInv'
  OBVIOUS
<1> USE DEF TypeOK, WorkerPC, UsesPool, MainPC, poolVars, history, PhaseInv, Closed
<1>1. CASE tpool_create
  BY <1>1 DEF tpool_create
<1>2. CASE pthread_create
  BY <1>2 DEF pthread_create
<1>3. CASE tpool_add_work
  BY <1>3 DEF tpool_add_work
<1>4. CASE add_lock
  BY <1>4 DEF add_lock
<1>5. CASE add_link
  BY <1>5 DEF add_link
<1>6. CASE add_signal
  BY <1>6 DEF add_signal, Waiting
<1>7. CASE tpool_destroy
  BY <1>7 DEF tpool_destroy
<1>8. CASE set_shutdown
  BY <1>8 DEF set_shutdown
<1>9. CASE broadcast_lock
  BY <1>9 DEF broadcast_lock
<1>10. CASE broadcast
  BY <1>10 DEF broadcast
<1>11. CASE join_workers
  BY <1>11 DEF join_workers
<1>12. CASE drain
  <2>1. CASE queue_head # <<>>
    BY <1>12, <2>1 DEF drain
  <2>2. CASE queue_head = <<>>
    BY <1>12, <2>2 DEF drain
  <2> QED
    BY <2>1, <2>2
<1>13. CASE release
  BY <1>13 DEF release
<1>14. ASSUME NEW w \in Workers, thread_routine(w) \/ spurious_wakeup(w)
       PROVE  PhaseInv'
  <2>1. CASE worker_lock(w)
    BY <2>1 DEF worker_lock
  <2>2. CASE worker_test(w)
    BY <2>2 DEF worker_test
  <2>3. CASE pthread_cond_wait(w)
    BY <2>3 DEF pthread_cond_wait
  <2>4. CASE worker_check(w)
    BY <2>4 DEF worker_check
  <2>5. CASE worker_take(w)
    BY <2>5 DEF worker_take
  <2>6. CASE worker_run(w)
    BY <2>6 DEF worker_run
  <2>7. CASE worker_free(w)
    BY <2>7 DEF worker_free
  <2>8. CASE worker_dangles(w)
    BY <2>8 DEF worker_dangles
  <2>9. CASE spurious_wakeup(w)
    BY <2>9 DEF spurious_wakeup
  <2> QED
    BY <1>14, <2>1, <2>2, <2>3, <2>4, <2>5, <2>6, <2>7, <2>8, <2>9, SMTT(30)
       DEF thread_routine
<1>15. CASE UNCHANGED vars
  BY <1>15 DEF vars
<1> QED
  BY <1>1, <1>2, <1>3, <1>4, <1>5, <1>6, <1>7,
     <1>8, <1>9, <1>10, <1>11, <1>12, <1>13, <1>14, <1>15
     DEF Next, main, terminated

(* Nobody sleeps or takes a job once the broadcast has been made. *)
LEMMA StepBroadcast ==
    TypeOK /\ LockInv /\ PhaseInv /\ AfterBroadcast /\ [Next]_vars => AfterBroadcast'
<1> SUFFICES ASSUME TypeOK, LockInv, PhaseInv, AfterBroadcast, [Next]_vars
             PROVE  AfterBroadcast'
  OBVIOUS
<1> USE ConstantsAssumption, MainAssumption DEF TypeOK, WorkerPC, UsesPool, MainPC, poolVars, history, AfterBroadcast, PhaseInv, LockInv, Closed
<1>1. CASE tpool_create
  BY <1>1 DEF tpool_create
<1>2. CASE pthread_create
  BY <1>2 DEF pthread_create
<1>3. CASE tpool_add_work
  BY <1>3 DEF tpool_add_work
<1>4. CASE add_lock
  BY <1>4 DEF add_lock
<1>5. CASE add_link
  BY <1>5 DEF add_link
<1>6. CASE add_signal
  BY <1>6 DEF add_signal, Waiting
<1>7. CASE tpool_destroy
  BY <1>7 DEF tpool_destroy
<1>8. CASE set_shutdown
  BY <1>8 DEF set_shutdown
<1>9. CASE broadcast_lock
  BY <1>9 DEF broadcast_lock
<1>10. CASE broadcast
  BY <1>10 DEF broadcast
<1>11. CASE join_workers
  BY <1>11 DEF join_workers
<1>12. CASE drain
  <2>1. CASE queue_head # <<>>
    BY <1>12, <2>1 DEF drain
  <2>2. CASE queue_head = <<>>
    BY <1>12, <2>2 DEF drain
  <2> QED
    BY <2>1, <2>2
<1>13. CASE release
  BY <1>13 DEF release
<1>14. ASSUME NEW w \in Workers, thread_routine(w) \/ spurious_wakeup(w)
       PROVE  AfterBroadcast'
  <2>1. CASE worker_lock(w)
    BY <2>1 DEF worker_lock
  <2>2. CASE worker_test(w)
    BY <2>2 DEF worker_test
  <2>3. CASE pthread_cond_wait(w)
    BY <2>3 DEF pthread_cond_wait
  <2>4. CASE worker_check(w)
    BY <2>4 DEF worker_check
  <2>5. CASE worker_take(w)
    BY <2>5 DEF worker_take
  <2>6. CASE worker_run(w)
    BY <2>6 DEF worker_run
  <2>7. CASE worker_free(w)
    BY <2>7 DEF worker_free
  <2>8. CASE worker_dangles(w)
    BY <2>8 DEF worker_dangles
  <2>9. CASE spurious_wakeup(w)
    BY <2>9 DEF spurious_wakeup
  <2> QED
    BY <1>14, <2>1, <2>2, <2>3, <2>4, <2>5, <2>6, <2>7, <2>8, <2>9
       DEF thread_routine
<1>15. CASE UNCHANGED vars
  BY <1>15 DEF vars
<1> QED
  BY <1>1, <1>2, <1>3, <1>4, <1>5, <1>6, <1>7,
     <1>8, <1>9, <1>10, <1>11, <1>12, <1>13, <1>14, <1>15
     DEF Next, main, terminated

(* While the list holds a job some worker is awake. *)
LEMMA StepWakeup ==
    TypeOK /\ LockInv /\ TakeInv /\ PhaseInv /\ NoLostWakeup /\ [Next]_vars => NoLostWakeup'
<1> SUFFICES ASSUME TypeOK, LockInv, TakeInv, PhaseInv, NoLostWakeup, [Next]_vars
             PROVE  NoLostWakeup'
  OBVIOUS
<1> USE ConstantsAssumption, MainAssumption DEF TypeOK, WorkerPC, UsesPool, MainPC, poolVars, history, NoLostWakeup, PhaseInv, TakeInv, LockInv, Closed
<1>1. CASE tpool_create
  BY <1>1 DEF tpool_create
<1>2. CASE pthread_create
  BY <1>2 DEF pthread_create
<1>3. CASE tpool_add_work
  BY <1>3 DEF tpool_add_work
<1>4. CASE add_lock
  BY <1>4 DEF add_lock
<1>5. CASE add_link
  BY <1>5 DEF add_link
<1>6. CASE add_signal
  BY <1>6 DEF add_signal, Waiting
<1>7. CASE tpool_destroy
  BY <1>7 DEF tpool_destroy
<1>8. CASE set_shutdown
  BY <1>8 DEF set_shutdown
<1>9. CASE broadcast_lock
  BY <1>9 DEF broadcast_lock
<1>10. CASE broadcast
  BY <1>10 DEF broadcast
<1>11. CASE join_workers
  BY <1>11 DEF join_workers
<1>12. CASE drain
  <2>1. CASE queue_head # <<>>
    BY <1>12, <2>1 DEF drain
  <2>2. CASE queue_head = <<>>
    BY <1>12, <2>2 DEF drain
  <2> QED
    BY <2>1, <2>2
<1>13. CASE release
  BY <1>13, SMTT(30) DEF release
<1>14. ASSUME NEW w \in Workers, thread_routine(w) \/ spurious_wakeup(w)
       PROVE  NoLostWakeup'
  <2>1. CASE worker_lock(w)
    BY <2>1 DEF worker_lock
  <2>2. CASE worker_test(w)
    BY <2>2 DEF worker_test
  <2>3. CASE pthread_cond_wait(w)
    BY <2>3 DEF pthread_cond_wait
  <2>4. CASE worker_check(w)
    BY <2>4 DEF worker_check
  <2>5. CASE worker_take(w)
    BY <2>5 DEF worker_take
  <2>6. CASE worker_run(w)
    BY <2>6 DEF worker_run
  <2>7. CASE worker_free(w)
    BY <2>7 DEF worker_free
  <2>8. CASE worker_dangles(w)
    BY <2>8 DEF worker_dangles
  <2>9. CASE spurious_wakeup(w)
    BY <2>9 DEF spurious_wakeup
  <2> QED
    BY <1>14, <2>1, <2>2, <2>3, <2>4, <2>5, <2>6, <2>7, <2>8, <2>9
       DEF thread_routine
<1>15. CASE UNCHANGED vars
  BY <1>15 DEF vars
<1> QED
  BY <1>1, <1>2, <1>3, <1>4, <1>5, <1>6, <1>7,
     <1>8, <1>9, <1>10, <1>11, <1>12, <1>13, <1>14, <1>15
     DEF Next, main, terminated

(* Moving the first element of a list to the end of the one before it. *)
LEMMA ShiftHead ==
    ASSUME NEW S, NEW s \in Seq(S), NEW q \in Seq(S), q # <<>>
    PROVE  s \o q = Append(s, Head(q)) \o Tail(q)
<1>1. /\ Head(q) \in S /\ Tail(q) \in Seq(S)
      /\ Append(s, Head(q)) \in Seq(S)
  BY HeadTailProperties, AppendProperties
<1>2. Len(s \o q) = Len(Append(s, Head(q)) \o Tail(q))
  BY <1>1
<1>3. \A i \in 1..Len(s \o q) : (s \o q)[i] = (Append(s, Head(q)) \o Tail(q))[i]
  BY <1>1
<1> QED
  BY <1>1, <1>2, <1>3, SeqEqual, ConcatProperties

(* Jobs leave the list at the front and enter it at the back. *)
LEMMA StepFifo ==
    TypeOK /\ TakeInv /\ PhaseInv /\ AfterBroadcast /\ OwnerInv /\ FifoDispatch /\ [Next]_vars => FifoDispatch'
<1> SUFFICES ASSUME TypeOK, TakeInv, PhaseInv, AfterBroadcast, OwnerInv, FifoDispatch, [Next]_vars
             PROVE  FifoDispatch'
  OBVIOUS
<1> USE DEF FifoDispatch, poolVars, history
<1>1. CASE tpool_create
  BY <1>1 DEF tpool_create
<1>2. CASE pthread_create
  BY <1>2 DEF pthread_create
<1>3. CASE tpool_add_work
  BY <1>3 DEF tpool_add_work
<1>4. CASE add_lock
  BY <1>4 DEF add_lock
<1>5. CASE add_link
  <2>1. new \in Jobs
    BY <1>5 DEF add_link, OwnerInv
  <2>2. /\ added \in Seq(Jobs) /\ started \in Seq(Jobs)
        /\ dropped \in Seq(Jobs) /\ queue_head \in Seq(Jobs)
    BY DEF TypeOK
  <2>3. started \o dropped \in Seq(Jobs)
    BY <2>2, ConcatProperties
  <2>4. /\ Append(added, new) = added \o <<new>>
        /\ Append(queue_head, new) = queue_head \o <<new>>
    BY <2>1, <2>2, AppendIsConcat
  <2>5. (started \o dropped \o queue_head) \o <<new>>
          = (started \o dropped) \o (queue_head \o <<new>>)
    BY <2>1, <2>2, <2>3, ConcatAssociative, SMTT(30)
  <2> QED
    BY <1>5, <2>4, <2>5, SMTT(30) DEF add_link
<1>6. CASE add_signal
  BY <1>6 DEF add_signal, Waiting
<1>7. CASE tpool_destroy
  BY <1>7 DEF tpool_destroy
<1>8. CASE set_shutdown
  BY <1>8 DEF set_shutdown
<1>9. CASE broadcast_lock
  BY <1>9 DEF broadcast_lock
<1>10. CASE broadcast
  BY <1>10 DEF broadcast
<1>11. CASE join_workers
  BY <1>11 DEF join_workers
<1>12. CASE drain
  <2>1. CASE queue_head # <<>>
    <3>1. /\ started \in Seq(Jobs) /\ dropped \in Seq(Jobs)
          /\ queue_head \in Seq(Jobs)
      BY DEF TypeOK
    <3>2. dropped' = Append(dropped, Head(queue_head)) /\ queue_head' = Tail(queue_head)
      BY <1>12, <2>1 DEF drain
    <3>3. Head(queue_head) \in Jobs
      BY <2>1, <3>1, HeadTailProperties
    <3>4. started \o dropped' = Append(started \o dropped, Head(queue_head))
      <4>1. /\ dropped' = dropped \o <<Head(queue_head)>>
            /\ Append(started \o dropped, Head(queue_head))
                 = (started \o dropped) \o <<Head(queue_head)>>
        BY <3>1, <3>2, <3>3, AppendIsConcat, ConcatProperties, SMTT(30)
      <4> QED
        BY <3>1, <3>3, <4>1, ConcatAssociative
    <3>5. added = Append(started \o dropped, Head(queue_head)) \o Tail(queue_head)
      BY <2>1, <3>1, ShiftHead, ConcatProperties
    <3> QED
      BY <1>12, <3>2, <3>4, <3>5, Zenon DEF drain
  <2>2. CASE queue_head = <<>>
    BY <1>12, <2>2 DEF drain
  <2> QED
    BY <2>1, <2>2
<1>13. CASE release
  BY <1>13 DEF release
<1>14. ASSUME NEW w \in Workers, thread_routine(w) \/ spurious_wakeup(w)
       PROVE  FifoDispatch'
  <2>1. CASE worker_lock(w)
    BY <2>1 DEF worker_lock
  <2>2. CASE worker_test(w)
    BY <2>2 DEF worker_test
  <2>3. CASE pthread_cond_wait(w)
    BY <2>3 DEF pthread_cond_wait
  <2>4. CASE worker_check(w)
    BY <2>4 DEF worker_check
  <2>5. CASE worker_take(w)
    <3>1. /\ started \in Seq(Jobs) /\ queue_head \in Seq(Jobs)
          /\ queue_head # <<>>
      BY <2>5 DEF worker_take, TakeInv, TypeOK
    <3>2. dropped = <<>>
      BY <2>5 DEF worker_take, AfterBroadcast, PhaseInv, Closed
    <3>3. started' \in Seq(Jobs)
      BY <2>5, <3>1, HeadTailProperties, AppendProperties DEF worker_take
    <3>4. started \o dropped = started /\ started' \o dropped = started'
      BY <3>1, <3>2, <3>3, ConcatEmptySeq
    <3>5. added = started' \o Tail(queue_head)
      BY <2>5, <3>1, <3>4, ShiftHead DEF worker_take
    <3> QED
      BY <2>5, <3>4, <3>5, Zenon DEF worker_take
  <2>6. CASE worker_run(w)
    BY <2>6 DEF worker_run
  <2>7. CASE worker_free(w)
    BY <2>7 DEF worker_free
  <2>8. CASE worker_dangles(w)
    BY <2>8 DEF worker_dangles
  <2>9. CASE spurious_wakeup(w)
    BY <2>9 DEF spurious_wakeup
  <2> QED
    BY <1>14, <2>1, <2>2, <2>3, <2>4, <2>5, <2>6, <2>7, <2>8, <2>9
       DEF thread_routine
<1>15. CASE UNCHANGED vars
  BY <1>15 DEF vars
<1> QED
  BY <1>1, <1>2, <1>3, <1>4, <1>5, <1>6, <1>7,
     <1>8, <1>9, <1>10, <1>11, <1>12, <1>13, <1>14, <1>15
     DEF Next, main, terminated

(* How the elements of a list change with Append and Tail. *)
LEMMA RangeAppend ==
    ASSUME NEW S, NEW s \in Seq(S), NEW e \in S
    PROVE  SeqRange(Append(s, e)) = SeqRange(s) \cup {e}
<1> DEFINE t == Append(s, e)
<1>1. /\ Len(s) \in Nat /\ Len(t) = Len(s) + 1
      /\ \A i \in 1..Len(s) : t[i] = s[i]
      /\ t[Len(s) + 1] = e
  BY AppendProperties, LenProperties
<1> HIDE DEF t
<1>2. SeqRange(t) \subseteq SeqRange(s) \cup {e}
  <2> SUFFICES ASSUME NEW i \in 1..Len(t) PROVE t[i] \in SeqRange(s) \cup {e}
    BY DEF SeqRange
  <2>1. CASE i \in 1..Len(s)
    BY <1>1, <2>1 DEF SeqRange
  <2>2. CASE i = Len(s) + 1
    BY <1>1, <2>2
  <2> QED
    BY <1>1, <2>1, <2>2
<1>3. SeqRange(s) \cup {e} \subseteq SeqRange(t)
  <2>1. \A i \in 1..Len(s) : i \in 1..Len(t) /\ t[i] = s[i]
    BY <1>1
  <2>2. Len(s) + 1 \in 1..Len(t)
    BY <1>1
  <2> QED
    BY <1>1, <2>1, <2>2 DEF SeqRange
<1> QED
  BY <1>2, <1>3 DEF t

(* What is taken from the head of a queue without duplicates leaves it. *)
LEMMA RangeTail ==
    ASSUME NEW S, NEW s \in Seq(S), s # <<>>
    PROVE  /\ SeqRange(Tail(s)) \subseteq SeqRange(s)
           /\ Head(s) \in SeqRange(s)
           /\ (\A i, j \in 1..Len(s) : s[i] = s[j] => i = j)
                => /\ Head(s) \notin SeqRange(Tail(s))
                   /\ \A i, j \in 1..Len(Tail(s)) : Tail(s)[i] = Tail(s)[j] => i = j
<1>1. /\ Len(s) \in Nat /\ Len(s) > 0 /\ Len(Tail(s)) = Len(s) - 1
      /\ Head(s) = s[1]
      /\ \A i \in 1..Len(Tail(s)) : Tail(s)[i] = s[i + 1]
  BY SMTT(30)
<1> QED
  BY <1>1 DEF SeqRange

(* Each work item has one owner. *)
LEMMA StepOwner ==
    TypeOK /\ TakeInv /\ OwnerInv /\ OneOwner /\ [Next]_vars => (OwnerInv /\ OneOwner)'
<1> SUFFICES ASSUME TypeOK, TakeInv, OwnerInv, OneOwner, [Next]_vars
             PROVE  (OwnerInv /\ OneOwner)'
  OBVIOUS
<1> USE DEF TypeOK, WorkerPC, UsesPool, MainPC, poolVars, history, OwnerInv, OneOwner, Running
<1>1. CASE tpool_create
  BY <1>1 DEF tpool_create
<1>2. CASE pthread_create
  BY <1>2 DEF pthread_create
<1>3. CASE tpool_add_work
  BY <1>3 DEF tpool_add_work
<1>4. CASE add_lock
  BY <1>4 DEF add_lock
<1>5. CASE add_link
  <2>1. /\ SeqRange(added') = SeqRange(added) \cup {new}
        /\ SeqRange(queue_head') = SeqRange(queue_head) \cup {new}
    BY <1>5, RangeAppend DEF add_link
  <2>2. \A i, j \in 1..Len(queue_head') : queue_head'[i] = queue_head'[j] => i = j
    <3>1. new \in Jobs /\ new \notin SeqRange(queue_head)
      BY <1>5 DEF add_link
    <3> QED
      BY <1>5, <3>1 DEF add_link, SeqRange
  <2> QED
    BY <1>5, <2>1, <2>2 DEF add_link
<1>6. CASE add_signal
  BY <1>6 DEF add_signal, Waiting
<1>7. CASE tpool_destroy
  BY <1>7 DEF tpool_destroy
<1>8. CASE set_shutdown
  BY <1>8 DEF set_shutdown
<1>9. CASE broadcast_lock
  BY <1>9 DEF broadcast_lock
<1>10. CASE broadcast
  BY <1>10 DEF broadcast
<1>11. CASE join_workers
  BY <1>11, SMTT(30) DEF join_workers
<1>12. CASE drain
  <2>1. CASE queue_head # <<>>
    <3> queue_head' = Tail(queue_head)
      BY <1>12, <2>1 DEF drain
    <3>1. /\ SeqRange(queue_head') \subseteq SeqRange(queue_head)
          /\ Head(queue_head) \in SeqRange(queue_head)
          /\ Head(queue_head) \notin SeqRange(queue_head')
          /\ \A i, j \in 1..Len(queue_head') : queue_head'[i] = queue_head'[j] => i = j
      <4>1. queue_head \in Seq(Jobs)
        OBVIOUS
      <4>2. \A i, j \in 1..Len(queue_head) : queue_head[i] = queue_head[j] => i = j
        OBVIOUS
      <4> QED
        BY ONLY <2>1, <4>1, <4>2, RangeTail, queue_head' = Tail(queue_head)
    <3> QED
      BY <1>12, <2>1, <3>1 DEF drain
  <2>2. CASE queue_head = <<>>
    BY <1>12, <2>2, SMTT(30) DEF drain
  <2> QED
    BY <2>1, <2>2, SMTT(30)
<1>13. CASE release
  BY <1>13, SMTT(30) DEF release
<1>14. ASSUME NEW w \in Workers, thread_routine(w) \/ spurious_wakeup(w)
       PROVE  (OwnerInv /\ OneOwner)'
  <2>1. CASE worker_lock(w)
    BY <2>1 DEF worker_lock
  <2>2. CASE worker_test(w)
    BY <2>2, SMTT(30) DEF worker_test
  <2>3. CASE pthread_cond_wait(w)
    BY <2>3, SMTT(30) DEF pthread_cond_wait
  <2>4. CASE worker_check(w)
    <3>1. \A v \in Workers : pc'[v] \in {"run", "free"} <=> pc[v] \in {"run", "free"}
      BY <2>4 DEF worker_check
    <3>2. UNCHANGED <<queue_head, work, mpc, new, added, freed>>
      BY <2>4, SMTT(30) DEF worker_check
    <3> QED
      BY <3>1, <3>2
  <2>5. CASE worker_take(w)
    <3>1. queue_head \in Seq(Jobs) /\ queue_head # <<>>
      BY <2>5 DEF worker_take, TakeInv
    <3> queue_head' = Tail(queue_head)
      BY <2>5 DEF worker_take
    <3>2. /\ SeqRange(queue_head') \subseteq SeqRange(queue_head)
          /\ Head(queue_head) \in SeqRange(queue_head)
          /\ Head(queue_head) \notin SeqRange(queue_head')
          /\ \A i, j \in 1..Len(queue_head') : queue_head'[i] = queue_head'[j] => i = j
      <4>1. \A i, j \in 1..Len(queue_head) : queue_head[i] = queue_head[j] => i = j
        OBVIOUS
      <4> QED
        BY ONLY <3>1, <4>1, RangeTail, queue_head' = Tail(queue_head), SMTT(30)
    <3>3. Head(queue_head) # None
      BY <3>1, ConstantsAssumption, SMTT(30)
    <3> QED
      BY <2>5, <3>2, <3>3, SMTT(30) DEF worker_take
  <2>6. CASE worker_run(w)
    BY <2>6, SMTT(30) DEF worker_run
  <2>7. CASE worker_free(w)
    BY <2>7, SMTT(30) DEF worker_free
  <2>8. CASE worker_dangles(w)
    BY <2>8, SMTT(30) DEF worker_dangles
  <2>9. CASE spurious_wakeup(w)
    BY <2>9, SMTT(30) DEF spurious_wakeup
  <2> QED
    BY <1>14, <2>1, <2>2, <2>3, <2>4, <2>5, <2>6, <2>7, <2>8, <2>9, ZenonT(40)
       DEF thread_routine
<1>15. CASE UNCHANGED vars
  BY <1>15 DEF vars
<1> QED
  BY Zenon, <1>1, <1>2, <1>3, <1>4, <1>5, <1>6, <1>7,
     <1>8, <1>9, <1>10, <1>11, <1>12, <1>13, <1>14, <1>15
     DEF Next, main, terminated

(* The invariant is inductive: it holds initially and every step of every  *)
(* thread keeps it.                                                        *)
THEOREM InductiveInvariant == Spec => []IInv
<1>1. Init => IInv
  <2> SUFFICES ASSUME Init PROVE IInv
    OBVIOUS
  <2> USE ConstantsAssumption, MainAssumption DEF Init, Closed
  <2>1. TypeOK
    <3>1. <<>> \in Seq(Jobs)
      BY EmptySeq
    <3> QED
      BY <3>1, Zenon DEF TypeOK, WorkerPC, UsesPool, MainPC
  <2>2. LockInv /\ TakeInv /\ PhaseInv /\ AfterBroadcast /\ NoLostWakeup
    BY DEF LockInv, TakeInv, PhaseInv, AfterBroadcast, NoLostWakeup
  <2>3. FifoDispatch
    BY DEF FifoDispatch
  <2>4. OwnerInv /\ OneOwner
    BY DEF OwnerInv, OneOwner, Running, SeqRange
  <2> QED
    BY <2>1, <2>2, <2>3, <2>4 DEF IInv
<1>2. IInv /\ [Next]_vars => IInv'
  BY StepTypeOK, StepLock, StepTake, StepPhase, StepBroadcast, StepWakeup,
     StepFifo, StepOwner DEF IInv
<1> QED
  BY <1>1, <1>2, PTL DEF Spec

(* The steps that touch neither the list, nor a worker's item, nor the     *)
(* broadcast are stutters of the abstract pool.                            *)
LEMMA Stutter ==
    (/\ UNCHANGED <<added, queue_head, work>>
     /\ Closed' = Closed) => UNCHANGED Pool!jobVars
BY DEF Pool!jobVars, Running

(* Every step is a step of the abstract pool or a stutter. *)
LEMMA StepRefines ==
    IInv /\ [Next]_vars => [Pool!Next]_(Pool!jobVars)
<1> SUFFICES ASSUME IInv, [Next]_vars
             PROVE  [Pool!Next]_(Pool!jobVars)
  OBVIOUS
<1> USE DEF poolVars, history
<1>1. CASE tpool_create
  BY <1>1, Stutter DEF tpool_create, Closed
<1>2. CASE pthread_create
  BY <1>2, Stutter DEF pthread_create, Closed
<1>3. CASE tpool_add_work
  BY <1>3, Stutter DEF tpool_add_work, Closed
<1>4. CASE add_lock
  BY <1>4, Stutter DEF add_lock, Closed
<1>5. CASE add_link
  <2>1. new \in Jobs /\ new \notin SeqRange(added) /\ ~Closed
    BY <1>5 DEF add_link, IInv, OwnerInv, Closed
  <2>2. SeqRange(added') = SeqRange(added) \cup {new}
    BY <1>5, <2>1, RangeAppend DEF add_link, IInv, TypeOK
  <2>3. Pool!Submit(new)
    BY <1>5, <2>1, <2>2 DEF add_link, Pool!Submit, Running, Closed
  <2> QED
    BY <2>1, <2>3 DEF Pool!Next
<1>6. CASE add_signal
  BY <1>6, Stutter DEF add_signal, Closed
<1>7. CASE tpool_destroy
  BY <1>7, Stutter DEF tpool_destroy, Closed
<1>8. CASE set_shutdown
  BY <1>8, Stutter DEF set_shutdown, Closed
<1>9. CASE broadcast_lock
  BY <1>9, Stutter DEF broadcast_lock, Closed
<1>10. CASE broadcast
  <2>1. Pool!Close
    BY <1>10 DEF broadcast, Pool!Close, Running, Closed
  <2> QED
    BY <2>1 DEF Pool!Next
<1>11. CASE join_workers
  BY <1>11, Stutter DEF join_workers, Closed
<1>12. CASE drain
  <2>1. CASE queue_head # <<>>
    <3>1. Pool!Discard
      BY <1>12, <2>1 DEF drain, Pool!Discard, Running, Closed
    <3> QED
      BY <3>1 DEF Pool!Next
  <2>2. CASE queue_head = <<>>
    BY <1>12, <2>2, Stutter DEF drain, Closed
  <2> QED
    BY <2>1, <2>2
<1>13. CASE release
  BY <1>13, Stutter DEF release, Closed
<1>14. ASSUME NEW w \in Workers, thread_routine(w) \/ spurious_wakeup(w)
       PROVE  [Pool!Next]_(Pool!jobVars)
  <2>1. CASE worker_lock(w)
    BY <2>1, Stutter DEF worker_lock, Closed
  <2>2. CASE worker_test(w)
    BY <2>2, Stutter DEF worker_test, Closed
  <2>3. CASE pthread_cond_wait(w)
    BY <2>3, Stutter DEF pthread_cond_wait, Closed
  <2>4. CASE worker_check(w)
    BY <2>4, Stutter DEF worker_check, Closed
  <2>5. CASE worker_take(w)
    <3>1. queue_head # <<>> /\ ~Closed /\ work[w] = None
      BY <2>5 DEF worker_take, IInv, TakeInv, AfterBroadcast, OwnerInv, Closed
    <3>2. Head(queue_head) # None
      BY <3>1, ConstantsAssumption DEF IInv, TypeOK
    <3>3. Running' = Running \cup {Head(queue_head)}
      BY <2>5, <3>1, <3>2 DEF worker_take, Running, IInv, TypeOK
    <3>4. Pool!Start
      BY <2>5, <3>1, <3>3 DEF worker_take, Pool!Start, Closed
    <3> QED
      BY <3>4 DEF Pool!Next
  <2>6. CASE worker_run(w)
    BY <2>6, Stutter DEF worker_run, Closed
  <2>7. CASE worker_free(w)
    <3>1. work[w] \in Jobs /\ work[w] # None
      BY <2>7 DEF worker_free, IInv, TypeOK, OwnerInv
    <3>2. Running' = Running \ {work[w]}
      BY <2>7, <3>1 DEF worker_free, Running, IInv, TypeOK, OneOwner
    <3>3. Pool!Finish(work[w])
      BY <2>7, <3>1, <3>2 DEF worker_free, Pool!Finish, Running, Closed
    <3> QED
      BY <3>1, <3>3 DEF Pool!Next
  <2>8. CASE worker_dangles(w)
    BY <2>8, Stutter DEF worker_dangles, Closed
  <2>9. CASE spurious_wakeup(w)
    BY <2>9, Stutter DEF spurious_wakeup, Closed
  <2> QED
    BY <1>14, <2>1, <2>2, <2>3, <2>4, <2>5, <2>6, <2>7, <2>8, <2>9
       DEF thread_routine
<1>15. CASE UNCHANGED vars
  BY <1>15 DEF vars, Pool!jobVars, Running, Closed
<1> QED
  BY <1>1, <1>2, <1>3, <1>4, <1>5, <1>6, <1>7,
     <1>8, <1>9, <1>10, <1>11, <1>12, <1>13, <1>14, <1>15
     DEF Next, main, terminated

(* The C pool implements JobPool: in-order, at-most-once dispatch, and no  *)
(* job starts after the broadcast of tpool_destroy.                        *)
THEOREM Refinement == Spec => ImplementsJobPool
<1>1. Init => Pool!Init
  BY DEF Init, Pool!Init, SeqRange, Running, Closed
<1>2. IInv /\ [Next]_vars => [Pool!Next]_(Pool!jobVars)
  BY StepRefines
<1> QED
  BY <1>1, <1>2, InductiveInvariant, PTL DEF Spec, Pool!Spec, ImplementsJobPool

(* The types hold in every reachable state of the pool, for every set of   *)
(* workers and jobs.                                                       *)
THEOREM TypeCorrect == Spec => []TypeOK
BY InductiveInvariant, PTL DEF IInv

(* Dispatch by thread_routine is FIFO, loses nothing and starts nothing    *)
(* twice, and tpool_destroy's unlocked drain takes only what is left.      *)
THEOREM FifoDispatchHolds == Spec => []FifoDispatch
BY InductiveInvariant, PTL DEF IInv

(* No work item is shared, freed twice or used after free.                 *)
THEOREM OneOwnerHolds == Spec => []OneOwner
BY InductiveInvariant, PTL DEF IInv

(* The broadcast under the lock leaves no worker asleep or about to take,  *)
(* although shutdown is set outside the lock.                              *)
THEOREM AfterBroadcastHolds == Spec => []AfterBroadcast
BY InductiveInvariant, PTL DEF IInv

(* One signal per tpool_add_work is enough: a non-empty list always has an *)
(* awake worker.                                                           *)
THEOREM NoLostWakeupHolds == Spec => []NoLostWakeup
BY InductiveInvariant, PTL DEF IInv
=============================================================================
