----------------------------- MODULE TimerQueue -----------------------------
(***************************************************************************)
(* The timer queue of tree/rbtree/rbtree-list.c: a red-black tree of       *)
(* timers by the time they expire, with the first one at hand.  Timers     *)
(* that expire together are allowed.  timerqueue_append adds 120 seconds   *)
(* to a variable it never sets, so that Key (expires) is any function.     *)
(***************************************************************************)
EXTENDS RbTree

VARIABLE next       \* head->next

queueVars == <<vars, next>>

InitQueue == Init /\ next = NULL

(* timerqueue_append and timerqueue_add, up to the rebalance. *)
timerqueue_add(n) ==
    /\ pc = "idle"
    /\ n \notin Linked
    /\ tree' = rb_link_node(tree, n)
    /\ pc' = "insert_color"
    /\ arg' = n /\ node' = n
    /\ UNCHANGED <<aug, par, deepest, next>>

(* Mutant: a timer that expires together with the first takes its place. *)
add_next_last ==
    /\ pc = "inserted"
    /\ next' = IF next = NULL \/ Key[arg] <= Key[next] THEN arg ELSE next
    /\ pc' = "idle"
    /\ arg' = NULL /\ node' = NULL
    /\ UNCHANGED <<tree, aug, par, deepest>>

(* The rest of timerqueue_add. *)
add_next ==
    /\ pc = "inserted"
    /\ next' = IF next = NULL \/ Key[arg] < Key[next] THEN arg ELSE next
    /\ pc' = "idle"
    /\ arg' = NULL /\ node' = NULL
    /\ UNCHANGED <<tree, aug, par, deepest>>

(* timerqueue_delete and timerqueue_del, up to the rebalance. *)
timerqueue_del(n) ==
    /\ pc = "idle"
    /\ n \in Linked
    /\ next' = IF next = n THEN rb_step(tree, n, "right") ELSE next
    /\ rb_erase(n)
    /\ UNCHANGED <<aug, deepest>>

(* RB_CLEAR_NODE, and the timer is freed. *)
clear_node ==
    /\ pc = "erased"
    /\ tree' = forget(tree, arg)
    /\ pc' = "idle"
    /\ arg' = NULL /\ node' = NULL /\ par' = NULL
    /\ UNCHANGED <<aug, deepest, next>>

proceed ==
    \/ rb_insert_color /\ UNCHANGED next
    \/ __rb_erase_color /\ UNCHANGED next
    \/ add_next
    \/ clear_node

NextQueue ==
    \/ \E n \in Nodes : timerqueue_add(n) \/ timerqueue_del(n)
    \/ proceed

SpecQueue == InitQueue /\ [][NextQueue]_queueVars

-----------------------------------------------------------------------------
(* Between calls head->next is the first timer of the tree: of those that  *)
(* expire first, the one that was added first.                             *)
NextIsFirst == pc = "idle" => next = rb_end(tree, "left")

(* head->next never points to a timer that has been freed, not even while  *)
(* timerqueue_del rebalances.                                              *)
NextIsLinked == next # NULL => next \in Linked
=============================================================================
