----------------------------- MODULE ObjectCache -----------------------------
(***************************************************************************)
(* The kernel object cache of kernel/lock, in its three schemes:           *)
(*   "copy"    mutex_sample_usercontext.c and spin_sample_interrupt.c: the *)
(*             caller of cache_find gets a copy of the name;               *)
(*   "locked"  sample_refcnt.c: it gets a counted reference, and the count *)
(*             is changed under cache_lock;                                *)
(*   "atomic"  sample_refcnt_atomic.c: the count is atomic and object_get  *)
(*             and object_put take no lock.                                *)
(* Any number of threads call the exported functions in any order.         *)
(***************************************************************************)
EXTENDS Integers, Sequences, FiniteSets

CONSTANTS
    Threads, Ids,
    Objs,           \* what kmalloc can return
    Refs,           \* the callers' variables that can hold a reference
    None,
    Scheme,
    MAX_CACHE_SIZE,
    MaxPopularity   \* bound: an object is looked up at most this often

Cache == "cache"    \* the cache, as an owner of references

ASSUME CacheAssumption ==
    /\ IsFiniteSet(Threads) /\ IsFiniteSet(Refs)
    /\ Threads \cap Refs = {}
    /\ Cache \notin Threads \cup Refs
    /\ None \notin Threads \cup Objs \cup Ids
    /\ Scheme \in {"copy", "locked", "atomic"}
    /\ MAX_CACHE_SIZE \in Nat \ {0}
    /\ MaxPopularity \in Nat

VARIABLES
    cache,          \* the list, first element first
    cache_num,
    cache_lock,     \* the thread that holds it, or None
    id, popularity, refcnt,     \* the objects' members
    allocated,      \* the objects that have been kmalloc'ed and not kfree'd
    refs,           \* what each caller's variable points to
    pc,             \* where each thread is in a call
    obj             \* the call's local variable obj (or outcast)

vars == <<cache, cache_num, cache_lock, id, popularity, refcnt, allocated,
          refs, pc, obj>>

PC == {"idle", "add", "found", "unlinked", "kfree", "uncount",
       "put_kfree", "oops"}

TypeOK ==
    /\ cache \in Seq(Objs)
    /\ cache_num \in Int
    /\ cache_lock \in Threads \cup {None}
    /\ id \in [Objs -> Ids \cup {None}]
    /\ popularity \in [Objs -> Nat]
    /\ refcnt \in [Objs -> Int]
    /\ allocated \subseteq Objs
    /\ refs \in [Refs -> Objs \cup {None}]
    /\ pc \in [Threads -> PC]
    /\ obj \in [Threads -> Objs \cup {None}]

Init ==
    /\ cache = <<>>
    /\ cache_num = 0
    /\ cache_lock = None
    /\ id = [o \in Objs |-> None]
    /\ popularity = [o \in Objs |-> 0]
    /\ refcnt = [o \in Objs |-> 0]
    /\ allocated = {}
    /\ refs = [r \in Refs |-> None]
    /\ pc = [t \in Threads |-> "idle"]
    /\ obj = [t \in Threads |-> None]

-----------------------------------------------------------------------------
Listed == {cache[k] : k \in 1..Len(cache)}

list_add(s, o) == <<o>> \o s

(* The list without its k-th element. *)
list_del(s, k) == [i \in 1..(Len(s) - 1) |-> IF i < k THEN s[i] ELSE s[i + 1]]

(* The place of the first object with this id. *)
IsAt(i, k) ==
    /\ k \in 1..Len(cache)
    /\ id[cache[k]] = i
    /\ \A n \in 1..(k - 1) : id[cache[n]] # i

(* Mutant: <= in the search, so that the last of them is kept. *)
IsOutcast_last(s, k) ==
    /\ k \in 1..Len(s)
    /\ \A n \in 1..Len(s) : popularity[s[k]] <= popularity[s[n]]
    /\ \A n \in (k + 1)..Len(s) : popularity[s[k]] < popularity[s[n]]

(* The place of the first of the least popular objects of list s. *)
IsOutcast(s, k) ==
    /\ k \in 1..Len(s)
    /\ \A n \in 1..Len(s) : popularity[s[k]] <= popularity[s[n]]
    /\ \A n \in 1..(k - 1) : popularity[s[k]] < popularity[s[n]]

-----------------------------------------------------------------------------
(* cache_add: kmalloc, which may return memory that was freed before, and  *)
(* the initial values.                                                     *)
cache_add(t, i) ==
    /\ pc[t] = "idle"
    /\ \E o \in Objs \ allocated :
         /\ allocated' = allocated \cup {o}
         /\ id' = [id EXCEPT ![o] = i]
         /\ popularity' = [popularity EXCEPT ![o] = 0]
         /\ refcnt' = [refcnt EXCEPT ![o] = 1]
         /\ obj' = [obj EXCEPT ![t] = o]
    /\ pc' = [pc EXCEPT ![t] = "add"]
    /\ UNCHANGED <<cache, cache_num, cache_lock, refs>>

(* __cache_add, with the first half of __cache_delete(outcast). *)
__cache_add(t) ==
    /\ pc[t] = "add"
    /\ cache_lock = None
    /\ cache_num' = cache_num + 1
    /\ \/ /\ cache_num' <= MAX_CACHE_SIZE
          /\ cache' = list_add(cache, obj[t])
          /\ pc' = [pc EXCEPT ![t] = "idle"]
          /\ obj' = [obj EXCEPT ![t] = None]
          /\ UNCHANGED cache_lock
       \/ /\ cache_num' > MAX_CACHE_SIZE
          /\ LET s == list_add(cache, obj[t])
             IN  \E k \in 1..Len(s) :
                   /\ IsOutcast(s, k)
                   /\ cache' = list_del(s, k)
                   /\ obj' = [obj EXCEPT ![t] = s[k]]
          /\ pc' = [pc EXCEPT ![t] = "unlinked"]
          /\ cache_lock' = t
    /\ UNCHANGED <<id, popularity, refcnt, allocated, refs>>

(* cache_delete: __cache_find, and the first half of __cache_delete.       *)
cache_delete(t, i) ==
    /\ pc[t] = "idle"
    /\ cache_lock = None
    /\ \E k \in 1..Len(cache) :
         /\ IsAt(i, k)
         /\ popularity[cache[k]] < MaxPopularity
         /\ popularity' = [popularity EXCEPT ![cache[k]] = @ + 1]
         /\ cache' = list_del(cache, k)
         /\ obj' = [obj EXCEPT ![t] = cache[k]]
    /\ cache_lock' = t
    /\ pc' = [pc EXCEPT ![t] = "unlinked"]
    /\ UNCHANGED <<cache_num, id, refcnt, allocated, refs>>

(* BUG_ON(!obj): the thread dies where it is, with the lock. *)
BUG_ON(t, i) ==
    /\ pc[t] = "idle"
    /\ cache_lock = None
    /\ \A o \in Listed : id[o] # i
    /\ cache_lock' = t
    /\ pc' = [pc EXCEPT ![t] = "oops"]
    /\ UNCHANGED <<cache, cache_num, id, popularity, refcnt, allocated, refs, obj>>

(* Does the reference given up by a put of o leave none? *)
last(o) == refcnt[o] = 1

(* The put of __cache_delete; "copy" frees without a count. *)
__object_put(t) ==
    /\ pc[t] = "unlinked"
    /\ refcnt' = [refcnt EXCEPT ![obj[t]] = @ - 1]
    /\ IF last(obj[t]) \/ Scheme = "copy"
       THEN pc' = [pc EXCEPT ![t] = "kfree"] /\ UNCHANGED obj
       ELSE pc' = [pc EXCEPT ![t] = "uncount"] /\ obj' = [obj EXCEPT ![t] = None]
    /\ UNCHANGED <<cache, cache_num, cache_lock, id, popularity, allocated, refs>>

(* kfree, in __cache_delete. *)
kfree(t) ==
    /\ pc[t] = "kfree"
    /\ allocated' = allocated \ {obj[t]}
    /\ pc' = [pc EXCEPT ![t] = "uncount"]
    /\ obj' = [obj EXCEPT ![t] = None]
    /\ UNCHANGED <<cache, cache_num, cache_lock, id, popularity, refcnt, refs>>

(* Mutant: cache_num is not decremented. *)
uncount_none(t) ==
    /\ pc[t] = "uncount"
    /\ cache_lock' = None
    /\ pc' = [pc EXCEPT ![t] = "idle"]
    /\ UNCHANGED <<cache, cache_num, id, popularity, refcnt, allocated, refs, obj>>

(* cache_num-- and unlock. *)
uncount(t) ==
    /\ pc[t] = "uncount"
    /\ cache_num' = cache_num - 1
    /\ cache_lock' = None
    /\ pc' = [pc EXCEPT ![t] = "idle"]
    /\ UNCHANGED <<cache, id, popularity, refcnt, allocated, refs, obj>>

(* Mutant: the lock is released before the reference is taken. *)
cache_find_unlocked(t, i) ==
    /\ pc[t] = "idle"
    /\ cache_lock = None
    /\ \E k \in 1..Len(cache) :
         /\ IsAt(i, k)
         /\ popularity[cache[k]] < MaxPopularity
         /\ popularity' = [popularity EXCEPT ![cache[k]] = @ + 1]
         /\ obj' = [obj EXCEPT ![t] = cache[k]]
    /\ pc' = [pc EXCEPT ![t] = "found"]
    /\ UNCHANGED <<cache, cache_num, cache_lock, id, refcnt, allocated, refs>>

(* cache_find up to the test of obj.  A search that finds nothing changes  *)
(* nothing and is left out.                                                *)
cache_find(t, i) ==
    /\ pc[t] = "idle"
    /\ cache_lock = None
    /\ \E k \in 1..Len(cache) :
         /\ IsAt(i, k)
         /\ popularity[cache[k]] < MaxPopularity
         /\ popularity' = [popularity EXCEPT ![cache[k]] = @ + 1]
         /\ obj' = [obj EXCEPT ![t] = cache[k]]
    /\ cache_lock' = t
    /\ pc' = [pc EXCEPT ![t] = "found"]
    /\ UNCHANGED <<cache, cache_num, id, refcnt, allocated, refs>>

(* Mutant: the reference that is handed out is not counted. *)
find_get_uncounted(t, r) ==
    /\ pc[t] = "found"
    /\ refs[r] = None
    /\ refs' = [refs EXCEPT ![r] = obj[t]]
    /\ cache_lock' = None
    /\ pc' = [pc EXCEPT ![t] = "idle"]
    /\ obj' = [obj EXCEPT ![t] = None]
    /\ UNCHANGED <<cache, cache_num, id, popularity, refcnt, allocated>>

(* The rest of it: the caller's variable r gets the reference, or, in      *)
(* "copy", the name is copied.                                             *)
find_get(t, r) ==
    /\ pc[t] = "found"
    /\ refs[r] = None
    /\ IF Scheme = "copy"
       THEN UNCHANGED <<refcnt, refs>>
       ELSE /\ refcnt' = [refcnt EXCEPT ![obj[t]] = @ + 1]
            /\ refs' = [refs EXCEPT ![r] = obj[t]]
    /\ cache_lock' = None
    /\ pc' = [pc EXCEPT ![t] = "idle"]
    /\ obj' = [obj EXCEPT ![t] = None]
    /\ UNCHANGED <<cache, cache_num, id, popularity, allocated>>

(* object_get and object_put take the lock in "locked" only; the atomic    *)
(* decrement and the kfree are then two steps.                             *)
unlocked == Scheme = "atomic" \/ cache_lock = None

object_get(t, r, q) ==
    /\ pc[t] = "idle" /\ unlocked
    /\ refs[r] # None /\ refs[q] = None
    /\ refcnt' = [refcnt EXCEPT ![refs[r]] = @ + 1]
    /\ refs' = [refs EXCEPT ![q] = refs[r]]
    /\ UNCHANGED <<cache, cache_num, cache_lock, id, popularity, allocated, pc, obj>>

object_put(t, r) ==
    /\ pc[t] = "idle" /\ unlocked
    /\ refs[r] # None
    /\ refcnt' = [refcnt EXCEPT ![refs[r]] = @ - 1]
    /\ refs' = [refs EXCEPT ![r] = None]
    /\ IF last(refs[r])
       THEN /\ pc' = [pc EXCEPT ![t] = "put_kfree"]
            /\ obj' = [obj EXCEPT ![t] = refs[r]]
            /\ cache_lock' = IF Scheme = "atomic" THEN cache_lock ELSE t
       ELSE UNCHANGED <<pc, obj, cache_lock>>
    /\ UNCHANGED <<cache, cache_num, id, popularity, allocated>>

(* kfree, in object_put, and the unlock if there was a lock. *)
put_kfree(t) ==
    /\ pc[t] = "put_kfree"
    /\ allocated' = allocated \ {obj[t]}
    /\ cache_lock' = IF Scheme = "atomic" THEN cache_lock ELSE None
    /\ pc' = [pc EXCEPT ![t] = "idle"]
    /\ obj' = [obj EXCEPT ![t] = None]
    /\ UNCHANGED <<cache, cache_num, id, popularity, refcnt, refs>>

call(t) ==
    \/ \E i \in Ids : cache_add(t, i) \/ cache_delete(t, i) \/ BUG_ON(t, i) \/ cache_find(t, i)
    \/ __cache_add(t)
    \/ __object_put(t)
    \/ kfree(t)
    \/ uncount(t)
    \/ put_kfree(t)
    \/ \E r \in Refs : find_get(t, r) \/ object_put(t, r)
    \/ \E r, q \in Refs : object_get(t, r, q)

Next == \E t \in Threads : call(t)

Spec == Init /\ [][Next]_vars

-----------------------------------------------------------------------------
(* Properties *)

(* Who owns a reference to an object: a caller's variable, the list, and   *)
(* a thread that is about to list it or has just unlinked it.              *)
Owners(o) ==
    {r \in Refs : refs[r] = o}
    \cup {t \in Threads : obj[t] = o /\ pc[t] \in {"add", "unlinked"}}
    \cup (IF o \in Listed THEN {Cache} ELSE {})

(* refcnt is the number of references there are, at every step of every    *)
(* thread, although object_get and object_put of sample_refcnt_atomic.c    *)
(* (lines 25-42) run while another thread holds cache_lock.                *)
RefcntExact ==
    \A o \in allocated :
        refcnt[o] = Cardinality(Owners(o))

(* No thread works with memory that has been freed: what a caller's        *)
(* variable points to, what is in the list, and what a call has found,     *)
(* listed or unlinked, has not been kfree'd.                               *)
NoUseAfterFree ==
    /\ \A r \in Refs : refs[r] # None => refs[r] \in allocated
    /\ Listed \subseteq allocated
    /\ \A t \in Threads :
         pc[t] \in {"add", "found", "unlinked", "kfree", "put_kfree"} =>
             obj[t] \in allocated

Frees(t) == pc[t] \in {"kfree", "put_kfree"}

(* An object is freed once: the thread that brought its count to zero is   *)
(* the only one to free it, and nobody has it any more.                    *)
FreedOnce ==
    \A t \in Threads : Frees(t) =>
        /\ Owners(obj[t]) = {}
        /\ \A u \in Threads \ {t} : obj[u] # obj[t]

(* Memory is not lost: what is allocated has an owner or is being freed.   *)
NoLeak ==
    \A o \in allocated :
        Owners(o) # {} \/ \E t \in Threads : obj[t] = o /\ Frees(t)

(* "Protects the cache, cache_num, and the objects within it": when the    *)
(* lock is free, cache_num is the length of the list and no more than      *)
(* MAX_CACHE_SIZE.                                                         *)
CountUnderLock ==
    cache_lock = None => cache_num = Len(cache) /\ cache_num <= MAX_CACHE_SIZE

(* When the cache is full a new object is always the outcast itself: it is *)
(* put first in the list with popularity 0, and the search for the least   *)
(* popular keeps the first it meets.  So adding never changes a full       *)
(* cache; only cache_delete makes room.                                    *)
FullCacheFrozen ==
    [][(cache_lock = None /\ Len(cache) = MAX_CACHE_SIZE
        /\ \E t \in Threads : __cache_add(t)) => cache' = cache]_vars

-----------------------------------------------------------------------------
(* The inductive invariant behind these. *)

Sole(t) == pc[t] \in {"add", "unlinked", "kfree", "put_kfree"}

(* The lock is held where the code holds it. *)
LockInv ==
    \A t \in Threads :
        /\ pc[t] \in {"found", "unlinked", "kfree", "uncount", "oops"} => cache_lock = t
        /\ pc[t] = "put_kfree" => (cache_lock = t <=> Scheme # "atomic")
        /\ cache_lock = t => pc[t] \notin {"idle", "add"}

(* A thread that has found an object has it in the list; a new object has  *)
(* not been looked up; a thread that is done with its object has let go.   *)
ObjInv ==
    \A t \in Threads :
        /\ pc[t] = "found" => obj[t] \in Listed
        /\ pc[t] = "add" => popularity[obj[t]] = 0
        /\ pc[t] \in {"idle", "uncount", "oops"} => obj[t] = None

(* A thread that adds, has unlinked or frees an object has it to itself,   *)
(* outside the list.                                                       *)
SoleInv ==
    \A t \in Threads : Sole(t) =>
        /\ obj[t] \in Objs \ Listed
        /\ \A u \in Threads \ {t} : obj[u] # obj[t]

(* The list has no object twice. *)
ListInv == \A k, n \in 1..Len(cache) : cache[k] = cache[n] => k = n

(* Where names are copied, no caller ever gets a reference. *)
CopyInv == Scheme = "copy" => \A r \in Refs : refs[r] = None

LocalInv == LockInv /\ ObjInv /\ SoleInv /\ ListInv /\ CopyInv

(* cache_num is one ahead of the list from the unlinking to the unlock.    *)
CountInv ==
    /\ Len(cache) <= MAX_CACHE_SIZE
    /\ (\A t \in Threads : pc[t] \notin {"unlinked", "kfree", "uncount"}) =>
           cache_num = Len(cache)
    /\ \A t \in Threads : pc[t] \in {"unlinked", "kfree", "uncount"} =>
           cache_num = Len(cache) + 1

IInv == TypeOK /\ LocalInv /\ CountInv /\ RefcntExact /\ NoUseAfterFree /\ FreedOnce /\ NoLeak
=============================================================================
