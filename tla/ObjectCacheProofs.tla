-------------------------- MODULE ObjectCacheProofs --------------------------
(***************************************************************************)
(* Proofs about the object cache, for any number of threads, objects and   *)
(* references, any size of the cache, and each of the three schemes.       *)
(***************************************************************************)
EXTENDS ObjectCache, TLAPS

(***************************************************************************)
(* What the steps do to the list, to the lock and to the owners.           *)
(***************************************************************************)
Distinct(s) == \A k, n \in 1..Len(s) : s[k] = s[n] => k = n
Elements(s) == {s[k] : k \in 1..Len(s)}

(* What is being freed has no owner. *)
NoOwner == \A o \in Objs : (\E t \in Threads : Frees(t) /\ obj[t] = o) => Owners(o) = {}

(* What list_del does to a list without repetitions. *)
LEMMA ListDel ==
    ASSUME NEW S, NEW s \in Seq(S), NEW k \in 1..Len(s), Distinct(s)
    PROVE  /\ list_del(s, k) \in Seq(S)
           /\ Len(list_del(s, k)) = Len(s) - 1
           /\ Distinct(list_del(s, k))
           /\ Elements(list_del(s, k)) = Elements(s) \ {s[k]}
<1> DEFINE d == list_del(s, k)
<1>1. d \in [1..(Len(s) - 1) -> S]
  BY DEF list_del
<1>2. d \in Seq(S) /\ Len(d) = Len(s) - 1
  BY <1>1, Len(s) \in Nat
<1>3. \A i \in 1..Len(d) : d[i] = IF i < k THEN s[i] ELSE s[i + 1]
  BY <1>2 DEF list_del
<1> HIDE DEF d
<1>4. Distinct(d)
  <2> SUFFICES ASSUME NEW i \in 1..Len(d), NEW n \in 1..Len(d), d[i] = d[n]
               PROVE  i = n
    BY DEF Distinct
  <2>1. \A a, b \in 1..Len(s) : s[a] = s[b] => a = b
    BY DEF Distinct
  <2> DEFINE up(x) == IF x < k THEN x ELSE x + 1
  <2>2. \A x \in 1..Len(d) : up(x) \in 1..Len(s) /\ d[x] = s[up(x)]
    <3> SUFFICES ASSUME NEW x \in 1..Len(d)
                 PROVE  up(x) \in 1..Len(s) /\ d[x] = s[up(x)]
      OBVIOUS
    <3>1. CASE x < k
      BY <1>2, <1>3, <3>1, SMTT(30)
    <3>2. CASE ~(x < k)
      BY <1>2, <1>3, <3>2
    <3> QED
      BY <3>1, <3>2
  <2>3. \A x, y \in 1..Len(d) : up(x) = up(y) => x = y
    BY <1>2
  <2> HIDE DEF up
  <2> QED
    BY ONLY <2>1, <2>2, <2>3, i \in 1..Len(d), n \in 1..Len(d), d[i] = d[n]
<1>5. Elements(d) \subseteq Elements(s) \ {s[k]}
  BY <1>2, <1>3 DEF Distinct, Elements
<1>6. ASSUME NEW x \in Elements(s) \ {s[k]}
      PROVE  x \in Elements(d)
  <2>1. PICK n \in 1..Len(s) : x = s[n] /\ n # k
    BY DEF Elements
  <2>2. CASE n < k
    BY <1>2, <1>3, <2>1, <2>2 DEF Elements
  <2>3. CASE n > k
    <3>1. n - 1 \in 1..Len(d) /\ d[n - 1] = x
      BY <1>2, <1>3, <2>1, <2>3
    <3> QED
      BY <3>1 DEF Elements
  <2> QED
    BY <2>1, <2>2, <2>3
<1> QED
  BY <1>2, <1>4, <1>5, <1>6 DEF d

(* What list_add does with an object that is not in the list. *)
LEMMA ListAdd ==
    ASSUME NEW S, NEW s \in Seq(S), NEW o \in S, Distinct(s), o \notin Elements(s)
    PROVE  /\ list_add(s, o) \in Seq(S)
           /\ Len(list_add(s, o)) = Len(s) + 1
           /\ list_add(s, o)[1] = o
           /\ Distinct(list_add(s, o))
           /\ Elements(list_add(s, o)) = Elements(s) \cup {o}
           /\ list_del(list_add(s, o), 1) = s
<1> DEFINE a == list_add(s, o)
<1>1. /\ a \in Seq(S) /\ Len(a) = Len(s) + 1
      /\ a[1] = o
      /\ \A i \in 1..Len(s) : a[i + 1] = s[i]
  BY DEF list_add
<1> HIDE DEF a
<1>2. \A i \in 2..Len(a) : i - 1 \in 1..Len(s) /\ a[i] = s[i - 1]
  BY <1>1
<1>3. Distinct(a)
  <2> SUFFICES ASSUME NEW k \in 1..Len(a), NEW n \in 1..Len(a), a[k] = a[n]
               PROVE  k = n
    BY DEF Distinct
  <2>1. CASE k = 1 /\ n # 1
    BY <1>1, <1>2, <2>1 DEF Elements
  <2>2. CASE n = 1 /\ k # 1
    BY <1>1, <1>2, <2>2 DEF Elements
  <2>3. CASE k # 1 /\ n # 1
    <3>1. \A b, c \in 1..Len(s) : s[b] = s[c] => b = c
      BY DEF Distinct
    <3>2. /\ k - 1 \in 1..Len(s) /\ n - 1 \in 1..Len(s)
          /\ s[k - 1] = s[n - 1]
      BY <1>1, <1>2, <2>3
    <3>3. k - 1 = n - 1
      BY ONLY <3>1, <3>2
    <3> QED
      BY <3>3
  <2> QED
    BY <2>1, <2>2, <2>3
<1>4. Elements(a) \subseteq Elements(s) \cup {o}
  <2> SUFFICES ASSUME NEW i \in 1..Len(a), i # 1
               PROVE  a[i] \in Elements(s)
    BY <1>1 DEF Elements
  <2>1. i - 1 \in 1..Len(s) /\ a[i] = s[i - 1]
    BY <1>1, <1>2
  <2> QED
    BY ONLY <2>1 DEF Elements
<1>5. Elements(s) \cup {o} \subseteq Elements(a)
  <2>1. o \in Elements(a)
    BY <1>1 DEF Elements
  <2>2. ASSUME NEW k \in 1..Len(s)
        PROVE  s[k] \in Elements(a)
    <3>1. k + 1 \in 1..Len(a) /\ a[k + 1] = s[k]
      BY <1>1
    <3> QED
      BY <3>1 DEF Elements
  <2> QED
    BY <2>1, <2>2 DEF Elements
<1>6. list_del(a, 1) = s
  <2>1. list_del(a, 1) = [i \in 1..Len(s) |-> s[i]]
    BY <1>1 DEF list_del
  <2> QED
    BY <2>1
<1> QED
  BY <1>1, <1>3, <1>4, <1>5, <1>6 DEF a

-----------------------------------------------------------------------------
(* What each change of the list comes to. *)

(* The new object is put into the list. *)
Lists(t) ==
    /\ Len(cache) < MAX_CACHE_SIZE
    /\ cache' \in Seq(Objs) /\ Distinct(cache')
    /\ Len(cache') = Len(cache) + 1
    /\ Listed' = Listed \cup {obj[t]}
    /\ pc' = [pc EXCEPT ![t] = "idle"]
    /\ obj' = [obj EXCEPT ![t] = None]
    /\ cache_lock' = None

(* The new object is the outcast. *)
Refuses(t) ==
    /\ cache' = cache /\ obj' = obj
    /\ pc' = [pc EXCEPT ![t] = "unlinked"]
    /\ cache_lock' = t

(* Object o is found in the list. *)
Finds(t, o) ==
    /\ o \in Listed /\ o \in Objs
    /\ obj' = [obj EXCEPT ![t] = o]
    /\ popularity' = [popularity EXCEPT ![o] = popularity[o] + 1]

(* Object o is taken out of the list. *)
Unlinks(o) ==
    /\ cache' \in Seq(Objs) /\ Distinct(cache')
    /\ Len(cache') = Len(cache) - 1
    /\ Listed' = Listed \ {o}

(* __cache_add either lists the new object or, when the cache is full,     *)
(* makes the new object the outcast and leaves the list as it was.         *)
LEMMA AddEffect ==
    ASSUME IInv, NEW t \in Threads, __cache_add(t)
    PROVE  /\ Lists(t) \/ Refuses(t)
           /\ obj[t] \in Objs \ Listed
           /\ cache_lock = None /\ pc[t] = "add"
           /\ cache_num' = Len(cache) + 1
<1>1. /\ obj[t] \in Objs /\ obj[t] \notin Elements(cache)
      /\ cache \in Seq(Objs) /\ Distinct(cache)
      /\ popularity[obj[t]] = 0 /\ popularity \in [Objs -> Nat]
      /\ pc[t] = "add" /\ cache_lock = None
      /\ Listed = Elements(cache)
  BY DEF __cache_add, IInv, TypeOK, LocalInv, ObjInv, SoleInv, ListInv, Sole, Distinct, Elements, Listed
<1>2. cache_num = Len(cache)
  <2>1. \A u \in Threads : pc[u] \notin {"unlinked", "kfree", "uncount"}
    BY <1>1, CacheAssumption DEF IInv, LocalInv, LockInv
  <2> QED
    BY <2>1 DEF IInv, CountInv
<1> DEFINE s == list_add(cache, obj[t])
<1>3. /\ s \in Seq(Objs) /\ Len(s) = Len(cache) + 1 /\ s[1] = obj[t]
      /\ Distinct(s) /\ Elements(s) = Elements(cache) \cup {obj[t]}
      /\ list_del(s, 1) = cache
  BY <1>1, ListAdd
<1> HIDE DEF s
<1>4. Len(cache) \in Nat
  BY <1>1
<1>5. CASE cache_num' <= MAX_CACHE_SIZE
  <2>1. /\ cache' = s
        /\ pc' = [pc EXCEPT ![t] = "idle"]
        /\ obj' = [obj EXCEPT ![t] = None]
        /\ cache_lock' = cache_lock
        /\ cache_num' = cache_num + 1
    BY <1>2, <1>4, <1>5, CacheAssumption DEF __cache_add, s
  <2>2. Listed' = Elements(s)
    BY <2>1 DEF Listed, Elements
  <2> QED
    BY <1>1, <1>2, <1>3, <1>4, <1>5, <2>1, <2>2, CacheAssumption DEF Lists
<1>6. CASE cache_num' > MAX_CACHE_SIZE
  <2>1. PICK k \in 1..Len(s) :
               /\ IsOutcast(s, k)
               /\ cache' = list_del(s, k)
               /\ obj' = [obj EXCEPT ![t] = s[k]]
    BY <1>2, <1>4, <1>6, CacheAssumption DEF __cache_add, s
  <2>2. k = 1
    <3> SUFFICES ASSUME k # 1
                 PROVE  FALSE
      OBVIOUS
    <3>1. 1 \in 1..(k - 1)
      BY <1>3, <1>4
    <3>2. popularity[s[k]] < popularity[s[1]]
      BY <2>1, <3>1 DEF IsOutcast
    <3>3. s[k] \in Objs
      BY <1>3
    <3> QED
      BY <1>1, <1>3, <3>2, <3>3
  <2>3. cache' = cache /\ obj' = [obj EXCEPT ![t] = obj[t]]
    BY <1>3, <2>1, <2>2, Zenon
  <2>4. obj' = obj
    BY <2>3 DEF IInv, TypeOK
  <2>5. /\ pc' = [pc EXCEPT ![t] = "unlinked"]
        /\ cache_lock' = t
        /\ cache_num' = cache_num + 1
    BY <1>2, <1>4, <1>6, CacheAssumption DEF __cache_add
  <2> QED
    BY <1>1, <1>2, <2>3, <2>4, <2>5 DEF Refuses
<1>7. cache_num' \in Int
  BY <1>2, <1>4 DEF __cache_add
<1> QED
  BY <1>5, <1>6, <1>7, CacheAssumption

(* cache_delete unlinks one object of the list. *)
LEMMA DeleteEffect ==
    ASSUME IInv, NEW t \in Threads, NEW i \in Ids, cache_delete(t, i)
    PROVE  \E o \in Objs : Finds(t, o) /\ Unlinks(o)
<1>1. cache \in Seq(Objs) /\ Distinct(cache) /\ Listed = Elements(cache)
  BY DEF IInv, TypeOK, LocalInv, ListInv, Distinct, Elements, Listed
<1>2. PICK k \in 1..Len(cache) :
             /\ popularity' = [popularity EXCEPT ![cache[k]] = popularity[cache[k]] + 1]
             /\ cache' = list_del(cache, k)
             /\ obj' = [obj EXCEPT ![t] = cache[k]]
  BY Zenon DEF cache_delete
<1>3. cache[k] \in Listed /\ cache[k] \in Objs
  BY <1>1 DEF Elements
<1>4. /\ cache' \in Seq(Objs) /\ Distinct(cache')
      /\ Len(cache') = Len(cache) - 1
      /\ Elements(cache') = Elements(cache) \ {cache[k]}
  BY <1>1, <1>2, ListDel
<1>5. Listed' = Elements(cache')
  BY DEF Listed, Elements
<1> QED
  BY <1>1, <1>2, <1>3, <1>4, <1>5, Zenon DEF Finds, Unlinks

(* cache_find finds an object of the list. *)
LEMMA FindEffect ==
    ASSUME IInv, NEW t \in Threads, NEW i \in Ids, cache_find(t, i)
    PROVE  \E o \in Objs : Finds(t, o)
<1>1. cache \in Seq(Objs)
  BY DEF IInv, TypeOK
<1>2. PICK k \in 1..Len(cache) :
             /\ popularity' = [popularity EXCEPT ![cache[k]] = popularity[cache[k]] + 1]
             /\ obj' = [obj EXCEPT ![t] = cache[k]]
  BY Zenon DEF cache_find
<1>3. cache[k] \in Listed /\ cache[k] \in Objs
  BY <1>1, SMTT(30) DEF Listed
<1> QED
  BY <1>2, <1>3, Zenon DEF Finds

-----------------------------------------------------------------------------
(* One lemma per conjunct of the invariant, one step per action. *)

(* Every step keeps the types. *)
LEMMA StepTypeOK ==
    ASSUME IInv, NEW t \in Threads, call(t)
    PROVE  TypeOK'
<1>0. TypeOK /\ SoleInv /\ ObjInv /\ NoUseAfterFree
  BY DEF IInv, LocalInv
<1> USE <1>0 DEF TypeOK, PC, SoleInv, Sole
<1>1. ASSUME NEW i \in Ids, cache_add(t, i)
      PROVE  TypeOK'
  BY <1>1 DEF cache_add
<1>2. ASSUME NEW i \in Ids, cache_delete(t, i)
      PROVE  TypeOK'
  <2>1. PICK o \in Objs : Finds(t, o) /\ Unlinks(o)
    BY <1>2, DeleteEffect
  <2>2. popularity' \in [Objs -> Nat]
    BY <2>1 DEF Finds
  <2> QED
    BY <1>2, <2>1, <2>2, Zenon DEF cache_delete, Finds, Unlinks
<1>3. ASSUME NEW i \in Ids, BUG_ON(t, i)
      PROVE  TypeOK'
  BY <1>3 DEF BUG_ON
<1>4. ASSUME NEW i \in Ids, cache_find(t, i)
      PROVE  TypeOK'
  <2>1. PICK o \in Objs : Finds(t, o)
    BY <1>4, FindEffect
  <2>2. popularity' \in [Objs -> Nat]
    BY <2>1 DEF Finds
  <2> QED
    BY <1>4, <2>1, <2>2, ZenonT(30) DEF cache_find, Finds
<1>5. ASSUME __cache_add(t)
      PROVE  TypeOK'
  <2>1. /\ Lists(t) \/ Refuses(t)
        /\ obj[t] \in Objs \ Listed
        /\ cache_lock = None /\ pc[t] = "add"
        /\ cache_num' = Len(cache) + 1
    BY <1>5, AddEffect
  <2>2. CASE Lists(t)
    BY <1>5, <2>1, <2>2 DEF __cache_add, Lists
  <2>3. CASE Refuses(t)
    BY <1>5, <2>1, <2>3 DEF __cache_add, Refuses
  <2> QED
    BY <2>1, <2>2, <2>3, SMTT(30)
<1>6. ASSUME __object_put(t)
      PROVE  TypeOK'
  <2>1. refcnt' \in [Objs -> Int]
    BY <1>6 DEF __object_put
  <2>2. CASE last(obj[t]) \/ Scheme = "copy"
    <3>1. pc' \in [Threads -> PC] /\ obj' \in [Threads -> Objs \cup {None}]
      BY <1>6, <2>2, Zenon DEF __object_put
    <3> QED
      BY <1>6, <2>1, <2>2, <3>1 DEF __object_put
  <2>3. CASE ~(last(obj[t]) \/ Scheme = "copy")
    <3>1. pc' \in [Threads -> PC] /\ obj' \in [Threads -> Objs \cup {None}]
      BY <1>6, <2>3, Zenon DEF __object_put
    <3> QED
      BY <1>6, <2>1, <2>3, <3>1 DEF __object_put
  <2> QED
    BY <2>2, <2>3
<1>7. ASSUME kfree(t)
      PROVE  TypeOK'
  BY <1>7 DEF kfree
<1>8. ASSUME uncount(t)
      PROVE  TypeOK'
  BY <1>8 DEF uncount
<1>9. ASSUME put_kfree(t)
      PROVE  TypeOK'
  BY <1>9 DEF put_kfree
<1>10. ASSUME NEW r \in Refs, find_get(t, r)
      PROVE  TypeOK'
  <2>1. CASE Scheme = "copy"
    BY <1>10, <2>1 DEF find_get
  <2>2. CASE ~(Scheme = "copy")
    BY <1>10, <2>2 DEF find_get
  <2> QED
    BY <2>1, <2>2
<1>11. ASSUME NEW r \in Refs, object_put(t, r)
      PROVE  TypeOK'
  <2>1. refcnt' \in [Objs -> Int]
    BY <1>11 DEF object_put
  <2>2. CASE last(refs[r])
    <3>1. pc' \in [Threads -> PC] /\ obj' \in [Threads -> Objs \cup {None}]
      BY <1>11, <2>2, Zenon DEF object_put
    <3> QED
      BY <1>11, <2>1, <2>2, <3>1 DEF object_put
  <2>3. CASE ~(last(refs[r]))
    <3>1. pc' \in [Threads -> PC] /\ obj' \in [Threads -> Objs \cup {None}]
      BY <1>11, <2>3 DEF object_put
    <3> QED
      BY <1>11, <2>1, <2>3, <3>1 DEF object_put
  <2> QED
    BY <2>2, <2>3
<1>12. ASSUME NEW r \in Refs, NEW q \in Refs, object_get(t, r, q)
      PROVE  TypeOK'
  BY <1>12 DEF object_get
<1> QED
  BY SMTT(30), <1>1, <1>2, <1>3, <1>4, <1>5, <1>6, <1>7, <1>8,
     <1>9, <1>10, <1>11, <1>12 DEF call

(* The part of the types that most steps need. *)
Shape ==
    /\ cache_lock \in Threads \cup {None}
    /\ allocated \subseteq Objs
    /\ refs \in [Refs -> Objs \cup {None}]
    /\ pc \in [Threads -> PC]
    /\ obj \in [Threads -> Objs \cup {None}]
    /\ None \notin Threads \cup Objs

(* The types that the steps need. *)
LEMMA ShapeHolds == IInv => Shape
  BY CacheAssumption DEF IInv, TypeOK, Shape

(* The lock is held by one thread at a time, and where it should be. *)
LEMMA StepLock ==
    ASSUME IInv, NEW t \in Threads, call(t)
    PROVE  LockInv'
<1>0. Shape /\ LockInv
  BY ShapeHolds DEF IInv, LocalInv
<1> USE <1>0 DEF Shape, LockInv
<1>1. ASSUME NEW i \in Ids, cache_add(t, i)
      PROVE  LockInv'
  BY <1>1 DEF cache_add
<1>2. ASSUME NEW i \in Ids, cache_delete(t, i)
      PROVE  LockInv'
  BY <1>2 DEF cache_delete
<1>3. ASSUME NEW i \in Ids, BUG_ON(t, i)
      PROVE  LockInv'
  BY <1>3 DEF BUG_ON
<1>4. ASSUME NEW i \in Ids, cache_find(t, i)
      PROVE  LockInv'
  BY <1>4 DEF cache_find
<1>5. ASSUME __cache_add(t)
      PROVE  LockInv'
  <2>1. /\ Lists(t) \/ Refuses(t)
        /\ obj[t] \in Objs \ Listed
        /\ cache_lock = None /\ pc[t] = "add"
        /\ cache_num' = Len(cache) + 1
    BY <1>5, AddEffect
  <2>2. CASE Lists(t)
    BY <1>5, <2>1, <2>2 DEF __cache_add, Lists
  <2>3. CASE Refuses(t)
    BY <1>5, <2>1, <2>3 DEF __cache_add, Refuses
  <2> QED
    BY <2>1, <2>2, <2>3
<1>6. ASSUME __object_put(t)
      PROVE  LockInv'
  <2>1. CASE last(obj[t]) \/ Scheme = "copy"
    BY <1>6, <2>1 DEF __object_put
  <2>2. CASE ~(last(obj[t]) \/ Scheme = "copy")
    BY <1>6, <2>2 DEF __object_put
  <2> QED
    BY <2>1, <2>2
<1>7. ASSUME kfree(t)
      PROVE  LockInv'
  BY <1>7 DEF kfree
<1>8. ASSUME uncount(t)
      PROVE  LockInv'
  BY <1>8 DEF uncount
<1>9. ASSUME put_kfree(t)
      PROVE  LockInv'
  BY <1>9 DEF put_kfree
<1>10. ASSUME NEW r \in Refs, find_get(t, r)
      PROVE  LockInv'
  <2>1. CASE Scheme = "copy"
    BY <1>10, <2>1 DEF find_get
  <2>2. CASE ~(Scheme = "copy")
    BY <1>10, <2>2 DEF find_get
  <2> QED
    BY <2>1, <2>2
<1>11. ASSUME NEW r \in Refs, object_put(t, r)
      PROVE  LockInv'
  <2>1. CASE last(refs[r])
    BY <1>11, <2>1 DEF object_put, unlocked
  <2>2. CASE ~(last(refs[r]))
    BY <1>11, <2>2 DEF object_put, unlocked
  <2> QED
    BY <2>1, <2>2
<1>12. ASSUME NEW r \in Refs, NEW q \in Refs, object_get(t, r, q)
      PROVE  LockInv'
  BY <1>12 DEF object_get
<1> QED
  BY SMTT(30), <1>1, <1>2, <1>3, <1>4, <1>5, <1>6, <1>7, <1>8,
     <1>9, <1>10, <1>11, <1>12 DEF call

(* What each thread knows of its object stays true. *)
LEMMA StepObj ==
    ASSUME IInv, NEW t \in Threads, call(t)
    PROVE  ObjInv'
<1>0. Shape /\ popularity \in [Objs -> Nat] /\ LockInv /\ ObjInv /\ SoleInv
  BY ShapeHolds DEF IInv, LocalInv, TypeOK
<1> USE <1>0 DEF Shape, LockInv, ObjInv, SoleInv, Sole
<1>1. ASSUME NEW i \in Ids, cache_add(t, i)
      PROVE  ObjInv'
  <2>1. Listed' = Listed
    BY <1>1 DEF cache_add, Listed
  <2> QED
    BY <1>1, <2>1 DEF cache_add
<1>2. ASSUME NEW i \in Ids, cache_delete(t, i)
      PROVE  ObjInv'
  <2>1. PICK o \in Objs : Finds(t, o) /\ Unlinks(o)
    BY <1>2, DeleteEffect
  <2> QED
    BY <1>2, <2>1 DEF cache_delete, Finds, Unlinks
<1>3. ASSUME NEW i \in Ids, BUG_ON(t, i)
      PROVE  ObjInv'
  <2>1. Listed' = Listed
    BY <1>3 DEF BUG_ON, Listed
  <2> QED
    BY <1>3, <2>1, SMTT(30) DEF BUG_ON
<1>4. ASSUME NEW i \in Ids, cache_find(t, i)
      PROVE  ObjInv'
  <2>1. PICK o \in Objs : Finds(t, o)
    BY <1>4, FindEffect, SMTT(30)
  <2>2. Listed' = Listed
    BY <1>4, SMTT(30) DEF cache_find, Listed
  <2> QED
    BY <1>4, <2>1, <2>2 DEF cache_find, Finds
<1>5. ASSUME __cache_add(t)
      PROVE  ObjInv'
  <2>1. /\ Lists(t) \/ Refuses(t)
        /\ obj[t] \in Objs \ Listed
        /\ cache_lock = None /\ pc[t] = "add"
        /\ cache_num' = Len(cache) + 1
    BY <1>5, AddEffect
  <2>2. CASE Lists(t)
    BY <1>5, <2>1, <2>2 DEF __cache_add, Lists
  <2>3. CASE Refuses(t)
    BY <1>5, <2>1, <2>3, SMTT(30) DEF __cache_add, Refuses
  <2> QED
    BY <2>1, <2>2, <2>3
<1>6. ASSUME __object_put(t)
      PROVE  ObjInv'
  <2>1. Listed' = Listed /\ popularity' = popularity
    BY <1>6 DEF __object_put, Listed
  <2>2. \A u \in Threads \ {t} : pc'[u] = pc[u] /\ obj'[u] = obj[u]
    BY <1>6 DEF __object_put
  <2>3. pc'[t] = "kfree" \/ (pc'[t] = "uncount" /\ obj'[t] = None)
    BY <1>6 DEF __object_put
  <2> QED
    BY <2>1, <2>2, <2>3, ZenonT(30)
<1>7. ASSUME kfree(t)
      PROVE  ObjInv'
  <2>1. Listed' = Listed
    BY <1>7 DEF kfree, Listed
  <2> QED
    BY <1>7, <2>1 DEF kfree
<1>8. ASSUME uncount(t)
      PROVE  ObjInv'
  <2>1. Listed' = Listed
    BY <1>8 DEF uncount, Listed
  <2> QED
    BY <1>8, <2>1 DEF uncount
<1>9. ASSUME put_kfree(t)
      PROVE  ObjInv'
  <2>1. Listed' = Listed
    BY <1>9 DEF put_kfree, Listed
  <2> QED
    BY <1>9, <2>1, SMTT(30) DEF put_kfree
<1>10. ASSUME NEW r \in Refs, find_get(t, r)
      PROVE  ObjInv'
  <2>1. Listed' = Listed
    BY <1>10 DEF find_get, Listed
  <2>2. CASE Scheme = "copy"
    BY <1>10, <2>1, <2>2 DEF find_get
  <2>3. CASE ~(Scheme = "copy")
    BY <1>10, <2>1, <2>3 DEF find_get
  <2> QED
    BY ONLY <2>2, <2>3
<1>11. ASSUME NEW r \in Refs, object_put(t, r)
      PROVE  ObjInv'
  <2>1. Listed' = Listed
    BY <1>11 DEF object_put, Listed
  <2>2. CASE last(refs[r])
    BY <1>11, <2>1, <2>2 DEF object_put
  <2>3. CASE ~(last(refs[r]))
    BY <1>11, <2>1, <2>3 DEF object_put
  <2> QED
    BY ONLY <2>2, <2>3, ZenonT(30)
<1>12. ASSUME NEW r \in Refs, NEW q \in Refs, object_get(t, r, q)
      PROVE  ObjInv'
  <2>1. Listed' = Listed
    BY <1>12 DEF object_get, Listed
  <2> QED
    BY <1>12, <2>1 DEF object_get
<1> QED
  BY ZenonT(40), <1>1, <1>2, <1>3, <1>4, <1>5, <1>6, <1>7, <1>8,
     <1>9, <1>10, <1>11, <1>12, Zenon DEF call

(* No object is listed twice. *)
LEMMA StepList ==
    ASSUME IInv, NEW t \in Threads, call(t)
    PROVE  ListInv'
<1>0. TypeOK /\ ListInv
  BY DEF IInv, LocalInv
<1> USE <1>0 DEF ListInv, Distinct
<1>1. ASSUME NEW i \in Ids, cache_add(t, i)
      PROVE  ListInv'
  BY <1>1 DEF cache_add
<1>2. ASSUME NEW i \in Ids, cache_delete(t, i)
      PROVE  ListInv'
  <2>1. PICK o \in Objs : Finds(t, o) /\ Unlinks(o)
    BY <1>2, DeleteEffect
  <2> QED
    BY <1>2, <2>1 DEF cache_delete, Finds, Unlinks
<1>3. ASSUME NEW i \in Ids, BUG_ON(t, i)
      PROVE  ListInv'
  BY <1>3 DEF BUG_ON
<1>4. ASSUME NEW i \in Ids, cache_find(t, i)
      PROVE  ListInv'
  BY <1>4 DEF cache_find
<1>5. ASSUME __cache_add(t)
      PROVE  ListInv'
  <2>1. /\ Lists(t) \/ Refuses(t)
        /\ obj[t] \in Objs \ Listed
        /\ cache_lock = None /\ pc[t] = "add"
        /\ cache_num' = Len(cache) + 1
    BY <1>5, AddEffect
  <2>2. CASE Lists(t)
    BY <1>5, <2>1, <2>2 DEF __cache_add, Lists
  <2>3. CASE Refuses(t)
    BY <1>5, <2>1, <2>3 DEF __cache_add, Refuses
  <2> QED
    BY <2>1, <2>2, <2>3, SMTT(30)
<1>6. ASSUME __object_put(t)
      PROVE  ListInv'
  BY <1>6 DEF __object_put
<1>7. ASSUME kfree(t)
      PROVE  ListInv'
  BY <1>7 DEF kfree
<1>8. ASSUME uncount(t)
      PROVE  ListInv'
  BY <1>8 DEF uncount
<1>9. ASSUME put_kfree(t)
      PROVE  ListInv'
  BY <1>9 DEF put_kfree
<1>10. ASSUME NEW r \in Refs, find_get(t, r)
      PROVE  ListInv'
  BY <1>10 DEF find_get
<1>11. ASSUME NEW r \in Refs, object_put(t, r)
      PROVE  ListInv'
  BY <1>11 DEF object_put
<1>12. ASSUME NEW r \in Refs, NEW q \in Refs, object_get(t, r, q)
      PROVE  ListInv'
  BY <1>12 DEF object_get
<1> QED
  BY SMTT(30), <1>1, <1>2, <1>3, <1>4, <1>5, <1>6, <1>7, <1>8,
     <1>9, <1>10, <1>11, <1>12 DEF call

(* Copying hands out no references. *)
LEMMA StepCopy ==
    ASSUME IInv, NEW t \in Threads, call(t)
    PROVE  CopyInv'
<1>0. Shape /\ CopyInv
  BY ShapeHolds DEF IInv, LocalInv
<1> USE <1>0 DEF Shape, CopyInv
<1>1. ASSUME NEW i \in Ids, cache_add(t, i)
      PROVE  CopyInv'
  BY <1>1 DEF cache_add
<1>2. ASSUME NEW i \in Ids, cache_delete(t, i)
      PROVE  CopyInv'
  BY <1>2 DEF cache_delete
<1>3. ASSUME NEW i \in Ids, BUG_ON(t, i)
      PROVE  CopyInv'
  BY <1>3 DEF BUG_ON
<1>4. ASSUME NEW i \in Ids, cache_find(t, i)
      PROVE  CopyInv'
  BY <1>4 DEF cache_find
<1>5. ASSUME __cache_add(t)
      PROVE  CopyInv'
  BY <1>5 DEF __cache_add
<1>6. ASSUME __object_put(t)
      PROVE  CopyInv'
  BY <1>6 DEF __object_put
<1>7. ASSUME kfree(t)
      PROVE  CopyInv'
  BY <1>7 DEF kfree
<1>8. ASSUME uncount(t)
      PROVE  CopyInv'
  BY <1>8 DEF uncount
<1>9. ASSUME put_kfree(t)
      PROVE  CopyInv'
  BY <1>9 DEF put_kfree
<1>10. ASSUME NEW r \in Refs, find_get(t, r)
      PROVE  CopyInv'
  BY <1>10 DEF find_get
<1>11. ASSUME NEW r \in Refs, object_put(t, r)
      PROVE  CopyInv'
  BY <1>11 DEF object_put
<1>12. ASSUME NEW r \in Refs, NEW q \in Refs, object_get(t, r, q)
      PROVE  CopyInv'
  BY <1>12, SMTT(30) DEF object_get
<1> QED
  BY SMTT(30), <1>1, <1>2, <1>3, <1>4, <1>5, <1>6, <1>7, <1>8,
     <1>9, <1>10, <1>11, <1>12 DEF call

(* cache_num follows the list. *)
LEMMA StepCount ==
    ASSUME IInv, NEW t \in Threads, call(t)
    PROVE  CountInv'
<1>0. TypeOK /\ LockInv /\ CountInv
  BY DEF IInv, LocalInv
<1> USE <1>0, CacheAssumption DEF TypeOK, LockInv, CountInv
<1>1. ASSUME NEW i \in Ids, cache_add(t, i)
      PROVE  CountInv'
  BY <1>1 DEF cache_add
<1>2. ASSUME NEW i \in Ids, cache_delete(t, i)
      PROVE  CountInv'
  <2>1. PICK o \in Objs : Finds(t, o) /\ Unlinks(o)
    BY <1>2, DeleteEffect, SMTT(30)
  <2>2. /\ pc[t] = "idle" /\ cache_lock = None
        /\ pc' = [pc EXCEPT ![t] = "unlinked"]
        /\ cache_num' = cache_num
        /\ Len(cache') = Len(cache) - 1
        /\ Len(cache) \in Nat
    BY <1>2, <2>1 DEF cache_delete, Unlinks
  <2>3. cache_num = Len(cache)
    BY <2>2
  <2> QED
    BY <2>2, <2>3
<1>3. ASSUME NEW i \in Ids, BUG_ON(t, i)
      PROVE  CountInv'
  BY <1>3, SMTT(30) DEF BUG_ON
<1>4. ASSUME NEW i \in Ids, cache_find(t, i)
      PROVE  CountInv'
  BY <1>4, SMTT(30) DEF cache_find
<1>5. ASSUME __cache_add(t)
      PROVE  CountInv'
  <2>1. /\ Lists(t) \/ Refuses(t)
        /\ obj[t] \in Objs \ Listed
        /\ cache_lock = None /\ pc[t] = "add"
        /\ cache_num' = Len(cache) + 1
    BY <1>5, AddEffect, ZenonT(30)
  <2>2. CASE Lists(t)
    BY <1>5, <2>1, <2>2, SMTT(30) DEF __cache_add, Lists
  <2>3. CASE Refuses(t)
    BY <1>5, <2>1, <2>3, SMTT(30) DEF __cache_add, Refuses
  <2> QED
    BY <2>1, <2>2, <2>3
<1>6. ASSUME __object_put(t)
      PROVE  CountInv'
  <2>1. CASE last(obj[t]) \/ Scheme = "copy"
    BY <1>6, <2>1 DEF __object_put
  <2>2. CASE ~(last(obj[t]) \/ Scheme = "copy")
    BY <1>6, <2>2 DEF __object_put
  <2> QED
    BY <2>1, <2>2
<1>7. ASSUME kfree(t)
      PROVE  CountInv'
  BY <1>7 DEF kfree
<1>8. ASSUME uncount(t)
      PROVE  CountInv'
  BY <1>8 DEF uncount
<1>9. ASSUME put_kfree(t)
      PROVE  CountInv'
  BY <1>9 DEF put_kfree
<1>10. ASSUME NEW r \in Refs, find_get(t, r)
      PROVE  CountInv'
  <2>1. CASE Scheme = "copy"
    BY <1>10, <2>1 DEF find_get
  <2>2. CASE ~(Scheme = "copy")
    BY <1>10, <2>2, SMTT(30) DEF find_get
  <2> QED
    BY <2>1, <2>2
<1>11. ASSUME NEW r \in Refs, object_put(t, r)
      PROVE  CountInv'
  <2>1. CASE last(refs[r])
    BY <1>11, <2>1 DEF object_put
  <2>2. CASE ~(last(refs[r]))
    BY <1>11, <2>2 DEF object_put
  <2> QED
    BY <2>1, <2>2
<1>12. ASSUME NEW r \in Refs, NEW q \in Refs, object_get(t, r, q)
      PROVE  CountInv'
  BY <1>12 DEF object_get
<1> QED
  BY SMTT(30), <1>1, <1>2, <1>3, <1>4, <1>5, <1>6, <1>7, <1>8,
     <1>9, <1>10, <1>11, <1>12 DEF call

-----------------------------------------------------------------------------
(* Who owns an object after each action. *)

(* Who owns an object after BUG_ON. *)
LEMMA Owners_BUG_ON ==
    ASSUME IInv, NEW t \in Threads, NEW i \in Ids, BUG_ON(t, i)
    PROVE  \A p \in Objs : Owners(p)' = Owners(p)
<1>0. TypeOK /\ LockInv /\ ObjInv /\ SoleInv /\ NoUseAfterFree
  BY SMTT(30) DEF IInv, LocalInv
<1> USE <1>0, CacheAssumption DEF TypeOK, Owners
<1>1. Listed' = Listed
  BY DEF BUG_ON, Listed
<1> QED
  BY <1>1 DEF BUG_ON, ObjInv

(* Who owns an object after kfree. *)
LEMMA Owners_kfree ==
    ASSUME IInv, NEW t \in Threads, kfree(t)
    PROVE  \A p \in Objs : Owners(p)' = Owners(p)
<1>0. TypeOK /\ LockInv /\ ObjInv /\ SoleInv /\ NoUseAfterFree
  BY DEF IInv, LocalInv
<1> USE <1>0, CacheAssumption DEF TypeOK, Owners
<1>1. Listed' = Listed
  BY DEF kfree, Listed
<1> QED
  BY <1>1 DEF kfree, ObjInv

(* Who owns an object after uncount. *)
LEMMA Owners_uncount ==
    ASSUME IInv, NEW t \in Threads, uncount(t)
    PROVE  \A p \in Objs : Owners(p)' = Owners(p)
<1>0. TypeOK /\ LockInv /\ ObjInv /\ SoleInv /\ NoUseAfterFree
  BY DEF IInv, LocalInv
<1> USE <1>0, CacheAssumption DEF TypeOK, Owners
<1>1. Listed' = Listed
  BY DEF uncount, Listed
<1> QED
  BY <1>1 DEF uncount, ObjInv

(* Who owns an object after put_kfree. *)
LEMMA Owners_put_kfree ==
    ASSUME IInv, NEW t \in Threads, put_kfree(t)
    PROVE  \A p \in Objs : Owners(p)' = Owners(p)
<1>0. TypeOK /\ LockInv /\ ObjInv /\ SoleInv /\ NoUseAfterFree
  BY DEF IInv, LocalInv
<1> USE <1>0, CacheAssumption DEF TypeOK, Owners
<1>1. Listed' = Listed
  BY SMTT(30) DEF put_kfree, Listed
<1> QED
  BY <1>1 DEF put_kfree, ObjInv

(* Who owns an object after cache_find. *)
LEMMA Owners_cache_find ==
    ASSUME IInv, NEW t \in Threads, NEW i \in Ids, cache_find(t, i)
    PROVE  \A p \in Objs : Owners(p)' = Owners(p)
<1>0. TypeOK /\ LockInv /\ ObjInv /\ SoleInv /\ NoUseAfterFree
  BY DEF IInv, LocalInv
<1> USE <1>0, CacheAssumption DEF TypeOK, Owners
<1>1. PICK o \in Objs : Finds(t, o)
  BY FindEffect
<1>2. Listed' = Listed
  BY DEF cache_find, Listed
<1> QED
  BY <1>1, <1>2, SMTT(30) DEF cache_find, Finds

(* Who owns an object after cache_add. *)
LEMMA Owners_cache_add ==
    ASSUME IInv, NEW t \in Threads, NEW i \in Ids, cache_add(t, i)
    PROVE  \A p \in Objs :
               Owners(p)' = IF p = obj'[t] THEN Owners(p) \cup {t} ELSE Owners(p)
<1>0. TypeOK /\ LockInv /\ ObjInv /\ SoleInv /\ NoUseAfterFree
  BY DEF IInv, LocalInv
<1> USE <1>0, CacheAssumption DEF TypeOK, Owners
<1>1. Listed' = Listed
  BY DEF cache_add, Listed
<1>2. PICK o \in Objs : obj' = [obj EXCEPT ![t] = o]
  BY Zenon DEF cache_add
<1> QED
  BY <1>1, <1>2 DEF cache_add

(* Who owns an object after cache_delete. *)
LEMMA Owners_cache_delete ==
    ASSUME IInv, NEW t \in Threads, NEW i \in Ids, cache_delete(t, i)
    PROVE  \E o \in Objs :
             /\ Finds(t, o) /\ Unlinks(o)
             /\ \A p \in Objs : Owners(p)' =
                  IF p = o THEN (Owners(p) \ {Cache}) \cup {t} ELSE Owners(p)
<1>0. TypeOK /\ LockInv /\ ObjInv /\ SoleInv /\ NoUseAfterFree
  BY DEF IInv, LocalInv
<1> USE <1>0, CacheAssumption DEF TypeOK, Owners
<1>1. PICK o \in Objs : Finds(t, o) /\ Unlinks(o)
  BY DeleteEffect, ZenonT(30)
<1>2. \A p \in Objs : Owners(p)' =
        IF p = o THEN (Owners(p) \ {Cache}) \cup {t} ELSE Owners(p)
  BY <1>1, SMTT(30) DEF cache_delete, Finds, Unlinks
<1> QED
  BY <1>1, <1>2, Zenon

(* Who owns an object after cache_add_locked. *)
LEMMA Owners_cache_add_locked ==
    ASSUME IInv, NEW t \in Threads, __cache_add(t)
    PROVE  \/ /\ Lists(t)
              /\ \A p \in Objs : Owners(p)' =
                   IF p = obj[t] THEN (Owners(p) \ {t}) \cup {Cache} ELSE Owners(p)
           \/ Refuses(t) /\ \A p \in Objs : Owners(p)' = Owners(p)
<1>0. TypeOK /\ LockInv /\ ObjInv /\ SoleInv /\ NoUseAfterFree
  BY DEF IInv, LocalInv
<1> USE <1>0, CacheAssumption DEF TypeOK, Owners
<1>1. /\ Lists(t) \/ Refuses(t)
      /\ obj[t] \in Objs \ Listed
      /\ pc[t] = "add"
  BY AddEffect
<1>2. refs' = refs
  BY DEF __cache_add
<1>3. CASE Lists(t)
  BY <1>1, <1>2, <1>3, SMTT(30) DEF Lists
<1>4. CASE Refuses(t)
  <2>1. Listed' = Listed
    BY <1>4, SMTT(30) DEF Refuses, Listed
  <2> QED
    BY <1>1, <1>2, <1>4, <2>1 DEF Refuses
<1> QED
  BY <1>1, <1>3, <1>4, Zenon

(* Who owns an object after unlinked_put. *)
LEMMA Owners_unlinked_put ==
    ASSUME IInv, NEW t \in Threads, __object_put(t)
    PROVE  \A p \in Objs :
               Owners(p)' = IF p = obj[t] THEN Owners(p) \ {t} ELSE Owners(p)
<1>0. TypeOK /\ LockInv /\ ObjInv /\ SoleInv /\ NoUseAfterFree
  BY DEF IInv, LocalInv
<1> USE <1>0, CacheAssumption DEF TypeOK, Owners
<1>1. Listed' = Listed
  BY DEF __object_put, Listed
<1>2. CASE last(obj[t]) \/ Scheme = "copy"
  BY <1>1, <1>2 DEF __object_put
<1>3. CASE ~(last(obj[t]) \/ Scheme = "copy")
  BY <1>1, <1>3, SMTT(30) DEF __object_put
<1> QED
  BY ONLY <1>2, <1>3, SMTT(30)

(* Who owns an object after object_put. *)
LEMMA Owners_object_put ==
    ASSUME IInv, NEW t \in Threads, NEW r \in Refs, object_put(t, r)
    PROVE  \A p \in Objs :
               Owners(p)' = IF p = refs[r] THEN Owners(p) \ {r} ELSE Owners(p)
<1>0. TypeOK /\ LockInv /\ ObjInv /\ SoleInv /\ NoUseAfterFree
  BY DEF IInv, LocalInv
<1> USE <1>0, CacheAssumption DEF TypeOK, Owners
<1>1. Listed' = Listed
  BY DEF object_put, Listed
<1>2. CASE last(refs[r])
  BY <1>1, <1>2 DEF object_put
<1>3. CASE ~(last(refs[r]))
  BY <1>1, <1>3, SMTT(30) DEF object_put
<1> QED
  BY ONLY <1>2, <1>3, SMTT(30)

(* Who owns an object after find_get. *)
LEMMA Owners_find_get ==
    ASSUME IInv, NEW t \in Threads, NEW r \in Refs, find_get(t, r)
    PROVE  \A p \in Objs :
               Owners(p)' = IF p = obj[t] /\ Scheme # "copy"
                            THEN Owners(p) \cup {r} ELSE Owners(p)
<1>0. TypeOK /\ LockInv /\ ObjInv /\ SoleInv /\ NoUseAfterFree
  BY DEF IInv, LocalInv
<1> USE <1>0, CacheAssumption DEF TypeOK, Owners
<1>1. Listed' = Listed
  BY DEF find_get, Listed
<1>2. CASE Scheme = "copy"
  BY <1>1, <1>2 DEF find_get
<1>3. CASE Scheme # "copy"
  BY <1>1, <1>3, SMTT(30) DEF find_get
<1> QED
  BY ONLY <1>2, <1>3, SMTT(30)

(* Who owns an object after object_get. *)
LEMMA Owners_object_get ==
    ASSUME IInv, NEW t \in Threads, NEW r \in Refs, NEW q \in Refs, object_get(t, r, q)
    PROVE  \A p \in Objs :
               Owners(p)' = IF p = refs[r] THEN Owners(p) \cup {q} ELSE Owners(p)
<1>0. TypeOK /\ LockInv /\ ObjInv /\ SoleInv /\ NoUseAfterFree
  BY DEF IInv, LocalInv
<1> USE <1>0, CacheAssumption DEF TypeOK, Owners
<1>1. Listed' = Listed
  BY DEF object_get, Listed
<1> QED
  BY <1>1 DEF object_get

-----------------------------------------------------------------------------
(* Counting owners. *)

(* What the steps use of the number of elements of a set; it is proved     *)
(* below (CountingHolds).                                                  *)
Counting ==
    /\ \A x : IsFiniteSet({x}) /\ Cardinality({x}) = 1
    /\ \A S : IsFiniteSet(S) =>
          /\ Cardinality(S) \in Nat
          /\ Cardinality(S) = 1 => \E x : S = {x}
          /\ \A T \in SUBSET S : IsFiniteSet(T)
          /\ \A x : /\ IsFiniteSet(S \cup {x}) /\ IsFiniteSet(S \ {x})
                    /\ x \notin S => Cardinality(S \cup {x}) = Cardinality(S) + 1
                    /\ x \in S => Cardinality(S \ {x}) = Cardinality(S) - 1
    /\ \A S, T : IsFiniteSet(S) /\ IsFiniteSet(T) => IsFiniteSet(S \cup T)

(* A set of one element. *)
LEMMA Singleton ==
    ASSUME Counting
    PROVE  /\ \A x : IsFiniteSet({x}) /\ Cardinality({x}) = 1
           /\ \A S : IsFiniteSet(S) /\ Cardinality(S) = 1 => \E x : S = {x}
BY Zenon DEF Counting

(* The number of elements is a number. *)
LEMMA CardinalityType ==
    ASSUME Counting, NEW S, IsFiniteSet(S)
    PROVE  Cardinality(S) \in Nat
BY Zenon DEF Counting

(* A new element counts one more. *)
LEMMA AddElement ==
    ASSUME Counting, NEW S, NEW x, IsFiniteSet(S), x \notin S
    PROVE  IsFiniteSet(S \cup {x}) /\ Cardinality(S \cup {x}) = Cardinality(S) + 1
BY Zenon DEF Counting

(* Without one of its elements a set counts one less. *)
LEMMA RemoveElement ==
    ASSUME Counting, NEW S, NEW x, IsFiniteSet(S), x \in S
    PROVE  IsFiniteSet(S \ {x}) /\ Cardinality(S \ {x}) = Cardinality(S) - 1
BY Zenon DEF Counting

(* There are finitely many owners. *)
LEMMA OwnersFinite ==
    ASSUME Counting, NEW o
    PROVE  IsFiniteSet(Owners(o))
<1> DEFINE R == {r \in Refs : refs[r] = o}
           U == {t \in Threads : obj[t] = o /\ pc[t] \in {"add", "unlinked"}}
           C == IF o \in Listed THEN {Cache} ELSE {}
<1>1. R \subseteq Refs /\ U \subseteq Threads /\ C \subseteq {Cache}
  OBVIOUS
<1>2. IsFiniteSet(Refs) /\ IsFiniteSet(Threads) /\ IsFiniteSet({Cache})
  BY CacheAssumption, Singleton, Zenon
<1>3. Owners(o) = (R \cup U) \cup C
  BY DEF Owners
<1> HIDE DEF R, U, C
<1>4. IsFiniteSet(R) /\ IsFiniteSet(U) /\ IsFiniteSet(C)
  BY <1>1, <1>2, Zenon DEF Counting
<1>5. IsFiniteSet(R \cup U)
  BY <1>4, Zenon DEF Counting
<1>6. IsFiniteSet((R \cup U) \cup C)
  BY <1>4, <1>5, Zenon DEF Counting
<1> QED
  BY <1>3, <1>6

(* A caller whose put brings the count to zero had the only reference, and *)
(* no call of another thread has the object.                               *)
LEMMA LastRef ==
    ASSUME Counting, IInv, NEW r \in Refs, refs[r] # None, last(refs[r])
    PROVE  /\ refs[r] \in allocated /\ refs[r] \in Objs
           /\ Owners(refs[r]) = {r}
           /\ refs[r] \notin Listed
           /\ \A u \in Threads : obj[u] # refs[r]
<1>1. refs[r] \in allocated /\ refs[r] \in Objs
  BY DEF IInv, NoUseAfterFree, TypeOK
<1>2. r \in Owners(refs[r])
  BY DEF Owners
<1>3. Cardinality(Owners(refs[r])) = 1
  BY <1>1 DEF IInv, RefcntExact, last
<1>4. Owners(refs[r]) = {r}
  BY <1>2, <1>3, OwnersFinite, Singleton
<1>5. refs[r] \notin Listed
  BY <1>4, CacheAssumption DEF Owners
<1>6. ASSUME NEW u \in Threads, obj[u] = refs[r]
      PROVE  FALSE
  <2>1. pc[u] \notin {"add", "unlinked"}
    <3> SUFFICES ASSUME pc[u] \in {"add", "unlinked"}
                 PROVE  FALSE
      OBVIOUS
    <3>1. u \in Owners(refs[r])
      BY <1>6, SMTT(30) DEF Owners
    <3> QED
      BY <1>4, <3>1, CacheAssumption
  <2>2. pc[u] # "found"
    BY <1>5, <1>6 DEF IInv, LocalInv, ObjInv
  <2>3. ~Frees(u)
    BY <1>2, <1>6 DEF IInv, FreedOnce
  <2>4. pc[u] \notin {"idle", "uncount", "oops"}
    BY <1>6 DEF IInv, LocalInv, ObjInv
  <2>5. pc[u] \in PC
    BY DEF IInv, TypeOK
  <2> QED
    BY <2>1, <2>2, <2>3, <2>4, <2>5, SMTT(30) DEF PC, Frees
<1> QED
  BY <1>1, <1>4, <1>5, <1>6

(* A thread that frees what it has unlinked had the only reference. *)
LEMMA LastUnlinked ==
    ASSUME Counting, IInv, NEW t \in Threads, pc[t] = "unlinked",
           last(obj[t]) \/ Scheme = "copy"
    PROVE  Owners(obj[t]) = {t}
<1>1. obj[t] \in allocated /\ obj[t] \in Objs
  BY DEF IInv, NoUseAfterFree, TypeOK
<1>2. t \in Owners(obj[t])
  BY DEF Owners
<1>3. CASE last(obj[t])
  <2>1. Cardinality(Owners(obj[t])) = 1
    BY <1>1, <1>3, SMTT(30) DEF IInv, RefcntExact, last
  <2> QED
    BY <1>2, <2>1, OwnersFinite, Singleton
<1>4. CASE Scheme = "copy"
  <2>1. /\ \A r \in Refs : refs[r] # obj[t]
        /\ obj[t] \notin Listed
        /\ \A u \in Threads \ {t} : obj[u] # obj[t]
    BY <1>1, <1>4, CacheAssumption DEF IInv, LocalInv, CopyInv, SoleInv, Sole
  <2> QED
    BY <1>2, <2>1, SMTT(30) DEF Owners
<1> QED
  BY <1>3, <1>4

(***************************************************************************)
(* What the steps keep.                                                    *)
(***************************************************************************)
(* An object outside the list that a thread adds, has unlinked or frees is  *)
(* that thread's alone.                                                     *)
LEMMA StepSole ==
    ASSUME Counting, IInv, NEW t \in Threads, call(t)
    PROVE  SoleInv'
<1>0. Shape /\ LockInv /\ ObjInv /\ SoleInv /\ NoUseAfterFree
  BY ShapeHolds DEF IInv, LocalInv
<1> USE <1>0 DEF Shape, SoleInv, Sole
<1>1. ASSUME NEW i \in Ids, cache_add(t, i)
      PROVE  SoleInv'
  <2>1. PICK o \in Objs \ allocated : obj' = [obj EXCEPT ![t] = o]
    BY <1>1, Zenon DEF cache_add
  <2>2. o \notin Listed /\ Listed' = Listed
    BY <1>1 DEF NoUseAfterFree, cache_add, Listed
  <2>3. \A u \in Threads : obj[u] # o
    BY DEF NoUseAfterFree, ObjInv, PC
  <2> QED
    BY <1>1, <2>1, <2>2, <2>3 DEF cache_add
<1>2. ASSUME NEW i \in Ids, cache_delete(t, i)
      PROVE  SoleInv'
  <2>1. PICK o \in Objs : Finds(t, o) /\ Unlinks(o)
    BY <1>2, DeleteEffect
  <2>2. \A u \in Threads : obj[u] # o
    <3> SUFFICES ASSUME NEW u \in Threads, obj[u] = o
                 PROVE  FALSE
      BY SMTT(30)
    <3>1. o \in Listed /\ o \in Objs /\ cache_lock = None
      BY <1>2, <2>1 DEF cache_delete, Finds
    <3>2. ~Sole(u)
      BY <3>1
    <3>3. pc[u] # "found"
      BY <3>1 DEF LockInv
    <3>4. pc[u] \notin {"idle", "uncount", "oops"}
      BY <3>1 DEF ObjInv
    <3> QED
      BY <3>2, <3>3, <3>4 DEF PC
  <2>3. /\ obj' = [obj EXCEPT ![t] = o]
        /\ pc' = [pc EXCEPT ![t] = "unlinked"]
        /\ Listed' = Listed \ {o}
    BY <1>2, <2>1, Zenon DEF cache_delete, Finds, Unlinks
  <2> QED
    BY <2>2, <2>3
<1>3. ASSUME NEW i \in Ids, BUG_ON(t, i)
      PROVE  SoleInv'
  <2>1. Listed' = Listed
    BY <1>3, SMTT(30) DEF BUG_ON, Listed
  <2> QED
    BY <1>3, <2>1 DEF BUG_ON
<1>4. ASSUME NEW i \in Ids, cache_find(t, i)
      PROVE  SoleInv'
  <2>1. PICK o \in Objs : Finds(t, o)
    BY <1>4, FindEffect, SMTT(30)
  <2>2. Listed' = Listed
    BY <1>4 DEF cache_find, Listed
  <2> QED
    BY <1>4, <2>1, <2>2 DEF cache_find, Finds, LockInv, ObjInv
<1>5. ASSUME __cache_add(t)
      PROVE  SoleInv'
  <2>1. /\ Lists(t) \/ Refuses(t)
        /\ obj[t] \in Objs \ Listed
        /\ pc[t] = "add"
    BY <1>5, AddEffect
  <2>2. CASE Lists(t)
    <3>1. /\ obj' = [obj EXCEPT ![t] = None]
          /\ pc' = [pc EXCEPT ![t] = "idle"]
          /\ Listed' = Listed \cup {obj[t]}
      BY <2>2 DEF Lists
    <3> QED
      BY <2>1, <3>1
  <2>3. CASE Refuses(t)
    <3>1. /\ obj' = obj
          /\ pc' = [pc EXCEPT ![t] = "unlinked"]
          /\ Listed' = Listed
      BY <2>3 DEF Refuses, Listed
    <3> QED
      BY <2>1, <3>1
  <2> QED
    BY ONLY <2>1, <2>2, <2>3
<1>6. ASSUME __object_put(t)
      PROVE  SoleInv'
  <2>1. Listed' = Listed
    BY <1>6 DEF __object_put, Listed
  <2>2. \A u \in Threads \ {t} : pc'[u] = pc[u] /\ obj'[u] = obj[u]
    BY <1>6 DEF __object_put
  <2>3. obj'[t] \in {obj[t], None} /\ (pc'[t] = "uncount" => obj'[t] = None)
    BY <1>6 DEF __object_put
  <2>4. pc[t] = "unlinked" /\ pc'[t] \in {"kfree", "uncount"}
    BY <1>6 DEF __object_put
  <2>5. pc'[t] = "kfree" => obj'[t] = obj[t]
    BY <1>6, SMTT(30) DEF __object_put
  <2>6. CASE pc'[t] = "kfree"
    <3>1. \A u \in Threads : obj'[u] = obj[u]
      BY <2>2, <2>5, <2>6, SMTT(30)
    <3>2. \A u \in Threads : Sole(u)' => Sole(u)
      BY <2>2, <2>4, SMTT(30)
    <3> QED
      BY <2>1, <3>1, <3>2, SMTT(30)
  <2>7. CASE pc'[t] = "uncount"
    <3>1. \A u \in Threads : Sole(u)' => u # t /\ Sole(u)
      BY <2>2, <2>7
    <3> QED
      BY <2>1, <2>2, <2>3, <2>7, <3>1, SMTT(30)
  <2> QED
    BY ONLY <2>4, <2>6, <2>7, SMTT(30)
<1>7. ASSUME kfree(t)
      PROVE  SoleInv'
  <2>1. Listed' = Listed
    BY <1>7 DEF kfree, Listed
  <2> QED
    BY <1>7, <2>1, SMTT(30) DEF kfree
<1>8. ASSUME uncount(t)
      PROVE  SoleInv'
  <2>1. Listed' = Listed
    BY <1>8 DEF uncount, Listed
  <2> QED
    BY <1>8, <2>1 DEF uncount
<1>9. ASSUME put_kfree(t)
      PROVE  SoleInv'
  <2>1. Listed' = Listed
    BY <1>9 DEF put_kfree, Listed
  <2> QED
    BY <1>9, <2>1, SMTT(30) DEF put_kfree
<1>10. ASSUME NEW r \in Refs, find_get(t, r)
      PROVE  SoleInv'
  <2>1. Listed' = Listed
    BY <1>10 DEF find_get, Listed
  <2>2. CASE Scheme = "copy"
    BY <1>10, <2>1, <2>2 DEF find_get
  <2>3. CASE ~(Scheme = "copy")
    BY <1>10, <2>1, <2>3 DEF find_get
  <2> QED
    BY ONLY <2>2, <2>3, SMTT(30)
<1>11. ASSUME NEW r \in Refs, object_put(t, r)
      PROVE  SoleInv'
  <2>1. Listed' = Listed
    BY <1>11 DEF object_put, Listed
  <2>2. CASE last(refs[r])
    <3>1. /\ refs[r] \in Objs \ Listed
          /\ \A u \in Threads : obj[u] # refs[r]
      BY <1>11, <2>2, LastRef DEF object_put
    <3>2. /\ pc' = [pc EXCEPT ![t] = "put_kfree"]
          /\ obj' = [obj EXCEPT ![t] = refs[r]]
      BY <1>11, <2>2 DEF object_put
    <3> QED
      BY <2>1, <3>1, <3>2
  <2>3. CASE ~last(refs[r])
    BY <1>11, <2>1, <2>3 DEF object_put
  <2> QED
    BY ONLY <2>2, <2>3, SMTT(30)
<1>12. ASSUME NEW r \in Refs, NEW q \in Refs, object_get(t, r, q)
      PROVE  SoleInv'
  <2>1. Listed' = Listed
    BY <1>12, ZenonT(30) DEF object_get, Listed
  <2> QED
    BY <1>12, <2>1 DEF object_get
<1> QED
  BY <1>1, <1>2, <1>3, <1>4, <1>5, <1>6, <1>7, <1>8,
     <1>9, <1>10, <1>11, <1>12, Zenon DEF call

(* What is in use has not been freed. *)
LEMMA StepUse ==
    ASSUME IInv, NEW t \in Threads, call(t)
    PROVE  NoUseAfterFree'
<1>0. Shape /\ NoUseAfterFree /\ FreedOnce
  BY ShapeHolds DEF IInv, LocalInv
<1> USE <1>0 DEF Shape, NoUseAfterFree
<1>1. ASSUME NEW i \in Ids, cache_add(t, i)
      PROVE  NoUseAfterFree'
  <2>1. Listed' = Listed
    BY <1>1 DEF cache_add, Listed
  <2> QED
    BY <1>1, <2>1 DEF cache_add
<1>2. ASSUME NEW i \in Ids, cache_delete(t, i)
      PROVE  NoUseAfterFree'
  <2>1. PICK o \in Objs : Finds(t, o) /\ Unlinks(o)
    BY <1>2, DeleteEffect
  <2> QED
    BY <1>2, <2>1 DEF cache_delete, Finds, Unlinks
<1>3. ASSUME NEW i \in Ids, BUG_ON(t, i)
      PROVE  NoUseAfterFree'
  <2>1. Listed' = Listed
    BY <1>3 DEF BUG_ON, Listed
  <2> QED
    BY <1>3, <2>1 DEF BUG_ON
<1>4. ASSUME NEW i \in Ids, cache_find(t, i)
      PROVE  NoUseAfterFree'
  <2>1. PICK o \in Objs : Finds(t, o)
    BY <1>4, FindEffect, ZenonT(30)
  <2>2. Listed' = Listed
    BY <1>4 DEF cache_find, Listed
  <2> QED
    BY <1>4, <2>1, <2>2 DEF cache_find, Finds
<1>5. ASSUME __cache_add(t)
      PROVE  NoUseAfterFree'
  <2>1. /\ Lists(t) \/ Refuses(t)
        /\ pc[t] = "add" /\ obj[t] \in allocated
        /\ refs' = refs /\ allocated' = allocated
    BY <1>5, AddEffect, Zenon DEF __cache_add
  <2>2. CASE Lists(t)
    <3>1. /\ obj' = [obj EXCEPT ![t] = None]
          /\ pc' = [pc EXCEPT ![t] = "idle"]
          /\ Listed' = Listed \cup {obj[t]}
      BY <2>2 DEF Lists
    <3> QED
      BY <2>1, <3>1
  <2>3. CASE Refuses(t)
    <3>1. /\ obj' = obj
          /\ pc' = [pc EXCEPT ![t] = "unlinked"]
          /\ Listed' = Listed
      BY <2>3 DEF Refuses, Listed
    <3> QED
      BY <2>1, <3>1
  <2> QED
    BY ONLY <2>1, <2>2, <2>3
<1>6. ASSUME __object_put(t)
      PROVE  NoUseAfterFree'
  <2>1. Listed' = Listed
    BY <1>6 DEF __object_put, Listed
  <2>2. CASE last(obj[t]) \/ Scheme = "copy"
    BY <1>6, <2>1, <2>2 DEF __object_put
  <2>3. CASE ~(last(obj[t]) \/ Scheme = "copy")
    BY <1>6, <2>1, <2>3 DEF __object_put
  <2> QED
    BY ONLY <2>2, <2>3, SMTT(30)
<1>7. ASSUME kfree(t)
      PROVE  NoUseAfterFree'
  <2>1. Listed' = Listed /\ refs' = refs /\ allocated' = allocated \ {obj[t]}
    BY <1>7 DEF kfree, Listed
  <2>2. /\ \A r \in Refs : refs[r] # obj[t]
        /\ obj[t] \notin Listed
        /\ \A u \in Threads \ {t} : obj[u] # obj[t]
    BY <1>7 DEF kfree, FreedOnce, Frees, Owners
  <2>3. \A u \in Threads \ {t} : pc'[u] = pc[u] /\ obj'[u] = obj[u]
    BY <1>7 DEF kfree
  <2>4. pc'[t] \in {"idle", "uncount"}
    BY <1>7 DEF kfree
  <2> QED
    BY <2>1, <2>2, <2>3, <2>4, Zenon
<1>8. ASSUME uncount(t)
      PROVE  NoUseAfterFree'
  <2>1. Listed' = Listed
    BY <1>8, SMTT(30) DEF uncount, Listed
  <2> QED
    BY <1>8, <2>1 DEF uncount
<1>9. ASSUME put_kfree(t)
      PROVE  NoUseAfterFree'
  <2>1. Listed' = Listed /\ refs' = refs /\ allocated' = allocated \ {obj[t]}
    BY <1>9 DEF put_kfree, Listed
  <2>2. /\ \A r \in Refs : refs[r] # obj[t]
        /\ obj[t] \notin Listed
        /\ \A u \in Threads \ {t} : obj[u] # obj[t]
    BY <1>9 DEF put_kfree, FreedOnce, Frees, Owners
  <2>3. \A u \in Threads \ {t} : pc'[u] = pc[u] /\ obj'[u] = obj[u]
    BY <1>9 DEF put_kfree
  <2>4. pc'[t] \in {"idle", "uncount"}
    BY <1>9 DEF put_kfree
  <2> QED
    BY <2>1, <2>2, <2>3, <2>4, Zenon
<1>10. ASSUME NEW r \in Refs, find_get(t, r)
      PROVE  NoUseAfterFree'
  <2>1. Listed' = Listed
    BY <1>10 DEF find_get, Listed
  <2>2. CASE Scheme = "copy"
    BY <1>10, <2>1, <2>2 DEF find_get
  <2>3. CASE ~(Scheme = "copy")
    BY <1>10, <2>1, <2>3, Zenon DEF find_get
  <2> QED
    BY ONLY <2>2, <2>3, SMTT(30)
<1>11. ASSUME NEW r \in Refs, object_put(t, r)
      PROVE  NoUseAfterFree'
  <2>1. Listed' = Listed
    BY <1>11 DEF object_put, Listed
  <2>2. CASE last(refs[r])
    BY <1>11, <2>1, <2>2, SMTT(30) DEF object_put
  <2>3. CASE ~(last(refs[r]))
    BY <1>11, <2>1, <2>3, SMTT(30) DEF object_put
  <2> QED
    BY ONLY <2>2, <2>3
<1>12. ASSUME NEW r \in Refs, NEW q \in Refs, object_get(t, r, q)
      PROVE  NoUseAfterFree'
  <2>1. Listed' = Listed
    BY <1>12, SMTT(30) DEF object_get, Listed
  <2> QED
    BY <1>12, <2>1, SMTT(30) DEF object_get
<1> QED
  BY <1>1, <1>2, <1>3, <1>4, <1>5, <1>6, <1>7, <1>8,
     <1>9, <1>10, <1>11, <1>12, Zenon DEF call

(* The count stays the number of owners. *)
LEMMA StepRefcnt ==
    ASSUME Counting, IInv, NEW t \in Threads, call(t)
    PROVE  RefcntExact'
<1>0. TypeOK /\ RefcntExact /\ NoUseAfterFree /\ ObjInv /\ SoleInv
  BY DEF IInv, LocalInv
<1> USE <1>0 DEF TypeOK, RefcntExact
<1>1. ASSUME NEW i \in Ids, cache_add(t, i)
      PROVE  RefcntExact'
  <2>1. PICK o \in Objs \ allocated :
               /\ obj' = [obj EXCEPT ![t] = o]
               /\ refcnt' = [refcnt EXCEPT ![o] = 1]
               /\ allocated' = allocated \cup {o}
    BY <1>1, Zenon DEF cache_add
  <2>2. \A p \in Objs : Owners(p)' = IF p = o THEN Owners(p) \cup {t} ELSE Owners(p)
    BY <1>1, <2>1, Owners_cache_add
  <2>3. Owners(o) = {}
    <3>1. o \notin Listed /\ \A r \in Refs : refs[r] # o
      BY CacheAssumption DEF NoUseAfterFree
    <3>2. \A u \in Threads : obj[u] = o => pc[u] \notin {"add", "unlinked"}
      BY DEF NoUseAfterFree
    <3> QED
      BY <3>1, <3>2 DEF Owners
  <2>4. Cardinality({t}) = 1
    BY Singleton, Zenon
  <2>5. Owners(o)' = {t}
    BY <2>2, <2>3
  <2>6. \A p \in allocated : p # o /\ Owners(p)' = Owners(p) /\ refcnt'[p] = refcnt[p]
    BY <2>1, <2>2
  <2>7. refcnt'[o] = 1
    BY <2>1
  <2> QED
    BY <2>1, <2>4, <2>5, <2>6, <2>7, Zenon
<1>2. ASSUME NEW i \in Ids, cache_delete(t, i)
      PROVE  RefcntExact'
  <2> SUFFICES ASSUME NEW p \in allocated
               PROVE  refcnt'[p] = Cardinality(Owners(p)')
    BY <1>2 DEF cache_delete
  <2>1. PICK o \in Objs :
               /\ Finds(t, o)
               /\ \A x \in Objs : Owners(x)' =
                    IF x = o THEN (Owners(x) \ {Cache}) \cup {t} ELSE Owners(x)
    BY <1>2, Owners_cache_delete
  <2>2. refcnt' = refcnt
    BY <1>2, ZenonT(30) DEF cache_delete
  <2>3. Cache \in Owners(o) /\ t \notin Owners(o)
    BY <1>2, <2>1, CacheAssumption DEF cache_delete, Finds, Owners
  <2>4. Cardinality(Owners(o) \ {Cache}) = Cardinality(Owners(o)) - 1
    BY <2>3, OwnersFinite, RemoveElement, Zenon
  <2>5. IsFiniteSet(Owners(o) \ {Cache}) /\ t \notin Owners(o) \ {Cache}
    BY <2>3, OwnersFinite, RemoveElement
  <2>6. Cardinality((Owners(o) \ {Cache}) \cup {t}) = Cardinality(Owners(o) \ {Cache}) + 1
    BY <2>5, AddElement, Zenon
  <2>7. Cardinality(Owners(o)) \in Nat
    BY OwnersFinite, CardinalityType
  <2>8. Cardinality((Owners(o) \ {Cache}) \cup {t}) = Cardinality(Owners(o))
    BY ONLY <2>4, <2>6, <2>7
  <2>9. CASE p = o
    BY <2>1, <2>2, <2>8, <2>9, Zenon
  <2>10. CASE p # o
    BY <2>1, <2>2, <2>10
  <2> QED
    BY ONLY <2>9, <2>10
<1>3. ASSUME NEW i \in Ids, BUG_ON(t, i)
      PROVE  RefcntExact'
  <2>1. \A p \in Objs : Owners(p)' = Owners(p)
    BY <1>3, Owners_BUG_ON
  <2>2. refcnt' = refcnt /\ allocated' \subseteq allocated
    BY <1>3, SMTT(30) DEF BUG_ON
  <2> QED
    BY <2>1, <2>2
<1>4. ASSUME NEW i \in Ids, cache_find(t, i)
      PROVE  RefcntExact'
  <2>1. \A p \in Objs : Owners(p)' = Owners(p)
    BY <1>4, Owners_cache_find
  <2>2. refcnt' = refcnt /\ allocated' \subseteq allocated
    BY <1>4 DEF cache_find
  <2> QED
    BY <2>1, <2>2
<1>5. ASSUME __cache_add(t)
      PROVE  RefcntExact'
  <2> SUFFICES ASSUME NEW p \in allocated
               PROVE  refcnt'[p] = Cardinality(Owners(p)')
    BY <1>5 DEF __cache_add
  <2>1. refcnt' = refcnt /\ obj[t] \in Objs \ Listed /\ pc[t] = "add"
    BY <1>5, AddEffect, Zenon DEF __cache_add
  <2>2. \/ \A x \in Objs : Owners(x)' =
              IF x = obj[t] THEN (Owners(x) \ {t}) \cup {Cache} ELSE Owners(x)
        \/ \A x \in Objs : Owners(x)' = Owners(x)
    BY <1>5, Owners_cache_add_locked, Zenon
  <2> DEFINE o == obj[t]
  <2>3. t \in Owners(o) /\ Cache \notin Owners(o)
    BY <2>1, CacheAssumption DEF Owners
  <2>4. Cardinality(Owners(o) \ {t}) = Cardinality(Owners(o)) - 1
    BY <2>3, OwnersFinite, RemoveElement, Zenon
  <2>5. IsFiniteSet(Owners(o) \ {t}) /\ Cache \notin Owners(o) \ {t}
    BY <2>3, OwnersFinite, RemoveElement
  <2>6. Cardinality((Owners(o) \ {t}) \cup {Cache}) = Cardinality(Owners(o) \ {t}) + 1
    BY <2>5, AddElement, Zenon
  <2>7. Cardinality(Owners(o)) \in Nat
    BY OwnersFinite, CardinalityType
  <2>8. Cardinality((Owners(o) \ {t}) \cup {Cache}) = Cardinality(Owners(o))
    BY ONLY <2>4, <2>6, <2>7
  <2> HIDE DEF o
  <2>9. CASE p = o
    BY <2>1, <2>2, <2>8, <2>9, Zenon DEF o
  <2>10. CASE p # o
    BY <2>1, <2>2, <2>10 DEF o
  <2> QED
    BY ONLY <2>9, <2>10
<1>6. ASSUME __object_put(t)
      PROVE  RefcntExact'
  <2> SUFFICES ASSUME NEW p \in allocated
               PROVE  refcnt'[p] = Cardinality(Owners(p)')
    BY <1>6 DEF __object_put
  <2>1. Owners(p)' = IF p = obj[t] THEN Owners(p) \ {t} ELSE Owners(p)
    BY <1>6, Owners_unlinked_put
  <2>2. refcnt'[p] = IF p = obj[t] THEN refcnt[p] - 1 ELSE refcnt[p]
    BY <1>6 DEF __object_put
  <2>3. p = obj[t] => t \in Owners(p)
    BY <1>6 DEF __object_put, Owners
  <2>4. p = obj[t] => Cardinality(Owners(p) \ {t}) = Cardinality(Owners(p)) - 1
    BY <2>3, OwnersFinite, RemoveElement, Zenon
  <2> QED
    BY <2>1, <2>2, <2>4
<1>7. ASSUME kfree(t)
      PROVE  RefcntExact'
  <2>1. \A p \in Objs : Owners(p)' = Owners(p)
    BY <1>7, Owners_kfree
  <2>2. refcnt' = refcnt /\ allocated' \subseteq allocated
    BY <1>7 DEF kfree
  <2> QED
    BY <2>1, <2>2
<1>8. ASSUME uncount(t)
      PROVE  RefcntExact'
  <2>1. \A p \in Objs : Owners(p)' = Owners(p)
    BY <1>8, Owners_uncount
  <2>2. refcnt' = refcnt /\ allocated' \subseteq allocated
    BY <1>8 DEF uncount
  <2> QED
    BY <2>1, <2>2
<1>9. ASSUME put_kfree(t)
      PROVE  RefcntExact'
  <2>1. \A p \in Objs : Owners(p)' = Owners(p)
    BY <1>9, Owners_put_kfree
  <2>2. refcnt' = refcnt /\ allocated' \subseteq allocated
    BY <1>9 DEF put_kfree
  <2> QED
    BY <2>1, <2>2
<1>10. ASSUME NEW r \in Refs, find_get(t, r)
      PROVE  RefcntExact'
  <2> SUFFICES ASSUME NEW p \in allocated
               PROVE  refcnt'[p] = Cardinality(Owners(p)')
    BY <1>10 DEF find_get
  <2>1. Owners(p)' = IF p = obj[t] /\ Scheme # "copy" THEN Owners(p) \cup {r} ELSE Owners(p)
    BY <1>10, Owners_find_get
  <2>2. refcnt'[p] = IF p = obj[t] /\ Scheme # "copy" THEN refcnt[p] + 1 ELSE refcnt[p]
    BY <1>10 DEF find_get
  <2>3. r \notin Owners(p)
    BY <1>10, CacheAssumption DEF find_get, Owners
  <2>4. Cardinality(Owners(p) \cup {r}) = Cardinality(Owners(p)) + 1
    BY <2>3, OwnersFinite, AddElement, Zenon
  <2> QED
    BY <2>1, <2>2, <2>4
<1>11. ASSUME NEW r \in Refs, object_put(t, r)
      PROVE  RefcntExact'
  <2> SUFFICES ASSUME NEW p \in allocated
               PROVE  refcnt'[p] = Cardinality(Owners(p)')
    BY <1>11 DEF object_put
  <2>1. Owners(p)' = IF p = refs[r] THEN Owners(p) \ {r} ELSE Owners(p)
    BY <1>11, Owners_object_put
  <2>2. refcnt'[p] = IF p = refs[r] THEN refcnt[p] - 1 ELSE refcnt[p]
    BY <1>11 DEF object_put
  <2>3. p = refs[r] => r \in Owners(p)
    BY <1>11 DEF object_put, Owners
  <2>4. p = refs[r] => Cardinality(Owners(p) \ {r}) = Cardinality(Owners(p)) - 1
    BY <2>3, OwnersFinite, RemoveElement, Zenon
  <2> QED
    BY <2>1, <2>2, <2>4
<1>12. ASSUME NEW r \in Refs, NEW q \in Refs, object_get(t, r, q)
      PROVE  RefcntExact'
  <2> SUFFICES ASSUME NEW p \in allocated
               PROVE  refcnt'[p] = Cardinality(Owners(p)')
    BY <1>12 DEF object_get
  <2>1. Owners(p)' = IF p = refs[r] THEN Owners(p) \cup {q} ELSE Owners(p)
    BY <1>12, Owners_object_get
  <2>2. refcnt'[p] = IF p = refs[r] THEN refcnt[p] + 1 ELSE refcnt[p]
    BY <1>12 DEF object_get
  <2>3. q \notin Owners(p)
    BY <1>12, CacheAssumption DEF object_get, Owners
  <2>4. Cardinality(Owners(p) \cup {q}) = Cardinality(Owners(p)) + 1
    BY <2>3, OwnersFinite, AddElement, ZenonT(30)
  <2> QED
    BY <2>1, <2>2, <2>4
<1> QED
  BY SMTT(30), <1>1, <1>2, <1>3, <1>4, <1>5, <1>6, <1>7, <1>8,
     <1>9, <1>10, <1>11, <1>12, SMTT(30) DEF call

(* What is being freed stays without owners. *)
LEMMA StepFreed ==
    ASSUME Counting, IInv, NEW t \in Threads, call(t)
    PROVE  NoOwner'
<1>0. /\ allocated \subseteq Objs /\ refs \in [Refs -> Objs \cup {None}]
      /\ pc \in [Threads -> PC] /\ obj \in [Threads -> Objs \cup {None}]
      /\ SoleInv /\ ObjInv /\ NoOwner /\ NoUseAfterFree
  BY DEF IInv, TypeOK, LocalInv, FreedOnce, NoOwner, Frees
<1> USE <1>0 DEF NoOwner, Frees
<1>1. ASSUME NEW i \in Ids, cache_add(t, i)
      PROVE  NoOwner'
  <2>1. PICK o \in Objs \ allocated : obj' = [obj EXCEPT ![t] = o]
    BY <1>1, Zenon DEF cache_add
  <2>2. \A p \in Objs : Owners(p)' = IF p = o THEN Owners(p) \cup {t} ELSE Owners(p)
    BY <1>1, <2>1, Owners_cache_add
  <2>3. \A u \in Threads : Frees(u)' => u # t /\ Frees(u) /\ obj'[u] = obj[u]
    BY <1>1, <2>1 DEF cache_add
  <2>4. \A u \in Threads : Frees(u) => obj[u] # o
    BY DEF NoUseAfterFree
  <2> QED
    BY <2>2, <2>3, <2>4
<1>2. ASSUME NEW i \in Ids, cache_delete(t, i)
      PROVE  NoOwner'
  <2>1. PICK o \in Objs :
               /\ Finds(t, o)
               /\ \A p \in Objs : Owners(p)' =
                    IF p = o THEN (Owners(p) \ {Cache}) \cup {t} ELSE Owners(p)
    BY <1>2, Owners_cache_delete
  <2>2. \A u \in Threads : Frees(u)' => u # t /\ Frees(u) /\ obj'[u] = obj[u]
    BY <1>2, <2>1 DEF cache_delete, Finds
  <2>3. \A u \in Threads : Frees(u) => obj[u] # o
    BY <2>1, ZenonT(30) DEF SoleInv, Sole, Finds
  <2> QED
    BY <2>1, <2>2, <2>3, Zenon
<1>3. ASSUME NEW i \in Ids, BUG_ON(t, i)
      PROVE  NoOwner'
  <2>1. \A p \in Objs : Owners(p)' = Owners(p)
    BY <1>3, Owners_BUG_ON
  <2>2. \A u \in Threads : Frees(u)' => Frees(u) /\ obj'[u] = obj[u]
    BY <1>3, ZenonT(30) DEF BUG_ON
  <2> QED
    BY <2>1, <2>2
<1>4. ASSUME NEW i \in Ids, cache_find(t, i)
      PROVE  NoOwner'
  <2>1. \A p \in Objs : Owners(p)' = Owners(p)
    BY <1>4, Owners_cache_find
  <2>2. PICK o \in Objs : Finds(t, o)
    BY <1>4, FindEffect
  <2>3. \A u \in Threads : Frees(u)' => Frees(u) /\ obj'[u] = obj[u]
    BY <1>4, <2>2 DEF cache_find, Finds
  <2> QED
    BY <2>1, <2>3
<1>5. ASSUME __cache_add(t)
      PROVE  NoOwner'
  <2>1. pc[t] = "add" /\ obj[t] \in Objs
    BY <1>5, AddEffect
  <2>2. \/ /\ Lists(t)
           /\ \A x \in Objs : Owners(x)' =
                IF x = obj[t] THEN (Owners(x) \ {t}) \cup {Cache} ELSE Owners(x)
        \/ Refuses(t) /\ \A x \in Objs : Owners(x)' = Owners(x)
    BY <1>5, Owners_cache_add_locked
  <2>3. \A u \in Threads : Frees(u)' => u # t /\ Frees(u) /\ obj'[u] = obj[u]
    BY <2>1, <2>2 DEF Lists, Refuses
  <2>4. \A u \in Threads : Frees(u) => obj[u] # obj[t]
    BY <2>1 DEF SoleInv, Sole
  <2> QED
    BY <2>2, <2>3, <2>4, Zenon
<1>6. ASSUME __object_put(t)
      PROVE  NoOwner'
  <2>1. \A p \in Objs : Owners(p)' = IF p = obj[t] THEN Owners(p) \ {t} ELSE Owners(p)
    BY <1>6, Owners_unlinked_put
  <2>2. \A u \in Threads \ {t} : Frees(u)' => Frees(u) /\ obj'[u] = obj[u]
    BY <1>6 DEF __object_put
  <2>3. Frees(t)' => Owners(obj[t]) = {t} /\ obj'[t] = obj[t]
    BY <1>6, LastUnlinked, ZenonT(30) DEF __object_put
  <2> QED
    BY <2>1, <2>2, <2>3
<1>7. ASSUME kfree(t)
      PROVE  NoOwner'
  <2>1. \A p \in Objs : Owners(p)' = Owners(p)
    BY <1>7, Owners_kfree
  <2>2. \A u \in Threads : Frees(u)' => Frees(u) /\ obj'[u] = obj[u]
    BY <1>7 DEF kfree
  <2> QED
    BY <2>1, <2>2
<1>8. ASSUME uncount(t)
      PROVE  NoOwner'
  <2>1. \A p \in Objs : Owners(p)' = Owners(p)
    BY <1>8, Owners_uncount
  <2>2. \A u \in Threads : Frees(u)' => Frees(u) /\ obj'[u] = obj[u]
    BY <1>8 DEF uncount
  <2> QED
    BY <2>1, <2>2
<1>9. ASSUME put_kfree(t)
      PROVE  NoOwner'
  <2>1. \A p \in Objs : Owners(p)' = Owners(p)
    BY <1>9, Owners_put_kfree
  <2>2. \A u \in Threads : Frees(u)' => Frees(u) /\ obj'[u] = obj[u]
    BY <1>9, ZenonT(30) DEF put_kfree
  <2> QED
    BY <2>1, <2>2
<1>10. ASSUME NEW r \in Refs, find_get(t, r)
      PROVE  NoOwner'
  <2>1. \A p \in Objs : Owners(p)' = IF p = obj[t] /\ Scheme # "copy"
                                   THEN Owners(p) \cup {r} ELSE Owners(p)
    BY <1>10, Owners_find_get
  <2>2. \A u \in Threads : Frees(u)' => u # t /\ Frees(u) /\ obj'[u] = obj[u]
    BY <1>10, ZenonT(30) DEF find_get
  <2>3. obj[t] \in Listed
    BY <1>10 DEF find_get, ObjInv
  <2>4. \A u \in Threads : Frees(u) => obj[u] # obj[t]
    BY <2>3, ZenonT(30) DEF SoleInv, Sole
  <2> QED
    BY <2>1, <2>2, <2>4
<1>11. ASSUME NEW r \in Refs, object_put(t, r)
      PROVE  NoOwner'
  <2>1. \A p \in Objs : Owners(p)' = IF p = refs[r] THEN Owners(p) \ {r} ELSE Owners(p)
    BY <1>11, Owners_object_put
  <2>2. \A u \in Threads \ {t} : Frees(u)' => Frees(u) /\ obj'[u] = obj[u]
    BY <1>11 DEF object_put
  <2>3. Frees(t)' => Owners(refs[r]) = {r} /\ obj'[t] = refs[r]
    BY <1>11, LastRef, SMTT(30) DEF object_put
  <2> QED
    BY <2>1, <2>2, <2>3
<1>12. ASSUME NEW r \in Refs, NEW q \in Refs, object_get(t, r, q)
      PROVE  NoOwner'
  <2>1. \A p \in Objs : Owners(p)' = IF p = refs[r] THEN Owners(p) \cup {q} ELSE Owners(p)
    BY <1>12, Owners_object_get
  <2>2. \A u \in Threads : Frees(u)' => Frees(u) /\ obj'[u] = obj[u]
    BY <1>12 DEF object_get
  <2>3. r \in Owners(refs[r])
    BY ZenonT(30) DEF Owners
  <2> QED
    BY <2>1, <2>2, <2>3, ZenonT(30)
<1> QED
  BY <1>1, <1>2, <1>3, <1>4, <1>5, <1>6, <1>7, <1>8,
     <1>9, <1>10, <1>11, <1>12, Zenon DEF call

(* The objects keep an owner, and the threads that free them go on. *)
LEMMA LeakFrame ==
    ASSUME NoLeak, allocated \subseteq Objs, NEW t \in Threads,
           \/ /\ allocated' = allocated
              /\ \A u \in Threads : Frees(u) => Frees(u)' /\ obj'[u] = obj[u]
           \/ /\ allocated' = allocated \ {obj[t]}
              /\ \A u \in Threads \ {t} : Frees(u) => Frees(u)' /\ obj'[u] = obj[u],
           \A p \in Objs : Owners(p) # {} => Owners(p)' # {}
    PROVE  NoLeak'
<1> SUFFICES ASSUME NEW p \in allocated'
             PROVE  Owners(p)' # {} \/ \E u \in Threads : obj'[u] = p /\ Frees(u)'
  BY ZenonT(30) DEF NoLeak
<1>1. p \in allocated /\ p \in Objs
  BY ZenonT(30)
<1>2. Owners(p) # {} \/ \E u \in Threads : obj[u] = p /\ Frees(u)
  BY <1>1 DEF NoLeak
<1> QED
  BY <1>1, <1>2, ZenonT(30)

(* What loses its last owner is being freed. *)
LEMMA StepLeak ==
    ASSUME Counting, IInv, NEW t \in Threads, call(t)
    PROVE  NoLeak'
<1>0. /\ allocated \subseteq Objs /\ refs \in [Refs -> Objs \cup {None}]
      /\ pc \in [Threads -> PC] /\ obj \in [Threads -> Objs \cup {None}]
      /\ RefcntExact /\ NoLeak /\ t \in Threads
  BY DEF IInv, TypeOK
<1> USE <1>0
<1>1. ASSUME NEW i \in Ids, cache_add(t, i)
      PROVE  NoLeak'
  <2>1. PICK o \in Objs \ allocated :
               obj' = [obj EXCEPT ![t] = o] /\ allocated' = allocated \cup {o}
    BY <1>1, Zenon DEF cache_add
  <2>2. \A p \in Objs : Owners(p)' = IF p = o THEN Owners(p) \cup {t} ELSE Owners(p)
    BY <1>1, <2>1, Owners_cache_add
  <2>3. Owners(o)' # {} /\ \A p \in Objs : Owners(p) # {} => Owners(p)' # {}
    BY ONLY <2>2, o \in Objs
  <2>4. \A u \in Threads : Frees(u) => Frees(u)' /\ obj'[u] = obj[u]
    BY <1>1, <2>1 DEF cache_add, Frees
  <2> SUFFICES ASSUME NEW p \in allocated'
               PROVE  Owners(p)' # {} \/ \E u \in Threads : obj'[u] = p /\ Frees(u)'
    BY DEF NoLeak
  <2>5. CASE p = o
    BY ONLY <2>3, <2>5
  <2>6. CASE p \in allocated
    <3>1. Owners(p) # {} \/ \E u \in Threads : obj[u] = p /\ Frees(u)
      BY ONLY <1>0, <2>6 DEF NoLeak
    <3> QED
      BY ONLY <1>0, <2>3, <2>4, <2>6, <3>1
  <2> QED
    BY ONLY <2>1, <2>5, <2>6, p \in allocated'
<1>2. ASSUME NEW i \in Ids, cache_delete(t, i)
      PROVE  NoLeak'
  <2>0. PICK o \in Objs :
               /\ Finds(t, o)
               /\ \A p \in Objs : Owners(p)' =
                    IF p = o THEN (Owners(p) \ {Cache}) \cup {t} ELSE Owners(p)
    BY <1>2, Owners_cache_delete
  <2>1. \A p \in Objs : Owners(p) # {} => Owners(p)' # {}
    BY <2>0
  <2>2. /\ allocated' = allocated
        /\ \A u \in Threads : Frees(u) => Frees(u)' /\ obj'[u] = obj[u]
    BY <1>2, <2>0 DEF cache_delete, Finds, Frees
  <2> QED
    BY ONLY <1>0, <2>1, <2>2, LeakFrame
<1>3. ASSUME NEW i \in Ids, BUG_ON(t, i)
      PROVE  NoLeak'
  <2>1. \A p \in Objs : Owners(p) # {} => Owners(p)' # {}
    BY <1>3, Owners_BUG_ON
  <2>2. /\ allocated' = allocated
        /\ \A u \in Threads : Frees(u) => Frees(u)' /\ obj'[u] = obj[u]
    BY <1>3 DEF BUG_ON, Frees
  <2> QED
    BY ONLY <1>0, <2>1, <2>2, LeakFrame
<1>4. ASSUME NEW i \in Ids, cache_find(t, i)
      PROVE  NoLeak'
  <2>0. PICK o \in Objs : Finds(t, o)
    BY <1>4, FindEffect
  <2>1. \A p \in Objs : Owners(p) # {} => Owners(p)' # {}
    BY <1>4, Owners_cache_find
  <2>2. /\ allocated' = allocated
        /\ \A u \in Threads : Frees(u) => Frees(u)' /\ obj'[u] = obj[u]
    BY <1>4, <2>0 DEF cache_find, Finds, Frees
  <2> QED
    BY ONLY <1>0, <2>1, <2>2, LeakFrame
<1>5. ASSUME __cache_add(t)
      PROVE  NoLeak'
  <2>0. \/ /\ Lists(t)
           /\ \A x \in Objs : Owners(x)' =
                IF x = obj[t] THEN (Owners(x) \ {t}) \cup {Cache} ELSE Owners(x)
        \/ Refuses(t) /\ \A x \in Objs : Owners(x)' = Owners(x)
    BY <1>5, Owners_cache_add_locked
  <2>1. \A p \in Objs : Owners(p) # {} => Owners(p)' # {}
    BY <2>0, ZenonT(30)
  <2>2. /\ allocated' = allocated
        /\ \A u \in Threads : Frees(u) => Frees(u)' /\ obj'[u] = obj[u]
    <3>1. Lists(t) \/ Refuses(t)
      BY <2>0, ZenonT(30)
    <3>2. pc[t] = "add" /\ allocated' = allocated
      BY <1>5, ZenonT(30) DEF __cache_add
    <3>3. \A u \in Threads \ {t} : pc'[u] = pc[u] /\ obj'[u] = obj[u]
      BY <3>1 DEF Lists, Refuses
    <3> QED
      BY <3>2, <3>3 DEF Frees
  <2> QED
    BY ONLY <1>0, <2>1, <2>2, LeakFrame
<1>6. ASSUME __object_put(t)
      PROVE  NoLeak'
  <2> SUFFICES ASSUME NEW p \in allocated
               PROVE  Owners(p)' # {} \/ \E u \in Threads : obj'[u] = p /\ Frees(u)'
    BY <1>6 DEF __object_put, NoLeak
  <2>1. Owners(p)' = IF p = obj[t] THEN Owners(p) \ {t} ELSE Owners(p)
    BY <1>6, Owners_unlinked_put
  <2>2. \A u \in Threads : Frees(u) => Frees(u)' /\ obj'[u] = obj[u]
    BY <1>6, ZenonT(30) DEF __object_put, Frees
  <2>3. CASE p # obj[t]
    <3>1. Owners(p) # {} \/ \E u \in Threads : obj[u] = p /\ Frees(u)
      BY ONLY <1>0, p \in allocated DEF NoLeak
    <3> QED
      BY ONLY <2>1, <2>2, <2>3, <3>1
  <2>4. CASE p = obj[t] /\ last(p)
    <3>1. obj'[t] = p /\ Frees(t)'
      BY <1>6, <2>4 DEF __object_put, Frees
    <3> QED
      BY ONLY <3>1, t \in Threads
  <2>5. CASE p = obj[t] /\ ~last(p)
    <3>1. Cardinality(Owners(p)) # 1 /\ t \in Owners(p)
      BY <1>6, <2>5, SMTT(30) DEF __object_put, RefcntExact, last, Owners
    <3>2. Owners(p) # {t}
      BY <3>1, Singleton, Zenon
    <3> QED
      BY ONLY <2>1, <2>5, <3>1, <3>2, SMTT(30)
  <2> QED
    BY ONLY <2>3, <2>4, <2>5, Zenon
<1>7. ASSUME kfree(t)
      PROVE  NoLeak'
  <2>1. \A p \in Objs : Owners(p) # {} => Owners(p)' # {}
    BY <1>7, Owners_kfree
  <2>2. /\ allocated' = allocated \ {obj[t]}
        /\ \A u \in Threads \ {t} : Frees(u) => Frees(u)' /\ obj'[u] = obj[u]
    BY <1>7, SMTT(30) DEF kfree, Frees
  <2> QED
    BY ONLY <1>0, <2>1, <2>2, LeakFrame
<1>8. ASSUME uncount(t)
      PROVE  NoLeak'
  <2>1. \A p \in Objs : Owners(p) # {} => Owners(p)' # {}
    BY <1>8, Owners_uncount
  <2>2. /\ allocated' = allocated
        /\ \A u \in Threads : Frees(u) => Frees(u)' /\ obj'[u] = obj[u]
    BY <1>8, SMTT(30) DEF uncount, Frees
  <2> QED
    BY ONLY <1>0, <2>1, <2>2, LeakFrame
<1>9. ASSUME put_kfree(t)
      PROVE  NoLeak'
  <2>1. \A p \in Objs : Owners(p) # {} => Owners(p)' # {}
    BY <1>9, Owners_put_kfree
  <2>2. /\ allocated' = allocated \ {obj[t]}
        /\ \A u \in Threads \ {t} : Frees(u) => Frees(u)' /\ obj'[u] = obj[u]
    BY <1>9 DEF put_kfree, Frees
  <2> QED
    BY ONLY <1>0, <2>1, <2>2, LeakFrame
<1>10. ASSUME NEW r \in Refs, find_get(t, r)
      PROVE  NoLeak'
  <2>1. \A p \in Objs : Owners(p) # {} => Owners(p)' # {}
    BY <1>10, Owners_find_get
  <2>2. /\ allocated' = allocated
        /\ \A u \in Threads : Frees(u) => Frees(u)' /\ obj'[u] = obj[u]
    BY <1>10, SMTT(30) DEF find_get, Frees
  <2> QED
    BY ONLY <1>0, <2>1, <2>2, LeakFrame
<1>11. ASSUME NEW r \in Refs, object_put(t, r)
      PROVE  NoLeak'
  <2> SUFFICES ASSUME NEW p \in allocated
               PROVE  Owners(p)' # {} \/ \E u \in Threads : obj'[u] = p /\ Frees(u)'
    BY <1>11 DEF object_put, NoLeak
  <2>1. Owners(p)' = IF p = refs[r] THEN Owners(p) \ {r} ELSE Owners(p)
    BY <1>11, Owners_object_put
  <2>2. \A u \in Threads : Frees(u) => Frees(u)' /\ obj'[u] = obj[u]
    BY <1>11, ZenonT(30) DEF object_put, Frees
  <2>3. CASE p # refs[r]
    <3>1. Owners(p) # {} \/ \E u \in Threads : obj[u] = p /\ Frees(u)
      BY ONLY <1>0, p \in allocated DEF NoLeak
    <3> QED
      BY ONLY <2>1, <2>2, <2>3, <3>1
  <2>4. CASE p = refs[r] /\ last(p)
    <3>1. obj'[t] = p /\ Frees(t)'
      BY <1>11, <2>4 DEF object_put, Frees
    <3> QED
      BY ONLY <3>1, t \in Threads
  <2>5. CASE p = refs[r] /\ ~last(p)
    <3>1. Cardinality(Owners(p)) # 1 /\ r \in Owners(p)
      BY <1>11, <2>5, Zenon DEF object_put, RefcntExact, last, Owners
    <3>2. Owners(p) # {r}
      BY <3>1, Singleton, Zenon
    <3> QED
      BY ONLY <2>1, <2>5, <3>1, <3>2
  <2> QED
    BY ONLY <2>3, <2>4, <2>5, SMTT(30)
<1>12. ASSUME NEW r \in Refs, NEW q \in Refs, object_get(t, r, q)
      PROVE  NoLeak'
  <2>1. \A p \in Objs : Owners(p) # {} => Owners(p)' # {}
    BY <1>12, Owners_object_get
  <2>2. /\ allocated' = allocated
        /\ \A u \in Threads : Frees(u) => Frees(u)' /\ obj'[u] = obj[u]
    BY <1>12 DEF object_get, Frees
  <2> QED
    BY ONLY <1>0, <2>1, <2>2, LeakFrame
<1> QED
  BY ZenonT(40), <1>1, <1>2, <1>3, <1>4, <1>5, <1>6, <1>7, <1>8,
     <1>9, <1>10, <1>11, <1>12, Zenon DEF call

-----------------------------------------------------------------------------
(* Nothing changes when no variable does. *)
LEMMA Unchanged ==
    ASSUME IInv, UNCHANGED vars
    PROVE  IInv'
<1> USE DEF IInv, vars
<1>1. TypeOK'
  BY DEF TypeOK
<1>2. LocalInv'
  <2> USE DEF LocalInv
  <2>1. LockInv' /\ CopyInv'
    BY DEF LockInv, CopyInv
  <2>2. ObjInv'
    BY DEF ObjInv, Listed
  <2>3. SoleInv'
    BY DEF SoleInv, Sole, Listed
  <2>4. ListInv'
    BY DEF ListInv
  <2> QED
    BY <2>1, <2>2, <2>3, <2>4
<1>3. CountInv'
  BY DEF CountInv
<1>4. RefcntExact'
  <2>1. ASSUME NEW p \in allocated
        PROVE  Owners(p)' = Owners(p)
    BY Zenon DEF Owners, Listed
  <2> QED
    BY <2>1 DEF RefcntExact
<1>5. NoUseAfterFree'
  BY SMTT(30) DEF NoUseAfterFree, Listed
<1>6. FreedOnce'
  BY ZenonT(30) DEF FreedOnce, Owners, Listed, Frees
<1>7. NoLeak'
  BY DEF NoLeak, Owners, Listed, Frees
<1> QED
  BY <1>1, <1>2, <1>3, <1>4, <1>5, <1>6, <1>7, SMTT(30)

(* The invariant holds initially. *)
LEMMA Initially == Init => IInv
<1> SUFFICES ASSUME Init
             PROVE  IInv
  OBVIOUS
<1> USE CacheAssumption DEF Init
<1>1. Listed = {}
  BY DEF Listed
<1>2. TypeOK
  BY DEF TypeOK, PC
<1>3. LocalInv
  BY DEF LocalInv, LockInv, ObjInv, SoleInv, Sole, ListInv, CopyInv
<1>4. CountInv
  BY DEF CountInv
<1>5. RefcntExact /\ NoLeak
  BY DEF RefcntExact, NoLeak
<1>6. NoUseAfterFree
  BY <1>1 DEF NoUseAfterFree
<1>7. FreedOnce
  BY DEF FreedOnce, Frees
<1> QED
  BY ONLY <1>2, <1>3, <1>4, <1>5, <1>6, <1>7 DEF IInv

(* The invariant is kept by every step of every call. *)
LEMMA Kept == Counting /\ IInv /\ [Next]_vars => IInv'
<1>1. ASSUME Counting, IInv, NEW t \in Threads, call(t)
      PROVE  IInv'
  <2>1. TypeOK' /\ LockInv' /\ ObjInv' /\ SoleInv' /\ ListInv' /\ CopyInv'
    BY <1>1, StepTypeOK, StepLock, StepObj, StepSole, StepList, StepCopy
  <2>2. CountInv' /\ RefcntExact' /\ NoUseAfterFree' /\ NoOwner' /\ NoLeak'
    BY <1>1, StepCount, StepRefcnt, StepUse, StepFreed, StepLeak, SMTT(30)
  <2>3. FreedOnce'
    BY <2>1, <2>2 DEF NoOwner, SoleInv, Sole, FreedOnce, Frees, Owners
  <2> QED
    BY <2>1, <2>2, <2>3 DEF IInv, LocalInv
<1>2. ASSUME IInv, UNCHANGED vars
      PROVE  IInv'
  BY <1>2, Unchanged
<1> QED
  BY <1>1, <1>2 DEF Next

-----------------------------------------------------------------------------
(* The theorems on finite sets are taken in here, behind the steps: the    *)
(* proofs above are about Counting alone.                                  *)
F == INSTANCE FiniteSetTheorems

(* Counting is what the theorems say. *)
LEMMA CountingHolds == Counting
<1>1. \A S : Cardinality(S) = F!Cardinality(S)
  BY Zenon DEF Cardinality, F!Cardinality
<1>2. \A S : IsFiniteSet(S) <=> F!IsFiniteSet(S)
  BY Zenon DEF IsFiniteSet, F!IsFiniteSet
<1>3. \A x : IsFiniteSet({x}) /\ Cardinality({x}) = 1
  BY <1>1, <1>2, F!FS_Singleton, Zenon
<1>4. ASSUME NEW S, IsFiniteSet(S)
      PROVE  /\ Cardinality(S) \in Nat
             /\ Cardinality(S) = 1 => \E x : S = {x}
             /\ \A T \in SUBSET S : IsFiniteSet(T)
             /\ \A x : /\ IsFiniteSet(S \cup {x}) /\ IsFiniteSet(S \ {x})
                       /\ x \notin S => Cardinality(S \cup {x}) = Cardinality(S) + 1
                       /\ x \in S => Cardinality(S \ {x}) = Cardinality(S) - 1
  <2>1. F!IsFiniteSet(S)
    BY <1>2, <1>4, Zenon
  <2>2. Cardinality(S) \in Nat /\ (Cardinality(S) = 1 => \E x : S = {x})
    BY <1>1, <2>1, F!FS_CardinalityType, F!FS_Singleton, Zenon
  <2>3. \A T \in SUBSET S : IsFiniteSet(T)
    BY <1>2, <2>1, F!FS_Subset, Zenon
  <2>4. \A x : IsFiniteSet(S \cup {x}) /\ (x \notin S => Cardinality(S \cup {x}) = Cardinality(S) + 1)
    BY <1>1, <1>2, <2>1, F!FS_AddElement
  <2>5. \A x : IsFiniteSet(S \ {x}) /\ (x \in S => Cardinality(S \ {x}) = Cardinality(S) - 1)
    BY <1>1, <1>2, <2>1, F!FS_RemoveElement
  <2> QED
    BY <2>2, <2>3, <2>4, <2>5, Zenon
<1>5. \A S, T : IsFiniteSet(S) /\ IsFiniteSet(T) => IsFiniteSet(S \cup T)
  BY <1>2, F!FS_Union, Zenon
<1> QED
  BY <1>3, <1>4, <1>5, Zenon DEF Counting

(* The invariant holds of every reachable state. *)
THEOREM InductiveInvariant == Spec => []IInv
<1>1. IInv /\ [Next]_vars => IInv'
  BY CountingHolds, Kept, Zenon
<1> QED
  BY <1>1, Initially, PTL DEF Spec

(* Every variable keeps its type. *)
THEOREM TypeCorrect == Spec => []TypeOK
<1>1. IInv => TypeOK
  BY DEF IInv
<1> QED
  BY <1>1, InductiveInvariant, PTL

(* The count of an object is the number of references to it, in all three  *)
(* schemes: in sample_refcnt_atomic.c too, where counts change without     *)
(* the lock.                                                               *)
THEOREM RefcntExactHolds == Spec => []RefcntExact
<1>1. IInv => RefcntExact
  BY DEF IInv
<1> QED
  BY <1>1, InductiveInvariant, PTL

(* No thread ever works with an object that has been freed. *)
THEOREM NoUseAfterFreeHolds == Spec => []NoUseAfterFree
<1>1. IInv => NoUseAfterFree
  BY DEF IInv
<1> QED
  BY <1>1, InductiveInvariant, PTL

(* An object is freed by one thread, when nobody has it any more. *)
THEOREM FreedOnceHolds == Spec => []FreedOnce
<1>1. IInv => FreedOnce
  BY DEF IInv
<1> QED
  BY <1>1, InductiveInvariant, PTL

(* No object is lost: it has an owner or is being freed. *)
THEOREM NoLeakHolds == Spec => []NoLeak
<1>1. IInv => NoLeak
  BY DEF IInv
<1> QED
  BY <1>1, InductiveInvariant, PTL

(* When the lock is free, cache_num is the length of the list and within   *)
(* its limit.                                                              *)
THEOREM CountUnderLockHolds == Spec => []CountUnderLock
<1>1. IInv => CountUnderLock
  <2> SUFFICES ASSUME IInv, cache_lock = None
               PROVE  cache_num = Len(cache) /\ cache_num <= MAX_CACHE_SIZE
    BY DEF CountUnderLock
  <2>1. \A t \in Threads : pc[t] \notin {"unlinked", "kfree", "uncount"}
    BY CacheAssumption DEF IInv, LocalInv, LockInv
  <2> QED
    BY <2>1 DEF IInv, CountInv
<1> QED
  BY <1>1, InductiveInvariant, PTL

(* Adding to a full cache leaves the list as it was. *)
THEOREM FullCacheFrozenHolds == Spec => FullCacheFrozen
<1>1. IInv /\ [Next]_vars =>
        [(cache_lock = None /\ Len(cache) = MAX_CACHE_SIZE
          /\ \E t \in Threads : __cache_add(t)) => cache' = cache]_vars
  <2> SUFFICES ASSUME IInv, Len(cache) = MAX_CACHE_SIZE,
                      NEW t \in Threads, __cache_add(t)
               PROVE  cache' = cache
    OBVIOUS
  <2>1. Lists(t) \/ Refuses(t)
    BY AddEffect
  <2>2. ~(Len(cache) < MAX_CACHE_SIZE)
    BY CacheAssumption
  <2> QED
    BY <2>1, <2>2 DEF Lists, Refuses
<1> QED
  BY <1>1, InductiveInvariant, PTL DEF Spec, FullCacheFrozen
=============================================================================
