------------------------ MODULE ListAndRangeProofs ------------------------
(***************************************************************************)
(* Proofs about List.  That the links agree is not inductive: a walk that  *)
(* takes its entry off must know that the next one is on the same list,    *)
(* and that a list is not a ring without its head.  Ring adds a head to    *)
(* every entry, own, and a number that grows along the list, rank.         *)
(*                                                                         *)
(* Proofs about RangeDownload: the one file that the threads of            *)
(* multithreaddownload.c write to, for any number of threads and any       *)
(* length that an unsigned long can hold.                                  *)
(***************************************************************************)
EXTENDS List, RangeDownload, TLAPS

(* What Ring says of one structure of the set L = H \cup E. *)
RingAt(s, H, E, own, rank, x) ==
    /\ s.next[x] \in H \cup E /\ s.prev[x] \in H \cup E
    /\ s.prev[s.next[x]] = x /\ s.next[s.prev[x]] = x
    /\ own[x] \in H /\ own[s.next[x]] = own[x]
    /\ s.next[x] \in E => rank[x] < rank[s.next[x]]

RingType(s, H, E, own, rank) ==
    /\ s \in Links /\ H \subseteq Nodes /\ E \subseteq Nodes /\ H \cap E = {}
    /\ own \in [Nodes -> Nodes] /\ rank \in [Nodes -> Nat]
    /\ \A h \in H : own[h] = h /\ rank[h] = 0

Ring(s, H, E, own, rank) ==
    /\ RingType(s, H, E, own, rank)
    /\ \A x \in H \cup E : RingAt(s, H, E, own, rank, x)

Ranked ==
    \E own \in [Nodes -> Nodes], rank \in [Nodes -> Nat] :
        /\ Ring(m, heads, entries, own, rank)
        /\ walk # NULL => own[walk.pos] = walk.head

IInv == TypeOK /\ WalkLinked /\ Ranked

-----------------------------------------------------------------------------
(* What __list_add writes. *)
LEMMA AddWrites ==
    ASSUME NEW s \in Links, NEW e \in Nodes, NEW p \in Nodes, NEW n \in Nodes, e # p, e # n
    PROVE  /\ __list_add(s, e, p, n) \in Links
           /\ __list_add(s, e, p, n).next = [s.next EXCEPT ![e] = n, ![p] = e]
           /\ __list_add(s, e, p, n).prev = [s.prev EXCEPT ![n] = e, ![e] = p]
BY Zenon DEF __list_add, Links, Ptr

(* What __list_del and list_del write. *)
LEMMA DelWrites ==
    ASSUME NEW s \in Links, NEW p \in Nodes, NEW n \in Nodes
    PROVE  /\ __list_del(s, p, n) \in Links
           /\ __list_del(s, p, n).next = [s.next EXCEPT ![p] = n]
           /\ __list_del(s, p, n).prev = [s.prev EXCEPT ![n] = p]
BY Zenon DEF __list_del, Links, Ptr

(* list_del closes the gap and clears both links of the entry. *)
LEMMA ListDelWrites ==
    ASSUME NEW s \in Links, NEW e \in Nodes, s.prev[e] \in Nodes, s.next[e] \in Nodes
    PROVE  /\ list_del(s, e) \in Links
           /\ list_del(s, e).next = [s.next EXCEPT ![s.prev[e]] = s.next[e], ![e] = NULL]
           /\ list_del(s, e).prev = [s.prev EXCEPT ![s.next[e]] = s.prev[e], ![e] = NULL]
<1> DEFINE s1 == __list_del(s, s.prev[e], s.next[e])
<1>1. /\ s1 \in Links
      /\ s1.next = [s.next EXCEPT ![s.prev[e]] = s.next[e]]
      /\ s1.prev = [s.prev EXCEPT ![s.next[e]] = s.prev[e]]
  BY DelWrites
<1>2. list_del(s, e) = [s1 EXCEPT !.next[e] = NULL, !.prev[e] = NULL]
  BY DEF list_del
<1> HIDE DEF s1
<1>3. PICK f \in [Nodes -> Ptr], g \in [Nodes -> Ptr] : s1 = [next |-> f, prev |-> g]
  BY <1>1 DEF Links
<1>4. list_del(s, e) = [next |-> [f EXCEPT ![e] = NULL], prev |-> [g EXCEPT ![e] = NULL]]
  BY <1>2, <1>3, Zenon
<1>5. list_del(s, e) \in Links
  BY <1>4 DEF Links, Ptr
<1>6. f = s1.next /\ g = s1.prev
  BY <1>3
<1>7. QED  BY <1>1, <1>4, <1>5, <1>6, SMTT(30)

(* What list_replace writes, for a structure with neighbours and for one   *)
(* that is alone: then the new one is alone.                               *)
LEMMA ReplaceWrites ==
    ASSUME NEW s \in Links, NEW old \in Nodes, NEW x \in Nodes, x # old,
           s.prev[old] \in Nodes, s.next[old] \in Nodes, s.prev[old] # x, s.next[old] # x,
           s.next[old] # old, s.prev[old] # old
    PROVE  /\ list_replace(s, old, x) \in Links
           /\ list_replace(s, old, x).next = [s.next EXCEPT ![x] = s.next[old], ![s.prev[old]] = x]
           /\ list_replace(s, old, x).prev = [s.prev EXCEPT ![x] = s.prev[old], ![s.next[old]] = x]
BY Zenon DEF list_replace, Links, Ptr

(* list_replace of a structure that is linked to itself. *)
LEMMA ReplaceAloneWrites ==
    ASSUME NEW s \in Links, NEW old \in Nodes, NEW x \in Nodes, x # old,
           s.prev[old] = old, s.next[old] = old
    PROVE  /\ list_replace(s, old, x) \in Links
           /\ list_replace(s, old, x).next = [s.next EXCEPT ![x] = x]
           /\ list_replace(s, old, x).prev = [s.prev EXCEPT ![x] = x, ![old] = x]
BY DEF list_replace, Links, Ptr

-----------------------------------------------------------------------------
(* INIT_LIST_HEAD makes a ring of its own. *)
LEMMA NewHeadRing ==
    ASSUME NEW s, NEW H, NEW E, NEW own, NEW rank, Ring(s, H, E, own, rank),
           NEW x \in Nodes, x \notin H \cup E
    PROVE  Ring(INIT_LIST_HEAD(s, x), H \cup {x}, E, [own EXCEPT ![x] = x], [rank EXCEPT ![x] = 0])
<1> DEFINE r == INIT_LIST_HEAD(s, x)
           o == [own EXCEPT ![x] = x]
           k == [rank EXCEPT ![x] = 0]
<1>1. s \in Links /\ own \in [Nodes -> Nodes] /\ rank \in [Nodes -> Nat]
  BY DEF Ring, RingType
<1>2. r \in Links /\ r.next = [s.next EXCEPT ![x] = x] /\ r.prev = [s.prev EXCEPT ![x] = x]
  BY <1>1, Zenon DEF INIT_LIST_HEAD, Links, Ptr
<1>3. RingType(r, H \cup {x}, E, o, k)
  <2> HIDE DEF r
  <2>1. QED  BY <1>2 DEF Ring, RingType
<1>4. ASSUME NEW y \in H \cup {x} \cup E
      PROVE  RingAt(r, H \cup {x}, E, o, k, y)
  <2> HIDE DEF r
  <2>1. CASE y = x
    BY <1>1, <1>2, <2>1, SMTT(30) DEF RingAt, Links
  <2>2. CASE y # x
    <3>1. RingAt(s, H, E, own, rank, y) /\ y \in Nodes
      BY <2>2 DEF Ring, RingType
    <3>2. s.next[y] # x /\ s.prev[y] # x /\ s.next[y] \in Nodes /\ s.prev[y] \in Nodes
      BY <3>1 DEF RingAt, Ring, RingType
    <3>3. QED  BY <1>1, <1>2, <2>2, <3>1, <3>2, SMTT(30) DEF RingAt, Links
  <2>3. QED  BY <2>1, <2>2
<1>5. QED  BY <1>3, <1>4, Zenon DEF Ring

(* An entry is added behind a head. *)
LEMMA AddRing ==
    ASSUME NEW s, NEW H, NEW E, NEW own, NEW rank, Ring(s, H, E, own, rank),
           NEW e \in Nodes, e \notin H \cup E, NEW h \in H
    PROVE  Ring(list_add(s, e, h), H, E \cup {e}, [own EXCEPT ![e] = h],
                [y \in Nodes |-> IF y \in H THEN 0 ELSE IF y = e THEN 1 ELSE rank[y] + 1])
<1> DEFINE p == h
           n == s.next[h]
           r == list_add(s, e, h)
           o == [own EXCEPT ![e] = h]
           k == [y \in Nodes |-> IF y \in H THEN 0 ELSE IF y = e THEN 1 ELSE rank[y] + 1]
<1>1. /\ s \in Links /\ own \in [Nodes -> Nodes] /\ rank \in [Nodes -> Nat]
      /\ p \in H \cup E /\ n \in H \cup E /\ h \in Nodes /\ p \in Nodes /\ n \in Nodes
      /\ e # p /\ e # n /\ s.next[p] = n /\ s.prev[n] = p
      /\ own[p] = h /\ own[n] = h
  BY DEF Ring, RingType, RingAt
<1>2. /\ r \in Links
      /\ r.next = [s.next EXCEPT ![e] = n, ![p] = e]
      /\ r.prev = [s.prev EXCEPT ![n] = e, ![e] = p]
  BY <1>1, AddWrites, SMTT(30) DEF list_add
<1> HIDE DEF r, p, n
<1>3. \A y \in Nodes :
        /\ r.next[y] = IF y = p THEN e ELSE IF y = e THEN n ELSE s.next[y]
        /\ r.prev[y] = IF y = e THEN p ELSE IF y = n THEN e ELSE s.prev[y]
  BY <1>1, <1>2 DEF Links
<1>4. RingType(r, H, E \cup {e}, o, k)
  <2>1. o \in [Nodes -> Nodes] /\ \A x \in H : o[x] = x
    BY <1>1 DEF Ring, RingType
  <2>2. \A y \in Nodes : rank[y] + 1 \in Nat
    BY <1>1
  <2>3. k \in [Nodes -> Nat]
    BY <2>2
  <2>4. \A x \in H : k[x] = 0
    BY DEF Ring, RingType
  <2> HIDE DEF o, k
  <2>5. QED  BY <1>2, <2>1, <2>3, <2>4 DEF Ring, RingType
<1>5. RingAt(r, H, E \cup {e}, o, k, e)
  BY <1>1, <1>3 DEF Ring, RingType, RingAt, p, n
<1>6. ASSUME NEW y \in H \cup E
      PROVE  RingAt(r, H, E \cup {e}, o, k, y)
  <2>1. RingAt(s, H, E, own, rank, y) /\ y \in Nodes /\ y # e
    BY DEF Ring, RingType
  <2>2. /\ s.next[y] \in Nodes /\ s.prev[y] \in Nodes /\ s.next[y] # e /\ s.prev[y] # e
        /\ s.next[y] = n <=> y = p
        /\ s.prev[y] = p <=> y = n
    BY <1>1, <2>1, SMTT(30) DEF Ring, RingType, RingAt
  <2>3. CASE y = p
    BY <1>1, <1>3, <2>1, <2>2, <2>3, SMTT(30) DEF Ring, RingType, RingAt, p, n
  <2>4. CASE y # p
    BY <1>1, <1>3, <2>1, <2>2, <2>4, SMTT(30) DEF Ring, RingType, RingAt
  <2>5. QED  BY <2>3, <2>4
<1>7. QED  BY <1>4, <1>5, <1>6 DEF Ring, r

(* An entry is added in front of a head. *)
LEMMA AddTailRing ==
    ASSUME NEW s, NEW H, NEW E, NEW own, NEW rank, Ring(s, H, E, own, rank),
           NEW e \in Nodes, e \notin H \cup E, NEW h \in H
    PROVE  Ring(list_add_tail(s, e, h), H, E \cup {e}, [own EXCEPT ![e] = h],
                [rank EXCEPT ![e] = rank[s.prev[h]] + 1])
<1> DEFINE p == s.prev[h]
           n == h
           r == list_add_tail(s, e, h)
           o == [own EXCEPT ![e] = h]
           k == [rank EXCEPT ![e] = rank[s.prev[h]] + 1]
<1>1. /\ s \in Links /\ own \in [Nodes -> Nodes] /\ rank \in [Nodes -> Nat]
      /\ p \in H \cup E /\ n \in H \cup E /\ h \in Nodes /\ p \in Nodes /\ n \in Nodes
      /\ e # p /\ e # n /\ s.next[p] = n /\ s.prev[n] = p
      /\ own[p] = h /\ own[n] = h
  BY DEF Ring, RingType, RingAt
<1>2. /\ r \in Links
      /\ r.next = [s.next EXCEPT ![e] = n, ![p] = e]
      /\ r.prev = [s.prev EXCEPT ![n] = e, ![e] = p]
  BY <1>1, AddWrites, SMTT(30) DEF list_add_tail
<1> HIDE DEF r, p, n
<1>3. \A y \in Nodes :
        /\ r.next[y] = IF y = p THEN e ELSE IF y = e THEN n ELSE s.next[y]
        /\ r.prev[y] = IF y = e THEN p ELSE IF y = n THEN e ELSE s.prev[y]
  BY <1>1, <1>2 DEF Links
<1>4. RingType(r, H, E \cup {e}, o, k)
  <2>1. o \in [Nodes -> Nodes] /\ \A x \in H : o[x] = x
    BY <1>1 DEF Ring, RingType
  <2>2. k \in [Nodes -> Nat] /\ \A x \in H : k[x] = 0
    BY <1>1, SMTT(30) DEF Ring, RingType, p
  <2> HIDE DEF o, k
  <2>3. QED  BY <1>2, <2>1, <2>2, SMTT(30) DEF Ring, RingType
<1>5. RingAt(r, H, E \cup {e}, o, k, e)
  BY <1>1, <1>3 DEF Ring, RingType, RingAt, p, n
<1>6. ASSUME NEW y \in H \cup E
      PROVE  RingAt(r, H, E \cup {e}, o, k, y)
  <2>1. RingAt(s, H, E, own, rank, y) /\ y \in Nodes /\ y # e
    BY DEF Ring, RingType
  <2>2. /\ s.next[y] \in Nodes /\ s.prev[y] \in Nodes /\ s.next[y] # e /\ s.prev[y] # e
        /\ s.next[y] = n <=> y = p
        /\ s.prev[y] = p <=> y = n
    BY <1>1, <2>1 DEF Ring, RingType, RingAt
  <2>3. CASE y = p
    <3>1. k[p] = rank[p] /\ k[e] = rank[p] + 1 /\ rank[p] \in Nat /\ o[p] = h /\ o[e] = h
      BY <1>1, SMTT(30) DEF p
    <3> HIDE DEF o, k
    <3>2. QED  BY <1>1, <1>3, <2>1, <2>2, <2>3, <3>1, SMTT(30) DEF Ring, RingType, RingAt
  <2>4. CASE y # p
    BY <1>1, <1>3, <2>1, <2>2, <2>4, SMTT(30) DEF Ring, RingType, RingAt
  <2>5. QED  BY <2>3, <2>4, SMTT(30)
<1>7. QED  BY <1>4, <1>5, <1>6, Zenon DEF Ring, r

(* An entry is taken out and keeps its links. *)
LEMMA UnlinkRing ==
    ASSUME NEW s, NEW H, NEW E, NEW own, NEW rank, Ring(s, H, E, own, rank), NEW e \in E
    PROVE  Ring(__list_del(s, s.prev[e], s.next[e]), H, E \ {e}, own, rank)
<1> DEFINE p == s.prev[e]
           n == s.next[e]
           r == __list_del(s, s.prev[e], s.next[e])
<1>1. /\ s \in Links /\ own \in [Nodes -> Nodes] /\ rank \in [Nodes -> Nat]
      /\ p \in H \cup E /\ n \in H \cup E /\ e \in Nodes /\ p \in Nodes /\ n \in Nodes
      /\ s.next[p] = e /\ s.prev[n] = e /\ e # p /\ e # n
      /\ own[p] = own[n] /\ rank[p] < rank[e] /\ (n \in E => rank[e] < rank[n])
  BY DEF Ring, RingType, RingAt
<1>2. /\ r \in Links
      /\ r.next = [s.next EXCEPT ![p] = n]
      /\ r.prev = [s.prev EXCEPT ![n] = p]
  BY <1>1, DelWrites, SMTT(30)
<1> HIDE DEF r, p, n
<1>3. \A y \in Nodes \ {e} :
        /\ r.next[y] = IF y = p THEN n ELSE s.next[y]
        /\ r.prev[y] = IF y = n THEN p ELSE s.prev[y]
  BY <1>1, <1>2 DEF Links
<1>4. RingType(r, H, E \ {e}, own, rank)
  BY <1>1, <1>2 DEF Ring, RingType
<1>5. ASSUME NEW y \in H \cup (E \ {e})
      PROVE  RingAt(r, H, E \ {e}, own, rank, y)
  <2>1. RingAt(s, H, E, own, rank, y) /\ y \in Nodes /\ y # e
    BY DEF Ring, RingType
  <2>2. /\ s.next[y] \in Nodes /\ s.prev[y] \in Nodes
        /\ s.next[y] = e <=> y = p
        /\ s.prev[y] = e <=> y = n
    BY <1>1, <2>1 DEF Ring, RingType, RingAt, p, n
  <2>3. /\ s.next[y] = n => y = e
        /\ s.prev[y] = p => y = e
    BY <1>1, <2>1, <2>2, SMTT(30) DEF RingAt
  <2>4. CASE y = p
    <3>1. r.next[y] = n /\ n # e
      BY <1>1, <1>3, <2>1, <2>4, SMTT(30)
    <3>2. QED  BY <1>1, <1>3, <2>1, <2>2, <2>4, <3>1, SMTT(30) DEF Ring, RingType, RingAt
  <2>5. CASE y # p
    BY <1>1, <1>3, <2>1, <2>2, <2>3, <2>5, SMTT(30) DEF Ring, RingType, RingAt
  <2>6. QED  BY <2>4, <2>5
<1>6. QED  BY <1>4, <1>5 DEF Ring, r

(* An entry is taken out and its links are cleared. *)
LEMMA DelRing ==
    ASSUME NEW s, NEW H, NEW E, NEW own, NEW rank, Ring(s, H, E, own, rank), NEW e \in E
    PROVE  Ring(list_del(s, e), H, E \ {e}, own, rank)
<1> DEFINE p == s.prev[e]
           n == s.next[e]
           r == list_del(s, e)
<1>1. /\ s \in Links /\ own \in [Nodes -> Nodes] /\ rank \in [Nodes -> Nat]
      /\ p \in H \cup E /\ n \in H \cup E /\ e \in Nodes /\ p \in Nodes /\ n \in Nodes
      /\ s.next[p] = e /\ s.prev[n] = e /\ e # p /\ e # n
      /\ own[p] = own[n] /\ rank[p] < rank[e] /\ (n \in E => rank[e] < rank[n])
  BY DEF Ring, RingType, RingAt
<1>2. /\ r \in Links
      /\ r.next = [s.next EXCEPT ![p] = n, ![e] = NULL]
      /\ r.prev = [s.prev EXCEPT ![n] = p, ![e] = NULL]
  BY <1>1, ListDelWrites, SMTT(30)
<1> HIDE DEF r, p, n
<1>3. \A y \in Nodes \ {e} :
        /\ r.next[y] = IF y = p THEN n ELSE s.next[y]
        /\ r.prev[y] = IF y = n THEN p ELSE s.prev[y]
  BY <1>1, <1>2 DEF Links
<1>4. RingType(r, H, E \ {e}, own, rank)
  BY <1>1, <1>2, SMTT(30) DEF Ring, RingType
<1>5. ASSUME NEW y \in H \cup (E \ {e})
      PROVE  RingAt(r, H, E \ {e}, own, rank, y)
  <2>1. RingAt(s, H, E, own, rank, y) /\ y \in Nodes /\ y # e
    BY DEF Ring, RingType
  <2>2. /\ s.next[y] \in Nodes /\ s.prev[y] \in Nodes
        /\ s.next[y] = e <=> y = p
        /\ s.prev[y] = e <=> y = n
    BY <1>1, <2>1 DEF Ring, RingType, RingAt, p, n
  <2>3. /\ s.next[y] = n => y = e
        /\ s.prev[y] = p => y = e
    BY <1>1, <2>1, <2>2 DEF RingAt
  <2>4. CASE y = p
    <3>1. r.next[y] = n /\ n # e
      BY <1>1, <1>3, <2>1, <2>4
    <3>2. QED  BY <1>1, <1>3, <2>1, <2>2, <2>4, <3>1 DEF Ring, RingType, RingAt
  <2>5. CASE y # p
    BY <1>1, <1>3, <2>1, <2>2, <2>3, <2>5 DEF Ring, RingType, RingAt
  <2>6. QED  BY <2>4, <2>5
<1>6. QED  BY <1>4, <1>5 DEF Ring, r

(* After list_replace every link to the old structure leads to the new one *)
(* and the new one has the old one's links.                                *)
LEMMA ReplacePoints ==
    ASSUME NEW s, NEW H, NEW E, NEW own, NEW rank, Ring(s, H, E, own, rank),
           NEW old \in H \cup E, NEW x \in Nodes, x \notin H \cup E
    PROVE  LET r == list_replace(s, old, x)
           IN  /\ r \in Links
               /\ \A y \in (H \cup E) \ {old} :
                    /\ r.next[y] = IF s.next[y] = old THEN x ELSE s.next[y]
                    /\ r.prev[y] = IF s.prev[y] = old THEN x ELSE s.prev[y]
               /\ r.next[x] = IF s.next[old] = old THEN x ELSE s.next[old]
               /\ r.prev[x] = IF s.prev[old] = old THEN x ELSE s.prev[old]
<1> DEFINE r == list_replace(s, old, x)
<1>1. /\ s \in Links /\ H \cup E \subseteq Nodes /\ old \in Nodes /\ x # old
      /\ s.next[old] \in H \cup E /\ s.prev[old] \in H \cup E
      /\ s.next[old] # x /\ s.prev[old] # x
  BY DEF Ring, RingType, RingAt
<1>2. \A y \in H \cup E :
        /\ s.next[y] = old <=> y = s.prev[old]
        /\ s.prev[y] = old <=> y = s.next[old]
  BY DEF Ring, RingAt
<1>3. s.next[old] \in Nodes /\ s.prev[old] \in Nodes /\ (s.next[old] = old <=> s.prev[old] = old)
  BY <1>1, <1>2
<1>4. CASE s.next[old] = old
  <2>1. /\ r \in Links
        /\ r.next = [s.next EXCEPT ![x] = x]
        /\ r.prev = [s.prev EXCEPT ![x] = x, ![old] = x]
    BY <1>1, <1>3, <1>4, ReplaceAloneWrites, SMTT(30)
  <2> HIDE DEF r
  <2>2. QED  BY <1>1, <1>2, <1>4, <2>1, SMTT(30) DEF Links, r
<1>5. CASE s.next[old] # old
  <2>1. /\ r \in Links
        /\ r.next = [s.next EXCEPT ![x] = s.next[old], ![s.prev[old]] = x]
        /\ r.prev = [s.prev EXCEPT ![x] = s.prev[old], ![s.next[old]] = x]
    BY <1>1, <1>3, <1>5, ReplaceWrites, SMTT(30)
  <2> HIDE DEF r
  <2>2. \A y \in Nodes : r.next[y] = IF y = s.prev[old] THEN x
                                   ELSE IF y = x THEN s.next[old] ELSE s.next[y]
    BY <1>1, <2>1 DEF Links
  <2>3. \A y \in Nodes : r.prev[y] = IF y = s.next[old] THEN x
                                   ELSE IF y = x THEN s.prev[old] ELSE s.prev[y]
    BY <1>1, <2>1 DEF Links
  <2>4. QED  BY <1>1, <1>2, <1>3, <1>5, <2>1, <2>2, <2>3, SMTT(30) DEF r
<1>6. QED  BY <1>4, <1>5

(* A new structure takes the place of an entry. *)
LEMMA ReplaceEntryRing ==
    ASSUME NEW s, NEW H, NEW E, NEW own, NEW rank, Ring(s, H, E, own, rank),
           NEW old \in E, NEW x \in Nodes, x \notin H \cup E
    PROVE  Ring(list_replace(s, old, x), H, (E \ {old}) \cup {x},
                [own EXCEPT ![x] = own[old]], [rank EXCEPT ![x] = rank[old]])
<1> DEFINE r == list_replace(s, old, x)
           o == [own EXCEPT ![x] = own[old]]
           k == [rank EXCEPT ![x] = rank[old]]
           F == (E \ {old}) \cup {x}
<1>1. /\ r \in Links
      /\ \A y \in (H \cup E) \ {old} :
           /\ r.next[y] = IF s.next[y] = old THEN x ELSE s.next[y]
           /\ r.prev[y] = IF s.prev[y] = old THEN x ELSE s.prev[y]
      /\ r.next[x] = IF s.next[old] = old THEN x ELSE s.next[old]
      /\ r.prev[x] = IF s.prev[old] = old THEN x ELSE s.prev[old]
  BY ReplacePoints
<1>2. /\ own \in [Nodes -> Nodes] /\ rank \in [Nodes -> Nat] /\ old \in Nodes
      /\ H \cup E \subseteq Nodes
  BY DEF Ring, RingType
<1>3. /\ o \in [Nodes -> Nodes] /\ \A y \in Nodes : o[y] = IF y = x THEN own[old] ELSE own[y]
      /\ k \in [Nodes -> Nat] /\ \A y \in Nodes : k[y] = IF y = x THEN rank[old] ELSE rank[y]
  BY <1>2
<1> HIDE DEF r, o, k
<1>4. RingType(r, H, F, o, k)
  BY <1>1, <1>2, <1>3, SMTT(30) DEF Ring, RingType
<1>5. \A y \in H \cup E : RingAt(s, H, E, own, rank, y)
  BY SMTT(30) DEF Ring
<1>6. RingAt(r, H, F, o, k, x)
  BY <1>1, <1>2, <1>3, <1>5, SMTT(30) DEF RingAt, RingType, Ring
<1>7. ASSUME NEW y \in H \cup (E \ {old})
      PROVE  RingAt(r, H, F, o, k, y)
  <2>1. y # x /\ y # old /\ y \in H \cup E
    BY SMTT(30) DEF Ring, RingType
  <2>2. CASE s.next[y] = old
    BY <1>1, <1>2, <1>3, <1>5, <2>1, <2>2, SMTT(30) DEF RingAt, RingType, Ring
  <2>3. CASE s.next[y] # old
    BY <1>1, <1>2, <1>3, <1>5, <2>1, <2>3, SMTT(30) DEF RingAt, RingType, Ring
  <2>4. QED  BY <2>2, <2>3
<1>8. QED  BY <1>4, <1>6, <1>7, ZenonT(40) DEF Ring, r, o, k

(* A new structure takes the place of a head. *)
LEMMA ReplaceHeadRing ==
    ASSUME NEW s, NEW H, NEW E, NEW own, NEW rank, Ring(s, H, E, own, rank),
           NEW old \in H, NEW x \in Nodes, x \notin H \cup E
    PROVE  Ring(list_replace(s, old, x), (H \ {old}) \cup {x}, E,
                [y \in Nodes |-> IF y = x \/ own[y] = old THEN x ELSE own[y]],
                [rank EXCEPT ![x] = 0])
<1> DEFINE r == list_replace(s, old, x)
           o == [y \in Nodes |-> IF y = x \/ own[y] = old THEN x ELSE own[y]]
           k == [rank EXCEPT ![x] = 0]
           G == (H \ {old}) \cup {x}
<1>1. /\ r \in Links
      /\ \A y \in (H \cup E) \ {old} :
           /\ r.next[y] = IF s.next[y] = old THEN x ELSE s.next[y]
           /\ r.prev[y] = IF s.prev[y] = old THEN x ELSE s.prev[y]
      /\ r.next[x] = IF s.next[old] = old THEN x ELSE s.next[old]
      /\ r.prev[x] = IF s.prev[old] = old THEN x ELSE s.prev[old]
  BY ReplacePoints
<1>2. /\ own \in [Nodes -> Nodes] /\ rank \in [Nodes -> Nat] /\ old \in Nodes
      /\ H \cup E \subseteq Nodes /\ own[old] = old /\ rank[old] = 0
  BY DEF Ring, RingType
<1>3. /\ o \in [Nodes -> Nodes]
      /\ \A y \in Nodes : o[y] = IF y = x \/ own[y] = old THEN x ELSE own[y]
      /\ k \in [Nodes -> Nat]
      /\ \A y \in Nodes : k[y] = IF y = x THEN 0 ELSE rank[y]
  BY <1>2
<1> HIDE DEF r, o, k
<1>4. RingType(r, G, E, o, k)
  BY <1>1, <1>2, <1>3, SMTT(30) DEF Ring, RingType
<1>5. \A y \in H \cup E : RingAt(s, H, E, own, rank, y)
  BY SMTT(30) DEF Ring
<1>6. RingAt(r, G, E, o, k, x)
  BY <1>1, <1>2, <1>3, <1>5, SMTT(30) DEF RingAt, RingType, Ring
<1>7. ASSUME NEW y \in (H \ {old}) \cup E
      PROVE  RingAt(r, G, E, o, k, y)
  <2>1. y # x /\ y # old /\ y \in H \cup E
    BY SMTT(30) DEF Ring, RingType
  <2>2. CASE s.next[y] = old
    BY <1>1, <1>2, <1>3, <1>5, <2>1, <2>2, SMTT(30) DEF RingAt, RingType, Ring
  <2>3. CASE s.next[y] # old
    BY <1>1, <1>2, <1>3, <1>5, <2>1, <2>3, SMTT(30) DEF RingAt, RingType, Ring
  <2>4. QED  BY <2>2, <2>3
<1>8. QED  BY <1>4, <1>6, <1>7 DEF Ring, r, o, k

-----------------------------------------------------------------------------
(* The lists of a state with such numbers have links that agree. *)
LEMMA RankedLinks == Ranked => LinksAgree
BY DEF Ranked, Ring, RingType, RingAt, LinksAgree, linked

(* Outside of a walk a step keeps IInv when it leaves such numbers. *)
LEMMA NoWalkStep ==
    ASSUME walk = NULL, walk' = NULL,
           NEW own, NEW rank, Ring(m', heads', entries', own, rank)
    PROVE  IInv'
<1>1. own \in [Nodes -> Nodes] /\ rank \in [Nodes -> Nat]
  BY DEF Ring, RingType
<1>2. Ranked'
  BY <1>1 DEF Ranked
<1>3. TypeOK' /\ WalkLinked'
  BY DEF TypeOK, WalkLinked, Ring, RingType
<1>4. QED  BY <1>2, <1>3 DEF IInv

(* The walk of a state with such numbers: the entry behind the one it is   *)
(* at is another one of the same list, or it is the head.                  *)
LEMMA WalkNext ==
    ASSUME TypeOK, WalkLinked, walk # NULL,
           NEW own, NEW rank, Ring(m, heads, entries, own, rank), own[walk.pos] = walk.head
    PROVE  /\ walk \in [head : Nodes, pos : Nodes, n : Nodes]
           /\ walk.head \in heads /\ walk.pos \in entries
           /\ walk.n # walk.head => /\ walk.n \in entries \ {walk.pos}
                                   /\ own[walk.n] = walk.head
<1>1. walk \in [head : Nodes, pos : Nodes, n : Nodes]
  BY DEF TypeOK
<1>2. walk.head \in heads /\ walk.pos \in entries /\ walk.n = m.next[walk.pos]
  BY DEF WalkLinked
<1>3. RingAt(m, heads, entries, own, rank, walk.pos)
  BY <1>2, SMTT(30) DEF Ring
<1>4. walk.n \in heads \cup entries /\ own[walk.n] = walk.head
  BY <1>2, <1>3, SMTT(30) DEF RingAt
<1>5. walk.n \in heads => walk.n = walk.head
  BY <1>4, SMTT(30) DEF Ring, RingType
<1>6. walk.n \in entries => walk.n # walk.pos
  BY <1>2, <1>3, SMTT(30) DEF RingAt, Ring, RingType
<1>7. QED  BY <1>1, <1>2, <1>4, <1>5, <1>6, SMTT(30)

(* A pass of the walk keeps IInv when its body leaves such numbers and     *)
(* does not touch the entry that comes next.                               *)
LEMMA WalkStep ==
    ASSUME walk \in [head : Nodes, pos : Nodes, n : Nodes], walk.head \in heads',
           advance(m'), NEW own, NEW rank, Ring(m', heads', entries', own, rank),
           walk.n # walk.head => walk.n \in entries' /\ own[walk.n] = walk.head
    PROVE  IInv'
<1>1. own \in [Nodes -> Nodes] /\ rank \in [Nodes -> Nat]
  BY DEF Ring, RingType
<1>2. CASE walk.n = walk.head
  <2>1. walk' = NULL
    BY <1>2 DEF advance
  <2>2. Ranked'
    BY <1>1, <2>1, SMTT(30) DEF Ranked
  <2>3. TypeOK' /\ WalkLinked'
    BY <2>1, SMTT(30) DEF TypeOK, WalkLinked, Ring, RingType
  <2>4. QED  BY <2>2, <2>3 DEF IInv
<1>3. CASE walk.n # walk.head
  <2>1. walk' = [walk EXCEPT !.pos = walk.n, !.n = m'.next[walk.n]]
    BY <1>3 DEF advance
  <2>2. m'.next[walk.n] \in Nodes
    BY <1>3 DEF Ring, RingAt, RingType
  <2>3. /\ walk' \in [head : Nodes, pos : Nodes, n : Nodes]
        /\ walk'.head = walk.head /\ walk'.pos = walk.n /\ walk'.n = m'.next[walk.n]
    BY <2>1, <2>2, Zenon
  <2>4. Ranked'
    BY <1>1, <1>3, <2>3, SMTT(30) DEF Ranked
  <2>5. TypeOK' /\ WalkLinked'
    BY <1>3, <2>3 DEF TypeOK, WalkLinked, Ring, RingType
  <2>6. QED  BY <2>4, <2>5 DEF IInv
<1>4. QED  BY <1>2, <1>3, SMTT(30)

(* An entry goes to a list: it is taken out and added. *)
LEMMA MoveRing ==
    ASSUME NEW s, NEW H, NEW E, NEW own, NEW rank, Ring(s, H, E, own, rank),
           NEW e \in E, NEW h \in H
    PROVE  /\ \E k : Ring(list_move(s, e, h), H, E, [own EXCEPT ![e] = h], k)
           /\ \E k : Ring(list_move_tail(s, e, h), H, E, [own EXCEPT ![e] = h], k)
<1> DEFINE u == __list_del(s, s.prev[e], s.next[e])
<1>1. Ring(u, H, E \ {e}, own, rank)
  BY UnlinkRing
<1>2. e \in Nodes /\ e \notin H \cup (E \ {e}) /\ (E \ {e}) \cup {e} = E
  BY DEF Ring, RingType
<1> HIDE DEF u
<1>3. \E k : Ring(list_add(u, e, h), H, (E \ {e}) \cup {e}, [own EXCEPT ![e] = h], k)
  BY <1>1, <1>2, AddRing, Zenon
<1>4. \E k : Ring(list_add_tail(u, e, h), H, (E \ {e}) \cup {e}, [own EXCEPT ![e] = h], k)
  BY <1>1, <1>2, AddTailRing, ZenonT(40)
<1>5. QED  BY <1>2, <1>3, <1>4, ZenonT(40) DEF list_move, list_move_tail, u

(* The body of list_for_each_safe keeps the invariant. *)
LEMMA BodyStep == IInv /\ body => IInv'
<1> SUFFICES ASSUME IInv, body PROVE IInv'
  OBVIOUS
<1>1. walk # NULL /\ heads' = heads /\ advance(m')
  BY DEF body
<1>2. PICK own \in [Nodes -> Nodes], rank \in [Nodes -> Nat] :
        /\ Ring(m, heads, entries, own, rank)
        /\ own[walk.pos] = walk.head
  BY <1>1 DEF IInv, Ranked
<1>3. /\ walk \in [head : Nodes, pos : Nodes, n : Nodes]
      /\ walk.head \in heads /\ walk.pos \in entries
      /\ walk.n # walk.head => walk.n \in entries \ {walk.pos} /\ own[walk.n] = walk.head
  BY <1>1, <1>2, WalkNext, SMTT(30) DEF IInv
<1>4. CASE m' = m /\ UNCHANGED entries
  <2>1. Ring(m', heads', entries', own, rank)
    BY <1>1, <1>2, <1>4, SMTT(30)
  <2>2. QED  BY <1>1, <1>3, <1>4, <2>1, WalkStep, SMTT(30)
<1>5. CASE m' = list_del(m, walk.pos) /\ entries' = entries \ {walk.pos}
  <2>1. Ring(m', heads', entries', own, rank)
    BY <1>1, <1>2, <1>3, <1>5, DelRing, SMTT(30)
  <2>2. QED  BY <1>1, <1>3, <1>5, <2>1, WalkStep, SMTT(30)
<1>6. CASE entries' = entries /\ \E h \in heads : m' \in {list_move(m, walk.pos, h), list_move_tail(m, walk.pos, h)}
  <2>1. PICK h \in heads : m' \in {list_move(m, walk.pos, h), list_move_tail(m, walk.pos, h)}
    BY <1>6
  <2> DEFINE o == [own EXCEPT ![walk.pos] = h]
  <2>2. \E k : Ring(m', heads, entries, o, k)
    <3>1. /\ \E k : Ring(list_move(m, walk.pos, h), heads, entries, o, k)
          /\ \E k : Ring(list_move_tail(m, walk.pos, h), heads, entries, o, k)
      BY <1>2, <1>3, MoveRing, ZenonT(40)
    <3> HIDE DEF o
    <3>2. QED  BY <2>1, <3>1
  <2>3. PICK k : Ring(m', heads', entries', o, k)
    BY <1>1, <1>6, <2>2, SMTT(30)
  <2>4. walk.n # walk.head => walk.n \in entries' /\ o[walk.n] = walk.head
    BY <1>3, <1>6, SMTT(30)
  <2> HIDE DEF o
  <2>5. QED  BY <1>1, <1>3, <2>3, <2>4, WalkStep, SMTT(30)
<1>7. QED  BY <1>4, <1>5, <1>6, SMTT(30) DEF body

(* Every step keeps the invariant. *)
LEMMA Kept == IInv /\ [Next]_vars => IInv'
<1> SUFFICES ASSUME IInv, [Next]_vars PROVE IInv'
  OBVIOUS
<1>1. PICK own \in [Nodes -> Nodes], rank \in [Nodes -> Nat] :
        /\ Ring(m, heads, entries, own, rank)
        /\ walk # NULL => own[walk.pos] = walk.head
  BY DEF IInv, Ranked
<1>2. ASSUME NEW h \in Nodes, NewHead(h) PROVE IInv'
  <2>1. Ring(m', heads', entries', [own EXCEPT ![h] = h], [rank EXCEPT ![h] = 0])
    BY <1>1, <1>2, NewHeadRing, ZenonT(40) DEF NewHead, linked
  <2>2. QED  BY <1>2, <2>1, NoWalkStep, SMTT(30) DEF NewHead
<1>3. ASSUME NEW e \in Nodes, NEW h \in heads, Add(e, h) PROVE IInv'
  <2>1. CASE m' = list_add(m, e, h)
    <3>1. \E k : Ring(m', heads', entries', [own EXCEPT ![e] = h], k)
      BY <1>1, <1>3, <2>1, AddRing, Zenon DEF Add, linked
    <3>2. QED  BY <1>3, <3>1, NoWalkStep, SMTT(30) DEF Add
  <2>2. CASE m' = list_add_tail(m, e, h)
    <3>1. \E k : Ring(m', heads', entries', [own EXCEPT ![e] = h], k)
      BY <1>1, <1>3, <2>2, AddTailRing, Zenon DEF Add, linked
    <3>2. QED  BY <1>3, <3>1, NoWalkStep DEF Add
  <2>3. QED  BY <1>3, <2>1, <2>2, SMTT(30) DEF Add
<1>4. ASSUME NEW e \in entries, Del(e) PROVE IInv'
  <2>1. Ring(m', heads', entries', own, rank)
    BY <1>1, <1>4, DelRing, SMTT(30) DEF Del
  <2>2. QED  BY <1>4, <2>1, NoWalkStep, SMTT(30) DEF Del
<1>5. ASSUME NEW e \in entries, NEW h \in heads, Move(e, h) PROVE IInv'
  <2> DEFINE o == [own EXCEPT ![e] = h]
  <2>1. /\ \E k : Ring(list_move(m, e, h), heads, entries, o, k)
        /\ \E k : Ring(list_move_tail(m, e, h), heads, entries, o, k)
    BY <1>1, MoveRing, Zenon
  <2> HIDE DEF o
  <2>2. \E k : Ring(m', heads', entries', o, k)
    BY <1>5, <2>1, SMTT(30) DEF Move
  <2>3. QED  BY <1>5, <2>2, NoWalkStep, SMTT(30) DEF Move
<1>6. ASSUME NEW old \in linked, NEW x \in Nodes, Replace(old, x) PROVE IInv'
  <2>1. CASE old \in heads
    <3>1. \E o, k : Ring(list_replace(m, old, x), (heads \ {old}) \cup {x}, entries, o, k)
      BY <1>1, <1>6, <2>1, ReplaceHeadRing, ZenonT(40) DEF Replace, linked
    <3>2. \E o, k : Ring(m', heads', entries', o, k)
      BY <1>6, <2>1, <3>1, SMTT(30) DEF Replace
    <3>3. QED  BY <1>6, <3>2, NoWalkStep, SMTT(30) DEF Replace
  <2>2. CASE old \in entries /\ old \notin heads
    <3>1. \E o, k : Ring(list_replace(m, old, x), heads, (entries \ {old}) \cup {x}, o, k)
      BY <1>1, <1>6, <2>2, ReplaceEntryRing, ZenonT(40) DEF Replace, linked
    <3>2. \E o, k : Ring(m', heads', entries', o, k)
      BY <1>6, <2>2, <3>1, SMTT(30) DEF Replace
    <3>3. QED  BY <1>6, <3>2, NoWalkStep DEF Replace
  <2>3. QED  BY <2>1, <2>2, SMTT(30) DEF linked
<1>7. ASSUME NEW old \in heads, NEW x \in Nodes, ReplaceInit(old, x) PROVE IInv'
  <2> DEFINE s1 == list_replace(m, old, x)
             G == (heads \ {old}) \cup {x}
  <2>1. PICK o, k : Ring(s1, G, entries, o, k)
    BY <1>1, <1>7, ReplaceHeadRing, ZenonT(40) DEF ReplaceInit, linked
  <2>2. old \in Nodes /\ old \notin G \cup entries /\ G \cup {old} = heads \cup {x}
    BY <1>1, <1>7, SMTT(30) DEF Ring, RingType, ReplaceInit, linked
  <2>3. m' = INIT_LIST_HEAD(s1, old) /\ heads' = heads \cup {x} /\ entries' = entries
    BY <1>7 DEF ReplaceInit, list_replace_init
  <2> HIDE DEF s1, G
  <2>4. Ring(INIT_LIST_HEAD(s1, old), G \cup {old}, entries, [o EXCEPT ![old] = old], [k EXCEPT ![old] = 0])
    BY <2>1, <2>2, NewHeadRing, SMTT(30)
  <2>5. \E p, q : Ring(m', heads', entries', p, q)
    BY <2>2, <2>3, <2>4, SMTT(30)
  <2>6. QED  BY <1>7, <2>5, NoWalkStep, SMTT(30) DEF ReplaceInit
<1>8. ASSUME NEW h \in heads, for_each_safe(h) PROVE IInv'
  <2> DEFINE f == m.next[h]
  <2>1. m' = m /\ heads' = heads /\ entries' = entries /\ walk = NULL
    BY <1>8 DEF for_each_safe
  <2>2. CASE f = h
    <3>1. walk' = NULL
      BY <1>8, <2>2, SMTT(30) DEF for_each_safe
    <3>2. Ring(m', heads', entries', own, rank)
      BY <1>1, <2>1, SMTT(30)
    <3>3. QED  BY <2>1, <3>1, <3>2, NoWalkStep, SMTT(30)
  <2>3. CASE f # h
    <3>1. /\ h \in Nodes /\ f \in entries /\ f \in Nodes /\ own[f] = h
          /\ m.next[f] \in Nodes
      <4>1. RingAt(m, heads, entries, own, rank, h) /\ own[h] = h
        BY <1>1 DEF Ring, RingType
      <4>2. f \in heads \cup entries /\ own[f] = h
        BY <4>1, SMTT(30) DEF RingAt
      <4>3. f \in heads => own[f] = f
        BY <1>1 DEF Ring, RingType
      <4>4. RingAt(m, heads, entries, own, rank, f)
        BY <1>1, <4>2, SMTT(30) DEF Ring
      <4>5. QED  BY <1>1, <2>3, <4>2, <4>3, <4>4, SMTT(30) DEF Ring, RingType, RingAt
    <3>2. walk' = [head |-> h, pos |-> f, n |-> m.next[f]]
      BY <1>8, <2>3, SMTT(30) DEF for_each_safe
    <3> HIDE DEF f
    <3>3. /\ walk' \in [head : Nodes, pos : Nodes, n : Nodes]
          /\ walk'.head = h /\ walk'.pos = f /\ walk'.n = m.next[f]
      BY <3>1, <3>2, SMTT(30)
    <3>4. TypeOK' /\ WalkLinked'
      BY <2>1, <3>1, <3>3, SMTT(30) DEF IInv, TypeOK, WalkLinked
    <3>5. Ring(m', heads', entries', own, rank)
      BY <1>1, <2>1
    <3>6. Ranked'
      BY <3>1, <3>3, <3>5, SMTT(30) DEF Ranked
    <3>7. QED  BY <3>4, <3>6, SMTT(30) DEF IInv
  <2>4. QED  BY <2>2, <2>3, SMTT(30)
<1>9. CASE body
  BY <1>9, BodyStep, SMTT(30)
<1>10. CASE UNCHANGED vars
  BY <1>10 DEF vars, IInv, TypeOK, WalkLinked, Ranked
<1>11. QED  BY <1>2, <1>3, <1>4, <1>5, <1>6, <1>7, <1>8, <1>9, <1>10, SMTT(30) DEF Next

(* No structure is used as a head or as an entry. *)
LEMMA Initially == Init => IInv
<1> SUFFICES ASSUME Init PROVE IInv
  OBVIOUS
<1>1. TypeOK /\ WalkLinked
  BY DEF Init, TypeOK, WalkLinked, Links, Ptr
<1>2. Ring(m, heads, entries, [x \in Nodes |-> x], [x \in Nodes |-> 0])
  BY DEF Init, Ring, RingType, Links, Ptr
<1>3. Ranked
  BY <1>2 DEF Ranked, Init
<1>4. QED  BY <1>1, <1>3 DEF IInv

(* Whatever the caller does, every list has its head and numbers that grow *)
(* along it, and a walk is inside one list.                                *)
THEOREM InductiveInvariant == Spec => []IInv
<1>1. QED  BY Initially, Kept, PTL DEF Spec

(* The members hold pointers of the caller's structures. *)
THEOREM TypeCorrect == Spec => []TypeOK
<1>1. IInv => TypeOK
  BY DEF IInv
<1>2. QED  BY <1>1, InductiveInvariant, PTL

(* For any number of heads and entries, next and prev of the structures    *)
(* that are on lists are inverse, also after list_replace of a head that   *)
(* is alone and after list_move of an entry to the place where it was.     *)
THEOREM LinksAgreeHolds == Spec => []LinksAgree
<1>1. IInv => LinksAgree
  BY RankedLinks, SMTT(30) DEF IInv
<1>2. QED  BY <1>1, InductiveInvariant, PTL

(* list_for_each_safe stands on an entry of a list and holds the one that  *)
(* is behind it, while its body takes entries off and moves them.          *)
THEOREM WalkLinkedHolds == Spec => []WalkLinked
<1>1. IInv => WalkLinked
  BY DEF IInv
<1>2. QED  BY <1>1, InductiveInvariant, PTL

(* f counts the subsets of S, which is finite: see FiniteCounts below. *)
Counts(f, S) ==
    /\ f \in [SUBSET S -> Nat] /\ f[{}] = 0
    /\ \A T \in SUBSET S :
         /\ f[T] = 0 => T = {}
         /\ \A x \in S : /\ x \notin T => f[T \cup {x}] = f[T] + 1
                         /\ x \in T => f[T \ {x}] = f[T] - 1
         /\ \A U \in SUBSET S : /\ T \subseteq U => f[T] <= f[U]
                                /\ T \cap U = {} => f[T \cup U] = f[T] + f[U]

(***************************************************************************)
(* multithreaddownload.c.                                                  *)
(***************************************************************************)
(* The end of the range of thread t, as maxidx computes it. *)
End(t) == (IF t < threadNum THEN (t + 1) * gap - 1 ELSE fileLength) % (ULONG_MAX + 1)

(* The last byte that the server sends for a range with this end. *)
LastByte(e) == IF e < fileLength THEN e ELSE fileLength - 1

TNode == [startidx : Nat, maxidx : Nat, from : Nat, got : Nat]

(* The types of the state of multithreaddownload.c. *)
RangeTypeOK ==
    /\ fileLength \in FileLengths
    /\ node \in [RangeThreads -> TNode]
    /\ threadCnt \in Int
    /\ where \in [RangeThreads -> {"none", "perform", "write", "performed", "exited"}]
    /\ chunk \in [RangeThreads -> Nat]
    /\ DOMAIN fp = 0..(fileLength - 1)
    /\ position \in Nat
    /\ step \in {"length", "returned", "count", "create", "wait", "succeeded"}
    /\ i \in 0..(threadNum + 1)
    /\ failed \subseteq RangeThreads

(* Where the loop of download is. *)
LoopInv ==
    /\ step \in {"count", "create"} => i <= threadNum
    /\ step \in {"wait", "succeeded"} => i = threadNum + 1
    /\ step \in {"length", "returned"} => i = 0
    /\ step \notin {"length", "returned"} => fileLength > 0
    /\ \A t \in RangeThreads : where[t] # "none" => t < i
    /\ step = "succeeded" => \A t \in RangeThreads : where[t] = "exited"

(* The threads that download has counted, and of these the ones that have  *)
(* not counted themselves out.                                             *)
CountedIn == {t \in RangeThreads : t < i \/ (t = i /\ step = "create")}
Live == {t \in CountedIn : where[t] # "exited"}
number == CHOOSE f : Counts(f, RangeThreads)
CountInv == threadCnt = number[Live]

(* A tNode is what download made it, moved on by what curl handed over.    *)
NodeInv ==
    \A t \in RangeThreads :
        IF t \in CountedIn
        THEN /\ node[t].from = t * gap /\ node[t].maxidx = End(t)
             /\ node[t].startidx = node[t].from + node[t].got
             /\ node[t].got <= size(t)
        ELSE node[t].got = 0

(* A thread that writes holds the mutex, and the FILE stands where the     *)
(* thread has left it; a thread that did not fail has had all its bytes.   *)
WriteInv ==
    \A t \in RangeThreads :
        /\ where[t] = "write" => /\ foo_mutex = t /\ position = node[t].startidx
                                 /\ node[t].got + chunk[t] <= size(t)
        /\ where[t] \in {"performed", "exited"} /\ t \notin failed => node[t].got = size(t)

(* The bytes handed over are in the file, while the next ones are written  *)
(* too.                                                                    *)
BytesInv ==
    /\ \A p \in DOMAIN fp : fp[p] \in {NoByte, p}
    /\ \A t \in RangeThreads :
          \A p \in node[t].from..(node[t].from + node[t].got - 1) : fp[p] = p

RangeInv == RangeTypeOK /\ LoopInv /\ CountInv /\ NodeInv /\ WriteInv /\ BytesInv

-----------------------------------------------------------------------------
(* What a modulus leaves as it is. *)
LEMMA SmallMod ==
    ASSUME NEW k \in Nat, NEW n \in Nat, k < n
    PROVE  k % n = k
  OBVIOUS

(* A product of naturals is a natural, and does not shrink with a factor. *)
LEMMA Products ==
    ASSUME NEW a \in Nat, NEW b \in Nat, NEW c \in Nat, a <= b
    PROVE  a * c \in Nat /\ b * c \in Nat /\ a * c <= b * c /\ (a + 1) * c = a * c + c
  OBVIOUS

(* The ranges have a common length, and fit in the file. *)
LEMMA Gap ==
    ASSUME fileLength \in Nat
    PROVE  gap \in Nat /\ (threadNum + 1) * gap <= fileLength
<1> DEFINE n == threadNum + 1
<1>1. n \in Nat \ {0}
  BY RangeAssumption
<1>2. fileLength \div n \in Nat /\ n * (fileLength \div n) <= fileLength
  <2> HIDE DEF n
  <2> QED
    BY <1>1
<1> QED
  BY <1>2 DEF gap

(* What download gives a thread: its range starts in the file, its end as  *)
(* an unsigned long is a number, and the server has bytes for it.          *)
LEMMA RangeOf ==
    ASSUME fileLength \in FileLengths, fileLength > 0, NEW t \in RangeThreads
    PROVE  /\ t * gap \in Nat /\ End(t) \in Nat
           /\ t * gap <= LastByte(End(t)) /\ LastByte(End(t)) < fileLength
           /\ gap > 0 /\ t < threadNum => LastByte(End(t)) = t * gap + gap - 1
           /\ gap = 0 \/ t = threadNum => LastByte(End(t)) = fileLength - 1
<1>1. fileLength \in Nat /\ fileLength <= ULONG_MAX /\ ULONG_MAX \in Nat
      /\ threadNum \in Nat /\ t \in Nat /\ t <= threadNum
  BY RangeAssumption DEF RangeThreads
<1>2. gap \in Nat /\ threadNum * gap \in Nat /\ t * gap \in Nat /\ t * gap <= threadNum * gap
      /\ threadNum * gap + gap <= fileLength /\ (t + 1) * gap = t * gap + gap
  BY <1>1, Gap, Products
<1>3. CASE t = threadNum
  <2>1. End(t) = fileLength
    BY <1>1, <1>3, SmallMod DEF End
  <2> QED
    BY <1>1, <1>2, <1>3, <2>1 DEF LastByte
<1>4. CASE t < threadNum /\ gap > 0
  <2>1. (t + 1) * gap - 1 \in Nat /\ (t + 1) * gap - 1 < ULONG_MAX + 1
    BY <1>1, <1>2, <1>4
  <2>2. End(t) = t * gap + gap - 1
    BY <1>1, <1>2, <1>4, <2>1, SmallMod DEF End
  <2> QED
    BY <1>1, <1>2, <1>4, <2>2 DEF LastByte
<1>5. CASE t < threadNum /\ gap = 0
  <2>1. (-1) % (ULONG_MAX + 1) = ULONG_MAX
    BY <1>1
  <2>2. End(t) = ULONG_MAX
    BY <1>1, <1>2, <1>5, <2>1 DEF End
  <2> QED
    BY <1>1, <1>2, <1>5, <2>2 DEF LastByte
<1> QED
  BY <1>1, <1>2, <1>3, <1>4, <1>5

(* The ranges cover the file. *)
LEMMA Cover ==
    ASSUME fileLength \in FileLengths, fileLength > 0, NEW p \in 0..(fileLength - 1)
    PROVE  \E t \in RangeThreads : t * gap <= p /\ p <= LastByte(End(t))
<1>1. threadNum \in Nat /\ threadNum \in RangeThreads /\ fileLength \in Nat /\ p \in Nat
  BY RangeAssumption DEF RangeThreads
<1>2. gap \in Nat
  BY <1>1, Gap
<1>3. CASE threadNum * gap <= p
  BY <1>1, <1>3, RangeOf
<1>4. CASE threadNum * gap > p
  <2> DEFINE k == p \div gap
  <2>1. gap > 0
    BY <1>1, <1>2, <1>4
  <2>2. k \in Nat /\ k * gap <= p /\ p < k * gap + gap
    BY <1>1, <1>2, <2>1
  <2> HIDE DEF k
  <2>3. k < threadNum
    <3> SUFFICES ASSUME threadNum <= k PROVE FALSE
      BY <1>1, <2>2
    <3>1. threadNum * gap <= k * gap
      BY <1>1, <1>2, <2>2, Products
    <3> QED
      BY <1>1, <1>2, <1>4, <2>2, <3>1
  <2>4. k \in RangeThreads
    BY <1>1, <2>2, <2>3 DEF RangeThreads
  <2>5. LastByte(End(k)) = k * gap + gap - 1
    BY <2>1, <2>3, <2>4, RangeOf
  <2> QED
    BY <1>1, <1>2, <2>2, <2>4, <2>5
<1> QED
  BY <1>1, <1>2, <1>3, <1>4, Products

-----------------------------------------------------------------------------
(* A thread that is past its creation was counted, and what the server has *)
(* for it lies in the file and before the end of its range.                *)
LEMMA Sizes ==
    ASSUME RangeInv, NEW t \in CountedIn
    PROVE  /\ t \in RangeThreads /\ fileLength \in Nat /\ fileLength > 0 /\ fileLength <= ULONG_MAX
           /\ node[t].from \in Nat /\ node[t].maxidx \in Nat /\ node[t].got \in Nat /\ gap \in Nat
           /\ size(t) = LastByte(node[t].maxidx) - node[t].from + 1
           /\ size(t) \in Nat /\ node[t].from + size(t) <= fileLength
           /\ node[t].from + size(t) - 1 <= node[t].maxidx
           /\ node[t].maxidx < fileLength => node[t].from + size(t) - 1 = node[t].maxidx
           /\ node[t].maxidx >= fileLength => node[t].from + size(t) = fileLength
<1>1. t \in RangeThreads /\ fileLength \in FileLengths /\ fileLength > 0
  BY RangeAssumption DEF CountedIn, RangeInv, RangeTypeOK, LoopInv, RangeThreads
<1>2. fileLength \in Nat /\ fileLength <= ULONG_MAX
  BY <1>1, RangeAssumption
<1>3. node[t].from = t * gap /\ node[t].maxidx = End(t) /\ node[t] \in TNode
  BY <1>1 DEF RangeInv, NodeInv, RangeTypeOK
<1>4. gap \in Nat
  BY <1>2, Gap
<1>5. size(t) = LastByte(node[t].maxidx) - node[t].from + 1
  BY DEF size, LastByte
<1>6. node[t].from <= LastByte(node[t].maxidx) /\ LastByte(node[t].maxidx) < fileLength
  BY <1>1, <1>3, RangeOf
<1>7. node[t].from \in Nat /\ node[t].maxidx \in Nat /\ node[t].got \in Nat
  BY <1>3 DEF TNode
<1> QED
  BY <1>1, <1>2, <1>4, <1>5, <1>6, <1>7 DEF LastByte

(* fwrite is never short: the bytes that curl hands over are those that    *)
(* the range has room for.                                                 *)
LEMMA WritesAll ==
    ASSUME RangeInv, NEW t \in RangeThreads, where[t] = "write"
    PROVE  t \in CountedIn /\ written(t) = chunk[t]
<1>1. t \in CountedIn /\ chunk[t] \in Nat
  BY DEF RangeInv, LoopInv, RangeTypeOK, CountedIn
<1>2. /\ node[t].startidx = node[t].from + node[t].got
      /\ node[t].got + chunk[t] <= size(t)
  BY <1>1 DEF RangeInv, NodeInv, WriteInv
<1> DEFINE room == node[t].maxidx - node[t].startidx + 1
<1>3. CASE node[t].startidx + chunk[t] <= node[t].maxidx
  BY <1>1, <1>3 DEF written
<1>4. CASE ~(node[t].startidx + chunk[t] <= node[t].maxidx)
  <2>0. /\ node[t].from \in Nat /\ node[t].maxidx \in Nat /\ node[t].got \in Nat /\ size(t) \in Nat
        /\ fileLength \in Nat /\ fileLength <= ULONG_MAX /\ ULONG_MAX \in Nat
        /\ node[t].from + size(t) <= fileLength
        /\ node[t].maxidx < fileLength => node[t].from + size(t) - 1 = node[t].maxidx
    BY <1>1, Sizes, RangeAssumption
  <2>1. room = chunk[t] /\ chunk[t] < ULONG_MAX + 1 /\ ULONG_MAX + 1 \in Nat
    <3>1. node[t].from + node[t].got + chunk[t] <= node[t].from + size(t)
      BY <1>1, <1>2, <2>0
    <3>2. node[t].from + node[t].got + chunk[t] > node[t].maxidx
      BY <1>1, <1>2, <1>4, <2>0
    <3>3. node[t].maxidx < fileLength
      BY <1>1, <2>0, <3>1, <3>2
    <3>4. node[t].from + node[t].got + chunk[t] = node[t].maxidx + 1
      BY <1>1, <2>0, <3>1, <3>2, <3>3
    <3> QED
      BY <1>1, <1>2, <2>0, <3>4
  <2>2. written(t) = room % (ULONG_MAX + 1)
    BY <1>4 DEF written
  <2> HIDE DEF room
  <2> QED
    BY <1>1, <2>1, <2>2, SmallMod
<1> QED
  BY <1>1, <1>3, <1>4

(* A step of thread t that leaves everything but its own place, its chunk, *)
(* the mutex and the position as it is.                                    *)
LEMMA OwnStep ==
    ASSUME RangeInv, NEW t \in RangeThreads, NEW l \in {"write", "performed", "exited"},
           where[t] # "none", where[t] # "exited",
           where' = [where EXCEPT ![t] = l],
           UNCHANGED <<fileLength, node, fp, step, i>>
    PROVE  /\ LoopInv' /\ NodeInv' /\ BytesInv'
           /\ CountedIn' = CountedIn /\ \A u \in RangeThreads : size(u)' = size(u)
           /\ t \in Live /\ Live' = IF l = "exited" THEN Live \ {t} ELSE Live
<1>1. CountedIn' = CountedIn /\ (\A u \in RangeThreads : size(u)' = size(u)) /\ gap' = gap
  BY DEF CountedIn, size, gap
<1>2. LoopInv'
  BY DEF RangeInv, RangeTypeOK, LoopInv
<1>3. NodeInv'
  BY <1>1 DEF RangeInv, NodeInv, End
<1>4. BytesInv'
  BY DEF RangeInv, BytesInv
<1>5. t \in Live /\ Live' = IF l = "exited" THEN Live \ {t} ELSE Live
  BY <1>1 DEF RangeInv, RangeTypeOK, LoopInv, Live, CountedIn
<1> QED
  BY <1>1, <1>2, <1>3, <1>4, <1>5

(* The threads counted are some of the threads. *)
LEMMA LiveThreads ==
    Live \in SUBSET RangeThreads
  BY DEF Live, CountedIn

(* workThread and downloadPackage keep the invariant. *)
LEMMA WorkStep ==
    ASSUME Counts(number, RangeThreads), RangeInv, NEW t \in RangeThreads, workThread(t)
    PROVE  RangeInv'
<1>0. RangeTypeOK /\ WriteInv /\ CountInv
  BY DEF RangeInv
<1>1. CASE downloadPackage(t)
  <2>1. PICK n \in 1..(size(t) - node[t].got) : chunk' = [chunk EXCEPT ![t] = n]
    BY <1>1, Zenon DEF downloadPackage
  <2>2. /\ where[t] = "perform" /\ foo_mutex = NoThread /\ foo_mutex' = t
        /\ where' = [where EXCEPT ![t] = "write"] /\ position' = node[t].startidx
        /\ UNCHANGED <<fileLength, node, threadCnt, fp, step, i, failed>>
    BY <1>1 DEF downloadPackage
  <2>3. /\ LoopInv' /\ NodeInv' /\ BytesInv' /\ Live' = Live
        /\ CountedIn' = CountedIn /\ \A u \in RangeThreads : size(u)' = size(u)
    BY <2>2, OwnStep, Zenon
  <2>4. t \in CountedIn
    BY <2>2 DEF RangeInv, LoopInv, CountedIn
  <2>5. n \in Nat /\ node[t].got + n <= size(t)
    BY <2>4, Sizes
  <2>6. RangeTypeOK'
    BY <1>0, <2>1, <2>2, <2>5 DEF RangeTypeOK, TNode
  <2>7. \A u \in RangeThreads : where[u] # "write"
    BY <1>0, <2>2, RangeAssumption DEF WriteInv
  <2>8. WriteInv'
    BY <1>0, <2>1, <2>2, <2>3, <2>5, <2>7 DEF WriteInv, RangeTypeOK
  <2> QED
    BY <1>0, <2>2, <2>3, <2>6, <2>8 DEF RangeInv, CountInv
<1>2. CASE write_package(t)
  <2>1. where[t] = "write"
    BY <1>2 DEF write_package
  <2>2. t \in CountedIn /\ written(t) = chunk[t] /\ chunk[t] \in Nat
    BY <1>0, <2>1, WritesAll DEF RangeTypeOK
  <2>3. /\ foo_mutex = t /\ position = node[t].startidx /\ node[t].got + chunk[t] <= size(t)
        /\ node[t].startidx = node[t].from + node[t].got
    BY <1>0, <2>1, <2>2 DEF WriteInv, RangeInv, NodeInv
  <2>4. /\ fp' = [p \in DOMAIN fp |->
                     IF p \in position..(position + chunk[t] - 1)
                     THEN node[t].from + node[t].got + p - position ELSE fp[p]]
        /\ position' = position + chunk[t]
        /\ node' = [node EXCEPT ![t].startidx = @ + chunk[t], ![t].got = @ + chunk[t]]
        /\ chunk' = [chunk EXCEPT ![t] = 0]
        /\ where' = [where EXCEPT ![t] = "perform"]
        /\ UNCHANGED <<failed, fileLength, threadCnt, step, i>>
    BY <1>2, <2>2 DEF write_package
  <2>5. /\ \A u \in RangeThreads \ {t} : node'[u] = node[u]
        /\ node'[t] = [node[t] EXCEPT !.startidx = node[t].startidx + chunk[t],
                                      !.got = node[t].got + chunk[t]]
        /\ node[t] \in TNode
    BY <1>0, <2>4 DEF RangeTypeOK
  <2>6. /\ node'[t].startidx = node[t].startidx + chunk[t] /\ node'[t].got = node[t].got + chunk[t]
        /\ node'[t].from = node[t].from /\ node'[t].maxidx = node[t].maxidx /\ node'[t] \in TNode
    <3>1. node[t].startidx + chunk[t] \in Nat /\ node[t].got + chunk[t] \in Nat
      BY <2>2, <2>5 DEF TNode
    <3> QED
      BY <2>5, <3>1, Zenon DEF TNode
  <2>7. /\ CountedIn' = CountedIn /\ gap' = gap
        /\ \A u \in RangeThreads : size(u)' = size(u) /\ End(u)' = End(u)
    <3>1. CountedIn' = CountedIn /\ gap' = gap
      BY <2>4 DEF CountedIn, gap
    <3>2. \A u \in RangeThreads : node'[u].from = node[u].from /\ node'[u].maxidx = node[u].maxidx
      BY <2>5, <2>6, Zenon
    <3>3. \A u \in RangeThreads : size(u)' = size(u)
      <4>1. fileLength' = fileLength
        BY <2>4
      <4> QED
        BY <3>2, <4>1 DEF size
    <3>4. \A u \in RangeThreads : End(u)' = End(u)
      BY <2>4, <3>1 DEF End
    <3> QED
      BY <3>1, <3>3, <3>4
  <2>8. RangeTypeOK'
    BY <1>0, <2>2, <2>4, <2>5, <2>6 DEF RangeTypeOK
  <2>9. LoopInv'
    BY <1>0, <2>1, <2>4 DEF RangeInv, RangeTypeOK, LoopInv
  <2>10. CountInv'
    <3>1. Live' = Live
      BY <1>0, <2>1, <2>4, <2>7 DEF RangeTypeOK, Live
    <3> QED
      BY <1>0, <2>4, <3>1 DEF CountInv
  <2>11. NodeInv'
    <3>1. ASSUME NEW u \in RangeThreads, u # t
          PROVE  IF u \in CountedIn'
                 THEN /\ node'[u].from = u * gap' /\ node'[u].maxidx = End(u)'
                      /\ node'[u].startidx = node'[u].from + node'[u].got
                      /\ node'[u].got <= size(u)'
                 ELSE node'[u].got = 0
      BY <2>5, <2>7, <3>1 DEF RangeInv, NodeInv
    <3>2. /\ node'[t].from = t * gap' /\ node'[t].maxidx = End(t)'
          /\ node'[t].startidx = node'[t].from + node'[t].got
          /\ node'[t].got <= size(t)'
      <4>1. node[t].from = t * gap /\ node[t].maxidx = End(t)
        BY <2>2 DEF RangeInv, NodeInv
      <4>2. node[t].from \in Nat /\ node[t].got \in Nat
        BY <2>5 DEF TNode
      <4> QED
        BY <2>2, <2>3, <2>6, <2>7, <4>1, <4>2
    <3> QED
      BY <2>2, <2>7, <3>1, <3>2 DEF NodeInv
  <2>12. WriteInv'
    BY <1>0, <2>1, <2>3, <2>4, <2>5, <2>7 DEF RangeTypeOK, WriteInv
  <2>13. BytesInv'
    <3>1. /\ node[t].from \in Nat /\ node[t].got \in Nat
          /\ node[t].from + size(t) <= fileLength /\ fileLength \in Nat /\ size(t) \in Nat
      BY <2>2, Sizes
    <3>2. \A p \in DOMAIN fp : fp'[p] = p \/ (fp'[p] = fp[p] /\ p \notin position..(position + chunk[t] - 1))
      <4> SUFFICES ASSUME NEW p \in DOMAIN fp, p \in position..(position + chunk[t] - 1)
                   PROVE  fp'[p] = p
        BY <2>4
      <4>1. fp'[p] = node[t].from + node[t].got + p - position /\ p \in Int
        BY <1>0, <2>4 DEF RangeTypeOK
      <4> QED
        BY <2>3, <3>1, <4>1
    <3>3. \A p \in DOMAIN fp' : fp'[p] \in {NoByte, p}
      BY <2>4, <3>2 DEF RangeInv, BytesInv
    <3>4. ASSUME NEW u \in RangeThreads \ {t}, NEW p \in node[u].from..(node[u].from + node[u].got - 1)
          PROVE  fp'[p] = p
      <4>1. fp[p] = p
        BY <3>4 DEF RangeInv, BytesInv
      <4>2. p \in DOMAIN fp
        <5>1. CASE u \in CountedIn
          <6>1. /\ node[u].from \in Nat /\ node[u].got \in Nat /\ size(u) \in Nat
                /\ node[u].from + size(u) <= fileLength /\ fileLength \in Nat
            BY <5>1, Sizes
          <6>2. node[u].got <= size(u)
            BY <5>1 DEF RangeInv, NodeInv
          <6> QED
            BY <1>0, <3>4, <6>1, <6>2, SMTT(30) DEF RangeTypeOK
        <5>2. CASE u \notin CountedIn
          BY <1>0, <3>4, <5>2 DEF RangeTypeOK, RangeInv, NodeInv, TNode
        <5> QED
          BY <5>1, <5>2
      <4> QED
        BY <3>2, <4>1, <4>2
    <3>5. ASSUME NEW p \in node[t].from..(node[t].from + node[t].got + chunk[t] - 1)
          PROVE  fp'[p] = p
      <4>1. p \in DOMAIN fp
        <5>1. p <= fileLength - 1 /\ p >= 0 /\ p \in Int
          BY <2>2, <2>3, <3>1, <3>5
        <5> QED
          BY <1>0, <3>1, <5>1 DEF RangeTypeOK
      <4>2. p \in node[t].from..(node[t].from + node[t].got - 1) => fp[p] = p
        BY DEF RangeInv, BytesInv
      <4> QED
        BY <2>2, <2>3, <3>1, <3>2, <4>1, <4>2
    <3> QED
      <4>1. \A u \in RangeThreads \ {t} : \A p \in node'[u].from..(node'[u].from + node'[u].got - 1) : fp'[p] = p
        BY <2>5, <3>4
      <4>2. node'[t].from + node'[t].got - 1 = node[t].from + node[t].got + chunk[t] - 1
        BY <2>2, <2>6, <3>1
      <4>3. \A p \in node'[t].from..(node'[t].from + node'[t].got - 1) : fp'[p] = p
        BY <2>6, <3>5, <4>2
      <4> QED
        BY <3>3, <4>1, <4>3 DEF BytesInv
  <2> QED
    BY <2>8, <2>9, <2>10, <2>11, <2>12, <2>13 DEF RangeInv
<1>3. CASE performed(t)
  <2>1. /\ where[t] = "perform" /\ where' = [where EXCEPT ![t] = "performed"]
        /\ failed' = IF node[t].got = size(t) THEN failed ELSE failed \cup {t}
        /\ UNCHANGED <<fileLength, node, threadCnt, foo_mutex, chunk, fp, position, step, i>>
    BY <1>3 DEF performed
  <2>2. /\ LoopInv' /\ NodeInv' /\ BytesInv' /\ Live' = Live
        /\ CountedIn' = CountedIn /\ \A u \in RangeThreads : size(u)' = size(u)
    BY <2>1, OwnStep, Zenon
  <2>3. RangeTypeOK'
    BY <1>0, <2>1 DEF RangeTypeOK
  <2>4. WriteInv'
    BY <1>0, <2>1, <2>2 DEF WriteInv, RangeTypeOK
  <2> QED
    BY <1>0, <2>1, <2>2, <2>3, <2>4 DEF RangeInv, CountInv
<1>4. CASE thread_done(t)
  <2>1. /\ where[t] = "performed" /\ where' = [where EXCEPT ![t] = "exited"]
        /\ threadCnt' = threadCnt - 1
        /\ UNCHANGED <<fileLength, node, foo_mutex, chunk, fp, position, step, i, failed>>
    BY <1>4 DEF thread_done
  <2>2. /\ LoopInv' /\ NodeInv' /\ BytesInv' /\ t \in Live /\ Live' = Live \ {t}
        /\ CountedIn' = CountedIn /\ \A u \in RangeThreads : size(u)' = size(u)
    BY <2>1, OwnStep, Zenon
  <2>3. RangeTypeOK'
    BY <1>0, <2>1 DEF RangeTypeOK
  <2>4. WriteInv'
    BY <1>0, <2>1, <2>2 DEF WriteInv, RangeTypeOK
  <2>5. number[Live \ {t}] = number[Live] - 1
    BY <2>2, LiveThreads DEF Counts
  <2>6. CountInv'
    BY <1>0, <2>1, <2>2, <2>5 DEF CountInv
  <2> QED
    BY <2>2, <2>3, <2>4, <2>6 DEF RangeInv
<1> QED
  BY <1>1, <1>2, <1>3, <1>4 DEF workThread

-----------------------------------------------------------------------------
(* A step of download that leaves the threads' data as it is. *)
LEMMA MainKeeps ==
    ASSUME RangeInv, UNCHANGED <<fileLength, node, foo_mutex, chunk, fp, position>>
    PROVE  /\ gap' = gap
           /\ \A u \in RangeThreads : size(u)' = size(u) /\ End(u)' = End(u)
           /\ BytesInv'
<1>1. gap' = gap
  BY DEF gap
<1>2. \A u \in RangeThreads : size(u)' = size(u)
  BY DEF size
<1>3. \A u \in RangeThreads : End(u)' = End(u)
  BY <1>1 DEF End
<1>4. BytesInv'
  BY DEF RangeInv, BytesInv
<1> QED
  BY <1>1, <1>2, <1>3, <1>4

(* The turns of download keep the invariant. *)
LEMMA DownloadStep ==
    ASSUME Counts(number, RangeThreads), RangeInv, download
    PROVE  RangeInv'
<1>0. RangeTypeOK /\ LoopInv /\ CountInv /\ NodeInv /\ WriteInv /\ BytesInv
  BY DEF RangeInv
<1>1. CASE open_file
  <2>1. /\ step = "length" /\ step' \in {"returned", "count"} /\ (step' = "count" => fileLength > 0)
        /\ UNCHANGED <<fileLength, node, threadCnt, foo_mutex, where, chunk, fp, position, i, failed>>
    BY <1>0, <1>1, RangeAssumption DEF open_file, RangeTypeOK
  <2>2. CountedIn' = CountedIn /\ Live' = Live
    BY <2>1 DEF CountedIn, Live
  <2>3. RangeTypeOK' /\ LoopInv' /\ CountInv'
    BY <1>0, <2>1, <2>2, RangeAssumption DEF RangeTypeOK, LoopInv, CountInv
  <2>4. NodeInv' /\ WriteInv' /\ BytesInv'
    BY <1>0, <2>1, <2>2, MainKeeps DEF NodeInv, WriteInv
  <2> QED
    BY <2>3, <2>4 DEF RangeInv
<1>2. CASE count_thread
  <2>1. /\ step = "count" /\ step' = "create" /\ foo_mutex = NoThread /\ threadCnt' = threadCnt + 1
        /\ node' = [node EXCEPT ![i] = [startidx |-> i * gap, maxidx |-> maxidx, from |-> i * gap, got |-> 0]]
        /\ UNCHANGED <<fileLength, foo_mutex, where, chunk, fp, position, i, failed>>
    BY <1>2 DEF count_thread
  <2>2. i \in RangeThreads /\ where[i] = "none" /\ fileLength > 0 /\ fileLength \in FileLengths /\ i \notin CountedIn
    BY <1>0, <2>1, RangeAssumption DEF RangeTypeOK, LoopInv, RangeThreads, CountedIn
  <2>3. /\ maxidx = End(i) /\ i * gap \in Nat /\ End(i) \in Nat
        /\ LastByte(End(i)) - i * gap + 1 \in Nat
    <3>1. maxidx = End(i)
      BY DEF maxidx, End
    <3>2. fileLength \in Nat
      BY <2>2, RangeAssumption
    <3> QED
      BY <2>2, <3>1, <3>2, RangeOf DEF LastByte
  <2>4. /\ node'[i] = [startidx |-> i * gap, maxidx |-> End(i), from |-> i * gap, got |-> 0]
        /\ node'[i] \in TNode
        /\ \A u \in RangeThreads \ {i} : node'[u] = node[u]
    BY <1>0, <2>1, <2>2, <2>3 DEF RangeTypeOK, TNode
  <2>5. CountedIn' = CountedIn \cup {i} /\ Live' = Live \cup {i} /\ i \notin Live
    BY <1>0, <2>1, <2>2 DEF CountedIn, Live, RangeTypeOK, RangeThreads
  <2>6. gap' = gap /\ (\A u \in RangeThreads : End(u)' = End(u)) /\ fileLength' = fileLength /\ i' = i
    BY <2>1 DEF gap, End
  <2>7. (\A u \in RangeThreads \ {i} : size(u)' = size(u)) /\ size(i)' = LastByte(End(i)) - i * gap + 1
    <3>1. \A u \in RangeThreads \ {i} : size(u)' = size(u)
      BY <2>4, <2>6 DEF size
    <3>2. node'[i].maxidx = End(i) /\ node'[i].from = i * gap
      BY <2>4
    <3>3. size(i)' = LastByte(End(i)) - i * gap + 1
      BY <2>6, <3>2 DEF size, LastByte
    <3> QED
      BY <3>1, <3>3
  <2>8. RangeTypeOK'
    <3>1. node' \in [RangeThreads -> TNode]
      BY <1>0, <2>1, <2>2, <2>4 DEF RangeTypeOK
    <3>2. threadCnt' \in Int
      BY <1>0, <2>1 DEF RangeTypeOK
    <3> QED
      BY <1>0, <2>1, <3>1, <3>2 DEF RangeTypeOK
  <2>9. LoopInv'
    BY <1>0, <2>1, <2>2, RangeAssumption DEF RangeTypeOK, LoopInv, RangeThreads
  <2>10. CountInv'
    <3>1. number[Live \cup {i}] = number[Live] + 1
      BY <2>2, <2>5, LiveThreads DEF Counts
    <3> QED
      BY <1>0, <2>1, <2>5, <3>1 DEF CountInv
  <2>11. NodeInv'
    <3>1. ASSUME NEW u \in RangeThreads, u # i
          PROVE  IF u \in CountedIn'
                 THEN /\ node'[u].from = u * gap' /\ node'[u].maxidx = End(u)'
                      /\ node'[u].startidx = node'[u].from + node'[u].got
                      /\ node'[u].got <= size(u)'
                 ELSE node'[u].got = 0
      BY <1>0, <2>4, <2>5, <2>6, <2>7, <3>1, ZenonT(40) DEF NodeInv
    <3>2. /\ node'[i].from = i * gap' /\ node'[i].maxidx = End(i)'
          /\ node'[i].startidx = node'[i].from + node'[i].got
          /\ node'[i].got <= size(i)'
      <4>1. /\ node'[i].startidx = i * gap /\ node'[i].from = i * gap /\ node'[i].got = 0
            /\ node'[i].maxidx = End(i)
        BY <2>4
      <4> QED
        BY <2>2, <2>3, <2>6, <2>7, <4>1
    <3> QED
      BY <2>1, <2>2, <2>5, <3>1, <3>2 DEF NodeInv
  <2>12. WriteInv'
    BY <1>0, <2>1, <2>2, <2>4, <2>7, ZenonT(40) DEF WriteInv
  <2>13. BytesInv'
    <3>1. \A p \in node'[i].from..(node'[i].from + node'[i].got - 1) : FALSE
      BY <2>3, <2>4
    <3>2. fp' = fp /\ \A u \in RangeThreads \ {i} : node'[u] = node[u]
      BY <2>1, <2>4
    <3> HIDE <2>4
    <3> QED
      BY <1>0, <3>1, <3>2, Zenon DEF BytesInv
  <2> QED
    BY <2>8, <2>9, <2>10, <2>11, <2>12, <2>13 DEF RangeInv
<1>3. CASE create_thread
  <2>1. /\ step = "create" /\ i' = i + 1 /\ step' = IF i = threadNum THEN "wait" ELSE "count"
        /\ \/ where' = [where EXCEPT ![i] = "perform"] /\ failed' = failed
           \/ where' = where /\ failed' = failed \cup {i}
        /\ UNCHANGED <<fileLength, node, threadCnt, foo_mutex, chunk, fp, position>>
    BY <1>3 DEF create_thread
  <2>2. i \in RangeThreads /\ i \in Nat /\ threadNum \in Nat /\ i <= threadNum /\ where[i] = "none"
    BY <1>0, <2>1, RangeAssumption DEF RangeTypeOK, LoopInv, RangeThreads
  <2>3. CountedIn' = CountedIn
    BY <2>1, <2>2 DEF CountedIn, RangeThreads
  <2>4. Live' = Live
    <3>1. \A u \in RangeThreads : where'[u] = "exited" <=> where[u] = "exited"
      BY <1>0, <2>1, <2>2 DEF RangeTypeOK
    <3> QED
      BY <2>3, <3>1 DEF Live, CountedIn
  <2>5. RangeTypeOK'
    <3>1. where' \in [RangeThreads -> {"none", "perform", "write", "performed", "exited"}]
      BY <1>0, <2>1, <2>2 DEF RangeTypeOK
    <3>2. i' \in 0..(threadNum + 1)
      BY <2>1, <2>2
    <3>3. failed' \subseteq RangeThreads
      BY <1>0, <2>1, <2>2, ZenonT(40) DEF RangeTypeOK
    <3> QED
      BY <1>0, <2>1, <3>1, <3>2, <3>3 DEF RangeTypeOK
  <2>6. LoopInv'
    BY <1>0, <2>1, <2>2, RangeAssumption DEF RangeTypeOK, LoopInv, RangeThreads
  <2>7. CountInv'
    BY <1>0, <2>1, <2>4 DEF CountInv
  <2>8. NodeInv' /\ BytesInv'
    BY <1>0, <2>1, <2>3, MainKeeps DEF NodeInv
  <2>9. WriteInv'
    BY <1>0, <2>1, <2>2, MainKeeps DEF WriteInv, RangeTypeOK
  <2> QED
    BY <2>5, <2>6, <2>7, <2>8, <2>9 DEF RangeInv
<1>4. CASE succeed
  <2>1. /\ step = "wait" /\ step' = "succeeded" /\ threadCnt <= 0
        /\ UNCHANGED <<fileLength, node, threadCnt, foo_mutex, where, chunk, fp, position, i, failed>>
    BY <1>4 DEF succeed
  <2>2. CountedIn' = CountedIn /\ Live' = Live
    BY <2>1 DEF CountedIn, Live
  <2>3. Live = {}
    BY <1>0, <2>1, LiveThreads DEF CountInv, Counts
  <2>4. \A t \in RangeThreads : where[t] = "exited"
    BY <1>0, <2>1, <2>3, RangeAssumption DEF Live, CountedIn, LoopInv, RangeThreads
  <2>5. RangeTypeOK' /\ LoopInv' /\ CountInv'
    BY <1>0, <2>1, <2>2, <2>4 DEF RangeTypeOK, LoopInv, CountInv
  <2>6. NodeInv' /\ WriteInv' /\ BytesInv'
    BY <1>0, <2>1, <2>2, MainKeeps DEF NodeInv, WriteInv
  <2> QED
    BY <2>5, <2>6 DEF RangeInv
<1> QED
  BY <1>1, <1>2, <1>3, <1>4 DEF download

(* The first state. *)
LEMMA RangeInitially ==
    ASSUME Counts(number, RangeThreads), RangeInit
    PROVE  RangeInv
<1>1. CountedIn = {} /\ Live = {}
  BY RangeAssumption DEF RangeInit, CountedIn, Live, RangeThreads
<1>2. RangeTypeOK /\ LoopInv
  BY RangeAssumption DEF RangeInit, RangeTypeOK, LoopInv, TNode
<1>3. CountInv
  BY <1>1 DEF RangeInit, CountInv, Counts
<1>4. NodeInv /\ WriteInv /\ BytesInv
  BY <1>1 DEF RangeInit, NodeInv, WriteInv, BytesInv
<1> QED
  BY <1>2, <1>3, <1>4 DEF RangeInv

(***************************************************************************)
(* The threads are finitely many; so what was shown of the steps of        *)
(* multithreaddownload.c holds of its behaviours.                          *)
(***************************************************************************)
LOCAL INSTANCE FiniteSetTheorems

LEMMA FiniteCounts ==
    ASSUME NEW S, IsFiniteSet(S)
    PROVE  Counts([T \in SUBSET S |-> Cardinality(T)], S)
<1> DEFINE f == [T \in SUBSET S |-> Cardinality(T)]
<1>1. ASSUME NEW T \in SUBSET S
      PROVE  IsFiniteSet(T) /\ Cardinality(T) \in Nat /\ (Cardinality(T) = 0 => T = {})
  <2>1. IsFiniteSet(T)
    BY FS_Subset, Zenon
  <2> QED
    BY <2>1, FS_CardinalityType, FS_EmptySet, Zenon
<1>2. ASSUME NEW T \in SUBSET S, NEW x \in S
      PROVE  /\ x \notin T => f[T \cup {x}] = f[T] + 1
             /\ x \in T => f[T \ {x}] = f[T] - 1
  <2>1. /\ x \notin T => Cardinality(T \cup {x}) = Cardinality(T) + 1
        /\ x \in T => Cardinality(T \ {x}) = Cardinality(T) - 1
    BY <1>1, FS_AddElement, FS_RemoveElement, Zenon
  <2>2. T \cup {x} \in SUBSET S /\ T \ {x} \in SUBSET S
    OBVIOUS
  <2> QED
    BY <2>1, <2>2, Zenon
<1>3. ASSUME NEW T \in SUBSET S, NEW U \in SUBSET S, T \subseteq U
      PROVE  f[T] <= f[U]
  <2>1. Cardinality(T) <= Cardinality(U)
    BY <1>1, <1>3, FS_Subset, Zenon
  <2> QED
    BY <2>1, Zenon
<1>4. ASSUME NEW T \in SUBSET S, NEW U \in SUBSET S, T \cap U = {}
      PROVE  f[T \cup U] = f[T] + f[U]
  <2>1. Cardinality(T \cup U) = Cardinality(T) + Cardinality(U) - Cardinality(T \cap U)
    BY <1>1, FS_Union, Zenon
  <2>2. Cardinality(T \cap U) = 0
    BY <1>4, FS_EmptySet, Zenon
  <2>3. Cardinality(T \cup U) = Cardinality(T) + Cardinality(U)
    BY <1>1, <2>1, <2>2
  <2>4. T \cup U \in SUBSET S
    OBVIOUS
  <2> QED
    BY <2>3, <2>4, Zenon
<1>5. f \in [SUBSET S -> Nat] /\ f[{}] = 0
  BY <1>1, FS_EmptySet, Zenon
<1>6. \A T \in SUBSET S : f[T] = 0 => T = {}
  BY <1>1, Zenon
<1> HIDE DEF f
<1>7. Counts(f, S)
  BY <1>2, <1>3, <1>4, <1>5, <1>6, Zenon DEF Counts
<1> QED
  BY <1>7 DEF f

LEMMA ThreadsAreCounted == Counts(number, RangeThreads)
<1>1. IsFiniteSet(0..threadNum)
  BY RangeAssumption, FS_Interval DEF RangeAssumption
<1> QED
  BY <1>1, FiniteCounts, Zenon DEF RangeThreads, number

(* The inductive invariant of multithreaddownload.c: threadCnt is the      *)
(* number of the threads still to be waited for, and each byte that curl   *)
(* has handed over is in the file.                                         *)
THEOREM RangeInvariant == RangeSpec => []RangeInv
<1>1. RangeInit => RangeInv
  BY ThreadsAreCounted, RangeInitially
<1>2. RangeInv /\ [RangeNext]_rangeVars => RangeInv'
  <2> SUFFICES ASSUME RangeInv, [RangeNext]_rangeVars PROVE RangeInv'
    OBVIOUS
  <2>1. CASE RangeNext
    BY <2>1, ThreadsAreCounted, WorkStep, DownloadStep DEF RangeNext
  <2>2. CASE UNCHANGED rangeVars
    BY <2>2, ZenonT(40) DEF rangeVars, RangeInv, RangeTypeOK, LoopInv, CountInv, NodeInv, WriteInv, BytesInv,
                Live, CountedIn, size, End, gap
  <2> QED
    BY <2>1, <2>2
<1> QED
  BY <1>1, <1>2, PTL DEF RangeSpec

(* What download and its threads promise, for any number of threads and    *)
(* any length: bytes are where they belong, and "download succeed..." is   *)
(* said of a whole file, unless a thread failed.                           *)
THEOREM RangesRightHold == RangeSpec => []RangesRight
<1>1. RangeInv => RangesRight
  <2> SUFFICES ASSUME RangeInv PROVE RangesRight
    OBVIOUS
  <2>1. RangeBytesInPlace
    BY DEF RangeInv, BytesInv, RangeBytesInPlace
  <2>2. ASSUME step = "succeeded", failed = {}, NEW p \in DOMAIN fp PROVE fp[p] = p
    <3>1. /\ fileLength \in FileLengths /\ fileLength > 0 /\ p \in 0..(fileLength - 1)
          /\ i = threadNum + 1 /\ threadNum \in Nat
      BY <2>2, RangeAssumption DEF RangeInv, RangeTypeOK, LoopInv
    <3>2. PICK t \in RangeThreads : t * gap <= p /\ p <= LastByte(End(t))
      BY <3>1, Cover
    <3>3. t \in CountedIn /\ node[t].from = t * gap /\ node[t].maxidx = End(t)
      BY <3>1, <3>2 DEF RangeInv, NodeInv, CountedIn, RangeThreads
    <3>4. node[t].got = size(t)
      BY <2>2 DEF RangeInv, LoopInv, WriteInv
    <3>5. /\ size(t) = LastByte(node[t].maxidx) - node[t].from + 1
          /\ node[t].from \in Nat /\ size(t) \in Nat /\ fileLength \in Nat
          /\ LastByte(node[t].maxidx) \in Int
      BY <3>3, Sizes DEF LastByte
    <3>6. p \in node[t].from..(node[t].from + node[t].got - 1)
      BY <3>1, <3>2, <3>3, <3>4, <3>5
    <3> QED
      BY <3>6 DEF RangeInv, BytesInv
  <2>3. SucceedMeansDone
    BY <2>2 DEF SucceedMeansDone, RangeInv, LoopInv
  <2> QED
    BY <2>1, <2>3 DEF RangesRight
<1> QED
  BY <1>1, RangeInvariant, PTL
=============================================================================
