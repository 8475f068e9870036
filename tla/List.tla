-------------------------------- MODULE List --------------------------------
(***************************************************************************)
(* The circular lists of list/gap_mclist.h.  A caller has some list_heads, *)
(* puts entries on them, moves them and takes them off, and walks a list   *)
(* with list_for_each_safe while it removes or moves the entry it is at.   *)
(***************************************************************************)
EXTENDS Naturals, Sequences

CONSTANTS
    Nodes,      \* the list_head structures of the caller
    NULL

ASSUME ListAssumption == NULL \notin Nodes

Ptr == Nodes \cup {NULL}

VARIABLES
    m,          \* m.next and m.prev, the members of the structures
    heads,      \* the structures that the caller uses as heads
    entries,    \* those that are on a list
    walk        \* head, pos and n of a list_for_each_safe, or NULL

vars == <<m, heads, entries, walk>>

Links == [next : [Nodes -> Ptr], prev : [Nodes -> Ptr]]

TypeOK ==
    /\ m \in Links
    /\ heads \subseteq Nodes
    /\ entries \subseteq Nodes
    /\ walk = NULL \/ walk \in [head : Nodes, pos : Nodes, n : Nodes]

Init ==
    /\ m = [next |-> [x \in Nodes |-> NULL], prev |-> [x \in Nodes |-> NULL]]
    /\ heads = {}
    /\ entries = {}
    /\ walk = NULL

-----------------------------------------------------------------------------
(* The functions of the header, on the members. *)
INIT_LIST_HEAD(s, list) == [s EXCEPT !.next[list] = list, !.prev[list] = list]

__list_add(s, nelm, prev, next) ==
    LET s1 == [s EXCEPT !.prev[next] = nelm]
        s2 == [s1 EXCEPT !.next[nelm] = next, !.prev[nelm] = prev]
    IN  [s2 EXCEPT !.next[prev] = nelm]

list_add(s, nelm, head) == __list_add(s, nelm, head, s.next[head])

list_add_tail(s, nelm, head) == __list_add(s, nelm, s.prev[head], head)

__list_del(s, prev, next) == [s EXCEPT !.prev[next] = prev, !.next[prev] = next]

list_del(s, entry) ==
    LET s1 == __list_del(s, s.prev[entry], s.next[entry])
    IN  [s1 EXCEPT !.next[entry] = NULL, !.prev[entry] = NULL]

(* Mutant: both links are copied before either neighbour is told. *)
list_replace_copy(s, old, nelm) ==
    LET s1 == [s EXCEPT !.next[nelm] = s.next[old], !.prev[nelm] = s.prev[old]]
        s2 == [s1 EXCEPT !.prev[s1.next[nelm]] = nelm]
    IN  [s2 EXCEPT !.next[s2.prev[nelm]] = nelm]

(* old->prev is read after the entry behind old was told: when old is      *)
(* alone that entry is old itself, and the new one is then alone too.      *)
list_replace(s, old, nelm) ==
    LET s1 == [s EXCEPT !.next[nelm] = s.next[old]]
        s2 == [s1 EXCEPT !.prev[s1.next[nelm]] = nelm]
        s3 == [s2 EXCEPT !.prev[nelm] = s2.prev[old]]
    IN  [s3 EXCEPT !.next[s3.prev[nelm]] = nelm]

list_replace_init(s, old, nelm) == INIT_LIST_HEAD(list_replace(s, old, nelm), old)

(* Mutant: the entry is put in its new place before it is taken off. *)
list_move_late(s, list, head) ==
    LET s1 == list_add(s, list, head) IN __list_del(s1, s.prev[list], s.next[list])

list_move(s, list, head) ==
    list_add(__list_del(s, s.prev[list], s.next[list]), list, head)

list_move_tail(s, list, head) ==
    list_add_tail(__list_del(s, s.prev[list], s.next[list]), list, head)

list_empty(s, head) == s.next[head] = head

-----------------------------------------------------------------------------
(* What the caller may do. *)
linked == heads \cup entries

NewHead(h) ==
    /\ walk = NULL /\ h \notin linked
    /\ m' = INIT_LIST_HEAD(m, h)
    /\ heads' = heads \cup {h}
    /\ UNCHANGED <<entries, walk>>

Add(e, h) ==
    /\ walk = NULL /\ e \notin linked
    /\ m' \in {list_add(m, e, h), list_add_tail(m, e, h)}
    /\ entries' = entries \cup {e}
    /\ UNCHANGED <<heads, walk>>

Del(e) ==
    /\ walk = NULL
    /\ m' = list_del(m, e)
    /\ entries' = entries \ {e}
    /\ UNCHANGED <<heads, walk>>

Move(e, h) ==
    /\ walk = NULL
    /\ m' \in {list_move(m, e, h), list_move_tail(m, e, h)}
    /\ UNCHANGED <<heads, entries, walk>>

(* Another structure takes the place of a head or of an entry, which is    *)
(* on no list afterwards.                                                  *)
Replace(old, x) ==
    /\ walk = NULL /\ x \notin linked
    /\ m' = list_replace(m, old, x)
    /\ IF old \in heads
       THEN heads' = (heads \ {old}) \cup {x} /\ UNCHANGED entries
       ELSE entries' = (entries \ {old}) \cup {x} /\ UNCHANGED heads
    /\ UNCHANGED walk

(* The whole list of a head goes to another one. *)
ReplaceInit(old, x) ==
    /\ walk = NULL /\ x \notin linked
    /\ m' = list_replace_init(m, old, x)
    /\ heads' = heads \cup {x}
    /\ UNCHANGED <<entries, walk>>

-----------------------------------------------------------------------------
(* The start of list_for_each_safe. *)
for_each_safe(h) ==
    /\ walk = NULL
    /\ walk' = IF m.next[h] = h THEN NULL
               ELSE [head |-> h, pos |-> m.next[h], n |-> m.next[m.next[h]]]
    /\ UNCHANGED <<m, heads, entries>>

(* Mutant: the walk holds the entry behind the one that was handled. *)
advance_late(s) ==
    walk' = IF walk.n = walk.head THEN NULL
            ELSE [walk EXCEPT !.pos = walk.n, !.n = s.next[walk.pos]]

(* To the entry that was read before the body ran. *)
advance(s) ==
    walk' = IF walk.n = walk.head THEN NULL
            ELSE [walk EXCEPT !.pos = walk.n, !.n = s.next[walk.n]]

(* The body of the walk: it leaves the entry alone, takes it off, or puts  *)
(* it on another list, or at the front of this one.                        *)
body ==
    /\ walk # NULL
    /\ \/ m' = m /\ UNCHANGED entries
       \/ m' = list_del(m, walk.pos) /\ entries' = entries \ {walk.pos}
       \/ /\ \E h \in heads : m' = list_move(m, walk.pos, h)
          /\ UNCHANGED entries
       \/ /\ \E h \in heads \ {walk.head} : m' = list_move_tail(m, walk.pos, h)
          /\ UNCHANGED entries
    /\ advance(m')
    /\ UNCHANGED heads

Next ==
    \/ \E h \in Nodes : NewHead(h)
    \/ \E e \in Nodes, h \in heads : Add(e, h)
    \/ \E e \in entries : Del(e)
    \/ \E e \in entries, h \in heads : Move(e, h)
    \/ \E old \in linked, x \in Nodes : Replace(old, x)
    \/ \E old \in heads, x \in Nodes : ReplaceInit(old, x)
    \/ \E h \in heads : for_each_safe(h)
    \/ body

Spec == Init /\ [][Next]_vars /\ WF_vars(body)

-----------------------------------------------------------------------------
(* The list of a head, in the order of list_for_each. *)
list_for_each(h) ==
    LET go[x \in Nodes] == IF x = h THEN <<>> ELSE <<x>> \o go[m.next[x]]
    IN  go[m.next[h]]

lists == [h \in heads |-> list_for_each(h)]

(* A structure is a head or an entry, the links of those that are on a     *)
(* list stay among them, and next and prev are inverse to each other.      *)
LinksAgree ==
    /\ heads \cap entries = {}
    /\ \A x \in linked :
         /\ m.next[x] \in linked /\ m.prev[x] \in linked
         /\ m.prev[m.next[x]] = x
         /\ m.next[m.prev[x]] = x

(* The walk stands on an entry and holds the one behind it: the body may   *)
(* take away the entry it is at.                                           *)
WalkLinked ==
    walk # NULL =>
        /\ walk.head \in heads
        /\ walk.pos \in entries
        /\ walk.n = m.next[walk.pos]

(* The lists are sequences: an operation changes the lists as it says and  *)
(* no other one.                                                           *)
Lists == INSTANCE ListSpec WITH lists <- lists
ImplementsLists == Lists!Spec

(* A walk comes to its end. *)
WalkEnds == walk # NULL ~> walk = NULL
=============================================================================
