------------------------------- MODULE RbTree -------------------------------
(***************************************************************************)
(* The red-black tree of tree/rbtree/rbtree.c with the client of           *)
(* rbtree-test.c.  A step is one pass of a loop: rb_insert_color,          *)
(* __rb_erase_color and rb_augment_path are left between two passes, so    *)
(* that what holds half-way through a rebalance can be stated.  The code   *)
(* writes each case twice, for left and right; here it has a side d.       *)
(***************************************************************************)
EXTENDS Integers, Sequences, FiniteSets

CONSTANTS
    Nodes,
    Key,        \* the key in the structure around each node
    NULL

Ptr == Nodes \cup {NULL}
Side == {"left", "right"}

VARIABLES
    tree,       \* the root and the members of the nodes
    aug,        \* what the callback of rb_augment_path keeps in each node
    pc,         \* where the running call is
    arg,        \* the node it was given
    node, par,  \* its local variables node and parent
    deepest     \* the result of rb_augment_erase_begin

vars == <<tree, aug, pc, arg, node, par, deepest>>

TypeOK ==
    /\ tree \in [root : Ptr, child : [Side -> [Nodes -> Ptr]],
                 parent : [Nodes -> Ptr], color : [Nodes -> {"red", "black"}]]
    /\ aug \in [Nodes -> 0..Cardinality(Nodes)]
    /\ pc \in {"idle", "insert_color", "inserted", "erase_color", "erased", "augment"}
    /\ arg \in Ptr /\ node \in Ptr /\ par \in Ptr /\ deepest \in Ptr

Init ==
    /\ tree = [root |-> NULL, child |-> [d \in Side |-> [n \in Nodes |-> NULL]],
               parent |-> [n \in Nodes |-> NULL], color |-> [n \in Nodes |-> "red"]]
    /\ aug = [n \in Nodes |-> 0]
    /\ pc = "idle"
    /\ arg = NULL /\ node = NULL /\ par = NULL /\ deepest = NULL

-----------------------------------------------------------------------------
(* The members of a node, and the updates of a tree. *)

Other(d) == IF d = "left" THEN "right" ELSE "left"

is_red(t, n) == n # NULL /\ t.color[n] = "red"

set_color(t, n, c) == [t EXCEPT !.color[n] = c]

set_parent(t, n, p) == IF n = NULL THEN t ELSE [t EXCEPT !.parent[n] = p]

set_child(t, n, d, c) == [t EXCEPT !.child[d][n] = c]

(* The side of parent p on which n hangs. *)
side(t, p, n) == IF t.child["left"][p] = n THEN "left" ELSE "right"

(* What pointed to old, in its parent p or in the root, points to new. *)
relink(t, p, old, new) ==
    IF p = NULL THEN [t EXCEPT !.root = new]
                ELSE set_child(t, p, side(t, p, old), new)

(* Mutant: the subtree that changes sides keeps its old parent. *)
rotate_keeps_parent(t, n, d) ==
    LET top == t.child[Other(d)][n]
        mid == t.child[d][top]
        p   == t.parent[n]
        t1  == set_child(t, n, Other(d), mid)
        t2  == set_parent(set_child(t1, top, d, n), top, p)
    IN  set_parent(relink(t2, p, n, top), n, top)

(* __rb_rotate_left and __rb_rotate_right: n goes down on side d. *)
rotate(t, n, d) ==
    LET top == t.child[Other(d)][n]
        mid == t.child[d][top]
        p   == t.parent[n]
        t1  == set_parent(set_child(t, n, Other(d), mid), mid, n)
        t2  == set_parent(set_child(t1, top, d, n), top, p)
    IN  set_parent(relink(t2, p, n, top), n, top)

(* The last node of the path from n along side d. *)
far(t, n, d) ==
    LET down[m \in Nodes] ==
          IF t.child[d][m] = NULL THEN m ELSE down[t.child[d][m]]
    IN  down[n]

(* rb_first (d = "left") and rb_last (d = "right"). *)
rb_end(t, d) == IF t.root = NULL THEN NULL ELSE far(t, t.root, d)

(* rb_next (d = "right") and rb_prev (d = "left"). *)
rb_step(t, n, d) ==
    LET up[m \in Nodes] ==
          IF t.parent[m] # NULL /\ m = t.child[d][t.parent[m]]
          THEN up[t.parent[m]] ELSE t.parent[m]
    IN  IF t.parent[n] = n THEN NULL
        ELSE IF t.child[d][n] # NULL THEN far(t, t.child[d][n], Other(d))
        ELSE up[n]

(* Where the search from the root for n's key ends: a node without a child *)
(* on the side where n belongs.                                            *)
place(t, n) ==
    LET go[m \in Nodes] ==
          LET d == IF Key[n] < Key[m] THEN "left" ELSE "right"
          IN  IF t.child[d][m] = NULL THEN <<m, d>> ELSE go[t.child[d][m]]
    IN  go[t.root]

(* my_search: the node with this key, or NULL. *)
my_search(t, k) ==
    LET go[m \in Ptr] ==
          IF m = NULL THEN NULL
          ELSE IF k < Key[m] THEN go[t.child["left"][m]]
          ELSE IF k > Key[m] THEN go[t.child["right"][m]]
          ELSE m
    IN  go[t.root]

(* rb_link_node, at the place found. *)
rb_link_node(t, n) ==
    LET p  == IF t.root = NULL THEN NULL ELSE place(t, n)[1]
        t1 == [t EXCEPT !.parent[n] = p, !.color[n] = "red",
                        !.child["left"][n] = NULL, !.child["right"][n] = NULL]
    IN  IF p = NULL THEN [t1 EXCEPT !.root = n]
                    ELSE set_child(t1, p, place(t, n)[2], n)

(* The caller frees an erased node: what was in it is of no account. *)
forget(t, n) ==
    [t EXCEPT !.parent[n] = NULL, !.color[n] = "red",
              !.child["left"][n] = NULL, !.child["right"][n] = NULL]

(* The nodes in the tree: those a search can reach. *)
inorder(t) ==
    LET go[m \in Ptr] ==
          IF m = NULL THEN <<>>
          ELSE go[t.child["left"][m]] \o <<m>> \o go[t.child["right"][m]]
    IN  go[t.root]

Linked == LET s == inorder(tree) IN {s[i] : i \in DOMAIN s}

-----------------------------------------------------------------------------
(* my_insert: a node whose key is in the tree is not linked. *)
my_insert(n) ==
    /\ pc = "idle"
    /\ n \notin Linked
    /\ my_search(tree, Key[n]) = NULL
    /\ tree' = rb_link_node(tree, n)
    /\ pc' = "insert_color"
    /\ arg' = n /\ node' = n
    /\ UNCHANGED <<aug, par, deepest>>

(* The uncle is red: the colours of three nodes, and on to the grandparent. *)
insert_case_uncle(t, n) ==
    LET p == t.parent[n]
        g == t.parent[p]
        d == side(t, g, p)
        u == t.child[Other(d)][g]
        t1 == set_color(set_color(t, u, "black"), p, "black")
    IN  <<set_color(t1, g, "red"), g>>

(* It is not: one or two rotations. *)
insert_case_rotate(t, n) ==
    LET p == t.parent[n]
        g == t.parent[p]
        d == side(t, g, p)
        inner == t.child[Other(d)][p] = n
        t1  == IF inner THEN rotate(t, p, d) ELSE t
        top == IF inner THEN n ELSE p
        t2  == set_color(set_color(t1, top, "black"), g, "red")
    IN  <<rotate(t2, g, Other(d)), IF inner THEN p ELSE n>>

(* A pass of the loop of rb_insert_color, or its end. *)
rb_insert_color ==
    /\ pc = "insert_color"
    /\ LET p == tree.parent[node]
           u == tree.child[Other(side(tree, tree.parent[p], p))][tree.parent[p]]
           r == IF is_red(tree, u) THEN insert_case_uncle(tree, node)
                                   ELSE insert_case_rotate(tree, node)
       IN  IF is_red(tree, p)
           THEN tree' = r[1] /\ node' = r[2] /\ UNCHANGED pc
           ELSE /\ tree' = set_color(tree, tree.root, "black")
                /\ pc' = "inserted"
                /\ UNCHANGED node
    /\ UNCHANGED <<aug, arg, par, deepest>>

-----------------------------------------------------------------------------
(* rb_augment_erase_begin: the deepest node on the path of the rebalance   *)
(* that will still be there.                                               *)
rb_augment_erase_begin(t, n) ==
    LET l == t.child["left"][n]
        r == t.child["right"][n]
        next == rb_step(t, n, "right")
    IN  CASE l = NULL /\ r = NULL -> t.parent[n]
          [] l # NULL /\ r = NULL -> l
          [] l = NULL /\ r # NULL -> r
          [] OTHER -> IF t.child["right"][next] # NULL THEN t.child["right"][next]
                      ELSE IF t.parent[next] # n THEN t.parent[next]
                      ELSE next

(* Mutant: the child is always taken from the left. *)
erase_one_left(t, n) ==
    LET c == t.child["left"][n]
        p == t.parent[n]
    IN  [t |-> relink(set_parent(t, c, p), p, n, c),
         child |-> c, parent |-> p, color |-> t.color[n]]

(* rb_erase of a node with at most one child. *)
erase_one(t, n) ==
    LET c == IF t.child["left"][n] = NULL THEN t.child["right"][n]
                                          ELSE t.child["left"][n]
        p == t.parent[n]
    IN  [t |-> relink(set_parent(t, c, p), p, n, c),
         child |-> c, parent |-> p, color |-> t.color[n]]

(* rb_erase of a node with two: its successor takes its place.             *)
erase_two(t, old) ==
    LET y  == far(t, t.child["right"][old], "left")
        c  == t.child["right"][y]
        p  == t.parent[y]
        t1 == relink(t, t.parent[old], old, y)
        t2 == IF p = old THEN t1
              ELSE LET u == set_child(set_parent(t1, c, p), p, "left", c)
                   IN  set_parent(set_child(u, y, "right", u.child["right"][old]),
                                  u.child["right"][old], y)
        t3 == [t2 EXCEPT !.parent[y] = t2.parent[old], !.color[y] = t2.color[old]]
        t4 == set_child(t3, y, "left", t3.child["left"][old])
    IN  [t |-> set_parent(t4, t4.child["left"][old], y),
         child |-> c, parent |-> IF p = old THEN y ELSE p, color |-> t.color[y]]

(* rb_erase up to the label color. *)
rb_erase(n) ==
    /\ LET e == IF tree.child["left"][n] = NULL \/ tree.child["right"][n] = NULL
                THEN erase_one(tree, n) ELSE erase_two(tree, n)
       IN  /\ tree' = e.t
           /\ node' = e.child /\ par' = e.parent
           /\ pc' = IF e.color = "black" THEN "erase_color" ELSE "erased"
    /\ arg' = n

(* The erasure of a node a search has found. *)
my_erase(n) ==
    /\ pc = "idle"
    /\ my_search(tree, Key[n]) = n
    /\ deepest' = rb_augment_erase_begin(tree, n)
    /\ rb_erase(n)
    /\ UNCHANGED aug

(* The sibling has a red child: one or two rotations, and done. *)
erase_case_rotate(t, p, d) ==
    LET o  == t.child[Other(d)][p]
        t1 == IF is_red(t, t.child[Other(d)][o]) THEN t
              ELSE rotate(set_color(set_color(t, t.child[d][o], "black"), o, "red"),
                          o, Other(d))
        s  == t1.child[Other(d)][p]
        t2 == set_color(set_color(t1, s, t1.color[p]), p, "black")
    IN  rotate(set_color(t2, t2.child[Other(d)][s], "black"), p, d)

(* A pass of the loop of __rb_erase_color, or its end. *)
__rb_erase_color ==
    /\ pc = "erase_color"
    /\ IF ~is_red(tree, node) /\ node # tree.root
       THEN LET d  == side(tree, par, node)
                s  == tree.child[Other(d)][par]
                t1 == IF is_red(tree, s)
                      THEN rotate(set_color(set_color(tree, s, "black"), par, "red"), par, d)
                      ELSE tree
                o  == t1.child[Other(d)][par]
            IN  /\ IF is_red(t1, t1.child["left"][o]) \/ is_red(t1, t1.child["right"][o])
                   THEN /\ tree' = erase_case_rotate(t1, par, d)
                        /\ node' = tree'.root
                        /\ UNCHANGED par
                   ELSE /\ tree' = set_color(t1, o, "red")
                        /\ node' = par
                        /\ par' = t1.parent[par]
                /\ UNCHANGED pc
       ELSE /\ tree' = IF node = NULL THEN tree ELSE set_color(tree, node, "black")
            /\ pc' = "erased"
            /\ UNCHANGED <<node, par>>
    /\ UNCHANGED <<aug, arg, deepest>>

(* rb_replace_node; the caller has copied the rest of the structure.       *)
rb_replace_node(v, n) ==
    /\ pc = "idle"
    /\ v # n /\ Key[v] = Key[n]
    /\ v \in Linked /\ n \notin Linked
    /\ LET t1 == relink(tree, tree.parent[v], v, n)
           t2 == set_parent(set_parent(t1, t1.child["left"][v], n), t1.child["right"][v], n)
           t3 == [t2 EXCEPT !.parent[n] = t2.parent[v], !.color[n] = t2.color[v],
                            !.child["left"][n] = t2.child["left"][v],
                            !.child["right"][n] = t2.child["right"][v]]
       IN  tree' = forget(t3, v)
    /\ aug' = [aug EXCEPT ![n] = aug[v], ![v] = 0]
    /\ UNCHANGED <<pc, arg, node, par, deepest>>

-----------------------------------------------------------------------------
(* The augmented data.  The callback recomputes a node from its children:  *)
(* here, the number of nodes below it.                                     *)
func(a, n) ==
    LET get(m) == IF m = NULL THEN 0 ELSE a[m]
    IN  [a EXCEPT ![n] = 1 + get(tree.child["left"][n]) + get(tree.child["right"][n])]

rb_augment_insert ==
    /\ pc = "inserted"
    /\ node' = CASE tree.child["left"][arg] # NULL -> tree.child["left"][arg]
                 [] tree.child["left"][arg] = NULL /\ tree.child["right"][arg] # NULL
                      -> tree.child["right"][arg]
                 [] OTHER -> arg
    /\ pc' = "augment"
    /\ UNCHANGED <<tree, aug, arg, par, deepest>>

rb_augment_erase_end ==
    /\ pc = "erased"
    /\ tree' = forget(tree, arg)
    /\ aug' = [aug EXCEPT ![arg] = 0]
    /\ node' = deepest
    /\ par' = NULL /\ arg' = NULL /\ deepest' = NULL
    /\ pc' = IF deepest = NULL THEN "idle" ELSE "augment"

(* A pass of rb_augment_path: a node, then the other child of its parent.  *)
rb_augment_path ==
    /\ pc = "augment"
    /\ LET p == tree.parent[node]
           l == tree.child["left"][p]
           r == tree.child["right"][p]
           a == func(aug, node)
       IN  /\ node' = p
           /\ IF p = NULL
              THEN aug' = a /\ pc' = "idle" /\ arg' = NULL
              ELSE /\ aug' = IF node = l /\ r # NULL THEN func(a, r)
                             ELSE IF l # NULL THEN func(a, l)
                             ELSE a
                   /\ UNCHANGED <<pc, arg>>
    /\ UNCHANGED <<tree, par, deepest>>

-----------------------------------------------------------------------------
rebalance ==
    \/ rb_insert_color
    \/ __rb_erase_color
    \/ rb_augment_insert
    \/ rb_augment_erase_end
    \/ rb_augment_path

Next ==
    \/ \E n \in Nodes : my_insert(n) \/ my_erase(n)
    \/ \E v, n \in Nodes : rb_replace_node(v, n)
    \/ rebalance

Spec == Init /\ [][Next]_vars

-----------------------------------------------------------------------------
(* The pointers agree: a child's parent is the node it hangs on, in the    *)
(* middle of a rebalance too (rb_next climbs these pointers).              *)
LinksAgree ==
    /\ tree.root # NULL => tree.parent[tree.root] = NULL
    /\ \A n \in Linked, d \in Side :
         tree.child[d][n] # NULL => tree.parent[tree.child[d][n]] = n

(* The black nodes on each path below m; node counts once more while       *)
(* __rb_erase_color looks for a place for the black that was lost.         *)
(* A node whose two sides differ has no height: it gets -1000.             *)
heights ==
    LET extra(p, d) ==
          IF pc = "erase_color" /\ node # tree.root /\ p = par /\ d = side(tree, p, node)
          THEN 1 ELSE 0
        below[m \in Ptr] ==
          IF m = NULL THEN 0
          ELSE LET l == below[tree.child["left"][m]] + extra(m, "left")
                   r == below[tree.child["right"][m]] + extra(m, "right")
               IN  IF l # r THEN -1000
                   ELSE l + IF tree.color[m] = "black" THEN 1 ELSE 0
    IN  below

(* Every path from the root to a leaf passes as many black nodes, after    *)
(* every pass of every loop, if the one black that __rb_erase_color has    *)
(* in hand is counted at its node.                                         *)
BlackHeights == heights[tree.root] >= 0

(* A red node has a black parent, but for the node rb_insert_color is at;  *)
(* the node __rb_erase_color is at counts as black, which it will be.      *)
RedsApart ==
    LET red(n) == is_red(tree, n) /\ ~(pc = "erase_color" /\ n = node)
    IN  \A n \in Linked :
          red(n) /\ (n = tree.root \/ red(tree.parent[n])) =>
              pc = "insert_color" /\ n = node

(* rb_first and rb_next visit the nodes in the order of the tree, rb_last  *)
(* and rb_prev in the opposite order, whenever the loops have ended.       *)
Traversal ==
    pc \notin {"insert_color", "erase_color"} =>
        LET s == inorder(tree)
            at(i) == IF i \in DOMAIN s THEN s[i] ELSE NULL
        IN  /\ rb_end(tree, "left") = at(1)
            /\ rb_end(tree, "right") = at(Len(s))
            /\ \A i \in DOMAIN s : /\ rb_step(tree, s[i], "right") = at(i + 1)
                                   /\ rb_step(tree, s[i], "left") = at(i - 1)

(* "Update the tree to account for both the new entry and any damage done  *)
(* by rebalance": when a call returns, what the callback keeps is right in *)
(* every node, though only one path and its siblings were recomputed.      *)
Augmented ==
    pc = "idle" =>
        LET size[m \in Ptr] ==
              IF m = NULL THEN 0
              ELSE 1 + size[tree.child["left"][m]] + size[tree.child["right"][m]]
        IN  \A n \in Linked : aug[n] = size[n]

(* The tree is a sorted list: a rotation never changes the order, an       *)
(* insertion or an erasure changes it by one node.                         *)
Sorted == INSTANCE SortedList WITH order <- inorder(tree)
ImplementsSortedList == Sorted!Spec
=============================================================================
