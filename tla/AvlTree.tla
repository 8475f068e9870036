------------------------------ MODULE AvlTree ------------------------------
(***************************************************************************)
(* The AVL tree of tree/avltree.c.  A node is named by its value.  A step  *)
(* is one pass of the loop of insert that climbs to the root; the code's   *)
(* two mirrored rotations have a side d here.                              *)
(***************************************************************************)
EXTENDS Integers, Sequences, FiniteSets

CONSTANTS
    Vals,       \* the values that are inserted
    NULL

Ptr == Vals \cup {NULL}
Side == {"left", "right"}

VARIABLES
    t,          \* the members of the nodes
    made,       \* the nodes that make_node has made
    root,       \* the caller's variable
    pc, current

vars == <<t, made, root, pc, current>>

TypeOK ==
    /\ t \in [child : [Side -> [Vals -> Ptr]], parent : [Vals -> Ptr], height : [Vals -> 1..Cardinality(Vals)]]
    /\ made \subseteq Vals
    /\ root \in Ptr
    /\ pc \in {"idle", "climb", "crash"}
    /\ current \in Ptr

(* main: the first node. *)
Init ==
    /\ t = [child |-> [d \in Side |-> [v \in Vals |-> NULL]],
            parent |-> [v \in Vals |-> NULL], height |-> [v \in Vals |-> 1]]
    /\ \E v \in Vals : made = {v} /\ root = v
    /\ pc = "idle"
    /\ current = NULL

-----------------------------------------------------------------------------
Other(d) == IF d = "left" THEN "right" ELSE "left"

height(s, n) == IF n = NULL THEN 0 ELSE s.height[n]

adjust_height(s, n) ==
    LET l == height(s, s.child["left"][n])
        r == height(s, s.child["right"][n])
    IN  [s EXCEPT !.height[n] = 1 + IF l > r THEN l ELSE r]

(* Mutant: the two heights are adjusted from the top. *)
rotate_top_down(s, n, d) ==
    LET new == s.child[Other(d)][n]
        mid == s.child[d][new]
        p   == s.parent[n]
        s1  == IF p = NULL THEN s
               ELSE [s EXCEPT !.child[IF s.child[d][p] = n THEN d ELSE Other(d)][p] = new]
        s2  == [s1 EXCEPT !.parent[new] = p, !.parent[n] = new,
                          !.child[Other(d)][n] = mid, !.child[d][new] = n]
        s3  == IF mid = NULL THEN s2 ELSE [s2 EXCEPT !.parent[mid] = n]
    IN  adjust_height(adjust_height(s3, new), n)

(* rotate_left and rotate_right: n goes down on side d, and the heights    *)
(* are set from the bottom up.                                             *)
rotate(s, n, d) ==
    LET new == s.child[Other(d)][n]
        mid == s.child[d][new]
        p   == s.parent[n]
        s1  == IF p = NULL THEN s
               ELSE [s EXCEPT !.child[IF s.child[d][p] = n THEN d ELSE Other(d)][p] = new]
        s2  == [s1 EXCEPT !.parent[new] = p, !.parent[n] = new,
                          !.child[Other(d)][n] = mid, !.child[d][new] = n]
        s3  == IF mid = NULL THEN s2 ELSE [s2 EXCEPT !.parent[mid] = n]
    IN  adjust_height(adjust_height(s3, n), new)

(* n is too heavy on side d. *)
lift(s, n, d) ==
    LET c == s.child[d][n]
    IN  IF height(s, s.child[d][c]) > height(s, s.child[Other(d)][c])
        THEN rotate(s, n, Other(d))
        ELSE rotate(rotate(s, c, d), n, Other(d))

excess(s, n, d) == height(s, s.child[d][n]) - height(s, s.child[Other(d)][n])

balance(s, n) ==
    IF excess(s, n, "left") > 1 THEN lift(s, n, "left")
    ELSE IF excess(s, n, "right") > 1 THEN lift(s, n, "right")
    ELSE s

(* The side on which v belongs below n. *)
toward(v, n) == IF v < n THEN "left" ELSE "right"

(* find, and the way down of insert: the node with this value, or the one  *)
(* below which it belongs.                                                 *)
find(v) ==
    LET go[n \in Vals] ==
          IF n = v \/ t.child[toward(v, n)][n] = NULL THEN n
          ELSE go[t.child[toward(v, n)][n]]
    IN  go[root]

(* insert, down to the node and make_node.  A value that is in the tree    *)
(* is not inserted again, but the climb is made.                           *)
insert(v) ==
    /\ pc = "idle"
    /\ LET n == find(v)
       IN  IF n = v THEN UNCHANGED <<t, made>>
           ELSE /\ t' = [t EXCEPT !.child[toward(v, n)][n] = v, !.parent[v] = n,
                                  !.height[v] = 1, !.child["left"][v] = NULL,
                                  !.child["right"][v] = NULL]
                /\ made' = made \cup {v}
    /\ current' = v
    /\ pc' = "climb"
    /\ UNCHANGED root

(* A pass of the loop.  The parent is not tested before the first one: to  *)
(* insert the root's value again reads through a null pointer.             *)
climb ==
    /\ pc = "climb"
    /\ LET n == t.parent[current]
           s == balance(adjust_height(t, n), n)
           c == IF s.parent[n] = t.parent[n] THEN n ELSE s.parent[n]
       IN  IF n = NULL
           THEN pc' = "crash" /\ UNCHANGED <<t, root, current>>
           ELSE /\ t' = s
                /\ IF s.parent[c] = NULL
                   THEN root' = c /\ pc' = "idle" /\ current' = NULL
                   ELSE current' = c /\ UNCHANGED <<root, pc>>
    /\ UNCHANGED made

Next == (\E v \in Vals : insert(v)) \/ climb

Spec == Init /\ [][Next]_vars

-----------------------------------------------------------------------------
(* The node at the top, which root does not point to while insert climbs.  *)
top == CHOOSE n \in made : t.parent[n] = NULL

inorder ==
    LET go[n \in Ptr] ==
          IF n = NULL THEN <<>> ELSE go[t.child["left"][n]] \o <<n>> \o go[t.child["right"][n]]
    IN  go[top]

depth ==
    LET go[n \in Ptr] ==
          IF n = NULL THEN 0
          ELSE LET l == go[t.child["left"][n]]
                   r == go[t.child["right"][n]]
               IN  1 + IF l > r THEN l ELSE r
    IN  go

above(n) ==
    LET up[m \in Ptr] == IF m = NULL THEN {} ELSE {m} \cup up[t.parent[m]] IN up[n]

(* The height member is the height and the sides of every node differ by   *)
(* at most one, of all nodes between calls and, while insert climbs, of    *)
(* those it is not below.                                                  *)
Balanced ==
    \A n \in made \ (IF current = NULL THEN {} ELSE above(t.parent[current])) :
        /\ t.height[n] = depth[n]
        /\ excess(t, n, "left") \in -1..1

(* A child's parent is the node it hangs on, and every node is below the   *)
(* top: no rotation loses a subtree.                                       *)
LinksAgree ==
    /\ \A n \in made, d \in Side :
         t.child[d][n] # NULL => t.parent[t.child[d][n]] = n
    /\ \A n \in made : top \in above(n)

(* "insert" returns the node at the top, whatever rotations it made: main  *)
(* goes on with what it returns.                                           *)
ReturnsRoot == pc = "idle" => root = top

(* The call fails for the value of the root and for no other. *)
CrashOnlyAtRoot == pc = "crash" => current = root

(* The tree is a sorted list of values: a new value goes to its place, and *)
(* neither a rotation nor a second insert of a value changes the list.     *)
Sorted == INSTANCE SortedList WITH Nodes <- Vals, Key <- [v \in Vals |-> v], order <- inorder
SortedInit == \E v \in Vals : inorder = <<v>>
SortedNext ==
    LET s == inorder
        after == inorder'
    IN  \E v \in Vals : Sorted!Add(s, after, v)
ImplementsSortedList == SortedInit /\ [][SortedNext]_inorder
=============================================================================
