----------------------------- MODULE SplayTree -----------------------------
(***************************************************************************)
(* The splay tree of tree/splaytree/splay.c and the commands its main      *)
(* reads.  A node is named by its value.  A step is one pass of the loop   *)
(* of Splay; the two mirrored rotations have a side d here.                *)
(***************************************************************************)
EXTENDS Integers, Sequences

CONSTANTS
    Vals,       \* the values that are read
    NULL

Ptr == Vals \cup {NULL}
Side == {"l", "r"}

VARIABLES
    t,          \* the members of the nodes
    live,       \* the nodes that are allocated
    root,
    pc, op, v,  \* the command that runs and its value
    T,          \* the argument of Splay
    found       \* what the last command told its caller

vars == <<t, live, root, pc, op, v, T, found>>

TypeOK ==
    /\ t \in [c : [Side -> [Vals -> Ptr]], p : [Vals -> Ptr]]
    /\ live \subseteq Vals
    /\ root \in live \cup {NULL}
    /\ pc \in {"idle", "splay", "unlink", "crash"}
    /\ op \in {"Insert", "Find", "Erase"}
    /\ v \in Ptr
    /\ T \in live \cup {NULL}
    /\ found \in BOOLEAN

Init ==
    /\ t = [c |-> [d \in Side |-> [n \in Vals |-> NULL]], p |-> [n \in Vals |-> NULL]]
    /\ live = {}
    /\ root = NULL /\ v = NULL /\ T = NULL
    /\ pc = "idle"
    /\ op = "Find"
    /\ found = FALSE

-----------------------------------------------------------------------------
Other(d) == IF d = "l" THEN "r" ELSE "l"

(* leftRotate and rightRotate: P goes down on side d. *)
rotate(s, P, d) ==
    LET N  == s.c[Other(d)][P]
        B  == s.c[d][N]
        D  == s.p[P]
        s1 == IF D = NULL THEN s
              ELSE [s EXCEPT !.c[IF s.c["r"][D] = P THEN "r" ELSE "l"][D] = N]
        s2 == IF B = NULL THEN s1 ELSE [s1 EXCEPT !.p[B] = P]
    IN  [s2 EXCEPT !.p[N] = D, !.c[d][N] = P, !.p[P] = N, !.c[Other(d)][P] = B]

(* The side of p on which n hangs, as the code tests it. *)
side(s, p, n) == IF s.c["l"][p] = n THEN "l" ELSE "r"

(* Mutant: the zig is left out. *)
pass_nozig(s, n) ==
    LET p  == s.p[n]
        pp == s.p[p]
        d  == side(s, p, n)
        e  == side(s, pp, p)
    IN  IF pp = NULL THEN s
        ELSE IF d = e THEN rotate(rotate(s, pp, Other(e)), p, Other(d))
        ELSE rotate(rotate(s, p, Other(d)), pp, Other(e))

(* One pass of the loop of Splay: zig below the root, otherwise zigzig     *)
(* from the top or zigzag from the bottom.                                 *)
pass(s, n) ==
    LET p  == s.p[n]
        pp == s.p[p]
        d  == side(s, p, n)
        e  == side(s, pp, p)
    IN  IF pp = NULL THEN rotate(s, p, Other(d))
        ELSE IF d = e THEN rotate(rotate(s, pp, Other(e)), p, Other(d))
        ELSE rotate(rotate(s, p, Other(d)), pp, Other(e))

(* The side on which x belongs below n. *)
toward(x, n) == IF x < n THEN "l" ELSE "r"

(* The way down of Insert and Find: the node with the value, or the last   *)
(* one on the way to it.                                                   *)
last(x) ==
    LET go[n \in Vals] ==
          IF n = x \/ t.c[toward(x, n)][n] = NULL THEN n ELSE go[t.c[toward(x, n)][n]]
    IN  go[root]

(* Insert: a value that is there is not added, but its node is splayed. *)
Insert(x) ==
    /\ pc = "idle"
    /\ op' = "Insert" /\ v' = x /\ found' = TRUE
    /\ live' = live \cup {x}
    /\ IF root = NULL
       THEN /\ t' = [t EXCEPT !.c["l"][x] = NULL, !.c["r"][x] = NULL, !.p[x] = NULL]
            /\ root' = x
            /\ UNCHANGED <<pc, T>>
       ELSE /\ LET n == last(x)
               IN  t' = IF n = x THEN t
                        ELSE [t EXCEPT !.c[toward(x, n)][n] = x, !.p[x] = n,
                                       !.c["l"][x] = NULL, !.c["r"][x] = NULL]
            /\ T' = x
            /\ pc' = "splay"
            /\ UNCHANGED root

(* Find, and the call of it in Erase, up to the call of Splay. *)
Find(x, o) ==
    /\ pc = "idle"
    /\ op' = o /\ v' = x
    /\ IF root = NULL
       THEN found' = FALSE /\ UNCHANGED <<pc, T>>
       ELSE pc' = "splay" /\ T' = last(x) /\ UNCHANGED found
    /\ UNCHANGED <<t, live, root>>

(* Splay, and at its end what the callers do with the node: Insert         *)
(* returns, Find tells whether it has the value, and Erase goes on when it *)
(* does (its second call of Splay finds the node at the top).              *)
Splay ==
    /\ pc = "splay"
    /\ IF t.p[T] # NULL
       THEN t' = pass(t, T) /\ UNCHANGED <<root, pc, T, found>>
       ELSE /\ root' = T
            /\ T' = NULL
            /\ found' = (T = v)
            /\ pc' = IF op = "Erase" /\ T = v THEN "unlink" ELSE "idle"
            /\ UNCHANGED t
    /\ UNCHANGED <<live, op, v>>

(* The rightmost node at or below n. *)
rightmost(n) ==
    LET go[m \in Vals] == IF t.c["r"][m] = NULL THEN m ELSE go[t.c["r"][m]] IN go[n]

(* The rest of Erase: the node is at the top and goes away.  The code      *)
(* writes through the new root, which is null when the node was alone.     *)
Erase ==
    /\ pc = "unlink"
    /\ LET l == t.c["l"][root]
           r == t.c["r"][root]
       IN  IF l = NULL /\ r = NULL
           THEN pc' = "crash" /\ root' = NULL /\ UNCHANGED <<t, live>>
           ELSE /\ pc' = "idle"
                /\ live' = live \ {root}
                /\ root' = IF l = NULL THEN r ELSE l
                /\ t' = IF l = NULL THEN [t EXCEPT !.p[r] = NULL]
                        ELSE IF r = NULL THEN [t EXCEPT !.p[l] = NULL]
                        ELSE [t EXCEPT !.c["r"][rightmost(l)] = r, !.p[r] = rightmost(l),
                                       !.p[l] = NULL]
    /\ UNCHANGED <<op, v, T, found>>

Next ==
    \/ \E x \in Vals : Insert(x) \/ Find(x, "Find") \/ Find(x, "Erase")
    \/ Splay
    \/ Erase

Spec == Init /\ [][Next]_vars /\ WF_vars(Splay) /\ WF_vars(Erase)

-----------------------------------------------------------------------------
(* The node at the top, which root does not point to while Splay runs. *)
tops == {n \in live : t.p[n] = NULL}
top == IF live = {} THEN NULL ELSE CHOOSE n \in live : t.p[n] = NULL

inorder ==
    LET go[n \in Ptr] ==
          IF n = NULL THEN <<>> ELSE go[t.c["l"][n]] \o <<n>> \o go[t.c["r"][n]]
    IN  go[top]

(* A child's parent is the node it hangs on, a parent has the node as a    *)
(* child, only nodes that are allocated are linked, and one has no parent. *)
LinksAgree ==
    /\ \A n \in live, d \in Side :
         t.c[d][n] # NULL => t.c[d][n] \in live /\ t.p[t.c[d][n]] = n
    /\ \A n \in live :
         t.p[n] # NULL => t.p[n] \in live /\ \E d \in Side : t.c[d][t.p[n]] = n
    /\ \E n \in Ptr : tops \subseteq {n}

(* Between commands root is the top, so that the next one sees all nodes. *)
RootIsTop == pc = "idle" => root = top

(* After Insert and Find the value is at the top if it is in the tree;     *)
(* otherwise a value next to it is, no value of the tree lies between      *)
(* them, and the caller was told that it is not there.                     *)
Splayed ==
    pc = "idle" /\ root # NULL /\ (op # "Erase" \/ ~found) =>
        /\ found = (v \in live)
        /\ v \in live => root = v
        /\ \A n \in live : ~(root < n /\ n < v) /\ ~(v < n /\ n < root)

(* Erase fails for the last node of the tree and never otherwise. *)
CrashOnlyAlone == pc = "crash" => live = {v}

(* The tree is a sorted list: Insert adds a value, Erase takes away its    *)
(* own value and no other, and neither Find nor a rotation changes it.     *)
Sorted == INSTANCE SortedList WITH Nodes <- Vals, Key <- [x \in Vals |-> x], order <- inorder
SortedNext ==
    LET s == inorder
        after == inorder'
    IN  \/ op' = "Insert" /\ Sorted!Add(s, after, v')
        \/ op = "Erase" /\ found /\ Sorted!Del(s, after, v)
ImplementsSortedList == Sorted!Init /\ [][SortedNext]_inorder

(* Every command but the failing Erase returns: each pass brings the node  *)
(* nearer to the top.                                                      *)
CommandsEnd == pc = "splay" ~> pc \in {"idle", "crash"}
=============================================================================
