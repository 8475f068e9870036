----------------------------- MODULE SortedList -----------------------------
(***************************************************************************)
(* What the trees of tree/ promise: a set of nodes kept in the order of    *)
(* their keys, equal keys in the order in which they came.                 *)
(***************************************************************************)
EXTENDS Integers, Sequences
LOCAL INSTANCE SequencesExt
LOCAL INSTANCE Functions

CONSTANTS Nodes, Key

VARIABLE order

Init == order = <<>>

(* From s to t a node n has come, behind those with a key that is not      *)
(* greater and before the others.                                          *)
Add(s, t, n) ==
    /\ Len(t) = Len(s) + 1
    /\ n \notin Range(s)
    /\ \E k \in DOMAIN t :
         /\ t[k] = n /\ t = InsertAt(s, k, n)
         /\ \A i \in 1..(k - 1) : Key[s[i]] <= Key[n]
         /\ \A i \in k..Len(s) : Key[n] < Key[s[i]]

(* A node n has gone. *)
Del(s, t, n) ==
    /\ Len(t) = Len(s) - 1
    /\ \E k \in DOMAIN s : s[k] = n /\ t = RemoveAt(s, k)

(* Another node has taken the place of one with the same key. *)
Replace(s, t) ==
    /\ Len(t) = Len(s) /\ t # s
    /\ \E k \in DOMAIN s :
         /\ t = [s EXCEPT ![k] = t[k]]
         /\ t[k] \in Nodes \ Range(s) /\ Key[t[k]] = Key[s[k]]

Next ==
    LET s == order
        t == order'
    IN  \/ \E n \in Nodes : Add(s, t, n) \/ Del(s, t, n)
        \/ Replace(s, t)

Spec == Init /\ [][Next]_order
=============================================================================
