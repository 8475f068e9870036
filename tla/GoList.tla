------------------------------- MODULE GoList -------------------------------
(***************************************************************************)
(* The lists of go/study0507/list/list.go: a ring through the root of the  *)
(* list, a counter beside it, and in every element the list it is on.      *)
(* Callers keep their *Element, and so may hand Remove one that is on      *)
(* another list, on none, or that Init has dropped.                        *)
(***************************************************************************)
EXTENDS Integers, Sequences
S == INSTANCE SequencesExt

CONSTANTS
    GoLists,    \* the lists; a list stands for its root too
    Elements,   \* the elements; one that no caller holds can be made anew
    nil

VARIABLES
    ring,       \* next and prev of roots and elements
    list,       \* of each element
    len,        \* of each list
    meant,      \* what the calls asked each list to hold
    revived     \* an element that Init had dropped was removed

goListVars == <<ring, list, len, meant, revived>>

Places == GoLists \cup Elements

GoListTypeOK ==
    /\ ring \in [next : [Places -> Places \cup {nil}], prev : [Places -> Places \cup {nil}]]
    /\ list \in [Elements -> GoLists \cup {nil}]
    /\ len \in [GoLists -> Int]

(* New *)
GoListInit ==
    /\ ring = [next |-> [x \in Places |-> IF x \in GoLists THEN x ELSE nil],
               prev |-> [x \in Places |-> IF x \in GoLists THEN x ELSE nil]]
    /\ list = [e \in Elements |-> nil]
    /\ len = [l \in GoLists |-> 0]
    /\ meant = [l \in GoLists |-> <<>>]
    /\ revived = FALSE

-----------------------------------------------------------------------------
(* An element that can be made: nothing points to it. *)
unused(e) == list[e] = nil /\ \A x \in Places : ring.next[x] # e /\ ring.prev[x] # e

insert(l, e, at) ==
    /\ ring' = LET n == ring.next[at]
                   r1 == [ring EXCEPT !.next[at] = e]
                   r2 == [r1 EXCEPT !.prev[e] = at, !.next[e] = n]
               IN  [r2 EXCEPT !.prev[n] = e]
    /\ list' = [list EXCEPT ![e] = l]
    /\ len' = [len EXCEPT ![l] = @ + 1]

PushBack(l, e) ==
    /\ unused(e)
    /\ insert(l, e, ring.prev[l])
    /\ meant' = [meant EXCEPT ![l] = Append(@, e)]
    /\ UNCHANGED revived

PushPrev(l, e) ==
    /\ unused(e)
    /\ insert(l, e, l)
    /\ meant' = [meant EXCEPT ![l] = <<e>> \o @]
    /\ UNCHANGED revived

remove(l, e) ==
    /\ ring' = LET r1 == [ring EXCEPT !.next[ring.prev[e]] = ring.next[e]]
                   r2 == [r1 EXCEPT !.prev[r1.next[e]] = r1.prev[e]]
               IN  [r2 EXCEPT !.next[e] = nil, !.prev[e] = nil]
    /\ list' = [list EXCEPT ![e] = nil]
    /\ len' = [len EXCEPT ![l] = @ - 1]

(* Another list's element, or one that is on none, is left alone. *)
Remove_(l, e) ==
    IF list[e] = l
    THEN /\ remove(l, e)
         /\ meant' = [meant EXCEPT ![l] = S!Remove(@, e)]
         /\ revived' = (revived \/ ~S!Contains(meant[l], e))
    ELSE UNCHANGED goListVars

(* Init empties a list without telling its elements. *)
Init_(l) ==
    /\ ring' = [ring EXCEPT !.next[l] = l, !.prev[l] = l]
    /\ len' = [len EXCEPT ![l] = 0]
    /\ meant' = [meant EXCEPT ![l] = <<>>]
    /\ UNCHANGED <<list, revived>>

GoListNext ==
    \E l \in GoLists :
       \/ Init_(l)
       \/ \E e \in Elements : PushBack(l, e) \/ PushPrev(l, e) \/ Remove_(l, e)

-----------------------------------------------------------------------------
Front(l) == IF len[l] = 0 THEN nil ELSE ring.next[l]
Back(l) == IF len[l] = 0 THEN nil ELSE ring.prev[l]
Next_(e) == IF list[e] # nil /\ ring.next[e] # list[e] THEN ring.next[e] ELSE nil
Prev_(e) == IF list[e] # nil /\ ring.prev[e] # list[e] THEN ring.prev[e] ELSE nil

(* The elements from Front by Next, as listtest.go prints them, and from   *)
(* Back by Prev.                                                           *)
forward(l) ==
    LET go[k \in 0..len[l]] == IF k = 0 THEN Front(l) ELSE Next_(go[k - 1])
    IN  /\ go[len[l]] = nil
        /\ \A k \in 1..len[l] : go[k - 1] = meant[l][k]
backward(l) ==
    LET go[k \in 0..len[l]] == IF k = 0 THEN Back(l) ELSE Prev_(go[k - 1])
    IN  /\ go[len[l]] = nil
        /\ \A k \in 1..len[l] : go[k - 1] = meant[l][len[l] + 1 - k]

(* Front, Next, Back, Prev and Len of list.go show what the calls put on a *)
(* list and did not take off, whatever elements Remove was handed, as long *)
(* as none of them had been dropped by Init: such an element still names   *)
(* the list, and Remove counts it and puts its neighbours back on.  Even   *)
(* then no nil pointer is followed.                                        *)
GoListsRight ==
    /\ GoListTypeOK
    /\ \A e \in Elements : list[e] # nil => ring.next[e] # nil /\ ring.prev[e] # nil
    /\ \A l \in GoLists : ring.next[ring.prev[l]] # nil
    /\ ~revived => \A l \in GoLists :
                      len[l] = Len(meant[l]) /\ forward(l) /\ backward(l)
=============================================================================
