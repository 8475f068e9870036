------------------------------ MODULE ListSpec ------------------------------
(***************************************************************************)
(* What the lists of list/gap_mclist.h promise: every head has a sequence  *)
(* of entries, and an entry is on at most one list and only once.          *)
(***************************************************************************)
EXTENDS Naturals, Sequences

CONSTANT Nodes

VARIABLE lists          \* from the heads to their entries

Init == lists = [h \in {} |-> <<>>]

On(l) == DOMAIN l \cup UNION {{l[h][k] : k \in DOMAIN l[h]} : h \in DOMAIN l}

(* The lists without an entry, and with one entry put on the list of h. *)
Without(l, e) == [h \in DOMAIN l |-> SelectSeq(l[h], LAMBDA x : x # e)]
Puts(l, e, h) == {[l EXCEPT ![h] = <<e>> \o @], [l EXCEPT ![h] = @ \o <<e>>]}

NewHead(l, x) == lists' = [h \in DOMAIN l \cup {x} |-> IF h = x THEN <<>> ELSE l[h]]

Replace(l, old, x) ==
    IF old \in DOMAIN l
    THEN lists' = [h \in (DOMAIN l \ {old}) \cup {x} |-> l[IF h = x THEN old ELSE h]]
    ELSE lists' = [h \in DOMAIN l |-> [k \in DOMAIN l[h] |-> IF l[h][k] = old THEN x ELSE l[h][k]]]

ReplaceInit(l, old, x) ==
    /\ old \in DOMAIN l
    /\ lists' = [h \in DOMAIN l \cup {x} |->
                   IF h = x THEN l[old] ELSE IF h = old THEN <<>> ELSE l[h]]

Next ==
    LET l == lists
        O == On(l)
    IN  \/ \E x \in Nodes \ O :
             \/ NewHead(l, x)
             \/ \E h \in DOMAIN l : lists' \in Puts(l, x, h)
             \/ \E old \in O : Replace(l, old, x) \/ ReplaceInit(l, old, x)
        \/ \E e \in O \ DOMAIN l :
             \/ lists' = Without(l, e)
             \/ \E h \in DOMAIN l : lists' \in Puts(Without(l, e), e, h)

Spec == Init /\ [][Next]_lists
=============================================================================
