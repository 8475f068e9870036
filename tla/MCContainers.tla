---------------------------- MODULE MCContainers ----------------------------
(***************************************************************************)
(* The circular lists (List), and the four programs over search trees:     *)
(* rbtree-test.c (RbTree), the timer queue (TimerQueue), avltree.c and     *)
(* splay.c; further the list and the stack of go/study0507 (GoList,        *)
(* GoStack), sort.c (Sorting) and base64.c (Base64).  A behaviour is one   *)
(* of one of them; the variables of the others keep their first values.    *)
(***************************************************************************)
EXTENDS List, Integers, FiniteSets

CONSTANTS
    n1, n2, n3, n4,
    MCKeys,     \* the number of keys of RbTree, in any order
    Timers,     \* and of TimerQueue
    MainNodes,  \* the number of nodes that main of rbtree-test.c inserts
    MaxErased,  \* and how many of them it erases
    RbNodes, RbKey,     \* the nodes of RbTree and TimerQueue with their keys
    AvlVals, SplayVals  \* the values of the AVL tree and of the splay tree

CONSTANTS GoLists, Elements, nil, StackSize, StackValues, SortValues, MaxSize, Bytes, MaxData

VARIABLES
    program,
    tree, aug, pc, arg, node, par, deepest, next,
    avl, avl_made, avl_root, avl_pc, avl_current,
    splay, splay_live, splay_root, splay_pc, splay_op, splay_v, splay_T, splay_found,
    ring, list, len, meant, revived,
    stack, pushed, popped, panicked,
    arr, given, at,
    plain, coded, decoded, tmp, doing64

MCListNodes == {n1, n2, n3, n4}

(* The keys of rbtree-test.c are strings, those of the numbers from 1 on,  *)
(* which strcmp puts in the order 1, 10, 11, ..., 2, 20, ...  Node 0 has   *)
(* the key of node 2: it can take its place, and as timers the two expire  *)
(* together.                                                               *)
MCTreeNodes == 0..MainNodes
strcmp_rank(n) == IF n < 10 THEN 11 * n ELSE 11 * (n \div 10) + 1 + (n % 10)
MCKey == [n \in MCTreeNodes |-> strcmp_rank(IF n = 0 THEN 2 ELSE n)]
MCAvlVals == 1..8
MCSplayVals == 1..4

Rb == INSTANCE TimerQueue WITH Nodes <- RbNodes, Key <- RbKey

Avl == INSTANCE AvlTree WITH
    Vals <- AvlVals, t <- avl, made <- avl_made, root <- avl_root,
    pc <- avl_pc, current <- avl_current

Splay == INSTANCE SplayTree WITH
    Vals <- SplayVals, t <- splay, live <- splay_live, root <- splay_root,
    pc <- splay_pc, op <- splay_op, v <- splay_v, T <- splay_T, found <- splay_found

Go == INSTANCE GoList
GoS == INSTANCE GoStack
Sort == INSTANCE Sorting
B64 == INSTANCE Base64

listVars == <<m, heads, entries, walk>>
rbVars == <<tree, aug, pc, arg, node, par, deepest, next>>
avlVars == <<avl, avl_made, avl_root, avl_pc, avl_current>>
splayVars == <<splay, splay_live, splay_root, splay_pc, splay_op, splay_v, splay_T, splay_found>>
goVars == <<ring, list, len, meant, revived, stack, pushed, popped, panicked>>
sortVars == <<arr, given, at>>
base64Vars == <<plain, coded, decoded, tmp, doing64>>
treeVars == <<rbVars, avlVars, splayVars>>
pureVars == <<goVars, sortVars, base64Vars>>
allVars == <<program, listVars, treeVars, pureVars>>

(* Bounds on RbTree: few nodes in any order, or more of them the way main  *)
(* does it, inserted in the order of their numbers before some of them are *)
(* erased.                                                                 *)
fewNodes(max) == Rb!Linked' \subseteq 0..max
mainOrder ==
    LET old == Rb!Linked
        new == Rb!Linked'
        k   == Cardinality(new)
    IN  \/ new = old
        \/ new = 1..k /\ old = 1..(k - 1)
        \/ new \subseteq old /\ k >= MainNodes - MaxErased

InitContainers ==
    /\ program \in {"list", "rbtree", "rbtree_main", "timerqueue", "avltree", "splaytree",
                   "golist", "gostack", "sort", "base64"}
    /\ Init
    /\ Rb!InitQueue
    /\ Avl!Init /\ (program # "avltree" => avl_root = 1)
    /\ Splay!Init
    /\ Go!GoListInit /\ GoS!GoStackInit
    /\ IF program = "sort" THEN Sort!SortInit
       ELSE given = <<>> /\ arr = given /\ at = Sort!At("bubble", 0, -1, 0)
    /\ IF program = "base64" THEN B64!Base64Init
       ELSE plain = <<>> /\ coded = <<>> /\ decoded = <<>> /\ tmp = 0 /\ doing64 = "encode"

NextContainers ==
    /\ UNCHANGED program
    /\ \/ /\ program = "list" /\ Next
          /\ UNCHANGED <<treeVars, pureVars>>
       \/ /\ program = "rbtree" /\ Rb!Next /\ fewNodes(MCKeys)
          /\ UNCHANGED <<next, listVars, avlVars, splayVars, pureVars>>
       \/ /\ program = "rbtree_main" /\ Rb!Next /\ mainOrder
          /\ UNCHANGED <<next, listVars, avlVars, splayVars, pureVars>>
       \/ /\ program = "timerqueue" /\ Rb!NextQueue /\ fewNodes(Timers)
          /\ UNCHANGED <<listVars, avlVars, splayVars, pureVars>>
       \/ /\ program = "avltree" /\ Avl!Next
          /\ UNCHANGED <<listVars, rbVars, splayVars, pureVars>>
       \/ /\ program = "splaytree" /\ Splay!Next
          /\ UNCHANGED <<listVars, rbVars, avlVars, pureVars>>
       \/ /\ program = "golist" /\ Go!GoListNext
          /\ UNCHANGED <<listVars, treeVars, stack, pushed, popped, panicked, sortVars, base64Vars>>
       \/ /\ program = "gostack" /\ GoS!GoStackNext
          /\ UNCHANGED <<listVars, treeVars, ring, list, len, meant, revived, sortVars, base64Vars>>
       \/ /\ program = "sort" /\ Sort!SortNext
          /\ UNCHANGED <<listVars, treeVars, goVars, base64Vars>>
       \/ /\ program = "base64" /\ B64!Base64Next
          /\ UNCHANGED <<listVars, treeVars, goVars, sortVars>>

(* A walk over a list, a command of splay.c, or a sort, that has begun     *)
(* goes on.                                                                *)
SpecContainers ==
    /\ InitContainers /\ [][NextContainers]_allVars
    /\ WF_listVars(body) /\ WF_splayVars(Splay!Splay) /\ WF_splayVars(Splay!Erase)
    /\ WF_sortVars(program = "sort" /\ Sort!SortNext)

-----------------------------------------------------------------------------
inRbTree == program \in {"rbtree", "rbtree_main", "timerqueue"}
inAvl == program = "avltree"
inSplay == program = "splaytree"

(* A child's parent is the node it hangs on, after every pass of every     *)
(* loop of every tree: no rotation of rbtree.c, avltree.c or splay.c loses *)
(* a subtree or leaves a pointer to no node.  rb_first, rb_next, rb_last   *)
(* and rb_prev, which climb these pointers, visit the nodes in order.      *)
PointersAgree ==
    /\ inRbTree => Rb!TypeOK /\ Rb!LinksAgree /\ Rb!Traversal
    /\ inAvl => Avl!TypeOK /\ Avl!LinksAgree
    /\ inSplay => Splay!TypeOK /\ Splay!LinksAgree

(* The trees are balanced.  In rbtree.c all paths have as many black nodes *)
(* and no red node has a red child, up to the one place where a loop is at *)
(* work; in avltree.c the heights are right and differ by at most one      *)
(* outside the path that insert still has to climb.                        *)
TreesBalanced ==
    /\ inRbTree => Rb!BlackHeights /\ Rb!RedsApart
    /\ inAvl => Avl!Balanced

(* What a call leaves beside the tree is right: the data that the callback *)
(* of rb_augment_path keeps in every node, head->next of the timer queue,  *)
(* the root that insert of avltree.c returns, root of splay.c and the      *)
(* value that is splayed there.  The failing calls are to insert the value *)
(* of the root again (avltree.c) and to erase the last node (splay.c).     *)
(* list.go and stack.go hold what they were given, up to the removal of an *)
(* element that Init dropped and the push onto a full stack; sort.c sorts, *)
(* and base64.c gives back what it encoded.                                *)
CallsLeaveRight ==
    /\ program \in {"rbtree", "rbtree_main"} => Rb!Augmented
    /\ program = "timerqueue" => Rb!NextIsFirst /\ Rb!NextIsLinked
    /\ inAvl => Avl!ReturnsRoot /\ Avl!CrashOnlyAtRoot
    /\ inSplay => Splay!RootIsTop /\ Splay!Splayed /\ Splay!CrashOnlyAlone
    /\ program = "golist" => Go!GoListsRight
    /\ program = "gostack" => GoS!StackRight
    /\ program = "sort" => Sort!Sorts
    /\ program = "base64" => B64!Base64Right

(* Every tree is a sorted list: a rotation never changes the order, and an *)
(* insertion or an erasure changes it by its own node; timers that expire  *)
(* together stay in the order in which they were added.                    *)
ImplementSortedList ==
    Rb!ImplementsSortedList /\ Avl!ImplementsSortedList /\ Splay!ImplementsSortedList

(* A walk over a list ends while its body removes and moves entries, and   *)
(* so do every command of splay.c, each pass of Splay lifting the node,    *)
(* and both functions of sort.c.                                           *)
CallsEnd == WalkEnds /\ Splay!CommandsEnd /\ (program = "sort" => Sort!SortsEnd)
=============================================================================
