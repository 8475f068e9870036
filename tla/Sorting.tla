------------------------------ MODULE Sorting ------------------------------
(***************************************************************************)
(* bubble and heap_sort of sort/sort.c, a step per pass of the inner loop  *)
(* of bubble and per call of adjust_heap.  The indices are the code's.     *)
(***************************************************************************)
EXTENDS Integers, FiniteSets

CONSTANTS
    SortValues,     \* the values in an array
    MaxSize         \* a bound on its size

VARIABLES
    arr,            \* the array
    given,          \* what it was at the call
    at              \* step: where the function is; i, k, heap: its variables

sortVars == <<arr, given, at>>

size == Cardinality(DOMAIN given)

At(step, i, k, heap) == [step |-> step, i |-> i, k |-> k, heap |-> heap]

swap(a, x, y) == [a EXCEPT ![x] = a[y], ![y] = a[x]]

SortInit ==
    /\ \E n \in 0..MaxSize : given \in [0..(n - 1) -> SortValues]
    /\ arr = given
    /\ at \in {At("bubble", 0, size - 1, 0), At("build", size \div 2, size \div 2, size)}

-----------------------------------------------------------------------------
(* The inner loop has k for j, the outer one ends at i = size. *)
bubble ==
    /\ at.step = "bubble" /\ at.i < size
    /\ IF at.k > at.i
       THEN /\ arr' = IF arr[at.k - 1] > arr[at.k] THEN swap(arr, at.k - 1, at.k) ELSE arr
            /\ at' = [at EXCEPT !.k = @ - 1]
       ELSE /\ at' = At("bubble", at.i + 1, size - 1, 0)
            /\ UNCHANGED arr
    /\ UNCHANGED given

(* The children of i are 2*i and 2*i + 1 from index 0 on: index 0 is its   *)
(* own left child, and has index 1 as its only other one.                  *)
largest(i, heap) ==
    LET lchild == 2 * i
        rchild == 2 * i + 1
        left == IF lchild < heap /\ arr[lchild] > arr[i] THEN lchild ELSE i
    IN  IF rchild < heap /\ arr[rchild] > arr[left] THEN rchild ELSE left

(* adjust_heap at k, which calls itself at the child it has swapped with,  *)
(* or returns to the loop of build_heap or of heap_sort at next.           *)
adjust_heap(next) ==
    LET max == largest(at.k, at.heap)
    IN  IF at.k <= at.heap \div 2 /\ max # at.k
        THEN arr' = swap(arr, at.k, max) /\ at' = [at EXCEPT !.k = max]
        ELSE at' = next /\ UNCHANGED arr

build_heap ==
    /\ at.step = "build"
    /\ adjust_heap(IF at.i = 0 THEN At("swap", size - 1, 0, size)
                   ELSE At("build", at.i - 1, at.i - 1, size))
    /\ UNCHANGED given

(* The greatest value goes behind the heap, which is adjusted without it. *)
take_greatest ==
    /\ at.step = "swap" /\ at.i >= 0
    /\ arr' = swap(arr, 0, at.i)
    /\ at' = At("sort", at.i, 0, at.i)
    /\ UNCHANGED given

heap_sort ==
    /\ at.step = "sort"
    /\ adjust_heap(At("swap", at.i - 1, 0, at.i))
    /\ UNCHANGED given

SortNext == bubble \/ build_heap \/ take_greatest \/ heap_sort

-----------------------------------------------------------------------------
returned ==
    \/ at.step = "bubble" /\ at.i >= size
    \/ at.step = "swap" /\ at.i < 0

(* A function of sort.c never loses a value, and leaves the array in       *)
(* order; on the way the part that is done is in order and on its side of  *)
(* the rest, and before each swap the greatest value of the heap is at 0.  *)
Sorts ==
    /\ \A v \in SortValues :
          Cardinality({x \in DOMAIN arr : arr[x] = v}) = Cardinality({x \in DOMAIN given : given[x] = v})
    /\ returned => \A x, y \in DOMAIN arr : x < y => arr[x] <= arr[y]
    /\ at.step = "bubble" => \A x, y \in DOMAIN arr : x < y /\ x < at.i => arr[x] <= arr[y]
    /\ at.step \in {"swap", "sort"} => \A x, y \in DOMAIN arr : x < y /\ at.heap <= y => arr[x] <= arr[y]
    /\ at.step = "swap" => \A x \in 0..(at.heap - 1) : arr[x] <= arr[0]

(* Both functions return. *)
SortsEnd == <>returned
=============================================================================
