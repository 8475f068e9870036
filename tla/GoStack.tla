------------------------------ MODULE GoStack ------------------------------
(***************************************************************************)
(* The stack of go/study0507/stack/stack.go: an array and the number of    *)
(* values in it.                                                           *)
(***************************************************************************)
EXTENDS Integers, Sequences

CONSTANTS
    StackSize,      \* the length of array, 10 in the code
    StackValues

VARIABLES
    stack,          \* i and array
    pushed,         \* the values that were pushed and not popped
    popped,         \* the last value Pop returned, and the one it should have
    panicked

goStackVars == <<stack, pushed, popped, panicked>>

GoStackInit ==
    /\ stack = [i |-> 0, array |-> [k \in 0..(StackSize - 1) |-> 0]]
    /\ pushed = <<>>
    /\ popped = <<0, 0>>
    /\ panicked = FALSE

(* The test lets i = StackSize through; the index is then out of range and *)
(* the program stops.                                                      *)
Push(value) ==
    /\ ~panicked
    /\ IF stack.i > StackSize THEN UNCHANGED goStackVars
       ELSE IF stack.i = StackSize
       THEN panicked' = TRUE /\ UNCHANGED <<stack, pushed, popped>>
       ELSE /\ stack' = [i |-> stack.i + 1, array |-> [stack.array EXCEPT ![stack.i] = value]]
            /\ pushed' = Append(pushed, value)
            /\ UNCHANGED <<popped, panicked>>

Pop ==
    /\ ~panicked
    /\ IF stack.i < 1
       THEN popped' = <<0, 0>> /\ UNCHANGED <<stack, pushed>>
       ELSE /\ stack' = [stack EXCEPT !.i = @ - 1]
            /\ popped' = <<stack.array[stack.i - 1], pushed[Len(pushed)]>>
            /\ pushed' = SubSeq(pushed, 1, Len(pushed) - 1)
    /\ UNCHANGED panicked

GoStackNext == Pop \/ \E value \in StackValues : Push(value)

-----------------------------------------------------------------------------
(* Pop returns the value pushed last, after any sequence of calls, values  *)
(* left behind in the array included.  i never passes the length of the    *)
(* array, so that Push never says "Stack is full": the program panics      *)
(* instead, when the array is full and only then.                          *)
StackRight ==
    /\ stack.i = Len(pushed)
    /\ \A k \in 1..Len(pushed) : stack.array[k - 1] = pushed[k]
    /\ popped[1] = popped[2]
    /\ panicked => Len(pushed) = StackSize
=============================================================================
