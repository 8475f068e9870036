------------------------------ MODULE GzStream ------------------------------
(***************************************************************************)
(* What zlib.h promises a program that reads through the gz* calls: a      *)
(* stream of bytes with a position.  "ahead" is what the following reads   *)
(* return, "tell" the position gztell() reports.  How the bytes are stored *)
(* (raw, compressed, several members) is not visible here.                 *)
(***************************************************************************)
EXTENDS Integers, Sequences

VARIABLES content,    \* the uncompressed bytes of the file
          damaged,    \* some part of the file cannot be read or decoded
          ahead,      \* the bytes the next reads return, pushed ones first
          tell,       \* the offset of the first byte of ahead
          last,       \* what the last call asked for and was given
          over        \* closed, or a call has failed: nothing is promised

streamVars == <<content, damaged, ahead, tell, last, over>>

Newline == 10

From(q, n) == SubSeq(q, n + 1, Len(q))

\* How many bytes of q a read of n bytes takes, and a read of a line of n.
Taken(q, n) == IF n < Len(q) THEN n ELSE Len(q)
Line(q, n) == LET ends == {i \in 1 .. Taken(q, n) : q[i] = Newline}
              IN IF ends = {} THEN Taken(q, n)
                 ELSE CHOOSE i \in ends : \A j \in ends : i <= j

StreamInit == /\ ahead = content
              /\ tell = 0
              /\ last = [kind |-> "none", asked |-> 0, got |-> <<>>]
              /\ over = FALSE

\* A position past the end falls back to the end when nothing can be read.
Settled(t) == IF ahead = <<>> THEN {t, Len(content)} ELSE {t}

Read == LET n == IF last'.kind = "line" THEN Line(ahead, last'.asked)
                                        ELSE Taken(ahead, last'.asked)
        IN /\ last'.kind \in {"read", "line"}
           /\ last'.got = SubSeq(ahead, 1, n)
           /\ ahead' = From(ahead, n)
           /\ tell' \in {t + n : t \in Settled(tell)}
           /\ UNCHANGED over

Push == /\ last'.kind = "push"
        /\ ahead' = last'.got \o ahead
        /\ tell' \in {t - Len(last'.got) : t \in Settled(tell)}
        /\ UNCHANGED over

\* A seek lands on the offset asked for, forward also over pushed bytes.  One
\* to before the start fails and leaves the stream at an offset not further on.
Seek == LET to == IF last'.kind = "SET" THEN last'.asked ELSE tell + last'.asked
        IN /\ last'.kind \in {"SET", "CUR"}
           /\ \/ to >= 0 /\ tell' = to /\ ahead' = From(content, to)
              \/ to >= tell /\ tell' = to /\ ahead' = From(ahead, to - tell)
              \/ to < 0 /\ tell' \in 0..tell /\ ahead' = From(content, tell')
              \/ to < 0 /\ UNCHANGED <<tell, ahead>>
           /\ UNCHANGED over

\* Only a damaged file, or a push the buffer has no room for, may fail; a
\* "stray" call is one whose answer the implementation does not vouch for.
Ends == /\ damaged \/ last'.kind \in {"push", "close", "stray"}
        /\ over' = TRUE

StreamNext == /\ ~over
              /\ Read \/ Push \/ Seek \/ Ends
              /\ UNCHANGED <<content, damaged>>
StreamSpec == StreamInit /\ [][StreamNext]_streamVars
=============================================================================
