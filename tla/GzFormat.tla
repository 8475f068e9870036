------------------------------ MODULE GzFormat ------------------------------
(***************************************************************************)
(* The bytes of a file as the gz* calls of zlib see them.  A gzip member   *)
(* is the two magic bytes, its data, and EndOfStream for the end of the    *)
(* deflate stream and its trailer.  BadData is a place where inflate()     *)
(* reports Z_DATA_ERROR, ReadError one where read() fails.                 *)
(***************************************************************************)
EXTENDS Integers, Sequences

Magic == <<31, 139>>
EndOfStream == 256
BadData == 257
ReadError == 258

Rest(q, n) == SubSeq(q, n + 1, Len(q))
Least(a, b) == IF a < b THEN a ELSE b

\* The bytes before the first one that cannot be read.
RawBytes(q) == LET bad == {i \in 1 .. Len(q) : q[i] = ReadError}
               IN IF bad = {} THEN q
                  ELSE SubSeq(q, 1, (CHOOSE i \in bad : \A j \in bad : i <= j) - 1)

\* What the bytes q stand for, member after member: inside one with that many
\* bytes of its header to come, and in front of one (direct: of the file).
RECURSIVE Inflated(_, _)
Members(q, direct) ==
  IF Len(q) > 1 /\ SubSeq(q, 1, 2) = Magic THEN Inflated(q, 2)
  ELSE IF direct THEN RawBytes(q) ELSE <<>>

Inflated(q, header) ==
  IF q = <<>> \/ Head(q) \in {BadData, ReadError} THEN <<>>
  ELSE IF header > 0 THEN Inflated(Tail(q), header - 1)
  ELSE IF Head(q) = EndOfStream THEN Members(Tail(q), FALSE)
  ELSE <<Head(q)>> \o Inflated(Tail(q), 0)
=============================================================================
