------------------------------- MODULE GzWrite ------------------------------
(***************************************************************************)
(* The writing half of zlib's gzFile layer (zlib-1.2.8 gzwrite.c): one     *)
(* file opened for writing, compressed or transparent, any sequence of     *)
(* gzwrite, gzputc, gzprintf, gzseek, gzflush and gzsetparams calls, then  *)
(* gzclose.  write() may fail at any time.                                 *)
(*                                                                         *)
(* deflate() keeps what it is given in "held" and lets go of it when it    *)
(* likes, and of all of it when it is flushed.  A call is a function from  *)
(* a state to the set of states it can end in.                             *)
(***************************************************************************)
EXTENDS GzFormat

CONSTANTS Buffer,     \* state->want, the size of the input buffer
          Texts,      \* the byte strings a caller writes
          MaxOffset,  \* no caller writes or seeks beyond this offset
          MaxFile     \* no caller flushes once the file is this long

VARIABLES w,          \* the gz_state of gzguts.h, and the file it writes
          written,    \* what the calls that succeeded asked to be written
          closed

writeVars == <<w, written, closed>>

\* What malloc() hands out holds any bytes: zeros or Junk.
Junk == 7

Zeros(n) == [i \in 1 .. n |-> 0]
Each(S, F(_)) == UNION {F(x) : x \in S}

\* gz_init: the buffers are allocated.
gz_init(t) == [t EXCEPT !.size = Buffer]

\* Some of the bytes given to write() are written and the rest are not.
Failing(t, bytes) ==
  {[t EXCEPT !.err = "FATAL", !.file = @ \o SubSeq(bytes, 1, k)] :
     k \in {0, Len(bytes) - 1} \cap (0 .. Len(bytes) - 1)}

\* gz_comp: all input goes to the file or into deflate.
gz_comp(t, flush) ==
  LET t1   == [gz_init(t) EXCEPT !.in = <<>>]
      out  == t1.held \o (IF t1.fresh THEN Magic ELSE <<>>) \o t.in
                \o (IF flush = "FINISH" THEN <<EndOfStream>> ELSE <<>>)
      lets == IF flush = "NO" THEN {0, Len(out)} ELSE {Len(out)}
  IN IF t.direct
     THEN {[t1 EXCEPT !.file = @ \o t.in]} \cup Failing(t1, t.in)
     ELSE {[t1 EXCEPT !.file  = @ \o SubSeq(out, 1, k),
                      !.held  = Rest(out, k),
                      !.fresh = (flush = "FINISH")] : k \in lets}
            \cup Failing(t1, out)

\* Mutant: what is in the buffer is forgotten.
Consumed_not(t) == {t}

\* "consume whatever's left in the input buffer"
Consumed(t) == IF t.in # <<>> THEN gz_comp(t, "NO") ELSE {t}

\* The loop of gz_zero: buffers of zeros, cleared once.  With no buffer yet the
\* one clearing clears nothing, and what gz_init allocates is written as it is.
RECURSIVE ZeroOn(_, _, _)
ZeroOn(t, n, cleared) ==
  LET k     == Least(t.size, n)
      bytes == IF cleared THEN {Zeros(k)} ELSE {Zeros(k), [i \in 1 .. k |-> Junk]}
      step(b) == gz_comp([t EXCEPT !.in = b, !.pos = @ + k,
                                   !.stray = @ \/ ~cleared], "NO")
  IN IF n = 0 \/ t.err # "OK" THEN {t}
     ELSE Each(UNION {step(b) : b \in bytes},
               LAMBDA x : ZeroOn(x, n - k, cleared /\ k > 0))

gz_zero(t, n) == Each(Consumed(t), LAMBDA x : ZeroOn(x, n, TRUE))

\* "check for seek request", at the head of each call.
Sought(t) == IF t.seek THEN gz_zero([t EXCEPT !.seek = FALSE, !.skip = 0], t.skip)
             ELSE {t}

\* The loop of gzwrite that copies a small text to the input buffer.
RECURSIVE CopyOn(_, _)
CopyOn(t, text) ==
  LET k  == Least(t.size - Len(t.in), Len(text))
      t1 == [t EXCEPT !.in = @ \o SubSeq(text, 1, k), !.pos = @ + k]
  IN IF t.err # "OK" THEN {t}
     ELSE IF k = Len(text) THEN {t1}
     ELSE Each(gz_comp(t1, "NO"), LAMBDA x : CopyOn(x, Rest(text, k)))

\* gzwrite: a large text is compressed from where it is.
Given(t, text) ==
  IF t.err # "OK" THEN {t}
  ELSE IF Len(text) < t.size THEN CopyOn(t, text)
  ELSE Each(Consumed(t),
            LAMBDA x : IF x.err # "OK" THEN {x}
                       ELSE gz_comp([x EXCEPT !.in = text, !.pos = @ + Len(text)], "NO"))

write(t, text) == Each(Sought(gz_init(t)), LAMBDA x : Given(x, text))

\* The offset gztell() reports, and the file with zeros up to there.
Tell == w.pos + w.skip
Padded == written \o Zeros(Tell - Len(written))

\* A call ends in t; it was to write the text at the offset gztell reported.
Ends(t, text) == /\ w' = t
                 /\ written' = Padded \o text
                 /\ UNCHANGED closed

Open == ~closed /\ w.err = "OK"

gzwrite(text) == /\ Open
                 /\ Tell + Len(text) <= MaxOffset
                 /\ \E t \in write(w, text) : Ends(t, text)

\* gzputc: straight into the buffer while it has room.
gzputc(c) == /\ Open
             /\ Tell < MaxOffset
             /\ \E t \in Sought(w) :
                  \/ t.err # "OK" /\ Ends(t, <<>>)
                  \/ /\ t.err = "OK" /\ t.size # 0 /\ Len(t.in) < t.size
                     /\ Ends([t EXCEPT !.in = Append(@, c), !.pos = @ + 1], <<c>>)
                  \/ /\ t.err = "OK" /\ ~(t.size # 0 /\ Len(t.in) < t.size)
                     /\ \E x \in write(t, <<c>>) : Ends(x, <<c>>)

\* gzprintf: the text must be shorter than the buffer, or nothing is written.
gzvprintf(text) ==
  /\ Open
  /\ Tell + Len(text) <= MaxOffset
  /\ \E t \in Each(Sought(gz_init(w)), Consumed) :
       \/ (t.err # "OK" \/ Len(text) >= t.size) /\ Ends(t, <<>>)
       \/ /\ t.err = "OK" /\ Len(text) < t.size
          /\ Ends([t EXCEPT !.in = text, !.pos = @ + Len(text)], text)

gzflush(flush) ==
  /\ Open
  /\ Len(w.file) < MaxFile
  /\ \E t \in Sought(w) :
       \/ t.err # "OK" /\ Ends(t, <<>>)
       \/ t.err = "OK" /\ \E x \in gz_comp(t, flush) : Ends(x, <<>>)

\* gzsetparams to other parameters: what is buffered keeps the old ones.
gzsetparams ==
  /\ Open
  /\ \E t \in Sought(w) :
       \/ (t.err # "OK" \/ t.size = 0 \/ t.in = <<>>) /\ Ends(t, <<>>)
       \/ /\ t.err = "OK" /\ t.size # 0 /\ t.in # <<>>
          /\ \E x \in gz_comp(t, "PARTIAL") : Ends(x, <<>>)

\* gzseek64 when writing: only forward, and only a request until the next call.
\* A request that is pending is dropped even when the call fails.
gzseek64(o, whence) ==
  LET off == IF whence = "SET" THEN o - w.pos ELSE o + w.skip
  IN /\ Open
     /\ w.pos + off <= MaxOffset
     /\ w' = [w EXCEPT !.seek = (off > 0), !.skip = IF off > 0 THEN off ELSE 0]
     /\ UNCHANGED <<written, closed>>

\* gzclose_w, also after an error.
gzclose_w == /\ ~closed
             /\ \E t \in Each(Sought(w), LAMBDA x : gz_comp(x, "FINISH")) : w' = t
             /\ written' = Padded
             /\ closed' = TRUE

WriteInit == /\ w \in [size : {0}, direct : BOOLEAN, seek : {FALSE}, skip : {0},
                       err : {"OK"}, in : {<<>>}, pos : {0}, held : {<<>>},
                       fresh : {TRUE}, file : {<<>>}, stray : {FALSE}]
             /\ written = <<>>
             /\ closed = FALSE

WriteNext == \/ \E text \in Texts : gzwrite(text) \/ gzvprintf(text)
             \/ gzputc(1)
             \/ \E flush \in {"NO", "SYNC", "FINISH"} : gzflush(flush)
             \/ gzsetparams
             \/ \E o \in {-1, 1, 3}, whence \in {"SET", "CUR"} : gzseek64(o, whence)
             \/ gzclose_w

-----------------------------------------------------------------------------
\* The bytes of the file when it is read as gzread reads it.
ReadBack == IF w.direct THEN w.file ELSE Members(w.file, FALSE)

\* When no write fails, the closed file reads back as the texts that were
\* written, each at the offset gztell reported before it and with zeros where
\* offsets were skipped, however the calls were buffered, flushed and seeked;
\* and the position is the number of bytes asked for.  Zeros that gz_zero
\* takes from a buffer it has not cleared are set apart ("stray").
WrittenIsReadBack ==
  w.err = "OK" /\ ~w.stray =>
    /\ w.pos = Len(written)
    /\ closed => ReadBack = written
=============================================================================
