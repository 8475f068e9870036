------------------------------- MODULE GzRead -------------------------------
(***************************************************************************)
(* The reading half of zlib's gzFile layer (zlib-1.2.8 gzread.c, gzlib.c): *)
(* one open file, any sequence of gzread, gzgetc, gzungetc, gzgets,        *)
(* gzseek, gzrewind, gzdirect and gzclearerr calls.                        *)
(*                                                                         *)
(* The file is a sequence of bytes (see GzFormat).  Buffers are as small   *)
(* as gzbuffer() allows: Size bytes of input, 2 * Size of output.          *)
(***************************************************************************)
EXTENDS GzFormat

CONSTANTS Size,      \* state->want, at least 2
          Lens,      \* the sizes of the reads a caller asks for
          Offsets,   \* the offsets a caller seeks to or moves by, with -1
          MaxPos,    \* no caller seeks further than this
          Pushed     \* the byte a caller pushes back

VARIABLES file,      \* the bytes of the file
          s,         \* the gz_state of gzguts.h
          last,      \* the kind, size and result of the last call
          over       \* closed, or a call failed or did what C leaves open

readVars == <<file, s, last, over>>

Fatal(t) == t.err = "FATAL"

\* gz_error with a serious error: the output is dropped.
gz_error(t) == [t EXCEPT !.err = "FATAL", !.out = <<>>]

\* Mutant: the input that was loaded is kept.
gz_reset_in(t) == [t EXCEPT !.out = <<>>, !.eof = FALSE, !.past = FALSE,
                            !.how = "LOOK", !.seek = FALSE, !.skip = 0,
                            !.err = "OK", !.pos = 0]

\* gz_reset: what gzopen and gzrewind set.
gz_reset(t) == [t EXCEPT !.out = <<>>, !.eof = FALSE, !.past = FALSE,
                         !.how = "LOOK", !.seek = FALSE, !.skip = 0,
                         !.err = "OK", !.pos = 0, !.in = <<>>]

\* read() until n bytes are there, the file ends or a read fails.
gz_load(t, n) ==
  LET left  == Rest(file, t.fd)
      clean == RawBytes(left)
      got   == SubSeq(clean, 1, Least(n, Len(clean)))
      t1    == [t EXCEPT !.fd = @ + Len(got)]
  IN [bytes |-> got,
      state |-> IF Len(got) = n THEN t1
                ELSE IF clean # left THEN gz_error(t1)
                ELSE [t1 EXCEPT !.eof = TRUE]]

gz_avail(t) ==
  IF Fatal(t) \/ t.eof THEN t
  ELSE LET l == gz_load(t, Size - Len(t.in))
       IN IF Fatal(l.state) THEN l.state
          ELSE [l.state EXCEPT !.in = @ \o l.bytes]

\* gz_look, with at least two bytes in the buffer if there are any.
LookAt(t) ==
  IF Fatal(t) \/ t.in = <<>> THEN t
  ELSE IF Len(t.in) > 1 /\ SubSeq(t.in, 1, 2) = Magic
       THEN [t EXCEPT !.how = "GZIP", !.direct = FALSE, !.header = 2]
  ELSE IF ~t.direct
       THEN [t EXCEPT !.in = <<>>, !.eof = TRUE, !.out = <<>>]
  ELSE [t EXCEPT !.out = t.in, !.in = <<>>, !.how = "COPY"]

gz_look(t) ==
  LET t0 == [t EXCEPT !.size = Size]
  IN LookAt(IF Len(t0.in) < 2 THEN gz_avail(t0) ELSE t0)

\* gz_decomp into room bytes; inflate() takes one byte of input at a time.
RECURSIVE gz_decomp(_, _, _)
inflate(t, made, room) ==
  LET used == [t EXCEPT !.in = Tail(@)]
      byte == Head(t.in)
  IN IF Fatal(t) THEN t
     ELSE IF t.in = <<>> THEN [t EXCEPT !.err = "BUF", !.out = made]
     ELSE IF t.header > 0
          THEN gz_decomp([used EXCEPT !.header = @ - 1], made, room)
     ELSE IF byte = EndOfStream
          THEN [used EXCEPT !.how = "LOOK", !.out = made]
     ELSE IF byte = BadData THEN gz_error(used)
     ELSE gz_decomp(used, Append(made, byte), room - 1)

gz_decomp(t, made, room) ==
  IF room = 0 THEN [t EXCEPT !.out = made]
  ELSE inflate(IF t.in = <<>> THEN gz_avail(t) ELSE t, made, room)

\* A pass of the loop of gz_fetch, which has brought t to t1.
RECURSIVE gz_fetch(_)
FetchOn(t, t1) ==
  LET leaves == \/ Fatal(t1)
                \/ t.how = "LOOK" /\ t1.how = "LOOK"
                \/ t.how = "COPY"
                \/ t1.out # <<>>
                \/ t1.eof /\ t1.in = <<>>
  IN IF leaves THEN t1 ELSE gz_fetch(t1)

gz_fetch(t) ==
  FetchOn(t, CASE t.how = "LOOK" -> gz_look(t)
               [] t.how = "COPY" -> LET l == gz_load(t, 2 * Size)
                                    IN IF Fatal(l.state) THEN l.state
                                       ELSE [l.state EXCEPT !.out = l.bytes]
               [] t.how = "GZIP" -> gz_decomp(t, <<>>, 2 * Size))

\* The first n bytes of the output buffer are taken.
Consume(t, n) == [t EXCEPT !.out = Rest(@, n), !.pos = @ + n]

RECURSIVE gz_skip(_, _)
gz_skip(t, n) ==
  LET have == Least(Len(t.out), n)
  IN IF n = 0 \/ Fatal(t) THEN t
     ELSE IF t.out # <<>> THEN gz_skip(Consume(t, have), n - have)
     ELSE IF t.eof /\ t.in = <<>> THEN t
     ELSE gz_skip(gz_fetch(t), n)

\* "process a skip request", at the head of each reading call.
\* (skip is only read while seek is set, and is cleared with it here).
Unsought(t) == [t EXCEPT !.seek = FALSE, !.skip = 0]
Skipped(t) == IF t.seek THEN gz_skip(Unsought(t), t.skip) ELSE t

\* The loop of gzread: n bytes, or what is left before the end.
RECURSIVE ReadOn(_, _, _)
ReadOn(t, got, n) ==
  LET have == Least(Len(t.out), n)
      on(t1, bytes) == IF Fatal(t1) THEN [state |-> t1, got |-> got]
                       ELSE ReadOn(t1, got \o bytes, n - Len(bytes))
      loaded(l) == on([l.state EXCEPT !.pos = @ + Len(l.bytes)], l.bytes)
      decomp(d) == on(Consume(d, Len(d.out)), d.out)
  IN IF n = 0 THEN [state |-> t, got |-> got]
     ELSE IF t.out # <<>> THEN on(Consume(t, have), SubSeq(t.out, 1, have))
     ELSE IF t.eof /\ t.in = <<>>
          THEN [state |-> [t EXCEPT !.past = TRUE], got |-> got]
     ELSE IF t.how = "LOOK" \/ n < 2 * Size THEN on(gz_fetch(t), <<>>)
     ELSE IF t.how = "COPY"
          THEN loaded(gz_load(t, n))
     ELSE decomp(gz_decomp(t, <<>>, n))

\* The loop of a call, unless the skip request before it has failed.
Unless(t, Loop(_)) == IF Fatal(t) THEN [state |-> t, got |-> <<>>] ELSE Loop(t)

read(t, n) == LET loop(t1) == ReadOn(t1, <<>>, n) IN Unless(Skipped(t), loop)

\* The loop of gzgets: up to n bytes, a newline or the end.
RECURSIVE GetsOn(_, _, _)
Gets(t, got, n) ==
  LET have == Least(Len(t.out), n)
      eols == {i \in 1 .. have : t.out[i] = 10}
      take == IF eols = {} THEN have
              ELSE CHOOSE i \in eols : \A j \in eols : i <= j
      line == got \o SubSeq(t.out, 1, take)
  IN IF Fatal(t) THEN [state |-> t, got |-> got]
     ELSE IF t.out = <<>>
          THEN [state |-> [t EXCEPT !.past = TRUE], got |-> got]
     ELSE IF eols # {} \/ take = n THEN [state |-> Consume(t, take), got |-> line]
     ELSE GetsOn(Consume(t, take), line, n - take)

GetsOn(t, got, n) == Gets(IF t.out = <<>> THEN gz_fetch(t) ELSE t, got, n)

\* The call of the given kind ends in state t with these bytes.
Returns(kind, n, t, bytes) ==
  /\ s' = t
  /\ last' = [kind |-> kind, asked |-> n, got |-> bytes]
  /\ over' = (Fatal(t) \/ kind = "stray")
  /\ UNCHANGED file

gzread(n) == /\ ~over
             /\ \E r \in {read(s, n)} : Returns("read", n, r.state, r.got)

gzgets(n) == /\ ~over
             /\ LET loop(t) == GetsOn(t, <<>>, n)
                IN \E r \in {Unless(Skipped(s), loop)} : Returns("line", n, r.state, r.got)

\* gzgetc takes from the output buffer without a look at a skip request: with
\* one pending it returns a byte from before the place sought.
gzgetc == /\ ~over
          /\ \/ /\ s.out # <<>> /\ s.seek
                /\ Returns("stray", 1, Consume(s, 1), SubSeq(s.out, 1, 1))
             \/ /\ s.out # <<>> /\ ~s.seek
                /\ Returns("read", 1, Consume(s, 1), SubSeq(s.out, 1, 1))
             \/ /\ s.out = <<>>
                /\ \E r \in {read(s, 1)} : Returns("read", 1, r.state, r.got)

\* gzungetc.  Before the first read there is no buffer, and the byte is stored
\* through a pointer nothing has set.
gzungetc ==
  /\ ~over
  /\ \E t \in {Skipped(s)} :
        \/ /\ Fatal(t)
           /\ Returns("push", 0, t, <<>>)
        \/ /\ ~Fatal(t) /\ t.size = 0
           /\ Returns("stray", 1, t, <<Pushed>>)
        \/ /\ ~Fatal(t) /\ t.size # 0 /\ Len(t.out) = 2 * Size
           /\ Returns("push", 1, gz_error(t), <<>>)
        \/ /\ ~Fatal(t) /\ t.size # 0 /\ Len(t.out) < 2 * Size
           /\ Returns("push", 1, [t EXCEPT !.out = <<Pushed>> \o @,
                                          !.pos = @ - 1, !.past = FALSE],
                      <<Pushed>>)

\* gzseek64, with the offset already relative to the position; a request that
\* is pending is dropped even when the call fails.
SeekBy(t, off) ==
  LET back == gz_reset([t EXCEPT !.fd = 0])
      from == IF off < 0 THEN back ELSE t
      need == IF off < 0 THEN off + t.pos ELSE off
      n    == Least(Len(from.out), need)
      t1   == Consume(from, n)
  IN IF t.how = "COPY" /\ t.pos + off >= 0
     THEN [t EXCEPT !.fd = @ + off - Len(t.out), !.out = <<>>, !.eof = FALSE,
                    !.past = FALSE, !.err = "OK", !.in = <<>>, !.pos = @ + off]
     ELSE IF need < 0 THEN t
     ELSE IF need = n THEN t1
     ELSE [t1 EXCEPT !.seek = TRUE, !.skip = need - n]

gzseek64(o, whence) ==
  /\ ~over
  /\ LET off == IF whence = "SET" THEN o - s.pos
                ELSE IF s.seek THEN o + s.skip ELSE o
     IN /\ s.pos + off <= MaxPos
        /\ Returns(whence, o, SeekBy(Unsought(s), off), <<>>)

gzrewind == /\ ~over
            /\ Returns("SET", 0, gz_reset([s EXCEPT !.fd = 0]), <<>>)

\* gzdirect looks for the header if nobody has; gzclearerr forgets the end.
gzdirect == /\ ~over
            /\ s.how = "LOOK" /\ s.out = <<>>
            /\ s' = gz_look(s)
            /\ over' = Fatal(s')
            /\ UNCHANGED <<file, last>>

gzclearerr == /\ ~over
              /\ s' = [s EXCEPT !.eof = FALSE, !.past = FALSE, !.err = "OK"]
              /\ UNCHANGED <<file, last, over>>

gzclose_r == /\ ~over
             /\ last' = [kind |-> "close", asked |-> 0, got |-> <<>>]
             /\ over' = TRUE
             /\ UNCHANGED <<file, s>>

\* gzopen for reading (gz_open): nothing is allocated or read yet.
gz_open == [size |-> 0, how |-> "LOOK", direct |-> TRUE, eof |-> FALSE,
            past |-> FALSE, seek |-> FALSE, skip |-> 0, err |-> "OK",
            in |-> <<>>, fd |-> 0, out |-> <<>>, pos |-> 0, header |-> 0]

ReadInit(files) == /\ file \in files
                   /\ s = gz_open
                   /\ last = [kind |-> "none", asked |-> 0, got |-> <<>>]
                   /\ over = FALSE

ReadNext == \/ \E n \in Lens : gzread(n) \/ gzgets(n)
            \/ gzgetc
            \/ gzungetc
            \/ \E o \in {-1} \cup Offsets, whence \in {"SET", "CUR"} :
                 gzseek64(o, whence)
            \/ gzrewind
            \/ gzdirect
            \/ gzclearerr
            \/ gzclose_r

-----------------------------------------------------------------------------
ToCome == LET q == s.in \o Rest(file, s.fd)
          IN CASE s.how = "LOOK" -> Members(q, s.direct)
               [] s.how = "COPY" -> RawBytes(q)
               [] s.how = "GZIP" -> Inflated(q, s.header)

\* Whatever the file holds and however the calls are mixed, each returns the
\* bytes at the position gztell reports, as many as were asked for or are left;
\* a seek lands on the offset asked for; a byte pushed back is the next one
\* read; only a damaged file makes a call fail.  Not so after a call that gzread.c
\* has no answer for: gzgetc over a skip request, gzungetc before any read.
Stream == INSTANCE GzStream WITH
            content <- Members(file, TRUE),
            damaged <- \E i \in 1 .. Len(file) : file[i] \in {BadData, ReadError},
            ahead   <- Rest(s.out \o ToCome, s.skip),
            tell    <- s.pos + s.skip
=============================================================================
