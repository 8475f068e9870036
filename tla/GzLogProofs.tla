---------------------------- MODULE GzLogProofs ----------------------------
(***************************************************************************)
(* Proofs about gzlog.c, for any number of processes, any messages and any *)
(* block size: that it implements AppendLog whatever process is killed     *)
(* where, and that whoever has the lock knows what foo.gz says.            *)
(***************************************************************************)
EXTENDS GzLog, TLAPS

(* What the operators on sequences give. *)
LEMMA EmptySeq ==
    ASSUME NEW S
    PROVE  /\ <<>> \in Seq(S) /\ Len(<<>>) = 0
           /\ \A s \in Seq(S) : s # <<>> => Len(s) \in Nat \ {0}
  OBVIOUS

LEMMA ElementOfSeq ==
    ASSUME NEW S, NEW s \in Seq(S), NEW k \in 1..Len(s)
    PROVE  s[k] \in S
  OBVIOUS

LEMMA LenProperties ==
    ASSUME NEW S, NEW s \in Seq(S)
    PROVE  Len(s) \in Nat /\ s \in [1..Len(s) -> S] /\ DOMAIN s = 1..Len(s)
  OBVIOUS

LEMMA SeqEqual ==
    ASSUME NEW S, NEW s \in Seq(S), NEW t \in Seq(S), Len(s) = Len(t), \A k \in 1..Len(s) : s[k] = t[k]
    PROVE  s = t
  OBVIOUS

LEMMA ConcatProperties ==
    ASSUME NEW S, NEW s \in Seq(S), NEW t \in Seq(S)
    PROVE  /\ s \o t \in Seq(S) /\ Len(s \o t) = Len(s) + Len(t)
           /\ \A k \in 1..(Len(s) + Len(t)) : (s \o t)[k] = IF k <= Len(s) THEN s[k] ELSE t[k - Len(s)]
  OBVIOUS

LEMMA ConcatAssociative ==
    ASSUME NEW S, NEW s \in Seq(S), NEW t \in Seq(S), NEW u \in Seq(S)
    PROVE  (s \o t) \o u = s \o (t \o u)
  <1>1. /\ Len(s) \in Nat /\ Len(t) \in Nat /\ Len(u) \in Nat /\ s \o t \in Seq(S) /\ t \o u \in Seq(S)
        /\ (s \o t) \o u \in Seq(S) /\ s \o (t \o u) \in Seq(S)
    BY ConcatProperties
  <1> QED BY <1>1, ConcatProperties, SeqEqual

LEMMA ConcatEmptySeq ==
    ASSUME NEW S, NEW s \in Seq(S)
    PROVE  s \o <<>> = s /\ <<>> \o s = s
  <1>1. <<>> \in Seq(S) /\ Len(<<>>) = 0 /\ Len(s) \in Nat
    OBVIOUS
  <1>2. s \o <<>> = s
    BY <1>1, ConcatProperties, SeqEqual
  <1>3. <<>> \o s = s
    BY <1>1, ConcatProperties, SeqEqual
  <1> QED BY <1>2, <1>3

LEMMA SubSeqFull ==
    ASSUME NEW S, NEW s \in Seq(S)
    PROVE  SubSeq(s, 1, Len(s)) = s
  OBVIOUS

LEMMA SubSeqProperties ==
    ASSUME NEW S, NEW s, NEW m \in Int, NEW n \in Int, \A k \in m..n : s[k] \in S
    PROVE  /\ SubSeq(s, m, n) \in Seq(S)
           /\ Len(SubSeq(s, m, n)) = IF m <= n THEN n - m + 1 ELSE 0
           /\ \A k \in 1..(n - m + 1) : SubSeq(s, m, n)[k] = s[m + k - 1]
  OBVIOUS

LEMMA ConcatAdjacentSubSeq ==
    ASSUME NEW S, NEW s \in Seq(S), NEW m \in 1..(Len(s) + 1), NEW k \in (m - 1)..Len(s), NEW n \in k..Len(s)
    PROVE  SubSeq(s, m, k) \o SubSeq(s, k + 1, n) = SubSeq(s, m, n)
  <1>1. Len(s) \in Nat /\ \A j \in 1..Len(s) : s[j] \in S
    OBVIOUS
  <1>2. /\ SubSeq(s, m, k) \in Seq(S) /\ Len(SubSeq(s, m, k)) = k - m + 1
        /\ \A j \in 1..(k - m + 1) : SubSeq(s, m, k)[j] = s[m + j - 1]
    BY <1>1, SubSeqProperties
  <1>3. /\ SubSeq(s, k + 1, n) \in Seq(S) /\ Len(SubSeq(s, k + 1, n)) = n - k
        /\ \A j \in 1..(n - k) : SubSeq(s, k + 1, n)[j] = s[k + j]
    BY <1>1, SubSeqProperties
  <1>4. /\ SubSeq(s, m, n) \in Seq(S) /\ Len(SubSeq(s, m, n)) = n - m + 1
        /\ \A j \in 1..(n - m + 1) : SubSeq(s, m, n)[j] = s[m + j - 1]
    BY <1>1, SubSeqProperties
  <1> DEFINE a == SubSeq(s, m, k)  b == SubSeq(s, k + 1, n)  c == SubSeq(s, m, n)
  <1> HIDE DEF a, b, c
  <1>5. a \o b \in Seq(S) /\ Len(a \o b) = n - m + 1
    BY <1>1, <1>2, <1>3, ConcatProperties DEF a, b
  <1>6. \A j \in 1..(n - m + 1) : (a \o b)[j] = c[j]
    BY <1>1, <1>2, <1>3, <1>4, ConcatProperties DEF a, b, c
  <1> QED BY <1>4, <1>5, <1>6, SeqEqual DEF a, b, c

(* Where a process is. *)
Away == {"out", "idle", "lock"}
Opening == {"open", "ext", "body", "old_dict"}
Beginning == {"add", "add_data", "mark_append"}
Appending == {"append", "put", "new_block", "seal", "trailer", "truncate", "mark_done"}
Gathering == {"gather", "gather_add", "temp", "temp_data", "roll_back"}
Compressing == {"compress", "z_last", "z_trailer", "z_truncate", "mark_replace"}
Replacing == {"replace", "rename", "replaced"}
Recovering == Appending \cup {"unlink_add"} \cup Compressing \cup Replacing
Places == Away \cup Opening \cup Beginning \cup Gathering \cup {"mark_compress"} \cup Recovering

ProcRecords == [pc : Places, log : Structs, next : {"idle", "add", "gather"}, rec : BOOLEAN,
                buf : Seq(Letters), msg : Messages \cup {<<>>}]

(* A foo.gz without a head is empty, and data is in foo.add as long as a   *)
(* compression is marked.                                                  *)
DiskOK ==
    /\ disk = [head |-> disk.head, ext |-> disk.ext, body |-> disk.body,
               add |-> disk.add, dict |-> disk.dict, temp |-> disk.temp]
    /\ disk.ext \in Marks \cup {None} /\ disk.add \in Seq(Letters) \cup {None}
    /\ disk.head \in BOOLEAN /\ (~disk.head => disk.ext = None)
    /\ disk.ext # None /\ disk.ext.op = COMPRESS_OP => disk.add \notin {None, <<>>}

ProcOK == proc \in [Procs -> ProcRecords] /\ used \subseteq Messages

Marked(op) == disk.ext # None /\ disk.ext.op = op
SameLog(p) == disk.ext # None /\ disk.ext.log.tcrc = proc[p].log.tcrc

(* What a process knows of the disk, from where it is.  Only one that has  *)
(* the lock is past log_lock.                                              *)
Knows(p) ==
    /\ proc[p].pc \notin Away => owner = p
    /\ (owner = p /\ proc[p].pc = "idle") \/ proc[p].pc \in Beginning \cup {"unlink_add"} \cup Gathering =>
           disk.ext = [log |-> proc[p].log, op |-> NO_OP]
    /\ proc[p].pc = "ext" => disk.head /\ disk.ext = None
    /\ proc[p].pc = "mark_append" => disk.add = proc[p].msg
    /\ proc[p].pc \in Appending =>
           Marked(APPEND_OP) /\ proc[p].log.tcrc \o proc[p].buf = disk.ext.log.tcrc \o added
    /\ proc[p].pc \in {"trailer", "truncate", "mark_done"} => proc[p].buf = <<>>
    /\ proc[p].pc \in {"gather_add", "temp", "temp_data", "roll_back", "mark_compress", "compress"} =>
           proc[p].buf # <<>>
    /\ proc[p].pc \in {"temp", "temp_data", "roll_back", "mark_compress"} => disk.add \notin {None, <<>>}
    /\ proc[p].pc = "mark_compress" => Marked(NO_OP) /\ SameLog(p)
    /\ proc[p].pc \in Compressing => Marked(COMPRESS_OP) /\ SameLog(p)
    /\ proc[p].pc \in Replacing => Marked(REPLACE_OP) /\ SameLog(p)
    /\ proc[p].rec => proc[p].pc \in Recovering

(* A call that is on its way through log_open, one whose message is not in *)
(* the log yet, and one whose message is.                                  *)
Reopens(p) == proc[p].pc \in {"lock"} \cup Opening \/ proc[p].rec
Pending(p) == proc[p].pc \in Beginning \/ (Reopens(p) /\ proc[p].next = "add")
Added(p) == /\ ~proc[p].rec /\ proc[p].msg # <<>>
            /\ proc[p].pc \in Recovering \cup Gathering \cup {"mark_compress"}

IsIn(m, l) == \E i \in 1..Len(l) - Len(m) + 1 : SubSeq(l, i, i + Len(m) - 1) = m

MessageInv ==
    /\ \A p \in Procs : Pending(p) =>
          proc[p].msg \in used /\ \A i \in 1..Len(committed) : committed[i] # proc[p].msg[1]
    /\ \A p, q \in Procs : p # q /\ Pending(p) /\ Pending(q) => proc[p].msg # proc[q].msg
    /\ \A p \in Procs : Reopens(p) /\ proc[p].next = "gather" => proc[p].msg = <<>>
    /\ \A p \in Procs : Added(p) => IsIn(proc[p].msg, committed)
    /\ \A i \in 1..Len(committed) : \E m \in used : \E k \in 1..Len(m) : committed[i] = m[k]

Sound == DiskOK /\ ProcOK /\ (\A p \in Procs : Knows(p)) /\ MessageInv

(* All this holds until damage from outside. *)
LogInv == hurt \in BOOLEAN /\ (~hurt => Sound)

USE DEF NO_OP, APPEND_OP, COMPRESS_OP, REPLACE_OP

(* What the proofs use of the constants. *)
LEMMA Markers == None \notin Procs /\ Abandoned \notin Procs
BY GzLogAssumption DEF GzLogAssumption

(* None is neither data nor an extra field. *)
LEMMA NoneApart == None \notin Seq(Letters) /\ None \notin Marks
BY GzLogAssumption DEF GzLogAssumption

(* A stored block has room for a datum. *)
LEMMA BlockSize == MaxStore \in Nat \ {0}
BY GzLogAssumption DEF GzLogAssumption

(* Messages are nonempty sequences of data. *)
LEMMA MessagesAre == \A m \in Messages : m \in Seq(Letters) /\ m # <<>> /\ Len(m) \in Nat \ {0}
BY GzLogAssumption, EmptySeq DEF GzLogAssumption

(* Two messages have no datum in common. *)
LEMMA MessagesApart == \A m, n \in Messages : m # n => \A i \in 1..Len(m), j \in 1..Len(n) : m[i] # n[j]
BY GzLogAssumption DEF GzLogAssumption

(* What log_mark wrote is read back. *)
LEMMA MarkFields == \A l, o : [log |-> l, op |-> o].log = l /\ [log |-> l, op |-> o].op = o
OBVIOUS

-----------------------------------------------------------------------------
(* What is in the log, by the mark of foo.gz. *)
Contents ==
    /\ committed \in Seq(Letters) /\ added \in Seq(Letters)
    /\ disk.ext = None => committed = <<>>
    /\ Marked(NO_OP) \/ Marked(COMPRESS_OP) \/ Marked(REPLACE_OP) => committed = disk.ext.log.tcrc
    /\ Marked(APPEND_OP) => committed = disk.ext.log.tcrc \o added

(* The cases of committed, by the mark. *)
LEMMA CommittedIs == DiskOK => Contents
<1> SUFFICES ASSUME DiskOK PROVE Contents
  OBVIOUS
<1>1. added \in Seq(Letters)
  BY EmptySeq DEF DiskOK, added
<1>2. CASE disk.ext = None
  <2>1. committed = <<>>
    BY <1>2 DEF committed
  <2> QED
    BY <1>1, <1>2, <2>1, EmptySeq DEF Contents, Marked
<1>3. CASE disk.ext # None
  <2>1. disk.ext \in Marks /\ disk.ext.log.tcrc \in Seq(Letters)
    BY <1>3 DEF DiskOK, Marks, Structs
  <2>2. CASE disk.ext.op = APPEND_OP
    <3>1. committed = disk.ext.log.tcrc \o added
      BY <1>3, <2>2 DEF committed
    <3> QED
      BY <1>1, <1>3, <2>1, <2>2, <3>1, ConcatProperties DEF Contents, Marked
  <2>3. CASE disk.ext.op # APPEND_OP
    <3>1. committed = disk.ext.log.tcrc
      BY <1>3, <2>3 DEF committed, DiskOK
    <3> QED
      BY <1>1, <1>3, <2>1, <2>3, <3>1 DEF Contents, Marked
  <2> QED
    BY <2>2, <2>3
<1> QED
  BY <1>2, <1>3

(* The same in the next state. *)
LEMMA CommittedNext == DiskOK' => Contents'
BY CommittedIs, PTL

(* It is the same as long as the extra field is and, in an append, foo.add. *)
LEMMA CommittedSame ==
    ASSUME DiskOK, DiskOK', disk'.ext = disk.ext, Marked(APPEND_OP) => disk'.add = disk.add
    PROVE  committed' = committed
<1>1. CASE disk.ext = None
  BY <1>1, CommittedIs, CommittedNext DEF Contents
<1>2. CASE disk.ext # None
  <2>1. disk.ext.op \in {NO_OP, APPEND_OP, COMPRESS_OP, REPLACE_OP}
    BY <1>2 DEF DiskOK, Marks
  <2>2. CASE disk.ext.op = APPEND_OP
    <3>1. added' = added
      BY <1>2, <2>2 DEF added, Marked
    <3> QED
      BY <1>2, <2>2, <3>1, CommittedIs, CommittedNext, SMTT(30) DEF Contents, Marked
  <2>3. CASE disk.ext.op # APPEND_OP
    BY <1>2, <2>1, <2>3, CommittedIs, CommittedNext DEF Contents, Marked
  <2> QED
    BY <2>2, <2>3
<1> QED
  BY <1>1, <1>2

-----------------------------------------------------------------------------
(* There is no log and every process is outside. *)
LEMMA LogInitially == Init => LogInv
<1> SUFFICES ASSUME Init PROVE LogInv
  OBVIOUS
<1>1. DiskOK
  BY Zenon DEF Init, DiskOK
<1>2. outside \in ProcRecords
  BY EmptySeq, BlockSize DEF outside, ProcRecords, log_gzext, Structs, Places, Away
<1>3. ProcOK
  BY <1>2 DEF Init, ProcOK
<1>4. ASSUME NEW p \in Procs PROVE proc[p].pc = "out" /\ ~proc[p].rec /\ owner # p
  BY Markers DEF Init, outside
<1>5. \A p \in Procs : Knows(p)
  BY <1>4, Zenon DEF Knows, Away, Opening, Beginning, Appending, Gathering, Compressing, Replacing
<1>6. committed = <<>>
  BY <1>1, CommittedIs DEF Init, Contents
<1>7. \A p \in Procs : ~Pending(p) /\ ~Reopens(p) /\ ~Added(p)
  BY <1>4 DEF Pending, Reopens, Added, Opening, Beginning, Recovering, Appending, Gathering, Compressing, Replacing
<1>8. MessageInv
  BY <1>6, <1>7 DEF MessageInv
<1> QED
  BY <1>1, <1>3, <1>5, <1>8, Zenon DEF LogInv, Sound, Init

(* Whoever is at work is alone: the others know nothing of the disk. *)
LEMMA OthersAway ==
    ASSUME \A q \in Procs : Knows(q), NEW p \in Procs, owner = p \/ proc[p].pc \notin Away,
           NEW q \in Procs, q # p
    PROVE  proc[q].pc \in Away /\ owner # q
BY Zenon DEF Knows

(* What the others know is kept, whatever the one at work does. *)
LEMMA OthersKnow ==
    ASSUME \A q \in Procs : Knows(q), NEW p \in Procs, proc[p].pc \notin Away,
           \A q \in Procs \ {p} : proc'[q] = proc[q],
           owner' \in {p, None, Abandoned}, Knows(p)', ProcOK
    PROVE  \A q \in Procs : Knows(q)'
<1> SUFFICES ASSUME NEW q \in Procs, q # p PROVE Knows(q)'
  OBVIOUS
<1>1. proc'[q].pc \in Away /\ owner' # q /\ ~proc'[q].rec
  <2>1. proc[q].pc \in Away /\ ~proc[q].rec
    BY OthersAway, Zenon DEF Knows, Away, Recovering, Appending, Compressing, Replacing
  <2> QED
    BY <2>1, Markers
<1> QED
  BY <1>1, Zenon DEF Knows, Away, Opening, Beginning, Appending, Gathering, Compressing, Replacing

(* A step that changes neither the log nor the calls that have begun, and  *)
(* whose process has no message pending or added that it had not before.   *)
LEMMA Kept ==
    ASSUME Sound, NEW p \in Procs, DiskOK', proc' = [proc EXCEPT ![p] = proc'[p]],
           proc'[p] \in ProcRecords, used' = used, committed' = committed,
           \A q \in Procs : Knows(q)',
           Pending(p)' => Pending(p) /\ proc'[p].msg = proc[p].msg,
           Added(p)' => Added(p) /\ proc'[p].msg = proc[p].msg,
           Reopens(p)' /\ proc'[p].next = "gather" => proc'[p].msg = <<>>
    PROVE  Sound'
<1>1. ProcOK' /\ \A q \in Procs \ {p} : proc'[q] = proc[q]
  BY DEF Sound, ProcOK
<1>2. \A q \in Procs \ {p} : (Pending(q)' <=> Pending(q)) /\ (Added(q)' <=> Added(q)) /\ (Reopens(q)' <=> Reopens(q))
  BY <1>1 DEF Pending, Added, Reopens
<1>3. MessageInv'
  <2>1. \A q \in Procs : Pending(q)' =>
          proc'[q].msg \in used' /\ \A i \in 1..Len(committed') : committed'[i] # proc'[q].msg[1]
    BY <1>1, <1>2 DEF Sound, MessageInv
  <2>2. \A q, r \in Procs : q # r /\ Pending(q)' /\ Pending(r)' => proc'[q].msg # proc'[r].msg
    BY <1>1, <1>2 DEF Sound, MessageInv
  <2>3. \A q \in Procs : Reopens(q)' /\ proc'[q].next = "gather" => proc'[q].msg = <<>>
    BY <1>1, <1>2 DEF Sound, MessageInv
  <2>4. \A q \in Procs : Added(q)' => IsIn(proc'[q].msg, committed')
    BY <1>1, <1>2 DEF Sound, MessageInv
  <2>5. \A i \in 1..Len(committed') : \E m \in used' : \E k \in 1..Len(m) : committed'[i] = m[k]
    BY DEF Sound, MessageInv
  <2> QED
    BY <2>1, <2>2, <2>3, <2>4, <2>5, Zenon DEF MessageInv, IsIn
<1> QED
  BY <1>1, <1>3 DEF Sound

(* The same, for a process at work. *)
LEMMA Worked ==
    ASSUME Sound, NEW p \in Procs, proc[p].pc \notin Away, owner' \in {p, None, Abandoned},
           DiskOK', proc' = [proc EXCEPT ![p] = proc'[p]],
           proc'[p] \in ProcRecords, used' = used, committed' = committed, Knows(p)',
           Pending(p)' => Pending(p) /\ proc'[p].msg = proc[p].msg,
           Added(p)' => Added(p) /\ proc'[p].msg = proc[p].msg,
           Reopens(p)' /\ proc'[p].next = "gather" => proc'[p].msg = <<>>
    PROVE  Sound'
<1>1. \A q \in Procs \ {p} : proc'[q] = proc[q]
  BY DEF Sound, ProcOK
<1>2. \A q \in Procs : Knows(q)'
  BY <1>1, OthersKnow DEF Sound
<1> QED
  BY <1>2, Kept

(* A step that changes only where the process is. *)
LEMMA Moved ==
    ASSUME ProcOK, NEW p \in Procs, NEW x \in Places, proc' = [proc EXCEPT ![p].pc = x]
    PROVE  /\ proc'[p].pc = x /\ proc'[p].log = proc[p].log /\ proc'[p].next = proc[p].next
           /\ proc'[p].rec = proc[p].rec /\ proc'[p].buf = proc[p].buf /\ proc'[p].msg = proc[p].msg
           /\ proc'[p] \in ProcRecords /\ proc' = [proc EXCEPT ![p] = proc'[p]]
<1>1. proc[p] \in ProcRecords
  BY DEF ProcOK
<1>2. proc'[p] = [proc[p] EXCEPT !.pc = x]
  BY DEF ProcOK
<1> QED
  BY <1>1, <1>2, Zenon DEF ProcRecords, ProcOK

(* Such a step of a process at work, which stays in its part of the call. *)
LEMMA Quiet ==
    ASSUME Sound, NEW p \in Procs, NEW x \in Places, proc[p].pc \notin Away,
           proc' = [proc EXCEPT ![p].pc = x], owner' = owner, used' = used,
           DiskOK', committed' = committed, Knows(p)',
           \/ {proc[p].pc, x} \subseteq Recovering \cup Gathering \cup {"mark_compress"}
           \/ {proc[p].pc, x} \subseteq Opening
           \/ {proc[p].pc, x} \subseteq Beginning
    PROVE  Sound'
<1>1. /\ ProcOK /\ owner = p /\ (proc[p].rec => proc[p].pc \in Recovering)
      /\ Reopens(p) /\ proc[p].next = "gather" => proc[p].msg = <<>>
  BY Zenon DEF Sound, Knows, MessageInv
<1>2. /\ proc'[p].pc = x /\ proc'[p].log = proc[p].log /\ proc'[p].next = proc[p].next
      /\ proc'[p].rec = proc[p].rec /\ proc'[p].buf = proc[p].buf /\ proc'[p].msg = proc[p].msg
      /\ proc'[p] \in ProcRecords /\ proc' = [proc EXCEPT ![p] = proc'[p]]
  BY <1>1, Moved, Zenon
<1>3. /\ Pending(p)' => Pending(p)
      /\ Added(p)' => Added(p)
      /\ Reopens(p)' => Reopens(p)
  <2>1. Recovering \cap (Opening \cup Beginning \cup {"lock"}) = {} /\ Gathering \cap (Opening \cup Beginning \cup {"lock"}) = {}
    BY DEF Recovering, Appending, Compressing, Replacing, Opening, Beginning, Gathering
  <2>2. "mark_compress" \notin Opening \cup Beginning \cup {"lock"} /\ Opening \cap (Beginning \cup {"lock"}) = {}
        /\ "lock" \notin Beginning
    BY DEF Opening, Beginning
  <2>3. CASE {proc[p].pc, x} \subseteq Recovering \cup Gathering \cup {"mark_compress"}
    BY <1>2, <2>1, <2>2, <2>3 DEF Pending, Added, Reopens
  <2>4. CASE {proc[p].pc, x} \subseteq Opening
    BY <1>2, <2>1, <2>2, <2>4 DEF Pending, Added, Reopens
  <2>5. CASE {proc[p].pc, x} \subseteq Beginning
    BY <1>1, <1>2, <2>1, <2>2, <2>5 DEF Pending, Added, Reopens
  <2> QED
    BY <2>3, <2>4, <2>5
<1> QED
  BY <1>1, <1>2, <1>3, Worked, Zenon

(* A step that changes struct log or the data to be written. *)
LEMMA Changed ==
    ASSUME ProcOK, NEW p \in Procs, NEW x \in Places, NEW l \in Structs, NEW b \in Seq(Letters),
           \/ proc' = [proc EXCEPT ![p] = [proc[p] EXCEPT !.pc = x, !.log = l, !.buf = b]]
           \/ proc' = [proc EXCEPT ![p] = [proc[p] EXCEPT !.pc = x, !.log = l]] /\ b = proc[p].buf
           \/ proc' = [proc EXCEPT ![p] = [proc[p] EXCEPT !.pc = x, !.buf = b]] /\ l = proc[p].log
    PROVE  /\ proc'[p].pc = x /\ proc'[p].log = l /\ proc'[p].next = proc[p].next
           /\ proc'[p].rec = proc[p].rec /\ proc'[p].buf = b /\ proc'[p].msg = proc[p].msg
           /\ proc'[p] \in ProcRecords /\ proc' = [proc EXCEPT ![p] = proc'[p]]
<1>1. proc[p] \in ProcRecords
  BY DEF ProcOK
<1>2. PICK r : /\ proc' = [proc EXCEPT ![p] = r]
               /\ \/ r = [proc[p] EXCEPT !.pc = x, !.log = l, !.buf = b]
                  \/ r = [proc[p] EXCEPT !.pc = x, !.log = l] /\ b = proc[p].buf
                  \/ r = [proc[p] EXCEPT !.pc = x, !.buf = b] /\ l = proc[p].log
  BY Zenon
<1>3. proc'[p] = r /\ proc' = [proc EXCEPT ![p] = proc'[p]]
  BY <1>2 DEF ProcOK
<1>4. r = [pc |-> x, log |-> l, next |-> proc[p].next, rec |-> proc[p].rec, buf |-> b, msg |-> proc[p].msg]
  BY <1>1, <1>2, ZenonT(40) DEF ProcRecords
<1>5. proc[p].next \in {"idle", "add", "gather"} /\ proc[p].rec \in BOOLEAN /\ proc[p].msg \in Messages \cup {<<>>}
  BY <1>1 DEF ProcRecords
<1>6. r.pc = x /\ r.log = l /\ r.next = proc[p].next /\ r.rec = proc[p].rec /\ r.buf = b /\ r.msg = proc[p].msg
  BY <1>4
<1>7. r \in ProcRecords
  BY <1>4, <1>5 DEF ProcRecords
<1> QED
  BY <1>3, <1>6, <1>7

(* Such a step of a process that stays in an append or a compression. *)
LEMMA Steady ==
    ASSUME Sound, NEW p \in Procs, owner' = owner, used' = used,
           {proc[p].pc, proc'[p].pc} \subseteq Recovering \cup Gathering \cup {"mark_compress"},
           proc'[p].next = proc[p].next, proc'[p].rec = proc[p].rec, proc'[p].msg = proc[p].msg,
           proc'[p] \in ProcRecords, proc' = [proc EXCEPT ![p] = proc'[p]],
           DiskOK', committed' = committed, Knows(p)'
    PROVE  Sound'
<1>1. Reopens(p) /\ proc[p].next = "gather" => proc[p].msg = <<>>
  BY Zenon DEF Sound, MessageInv
<1>2. (Recovering \cup Gathering \cup {"mark_compress"}) \cap (Opening \cup Beginning \cup Away) = {}
  BY DEF Recovering, Appending, Compressing, Replacing, Opening, Beginning, Gathering, Away
<1>3. proc[p].pc \notin Opening \cup Beginning \cup Away /\ proc'[p].pc \notin Opening \cup Beginning \cup Away /\ "lock" \in Away
  BY <1>2 DEF Away
<1>4. owner' = p
  BY <1>3, Zenon DEF Sound, Knows
<1>5. /\ Pending(p)' => Pending(p)
      /\ Added(p)' => Added(p)
      /\ Reopens(p)' => Reopens(p)
  BY <1>3 DEF Pending, Added, Reopens
<1> QED
  BY <1>1, <1>3, <1>4, <1>5, Worked, Zenon

(* A write to the body of foo.gz, or to foo.temp or foo.dict. *)
LEMMA DiskWritten ==
    ASSUME DiskOK, NEW x, NEW y,
           \/ disk' = disk \/ disk' = [disk EXCEPT !.body = x]
           \/ disk' = [disk EXCEPT !.dict = x] \/ disk' = [disk EXCEPT !.temp = x]
           \/ disk' = [disk EXCEPT !.dict = x, !.temp = y]
    PROVE  /\ disk'.head = disk.head /\ disk'.ext = disk.ext /\ disk'.add = disk.add
           /\ DiskOK' /\ committed' = committed /\ added' = added
<1>1. /\ disk'.head = disk.head /\ disk'.ext = disk.ext /\ disk'.add = disk.add
      /\ disk' = [head |-> disk'.head, ext |-> disk'.ext, body |-> disk'.body,
                  add |-> disk'.add, dict |-> disk'.dict, temp |-> disk'.temp]
  BY Zenon DEF DiskOK
<1>2. DiskOK'
  BY <1>1 DEF DiskOK
<1> QED
  BY <1>1, <1>2, CommittedSame DEF added

(* Foo.add is written or deleted while nothing is marked that needs it. *)
LEMMA AddWritten ==
    ASSUME DiskOK, NEW x \in Seq(Letters) \cup {None}, disk' = [disk EXCEPT !.add = x],
           disk.ext = None \/ Marked(NO_OP) \/ Marked(REPLACE_OP)
    PROVE  /\ disk'.head = disk.head /\ disk'.ext = disk.ext /\ disk'.add = x
           /\ DiskOK' /\ committed' = committed
<1>1. /\ disk'.head = disk.head /\ disk'.ext = disk.ext /\ disk'.add = x
      /\ disk' = [head |-> disk'.head, ext |-> disk'.ext, body |-> disk'.body,
                  add |-> disk'.add, dict |-> disk'.dict, temp |-> disk'.temp]
  BY DEF DiskOK
<1>2. DiskOK'
  BY <1>1 DEF DiskOK, Marked
<1> QED
  BY <1>1, <1>2, CommittedSame DEF Marked

(* The extra field is written. *)
LEMMA ExtWritten ==
    ASSUME DiskOK, NEW l \in Structs, NEW op \in {NO_OP, APPEND_OP, COMPRESS_OP, REPLACE_OP},
           disk' = [disk EXCEPT !.ext = [log |-> l, op |-> op]], disk.head,
           op = COMPRESS_OP => disk.add \notin {None, <<>>}
    PROVE  /\ disk'.head = disk.head /\ disk'.ext = [log |-> l, op |-> op] /\ disk'.add = disk.add
           /\ Marked(op)' /\ DiskOK' /\ added' = added
           /\ committed' = IF op = APPEND_OP THEN l.tcrc \o added ELSE l.tcrc
<1>1. /\ disk'.head = disk.head /\ disk'.ext = [log |-> l, op |-> op] /\ disk'.add = disk.add
      /\ disk' = [head |-> disk'.head, ext |-> disk'.ext, body |-> disk'.body,
                  add |-> disk'.add, dict |-> disk'.dict, temp |-> disk'.temp]
  BY Zenon DEF DiskOK
<1>2. disk'.ext \in Marks /\ disk'.ext.log = l /\ disk'.ext.op = op /\ disk'.ext # None
  BY <1>1, NoneApart DEF Marks
<1>3. DiskOK'
  BY <1>1, <1>2, Zenon DEF DiskOK
<1>4. Marked(op)' /\ added' = added
  BY <1>1, <1>2 DEF Marked, added
<1> QED
  BY <1>1, <1>2, <1>3, <1>4, CommittedNext, Zenon DEF Contents

-----------------------------------------------------------------------------
(* The steps of log_open that write a new foo.gz. *)
LEMMA CreateStep == ASSUME Sound, NEW p \in Procs, create(p) PROVE Sound' /\ committed' = committed
<1> USE DEF Opening, Away, Beginning, Appending, Gathering, Compressing, Replacing
<1>1. DiskOK /\ ProcOK /\ Knows(p)
  BY DEF Sound
<1>2. ASSUME ~disk.head, step(p, "open", "ext", [disk EXCEPT !.head = TRUE]) PROVE Sound' /\ committed' = committed
  <2>1. /\ disk'.head = TRUE /\ disk'.ext = None /\ disk'.add = disk.add
        /\ disk' = [head |-> disk'.head, ext |-> disk'.ext, body |-> disk'.body,
                    add |-> disk'.add, dict |-> disk'.dict, temp |-> disk'.temp]
    BY <1>1, <1>2, Zenon DEF DiskOK, step
  <2>2. DiskOK' /\ committed' = committed
    <3>1. DiskOK'
      BY <1>1, <2>1, Zenon DEF DiskOK
    <3> QED
      BY <1>1, <1>2, <2>1, <3>1, CommittedSame DEF DiskOK, Marked
  <2>3. proc[p].pc = "open" /\ proc' = [proc EXCEPT ![p].pc = "ext"] /\ owner' = owner /\ used' = used /\ "ext" \in Places
    BY <1>2 DEF step, Places
  <2>4. Knows(p)'
    <3>1. proc'[p].pc = "ext" /\ ~proc'[p].rec /\ owner' = p
      BY <1>1, <2>3, Moved, Zenon DEF Knows, Recovering
    <3> QED
      BY <2>1, <3>1 DEF Knows
  <2> QED
    BY <2>2, <2>3, <2>4, Quiet, Zenon
<1>3. ASSUME step(p, "ext", "body", [disk EXCEPT !.ext = [log |-> log_gzext, op |-> NO_OP]]) PROVE Sound' /\ committed' = committed
  <2>1. log_gzext \in Structs /\ log_gzext.tcrc = <<>>
    BY EmptySeq, BlockSize DEF log_gzext, Structs
  <2>2. proc[p].pc = "ext" /\ proc' = [proc EXCEPT ![p].pc = "body"] /\ owner' = owner /\ used' = used
        /\ "body" \in Places /\ disk' = [disk EXCEPT !.ext = [log |-> log_gzext, op |-> NO_OP]]
    BY <1>3 DEF step, Places
  <2>3. DiskOK' /\ committed' = <<>> /\ committed = <<>>
    <3>1. disk.head /\ disk.ext = None
      BY <1>1, <2>2 DEF Knows
    <3>2. committed = <<>>
      BY <1>1, <3>1, CommittedIs DEF Contents
    <3> QED
      BY <1>1, <2>1, <2>2, <3>1, <3>2, ExtWritten, Zenon
  <2>4. Knows(p)'
    <3>1. proc'[p].pc = "body" /\ ~proc'[p].rec /\ owner' = p
      BY <1>1, <2>2, Moved, Zenon DEF Knows, Recovering
    <3> QED
      BY <3>1 DEF Knows
  <2> QED
    BY <2>2, <2>3, <2>4, Quiet, Zenon
<1>4. ASSUME \/ step(p, "body", "old_dict", [disk EXCEPT !.body = log_gzbody])
             \/ step(p, "old_dict", "open", [disk EXCEPT !.dict = None])
      PROVE  Sound' /\ committed' = committed
  <2>1. PICK x \in {"old_dict", "open"} :
            /\ proc[p].pc \in {"body", "old_dict"} /\ proc' = [proc EXCEPT ![p].pc = x]
            /\ owner' = owner /\ used' = used
    BY <1>4 DEF step
  <2>2. DiskOK' /\ committed' = committed
    BY <1>1, <1>4, DiskWritten, Zenon DEF step
  <2>3. x \in Places
    BY DEF Places
  <2>4. Knows(p)'
    <3>1. proc'[p].pc = x /\ ~proc'[p].rec /\ owner' = p
      BY <1>1, <2>1, <2>3, Moved, Zenon DEF Knows, Recovering
    <3> QED
      BY <3>1, Zenon DEF Knows
  <2> QED
    BY <2>1, <2>2, <2>3, <2>4, Quiet, Zenon
<1> QED
  BY <1>2, <1>3, <1>4 DEF create

(* What a step of a process with the lock does to the log. *)
Silent == committed' = committed /\ used' = used /\ acked' = acked

(* What step leaves alone. *)
LEMMA StepsAreSilent ==
    ASSUME NEW p, NEW from, NEW goto, NEW d, step(p, from, goto, d)
    PROVE  used' = used /\ acked' = acked /\ owner' = owner /\ disk' = d
           /\ proc[p].pc = from /\ proc' = [proc EXCEPT ![p].pc = goto]
BY DEF step

(* The steps of an append or a compression that write to the body, temp or *)
(* dict only, and leave struct log alone.                                  *)
Along(p, from, goto) ==
    \/ from \in {"append", "seal"} /\ goto = again(p)
    \/ from = "trailer" /\ goto = "truncate"
    \/ from = "truncate" /\ goto = "mark_done"
    \/ from = "temp" /\ goto = "temp_data"
    \/ from = "temp_data" /\ goto = "roll_back"
    \/ from = "z_last" /\ goto = "z_trailer"
    \/ from = "z_trailer" /\ goto = "z_truncate"
    \/ from = "z_truncate" /\ goto = "mark_replace"
    \/ from = "rename" /\ goto = "replaced"

Aside(d) ==
    \/ d = disk
    \/ \E x : d = [disk EXCEPT !.body = x] \/ d = [disk EXCEPT !.temp = x]
    \/ \E x, y : d = [disk EXCEPT !.dict = x, !.temp = y]

(* They leave what is in the log, and keep what the process knows of it. *)
LEMMA AsideStep ==
    ASSUME Sound, NEW p \in Procs, NEW from, NEW goto, NEW w,
           step(p, from, goto, w), Along(p, from, goto), Aside(w)
    PROVE  Sound' /\ Silent
<1> USE DEF Opening, Away, Beginning, Appending, Gathering, Compressing, Replacing
<1>1. DiskOK /\ ProcOK /\ Knows(p)
  BY DEF Sound
<1>2. /\ used' = used /\ acked' = acked /\ owner' = owner /\ disk' = w
       /\ proc[p].pc = from /\ proc' = [proc EXCEPT ![p].pc = goto]
  BY StepsAreSilent, Zenon
<1>3. PICK x : proc' = [proc EXCEPT ![p].pc = x] /\ x = goto /\ x \in Recovering \cup Gathering
  BY <1>2, Zenon DEF Recovering, again, Along
<1>4. /\ disk'.ext = disk.ext /\ disk'.add = disk.add
      /\ DiskOK' /\ committed' = committed /\ added' = added
  BY <1>1, <1>2, DiskWritten, Zenon DEF Aside
<1>5. x \in Places
  BY <1>3 DEF Places
<1>6. /\ proc'[p].pc = x /\ proc'[p].log = proc[p].log /\ proc'[p].rec = proc[p].rec
      /\ proc'[p].buf = proc[p].buf
  BY <1>1, <1>3, <1>5, Moved, Zenon
<1>7. proc[p].pc \in Recovering \cup Gathering /\ proc[p].pc \notin Away
  BY <1>2 DEF Recovering, Along
<1>8. Knows(p)'
  <2>1. owner' = p /\ x = goto
    BY <1>1, <1>3, <1>7, <1>2, Zenon DEF Knows
  <2>2. CASE from \in {"append", "seal"} /\ goto = again(p)
    <3>1. proc'[p].pc \in {"put", "trailer"} /\ (proc'[p].pc = "trailer" => proc'[p].buf = <<>>)
      BY <1>6, <2>1, <2>2, Zenon DEF again
    <3> QED
      BY <1>1, <1>4, <1>6, <1>2, <2>1, <2>2, <3>1, Zenon DEF Knows, Marked, Recovering
  <2>3. CASE from \in {"trailer", "truncate"} /\ goto \in {"truncate", "mark_done"}
    <3>1. proc'[p].pc \in {"truncate", "mark_done"}
      BY <1>6, <2>1, <2>3
    <3> QED
      BY <1>1, <1>4, <1>6, <1>2, <2>1, <2>3, <3>1, Zenon DEF Knows, Marked, Recovering
  <2>4. CASE from \in {"temp", "temp_data"} /\ goto \in {"temp_data", "roll_back"}
    <3>1. proc'[p].pc \in {"temp_data", "roll_back"}
      BY <1>6, <2>1, <2>4
    <3> QED
      BY <1>1, <1>4, <1>6, <1>2, <2>1, <2>4, <3>1, Zenon DEF Knows, Recovering
  <2>5. CASE from \in {"z_last", "z_trailer", "z_truncate"} /\ goto \in {"z_trailer", "z_truncate", "mark_replace"}
    <3>1. proc'[p].pc \in {"z_trailer", "z_truncate", "mark_replace"}
      BY <1>6, <2>1, <2>5
    <3> QED
      BY <1>1, <1>4, <1>6, <1>2, <2>1, <2>5, <3>1, Zenon DEF Knows, Marked, SameLog, Recovering
  <2>6. CASE from = "rename" /\ goto = "replaced"
    <3>1. proc'[p].pc = "replaced"
      BY <1>6, <2>1, <2>6
    <3> QED
      BY <1>1, <1>4, <1>6, <1>2, <2>1, <2>6, <3>1, Zenon DEF Knows, Marked, SameLog, Recovering
  <2> QED
    BY <2>2, <2>3, <2>4, <2>5, <2>6, Zenon DEF Along
<1>9. Sound'
  BY <1>3, <1>4, <1>5, <1>8, <1>7, <1>2, Quiet, Zenon
<1> QED
  BY <1>4, <1>9, <1>2 DEF Silent

(* The steps that write foo.add or delete it, and change only where the    *)
(* process is.                                                             *)
LEMMA AddStep ==
    ASSUME Sound, NEW p \in Procs,
           \/ step(p, "add", "add_data", [disk EXCEPT !.add = <<>>])
           \/ step(p, "add_data", "mark_append", [disk EXCEPT !.add = proc[p].msg])
           \/ step(p, "gather_add", "temp", [disk EXCEPT !.add = proc[p].buf])
           \/ step(p, "replace", "rename", [disk EXCEPT !.add = None])
    PROVE  Sound' /\ committed' = committed
<1> USE DEF Opening, Away, Beginning, Appending, Gathering, Compressing, Replacing
<1>1. DiskOK /\ ProcOK /\ Knows(p) /\ proc[p].msg \in Seq(Letters) /\ proc[p].buf \in Seq(Letters)
  BY MessagesAre, EmptySeq, Zenon DEF Sound, ProcOK, ProcRecords
<1>2. PICK x \in {"add_data", "mark_append", "temp", "rename"}, a \in Seq(Letters) \cup {None} :
        /\ proc' = [proc EXCEPT ![p].pc = x] /\ disk' = [disk EXCEPT !.add = a]
        /\ owner' = owner /\ used' = used
        /\ \/ proc[p].pc = "add" /\ x = "add_data"
           \/ proc[p].pc = "add_data" /\ x = "mark_append" /\ a = proc[p].msg
           \/ proc[p].pc = "gather_add" /\ x = "temp" /\ a = proc[p].buf
           \/ proc[p].pc = "replace" /\ x = "rename"
  BY <1>1, EmptySeq, Zenon DEF step
<1>3. disk.ext = None \/ Marked(NO_OP) \/ Marked(REPLACE_OP)
  <2>1. CASE proc[p].pc \in {"add", "add_data", "gather_add"}
    <3>1. disk.ext = [log |-> proc[p].log, op |-> NO_OP]
      BY <1>1, <2>1 DEF Knows
    <3> QED
      BY <3>1, MarkFields, SMTT(30) DEF Marked
  <2>2. CASE proc[p].pc = "replace"
    BY <1>1, <2>2 DEF Knows
  <2> QED
    BY <1>2, <2>1, <2>2
<1>4. /\ disk'.ext = disk.ext /\ disk'.add = a
      /\ DiskOK' /\ committed' = committed
  BY <1>1, <1>2, <1>3, AddWritten
<1>5. x \in Places /\ proc[p].pc \notin Away
  BY <1>2 DEF Places, Recovering
<1>6. /\ proc'[p].pc = x /\ proc'[p].log = proc[p].log /\ proc'[p].rec = proc[p].rec
      /\ proc'[p].buf = proc[p].buf /\ proc'[p].msg = proc[p].msg
  BY <1>1, <1>2, <1>5, Moved, Zenon
<1>7. Knows(p)'
  <2>1. owner' = p
    BY <1>1, <1>2 DEF Knows
  <2>2. CASE proc[p].pc = "add" /\ x = "add_data"
    BY <1>1, <1>4, <1>6, <2>1, <2>2, SMTT(30) DEF Knows, Recovering
  <2>3. CASE proc[p].pc = "add_data" /\ x = "mark_append" /\ a = proc[p].msg
    BY <1>1, <1>4, <1>6, <2>1, <2>3, SMTT(30) DEF Knows, Recovering
  <2>4. CASE proc[p].pc = "gather_add" /\ x = "temp" /\ a = proc[p].buf
    BY <1>1, <1>4, <1>6, <2>1, <2>4, NoneApart, SMTT(30) DEF Knows, Recovering
  <2>5. CASE proc[p].pc = "replace" /\ x = "rename"
    BY <1>1, <1>4, <1>6, <2>1, <2>5 DEF Knows, Recovering, Marked, SameLog
  <2> QED
    BY <1>2, <2>2, <2>3, <2>4, <2>5, ZenonT(30)
<1>8. \/ {proc[p].pc, x} \subseteq Recovering \cup Gathering \cup {"mark_compress"}
      \/ {proc[p].pc, x} \subseteq Beginning
  BY <1>2 DEF Recovering
<1> QED
  BY <1>2, <1>4, <1>5, <1>7, <1>8, Quiet, Zenon

(* The marks at the end of log_append, before log_compress and after it:   *)
(* what is in the log is the same.                                         *)
LEMMA MarkStep ==
    ASSUME Sound, NEW p \in Procs,
           \/ step(p, "mark_done", "unlink_add", log_mark(p, NO_OP))
           \/ step(p, "mark_compress", "compress", log_mark(p, COMPRESS_OP))
           \/ step(p, "mark_replace", "replace", log_mark(p, REPLACE_OP))
    PROVE  Sound' /\ committed' = committed
<1> USE DEF Opening, Away, Beginning, Appending, Gathering, Compressing, Replacing
<1>1. DiskOK /\ ProcOK /\ Knows(p) /\ proc[p].log \in Structs /\ proc[p].log.tcrc \in Seq(Letters)
  BY DEF Sound, ProcOK, ProcRecords, Structs
<1>2. PICK x \in {"unlink_add", "compress", "replace"}, op \in {NO_OP, COMPRESS_OP, REPLACE_OP} :
        /\ proc' = [proc EXCEPT ![p].pc = x] /\ disk' = [disk EXCEPT !.ext = [log |-> proc[p].log, op |-> op]]
        /\ owner' = owner /\ used' = used
        /\ \/ proc[p].pc = "mark_done" /\ x = "unlink_add" /\ op = NO_OP
           \/ proc[p].pc = "mark_compress" /\ x = "compress" /\ op = COMPRESS_OP
           \/ proc[p].pc = "mark_replace" /\ x = "replace" /\ op = REPLACE_OP
  BY DEF step, log_mark
<1>3. disk.ext # None /\ disk.head /\ (op = COMPRESS_OP => disk.add \notin {None, <<>>})
  BY <1>1, <1>2, Zenon DEF Knows, Marked, DiskOK
<1>4. /\ disk'.ext = [log |-> proc[p].log, op |-> op] /\ disk'.add = disk.add
      /\ Marked(op)' /\ DiskOK' /\ committed' = proc[p].log.tcrc
  BY <1>1, <1>2, <1>3, ExtWritten, Zenon
<1>5. committed = proc[p].log.tcrc
  <2>1. CASE proc[p].pc = "mark_done"
    <3>1. Marked(APPEND_OP) /\ proc[p].log.tcrc \o <<>> = disk.ext.log.tcrc \o added
      BY <1>1, <2>1, Zenon DEF Knows
    <3>2. proc[p].log.tcrc \o <<>> = proc[p].log.tcrc
      BY <1>1, ConcatEmptySeq
    <3> QED
      BY <1>1, <3>1, <3>2, CommittedIs, Zenon DEF Contents
  <2>2. CASE proc[p].pc \in {"mark_compress", "mark_replace"}
    <3>1. (Marked(NO_OP) \/ Marked(COMPRESS_OP)) /\ SameLog(p)
      BY <1>1, <2>2, Zenon DEF Knows
    <3> QED
      BY <1>1, <3>1, CommittedIs, SMTT(30) DEF Contents, SameLog
  <2> QED
    BY <1>2, <2>1, <2>2
<1>6. x \in Places /\ proc[p].pc \notin Away
  BY <1>2 DEF Places, Recovering
<1>7. /\ proc'[p].pc = x /\ proc'[p].log = proc[p].log /\ proc'[p].rec = proc[p].rec
      /\ proc'[p].buf = proc[p].buf /\ proc'[p].msg = proc[p].msg
  BY <1>1, <1>2, <1>6, Moved, Zenon
<1>8. Knows(p)'
  <2>0. disk'.ext.log = proc[p].log
    BY <1>4, MarkFields, SMTT(30)
  <2>1. owner' = p /\ disk'.ext.log = proc[p].log
    BY <1>1, <1>2, <1>6, <2>0 DEF Knows
  <2>2. CASE x = "unlink_add"
    BY <1>2, <1>4, <1>7, <2>1, <2>2, Zenon DEF Knows, Recovering
  <2>3. CASE x = "compress"
    <3>1. proc[p].buf # <<>> /\ Marked(COMPRESS_OP)'
      BY <1>1, <1>2, <1>4, <2>3 DEF Knows
    <3> QED
      BY <1>7, <2>1, <2>3, <3>1, ZenonT(30) DEF Knows, Recovering, SameLog, Marked
  <2>4. CASE x = "replace"
    <3>1. Marked(REPLACE_OP)'
      BY <1>2, <1>4, <2>4
    <3> QED
      BY <1>7, <2>1, <2>4, <3>1 DEF Knows, Recovering, SameLog, Marked
  <2> QED
    BY <2>2, <2>3, <2>4
<1>9. {proc[p].pc, x} \subseteq Recovering \cup Gathering \cup {"mark_compress"}
  BY <1>2 DEF Recovering
<1> QED
  BY <1>2, <1>4, <1>5, <1>6, <1>8, <1>9, Quiet, Zenon

-----------------------------------------------------------------------------
(* Concatenation of data. *)
LEMMA Associative == \A s, t, u \in Seq(Letters) : (s \o t) \o u = s \o (t \o u)
BY ConcatAssociative, SMTT(30)

(* What room gives fits into the block. *)
LEMMA Fits == \A a \in 0..MaxStore, b \in Nat : b <= MaxStore - a => a + b \in 0..MaxStore
BY BlockSize

(* A part of s is moved to t. *)
LEMMA Cut ==
    ASSUME NEW t \in Seq(Letters), NEW s \in Seq(Letters), NEW n \in 0..Len(s)
    PROVE  /\ SubSeq(s, 1, n) \in Seq(Letters) /\ Len(SubSeq(s, 1, n)) = n
           /\ SubSeq(s, n + 1, Len(s)) \in Seq(Letters)
           /\ t \o SubSeq(s, 1, n) \in Seq(Letters)
           /\ (t \o SubSeq(s, 1, n)) \o SubSeq(s, n + 1, Len(s)) = t \o s
<1>1. Len(s) \in Nat /\ \A i \in 1..Len(s) : s[i] \in Letters
  BY ElementOfSeq, LenProperties
<1>2. SubSeq(s, 1, n) \in Seq(Letters) /\ Len(SubSeq(s, 1, n)) = n
  BY <1>1, SubSeqProperties
<1>3. SubSeq(s, n + 1, Len(s)) \in Seq(Letters)
  BY <1>1, SubSeqProperties
<1>4. SubSeq(s, 1, n) \o SubSeq(s, n + 1, Len(s)) = s
  <2>1. 1 \in 1..Len(s) + 1 /\ n \in 1 - 1..Len(s) /\ Len(s) \in n..Len(s)
    BY <1>1
  <2>2. SubSeq(s, 1, n) \o SubSeq(s, n + 1, Len(s)) = SubSeq(s, 1, Len(s))
    BY <2>1, ConcatAdjacentSubSeq, Zenon
  <2> QED
    BY <2>2, SubSeqFull, Zenon
<1>5. t \o SubSeq(s, 1, n) \in Seq(Letters)
  BY <1>2, ConcatProperties
<1>6. (t \o SubSeq(s, 1, n)) \o SubSeq(s, n + 1, Len(s)) = t \o (SubSeq(s, 1, n) \o SubSeq(s, n + 1, Len(s)))
  BY <1>2, <1>3, Associative, Zenon
<1> QED
  BY <1>2, <1>3, <1>4, <1>5, <1>6, Zenon

(* The loop of log_append: what is still to be written and what has been   *)
(* written are together what is in the log.                                *)
LEMMA PutStep == ASSUME Sound, NEW p \in Procs, put(p) PROVE Sound' /\ committed' = committed
<1>1. /\ DiskOK /\ ProcOK /\ Knows(p) /\ proc[p].pc = "put" /\ proc[p] \in ProcRecords
      /\ proc[p].log \in Structs /\ proc[p].buf \in Seq(Letters)
      /\ proc[p].log.tcrc \in Seq(Letters) /\ proc[p].log.stored \in 0..MaxStore
  BY DEF Sound, ProcOK, ProcRecords, put, Structs
<1>2. room(p) \in 0..Len(proc[p].buf) /\ room(p) <= MaxStore - proc[p].log.stored
  <2>1. Len(proc[p].buf) \in Nat
    BY <1>1, LenProperties
  <2> QED
    BY <1>1, <2>1, BlockSize DEF room
<1> DEFINE part == SubSeq(proc[p].buf, 1, room(p))
           more == SubSeq(proc[p].buf, room(p) + 1, Len(proc[p].buf))
           new == [proc[p].log EXCEPT !.tcrc = proc[p].log.tcrc \o part, !.stored = proc[p].log.stored + Len(part)]
           x == IF more = <<>> THEN "seal" ELSE "new_block"
<1>3. /\ part \in Seq(Letters) /\ more \in Seq(Letters)
      /\ Len(part) = room(p) /\ proc[p].log.tcrc \o part \in Seq(Letters)
      /\ (proc[p].log.tcrc \o part) \o more = proc[p].log.tcrc \o proc[p].buf
  BY <1>1, <1>2, Cut, Zenon
<1>4. proc' = [proc EXCEPT ![p] = [proc[p] EXCEPT !.pc = x, !.log = new, !.buf = more]]
  BY DEF put
<1>5. disk' = Overwrite(behind(p), Data(part)) /\ owner' = owner /\ used' = used /\ x \in {"seal", "new_block"}
  BY ZenonT(30) DEF put
<1>6. proc[p].log.stored + Len(part) \in 0..MaxStore
  BY <1>1, <1>2, <1>3, Fits, SMTT(30)
<1> HIDE DEF part, more, x
<1>7. new \in Structs /\ new.tcrc = proc[p].log.tcrc \o part
  BY <1>1, <1>3, <1>6, Zenon DEF Structs
<1> HIDE DEF new
<1>8. DiskOK' /\ disk'.ext = disk.ext /\ disk'.add = disk.add /\ committed' = committed /\ added' = added
  BY <1>1, <1>5, DiskWritten, Zenon DEF Overwrite
<1>9. x \in Places /\ {proc[p].pc, x} \subseteq Recovering
  BY <1>1, <1>5 DEF Places, Recovering, Appending
<1>10. /\ proc'[p].pc = x /\ proc'[p].log = new /\ proc'[p].next = proc[p].next
       /\ proc'[p].rec = proc[p].rec /\ proc'[p].buf = more /\ proc'[p].msg = proc[p].msg
       /\ proc'[p] \in ProcRecords /\ proc' = [proc EXCEPT ![p] = proc'[p]]
  BY <1>1, <1>3, <1>4, <1>7, <1>9, Changed, ZenonT(40)
<1>11. Knows(p)'
  <2>1. Marked(APPEND_OP) /\ owner = p /\ proc[p].log.tcrc \o proc[p].buf = disk.ext.log.tcrc \o added
    BY <1>1, Zenon DEF Knows, Appending, Away
  <2>2. Marked(APPEND_OP)' /\ owner' = p
    BY <1>5, <1>8, <2>1, Zenon DEF Marked
  <2>3. proc'[p].log.tcrc \o proc'[p].buf = disk'.ext.log.tcrc \o added'
    BY <1>3, <1>7, <1>8, <1>10, <2>1, Zenon
  <2>4. proc'[p].pc \in {"seal", "new_block"}
    BY <1>5, <1>10
  <2> QED
    BY <2>2, <2>3, <2>4 DEF Knows, Opening, Away, Beginning, Recovering, Appending, Gathering, Compressing, Replacing
<1> QED
  BY <1>5, <1>8, <1>9, <1>10, <1>11, Steady, Zenon

(* What struct log becomes when blocks are begun, taken back or deflated. *)
LEMMA StructFields ==
    ASSUME NEW l \in Structs
    PROVE  /\ l.first \in Nat /\ l.last \in Nat /\ l.first <= l.last /\ l.stored \in 0..MaxStore
           /\ l.ccrc \in Seq(Letters) /\ l.tcrc \in Seq(Letters)
           /\ l \in [first : Nat, last : Nat, stored : 0..MaxStore, ccrc : Seq(Letters), tcrc : Seq(Letters)]
BY DEF Structs

(* The last block is another, and empty. *)
LEMMA BlockMoved ==
    \A l \in Structs, n \in Nat : l.first <= n =>
        LET new == [l EXCEPT !.last = n, !.stored = 0] IN new \in Structs /\ new.tcrc = l.tcrc
<1> TAKE l \in Structs, n \in Nat
<1> HAVE l.first <= n
<1>1. ASSUME NEW new, new = [l EXCEPT !.last = n, !.stored = 0]
      PROVE  new = [first |-> l.first, last |-> n, stored |-> 0, ccrc |-> l.ccrc, tcrc |-> l.tcrc]
  BY <1>1, StructFields, Zenon
<1>2. l.first \in Nat /\ l.ccrc \in Seq(Letters) /\ l.tcrc \in Seq(Letters) /\ 0 \in 0..MaxStore
  BY StructFields, BlockSize
<1> QED
  BY <1>1, <1>2 DEF Structs

(* The stored blocks are deflated, and an empty one is behind them. *)
LEMMA BlockDeflated ==
    \A l \in Structs :
        LET new == [l EXCEPT !.ccrc = l.tcrc, !.first = l.first + 1, !.last = l.first + 1, !.stored = 0]
        IN  new \in Structs /\ new.tcrc = l.tcrc
<1> TAKE l \in Structs
<1>1. ASSUME NEW new, new = [l EXCEPT !.ccrc = l.tcrc, !.first = l.first + 1, !.last = l.first + 1, !.stored = 0]
      PROVE  new = [first |-> l.first + 1, last |-> l.first + 1, stored |-> 0, ccrc |-> l.tcrc, tcrc |-> l.tcrc]
  BY <1>1, StructFields, Zenon
<1>2. l.first + 1 \in Nat /\ l.first + 1 <= l.first + 1 /\ l.tcrc \in Seq(Letters) /\ 0 \in 0..MaxStore
  BY StructFields, BlockSize
<1> QED
  BY <1>1, <1>2 DEF Structs

(* An empty block is begun behind a full one. *)
LEMMA NewBlockStep == ASSUME Sound, NEW p \in Procs, new_block(p) PROVE Sound' /\ committed' = committed
<1>1. /\ DiskOK /\ ProcOK /\ Knows(p) /\ proc[p].pc = "new_block"
      /\ proc[p].log \in Structs /\ proc[p].buf \in Seq(Letters)
  BY DEF Sound, ProcOK, ProcRecords, new_block
<1> DEFINE new == [proc[p].log EXCEPT !.last = behind(p), !.stored = 0]
<1>2. /\ proc' = [proc EXCEPT ![p] = [proc[p] EXCEPT !.pc = "seal", !.log = new]]
      /\ disk' = log_last(p, FALSE) /\ owner' = owner /\ used' = used
  BY DEF new_block
<1>3. new \in Structs /\ new.tcrc = proc[p].log.tcrc
  <2>1. \A f, l, s \in Nat : f <= l => l + 1 + s \in Nat /\ f <= l + 1 + s
    OBVIOUS
  <2>2. behind(p) \in Nat /\ proc[p].log.first \in Nat /\ proc[p].log.ccrc \in Seq(Letters) /\ proc[p].log.first <= behind(p)
    <3>1. \A s \in 0..MaxStore : s \in Nat
      BY BlockSize
    <3> QED
      BY <1>1, <2>1, <3>1, StructFields, Zenon DEF behind
  <2> QED
    BY <1>1, <2>2, BlockMoved, Zenon
<1> HIDE DEF new
<1>4. DiskOK' /\ disk'.ext = disk.ext /\ disk'.add = disk.add /\ committed' = committed /\ added' = added
  BY <1>1, <1>2, DiskWritten, Zenon DEF log_last, Overwrite
<1>5. "seal" \in Places /\ {proc[p].pc, "seal"} \subseteq Recovering
  BY <1>1 DEF Places, Recovering, Appending
<1>6. /\ proc'[p].pc = "seal" /\ proc'[p].log = new /\ proc'[p].next = proc[p].next
      /\ proc'[p].rec = proc[p].rec /\ proc'[p].buf = proc[p].buf /\ proc'[p].msg = proc[p].msg
      /\ proc'[p] \in ProcRecords /\ proc' = [proc EXCEPT ![p] = proc'[p]]
  BY <1>1, <1>2, <1>3, <1>5, Changed, ZenonT(40)
<1>7. Knows(p)'
  <2>1. Marked(APPEND_OP) /\ owner = p /\ proc[p].log.tcrc \o proc[p].buf = disk.ext.log.tcrc \o added
    BY <1>1, Zenon DEF Knows, Appending, Away
  <2>2. Marked(APPEND_OP)' /\ owner' = p
    BY <1>2, <1>4, <2>1, Zenon DEF Marked
  <2>3. proc'[p].log.tcrc \o proc'[p].buf = disk'.ext.log.tcrc \o added'
    BY <1>3, <1>4, <1>6, <2>1, Zenon
  <2> QED
    BY <1>6, <2>2, <2>3 DEF Knows, Opening, Away, Beginning, Recovering, Appending, Gathering, Compressing, Replacing
<1> QED
  BY <1>2, <1>4, <1>5, <1>6, <1>7, Steady, Zenon

(* The stored blocks are taken back in struct log. *)
LEMMA RollBackStep == ASSUME Sound, NEW p \in Procs, roll_back(p) PROVE Sound' /\ committed' = committed
<1>1. /\ DiskOK /\ ProcOK /\ Knows(p) /\ proc[p].pc = "roll_back"
      /\ proc[p].log \in Structs /\ proc[p].buf \in Seq(Letters)
  BY DEF Sound, ProcOK, ProcRecords, roll_back
<1> DEFINE new == [proc[p].log EXCEPT !.last = proc[p].log.first, !.stored = 0]
<1>2. /\ proc' = [proc EXCEPT ![p] = [proc[p] EXCEPT !.pc = "mark_compress", !.log = new]]
      /\ disk' = disk /\ owner' = owner /\ used' = used
  BY DEF roll_back
<1>3. new \in Structs /\ new.tcrc = proc[p].log.tcrc
  <2>1. proc[p].log.first \in Nat /\ proc[p].log.first <= proc[p].log.first
    BY <1>1, StructFields
  <2> QED
    BY <1>1, <2>1, BlockMoved, Zenon
<1> HIDE DEF new
<1>4. DiskOK' /\ committed' = committed
  BY <1>1, <1>2, DiskWritten, Zenon
<1>5. "mark_compress" \in Places /\ proc[p].pc \in Gathering
  BY <1>1 DEF Places, Gathering
<1>6. /\ proc'[p].pc = "mark_compress" /\ proc'[p].log = new /\ proc'[p].next = proc[p].next
      /\ proc'[p].rec = proc[p].rec /\ proc'[p].buf = proc[p].buf /\ proc'[p].msg = proc[p].msg
      /\ proc'[p] \in ProcRecords /\ proc' = [proc EXCEPT ![p] = proc'[p]]
  BY <1>1, <1>2, <1>3, <1>5, Changed, Zenon
<1>7. Knows(p)'
  <2>1. /\ owner = p /\ disk.ext = [log |-> proc[p].log, op |-> NO_OP] /\ ~proc[p].rec
        /\ proc[p].buf # <<>> /\ disk.add \notin {None, <<>>}
    BY <1>1 DEF Knows, Gathering, Away, Recovering, Appending, Compressing, Replacing
  <2>2. Marked(NO_OP)' /\ SameLog(p)'
    <3>1. disk.ext # None
      BY <1>1, <2>1, NoneApart DEF Marks
    <3> QED
      BY <1>2, <1>3, <1>6, <2>1, <3>1, MarkFields, SMTT(30) DEF Marked, SameLog
  <2> QED
    BY <1>2, <1>6, <2>1, <2>2, Zenon DEF Knows, Opening, Away, Beginning, Recovering, Appending, Gathering, Compressing, Replacing
<1> QED
  BY <1>2, <1>4, <1>5, <1>6, <1>7, Steady, Zenon

(* The data of the stored blocks is deflated: no data was lost. *)
LEMMA DeflateStep == ASSUME Sound, NEW p \in Procs, deflate(p) PROVE Sound' /\ committed' = committed
<1>1. /\ DiskOK /\ ProcOK /\ Knows(p) /\ proc[p].pc = "compress"
      /\ proc[p].log \in Structs /\ proc[p].buf \in Seq(Letters)
  BY ZenonT(30) DEF Sound, ProcOK, ProcRecords, deflate
<1>2. Marked(COMPRESS_OP) /\ SameLog(p) /\ owner = p /\ proc[p].buf # <<>>
  BY <1>1 DEF Knows, Compressing, Away
<1> DEFINE new == [proc[p].log EXCEPT !.ccrc = proc[p].log.tcrc, !.first = proc[p].log.first + 1,
                                      !.last = proc[p].log.first + 1, !.stored = 0]
           d == Overwrite(proc[p].log.first, <<Deflated(proc[p].buf, disk.dict)>>)
<1>3. /\ proc' = [proc EXCEPT ![p] = [proc[p] EXCEPT !.pc = "z_last", !.log = new]]
      /\ disk' = d /\ owner' = owner /\ used' = used
  BY <1>2 DEF deflate
<1>4. new \in Structs /\ new.tcrc = proc[p].log.tcrc
  BY <1>1, BlockDeflated, Zenon
<1> HIDE DEF new
<1>5. DiskOK' /\ disk'.ext = disk.ext /\ disk'.add = disk.add /\ committed' = committed
  BY <1>1, <1>3, DiskWritten, Zenon DEF Overwrite
<1>6. "z_last" \in Places /\ {proc[p].pc, "z_last"} \subseteq Recovering
  BY <1>1 DEF Places, Recovering, Compressing
<1>7. /\ proc'[p].pc = "z_last" /\ proc'[p].log = new /\ proc'[p].next = proc[p].next
      /\ proc'[p].rec = proc[p].rec /\ proc'[p].buf = proc[p].buf /\ proc'[p].msg = proc[p].msg
      /\ proc'[p] \in ProcRecords /\ proc' = [proc EXCEPT ![p] = proc'[p]]
  BY <1>1, <1>3, <1>4, <1>6, Changed, Zenon
<1>8. Knows(p)'
  <2>1. Marked(COMPRESS_OP)' /\ SameLog(p)' /\ owner' = p
    BY <1>2, <1>3, <1>4, <1>5, <1>7, ZenonT(40) DEF Marked, SameLog
  <2> QED
    BY <1>7, <2>1 DEF Knows, Opening, Away, Beginning, Recovering, Appending, Gathering, Compressing, Replacing
<1> QED
  BY <1>3, <1>5, <1>6, <1>7, <1>8, Steady, Zenon

-----------------------------------------------------------------------------
(* A process without a gzlog object, or between two calls. *)
Idle(l) == [outside EXCEPT !.pc = "idle", !.log = l]

(* The fields of these two. *)
LEMMA Outside ==
    /\ outside \in ProcRecords /\ outside.pc = "out" /\ ~outside.rec /\ outside.next = "idle"
    /\ \A l \in Structs : /\ Idle(l) \in ProcRecords /\ Idle(l).pc = "idle" /\ Idle(l).log = l
                          /\ ~Idle(l).rec /\ Idle(l).next = "idle"
<1>1. log_gzext \in Structs
  BY EmptySeq, BlockSize DEF log_gzext, Structs
<1>2. /\ outside \in ProcRecords /\ outside.pc = "out" /\ outside.rec = FALSE /\ outside.next = "idle"
      /\ outside.buf = <<>> /\ outside.msg = <<>>
  <2>1. "out" \in Places /\ <<>> \in Seq(Letters)
    BY EmptySeq DEF Places, Away
  <2> QED
    BY <1>1, <2>1 DEF ProcRecords, outside
<1>3. ASSUME NEW l \in Structs
      PROVE  /\ Idle(l) \in ProcRecords /\ Idle(l).pc = "idle" /\ Idle(l).log = l
             /\ ~Idle(l).rec /\ Idle(l).next = "idle"
  <2>1. ASSUME NEW r, r = Idle(l)
        PROVE  r = [pc |-> "idle", log |-> l, next |-> outside.next, rec |-> outside.rec,
                    buf |-> outside.buf, msg |-> outside.msg]
    BY <1>2, <2>1, Zenon DEF ProcRecords, Idle
  <2>2. "idle" \in Places /\ <<>> \in Seq(Letters)
    BY EmptySeq DEF Places, Away
  <2> QED
    BY <1>2, <2>1, <2>2 DEF ProcRecords
<1> QED
  BY <1>2, <1>3

(* A process that is neither pending nor reopening has no duties. *)
LEMMA Rests ==
    ASSUME NEW p \in Procs, proc'[p].pc \in {"out", "idle"}, ~proc'[p].rec
    PROVE  ~Pending(p)' /\ ~Added(p)' /\ ~Reopens(p)'
BY DEF Pending, Added, Reopens, Opening, Beginning, Recovering, Appending, Gathering, Compressing, Replacing

(* A call ends and its process keeps the lock. *)
LEMMA IdleStep ==
    ASSUME Sound, NEW p \in Procs, proc[p].pc \notin Away, owner' = owner, used' = used,
           proc' = [proc EXCEPT ![p] = Idle(proc[p].log)],
           DiskOK', committed' = committed, disk'.ext = [log |-> proc[p].log, op |-> NO_OP]
    PROVE  Sound'
<1>1. ProcOK /\ Knows(p) /\ proc[p].log \in Structs
  BY DEF Sound, ProcOK, ProcRecords
<1>2. proc'[p] = Idle(proc[p].log) /\ proc' = [proc EXCEPT ![p] = proc'[p]]
  BY <1>1 DEF ProcOK
<1>3. proc'[p] \in ProcRecords /\ proc'[p].pc = "idle" /\ proc'[p].log = proc[p].log /\ ~proc'[p].rec
  BY <1>1, <1>2, Outside, ZenonT(40)
<1>4. owner' = p
  BY <1>1, Zenon DEF Knows
<1>5. Knows(p)'
  BY <1>3, <1>4, Zenon DEF Knows, Opening, Away, Beginning, Recovering, Appending, Gathering, Compressing, Replacing
<1> QED
  BY <1>2, <1>3, <1>4, <1>5, Rests, Worked, Zenon

(* What was begun is done: recovery goes back to the call it interrupted,  *)
(* and a call of its own returns.                                          *)
LEMMA Returned ==
    ASSUME Sound, NEW p \in Procs, proc[p].pc \in {"unlink_add", "replaced"}, returned(p),
           owner' = owner, used' = used,
           DiskOK', committed' = committed, disk'.ext = [log |-> proc[p].log, op |-> NO_OP]
    PROVE  Sound'
<1>1. /\ ProcOK /\ Knows(p) /\ proc[p] \in ProcRecords /\ proc[p].pc \notin Away
      /\ proc[p].log \in Structs /\ proc[p].next \in {"idle", "add", "gather"} /\ proc[p].msg \in Messages \cup {<<>>}
  BY DEF Sound, ProcOK, ProcRecords, Away
<1>2. CASE ~proc[p].rec
  <2>1. proc' = [proc EXCEPT ![p] = Idle(proc[p].log)]
    BY <1>2, Zenon DEF returned, Idle
  <2> QED
    BY <1>1, <2>1, IdleStep, Zenon
<1>3. CASE proc[p].rec
  <2>1. PICK r : proc' = [proc EXCEPT ![p] = r] /\ r = [proc[p] EXCEPT !.pc = proc[p].next, !.rec = FALSE, !.buf = <<>>]
    BY <1>3, Zenon DEF returned
  <2>2. r = [pc |-> proc[p].next, log |-> proc[p].log, next |-> proc[p].next, rec |-> FALSE, buf |-> <<>>, msg |-> proc[p].msg]
    BY <1>1, <2>1, Zenon DEF ProcRecords
  <2>3. /\ r.pc = proc[p].next /\ r.log = proc[p].log /\ r.next = proc[p].next /\ r.rec = FALSE
        /\ r.buf = <<>> /\ r.msg = proc[p].msg
    BY <2>2
  <2>4. r \in ProcRecords
    <3>1. proc[p].next \in Places /\ <<>> \in Seq(Letters)
      BY <1>1, EmptySeq DEF Places, Away, Beginning, Gathering
    <3> QED
      BY <1>1, <2>2, <3>1 DEF ProcRecords
  <2>5. proc'[p] = r /\ proc' = [proc EXCEPT ![p] = proc'[p]]
    BY <1>1, <2>1, SMTT(30) DEF ProcOK
  <2>6. owner' = p /\ proc'[p].pc \in {"idle", "add", "gather"}
    BY <1>1, <2>3, <2>5, Zenon DEF Knows
  <2>7. Knows(p)'
    BY <2>3, <2>5, <2>6, Zenon DEF Knows, Opening, Away, Beginning, Recovering, Appending, Gathering, Compressing, Replacing
  <2>8. Reopens(p) /\ ~Reopens(p)' /\ (proc[p].next = "gather" => proc[p].msg = <<>>)
    <3>1. Reopens(p)
      BY <1>3 DEF Reopens
    <3>2. ~Reopens(p)'
      BY <2>3, <2>5, <2>6 DEF Reopens, Opening
    <3> QED
      BY <3>1, <3>2, Zenon DEF Sound, MessageInv
  <2>9. Pending(p)' => Pending(p) /\ proc'[p].msg = proc[p].msg
    BY <2>3, <2>5, <2>6, <2>8 DEF Pending, Beginning
  <2>10. ~Added(p)'
    BY <2>3, <2>5, <2>6, <2>8 DEF Added, Recovering, Appending, Gathering, Compressing, Replacing
  <2> QED
    BY <1>1, <2>4, <2>5, <2>6, <2>7, <2>8, <2>9, <2>10, Worked, Zenon
<1> QED
  BY <1>2, <1>3

(* The end of an append. *)
LEMMA UnlinkStep == ASSUME Sound, NEW p \in Procs, unlink_add(p) PROVE Sound' /\ committed' = committed
<1>1. DiskOK /\ ProcOK /\ Knows(p) /\ proc[p].pc = "unlink_add" /\ proc[p].pc \notin Away
  BY SMTT(30) DEF Sound, unlink_add, Away
<1>2. disk.ext = [log |-> proc[p].log, op |-> NO_OP] /\ owner = p
  BY <1>1, Zenon DEF Knows
<1>3. disk' = [disk EXCEPT !.add = None] /\ owner' = owner /\ used' = used
  BY Zenon DEF unlink_add
<1>4. DiskOK' /\ committed' = committed /\ disk'.ext = disk.ext
  <2>1. disk.ext = None \/ Marked(NO_OP)
    BY <1>2, MarkFields DEF Marked
  <2> QED
    BY <1>1, <1>3, <2>1, AddWritten, Zenon
<1>5. CASE returned(p)
  BY <1>1, <1>2, <1>3, <1>4, <1>5, Returned
<1>6. CASE ~proc[p].rec /\ proc' = [proc EXCEPT ![p].pc = "gather"]
  <2>1. "gather" \in Places /\ {proc[p].pc, "gather"} \subseteq Recovering \cup Gathering
    BY <1>1 DEF Places, Gathering, Recovering
  <2>2. proc'[p].pc = "gather" /\ proc'[p].log = proc[p].log /\ ~proc'[p].rec
    BY <1>1, <1>6, <2>1, Moved, Zenon
  <2>3. Knows(p)'
    BY <1>2, <1>3, <1>4, <2>2 DEF Knows, Opening, Away, Beginning, Recovering, Appending, Gathering, Compressing, Replacing
  <2> QED
    BY <1>1, <1>3, <1>4, <1>6, <2>1, <2>3, Quiet, Zenon
<1> QED
  BY <1>5, <1>6, Zenon DEF unlink_add

(* The end of a compression. *)
LEMMA ReplacedStep == ASSUME Sound, NEW p \in Procs, mark_replaced(p) PROVE Sound' /\ committed' = committed
<1>1. DiskOK /\ ProcOK /\ Knows(p) /\ proc[p].pc = "replaced" /\ proc[p].log \in Structs /\ returned(p)
  BY ZenonT(30) DEF Sound, ProcOK, ProcRecords, mark_replaced
<1>2. Marked(REPLACE_OP) /\ SameLog(p) /\ owner = p
  BY <1>1 DEF Knows, Replacing, Away
<1>3. disk' = [disk EXCEPT !.ext = [log |-> proc[p].log, op |-> NO_OP]] /\ owner' = owner /\ used' = used
  BY Zenon DEF mark_replaced, log_mark
<1>4. DiskOK' /\ committed' = proc[p].log.tcrc /\ disk'.ext = [log |-> proc[p].log, op |-> NO_OP]
  <2>1. disk.head /\ NO_OP # COMPRESS_OP /\ NO_OP # APPEND_OP
    BY <1>1, <1>2 DEF DiskOK, Marked
  <2> QED
    BY <1>1, <1>3, <2>1, ExtWritten, Zenon
<1>5. committed = proc[p].log.tcrc
  BY <1>1, <1>2, CommittedIs DEF Contents, SameLog
<1> QED
  BY <1>1, <1>3, <1>4, <1>5, Returned

(* gzlog_compress reads the stored blocks, or fails. *)
LEMMA GatherStep == ASSUME Sound, NEW p \in Procs, gather(p) PROVE Sound' /\ committed' = committed
<1>1. /\ DiskOK /\ ProcOK /\ Knows(p) /\ proc[p].pc = "gather" /\ proc[p].pc \notin Away
      /\ proc[p].log \in Structs /\ used' = used
  BY SMTT(30) DEF Sound, ProcOK, ProcRecords, gather, Away
<1>2. disk.ext = [log |-> proc[p].log, op |-> NO_OP] /\ owner = p /\ ~proc[p].rec
  BY <1>1 DEF Knows, Gathering, Recovering, Appending, Compressing, Replacing, Away
<1>3. CASE ~readable(p)
  <2>1. ~opening(p)
    BY <1>1, <1>2 DEF opening
  <2>2. proc' = [proc EXCEPT ![p] = Idle(proc[p].log)] /\ owner' = owner /\ disk' = disk
    BY <1>3, <2>1, Zenon DEF gather, failed, Idle
  <2>3. DiskOK' /\ committed' = committed
    BY <1>1, <2>2, DiskWritten, Zenon
  <2> QED
    BY <1>1, <1>2, <2>2, <2>3, IdleStep, Zenon
<1>4. CASE readable(p)
  <2>1. /\ proc' = [proc EXCEPT ![p] = [proc[p] EXCEPT !.pc = "gather_add", !.buf = stored_data(p)]]
        /\ disk' = [disk EXCEPT !.add = <<>>] /\ owner' = owner
    BY <1>4, Zenon DEF gather
  <2>2. stored_data(p) \in Seq(Letters) /\ stored_data(p) # <<>>
    <3>1. Len(stored_data(p)) = uncompressed(p) /\ proc[p].log.stored # 0 /\ stored_data(p) \in Seq(Letters)
      BY <1>4 DEF readable
    <3>2. uncompressed(p) > 0
      <4>1. \A n \in Nat, m \in Nat \ {0} : n \div m \in Nat
        OBVIOUS
      <4>2. \A f, l \in Nat : f <= l => l - f \in Nat
        OBVIOUS
      <4>3. MaxStore \in Nat /\ MaxStore + 1 \in Nat \ {0} /\ proc[p].log.stored \in Nat \ {0}
        BY <1>1, <3>1, StructFields, BlockSize
      <4>4. PICK n \in Nat : uncompressed(p) = n * MaxStore + proc[p].log.stored
        BY <1>1, <4>1, <4>2, <4>3, StructFields, Zenon DEF uncompressed
      <4>5. \A a, b \in Nat : a * b \in Nat
        OBVIOUS
      <4> QED
        BY <4>3, <4>4, <4>5
    <3> QED
      BY <3>1, <3>2
  <2>3. DiskOK' /\ committed' = committed /\ disk'.ext = disk.ext
    <3>1. disk.ext = None \/ Marked(NO_OP)
      BY <1>2, MarkFields DEF Marked
    <3> QED
      BY <1>1, <2>1, <3>1, AddWritten, EmptySeq, Zenon
  <2>4. "gather_add" \in Places /\ {proc[p].pc, "gather_add"} \subseteq Gathering
    BY <1>1 DEF Places, Gathering
  <2>5. /\ proc'[p].pc = "gather_add" /\ proc'[p].log = proc[p].log /\ proc'[p].next = proc[p].next
        /\ proc'[p].rec = proc[p].rec /\ proc'[p].buf = stored_data(p) /\ proc'[p].msg = proc[p].msg
        /\ proc'[p] \in ProcRecords /\ proc' = [proc EXCEPT ![p] = proc'[p]]
    BY <1>1, <2>1, <2>2, <2>4, Changed, Zenon
  <2>6. Knows(p)'
    BY <1>2, <2>1, <2>2, <2>3, <2>5, Zenon DEF Knows, Opening, Away, Beginning, Recovering, Appending, Gathering, Compressing, Replacing
  <2> QED
    BY <1>1, <2>1, <2>3, <2>4, <2>5, <2>6, Steady, Zenon
<1> QED
  BY <1>3, <1>4

-----------------------------------------------------------------------------
(* What is concatenated is found at the end. *)
LEMMA AtTheEnd ==
    ASSUME NEW s \in Seq(Letters), NEW t \in Seq(Letters), Len(t) \in Nat \ {0}
    PROVE  SubSeq(s \o t, Len(s) + 1, Len(s) + Len(t)) = t
  OBVIOUS

(* The mark that adds a message to the log. *)
LEMMA MarkAppendStep ==
    ASSUME Sound, NEW p \in Procs, mark_append(p)
    PROVE  /\ Sound' /\ committed' = committed \o proc[p].msg /\ proc[p].msg \in used
           /\ \A i \in 1..Len(committed) : committed[i] # proc[p].msg[1]
<1> DEFINE m == proc[p].msg
<1>1. /\ DiskOK /\ ProcOK /\ Knows(p) /\ MessageInv /\ proc[p].pc = "mark_append" /\ proc[p].pc \notin Away
      /\ proc[p].log \in Structs /\ used \subseteq Messages
  BY DEF Sound, ProcOK, ProcRecords, mark_append, Away
<1>2. disk.ext = [log |-> proc[p].log, op |-> NO_OP] /\ owner = p /\ disk.add = m /\ ~proc[p].rec
  BY <1>1 DEF Knows, Beginning, Recovering, Appending, Compressing, Replacing, Away
<1>3. Pending(p) /\ m \in used /\ \A i \in 1..Len(committed) : committed[i] # m[1]
  BY <1>1, Zenon DEF MessageInv, Pending, Beginning
<1>4. m \in Messages /\ m \in Seq(Letters) /\ m # <<>> /\ Len(m) \in Nat \ {0}
  BY <1>1, <1>3, MessagesAre
<1>5. /\ proc' = [proc EXCEPT ![p] = [proc[p] EXCEPT !.pc = "append", !.buf = m]]
      /\ disk' = [disk EXCEPT !.ext = [log |-> proc[p].log, op |-> APPEND_OP]]
      /\ owner' = owner /\ used' = used
  BY Zenon DEF mark_append, log_mark
<1> HIDE DEF m
<1>6. disk.ext # None /\ disk.head /\ Marked(NO_OP)
  <2>1. disk.ext # None
    BY <1>1, <1>2, NoneApart DEF Marks
  <2> QED
    BY <1>1, <1>2, <2>1, MarkFields DEF DiskOK, Marked
<1>7. committed = proc[p].log.tcrc /\ added = m /\ committed \in Seq(Letters)
  <2>1. committed = disk.ext.log.tcrc /\ committed \in Seq(Letters)
    BY <1>1, <1>6, CommittedIs DEF Contents
  <2> QED
    BY <1>2, <1>4, <2>1, NoneApart, MarkFields, SMTT(30) DEF added
<1>8. /\ disk'.ext = [log |-> proc[p].log, op |-> APPEND_OP] /\ added' = added
      /\ Marked(APPEND_OP)' /\ DiskOK' /\ committed' = committed \o m
  BY <1>1, <1>5, <1>6, <1>7, ExtWritten, Zenon
<1>9. "append" \in Places /\ "append" \in Recovering
  BY DEF Places, Recovering, Appending
<1>10. /\ proc'[p].pc = "append" /\ proc'[p].log = proc[p].log /\ proc'[p].next = proc[p].next
       /\ proc'[p].rec = proc[p].rec /\ proc'[p].buf = m /\ proc'[p].msg = m
       /\ proc'[p] \in ProcRecords /\ proc' = [proc EXCEPT ![p] = proc'[p]]
  BY <1>1, <1>4, <1>5, <1>9, Changed, Zenon DEF m
<1>11. \A q \in Procs \ {p} : proc'[q] = proc[q] /\ proc[q].pc \in Away
  BY <1>1, <1>5, OthersAway DEF Sound, ProcOK
<1>12. Knows(p)'
  <2>1. proc'[p].log.tcrc \o proc'[p].buf = disk'.ext.log.tcrc \o added'
    BY <1>7, <1>8, <1>10, MarkFields
  <2> QED
    BY <1>2, <1>5, <1>8, <1>10, <2>1, ZenonT(40) DEF Knows, Opening, Away, Beginning, Recovering, Appending, Gathering, Compressing, Replacing
<1>13. \A q \in Procs : Knows(q)'
  <2>1. owner' = p
    BY <1>2, <1>5
  <2> QED
    BY <1>1, <1>11, <1>12, <2>1, OthersKnow, Zenon DEF Sound
<1>14. ~Pending(p)' /\ ~Reopens(p)'
  BY <1>2, <1>10 DEF Pending, Reopens, Opening, Beginning
<1>15. \A q \in Procs \ {p} : /\ (Pending(q)' <=> Pending(q)) /\ (Reopens(q)' <=> Reopens(q)) /\ ~Added(q)'
                              /\ proc'[q].msg = proc[q].msg
  BY <1>11 DEF Pending, Reopens, Added, Away, Recovering, Appending, Gathering, Compressing, Replacing
<1>16. /\ Len(committed') = Len(committed) + Len(m) /\ Len(committed) \in Nat
       /\ \A i \in 1..Len(committed') : \/ i \in 1..Len(committed) /\ committed'[i] = committed[i]
                                        \/ \E k \in 1..Len(m) : committed'[i] = m[k]
  <2>1. Len(committed) \in Nat /\ Len(committed') = Len(committed) + Len(m)
    BY <1>4, <1>7, <1>8, ConcatProperties, LenProperties, SMTT(30)
  <2>2. ASSUME NEW i \in 1..Len(committed')
        PROVE  \/ i \in 1..Len(committed) /\ committed'[i] = committed[i]
               \/ \E k \in 1..Len(m) : committed'[i] = m[k]
    <3>1. committed'[i] = IF i <= Len(committed) THEN committed[i] ELSE m[i - Len(committed)]
      BY <1>4, <1>7, <1>8, <2>1, ConcatProperties
    <3>2. CASE i <= Len(committed)
      BY <2>1, <3>1, <3>2
    <3>3. CASE ~(i <= Len(committed))
      <4>1. i - Len(committed) \in 1..Len(m)
        BY <1>4, <2>1, <3>3
      <4> QED
        BY <3>1, <3>3, <4>1
    <3> QED
      BY <3>2, <3>3, ZenonT(30)
  <2> QED
    BY <2>1, <2>2, SMTT(30)
<1>17. \A q \in Procs : Pending(q)' =>
          proc'[q].msg \in used' /\ \A i \in 1..Len(committed') : committed'[i] # proc'[q].msg[1]
  <2> SUFFICES ASSUME NEW q \in Procs \ {p}, Pending(q)
               PROVE  proc[q].msg \in used' /\ \A i \in 1..Len(committed') : committed'[i] # proc[q].msg[1]
    BY <1>14, <1>15
  <2>1. proc[q].msg \in used /\ \A j \in 1..Len(committed) : committed[j] # proc[q].msg[1]
    BY <1>1, Zenon DEF MessageInv
  <2>2. proc[q].msg # m
    BY <1>1, <1>3, Zenon DEF MessageInv, m
  <2>3. 1 \in 1..Len(proc[q].msg)
    BY <1>1, <2>1, MessagesAre
  <2>4. \A k \in 1..Len(m) : m[k] # proc[q].msg[1]
    BY <1>1, <1>4, <2>1, <2>2, <2>3, MessagesApart, Zenon
  <2> QED
    BY <1>5, <1>16, <2>1, <2>4, ZenonT(40)
<1>18. IsIn(m, committed')
  <2>1. SubSeq(committed', Len(committed) + 1, Len(committed) + Len(m)) = m
    BY <1>4, <1>7, <1>8, AtTheEnd, Zenon
  <2>2. Len(committed) + 1 \in 1..Len(committed') - Len(m) + 1 /\ (Len(committed) + 1) + Len(m) - 1 = Len(committed) + Len(m)
    BY <1>4, <1>16
  <2> QED
    BY <2>1, <2>2, Zenon DEF IsIn
<1>19. MessageInv'
  <2>1. \A q, r \in Procs : q # r /\ Pending(q)' /\ Pending(r)' => proc'[q].msg # proc'[r].msg
    BY <1>1, <1>14, <1>15, SMTT(30) DEF MessageInv
  <2>2. \A q \in Procs : Reopens(q)' /\ proc'[q].next = "gather" => proc'[q].msg = <<>>
    BY <1>1, <1>11, <1>14, <1>15 DEF MessageInv
  <2>3. \A q \in Procs : Added(q)' => IsIn(proc'[q].msg, committed')
    BY <1>10, <1>15, <1>18, Zenon
  <2>4. \A i \in 1..Len(committed') : \E n \in used' : \E k \in 1..Len(n) : committed'[i] = n[k]
    BY <1>1, <1>3, <1>5, <1>16 DEF MessageInv
  <2> QED
    BY <1>17, <2>1, <2>2, <2>3, <2>4, ZenonT(40) DEF MessageInv, IsIn
<1>20. ProcOK'
  BY <1>1, <1>5, <1>10 DEF ProcOK
<1> QED
  BY <1>3, <1>8, <1>13, <1>19, <1>20, Zenon DEF Sound, m

(* log_head and the start of log_recover. *)
LEMMA HeadStep ==
    ASSUME Sound, NEW p \in Procs, log_head(p), disk.ext # None
    PROVE  Sound' /\ committed' = committed
<1> DEFINE op == disk.ext.op
           x == IF op = NO_OP THEN proc[p].next ELSE recovery(op)
           b == load_add(op)
           new == [proc[p] EXCEPT !.log = disk.ext.log, !.rec = (op # NO_OP), !.buf = b, !.pc = x]
<1>1. /\ DiskOK /\ ProcOK /\ Knows(p) /\ proc[p].pc = "open" /\ proc[p].pc \notin Away
      /\ proc[p] \in ProcRecords /\ proc[p].next \in {"idle", "add", "gather"} /\ proc[p].msg \in Messages \cup {<<>>}
  BY DEF Sound, ProcOK, ProcRecords, log_head, Away
<1>2. disk' = disk /\ owner' = owner /\ used' = used /\ proc' = [proc EXCEPT ![p] = new]
  BY Zenon DEF log_head
<1>3. op \in {NO_OP, APPEND_OP, COMPRESS_OP, REPLACE_OP} /\ disk.ext.log \in Structs
  BY <1>1 DEF DiskOK, Marks
<1>4. /\ op = NO_OP => x = proc[p].next
      /\ op = APPEND_OP => x = "append" /\ b = added
      /\ op = COMPRESS_OP => x = "compress" /\ b # <<>>
      /\ op = REPLACE_OP => x = "replace"
  BY <1>1 DEF recovery, load_add, added, DiskOK
<1>5. x \in Places /\ b \in Seq(Letters)
  <2>1. b \in Seq(Letters)
    BY <1>1, EmptySeq, SMTT(30) DEF load_add, DiskOK
  <2>2. x \in Places
    BY <1>1, <1>3, <1>4 DEF Places, Away, Beginning, Gathering, Recovering, Appending, Compressing, Replacing
  <2> QED
    BY <2>1, <2>2
<1> HIDE DEF x, b, op
<1>6. PICK r : /\ proc' = [proc EXCEPT ![p] = r]
               /\ r = [pc |-> x, log |-> disk.ext.log, next |-> proc[p].next, rec |-> (op # NO_OP), buf |-> b, msg |-> proc[p].msg]
  <2>1. ASSUME NEW r, r = new
        PROVE  r = [pc |-> x, log |-> disk.ext.log, next |-> proc[p].next, rec |-> (op # NO_OP), buf |-> b, msg |-> proc[p].msg]
    BY <1>1, <2>1, Zenon DEF ProcRecords
  <2> QED
    BY <1>2, <2>1, Zenon
<1>7. /\ r.pc = x /\ r.log = disk.ext.log /\ r.next = proc[p].next /\ (r.rec <=> op # NO_OP)
      /\ r.buf = b /\ r.msg = proc[p].msg /\ r \in ProcRecords
  BY <1>1, <1>3, <1>5, <1>6, Zenon DEF ProcRecords
<1>8. proc'[p] = r /\ proc' = [proc EXCEPT ![p] = proc'[p]]
  BY <1>1, <1>6 DEF ProcOK
<1>9. DiskOK' /\ committed' = committed /\ owner' = p
  BY <1>1, <1>2, DiskWritten, Zenon DEF Knows
<1>10. disk'.ext # None /\ disk'.ext.op = op /\ SameLog(p)'
  BY <1>2, <1>7, <1>8 DEF SameLog, op
<1>11. Reopens(p) /\ (proc[p].next = "gather" => proc[p].msg = <<>>)
  <2>1. Reopens(p)
    BY <1>1 DEF Reopens, Opening
  <2> QED
    BY <2>1, Zenon DEF Sound, MessageInv
<1>12. CASE op = NO_OP
  <2>1. proc'[p].pc \in {"idle", "add", "gather"} /\ proc'[p].pc = proc'[p].next /\ ~proc'[p].rec
    BY <1>1, <1>4, <1>7, <1>8, <1>12
  <2>2. disk'.ext = [log |-> proc'[p].log, op |-> NO_OP]
    <3>1. disk.ext = [log |-> disk.ext.log, op |-> disk.ext.op]
      BY <1>1 DEF DiskOK, Marks
    <3> QED
      BY <1>2, <1>7, <1>8, <1>12, <3>1, Zenon DEF op
  <2>3. Knows(p)'
    BY <1>9, <2>1, <2>2, Zenon DEF Knows, Opening, Away, Beginning, Recovering, Appending, Gathering, Compressing, Replacing
  <2>4. ~Reopens(p)' /\ (Pending(p)' => Pending(p)) /\ ~Added(p)'
    BY <1>7, <1>8, <1>11, <2>1 DEF Reopens, Opening, Pending, Added, Beginning, Recovering, Appending, Gathering, Compressing, Replacing
  <2> QED
    BY <1>1, <1>2, <1>7, <1>8, <1>9, <2>3, <2>4, Worked, ZenonT(40)
<1>13. CASE op # NO_OP
  <2>1. proc'[p].pc \in {"append", "compress", "replace"} /\ proc'[p].rec
    BY <1>3, <1>4, <1>7, <1>8, <1>13
  <2>2. Knows(p)'
    <3>1. CASE op = APPEND_OP
      <4>1. proc'[p].log.tcrc \o proc'[p].buf = disk'.ext.log.tcrc \o added'
        BY <1>2, <1>4, <1>7, <1>8, <3>1, Zenon DEF added
      <4>2. proc'[p].pc = "append"
        BY <1>4, <1>7, <1>8, <3>1, SMTT(30)
      <4>3. Marked(APPEND_OP)'
        BY <1>10, <3>1, SMTT(30) DEF Marked
      <4> QED
        BY <1>9, <1>10, <4>1, <4>2, <4>3 DEF Knows, Opening, Away, Beginning, Recovering, Appending, Gathering, Compressing, Replacing
    <3>2. CASE op = COMPRESS_OP
      <4>1. proc'[p].pc = "compress" /\ proc'[p].buf # <<>>
        BY <1>4, <1>7, <1>8, <3>2, SMTT(30)
      <4>3. Marked(COMPRESS_OP)'
        BY <1>10, <3>2, ZenonT(30) DEF Marked
      <4> QED
        BY <1>9, <1>10, <4>1, <4>3, SMTT(30) DEF Knows, Opening, Away, Beginning, Recovering, Appending, Gathering, Compressing, Replacing
    <3>3. CASE op = REPLACE_OP
      <4>1. proc'[p].pc = "replace"
        BY <1>4, <1>7, <1>8, <3>3, SMTT(30)
      <4>3. Marked(REPLACE_OP)'
        BY <1>10, <3>3 DEF Marked
      <4> QED
        BY <1>9, <1>10, <4>1, <4>3, SMTT(30) DEF Knows, Opening, Away, Beginning, Recovering, Appending, Gathering, Compressing, Replacing
    <3> QED
      BY <1>3, <1>13, <3>1, <3>2, <3>3, ZenonT(30)
  <2>3. (Pending(p)' => Pending(p)) /\ ~Added(p)'
    BY <1>7, <1>8, <1>11, <2>1 DEF Pending, Added, Beginning
  <2> QED
    BY <1>1, <1>2, <1>7, <1>8, <1>9, <1>11, <2>2, <2>3, Worked, ZenonT(40)
<1> QED
  BY <1>9, <1>12, <1>13

-----------------------------------------------------------------------------
(* Who is not concerned by a step knows what it knew. *)
LEMMA SameKnowledge ==
    ASSUME NEW q \in Procs, Knows(q), disk' = disk, owner' = owner, proc'[q] = proc[q]
    PROVE  Knows(q)'
<1>1. added' = added
  BY DEF added
<1> QED
  BY <1>1, ZenonT(40) DEF Knows, Marked, SameLog

(* A process goes out or between two calls and has not the lock. *)
LEMMA Left ==
    ASSUME Sound, NEW p \in Procs, NEW r \in {outside, Idle(proc[p].log)},
           proc' = [proc EXCEPT ![p] = r], used' = used, DiskOK', committed' = committed,
           \/ owner = p /\ owner' \in {None, Abandoned}
           \/ owner # p /\ owner' = owner /\ disk' = disk
    PROVE  Sound'
<1>1. ProcOK /\ proc[p].log \in Structs
  BY DEF Sound, ProcOK, ProcRecords
<1>2. proc'[p] = r /\ proc' = [proc EXCEPT ![p] = proc'[p]] /\ \A q \in Procs \ {p} : proc'[q] = proc[q]
  BY <1>1 DEF ProcOK
<1>3. proc'[p] \in ProcRecords /\ proc'[p].pc \in {"out", "idle"} /\ ~proc'[p].rec
  <2>1. CASE r = outside
    BY <1>2, <2>1, Outside
  <2>2. CASE r = Idle(proc[p].log)
    BY <1>1, <1>2, <2>2, Outside
  <2> QED
    BY <2>1, <2>2
<1>4. owner' # p
  BY Markers
<1>5. Knows(p)'
  BY <1>3, <1>4, Zenon DEF Knows, Opening, Away, Beginning, Recovering, Appending, Gathering, Compressing, Replacing
<1>6. ASSUME NEW q \in Procs \ {p} PROVE Knows(q)'
  <2>1. CASE owner # p
    BY <1>2, <2>1, SameKnowledge DEF Sound
  <2>2. CASE owner = p
    <3>1. proc[q].pc \in Away /\ ~proc[q].rec /\ owner' # q
      BY <2>2, OthersAway, Markers, Zenon DEF Sound, Knows, Away, Recovering, Appending, Compressing, Replacing
    <3> QED
      BY <1>2, <3>1, Zenon DEF Knows, Opening, Away, Beginning, Recovering, Appending, Gathering, Compressing, Replacing
  <2> QED
    BY <2>1, <2>2
<1> QED
  BY <1>2, <1>3, <1>5, <1>6, Rests, Kept, Zenon

(* What is left of an interrupted write: nothing that is in the log. *)
LEMMA TornWrite ==
    ASSUME Sound, NEW p \in Procs, disk' \in torn(p)
    PROVE  DiskOK' /\ committed' = committed /\ (owner # p => disk' = disk)
<1>1. /\ DiskOK /\ Knows(p) /\ proc[p].buf \in Seq(Letters) /\ proc[p].msg \in Seq(Letters)
  BY MessagesAre, EmptySeq, Zenon DEF Sound, ProcOK, ProcRecords
<1>2. \A s \in Seq(Letters) : parts(s) \subseteq Seq(Letters)
  BY Cut DEF parts
<1>3. \/ disk' = disk
      \/ \E x : disk' = [disk EXCEPT !.body = x] /\ proc[p].pc \notin Away
      \/ \E x \in Seq(Letters) : disk' = [disk EXCEPT !.add = x] /\ proc[p].pc \in {"add_data", "gather_add"}
  <2>1. CASE proc[p].pc \in {"append", "new_block", "seal", "z_last"}
    BY <2>1, Zenon DEF torn, Overwrite, Away
  <2>2. CASE proc[p].pc = "put"
    BY <2>2 DEF torn, Overwrite, Away
  <2>3. CASE proc[p].pc \in {"trailer", "z_trailer"}
    BY <2>3, Zenon DEF torn, Overwrite, Away
  <2>4. CASE proc[p].pc = "compress" /\ proc[p].buf # <<>>
    BY <2>4, Zenon DEF torn, Overwrite, Away
  <2>5. CASE proc[p].pc = "add_data"
    BY <1>1, <1>2, <2>5 DEF torn
  <2>6. CASE proc[p].pc = "gather_add"
    BY <1>1, <1>2, <2>6 DEF torn
  <2> QED
    BY <2>1, <2>2, <2>3, <2>4, <2>5, <2>6, SMTT(30) DEF torn
<1>4. proc[p].pc \in {"add_data", "gather_add"} => Marked(NO_OP) \/ disk.ext = None
  <2>1. proc[p].pc \in {"add_data", "gather_add"} => disk.ext = [log |-> proc[p].log, op |-> NO_OP]
    BY <1>1, ZenonT(30) DEF Knows, Beginning, Gathering
  <2> QED
    BY <2>1, MarkFields, SMTT(30) DEF Marked
<1>5. owner # p => proc[p].pc \in Away
  BY <1>1 DEF Knows
<1>6. CASE disk' = disk
  BY <1>1, <1>6, DiskWritten, Zenon
<1>7. CASE \E x : disk' = [disk EXCEPT !.body = x] /\ proc[p].pc \notin Away
  BY <1>1, <1>5, <1>7, DiskWritten, Zenon
<1>8. CASE \E x \in Seq(Letters) : disk' = [disk EXCEPT !.add = x] /\ proc[p].pc \in {"add_data", "gather_add"}
  <2>1. proc[p].pc \notin Away
    BY <1>8 DEF Away
  <2> QED
    BY <1>1, <1>4, <1>5, <1>8, <2>1, AddWritten, Zenon
<1> QED
  BY <1>3, <1>6, <1>7, <1>8

(* A process is killed, and foo.lock is abandoned if it was its own. *)
LEMMA CrashStep == ASSUME Sound, NEW p \in Procs, crash(p) PROVE Sound' /\ committed' = committed
<1>1. /\ proc' = [proc EXCEPT ![p] = outside] /\ used' = used /\ disk' \in torn(p)
      /\ owner' = IF owner = p THEN Abandoned ELSE owner
  BY Zenon DEF crash
<1>2. DiskOK' /\ committed' = committed /\ (owner # p => disk' = disk)
  BY <1>1, TornWrite
<1> QED
  BY <1>1, <1>2, Left, Zenon

(* gzlog_close drops the lock if the process still has it. *)
LEMMA CloseStep == ASSUME Sound, NEW p \in Procs, gzlog_close(p) PROVE Sound' /\ committed' = committed
<1>1. /\ proc' = [proc EXCEPT ![p] = outside] /\ used' = used /\ disk' = disk
      /\ owner' = IF owner = p THEN None ELSE owner
  BY Zenon DEF gzlog_close
<1>2. DiskOK' /\ committed' = committed
  BY <1>1, DiskWritten, Zenon DEF Sound
<1> QED
  BY <1>1, <1>2, Left, Zenon

(* A foo.gz with a head and no extra field is not opened. *)
LEMMA ShortStep ==
    ASSUME Sound, NEW p \in Procs, log_head(p), disk.ext = None
    PROVE  Sound' /\ committed' = committed
<1>1. failed(p) /\ disk' = disk /\ used' = used /\ proc[p].pc = "open"
  BY Zenon DEF log_head
<1>2. opening(p) /\ owner = p
  BY <1>1, Zenon DEF opening, Sound, Knows, Away
<1>3. owner' = None /\ \E r \in {outside, Idle(proc[p].log)} : proc' = [proc EXCEPT ![p] = r]
  BY <1>1, <1>2, Zenon DEF failed, Idle
<1>4. DiskOK' /\ committed' = committed
  BY <1>1, DiskWritten, Zenon DEF Sound
<1> QED
  BY <1>1, <1>2, <1>3, <1>4, Left, Zenon

(* gzlog_open goes for the lock. *)
LEMMA OpenStep == ASSUME Sound, NEW p \in Procs, gzlog_open(p) PROVE Sound' /\ committed' = committed
<1>1. ProcOK /\ DiskOK /\ Knows(p) /\ proc[p] \in ProcRecords /\ proc[p].pc = "out"
  BY DEF Sound, ProcOK, gzlog_open
<1>2. PICK r : /\ proc' = [proc EXCEPT ![p] = r] /\ r = [proc[p] EXCEPT !.pc = "lock", !.next = "idle"]
               /\ disk' = disk /\ owner' = owner /\ used' = used
  BY Zenon DEF gzlog_open
<1>3. r = [pc |-> "lock", log |-> proc[p].log, next |-> "idle", rec |-> proc[p].rec, buf |-> proc[p].buf, msg |-> proc[p].msg]
  BY <1>1, <1>2, Zenon DEF ProcRecords
<1>4. r \in ProcRecords /\ r.pc = "lock" /\ r.next = "idle" /\ r.rec = proc[p].rec
  <2>1. "lock" \in Places
    BY DEF Places, Away
  <2> QED
    BY <1>1, <1>3, <2>1 DEF ProcRecords
<1>5. proc'[p] = r /\ proc' = [proc EXCEPT ![p] = proc'[p]] /\ \A q \in Procs \ {p} : proc'[q] = proc[q]
  BY <1>1, <1>2 DEF ProcOK
<1>6. DiskOK' /\ committed' = committed
  BY <1>1, <1>2, DiskWritten, ZenonT(40)
<1>7. ~proc[p].rec
  BY <1>1 DEF Knows, Recovering, Appending, Compressing, Replacing
<1>8. \A q \in Procs : Knows(q)'
  <2>1. Knows(p)'
    BY <1>4, <1>5, <1>7, ZenonT(40) DEF Knows, Opening, Away, Beginning, Recovering, Appending, Gathering, Compressing, Replacing
  <2> QED
    BY <1>2, <1>5, <2>1, SameKnowledge DEF Sound
<1>9. ~Pending(p)' /\ ~Added(p)' /\ proc'[p].next # "gather"
  BY <1>4, <1>5 DEF Pending, Added, Beginning, Recovering, Appending, Gathering, Compressing, Replacing
<1> QED
  BY <1>2, <1>4, <1>5, <1>6, <1>8, <1>9, Kept, Zenon

(* Whoever gets the lock is alone: its owner was between two calls. *)
LEMMA LockStep == ASSUME Sound, NEW p \in Procs, log_lock(p) PROVE Sound' /\ committed' = committed
<1>1. /\ ProcOK /\ DiskOK /\ Knows(p) /\ proc[p].pc = "lock" /\ disk' = disk /\ owner' = p /\ used' = used
      /\ (owner \in Procs => proc[owner].pc = "idle") /\ proc' = [proc EXCEPT ![p].pc = "open"]
  BY DEF Sound, log_lock
<1>2. "open" \in Places
  BY DEF Places, Opening
<1>3. /\ proc'[p].pc = "open" /\ proc'[p].log = proc[p].log /\ proc'[p].next = proc[p].next
      /\ proc'[p].rec = proc[p].rec /\ proc'[p].buf = proc[p].buf /\ proc'[p].msg = proc[p].msg
      /\ proc'[p] \in ProcRecords /\ proc' = [proc EXCEPT ![p] = proc'[p]]
  BY <1>1, <1>2, Moved, Zenon
<1>4. \A q \in Procs \ {p} : proc'[q] = proc[q]
  BY <1>1 DEF ProcOK
<1>5. DiskOK' /\ committed' = committed
  BY <1>1, DiskWritten, Zenon
<1>6. \A q \in Procs : Knows(q)'
  <2>1. Knows(p)'
    <3>1. ~proc[p].rec
      BY <1>1 DEF Knows, Recovering, Appending, Compressing, Replacing
    <3> QED
      BY <1>1, <1>3, <3>1, Zenon DEF Knows, Opening, Away, Beginning, Recovering, Appending, Gathering, Compressing, Replacing
  <2>2. ASSUME NEW q \in Procs \ {p} PROVE Knows(q)'
    <3>1. proc[q].pc \in Away /\ ~proc[q].rec /\ owner' # q
      BY <1>1, Zenon DEF Sound, Knows, Away, Recovering, Appending, Compressing, Replacing
    <3> QED
      BY <1>4, <3>1, Zenon DEF Knows, Opening, Away, Beginning, Recovering, Appending, Gathering, Compressing, Replacing
  <2> QED
    BY <2>1, <2>2
<1>7. (Pending(p)' => Pending(p)) /\ ~Added(p)' /\ Reopens(p)
  BY <1>1, <1>3 DEF Pending, Added, Reopens, Opening, Beginning, Recovering, Appending, Gathering, Compressing, Replacing
<1>8. proc[p].next = "gather" => proc[p].msg = <<>>
  BY <1>7, Zenon DEF Sound, MessageInv
<1> QED
  BY <1>1, <1>3, <1>5, <1>6, <1>7, <1>8, Kept, ZenonT(40)

(* A call begins. *)
LEMMA Entered ==
    ASSUME Sound, NEW p \in Procs, NEW l \in {"add", "gather"}, NEW m \in Messages \cup {<<>>}, enter(p, l, m)
    PROVE  /\ proc'[p] \in ProcRecords /\ proc' = [proc EXCEPT ![p] = proc'[p]]
           /\ (proc'[p].pc = l \/ (proc'[p].pc = "lock" /\ proc'[p].next = l)) /\ proc'[p].msg = m
           /\ ~proc'[p].rec /\ DiskOK' /\ committed' = committed /\ \A q \in Procs : Knows(q)'
<1>1. /\ ProcOK /\ DiskOK /\ Knows(p) /\ proc[p] \in ProcRecords /\ proc[p].pc = "idle"
      /\ disk' = disk /\ owner' = owner
  BY DEF Sound, ProcOK, enter
<1>2. PICK r : /\ proc' = [proc EXCEPT ![p] = r]
               /\ r = IF owner = p THEN [proc[p] EXCEPT !.pc = l, !.msg = m]
                      ELSE [proc[p] EXCEPT !.pc = "lock", !.next = l, !.msg = m]
  BY Zenon DEF enter
<1>3. PICK x, n : /\ r = [pc |-> x, log |-> proc[p].log, next |-> n, rec |-> proc[p].rec, buf |-> proc[p].buf, msg |-> m]
                  /\ \/ owner = p /\ x = l /\ n = proc[p].next
                     \/ owner # p /\ x = "lock" /\ n = l
  <2>1. CASE owner = p
    <3>1. r = [proc[p] EXCEPT !.pc = l, !.msg = m]
      BY <1>2, <2>1
    <3>2. r = [pc |-> l, log |-> proc[p].log, next |-> proc[p].next, rec |-> proc[p].rec, buf |-> proc[p].buf, msg |-> m]
      BY <1>1, <3>1, Zenon DEF ProcRecords
    <3> QED
      BY <2>1, <3>2, Zenon
  <2>2. CASE owner # p
    <3>1. r = [proc[p] EXCEPT !.pc = "lock", !.next = l, !.msg = m]
      BY <1>2, <2>2
    <3>2. r = [pc |-> "lock", log |-> proc[p].log, next |-> l, rec |-> proc[p].rec, buf |-> proc[p].buf, msg |-> m]
      BY <1>1, <3>1, Zenon DEF ProcRecords
    <3> QED
      BY <2>2, <3>2, Zenon
  <2> QED
    BY <2>1, <2>2
<1>4. /\ r \in ProcRecords /\ r.pc = x /\ r.next = n /\ r.rec = proc[p].rec /\ r.msg = m /\ r.log = proc[p].log
  <2>1. x \in Places /\ n \in {"idle", "add", "gather"}
    BY <1>1, <1>3 DEF Places, Away, Beginning, Gathering, ProcRecords
  <2> QED
    BY <1>1, <1>3, <2>1, SMTT(30) DEF ProcRecords
<1>5. proc'[p] = r /\ proc' = [proc EXCEPT ![p] = proc'[p]] /\ \A q \in Procs \ {p} : proc'[q] = proc[q]
  BY <1>1, <1>2 DEF ProcOK
<1>6. DiskOK' /\ committed' = committed
  BY <1>1, DiskWritten, Zenon
<1>7. ~proc[p].rec /\ (owner = p => disk.ext = [log |-> proc[p].log, op |-> NO_OP])
  BY <1>1 DEF Knows, Recovering, Appending, Compressing, Replacing
<1>8. Knows(p)'
  <2>1. CASE owner = p
    <3>1. proc'[p].pc \in {"add", "gather"} /\ ~proc'[p].rec /\ owner' = p /\ disk'.ext = [log |-> proc'[p].log, op |-> NO_OP]
      BY <1>1, <1>3, <1>4, <1>5, <1>7, <2>1, SMTT(30)
    <3> QED
      BY <3>1, ZenonT(40) DEF Knows, Opening, Away, Beginning, Recovering, Appending, Gathering, Compressing, Replacing
  <2>2. CASE owner # p
    <3>1. proc'[p].pc = "lock" /\ ~proc'[p].rec
      BY <1>3, <1>4, <1>5, <1>7, <2>2, SMTT(30)
    <3> QED
      BY <3>1, SMTT(30) DEF Knows, Opening, Away, Beginning, Recovering, Appending, Gathering, Compressing, Replacing
  <2> QED
    BY <2>1, <2>2
<1>9. \A q \in Procs : Knows(q)'
  BY <1>1, <1>5, <1>8, SameKnowledge DEF Sound
<1> QED
  BY <1>3, <1>4, <1>5, <1>6, <1>7, <1>9, Zenon

(* gzlog_compress begins without a message. *)
LEMMA CompressStep == ASSUME Sound, NEW p \in Procs, gzlog_compress(p) PROVE Sound' /\ committed' = committed
<1>1. /\ proc'[p] \in ProcRecords /\ proc' = [proc EXCEPT ![p] = proc'[p]]
      /\ (proc'[p].pc = "gather" \/ (proc'[p].pc = "lock" /\ proc'[p].next = "gather")) /\ proc'[p].msg = <<>>
      /\ ~proc'[p].rec /\ DiskOK' /\ committed' = committed /\ \A q \in Procs : Knows(q)'
  BY Entered, Zenon DEF gzlog_compress
<1>2. used' = used
  BY DEF gzlog_compress
<1>3. ~Pending(p)' /\ ~Added(p)'
  BY <1>1 DEF Pending, Added, Reopens, Beginning, Opening
<1> QED
  BY <1>1, <1>2, <1>3, Kept, Zenon

(* gzlog_write begins with a message of which nothing is in the log. *)
LEMMA WriteStep ==
    ASSUME Sound, NEW p \in Procs, NEW m \in Messages, gzlog_write(p, m)
    PROVE  Sound' /\ committed' = committed
<1>1. /\ proc'[p] \in ProcRecords /\ proc' = [proc EXCEPT ![p] = proc'[p]]
      /\ (proc'[p].pc = "add" \/ (proc'[p].pc = "lock" /\ proc'[p].next = "add")) /\ proc'[p].msg = m
      /\ ~proc'[p].rec /\ DiskOK' /\ committed' = committed /\ \A q \in Procs : Knows(q)'
  BY Entered, Zenon DEF gzlog_write
<1>2. used' = used \cup {m} /\ m \notin used /\ ProcOK /\ MessageInv
  BY DEF gzlog_write, Sound
<1>3. ProcOK' /\ \A q \in Procs \ {p} : proc'[q] = proc[q]
  BY <1>1, <1>2, SMTT(30) DEF ProcOK
<1>4. \A q \in Procs \ {p} : (Pending(q)' <=> Pending(q)) /\ (Added(q)' <=> Added(q)) /\ (Reopens(q)' <=> Reopens(q))
  BY <1>3, SMTT(30) DEF Pending, Added, Reopens
<1>5. ~Added(p)' /\ ~(Reopens(p)' /\ proc'[p].next = "gather")
  BY <1>1 DEF Added, Reopens, Opening, Recovering, Appending, Gathering, Compressing, Replacing
<1>6. \A i \in 1..Len(committed) : committed[i] # m[1]
  <2> TAKE i \in 1..Len(committed)
  <2>1. PICK n \in used : \E k \in 1..Len(n) : committed[i] = n[k]
    BY <1>2, Zenon DEF MessageInv
  <2>2. n \in Messages /\ n # m /\ 1 \in 1..Len(m)
    BY <1>2, MessagesAre DEF ProcOK
  <2> QED
    BY <2>1, <2>2, MessagesApart, Zenon
<1>7. /\ \A q \in Procs : Pending(q) => proc[q].msg \in used /\ \A i \in 1..Len(committed) : committed[i] # proc[q].msg[1]
      /\ \A q, r \in Procs : q # r /\ Pending(q) /\ Pending(r) => proc[q].msg # proc[r].msg
      /\ \A i \in 1..Len(committed) : \E n \in used : \E k \in 1..Len(n) : committed[i] = n[k]
  BY <1>2, Zenon DEF MessageInv
<1>8. committed' = committed /\ proc'[p].msg = m /\ m \in used' /\ used \subseteq used' /\ m \notin used
  BY <1>1, <1>2, Zenon
<1>9. MessageInv'
  <2>1. ASSUME NEW q \in Procs, Pending(q)'
        PROVE  proc'[q].msg \in used' /\ \A i \in 1..Len(committed') : committed'[i] # proc'[q].msg[1]
    <3>1. CASE q = p
      BY <1>6, <1>8, <3>1, Zenon
    <3>2. CASE q # p
      <4>1. proc'[q] = proc[q] /\ Pending(q)
        BY <1>3, <1>4, <2>1, <3>2, Zenon
      <4>2. proc[q].msg \in used /\ \A i \in 1..Len(committed) : committed[i] # proc[q].msg[1]
        BY <1>7, <4>1, Zenon
      <4> QED
        BY <1>8, <4>1, <4>2, Zenon
    <3> QED
      BY <3>1, <3>2, Zenon
  <2>2. ASSUME NEW q \in Procs, NEW r \in Procs, q # r, Pending(q)', Pending(r)'
        PROVE  proc'[q].msg # proc'[r].msg
    <3>1. CASE q # p /\ r # p
      BY <1>3, <1>4, <1>7, <2>2, <3>1, Zenon
    <3>2. CASE q = p
      BY <1>3, <1>4, <1>7, <1>8, <2>2, <3>2, Zenon
    <3>3. CASE r = p
      BY <1>3, <1>4, <1>7, <1>8, <2>2, <3>3, Zenon
    <3> QED
      BY <3>1, <3>2, <3>3, Zenon
  <2>3. \A q \in Procs : Reopens(q)' /\ proc'[q].next = "gather" => proc'[q].msg = <<>>
    BY <1>2, <1>3, <1>4, <1>5, ZenonT(40) DEF MessageInv
  <2>4. \A q \in Procs : Added(q)' => IsIn(proc'[q].msg, committed')
    BY <1>1, <1>2, <1>3, <1>4, <1>5, Zenon DEF MessageInv
  <2>5. \A i \in 1..Len(committed') : \E n \in used' : \E k \in 1..Len(n) : committed'[i] = n[k]
    BY <1>7, <1>8, Zenon
  <2> QED
    BY <2>1, <2>2, <2>3, <2>4, <2>5, ZenonT(40) DEF MessageInv, IsIn
<1> QED
  BY <1>1, <1>3, <1>9, Zenon DEF Sound

-----------------------------------------------------------------------------
(* A call that returns 0 has its message in the log. *)
LEMMA ReturnAdded ==
    ASSUME Sound, NEW p \in Procs, proc[p].pc \in {"unlink_add", "replaced"}, returned(p)
    PROVE  acked' = acked \/ \E m \in Messages : IsIn(m, committed) /\ acked' = acked \cup {m}
<1>1. CASE proc[p].rec \/ proc[p].msg = <<>>
  BY <1>1 DEF returned
<1>2. CASE ~proc[p].rec /\ proc[p].msg # <<>>
  <2>1. acked' = acked \cup {proc[p].msg} /\ proc[p].msg \in Messages
    BY <1>2 DEF returned, Sound, ProcOK, ProcRecords
  <2>2. Added(p)
    BY <1>2 DEF Added, Recovering, Replacing
  <2> QED
    BY <2>1, <2>2, Zenon DEF Sound, MessageInv
<1> QED
  BY <1>1, <1>2

(* log_append leaves what the mark has put in the log. *)
LEMMA AppendStep == ASSUME Sound, NEW p \in Procs, log_append(p) PROVE Sound' /\ Silent
<1>1. ASSUME NEW start \in {"append", "seal"}, step(p, start, again(p), log_last(p, TRUE)) PROVE Sound' /\ Silent
  <2>1. Aside(log_last(p, TRUE)) /\ Along(p, start, again(p))
    BY Zenon DEF Aside, Along, log_last, Overwrite
  <2> QED
    BY <1>1, <2>1, AsideStep, Zenon
<1>2. ASSUME put(p) PROVE Sound' /\ Silent
  BY <1>2, PutStep, Zenon DEF Silent, put
<1>3. ASSUME new_block(p) PROVE Sound' /\ Silent
  BY <1>3, NewBlockStep, Zenon DEF Silent, new_block
<1>4. ASSUME complete(p, "trailer", "truncate", "mark_done") PROVE Sound' /\ Silent
  <2>1. Along(p, "trailer", "truncate") /\ Along(p, "truncate", "mark_done")
    BY Zenon DEF Along
  <2>2. \A at, cells : Aside(Overwrite(at, cells))
    BY Zenon DEF Aside, Overwrite
  <2>3. Aside([disk EXCEPT !.body = SubSeq(disk.body, 1, behind(p))])
    BY Zenon DEF Aside
  <2> QED
    BY <1>4, <2>1, <2>2, <2>3, AsideStep, Zenon DEF complete
<1>5. ASSUME step(p, "mark_done", "unlink_add", log_mark(p, NO_OP)) PROVE Sound' /\ Silent
  BY <1>5, StepsAreSilent, MarkStep, Zenon DEF Silent
<1> QED
  BY <1>1, <1>2, <1>3, <1>4, <1>5, Zenon DEF log_append

(* gzlog_compress writes foo.add and foo.temp aside of the log. *)
LEMMA WriteTempStep == ASSUME Sound, NEW p \in Procs, write_temp(p) PROVE Sound' /\ Silent
<1>1. CASE step(p, "gather_add", "temp", [disk EXCEPT !.add = proc[p].buf])
  BY <1>1, StepsAreSilent, AddStep, Zenon DEF Silent
<1>2. CASE step(p, "temp", "temp_data", [disk EXCEPT !.temp = <<>>])
  <2>1. Aside([disk EXCEPT !.temp = <<>>]) /\ Along(p, "temp", "temp_data")
    BY Zenon DEF Aside, Along
  <2> QED
    BY <1>2, <2>1, AsideStep
<1>3. CASE step(p, "temp_data", "roll_back", [disk EXCEPT !.temp = tail(proc[p].buf, DictSize)])
  <2>1. Aside([disk EXCEPT !.temp = tail(proc[p].buf, DictSize)]) /\ Along(p, "temp_data", "roll_back")
    BY Zenon DEF Aside, Along
  <2> QED
    BY <1>3, <2>1, AsideStep
<1> QED
  BY <1>1, <1>2, <1>3 DEF write_temp

(* log_compress changes how the data is stored, not which. *)
LEMMA LogCompressStep == ASSUME Sound, NEW p \in Procs, log_compress(p) PROVE Sound' /\ Silent
<1>1. CASE step(p, "mark_compress", "compress", log_mark(p, COMPRESS_OP))
  BY <1>1, StepsAreSilent, MarkStep, Zenon DEF Silent
<1>2. CASE deflate(p)
  BY <1>2, DeflateStep, Zenon DEF Silent, deflate
<1>3. CASE step(p, "z_last", "z_trailer", log_last(p, TRUE))
  <2>1. Aside(log_last(p, TRUE)) /\ Along(p, "z_last", "z_trailer")
    BY Zenon DEF Aside, Along, log_last, Overwrite
  <2> QED
    BY <1>3, <2>1, AsideStep, Zenon
<1>4. CASE complete(p, "z_trailer", "z_truncate", "mark_replace")
  <2>1. Along(p, "z_trailer", "z_truncate") /\ Along(p, "z_truncate", "mark_replace")
    BY Zenon DEF Along
  <2>2. \A at, cells : Aside(Overwrite(at, cells))
    BY Zenon DEF Aside, Overwrite
  <2>3. Aside([disk EXCEPT !.body = SubSeq(disk.body, 1, behind(p))])
    BY Zenon DEF Aside
  <2> QED
    BY <1>4, <2>1, <2>2, <2>3, AsideStep, Zenon DEF complete
<1>5. CASE step(p, "mark_replace", "replace", log_mark(p, REPLACE_OP))
  BY <1>5, StepsAreSilent, MarkStep, Zenon DEF Silent
<1> QED
  BY <1>1, <1>2, <1>3, <1>4, <1>5, Zenon DEF log_compress

(* So does log_replace. *)
LEMMA LogReplaceStep == ASSUME Sound, NEW p \in Procs, log_replace(p) PROVE Sound' /\ Silent
<1>1. CASE step(p, "replace", "rename", [disk EXCEPT !.add = None])
  BY <1>1, StepsAreSilent, AddStep, Zenon DEF Silent
<1>2. CASE step(p, "rename", "replaced",
                IF disk.temp = None THEN disk ELSE [disk EXCEPT !.dict = disk.temp, !.temp = None])
  <2>1. /\ Aside(IF disk.temp = None THEN disk ELSE [disk EXCEPT !.dict = disk.temp, !.temp = None])
        /\ Along(p, "rename", "replaced")
    BY Zenon DEF Aside, Along
  <2> QED
    BY <1>2, <2>1, AsideStep
<1> QED
  BY <1>1, <1>2 DEF log_replace

(* Every step of the processes and every crash: what holds is kept, and    *)
(* the log is as AppendLog says.                                           *)
Allowed ==
    \/ Silent
    \/ \E m \in Messages : m \notin used /\ used' = used \cup {m} /\ committed' = committed /\ acked' = acked
    \/ \E m \in Messages : /\ m \in used /\ \A i \in 1..Len(committed) : committed[i] # m[1]
                           /\ committed' = committed \o m /\ used' = used /\ acked' = acked
    \/ \E m \in Messages : IsIn(m, committed) /\ acked' = acked \cup {m} /\ committed' = committed /\ used' = used

(* Every step of a process with the lock. *)
LEMMA WorkStep == ASSUME Sound, NEW p \in Procs, works(p) PROVE Sound' /\ Allowed
<1>1. CASE create(p)
  BY <1>1, CreateStep, StepsAreSilent, Zenon DEF create, Allowed, Silent
<1>2. CASE log_head(p)
  <2>1. Sound' /\ committed' = committed
    BY <1>2, HeadStep, ShortStep
  <2> QED
    BY <1>2, <2>1 DEF log_head, Allowed, Silent
<1>3. CASE write_add(p)
  BY <1>3, AddStep, StepsAreSilent, Zenon DEF write_add, Allowed, Silent
<1>4. CASE mark_append(p)
  <2>1. /\ Sound' /\ committed' = committed \o proc[p].msg /\ proc[p].msg \in used
        /\ \A i \in 1..Len(committed) : committed[i] # proc[p].msg[1]
    BY <1>4, MarkAppendStep, Zenon
  <2>2. proc[p].msg \in Messages /\ used' = used /\ acked' = acked
    BY <1>4, <2>1 DEF Sound, ProcOK, mark_append
  <2> QED
    BY <2>1, <2>2, Zenon DEF Allowed
<1>5. CASE log_append(p)
  BY <1>5, AppendStep DEF Allowed
<1>6. CASE unlink_add(p)
  <2>1. Sound' /\ committed' = committed
    BY <1>6, UnlinkStep
  <2>2. used' = used /\ proc[p].pc = "unlink_add" /\ (acked' = acked \/ returned(p))
    BY <1>6, Zenon DEF unlink_add
  <2>3. acked' = acked \/ \E m \in Messages : IsIn(m, committed) /\ acked' = acked \cup {m}
    BY <2>2, ReturnAdded, Zenon
  <2> QED
    BY <2>1, <2>2, <2>3, Zenon DEF Allowed, Silent
<1>7. CASE gather(p)
  BY <1>7, GatherStep, Zenon DEF gather, Allowed, Silent
<1>8. CASE write_temp(p)
  BY <1>8, WriteTempStep DEF Allowed
<1>9. CASE roll_back(p)
  BY <1>9, RollBackStep, Zenon DEF roll_back, Allowed, Silent
<1>10. CASE log_compress(p)
  BY <1>10, LogCompressStep DEF Allowed
<1>11. CASE log_replace(p)
  BY <1>11, LogReplaceStep DEF Allowed
<1>12. CASE mark_replaced(p)
  <2>1. Sound' /\ committed' = committed
    BY <1>12, ReplacedStep
  <2>2. used' = used /\ proc[p].pc = "replaced" /\ returned(p)
    BY <1>12, Zenon DEF mark_replaced
  <2>3. acked' = acked \/ \E m \in Messages : IsIn(m, committed) /\ acked' = acked \cup {m}
    BY <2>2, ReturnAdded, Zenon
  <2> QED
    BY <2>1, <2>2, <2>3, Zenon DEF Allowed, Silent
<1> QED
  BY <1>1, <1>2, <1>3, <1>4, <1>5, <1>6, <1>7, <1>8, <1>9, <1>10, <1>11, <1>12, SMTT(30) DEF works

(* Every step but an error or a loss of foo.add. *)
LEMMA SoundStep == ASSUME Sound, Next, hurt' = FALSE PROVE Sound' /\ Allowed
<1>1. ASSUME NEW p \in Procs, gzlog_open(p) PROVE Sound' /\ Allowed
  BY <1>1, OpenStep, Zenon DEF gzlog_open, Allowed, Silent
<1>2. ASSUME NEW p \in Procs, gzlog_compress(p) PROVE Sound' /\ Allowed
  BY <1>2, CompressStep, Zenon DEF gzlog_compress, enter, Allowed, Silent
<1>3. ASSUME NEW p \in Procs, gzlog_close(p) PROVE Sound' /\ Allowed
  BY <1>3, CloseStep, Zenon DEF gzlog_close, Allowed, Silent
<1>4. ASSUME NEW p \in Procs, NEW m \in Messages, gzlog_write(p, m) PROVE Sound' /\ Allowed
  <2>1. Sound' /\ committed' = committed
    BY <1>4, WriteStep
  <2>2. m \notin used /\ used' = used \cup {m} /\ acked' = acked
    BY <1>4 DEF gzlog_write, enter
  <2> QED
    BY <2>1, <2>2, Zenon DEF Allowed
<1>5. ASSUME NEW p \in Procs, log_lock(p) PROVE Sound' /\ Allowed
  BY <1>5, LockStep, Zenon DEF log_lock, Allowed, Silent
<1>6. ASSUME NEW p \in Procs, crash(p) PROVE Sound' /\ Allowed
  BY <1>6, CrashStep, Zenon DEF crash, Allowed, Silent
<1>7. ASSUME NEW p \in Procs PROVE ~error(p)
  BY DEF error
<1>8. ~lose_add
  BY DEF lose_add
<1> QED
  BY <1>1, <1>2, <1>3, <1>4, <1>5, <1>6, <1>7, <1>8, WorkStep, ZenonT(40) DEF Next

(* An error or a loss is never forgotten, and no call is either. *)
LEMMA Remembers ==
    ASSUME Next PROVE hurt' \in {hurt, TRUE} /\ used \subseteq used' /\ acked \subseteq acked'
<1>1. ASSUME NEW p \in Procs, works(p) PROVE hurt' = hurt /\ used' = used /\ acked \subseteq acked'
  <2>1. CASE create(p) \/ write_add(p) \/ write_temp(p) \/ log_replace(p)
    BY <2>1, Zenon DEF create, write_add, write_temp, log_replace, step
  <2>2. CASE log_append(p) \/ log_compress(p)
    BY <2>2, Zenon DEF log_append, log_compress, complete, put, new_block, deflate, step
  <2>3. CASE log_head(p) \/ mark_append(p) \/ gather(p) \/ roll_back(p)
    BY <2>3 DEF log_head, mark_append, gather, roll_back
  <2>4. CASE unlink_add(p) \/ mark_replaced(p)
    BY <2>4 DEF unlink_add, mark_replaced, returned
  <2> QED
    BY <1>1, <2>1, <2>2, <2>3, <2>4, SMTT(30) DEF works
<1>2. ASSUME NEW p \in Procs, gzlog_open(p) \/ gzlog_compress(p) \/ gzlog_close(p) \/ log_lock(p) \/ crash(p) \/ error(p)
      PROVE  hurt' \in {hurt, TRUE} /\ used \subseteq used' /\ acked \subseteq acked'
  BY <1>2, Zenon DEF gzlog_open, gzlog_compress, enter, gzlog_close, log_lock, crash, error
<1>3. ASSUME NEW p \in Procs, NEW m \in Messages, gzlog_write(p, m)
      PROVE  hurt' \in {hurt, TRUE} /\ used \subseteq used' /\ acked \subseteq acked'
  BY <1>3 DEF gzlog_write, enter
<1>4. ASSUME lose_add PROVE hurt' \in {hurt, TRUE} /\ used \subseteq used' /\ acked \subseteq acked'
  BY <1>4 DEF lose_add
<1> QED
  BY <1>1, <1>2, <1>3, <1>4, Zenon DEF Next

-----------------------------------------------------------------------------
(* The invariant is inductive. *)
LEMMA InvariantKept == ASSUME LogInv, [Next]_vars PROVE LogInv'
<1>1. CASE Next
  <2>1. hurt' \in BOOLEAN
    BY <1>1, Remembers, Zenon DEF LogInv
  <2>2. ASSUME ~hurt' PROVE Sound'
    <3>1. hurt' = FALSE
      BY <2>1, <2>2
    <3>2. ~hurt
      BY <1>1, <3>1, Remembers, Zenon
    <3> QED
      BY <1>1, <3>1, <3>2, SoundStep, Zenon DEF LogInv
  <2> QED
    BY <2>1, <2>2 DEF LogInv
<1>2. CASE UNCHANGED vars
  <2>1. committed' = committed /\ added' = added
    BY <1>2 DEF vars, committed, added
  <2>2. hurt' = hurt /\ disk' = disk /\ proc' = proc /\ owner' = owner /\ used' = used
    BY <1>2 DEF vars
  <2>3. DiskOK' <=> DiskOK
    BY <2>2 DEF DiskOK
  <2>4. ProcOK' <=> ProcOK
    BY <2>2, ZenonT(30) DEF ProcOK
  <2>5. \A q \in Procs : Knows(q)' <=> Knows(q)
    BY <2>1, <2>2, SMTT(30) DEF Knows, Marked, SameLog
  <2>6. MessageInv' <=> MessageInv
    <3>1. \A q \in Procs : (Pending(q)' <=> Pending(q)) /\ (Added(q)' <=> Added(q)) /\ (Reopens(q)' <=> Reopens(q))
      BY <2>2 DEF Pending, Added, Reopens
    <3>2. \A m : IsIn(m, committed') <=> IsIn(m, committed)
      BY <2>1
    <3> QED
      BY <2>1, <2>2, <3>1, <3>2, ZenonT(40) DEF MessageInv
  <2> QED
    BY <2>2, <2>3, <2>4, <2>5, <2>6, Zenon DEF LogInv, Sound
<1> QED
  BY <1>1, <1>2

(* Whatever process is killed where, until damage from outside: whoever is *)
(* past log_lock has the lock, and its struct log and what is left to be   *)
(* written agree with the extra field and foo.add.                         *)
THEOREM LogInvariant == Spec => []LogInv
<1>1. LogInv /\ [Next]_vars => LogInv'
  BY InvariantKept
<1> QED
  BY <1>1, LogInitially, PTL DEF Spec

(* A process that has the lock between two calls has a struct log that is  *)
(* what foo.gz says, with no work marked in it.                            *)
THEOREM CurrentHolds == Spec => []Current
<1>1. LogInv => Current
  BY Zenon DEF LogInv, Sound, Knows, Current
<1> QED
  BY <1>1, LogInvariant, PTL

(* gzlog.c implements AppendLog: messages are added whole and once, and a  *)
(* call that returned 0 has its message in the log.                        *)
THEOREM Refinement == Spec => ImplementsAppendLog
<1>1. Init => Abstract!Init
  <2> SUFFICES ASSUME Init PROVE Abstract!Init
    OBVIOUS
  <2>1. committed = <<>>
    BY DEF Init, committed
  <2> QED
    BY <2>1 DEF Init, Abstract!Init
<1>2. LogInv /\ [Next]_vars => [Abstract!Next]_(Abstract!vars)
  <2> SUFFICES ASSUME LogInv, [Next]_vars PROVE [Abstract!Next]_(Abstract!vars)
    OBVIOUS
  <2>1. CASE UNCHANGED vars
    <3>1. committed' = committed
      BY <2>1 DEF vars, committed, added
    <3> QED
      BY <2>1, <3>1 DEF vars, Abstract!vars
  <2>2. CASE Next /\ hurt'
    BY <2>2, Remembers, SMTT(30) DEF Abstract!Next, Abstract!Damage
  <2>3. CASE Next /\ ~hurt'
    <3>1. hurt' = FALSE /\ hurt = FALSE /\ Sound
      BY <2>3, Remembers, Zenon DEF LogInv
    <3>2. Allowed
      BY <2>3, <3>1, SoundStep, Zenon
    <3>3. CASE Silent
      BY <3>1, <3>3, Zenon DEF Silent, Abstract!vars
    <3>4. CASE \E m \in Messages : m \notin used /\ used' = used \cup {m} /\ committed' = committed /\ acked' = acked
      BY <3>1, <3>4, Zenon DEF Abstract!Next, Abstract!Begin
    <3>5. CASE \E m \in Messages : /\ m \in used /\ \A i \in 1..Len(committed) : committed[i] # m[1]
                                   /\ committed' = committed \o m /\ used' = used /\ acked' = acked
      BY <3>1, <3>5, Zenon DEF Abstract!Next, Abstract!Add
    <3>6. CASE \E m \in Messages : IsIn(m, committed) /\ acked' = acked \cup {m} /\ committed' = committed /\ used' = used
      BY <3>1, <3>6, Zenon DEF Abstract!Next, Abstract!Return, IsIn
    <3> QED
      BY <3>2, <3>3, <3>4, <3>5, <3>6 DEF Allowed
  <2> QED
    BY <2>1, <2>2, <2>3
<1> QED
  BY <1>1, <1>2, LogInvariant, PTL DEF Spec, ImplementsAppendLog, Abstract!Spec
=============================================================================
