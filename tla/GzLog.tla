------------------------------- MODULE GzLog -------------------------------
(***************************************************************************)
(* zlib-1.2.8/examples/gzlog.c: processes append messages to foo.gz, which *)
(* stays a valid gzip file, and recover what an interrupted process left.  *)
(*                                                                         *)
(* foo.gz is its extra field and a sequence of cells: a piece of deflated  *)
(* data, the header of a stored block, a datum of a stored block, or the   *)
(* trailer.  Every write, rename, unlink and truncation is a step, between *)
(* any two of which a process may be killed.  A crc is the data it is of.  *)
(* foo.lock is owned by a process or abandoned (GzLock has its protocol).  *)
(***************************************************************************)
EXTENDS Integers, Sequences, FiniteSets

CONSTANTS
    Procs, Messages,
    MaxStore, Trigger, DictSize,    \* MAX_STORE, TRIGGER and DICT, in data
    None, Abandoned,
    Old, OldDicts,                  \* a datum of an older log of that name, and
                                    \* what foo.dict may be when there is no foo.gz
    MaxFaults                       \* a bound on what goes wrong

NO_OP == "NO_OP"
APPEND_OP == "APPEND_OP"
COMPRESS_OP == "COMPRESS_OP"
REPLACE_OP == "REPLACE_OP"

(* The data of messages, and what struct log and the extra field can be. *)
Letters == UNION {{m[i] : i \in 1..Len(m)} : m \in Messages}
Structs == {l \in [first : Nat, last : Nat, stored : 0..MaxStore, ccrc : Seq(Letters), tcrc : Seq(Letters)] :
               l.first <= l.last}
Marks == [log : Structs, op : {NO_OP, APPEND_OP, COMPRESS_OP, REPLACE_OP}]

(* gzlog_write takes no message without data.  Messages have no data in    *)
(* common, so that each is known where it is found in the log.             *)
ASSUME GzLogAssumption ==
    /\ MaxStore \in Nat \ {0} /\ Trigger \in Nat \ {0} /\ DictSize \in Nat \ {0}
    /\ None \notin Procs /\ Abandoned \notin Procs \cup {None}
    /\ Messages \subseteq Seq(Letters) \ {<<>>} /\ Old \notin Letters
    /\ \A m, n \in Messages : m # n => \A i \in 1..Len(m), j \in 1..Len(n) : m[i] # n[j]
    /\ None \notin Seq(Letters) \cup Marks

VARIABLES
    disk,   \* foo.gz: head (its header is there), ext (the extra field) and
            \* body (its cells); foo.add, foo.dict and foo.temp, or None
    owner,  \* whose foo.lock is: a process, Abandoned, or None
    proc,   \* of each process: pc; log, its struct log; next, where the caller
            \* of log_open goes on; rec, whether it is in log_recover; buf, data
            \* still to be written; msg, what gzlog_write was called with
    used,   \* the messages gzlog_write was called with,
    acked,  \* and those for which it returned 0
    faults, \* the number of faults,
    hurt,   \* whether one was an error or a loss of foo.add,
    harm    \* and the faults that gzlog does not get over

vars == <<disk, owner, proc, used, acked, faults, hurt, harm>>

Block(final, n) == [k |-> "block", final |-> final, n |-> n]
Datum(u) == [k |-> "datum", u |-> u]
Trailer(crc) == [k |-> "trailer", crc |-> crc]
Deflated(data, preset) == [k |-> "deflated", data |-> data, preset |-> preset]
Torn == [k |-> "torn"]

(* log_gzext and log_gzbody: an empty stored block, which is the last. *)
log_gzext == [first |-> 1, last |-> 1, stored |-> 0, ccrc |-> <<>>, tcrc |-> <<>>]
log_gzbody == <<Block(TRUE, 0), Trailer(<<>>)>>

(* A process without a gzlog object. *)
outside == [pc |-> "out", log |-> log_gzext, next |-> "idle",
            rec |-> FALSE, buf |-> <<>>, msg |-> <<>>]

Init ==
    /\ disk \in [head : {FALSE}, ext : {None}, body : {<<>>},
                 add : {None}, dict : OldDicts, temp : {None}]
    /\ owner = None
    /\ proc = [p \in Procs |-> outside]
    /\ used = {} /\ acked = {}
    /\ faults = 0 /\ hurt = FALSE /\ harm = {}

-----------------------------------------------------------------------------
(* A step of p from one place to another that writes to the disk. *)
step(p, from, goto, d) ==
    /\ proc[p].pc = from
    /\ proc' = [proc EXCEPT ![p].pc = goto]
    /\ disk' = d
    /\ UNCHANGED <<owner, used, acked, faults, hurt, harm>>

(* Mutant: a call goes on with the struct log it has. *)
enter_unchecked(p, l, m) ==
    /\ proc[p].pc = "idle"
    /\ proc' = [proc EXCEPT ![p].pc = l, ![p].msg = m]
    /\ UNCHANGED <<disk, owner, acked, faults, hurt, harm>>

(* A call of p; log_check comes first, and whoever lost the lock opens.    *)
enter(p, l, m) ==
    /\ proc[p].pc = "idle"
    /\ proc' = [proc EXCEPT ![p] = IF owner = p THEN [@ EXCEPT !.pc = l, !.msg = m]
                                   ELSE [@ EXCEPT !.pc = "lock", !.next = l, !.msg = m]]
    /\ UNCHANGED <<disk, owner, acked, faults, hurt, harm>>

gzlog_open(p) ==
    /\ proc[p].pc = "out"
    /\ proc' = [proc EXCEPT ![p] = [@ EXCEPT !.pc = "lock", !.next = "idle"]]
    /\ UNCHANGED <<disk, owner, used, acked, faults, hurt, harm>>

gzlog_write(p, m) ==
    /\ m \notin used
    /\ enter(p, "add", m)
    /\ used' = used \cup {m}

gzlog_compress(p) == enter(p, "gather", <<>>) /\ UNCHANGED used

gzlog_close(p) ==
    /\ proc[p].pc = "idle"
    /\ proc' = [proc EXCEPT ![p] = outside]
    /\ owner' = IF owner = p THEN None ELSE owner
    /\ UNCHANGED <<disk, used, acked, faults, hurt, harm>>

(* log_lock: foo.lock can be had when there is none, and when it has not   *)
(* been touched for PATIENCE seconds: its process is gone, or has been     *)
(* idle between two calls.                                                 *)
log_lock(p) ==
    /\ proc[p].pc = "lock"
    /\ owner \in Procs => proc[owner].pc = "idle"
    /\ owner' = p
    /\ proc' = [proc EXCEPT ![p].pc = "open"]
    /\ UNCHANGED <<disk, used, acked, faults, hurt, harm>>

(* A call returns an error: log_close drops the lock if log_open failed    *)
(* (and gzlog_open returns NULL), the other calls keep it.                 *)
opening(p) == proc[p].rec \/ proc[p].pc \in {"open", "ext", "body", "old_dict"}

failed(p) ==
    /\ proc' = [proc EXCEPT ![p] = IF opening(p) /\ @.next = "idle" THEN outside
                                   ELSE [outside EXCEPT !.pc = "idle", !.log = proc[p].log]]
    /\ owner' = IF opening(p) THEN None ELSE owner

-----------------------------------------------------------------------------
(* log_open: a new foo.gz is written in three writes, and the dictionary   *)
(* of an older log is deleted.                                             *)
create(p) ==
    \/ ~disk.head /\ step(p, "open", "ext", [disk EXCEPT !.head = TRUE])
    \/ step(p, "ext", "body", [disk EXCEPT !.ext = [log |-> log_gzext, op |-> NO_OP]])
    \/ step(p, "body", "old_dict", [disk EXCEPT !.body = log_gzbody])
    \/ step(p, "old_dict", "open", [disk EXCEPT !.dict = None])

(* Mutant: an interrupted append is taken for done. *)
recovery_none(op) == IF op = APPEND_OP THEN "unlink_add" ELSE "replace"

(* Where log_recover takes up the work. *)
recovery(op) ==
    CASE op = APPEND_OP -> "append"
      [] op = COMPRESS_OP -> "compress"
      [] op = REPLACE_OP -> "replace"

(* log_recover reads foo.add, which may be missing. *)
load_add(op) ==
    IF op \in {APPEND_OP, COMPRESS_OP} /\ disk.add # None THEN disk.add ELSE <<>>

(* log_head, which fails on a short file, and the start of log_recover. *)
log_head(p) ==
    /\ proc[p].pc = "open" /\ disk.head
    /\ IF disk.ext = None THEN failed(p)
       ELSE LET op == disk.ext.op IN
            /\ proc' = [proc EXCEPT ![p] = [@ EXCEPT
                   !.log = disk.ext.log,
                   !.rec = op # NO_OP,
                   !.buf = load_add(op),
                   !.pc = IF op = NO_OP THEN proc[p].next ELSE recovery(op)]]
            /\ UNCHANGED owner
    /\ UNCHANGED <<disk, used, acked, faults, hurt, harm>>

(* What is done is over: log_recover goes back to log_open and its caller, *)
(* and the other calls return 0.                                           *)
returned(p) ==
    /\ proc' = [proc EXCEPT ![p] =
           IF @.rec THEN [@ EXCEPT !.pc = proc[p].next, !.rec = FALSE, !.buf = <<>>]
           ELSE [outside EXCEPT !.pc = "idle", !.log = proc[p].log]]
    /\ acked' = IF proc[p].rec \/ proc[p].msg = <<>> THEN acked
                ELSE acked \cup {proc[p].msg}

-----------------------------------------------------------------------------
(* log_mark writes the extra field in one piece. *)
log_mark(p, op) == [disk EXCEPT !.ext = [log |-> proc[p].log, op |-> op]]

Overwrite(at, cells) ==
    [disk EXCEPT !.body = SubSeq(@, 1, at - 1) \o cells \o SubSeq(@, at + Len(cells), Len(@))]

(* log_last writes the header of the last stored block; behind its data is *)
(* where the file pointer is then.                                         *)
log_last(p, final) == Overwrite(proc[p].log.last, <<Block(final, proc[p].log.stored)>>)
behind(p) == proc[p].log.last + 1 + proc[p].log.stored

(* Mutant: the file is not cut off. *)
complete_long(p, trailer, truncate, goto) ==
    \/ step(p, trailer, truncate, Overwrite(behind(p), <<Trailer(proc[p].log.tcrc)>>))
    \/ step(p, truncate, goto, disk)

(* The trailer is written and the file is cut off behind it. *)
complete(p, trailer, truncate, goto) ==
    \/ step(p, trailer, truncate, Overwrite(behind(p), <<Trailer(proc[p].log.tcrc)>>))
    \/ step(p, truncate, goto, [disk EXCEPT !.body = SubSeq(@, 1, behind(p))])

(* gzlog_write: foo.add, then the mark, then log_append. *)
write_add(p) ==
    \/ step(p, "add", "add_data", [disk EXCEPT !.add = <<>>])
    \/ step(p, "add_data", "mark_append", [disk EXCEPT !.add = proc[p].msg])

mark_append(p) ==
    /\ proc[p].pc = "mark_append"
    /\ disk' = log_mark(p, APPEND_OP)
    /\ proc' = [proc EXCEPT ![p] = [@ EXCEPT !.pc = "append", !.buf = proc[p].msg]]
    /\ UNCHANGED <<owner, used, acked, faults, hurt, harm>>

(* One pass of the loop of log_append: as much as goes into the last       *)
(* block, then an empty block behind it if there is more.                  *)
room(p) == LET free == MaxStore - proc[p].log.stored
           IN  IF free > Len(proc[p].buf) THEN Len(proc[p].buf) ELSE free

Data(s) == [i \in 1..Len(s) |-> Datum(s[i])]

put(p) ==
    LET log == proc[p].log
        part == SubSeq(proc[p].buf, 1, room(p))
        more == SubSeq(proc[p].buf, room(p) + 1, Len(proc[p].buf)) IN
    /\ proc[p].pc = "put"
    /\ disk' = Overwrite(behind(p), Data(part))
    /\ proc' = [proc EXCEPT ![p] = [@ EXCEPT
           !.pc = IF more = <<>> THEN "seal" ELSE "new_block",
           !.log = [log EXCEPT !.tcrc = log.tcrc \o part, !.stored = log.stored + Len(part)],
           !.buf = more]]
    /\ UNCHANGED <<owner, used, acked, faults, hurt, harm>>

new_block(p) ==
    /\ proc[p].pc = "new_block"
    /\ disk' = log_last(p, FALSE)
    /\ proc' = [proc EXCEPT ![p] = [@ EXCEPT
           !.pc = "seal", !.log = [proc[p].log EXCEPT !.last = behind(p), !.stored = 0]]]
    /\ UNCHANGED <<owner, used, acked, faults, hurt, harm>>

(* Mutant: the loop goes on when nothing is left. *)
again_always(p) == "put"

again(p) == IF proc[p].buf = <<>> THEN "trailer" ELSE "put"

log_append(p) ==
    \/ \E start \in {"append", "seal"} : step(p, start, again(p), log_last(p, TRUE))
    \/ put(p)
    \/ new_block(p)
    \/ complete(p, "trailer", "truncate", "mark_done")
    \/ step(p, "mark_done", "unlink_add", log_mark(p, NO_OP))

(* The end of log_append.  gzlog_write compresses when enough is stored.   *)
(* Blocks before the last are full.                                        *)
uncompressed(p) ==
    ((proc[p].log.last - proc[p].log.first) \div (MaxStore + 1)) * MaxStore + proc[p].log.stored

unlink_add(p) ==
    /\ proc[p].pc = "unlink_add"
    /\ disk' = [disk EXCEPT !.add = None]
    /\ IF ~proc[p].rec /\ uncompressed(p) >= Trigger
         THEN proc' = [proc EXCEPT ![p].pc = "gather"] /\ UNCHANGED acked
         ELSE returned(p)
    /\ UNCHANGED <<owner, used, faults, hurt, harm>>

-----------------------------------------------------------------------------
(* The stored blocks that a run of cells holds, the last of them unusable  *)
(* if the cells are not blocks.                                            *)
bad == <<Old>>

blocks(cells) ==
    LET at[i \in 1..Len(cells) + 1] ==
        IF i > Len(cells) THEN <<>>
        ELSE IF \/ cells[i].k # "block" \/ i + cells[i].n > Len(cells)
                \/ \E j \in 1..cells[i].n : cells[i + j].k # "datum"
        THEN <<[final |-> FALSE, data |-> bad]>>
        ELSE <<[final |-> cells[i].final, data |-> [j \in 1..cells[i].n |-> cells[i + j].u]]>>
             \o at[i + cells[i].n + 1]
    IN  at[1]

content(bs) ==
    LET first[n \in 0..Len(bs)] == IF n = 0 THEN <<>> ELSE first[n - 1] \o bs[n].data
    IN  first[Len(bs)]

(* gzlog_compress reads the stored blocks, which must fill the len bytes   *)
(* that it has for them and end where the last block does.  This fails     *)
(* when the last block is empty, the only one or not.                      *)
stored_data(p) ==
    IF Len(disk.body) < behind(p) - 1 THEN bad
    ELSE content(blocks(SubSeq(disk.body, proc[p].log.first, behind(p) - 1)))

readable(p) ==
    /\ proc[p].log.stored # 0
    /\ stored_data(p) \in Seq(Letters) /\ Len(stored_data(p)) = uncompressed(p)

(* What was read goes to foo.add, and its end to foo.temp. *)
gather(p) ==
    /\ proc[p].pc = "gather"
    /\ IF ~readable(p) THEN failed(p) /\ UNCHANGED disk
       ELSE /\ proc' = [proc EXCEPT ![p] = [@ EXCEPT !.pc = "gather_add", !.buf = stored_data(p)]]
            /\ disk' = [disk EXCEPT !.add = <<>>]
            /\ UNCHANGED owner
    /\ UNCHANGED <<used, acked, faults, hurt, harm>>

tail(s, n) == SubSeq(s, IF Len(s) > n THEN Len(s) - n + 1 ELSE 1, Len(s))

write_temp(p) ==
    \/ step(p, "gather_add", "temp", [disk EXCEPT !.add = proc[p].buf])
    \/ step(p, "temp", "temp_data", [disk EXCEPT !.temp = <<>>])
    \/ step(p, "temp_data", "roll_back", [disk EXCEPT !.temp = tail(proc[p].buf, DictSize)])

(* The stored blocks are taken back before the file is marked. *)
roll_back(p) ==
    /\ proc[p].pc = "roll_back"
    /\ proc' = [proc EXCEPT ![p] = [@ EXCEPT
           !.pc = "mark_compress", !.log = [proc[p].log EXCEPT !.last = proc[p].log.first, !.stored = 0]]]
    /\ UNCHANGED <<disk, owner, used, acked, faults, hurt, harm>>

(* log_compress: what is in foo.add is deflated over the stored blocks;    *)
(* if foo.add was lost, the stream ends behind the data deflated before.   *)
deflate(p) ==
    LET log == proc[p].log IN
    /\ proc[p].pc = "compress"
    /\ IF proc[p].buf = <<>>
         THEN /\ proc' = [proc EXCEPT ![p] = [@ EXCEPT
                     !.pc = "z_last",
                     !.log = [log EXCEPT !.tcrc = log.ccrc, !.last = log.first, !.stored = 0]]]
              /\ UNCHANGED disk
         ELSE /\ disk' = Overwrite(log.first, <<Deflated(proc[p].buf, disk.dict)>>)
              /\ proc' = [proc EXCEPT ![p] = [@ EXCEPT
                     !.pc = "z_last",
                     !.log = [log EXCEPT !.ccrc = log.tcrc, !.first = log.first + 1,
                                         !.last = log.first + 1, !.stored = 0]]]
    /\ UNCHANGED <<owner, used, acked, faults, hurt, harm>>

log_compress(p) ==
    \/ step(p, "mark_compress", "compress", log_mark(p, COMPRESS_OP))
    \/ deflate(p)
    \/ step(p, "z_last", "z_trailer", log_last(p, TRUE))
    \/ complete(p, "z_trailer", "z_truncate", "mark_replace")
    \/ step(p, "mark_replace", "replace", log_mark(p, REPLACE_OP))

(* log_replace: foo.temp may be gone already. *)
log_replace(p) ==
    \/ step(p, "replace", "rename", [disk EXCEPT !.add = None])
    \/ step(p, "rename", "replaced",
            IF disk.temp = None THEN disk ELSE [disk EXCEPT !.dict = disk.temp, !.temp = None])

mark_replaced(p) ==
    /\ proc[p].pc = "replaced"
    /\ disk' = log_mark(p, NO_OP)
    /\ returned(p)
    /\ UNCHANGED <<owner, used, faults, hurt, harm>>

-----------------------------------------------------------------------------
(* What an interrupted or failed write leaves: nothing of it, a part of    *)
(* the data, or a cell that cannot be read.                                *)
parts(s) == {SubSeq(s, 1, n) : n \in 0..Len(s)}

torn(p) ==
    {disk} \cup
    CASE proc[p].pc \in {"append", "new_block", "seal", "z_last"} ->
             {Overwrite(proc[p].log.last, <<Torn>>)}
      [] proc[p].pc = "put" ->
             {Overwrite(behind(p), Data(part)) : part \in parts(SubSeq(proc[p].buf, 1, room(p)))}
      [] proc[p].pc \in {"trailer", "z_trailer"} -> {Overwrite(behind(p), <<Torn>>)}
      [] proc[p].pc = "compress" /\ proc[p].buf # <<>> -> {Overwrite(proc[p].log.first, <<Torn>>)}
      [] proc[p].pc = "add_data" -> {[disk EXCEPT !.add = part] : part \in parts(proc[p].msg)}
      [] proc[p].pc = "gather_add" -> {[disk EXCEPT !.add = part] : part \in parts(proc[p].buf)}
      [] OTHER -> {}

(* The bound on faults: there are no more once the log is beyond recovery. *)
may_fail == faults < MaxFaults /\ harm = {}

(* A process is killed; foo.lock stays.  A new foo.gz may be left with     *)
(* part of its head, without a body, or with the dictionary of another log.*)
crash(p) ==
    /\ proc[p].pc # "out" /\ may_fail
    /\ faults' = faults + 1 /\ UNCHANGED hurt
    /\ disk' \in torn(p)
    /\ owner' = IF owner = p THEN Abandoned ELSE owner
    /\ proc' = [proc EXCEPT ![p] = outside]
    /\ harm' = IF proc[p].pc \in {"ext", "body", "old_dict"} THEN harm \cup {"create"} ELSE harm
    /\ UNCHANGED <<used, acked>>

(* A write, a rename or an allocation fails, and the call returns.  Where  *)
(* gzlog_compress has taken back the stored blocks in its struct log, or   *)
(* has not replaced the dictionary, the next call goes on from there.      *)
compressing == {"mark_compress", "compress", "z_last", "z_trailer", "z_truncate", "mark_replace", "rename"}

error(p) ==
    /\ proc[p].pc \notin {"out", "idle", "lock", "old_dict", "unlink_add", "replace", "roll_back"}
    /\ may_fail
    /\ faults' = faults + 1 /\ hurt' = TRUE
    /\ disk' \in torn(p)
    /\ failed(p)
    /\ harm' = IF ~proc[p].rec /\ proc[p].pc \in compressing THEN harm \cup {"compress"}
               ELSE IF proc[p].pc \in {"ext", "body"} THEN harm \cup {"create"} ELSE harm
    /\ UNCHANGED <<used, acked>>

(* foo.add is deleted by someone else after an operation was interrupted.  *)
lose_add ==
    /\ disk.add # None /\ disk.ext # None /\ disk.ext.op \in {APPEND_OP, COMPRESS_OP}
    /\ \A p \in Procs : proc[p].pc \in {"out", "idle", "lock"}
    /\ may_fail
    /\ faults' = faults + 1 /\ hurt' = TRUE
    /\ disk' = [disk EXCEPT !.add = None]
    /\ harm' = IF disk.ext.op = COMPRESS_OP THEN harm \cup {"dict"} ELSE harm
    /\ UNCHANGED <<owner, proc, used, acked>>

works(p) ==
    \/ create(p) \/ log_head(p)
    \/ write_add(p) \/ mark_append(p) \/ log_append(p) \/ unlink_add(p)
    \/ gather(p) \/ write_temp(p) \/ roll_back(p) \/ log_compress(p)
    \/ log_replace(p) \/ mark_replaced(p)

Next ==
    \/ \E p \in Procs :
          \/ gzlog_open(p) \/ gzlog_compress(p) \/ gzlog_close(p)
          \/ \E m \in Messages : gzlog_write(p, m)
          \/ log_lock(p) \/ works(p) \/ crash(p) \/ error(p)
    \/ lose_add

(* A process that has the lock goes on. *)
Spec == Init /\ [][Next]_vars /\ \A p \in Procs : WF_vars(works(p))

-----------------------------------------------------------------------------
(* What gunzip makes of the cells: the data, with a datum of no message    *)
(* where it fails.  Deflated data needs, in front of it, the dictionary it *)
(* was deflated with.                                                      *)
inflate(cells) ==
    LET first[n \in 0..Len(cells)] ==
        IF n = 0 THEN <<>>
        ELSE IF cells[n].preset = None \/ cells[n].preset = tail(first[n - 1], Len(cells[n].preset))
        THEN first[n - 1] \o cells[n].data ELSE bad
    IN  first[Len(cells)]

gunzip(cells) ==
    LET stored == {i \in 1..Len(cells) : cells[i].k # "deflated"}
        n == CHOOSE i \in stored : \A j \in stored : i <= j
        bs == blocks(SubSeq(cells, n, Len(cells) - 1))
    IN  IF \A i \in 1..Len(bs) : bs[i].final <=> i = Len(bs)
        THEN inflate(SubSeq(cells, 1, n - 1)) \o content(bs) ELSE bad

(* gzlog.h: "The log file will be a valid gzip file upon successful        *)
(* return", and in gzlog.c: the status "is only updated once the gzip file *)
(* is brought to a valid state".  Unless foo.gz is marked as being worked  *)
(* on, it unpacks to the data that its extra field and trailer are of.     *)
Valid ==
    disk.ext # None /\ disk.ext.op \in {NO_OP, REPLACE_OP} /\ disk.body # <<>> =>
        /\ disk.body[Len(disk.body)] = Trailer(disk.ext.log.tcrc)
        /\ gunzip(disk.body) = disk.ext.log.tcrc

(* foo.gz is valid whatever interrupts whoever works on it, unless it was  *)
(* while foo.gz was created, an error stopped gzlog_compress and calls     *)
(* went on, or foo.add was deleted before a compression was recovered.     *)
ValidUnlessHarmed == harm = {} => Valid

(* A process that has the lock between two calls has recovered what others *)
(* left, and its struct log is what foo.gz says: errors aside.             *)
Current ==
    \A p \in Procs : owner = p /\ proc[p].pc = "idle" /\ ~hurt =>
        disk.ext = [log |-> proc[p].log, op |-> NO_OP]

(* The data in the log, with what recovery will add to it. *)
added == IF disk.add = None THEN <<>> ELSE disk.add
committed ==
    CASE disk.ext = None -> <<>>
      [] disk.ext # None /\ disk.ext.op = APPEND_OP -> disk.ext.log.tcrc \o added
      [] disk.ext # None /\ disk.ext.op = COMPRESS_OP /\ disk.add = None -> disk.ext.log.ccrc
      [] OTHER -> disk.ext.log.tcrc

(* Messages are added whole and once, by whoever finishes what was begun,  *)
(* and a call that returned 0 has its message in the log for ever.         *)
Abstract == INSTANCE AppendLog WITH
    log <- committed, writing <- used, acked <- acked, hurt <- hurt
ImplementsAppendLog == Abstract!Spec

(* A call that has the lock returns, if its process is not killed: no loop *)
(* of log_append goes on for ever, and recovery ends.                      *)
CallsReturn == []<>(owner \in Procs => proc[owner].pc = "idle")
=============================================================================
