--------------------------- MODULE RangeDownload ---------------------------
(***************************************************************************)
(* socket/libcurl/multithreaddownload.c: download cuts one file into as    *)
(* many ranges as there are threads, one more than threadNum; the threads  *)
(* write to one FILE under foo_mutex, and download polls threadCnt.  Bytes *)
(* are numbered by their place in the file.  multi-thread-download.c is    *)
(* the same program without the look-up of the host.                       *)
(***************************************************************************)
EXTENDS Integers, FiniteSets

CONSTANTS
    threadNum,
    FileLengths,    \* what getDownloadFileLength can answer
    ULONG_MAX,      \* of the unsigned long of a tNode
    NoByte, NoThread

RangeThreads == 0..threadNum

(* A length is a long, which an unsigned long can hold if it is not        *)
(* negative.                                                               *)
ASSUME RangeAssumption ==
    /\ threadNum \in Nat /\ ULONG_MAX \in Nat
    /\ FileLengths \subseteq Int /\ \A n \in FileLengths : n <= ULONG_MAX
    /\ NoThread \notin RangeThreads

VARIABLES
    fileLength,
    node,           \* each thread's tNode: startidx, maxidx; from, the startidx it
                    \* was made with, and got, the bytes curl has handed over
    threadCnt,
    foo_mutex,      \* the thread that holds it, or NoThread
    where,          \* where each thread is in workThread
    chunk,          \* the bytes that downloadPackage was called with
    fp, position,   \* the file's bytes and the position of its FILE
    step, i,        \* where download is, and its local variable i
    failed          \* history: threads that were not created or whose transfer failed

rangeVars == <<fileLength, node, threadCnt, foo_mutex, where, chunk, fp, position, step, i, failed>>

RangeInit ==
    /\ fileLength \in FileLengths
    /\ node = [t \in RangeThreads |-> [startidx |-> 0, maxidx |-> 0, from |-> 0, got |-> 0]]
    /\ threadCnt = 0 /\ foo_mutex = NoThread
    /\ where = [t \in RangeThreads |-> "none"]
    /\ chunk = [t \in RangeThreads |-> 0]
    /\ fp = [p \in 0..(fileLength - 1) |-> NoByte] /\ position = 0
    /\ step = "length" /\ i = 0 /\ failed = {}

-----------------------------------------------------------------------------
(* workThread and downloadPackage, run by thread t. *)

(* What the server sends for the range: without the end of a range (which  *)
(* is printed as -1) it sends the whole file.                              *)
size(t) ==
    LET last == IF node[t].maxidx < fileLength THEN node[t].maxidx ELSE fileLength - 1
    IN  last - node[t].from + 1

(* Mutant: the mutex is not taken. *)
downloadPackage_unlocked(t) ==
    /\ where[t] = "perform"
    /\ \E n \in 1..(size(t) - node[t].got) : chunk' = [chunk EXCEPT ![t] = n]
    /\ position' = node[t].startidx
    /\ where' = [where EXCEPT ![t] = "write"]
    /\ UNCHANGED <<fileLength, node, threadCnt, foo_mutex, fp, step, i, failed>>

(* curl hands over some bytes: lock and seek. *)
downloadPackage(t) ==
    /\ where[t] = "perform" /\ foo_mutex = NoThread
    /\ foo_mutex' = t
    /\ \E n \in 1..(size(t) - node[t].got) : chunk' = [chunk EXCEPT ![t] = n]
    /\ position' = node[t].startidx
    /\ where' = [where EXCEPT ![t] = "write"]
    /\ UNCHANGED <<fileLength, node, threadCnt, fp, step, i, failed>>

(* The bytes written: at most those up to maxidx. *)
written(t) ==
    IF node[t].startidx + chunk[t] <= node[t].maxidx THEN chunk[t]
    ELSE (node[t].maxidx - node[t].startidx + 1) % (ULONG_MAX + 1)

(* fwrite and unlock; a short count makes curl give the transfer up. *)
write_package(t) ==
    /\ where[t] = "write"
    /\ fp' = [p \in DOMAIN fp |->
                 IF p \in position..(position + written(t) - 1)
                 THEN node[t].from + node[t].got + p - position ELSE fp[p]]
    /\ position' = position + written(t)
    /\ node' = [node EXCEPT ![t].startidx = @ + chunk[t], ![t].got = @ + chunk[t]]
    /\ chunk' = [chunk EXCEPT ![t] = 0]
    /\ where' = [where EXCEPT ![t] = IF written(t) = chunk[t] THEN "perform" ELSE "performed"]
    /\ failed' = IF written(t) = chunk[t] THEN failed ELSE failed \cup {t}
    /\ foo_mutex' = NoThread
    /\ UNCHANGED <<fileLength, threadCnt, step, i>>

(* curl_easy_perform returns; a failure is printed and nothing more. *)
performed(t) ==
    /\ where[t] = "perform"
    /\ where' = [where EXCEPT ![t] = "performed"]
    /\ failed' = IF node[t].got = size(t) THEN failed ELSE failed \cup {t}
    /\ UNCHANGED <<fileLength, node, threadCnt, foo_mutex, chunk, fp, position, step, i>>

(* threadCnt-- under the mutex, and the end of the thread. *)
thread_done(t) ==
    /\ where[t] = "performed" /\ foo_mutex = NoThread
    /\ threadCnt' = threadCnt - 1
    /\ where' = [where EXCEPT ![t] = "exited"]
    /\ UNCHANGED <<fileLength, node, foo_mutex, chunk, fp, position, step, i, failed>>

workThread(t) == downloadPackage(t) \/ write_package(t) \/ performed(t) \/ thread_done(t)

-----------------------------------------------------------------------------
(* download returns at once when there is no length or no file. *)
open_file ==
    /\ step = "length"
    /\ step' \in IF fileLength <= 0 THEN {"returned"} ELSE {"returned", "count"}
    /\ UNCHANGED <<fileLength, node, threadCnt, foo_mutex, where, chunk, fp, position, i, failed>>

gap == fileLength \div (threadNum + 1)

(* The last range goes to the end of the file; the others end at -1, as an *)
(* unsigned long, if there are more threads than bytes.                    *)
maxidx == (IF i < threadNum THEN (i + 1) * gap - 1 ELSE fileLength) % (ULONG_MAX + 1)

(* A turn of the loop: the tNode, and threadCnt++ under the mutex. *)
count_thread ==
    /\ step = "count" /\ foo_mutex = NoThread
    /\ node' = [node EXCEPT ![i] = [startidx |-> i * gap, maxidx |-> maxidx, from |-> i * gap, got |-> 0]]
    /\ threadCnt' = threadCnt + 1
    /\ step' = "create"
    /\ UNCHANGED <<fileLength, foo_mutex, where, chunk, fp, position, i, failed>>

(* pthread_create, whose failure is not noticed. *)
create_thread ==
    /\ step = "create"
    /\ \/ where' = [where EXCEPT ![i] = "perform"] /\ failed' = failed
       \/ where' = where /\ failed' = failed \cup {i}
    /\ i' = i + 1
    /\ step' = IF i = threadNum THEN "wait" ELSE "count"
    /\ UNCHANGED <<fileLength, node, threadCnt, foo_mutex, chunk, fp, position>>

(* The turn of the loop that finds no thread, fclose and the message. *)
succeed ==
    /\ step = "wait" /\ threadCnt <= 0
    /\ step' = "succeeded"
    /\ UNCHANGED <<fileLength, node, threadCnt, foo_mutex, where, chunk, fp, position, i, failed>>

download == open_file \/ count_thread \/ create_thread \/ succeed

RangeNext == download \/ \E t \in RangeThreads : workThread(t)

RangeSpec == RangeInit /\ [][RangeNext]_rangeVars

-----------------------------------------------------------------------------
(* No byte is written where it does not belong, and those handed over are  *)
(* in the file, although the threads share the position of one FILE and    *)
(* the ends of the ranges are unsigned.                                    *)
RangeBytesInPlace ==
    /\ \A p \in DOMAIN fp : fp[p] \in {NoByte, p}
    /\ \A t \in RangeThreads : where[t] # "write" =>
          \A p \in node[t].from..(node[t].from + node[t].got - 1) : fp[p] = p

(* "download succeed..." (line 375), and fclose before it, come when every *)
(* thread has ended; unless one of them failed, the file is whole.         *)
SucceedMeansDone ==
    step = "succeeded" =>
        /\ \A t \in RangeThreads : where[t] \in {"none", "exited"}
        /\ failed = {} => \A p \in DOMAIN fp : fp[p] = p

(* Both together: a file that download says it has is the file. *)
RangesRight == RangeBytesInPlace /\ SucceedMeansDone

(* download has returned, or a thread could not be created. *)
Returned == step \in {"returned", "succeeded"} \/ \E t \in failed : where[t] = "none"
=============================================================================
