----------------------------- MODULE FileProofs ------------------------------
(***************************************************************************)
(* Proofs about files and those who share them.  The logs of the processes *)
(* of hydra.c, for any number of processes and any size of a log; the log  *)
(* of log.c.  That foo.lock of gzlog.c belongs to whoever is in a call, for *)
(* any number of processes and any patience, as long as no stat of it is   *)
(* overtaken.  That gzip keeps the data of any number of files, whatever   *)
(* they hold and however it ends.                                          *)
(***************************************************************************)
EXTENDS LogFiles, GzLock, GzipFile, TLAPS

(* What the operators on sequences give. *)
LEMMA AppendProperties ==
    ASSUME NEW S, NEW s \in Seq(S), NEW x \in S
    PROVE  /\ Append(s, x) \in Seq(S) /\ Append(s, x) # <<>> /\ Len(Append(s, x)) = Len(s) + 1
           /\ \A k \in 1..Len(s) : Append(s, x)[k] = s[k]
           /\ Append(s, x)[Len(s) + 1] = x
  OBVIOUS

(* f counts the subsets of S, which is finite: see FiniteCounts below. *)
Counts(f, S) ==
    /\ f \in [SUBSET S -> Nat] /\ f[{}] = 0
    /\ \A T \in SUBSET S :
         /\ f[T] = 0 => T = {}
         /\ \A x \in S : /\ x \notin T => f[T \cup {x}] = f[T] + 1
                         /\ x \in T => f[T \ {x}] = f[T] - 1
         /\ \A U \in SUBSET S : /\ T \subseteq U => f[T] <= f[U]
                                /\ T \cap U = {} => f[T \cup U] = f[T] + f[U]

(***************************************************************************)
(* hydra.c and log.c.                                                      *)
(***************************************************************************)
Lines == {Old, Clear} \cup Processes
Positions == {"none", "fork", "reinit", "reopen", "dispatch", "exit", "gone"}

HydraTypeOK ==
    /\ logs \in [Logs -> Seq(Lines)]
    /\ lmfp \in [Processes -> Logs \cup {NoLog}]
    /\ pos \in [Processes -> Positions]
    /\ cb \in [Processes -> {"out", "stat", "truncate", "clear", "print"}]
    /\ forks \in 0..(WORK_PROCESSES_NUM - 1)
    /\ lines \in [Processes -> 0..MaxLines]
    /\ early \subseteq Logs

(* A process has test.log open, its own log, or none; which one is known   *)
(* from where it is in main.  The processes that are not there yet do      *)
(* nothing.                                                                *)
OpenInv ==
    \A p \in Processes :
        /\ lmfp[p] \in {NoLog, 0, p}
        /\ pos[p] \in {"fork", "reinit", "reopen"} => lmfp[p] = 0
        /\ pos[p] = "dispatch" => lmfp[p] = p
        /\ pos[p] = "none" => cb[p] = "out" /\ lmfp[p] = NoLog
        /\ p > forks + 1 => pos[p] = "none"
        /\ cb[p] \in {"truncate", "clear", "print"} => lmfp[p] # NoLog

(* What a process knows of its own log between fstat and the line. *)
OwnLog(p) ==
    /\ \A k \in 1..Len(logs[p]) : logs[p][k] \in {Old, Clear, p}
    /\ Len(logs[p]) <= log_max_size
    /\ lmfp[p] = p =>
         /\ cb[p] = "truncate" => Len(logs[p]) = log_max_size
         /\ cb[p] = "clear" => Len(logs[p]) = 0
         /\ cb[p] = "print" => Len(logs[p]) < log_max_size

OwnInv == early \subseteq {0} /\ \A p \in Processes : OwnLog(p)

(* The processes that will write two lines to test.log, and one line,      *)
(* whatever its length is by then.                                         *)
AtClear == {p \in Processes : lmfp[p] = 0 /\ cb[p] = "clear"}
AtPrint == {p \in Processes : lmfp[p] = 0 /\ cb[p] = "print"}

(* How many processes they are. *)
writers == CHOOSE f : Counts(f, Processes) /\ f[Processes] = WORK_PROCESSES_NUM

SharedInv ==
    Len(logs[0]) + 2 * writers[AtClear] + writers[AtPrint]
        <= log_max_size + 2 * (WORK_PROCESSES_NUM - 1)

HydraInv == HydraTypeOK /\ OpenInv /\ OwnInv /\ SharedInv

-----------------------------------------------------------------------------
(* The numbers of the processes, of test.log and of no log are apart. *)
LEMMA ProcessesApart ==
    ASSUME HydraAssumption
    PROVE  0 \notin Processes /\ NoLog \notin Logs /\ Processes \subseteq Logs /\ 0 \in Logs
  BY DEF HydraAssumption, Processes, Logs, NoLog

ProcessesCounted == Counts(writers, Processes) /\ writers[Processes] = WORK_PROCESSES_NUM

(* Those at clear and those at print are different processes. *)
LEMMA WritersBounded ==
    ASSUME HydraAssumption, ProcessesCounted
    PROVE  /\ AtClear \in SUBSET Processes /\ AtPrint \in SUBSET Processes
           /\ writers[AtClear] \in Nat /\ writers[AtPrint] \in Nat
           /\ writers[AtClear] + writers[AtPrint] <= WORK_PROCESSES_NUM
           /\ \A p \in Processes : p \notin AtClear \cup AtPrint =>
                 writers[AtClear] + writers[AtPrint] <= WORK_PROCESSES_NUM - 1
<1>1. AtClear \subseteq Processes /\ AtPrint \subseteq Processes /\ AtClear \cap AtPrint = {}
  BY DEF AtClear, AtPrint
<1>2. writers[AtClear] \in Nat /\ writers[AtPrint] \in Nat
  BY <1>1 DEF ProcessesCounted, Counts
<1>3. writers[AtClear \cup AtPrint] = writers[AtClear] + writers[AtPrint]
  BY <1>1 DEF ProcessesCounted, Counts
<1>4. writers[AtClear \cup AtPrint] <= WORK_PROCESSES_NUM
  <2>1. AtClear \cup AtPrint \in SUBSET Processes /\ Processes \in SUBSET Processes
    BY <1>1
  <2> QED
    BY <2>1 DEF ProcessesCounted, Counts
<1>5. ASSUME NEW p \in Processes, p \notin AtClear \cup AtPrint
      PROVE  writers[AtClear \cup AtPrint] <= WORK_PROCESSES_NUM - 1
  <2> DEFINE W == AtClear \cup AtPrint
             V == Processes \ {p}
  <2>1. W \in SUBSET Processes /\ V \in SUBSET Processes /\ W \subseteq V /\ Processes \in SUBSET Processes
    BY <1>1, <1>5
  <2>2. writers[V] = WORK_PROCESSES_NUM - 1
    BY <2>1 DEF ProcessesCounted, Counts
  <2> HIDE DEF W, V
  <2>3. writers[W] <= writers[V]
    BY <2>1 DEF ProcessesCounted, Counts
  <2> QED
    BY <2>2, <2>3 DEF W
<1> QED
  BY <1>1, <1>2, <1>3, <1>4, <1>5

(* One process more, or less, at clear or at print. *)
LEMMA WritersChange ==
    ASSUME ProcessesCounted, NEW p \in Processes
    PROVE  /\ p \notin AtClear => writers[AtClear \cup {p}] = writers[AtClear] + 1
           /\ p \in AtClear => writers[AtClear \ {p}] = writers[AtClear] - 1
           /\ p \notin AtPrint => writers[AtPrint \cup {p}] = writers[AtPrint] + 1
           /\ p \in AtPrint => writers[AtPrint \ {p}] = writers[AtPrint] - 1
<1>1. AtClear \in SUBSET Processes /\ AtPrint \in SUBSET Processes
  BY DEF AtClear, AtPrint
<1> QED
  BY <1>1 DEF ProcessesCounted, Counts

(* Logs from before the start are within their limit. *)
LEMMA HydraInitially ==
    ASSUME HydraAssumption, ProcessesCounted, HydraInit
    PROVE  HydraInv
<1> USE DEF HydraAssumption
<1>1. PICK n \in 0..log_max_size, own \in 0..log_max_size :
         logs = [f \in Logs |-> [k \in 1..(IF f = 0 THEN n ELSE own) |-> Old]]
  BY Zenon DEF HydraInit
<1>2. \A f \in Logs : /\ logs[f] \in Seq(Lines)
                      /\ Len(logs[f]) <= log_max_size
                      /\ \A k \in 1..Len(logs[f]) : logs[f][k] = Old
  BY <1>1 DEF Lines
<1>3. HydraTypeOK
  <2>1. logs \in [Logs -> Seq(Lines)]
    BY <1>1, <1>2, Zenon
  <2>2. lmfp \in [Processes -> Logs \cup {NoLog}] /\ pos \in [Processes -> Positions]
    BY ProcessesApart DEF HydraInit, Positions
  <2>3. cb \in [Processes -> {"out", "stat", "truncate", "clear", "print"}]
    BY DEF HydraInit
  <2> QED
    BY <2>1, <2>2, <2>3 DEF HydraInit, HydraTypeOK
<1>4. OpenInv
  BY ProcessesApart DEF HydraInit, OpenInv, Parent, Processes
<1>5. OwnInv
  BY <1>2, ProcessesApart DEF HydraInit, OwnInv, OwnLog
<1>6. SharedInv
  <2>1. AtClear = {} /\ AtPrint = {}
    BY DEF HydraInit, AtClear, AtPrint
  <2>2. Len(logs[0]) \in Nat /\ Len(logs[0]) <= log_max_size
    BY <1>2, ProcessesApart
  <2> QED
    BY <2>1, <2>2 DEF ProcessesCounted, Counts, SharedInv
<1> QED
  BY <1>3, <1>4, <1>5, <1>6 DEF HydraInv

-----------------------------------------------------------------------------
(* The steps of write_to_file_cb. *)
LEMMA CallbackStep ==
    ASSUME HydraAssumption, ProcessesCounted, HydraInv, NEW p \in Processes, write_to_file_cb(p)
    PROVE  HydraInv'
<1> USE DEF HydraAssumption
<1>0. /\ UNCHANGED <<lmfp, pos, forks, lines>>
      /\ lmfp \in [Processes -> Logs \cup {NoLog}] /\ logs \in [Logs -> Seq(Lines)]
      /\ cb \in [Processes -> {"out", "stat", "truncate", "clear", "print"}]
      /\ lmfp[p] \in {NoLog, 0, p} /\ p \in Logs /\ 0 \in Logs /\ NoLog \notin Logs /\ p # 0
      /\ \A f \in Logs : logs[f] \in Seq(Lines) /\ Len(logs[f]) \in Nat
  BY ProcessesApart DEF write_to_file_cb, HydraInv, HydraTypeOK, OpenInv
<1>1. CASE cb[p] = "stat"
  <2>1. /\ UNCHANGED <<logs, early>>
        /\ cb' = [cb EXCEPT ![p] = IF lmfp[p] = NoLog THEN "out"
                                   ELSE IF Len(logs[lmfp[p]]) < log_max_size THEN "print" ELSE "truncate"]
    BY <1>1 DEF write_to_file_cb, Set
  <2>2. HydraTypeOK'
    BY <1>0, <2>1 DEF HydraInv, HydraTypeOK
  <2>3. OpenInv'
    BY <1>0, <1>1, <2>1 DEF HydraInv, HydraTypeOK, OpenInv
  <2>4. OwnInv'
    BY <1>0, <2>1 DEF HydraInv, HydraTypeOK, OpenInv, OwnInv, OwnLog
  <2>5. SharedInv'
    <3>1. AtClear' = AtClear
      BY <1>0, <1>1, <2>1 DEF AtClear
    <3>2. CASE lmfp[p] = 0 /\ Len(logs[0]) < log_max_size
      <4>1. AtPrint' = AtPrint \cup {p} /\ p \notin AtClear \cup AtPrint
        BY <1>0, <1>1, <2>1, <3>2 DEF AtClear, AtPrint
      <4>2. writers[AtPrint'] = writers[AtPrint] + 1
        BY <4>1, WritersChange
      <4> QED
        BY <1>0, <2>1, <3>1, <3>2, <4>1, <4>2, WritersBounded, SMTT(30) DEF SharedInv
    <3>3. CASE ~(lmfp[p] = 0 /\ Len(logs[0]) < log_max_size)
      <4>1. AtPrint' = AtPrint
        BY <1>0, <1>1, <2>1, <3>3 DEF AtPrint
      <4> QED
        BY <2>1, <3>1, <4>1 DEF HydraInv, SharedInv
    <3> QED
      BY <3>2, <3>3
  <2> QED
    BY <2>2, <2>3, <2>4, <2>5 DEF HydraInv
<1>2. CASE cb[p] = "truncate"
  <2>0. lmfp[p] \in {0, p}
    BY <1>0, <1>2 DEF HydraInv, OpenInv
  <2>1. /\ logs' = [logs EXCEPT ![lmfp[p]] = <<>>]
        /\ early' = IF Len(logs[lmfp[p]]) < log_max_size THEN early \cup {lmfp[p]} ELSE early
        /\ cb' = [cb EXCEPT ![p] = "clear"]
    BY <1>2 DEF write_to_file_cb, Set
  <2>2. HydraTypeOK'
    BY <1>0, <2>0, <2>1 DEF HydraInv, HydraTypeOK
  <2>3. OpenInv'
    BY <1>0, <2>0, <2>1 DEF HydraInv, HydraTypeOK, OpenInv
  <2>4. OwnInv'
    <3>1. early' \subseteq {0}
      <4>1. CASE lmfp[p] = 0
        BY <2>1, <4>1 DEF HydraInv, OwnInv
      <4>2. CASE lmfp[p] = p
        <5>1. Len(logs[p]) = log_max_size
          BY <1>2, <4>2 DEF HydraInv, OwnInv, OwnLog
        <5>2. early' = early
          BY <2>1, <4>2, <5>1
        <5> QED
          BY <5>2 DEF HydraInv, OwnInv
      <4> QED
        BY <2>0, <4>1, <4>2
    <3>2. ASSUME NEW q \in Processes, lmfp[p] # q PROVE OwnLog(q)'
      <4>1. logs'[q] = logs[q] /\ lmfp' = lmfp /\ (q # p => cb'[q] = cb[q])
        BY <1>0, <2>0, <2>1, <3>2
      <4> QED
        BY <1>0, <2>0, <3>2, <4>1, Zenon DEF HydraInv, OwnInv, OwnLog
    <3>3. ASSUME lmfp[p] = p PROVE OwnLog(p)'
      <4>1. OwnLog(p) /\ cb'[p] = "clear" /\ lmfp'[p] = p /\ p # 0
        BY <1>0, <2>1, <3>3 DEF HydraInv, OwnInv
      <4>2. logs'[p] = <<>>
        BY <1>0, <2>1, <3>3
      <4> QED
        BY <1>0, <1>2, <3>3, <4>1, <4>2 DEF OwnLog
    <3>4. \A q \in Processes : lmfp[p] = q => q = p
      BY <2>0, ProcessesApart
    <3> QED
      BY <3>1, <3>2, <3>3, <3>4 DEF OwnInv
  <2>5. SharedInv'
    <3>1. AtPrint' = AtPrint
      BY <1>0, <1>2, <2>1 DEF AtPrint
    <3>2. CASE lmfp[p] = 0
      <4>1. AtClear' = AtClear \cup {p} /\ p \notin AtClear \cup AtPrint
        BY <1>0, <1>2, <2>1, <3>2 DEF AtClear, AtPrint
      <4>2. writers[AtClear'] = writers[AtClear] + 1
        BY <4>1, WritersChange
      <4>3. Len(logs'[0]) = 0
        BY <1>0, <2>1, <3>2
      <4> QED
        BY <3>1, <4>1, <4>2, <4>3, WritersBounded DEF SharedInv
    <3>3. CASE lmfp[p] = p
      <4>1. AtClear' = AtClear
        BY <1>0, <1>2, <2>1, <3>3 DEF AtClear
      <4>2. logs'[0] = logs[0]
        BY <1>0, <2>1, <3>3
      <4> QED
        BY <3>1, <4>1, <4>2 DEF HydraInv, SharedInv
    <3> QED
      BY <2>0, <3>2, <3>3
  <2> QED
    BY <2>2, <2>3, <2>4, <2>5 DEF HydraInv
<1>3. CASE cb[p] = "clear"
  <2>0. lmfp[p] \in {0, p}
    BY <1>0, <1>3 DEF HydraInv, OpenInv
  <2>1. /\ logs' = [logs EXCEPT ![lmfp[p]] = Append(@, Clear)]
        /\ cb' = [cb EXCEPT ![p] = "print"]
        /\ early' = early
    BY <1>3 DEF write_to_file_cb, Set
  <2>2. /\ Append(logs[lmfp[p]], Clear) \in Seq(Lines)
        /\ Len(Append(logs[lmfp[p]], Clear)) = Len(logs[lmfp[p]]) + 1
        /\ \A k \in 1..Len(logs[lmfp[p]]) : Append(logs[lmfp[p]], Clear)[k] = logs[lmfp[p]][k]
        /\ Append(logs[lmfp[p]], Clear)[Len(logs[lmfp[p]]) + 1] = Clear
    BY <1>0, <2>0, AppendProperties DEF Lines
  <2>3. HydraTypeOK'
    BY <1>0, <2>0, <2>1, <2>2 DEF HydraInv, HydraTypeOK
  <2>4. OpenInv'
    BY <1>0, <2>0, <2>1, SMTT(30) DEF HydraInv, HydraTypeOK, OpenInv
  <2>5. OwnInv'
    <3>1. early' \subseteq {0}
      BY <1>0, <1>3, <2>0, <2>1, SMTT(30) DEF HydraInv, OwnInv, OwnLog
    <3>2. ASSUME NEW q \in Processes, lmfp[p] # q PROVE OwnLog(q)'
      <4>1. logs'[q] = logs[q] /\ lmfp' = lmfp /\ (q # p => cb'[q] = cb[q])
        BY <1>0, <2>0, <2>1, <3>2
      <4> QED
        BY <1>0, <2>0, <3>2, <4>1 DEF HydraInv, OwnInv, OwnLog
    <3>3. ASSUME lmfp[p] = p PROVE OwnLog(p)'
      <4>1. OwnLog(p) /\ cb'[p] = "print" /\ lmfp'[p] = p /\ p # 0
        BY <1>0, <2>1, <3>3 DEF HydraInv, OwnInv
      <4>2. logs'[p] = Append(logs[p], Clear)
        BY <1>0, <2>1, <2>2, <3>3, SMTT(30)
      <4> QED
        BY <1>0, <1>3, <2>2, <3>3, <4>1, <4>2 DEF OwnLog
    <3>4. \A q \in Processes : lmfp[p] = q => q = p
      BY <2>0, ProcessesApart
    <3> QED
      BY <3>1, <3>2, <3>3, <3>4 DEF OwnInv
  <2>6. SharedInv'
    <3>1. CASE lmfp[p] = 0
      <4>1. AtClear' = AtClear \ {p} /\ p \in AtClear
        BY <1>0, <1>3, <2>1, <3>1 DEF AtClear
      <4>2. AtPrint' = AtPrint \cup {p} /\ p \notin AtPrint
        BY <1>0, <1>3, <2>1, <3>1 DEF AtPrint
      <4>3. /\ writers[AtClear'] = writers[AtClear] - 1
            /\ writers[AtPrint'] = writers[AtPrint] + 1
        BY <4>1, <4>2, WritersChange
      <4>4. Len(logs'[0]) = Len(logs[0]) + 1
        BY <1>0, <2>1, <2>2, <3>1
      <4>5. /\ writers[AtClear] \in Nat /\ writers[AtPrint] \in Nat
            /\ Len(logs[0]) \in Nat /\ SharedInv
        BY <1>0, WritersBounded DEF HydraInv
      <4> QED
        BY <4>3, <4>4, <4>5, HydraAssumption, SMTT(30) DEF SharedInv
    <3>2. CASE lmfp[p] = p
      <4>1. AtClear' = AtClear /\ AtPrint' = AtPrint
        BY <1>0, <1>3, <2>1, <3>2 DEF AtClear, AtPrint
      <4>2. logs'[0] = logs[0]
        BY <1>0, <2>1, <3>2
      <4> QED
        BY <4>1, <4>2 DEF HydraInv, SharedInv
    <3> QED
      BY <2>0, <3>1, <3>2
  <2> QED
    BY <2>3, <2>4, <2>5, <2>6 DEF HydraInv
<1>4. CASE cb[p] = "print"
  <2>0. lmfp[p] \in {0, p}
    BY <1>0, <1>4 DEF HydraInv, OpenInv
  <2>1. /\ logs' = [logs EXCEPT ![lmfp[p]] = Append(@, p)]
        /\ cb' = [cb EXCEPT ![p] = "out"]
        /\ early' = early
    BY <1>4 DEF write_to_file_cb, Set
  <2>2. /\ Append(logs[lmfp[p]], p) \in Seq(Lines)
        /\ Len(Append(logs[lmfp[p]], p)) = Len(logs[lmfp[p]]) + 1
        /\ \A k \in 1..Len(logs[lmfp[p]]) : Append(logs[lmfp[p]], p)[k] = logs[lmfp[p]][k]
        /\ Append(logs[lmfp[p]], p)[Len(logs[lmfp[p]]) + 1] = p
    BY <1>0, <2>0, AppendProperties DEF Lines
  <2>3. HydraTypeOK'
    BY <1>0, <2>0, <2>1, <2>2 DEF HydraInv, HydraTypeOK
  <2>4. OpenInv'
    BY <1>0, <2>0, <2>1, SMTT(30) DEF HydraInv, HydraTypeOK, OpenInv
  <2>5. OwnInv'
    <3>1. early' \subseteq {0}
      BY <1>0, <1>4, <2>0, <2>1 DEF HydraInv, OwnInv, OwnLog
    <3>2. ASSUME NEW q \in Processes, lmfp[p] # q PROVE OwnLog(q)'
      <4>1. logs'[q] = logs[q] /\ lmfp' = lmfp /\ (q # p => cb'[q] = cb[q])
        BY <1>0, <2>0, <2>1, <3>2
      <4> QED
        BY <1>0, <2>0, <3>2, <4>1 DEF HydraInv, OwnInv, OwnLog
    <3>3. ASSUME lmfp[p] = p PROVE OwnLog(p)'
      <4>1. OwnLog(p) /\ cb'[p] = "out" /\ lmfp'[p] = p /\ p # 0
        BY <1>0, <2>1, <3>3 DEF HydraInv, OwnInv
      <4>2. logs'[p] = Append(logs[p], p)
        BY <1>0, <2>1, <2>2, <3>3, SMTT(30)
      <4> QED
        BY <1>0, <1>4, <2>2, <3>3, <4>1, <4>2 DEF OwnLog
    <3>4. \A q \in Processes : lmfp[p] = q => q = p
      BY <2>0, ProcessesApart
    <3> QED
      BY <3>1, <3>2, <3>3, <3>4 DEF OwnInv
  <2>6. SharedInv'
    <3>1. AtClear' = AtClear
      BY <1>0, <1>4, <2>1 DEF AtClear
    <3>2. CASE lmfp[p] = 0
      <4>1. AtPrint' = AtPrint \ {p} /\ p \in AtPrint
        BY <1>0, <1>4, <2>1, <3>2 DEF AtPrint
      <4>2. writers[AtPrint'] = writers[AtPrint] - 1
        BY <4>1, WritersChange
      <4>3. Len(logs'[0]) = Len(logs[0]) + 1
        BY <1>0, <2>1, <2>2, <3>2
      <4>4. /\ writers[AtClear] \in Nat /\ writers[AtPrint] \in Nat
            /\ Len(logs[0]) \in Nat /\ SharedInv
        BY <1>0, WritersBounded DEF HydraInv
      <4> QED
        BY <3>1, <4>2, <4>3, <4>4, HydraAssumption, SMTT(30) DEF SharedInv
    <3>3. CASE lmfp[p] = p
      <4>1. AtPrint' = AtPrint
        BY <1>0, <1>4, <2>1, <3>3 DEF AtPrint
      <4>2. logs'[0] = logs[0]
        BY <1>0, <2>1, <3>3
      <4> QED
        BY <3>1, <4>1, <4>2 DEF HydraInv, SharedInv
    <3> QED
      BY <2>0, <3>2, <3>3
  <2> QED
    BY <2>3, <2>4, <2>5, <2>6 DEF HydraInv
<1> QED
  BY <1>1, <1>2, <1>3, <1>4 DEF write_to_file_cb

(* The steps of main.  A child has test.log open, as its parent has, and   *)
(* has not written anything.                                               *)
LEMMA MainStep ==
    ASSUME HydraAssumption, HydraInv, NEW p \in Processes, cb[p] = "out",
           fork(p) \/ event_reinit(p) \/ reopen(p) \/ event_base_dispatch(p) \/ exit_main(p)
    PROVE  HydraInv'
<1> USE DEF HydraAssumption
<1>0. /\ UNCHANGED <<logs, early>>
      /\ lmfp \in [Processes -> Logs \cup {NoLog}] /\ pos \in [Processes -> Positions]
      /\ cb \in [Processes -> {"out", "stat", "truncate", "clear", "print"}]
      /\ p \in Logs /\ 0 \in Logs /\ NoLog \notin Logs /\ 0 \notin Processes
      /\ "stat" \in {"out", "stat", "truncate", "clear", "print"}
  BY ProcessesApart, SMTT(30) DEF fork, event_reinit, reopen, event_base_dispatch, exit_main, HydraInv, HydraTypeOK
<1>1. ASSUME \A q \in Processes : \/ cb'[q] = cb[q] /\ lmfp'[q] = lmfp[q]
                                  \/ cb'[q] \in {"out", "stat"} /\ cb[q] \in {"out", "stat"}
      PROVE  OwnInv' /\ SharedInv'
  <2>1. AtClear' = AtClear /\ AtPrint' = AtPrint
    BY <1>1, SMTT(30) DEF AtClear, AtPrint
  <2>2. ASSUME NEW q \in Processes PROVE OwnLog(q)'
    BY <1>0, <1>1 DEF HydraInv, OwnInv, OwnLog
  <2> QED
    BY <1>0, <2>1, <2>2 DEF HydraInv, OwnInv, SharedInv
<1>2. ASSUME fork(p), forks # WORK_PROCESSES_NUM - 1, forks' = forks + 1 PROVE HydraInv'
  <2> DEFINE child == forks + 2
  <2>1. child \in Processes /\ child # p /\ cb[child] = "out" /\ pos[child] = "none" /\ lmfp[p] = 0
    <3>1. forks \in 0..(WORK_PROCESSES_NUM - 1) /\ p <= forks + 1
      BY <1>0, <1>2, SMTT(30) DEF HydraInv, HydraTypeOK, OpenInv, fork, Processes
    <3> QED
      BY <1>2, <3>1, SMTT(30) DEF HydraInv, OpenInv, Processes, fork
  <2>2. /\ lmfp' = [lmfp EXCEPT ![child] = lmfp[p]]
        /\ pos' = [pos EXCEPT ![child] = "reinit"]
        /\ cb' = [cb EXCEPT ![p] = "stat", ![child] = "stat"]
        /\ lines' = lines /\ forks' = forks + 1 /\ forks + 1 \in 0..(WORK_PROCESSES_NUM - 1)
    BY <1>2 DEF fork, Set, HydraInv, HydraTypeOK
  <2>3. HydraTypeOK'
    BY <1>0, <2>1, <2>2, ZenonT(40) DEF HydraInv, HydraTypeOK, Positions
  <2>4. OpenInv'
    BY <1>0, <2>1, <2>2, SMTT(30) DEF HydraInv, HydraTypeOK, OpenInv, Processes
  <2>5. OwnInv' /\ SharedInv'
    BY <1>0, <1>1, <2>1, <2>2
  <2> QED
    BY <2>3, <2>4, <2>5, SMTT(30) DEF HydraInv
<1>3. ASSUME ~(fork(p) /\ forks # WORK_PROCESSES_NUM - 1 /\ forks' = forks + 1) PROVE HydraInv'
  <2>1. /\ forks' = forks
        /\ \E x \in Positions \ {"none"} : pos' = [pos EXCEPT ![p] = x]
        /\ \E x \in {NoLog, lmfp[p], p} : lmfp' = [lmfp EXCEPT ![p] = x]
        /\ \E x \in {"out", "stat"} : cb' = [cb EXCEPT ![p] = x]
        /\ pos[p] # "none"
        /\ lines' \in [Processes -> 0..MaxLines]
    <3>0. lines \in [Processes -> 0..MaxLines] /\ lmfp = [lmfp EXCEPT ![p] = lmfp[p]]
          /\ cb = [cb EXCEPT ![p] = "out"] /\ pos = [pos EXCEPT ![p] = pos[p]]
      BY <1>0, SMTT(30) DEF HydraInv, HydraTypeOK
    <3>1. CASE fork(p)
      BY <1>0, <1>3, <3>0, <3>1 DEF fork, Set, Positions
    <3>2. CASE event_reinit(p)
      BY <1>0, <3>0, <3>2 DEF event_reinit, Set, Positions
    <3>3. CASE reopen(p)
      BY <1>0, <3>0, <3>3 DEF reopen, reopened, Set, Positions
    <3>4. CASE event_base_dispatch(p)
      BY <1>0, <3>0, <3>4 DEF event_base_dispatch, Set, Positions
    <3>5. CASE exit_main(p)
      BY <1>0, <3>0, <3>5, Zenon DEF exit_main, Set, Positions
    <3> QED
      BY <3>1, <3>2, <3>3, <3>4, <3>5, SMTT(30)
  <2>2. HydraTypeOK'
    <3>1. lmfp' \in [Processes -> Logs \cup {NoLog}]
      BY <1>0, <2>1
    <3>2. pos' \in [Processes -> Positions] /\ cb' \in [Processes -> {"out", "stat", "truncate", "clear", "print"}]
      BY <1>0, <2>1
    <3> QED
      BY <1>0, <2>1, <3>1, <3>2, SMTT(30) DEF HydraInv, HydraTypeOK
  <2>3. OpenInv'
    <3>1. /\ pos'[p] \in {"fork", "reinit", "reopen"} => lmfp'[p] = 0
          /\ pos'[p] = "dispatch" => lmfp'[p] = p
      BY <1>0, SMTT(30) DEF fork, event_reinit, reopen, reopened, event_base_dispatch, exit_main, Set, HydraInv, OpenInv
    <3> QED
      BY <1>0, <2>1, <3>1 DEF HydraInv, OpenInv
  <2>4. OwnInv' /\ SharedInv'
    BY <1>0, <1>1, <2>1
  <2> QED
    BY <2>2, <2>3, <2>4 DEF HydraInv
<1> QED
  BY <1>2, <1>3, SMTT(30)

(* What the invariant says of the logs. *)
LEMMA OwnLogs ==
    ASSUME ProcessesCounted, HydraInv
    PROVE  LogsOfTheirOwn
<1> USE HydraAssumption
<1>1. ASSUME NEW p \in Processes
      PROVE  Range(logs[p]) \subseteq {Old, Clear, p} /\ Len(logs[p]) <= log_max_size
  <2>1. logs[p] \in Seq(Lines) /\ OwnLog(p)
    BY ProcessesApart, Zenon DEF HydraInv, HydraTypeOK, OwnInv
  <2>2. DOMAIN logs[p] = 1..Len(logs[p])
    BY <2>1
  <2> QED
    BY <2>1, <2>2 DEF OwnLog, Range
<1>2. Len(logs[0]) <= log_max_size + 2 * (WORK_PROCESSES_NUM - 1)
  <2>1. Len(logs[0]) \in Nat
    BY ProcessesApart DEF HydraInv, HydraTypeOK
  <2> QED
    BY <2>1, WritersBounded DEF HydraInv, SharedInv, HydraAssumption
<1>3. early \subseteq {0} /\ \A p \in Processes : pos[p] = "dispatch" => lmfp[p] = p
  BY DEF HydraInv, OpenInv, OwnInv
<1> QED
  BY <1>1, <1>2, <1>3 DEF LogsOfTheirOwn

-----------------------------------------------------------------------------
(* log.c.  Where no name went astray the file that is open is g_filename,  *)
(* so the size that is looked at is that of the file that grows.  The      *)
(* bound is that of LogsBounded, with the longest line n a parameter.      *)
LogFileTypeOK ==
    /\ length \in [LogNames -> Int]
    /\ log_fp \in LogNames \cup {NoName} /\ g_filename \in LogNames \cup {NoName}
    /\ g_rotate \in BOOLEAN /\ astray \in BOOLEAN /\ log_crash \in BOOLEAN

LogFileInv ==
    /\ LogFileTypeOK
    /\ \A name \in LogNames : length[name] >= -1
    /\ g_filename = NoName => log_fp = NoName /\ ~g_rotate
    /\ log_fp # NoName => length[log_fp] >= 0
    /\ LogsBounded

(* The invariant of log.c, for any names, limit and lines. *)
THEOREM LogFileInvariant == LogFileSpec => []LogFileInv
<1> USE LogFileAssumption DEF LogFileAssumption
<1>1. LogFileInit => LogFileInv
  <2> SUFFICES ASSUME LogFileInit PROVE LogFileInv
    OBVIOUS
  <2>1. length \in [LogNames -> Int] /\ \A name \in LogNames : length[name] = -1
    BY DEF LogFileInit
  <2>2. LogsBounded
    BY <2>1 DEF LogsBounded, LogFileInit
  <2> QED
    <3>1. LogFileTypeOK
      BY <2>1, Zenon DEF LogFileInit, LogFileTypeOK
    <3>2. (\A name \in LogNames : length[name] >= -1) /\ (log_fp = NoName /\ ~g_rotate)
      BY <2>1 DEF LogFileInit
    <3> QED
      BY <2>2, <3>1, <3>2 DEF LogFileInv
<1>2. ASSUME LogFileInv, NEW name \in LogNames, log_init(name) PROVE LogFileInv'
  <2>1. LogFileTypeOK'
    BY <1>2 DEF LogFileInv, LogFileTypeOK, log_init, filename
  <2>2. \A m \in LogNames : length'[m] = length[m] \/ length'[m] = 0
    BY <1>2 DEF LogFileInv, LogFileTypeOK, log_init
  <2>3. \A m \in LogNames : length'[m] >= -1
    BY <1>2, <2>2 DEF LogFileInv, LogFileTypeOK
  <2>4. /\ g_filename' = NoName => log_fp' = NoName /\ ~g_rotate'
        /\ log_fp' # NoName => length'[log_fp'] >= 0
        /\ ~astray' => ~astray
        /\ ~astray' /\ log_fp' # NoName => log_fp' = g_filename'
        /\ log_crash' => g_rotate'
    BY <1>2 DEF LogFileInv, LogFileTypeOK, log_init, filename, LogsBounded
  <2>5. ASSUME ~astray', NEW m \in LogNames, NEW n \in LineLengths, \A k \in LineLengths : k <= n
        PROVE  length'[m] <= FILE_MAX_SIZE + n
    <3>1. length[m] <= FILE_MAX_SIZE + n /\ n \in Nat
      BY <1>2, <2>4, <2>5, SMTT(30) DEF LogFileInv, LogsBounded
    <3> QED
      BY <2>2, <3>1, SMTT(30)
  <2>6. LogsBounded'
    BY <2>4, <2>5 DEF LogsBounded
  <2> QED
    BY <2>1, <2>3, <2>4, <2>6 DEF LogFileInv
<1>3. ASSUME LogFileInv, log_close PROVE LogFileInv'
  BY <1>3 DEF LogFileInv, LogFileTypeOK, log_close, LogsBounded
<1>4. ASSUME LogFileInv, NEW n \in LineLengths, logw(n), write_line(n) PROVE LogFileInv'
  <2>0. /\ log_fp \in LogNames /\ log_fp # NoName /\ n \in Nat /\ length[log_fp] \in Int /\ length[log_fp] >= 0
        /\ UNCHANGED <<log_fp, g_filename, g_rotate, astray, log_crash>>
        /\ length' = [length EXCEPT ![log_fp] = length[log_fp] + n]
    BY <1>4 DEF LogFileInv, LogFileTypeOK, logw, write_line
  <2>1. LogFileTypeOK'
    BY <1>4, <2>0 DEF LogFileInv, LogFileTypeOK
  <2>2. length'[log_fp] = length[log_fp] + n /\ \A m \in LogNames : m # log_fp => length'[m] = length[m]
    BY <1>4, <2>0 DEF LogFileInv, LogFileTypeOK
  <2>3. \A m \in LogNames : length'[m] >= -1
    BY <1>4, <2>0, <2>2 DEF LogFileInv, LogFileTypeOK
  <2>5. ASSUME ~astray', NEW m \in LogNames, NEW l \in LineLengths, \A k \in LineLengths : k <= l
        PROVE  length'[m] <= FILE_MAX_SIZE + l
    <3>1. length[m] <= FILE_MAX_SIZE + l /\ l \in Nat /\ n <= l
      BY <1>4, <2>0, <2>5 DEF LogFileInv, LogsBounded
    <3>2. length[log_fp] <= FILE_MAX_SIZE
      BY <1>4, <2>0, <2>5, SMTT(30) DEF LogFileInv, LogsBounded, write_line, get_file_size
    <3> QED
      BY <2>0, <2>2, <3>1, <3>2
  <2>6. LogsBounded'
    BY <1>4, <2>0, <2>5, SMTT(30) DEF LogFileInv, LogsBounded
  <2> QED
    BY <1>4, <2>0, <2>1, <2>2, <2>3, <2>6 DEF LogFileInv
<1>5. ASSUME LogFileInv, NEW n \in LineLengths, logw(n), rotate(n) PROVE LogFileInv'
  <2>0. /\ g_filename \in LogNames /\ g_filename # NoName /\ n \in Nat
        /\ UNCHANGED <<g_filename, astray>> /\ g_rotate' = TRUE
        /\ log_fp' \in {g_filename, NoName} /\ log_crash' \in BOOLEAN
        /\ \E x \in {n, -1} : /\ length' = [length EXCEPT ![g_filename] = x]
                              /\ log_fp' # NoName => x = n
    BY <1>5, Zenon DEF LogFileInv, LogFileTypeOK, logw, rotate
  <2>1. LogFileTypeOK'
    BY <1>5, <2>0 DEF LogFileInv, LogFileTypeOK
  <2>2. /\ length'[g_filename] \in {n, -1} /\ (log_fp' # NoName => length'[g_filename] = n)
        /\ \A m \in LogNames : m # g_filename => length'[m] = length[m]
    BY <1>5, <2>0 DEF LogFileInv, LogFileTypeOK
  <2>3. \A m \in LogNames : length'[m] >= -1
    BY <1>5, <2>0, <2>2 DEF LogFileInv, LogFileTypeOK
  <2>5. ASSUME ~astray', NEW m \in LogNames, NEW l \in LineLengths, \A k \in LineLengths : k <= l
        PROVE  length'[m] <= FILE_MAX_SIZE + l
    <3>1. length[m] <= FILE_MAX_SIZE + l /\ l \in Nat /\ n <= l
      BY <1>5, <2>0, <2>5 DEF LogFileInv, LogsBounded
    <3> QED
      BY <2>0, <2>2, <3>1
  <2>6. LogsBounded'
    BY <2>0, <2>5 DEF LogsBounded
  <2> QED
    BY <2>0, <2>1, <2>2, <2>3, <2>6 DEF LogFileInv
<1>6. ASSUME LogFileInv, UNCHANGED logFileVars PROVE LogFileInv'
  BY <1>6 DEF LogFileInv, LogFileTypeOK, LogsBounded, logFileVars
<1>7. LogFileInv /\ [LogFileNext]_logFileVars => LogFileInv'
  BY <1>2, <1>3, <1>4, <1>5, <1>6 DEF LogFileNext, logw
<1> QED
  BY <1>1, <1>7, PTL DEF LogFileSpec

(* No file of log.c outgrows its limit by more than a line, unless         *)
(* log_init was called with another name after a rotation.                 *)
THEOREM LogsBoundedHold == LogFileSpec => []LogsBounded
<1>1. LogFileInv => LogsBounded
  BY DEF LogFileInv
<1> QED
  BY <1>1, LogFileInvariant, PTL

(***************************************************************************)
(* foo.lock.                                                               *)
(***************************************************************************)
Places == {"out", "create", "stat", "stale", "created", "work", "idle", "checked", "closing", "unlock"}
Locks == [mtime : Nat, by : Users]

LockTypeOK ==
    /\ now \in Nat
    /\ lock \in Locks \cup {NoLock}
    /\ at \in [Users -> Places]
    /\ saved \in [Users -> Nat]
    /\ raced \in BOOLEAN

(* A process between two calls: its lock is there as it left it, or has    *)
(* been taken away some time later.                                        *)
waits(p) == at[p] \in {"idle", "checked", "closing"}
kept(p) == lock # NoLock /\ lock.by = p /\ lock.mtime = saved[p]
lost(p) == saved[p] < now /\ (lock # NoLock => saved[p] < lock.mtime)

Past == lock # NoLock => lock.mtime <= now
Held == \A p \in Users : holds(p) => lock # NoLock /\ lock.by = p /\ ~stale
Saved == \A p \in Users : at[p] \in {"work", "unlock"} => saved[p] = lock.mtime
Left == \A p \in Users : waits(p) => kept(p) \/ lost(p)

(* While nothing was overtaken, the lock of a process in a call is fresh   *)
(* and its modify time is known to it, and a process whose lock was taken  *)
(* away remembers a time that no later lock can have.                      *)
LockInv == LockTypeOK /\ (~raced => Past /\ Held /\ Saved /\ Left)

USE GzLockAssumption DEF GzLockAssumption, Places

(* No one has a lock, or a time to compare it with, before the first call. *)
LEMMA LockInitially == LockInit => LockInv
<1> SUFFICES ASSUME LockInit PROVE LockInv
  OBVIOUS
<1> USE DEF LockInit
<1>1. LockTypeOK
  BY Zenon DEF LockTypeOK, Locks
<1>2. \A p \in Users : ~holds(p) /\ ~waits(p) /\ at[p] \notin {"work", "unlock"}
  BY DEF holds, waits
<1> QED BY <1>1, <1>2 DEF LockInv, Past, Held, Saved, Left

(* The types are kept by every step. *)
LEMMA LockTypes == ASSUME LockTypeOK, [LockNext]_lockVars PROVE LockTypeOK'
<1> USE DEF LockTypeOK, Locks
<1>1. ASSUME NEW p \in Users, wants_lock(p) \/ stat_lock(p) \/ unlink_lock(p) \/ leave(p) \/ call(p) \/ close(p)
      PROVE LockTypeOK'
  BY <1>1, Zenon DEF wants_lock, stat_lock, unlink_lock, leave, call, close, goes
<1>2. ASSUME NEW p \in Users, create_lock(p) PROVE LockTypeOK'
  BY <1>2 DEF create_lock, goes
<1>3. ASSUME NEW p \in Users, has_lock(p) PROVE LockTypeOK'
  BY <1>3 DEF has_lock, goes
<1>4. ASSUME NEW p \in Users, log_touch(p) \/ keep(p) PROVE LockTypeOK'
  <2>1. lock' \in Locks \cup {NoLock} /\ saved' \in [Users -> Nat] /\ now' = now
    BY <1>4 DEF log_touch, keep, touched
  <2>2. at' \in [Users -> Places] /\ raced' \in BOOLEAN
    BY <1>4, Zenon DEF log_touch, keep, goes
  <2> QED BY <2>1, <2>2
<1>5. ASSUME NEW p \in Users, log_unlock(p) \/ killed(p) PROVE LockTypeOK'
  BY <1>5 DEF log_unlock, killed, goes
<1>6. CASE tick
  BY <1>6 DEF tick
<1>7. CASE UNCHANGED lockVars
  BY <1>7 DEF lockVars
<1> QED
  BY <1>1, <1>2, <1>3, <1>4, <1>5, <1>6, <1>7 DEF LockNext

(* The rest is kept by every step that overtakes no stat. *)
LockRest == Past /\ Held /\ Saved /\ Left

(* One step per operation of log_lock, log_check and log_unlock. *)
LEMMA LockSteps ==
    ASSUME LockTypeOK, LockTypeOK', ~raced, ~raced', LockRest, [LockNext]_lockVars
    PROVE  LockRest'
<1> USE DEF LockTypeOK, Locks
<1> USE DEF LockRest, Past, Held, Saved, Left, holds, waits, kept, lost, stale
<1>1. ASSUME NEW p \in Users, wants_lock(p) \/ stat_lock(p) PROVE LockRest'
  BY <1>1 DEF wants_lock, stat_lock, goes
<1>2. ASSUME NEW p \in Users, create_lock(p) PROVE LockRest'
  <2>1. CASE lock = NoLock
    <3>1. lock' = [mtime |-> now, by |-> p] /\ now' = now /\ saved' = saved
          /\ at' = [at EXCEPT ![p] = "created"]
      BY <1>2, <2>1 DEF create_lock, goes
    <3>2. \A q \in Users : ~holds(q)
      BY <2>1
    <3>3. lock' # NoLock /\ lock'.mtime = now /\ lock'.by = p
      BY <3>1
    <3> QED BY <2>1, <3>1, <3>2, <3>3
  <2>2. CASE lock # NoLock
    BY <1>2, <2>2 DEF create_lock, goes
  <2> QED BY <2>1, <2>2
<1>3. ASSUME NEW p \in Users, unlink_lock(p) PROVE LockRest'
  <2>1. lock' = NoLock /\ now' = now /\ saved' = saved /\ at' = [at EXCEPT ![p] = "create"]
    BY <1>3 DEF unlink_lock, goes
  <2>2. lock = NoLock \/ stale
    BY <1>3, Zenon DEF unlink_lock
  <2>3. \A q \in Users : ~holds(q)
    BY <2>2
  <2>4. \A q \in Users : waits(q) => saved[q] < now
    BY <2>2
  <2> QED BY <2>1, <2>3, <2>4
<1>4. ASSUME NEW p \in Users, has_lock(p) PROVE LockRest'
  <2>1. lock # NoLock /\ lock.by = p /\ ~stale
    BY <1>4 DEF has_lock, goes
  <2>2. saved' = [saved EXCEPT ![p] = lock.mtime] /\ lock' = lock /\ now' = now
        /\ at' = [at EXCEPT ![p] = "work"]
    BY <1>4, <2>1 DEF has_lock, goes
  <2> QED BY <2>1, <2>2
<1>5. ASSUME NEW p \in Users, log_touch(p) \/ keep(p) PROVE LockRest'
  <2>1. lock # NoLock /\ lock.by = p
    BY <1>5 DEF log_touch, keep
  <2>2. lock' = [lock EXCEPT !.mtime = now] /\ saved' = [saved EXCEPT ![p] = now] /\ now' = now
    BY <1>5, <2>1 DEF log_touch, keep, touched
  <2>3. lock' # NoLock /\ lock'.by = p /\ lock'.mtime = now
    BY <2>1, <2>2
  <2>4. \A q \in Users \ {p} : ~holds(q)' /\ (waits(q)' => lost(q) /\ waits(q))
    BY <1>5, <2>1 DEF log_touch, keep, goes
  <2>5. holds(p)' /\ ~waits(p)'
    BY <1>5 DEF log_touch, keep, goes
  <2> QED BY <2>2, <2>3, <2>4, <2>5
<1>6. ASSUME NEW p \in Users, leave(p) \/ call(p) \/ close(p) PROVE LockRest'
  BY <1>6 DEF leave, call, close, goes
<1>7. ASSUME NEW p \in Users, log_unlock(p) PROVE LockRest'
  <2>1. lock # NoLock /\ lock.by = p
    BY <1>7 DEF log_unlock, goes
  <2>2. lock' = NoLock /\ saved' = [saved EXCEPT ![p] = 0] /\ now' = now /\ at' = [at EXCEPT ![p] = "out"]
    BY <1>7 DEF log_unlock, goes
  <2>3. \A q \in Users \ {p} : ~holds(q) /\ (waits(q) => lost(q))
    BY <2>1
  <2> QED BY <2>2, <2>3
<1>8. ASSUME NEW p \in Users, killed(p) PROVE LockRest'
  BY <1>8 DEF killed
<1>9. CASE tick
  <2>1. now' = now + 1 /\ lock' = lock /\ at' = at /\ saved' = saved
    BY <1>9 DEF tick
  <2>2. (\E p \in Users : holds(p)) => ~(now' - lock.mtime > PATIENCE)
    BY <1>9 DEF tick
  <2> QED BY <2>1, <2>2
<1>10. CASE UNCHANGED lockVars
  BY <1>10 DEF lockVars
<1> QED
  BY <1>1, <1>2, <1>3, <1>4, <1>5, <1>6, <1>7, <1>8, <1>9, <1>10 DEF LockNext

(* No step leads back to a behaviour without a race. *)
LEMMA RacedStays == ASSUME LockTypeOK, [LockNext]_lockVars PROVE raced => raced'
BY Zenon DEF LockNext, lockVars, wants_lock, create_lock, stat_lock, unlink_lock, has_lock, log_touch,
       leave, call, close, keep, log_unlock, killed, tick

(* Types are kept by every step, the rest until a stat is overtaken. *)
LEMMA LockInvStep == LockInv /\ [LockNext]_lockVars => LockInv'
<1> SUFFICES ASSUME LockInv, [LockNext]_lockVars PROVE LockInv'
  OBVIOUS
<1>1. LockTypeOK'
  BY LockTypes DEF LockInv
<1>2. ASSUME ~raced' PROVE LockRest'
  BY <1>1, <1>2, RacedStays, LockSteps DEF LockInv, LockRest
<1> QED BY <1>1, <1>2 DEF LockInv, LockRest

(* The inductive invariant of the lock file. *)
LEMMA LockInvariant == LockSpec => []LockInv
BY LockInitially, LockInvStep, PTL DEF LockSpec

(* Whoever is in a call has created the foo.lock that is there: log_lock   *)
(* takes it only from a process that is gone or idle, and log_check tells  *)
(* that process so, whatever is killed and however many wait.              *)
THEOREM OwnLockHolds == LockSpec => []OwnLock
<1>1. LockInv => OwnLock
  BY DEF LockInv, Held, OwnLock
<1> QED BY <1>1, LockInvariant, PTL

(* So a single process is in a call: foo.lock gives the exclusive access   *)
(* that gzlog.c promises, but for the two windows that raced records.      *)
THEOREM ExclusiveUnlessRaced == LockSpec => [](~raced => Exclusive)
<1>1. LockInv => (~raced => Exclusive)
  BY DEF LockInv, Held, Exclusive
<1> QED BY <1>1, LockInvariant, PTL

(***************************************************************************)
(* gzip.                                                                   *)
(***************************************************************************)
Members == {"good", "bad", "unknown", "refused", "garbage"}
Stages == {"treat", "create", "exists", "work", "close", "unlink", "end", "done", "aborted", "killed"}

(* The types of what changes, and of what the files hold. *)
GzipTypeOK ==
    /\ options \in [decompress : BOOLEAN, force : BOOLEAN, to_stdout : BOOLEAN]
    /\ members \in [Files -> Seq(Members) \ {<<>>}]
    /\ ifile \in [Files -> BOOLEAN]
    /\ ofile \in [Files -> {"absent", "old", "partial", "whole"}]
    /\ current \in Nat /\ stage \in Stages /\ part_nb \in Nat /\ method \in Int
    /\ remove_ofname_fd \in BOOLEAN

(* treat_file is at a file and at one of its members, and the method is -1 *)
(* only after it has refused one.                                          *)
AtFile ==
    /\ ~ended => current \in Files
    /\ stage \in {"create", "exists", "work"} => part_nb \in 1..Len(members[current])
    /\ method = -1 /\ ~ended => Failed(current)
    /\ options.to_stdout => stage \notin {"create", "exists", "unlink"}

(* The input is there until treat_file comes to unlink it. *)
InputThere ==
    \A f \in Files : f > current \/ (f = current /\ stage # "end" /\ ~ended) => ifile[f]

(* An output that is not whole is being written and is known to            *)
(* remove_output_file, or was left by a kill or for a member refused.      *)
HalfWritten ==
    /\ remove_ofname_fd /\ ~ended => ~options.to_stdout /\ stage \in {"work", "close", "unlink"}
    /\ \A f \in Files : ofile[f] = "partial" =>
          \/ Failed(f) \/ stage = "killed"
          \/ f = current /\ remove_ofname_fd /\ stage = "work"

(* Where the input is removed next its output is whole. *)
WholeBeforeUnlink ==
    stage \in {"close", "unlink"} /\ ~options.to_stdout => Failed(current) \/ ofile[current] = "whole"

(* The inductive invariant of gzip. *)
GzipInv == GzipTypeOK /\ AtFile /\ InputThere /\ HalfWritten /\ WholeBeforeUnlink /\ DataKept

(* The first file is treated next, and all are there. *)
LEMMA GzipInitially == GzipInit => GzipInv
<1> SUFFICES ASSUME GzipInit PROVE GzipInv
  OBVIOUS
<1>1. members \in [Files -> Seq(Members) \ {<<>>}]
  <2>1. <<"good">> \in Seq(Members) \ {<<>>}
    BY DEF Members
  <2> QED BY <2>1, GzipAssumption DEF GzipInit, Members
<1>2. GzipTypeOK
  <2>1. ifile \in [Files -> BOOLEAN] /\ ofile \in [Files -> {"absent", "old", "partial", "whole"}]
    BY DEF GzipInit
  <2>2. current \in Nat /\ stage \in Stages /\ part_nb \in Nat /\ method \in Int
    BY DEF GzipInit, Stages
  <2>3. options \in [decompress : BOOLEAN, force : BOOLEAN, to_stdout : BOOLEAN]
    BY DEF GzipInit
  <2>4. remove_ofname_fd \in BOOLEAN
    BY DEF GzipInit
  <2> QED BY <1>1, <2>1, <2>2, <2>3, <2>4 DEF GzipTypeOK
<1>3. AtFile
  BY GzipAssumption DEF GzipInit, AtFile, ended, Files
<1> QED BY <1>2, <1>3 DEF GzipInit, GzipInv, InputThere, HalfWritten, WholeBeforeUnlink, DataKept

(* treat_file returns, and the next file is treated. *)
LEMMA NextFile ==
    ASSUME GzipInv, next_file, ~ended, remove_ofname_fd' = FALSE, UNCHANGED <<inputVars, ifile>>,
           ofile' = ofile \/ (Failed(current) /\ ofile' = [ofile EXCEPT ![current] = "absent"]),
           stage = "work" => ~remove_ofname_fd
    PROVE  GzipInv'
<1> USE DEF GzipInv, next_file, inputVars
<1>1. GzipTypeOK'
  <2>1. ofile' \in [Files -> {"absent", "old", "partial", "whole"}]
    BY DEF GzipTypeOK
  <2>2. current' \in Nat /\ stage' \in Stages /\ part_nb' \in Nat /\ method' \in Int
    BY DEF GzipTypeOK, Stages
  <2> QED BY <2>1, <2>2 DEF GzipTypeOK
<1>2. AtFile'
  BY GzipAssumption DEF AtFile, GzipTypeOK, ended, Files
<1>3. InputThere'
  BY DEF InputThere, GzipTypeOK, Files
<1>4. HalfWritten' /\ WholeBeforeUnlink'
  BY DEF HalfWritten, WholeBeforeUnlink, GzipTypeOK, Failed, ended
<1>5. DataKept'
  BY DEF DataKept, HalfWritten, GzipTypeOK, Failed, ended
<1> QED BY <1>1, <1>2, <1>3, <1>4, <1>5

(* abort_gzip: half an output goes, while its input is still there. *)
LEMMA Aborted ==
    ASSUME GzipInv, abort_gzip, ~ended, UNCHANGED <<inputVars, ifile>>
    PROVE  GzipInv'
<1> USE DEF GzipInv, abort_gzip, remove_output_file, inputVars
<1>1. GzipTypeOK' /\ AtFile'
  BY DEF GzipTypeOK, Stages, ended, AtFile
<1>2. InputThere' /\ HalfWritten' /\ WholeBeforeUnlink'
  BY DEF InputThere, HalfWritten, WholeBeforeUnlink, GzipTypeOK, AtFile, Failed, ended
<1>3. DataKept'
  BY DEF DataKept, InputThere, HalfWritten, GzipTypeOK, AtFile, Failed, ended
<1> QED BY <1>1, <1>2, <1>3

(* Every step of treat_file, a signal and a kill keep the invariant. *)
LEMMA GzipStep == GzipInv /\ [GzipNext]_gzipVars => GzipInv'
<1> SUFFICES ASSUME GzipInv, [GzipNext]_gzipVars PROVE GzipInv'
  OBVIOUS
<1> USE DEF GzipInv, inputVars
<1>1. CASE treat_file
  <2>1. CASE next_file
    BY <1>1, <2>1, NextFile DEF treat_file, HalfWritten, ended, GzipTypeOK
  <2>2. CASE ~next_file
    <3>1. /\ stage = "treat" /\ stage' = (IF options.to_stdout THEN "work" ELSE "create") /\ part_nb' = 1
          /\ UNCHANGED <<current, method, options, members, ifile, ofile, remove_ofname_fd>>
      BY <1>1, <2>2 DEF treat_file
    <3>2. Len(members[current]) >= 1
      BY <3>1 DEF GzipTypeOK, AtFile, ended
    <3>3. GzipTypeOK' /\ AtFile'
      BY <3>1, <3>2 DEF GzipTypeOK, AtFile, ended, Failed, Stages
    <3> QED
      BY <3>1, <3>3 DEF InputThere, HalfWritten, WholeBeforeUnlink, DataKept, GzipTypeOK, ended, Failed
  <2> QED BY <2>1, <2>2
<1>2. CASE create_outfile
  <2>1. CASE next_file
    <3>1. stage = "create" /\ UNCHANGED <<inputVars, ifile, ofile, remove_ofname_fd>>
      BY <1>2, <2>1 DEF create_outfile, next_file, GzipTypeOK
    <3>2. remove_ofname_fd = FALSE
      BY <3>1 DEF HalfWritten, ended, GzipTypeOK
    <3> QED BY <2>1, <3>1, <3>2, NextFile DEF ended
  <2>2. CASE ~next_file
    <3>1. /\ stage = "create" /\ UNCHANGED <<options, members, ifile, current, part_nb, method>>
          /\ \/ /\ ofile[current] = "absent" /\ ofile' = [ofile EXCEPT ![current] = "partial"]
                /\ remove_ofname_fd' = TRUE /\ stage' = "work"
             \/ stage' = "exists" /\ UNCHANGED <<ofile, remove_ofname_fd>>
      BY <1>2, <2>2 DEF create_outfile
    <3>2. current \in Files /\ ifile[current] /\ ~remove_ofname_fd
      BY <3>1 DEF AtFile, InputThere, HalfWritten, ended
    <3>3. GzipTypeOK' /\ InputThere' /\ WholeBeforeUnlink'
      BY <3>1, <3>2 DEF GzipTypeOK, InputThere, WholeBeforeUnlink, Stages, ended
    <3>4. AtFile' /\ HalfWritten' /\ DataKept'
      BY <3>1, <3>2 DEF GzipTypeOK, AtFile, HalfWritten, DataKept, ended, Failed
    <3> QED BY <3>3, <3>4
  <2> QED BY <2>1, <2>2
<1>3. CASE check_ofname
  <2>1. CASE next_file
    <3>1. stage = "exists" /\ UNCHANGED <<inputVars, ifile, ofile, remove_ofname_fd>>
      BY <1>3, <2>1 DEF check_ofname, next_file, GzipTypeOK
    <3>2. remove_ofname_fd = FALSE
      BY <3>1 DEF HalfWritten, ended, GzipTypeOK
    <3> QED BY <2>1, <3>1, <3>2, NextFile DEF ended
  <2>2. CASE ~next_file
    <3>1. /\ stage = "exists" /\ stage' = "create" /\ ofile' = [ofile EXCEPT ![current] = "absent"]
          /\ UNCHANGED <<options, members, ifile, current, part_nb, method, remove_ofname_fd>>
      BY <1>3, <2>2 DEF check_ofname
    <3> QED
      BY <3>1 DEF InputThere, HalfWritten, WholeBeforeUnlink, DataKept, GzipTypeOK, AtFile, ended, Failed, Stages
  <2> QED BY <2>1, <2>2
<1>4. CASE work
  <2>1. CASE abort_gzip
    BY <1>4, <2>1, Aborted DEF work, ended
  <2>2. CASE ~abort_gzip
    <3> DEFINE next == IF part_nb = Len(members[current]) THEN 8 ELSE get_method(current, part_nb + 1)
    <3>1. /\ stage = "work" /\ UNCHANGED <<options, members, ifile, current, remove_ofname_fd>>
          /\ \/ /\ members[current][part_nb] = "refused"
                /\ method' = -1 /\ stage' = "close" /\ UNCHANGED <<ofile, part_nb>>
             \/ /\ part_nb # Len(members[current]) /\ part_nb' = part_nb + 1
                /\ UNCHANGED <<ofile, stage, method>>
             \/ /\ method' = next /\ stage' = "close" /\ UNCHANGED part_nb
                /\ ofile' = IF options.to_stdout \/ next = -1 THEN ofile
                            ELSE [ofile EXCEPT ![current] = "whole"]
      BY <1>4, <2>2 DEF work
    <3>2. current \in Files /\ part_nb \in 1..Len(members[current]) /\ members[current] \in Seq(Members)
      BY <3>1 DEF AtFile, GzipTypeOK, ended
    <3>3. next \in {8, -1, -2} /\ (next = -1 => Failed(current))
      BY <3>2 DEF get_method, Failed
    <3>4. members[current][part_nb] = "refused" => Failed(current)
      BY <3>2 DEF Failed
    <3> HIDE DEF next
    <3>5. GzipTypeOK' /\ AtFile'
      BY <3>1, <3>2, <3>3, <3>4 DEF GzipTypeOK, AtFile, Stages, ended, Failed
    <3>6. InputThere' /\ WholeBeforeUnlink' /\ HalfWritten'
      BY <3>1, <3>2, <3>3, <3>4 DEF GzipTypeOK, InputThere, WholeBeforeUnlink, HalfWritten, ended, Failed
    <3>7. DataKept'
      BY <3>1, <3>2, <3>3, <3>4 DEF GzipTypeOK, DataKept, ended, Failed
    <3> QED BY <3>5, <3>6, <3>7
  <2> QED BY <2>1, <2>2
<1>5. CASE close_files
  <2>1. CASE abort_gzip
    BY <1>5, <2>1, Aborted DEF close_files, ended
  <2>2. CASE next_file /\ options.to_stdout
    <3>1. stage = "close" /\ UNCHANGED <<inputVars, ifile, ofile, remove_ofname_fd>>
      BY <1>5, <2>2 DEF close_files, next_file, abort_gzip, GzipTypeOK
    <3>2. remove_ofname_fd = FALSE
      BY <2>2, <3>1 DEF HalfWritten, ended, GzipTypeOK
    <3> QED BY <2>2, <3>1, <3>2, NextFile DEF ended
  <2>3. CASE ~abort_gzip /\ ~(next_file /\ options.to_stdout)
    <3>1. /\ stage = "close" /\ stage' = "unlink" /\ ~options.to_stdout
          /\ UNCHANGED <<options, members, ifile, ofile, current, part_nb, method, remove_ofname_fd>>
      BY <1>5, <2>3 DEF close_files
    <3> QED
      BY <3>1 DEF InputThere, HalfWritten, WholeBeforeUnlink, DataKept, GzipTypeOK, AtFile, ended, Failed, Stages
  <2> QED BY <2>1, <2>2, <2>3
<1>6. CASE unlink_input
  <2>1. PICK removed \in BOOLEAN : ifile' = [ifile EXCEPT ![current] = ~removed]
    BY <1>6 DEF unlink_input
  <2>2. /\ stage = "unlink" /\ stage' = "end" /\ remove_ofname_fd' = FALSE
        /\ UNCHANGED <<options, members, ofile, current, part_nb, method>>
    BY <1>6 DEF unlink_input
  <2>3. GzipTypeOK' /\ AtFile'
    BY <2>1, <2>2 DEF GzipTypeOK, AtFile, ended, Failed, Stages
  <2>4. HalfWritten' /\ WholeBeforeUnlink' /\ InputThere'
    BY <2>1, <2>2 DEF InputThere, HalfWritten, WholeBeforeUnlink, GzipTypeOK, AtFile, ended, Failed, Files
  <2>5. DataKept'
    <3>1. Failed(current) \/ ofile[current] = "whole"
      BY <2>2 DEF WholeBeforeUnlink, AtFile
    <3> QED BY <2>1, <2>2, <3>1 DEF DataKept, GzipTypeOK, AtFile, ended, Failed
  <2> QED BY <2>3, <2>4, <2>5
<1>7. CASE treat_file_ends
  <2>1. /\ stage = "end" /\ next_file /\ UNCHANGED <<inputVars, ifile>> /\ remove_ofname_fd' = FALSE
        /\ ofile' = ofile
    BY <1>7 DEF treat_file_ends, remove_output_file, HalfWritten, ended, GzipTypeOK
  <2> QED BY <2>1, NextFile DEF ended
<1>8. CASE abort_gzip_signal
  BY <1>8, Aborted DEF abort_gzip_signal
<1>9. CASE kill
  <2>1. /\ ~ended /\ stage' = "killed"
        /\ UNCHANGED <<options, members, ifile, ofile, current, part_nb, method, remove_ofname_fd>>
    BY <1>9 DEF kill
  <2> QED
    BY <2>1 DEF InputThere, HalfWritten, WholeBeforeUnlink, DataKept, GzipTypeOK, AtFile, ended, Failed, Stages
<1>10. CASE UNCHANGED gzipVars
  BY <1>10 DEF gzipVars, InputThere, HalfWritten, WholeBeforeUnlink, DataKept, GzipTypeOK, AtFile, ended, Failed
<1> QED
  BY <1>1, <1>2, <1>3, <1>4, <1>5, <1>6, <1>7, <1>8, <1>9, <1>10 DEF GzipNext

(* At every moment, and whatever ends the program, the data of each file   *)
(* is in the file itself or whole in its output, and half an output is     *)
(* left only by a kill, unless a member of the file was refused.           *)
THEOREM DataKeptHolds == GzipSpec => []DataKept
<1>1. GzipInv => DataKept
  BY DEF GzipInv
<1> QED BY <1>1, GzipInitially, GzipStep, PTL DEF GzipSpec

(***************************************************************************)
(* The processes are finitely many; so what was shown of the steps of      *)
(* hydra.c holds of its behaviours.                                        *)
(***************************************************************************)
LOCAL INSTANCE FiniteSetTheorems

LEMMA FiniteCounts ==
    ASSUME NEW S, IsFiniteSet(S)
    PROVE  Counts([T \in SUBSET S |-> Cardinality(T)], S)
<1> DEFINE f == [T \in SUBSET S |-> Cardinality(T)]
<1>1. ASSUME NEW T \in SUBSET S
      PROVE  IsFiniteSet(T) /\ Cardinality(T) \in Nat /\ (Cardinality(T) = 0 => T = {})
  <2>1. IsFiniteSet(T)
    BY FS_Subset, Zenon
  <2> QED
    BY <2>1, FS_CardinalityType, FS_EmptySet, Zenon
<1>2. ASSUME NEW T \in SUBSET S, NEW x \in S
      PROVE  /\ x \notin T => f[T \cup {x}] = f[T] + 1
             /\ x \in T => f[T \ {x}] = f[T] - 1
  <2>1. /\ x \notin T => Cardinality(T \cup {x}) = Cardinality(T) + 1
        /\ x \in T => Cardinality(T \ {x}) = Cardinality(T) - 1
    BY <1>1, FS_AddElement, FS_RemoveElement, Zenon
  <2>2. T \cup {x} \in SUBSET S /\ T \ {x} \in SUBSET S
    OBVIOUS
  <2> QED
    BY <2>1, <2>2, Zenon
<1>3. ASSUME NEW T \in SUBSET S, NEW U \in SUBSET S, T \subseteq U
      PROVE  f[T] <= f[U]
  <2>1. Cardinality(T) <= Cardinality(U)
    BY <1>1, <1>3, FS_Subset, Zenon
  <2> QED
    BY <2>1, Zenon
<1>4. ASSUME NEW T \in SUBSET S, NEW U \in SUBSET S, T \cap U = {}
      PROVE  f[T \cup U] = f[T] + f[U]
  <2>1. Cardinality(T \cup U) = Cardinality(T) + Cardinality(U) - Cardinality(T \cap U)
    BY <1>1, FS_Union, Zenon
  <2>2. Cardinality(T \cap U) = 0
    BY <1>4, FS_EmptySet, Zenon
  <2>3. Cardinality(T \cup U) = Cardinality(T) + Cardinality(U)
    BY <1>1, <2>1, <2>2
  <2>4. T \cup U \in SUBSET S
    OBVIOUS
  <2> QED
    BY <2>3, <2>4, Zenon
<1>5. f \in [SUBSET S -> Nat] /\ f[{}] = 0
  BY <1>1, FS_EmptySet, Zenon
<1>6. \A T \in SUBSET S : f[T] = 0 => T = {}
  BY <1>1, Zenon
<1> HIDE DEF f
<1>7. Counts(f, S)
  BY <1>2, <1>3, <1>4, <1>5, <1>6, Zenon DEF Counts
<1> QED
  BY <1>7 DEF f

LEMMA ProcessesAreCounted == ProcessesCounted
<1> DEFINE f == [T \in SUBSET Processes |-> Cardinality(T)]
<1>1. IsFiniteSet(Processes) /\ Cardinality(Processes) = WORK_PROCESSES_NUM
  BY HydraAssumption, FS_Interval DEF HydraAssumption, Processes
<1>2. Counts(f, Processes)
  BY <1>1, FiniteCounts, Zenon
<1>3. f[Processes] = WORK_PROCESSES_NUM
  BY <1>1, Zenon
<1> HIDE DEF f
<1> QED
  BY <1>2, <1>3, Zenon DEF ProcessesCounted, writers

(* For any number of processes and any limit, test.log is as long as the   *)
(* processes that are past their fstat allow, and a process knows the      *)
(* length of its own log from its fstat to its line.                       *)
THEOREM HydraInvariant == HydraSpec => []HydraInv
<1>0. HydraInit => HydraInv
  BY HydraAssumption, ProcessesAreCounted, HydraInitially
<1>1. HydraInv /\ [HydraNext]_hydraVars => HydraInv'
  <2> SUFFICES ASSUME HydraInv, [HydraNext]_hydraVars PROVE HydraInv'
    OBVIOUS
  <2>1. CASE HydraNext
    BY <2>1, HydraAssumption, ProcessesAreCounted, CallbackStep, MainStep, SMTT(30) DEF HydraNext, hydra
  <2>2. CASE UNCHANGED hydraVars
    BY <2>2 DEF hydraVars, HydraInv, HydraTypeOK, OpenInv, OwnInv, OwnLog, SharedInv, AtClear, AtPrint
  <2> QED
    BY <2>1, <2>2
<1> QED
  BY <1>0, <1>1, PTL DEF HydraSpec

(* So each process of hydra.c writes to its own log only, which never gets *)
(* over its limit, and test.log gets over it by two lines for each process *)
(* but one at most.                                                        *)
THEOREM LogsOfTheirOwnHold == HydraSpec => []LogsOfTheirOwn
<1>1. HydraInv => LogsOfTheirOwn
  BY ProcessesAreCounted, OwnLogs
<1> QED
  BY <1>1, HydraInvariant, PTL

(* The logs of hydra.c and of log.c are kept within their limits. *)
THEOREM LogsKeptHold == LogsSpec => []LogsKept
BY LogsOfTheirOwnHold, LogsBoundedHold, PTL DEF LogsSpec, LogsKept
=============================================================================
