------------------------------ MODULE LogFiles ------------------------------
(***************************************************************************)
(* Two programs that keep their logs small.  libevhtp/hydra.c forks worker *)
(* processes, with the log of the parent open in all of them, and each     *)
(* then opens one of its own; before a line is written, a log that has     *)
(* grown too large is emptied (libevhtp/hydra/log.c holds the same         *)
(* functions).  log/log.c, in the build with one file, removes a file that *)
(* has grown too large and begins it again.                                *)
(***************************************************************************)
EXTENDS Integers, Sequences, FiniteSets, Functions

-----------------------------------------------------------------------------
(* The processes of hydra.c *)

CONSTANTS
    WORK_PROCESSES_NUM,     \* the processes, main among them; 2 in the code
    log_max_size,           \* in lines, two at least; 5 MB in the code
    MaxLines                \* a bound on the lines that a process logs in its loop

ASSUME HydraAssumption ==
    WORK_PROCESSES_NUM \in Nat \ {0} /\ log_max_size \in Nat /\ log_max_size >= 2 /\ MaxLines \in Nat

Processes == 1..WORK_PROCESSES_NUM
Parent == 1

(* test.log is 0, the log of a process has its number. *)
Logs == {0} \cup Processes
NoLog == -1
Old == 0                    \* the writer of a line from before the start
Clear == WORK_PROCESSES_NUM + 1     \* marks "clear log" in place of a writer

VARIABLES
    logs,       \* the content of each file: who wrote its lines
    lmfp,       \* the log that each process has open
    pos,        \* where each process is in main
    cb,         \* where it is in write_to_file_cb
    forks,      \* i of main
    lines,      \* the lines that each process has logged in its loop
    early       \* the files that were emptied when they were not full

hydraVars == <<logs, lmfp, pos, cb, forks, lines, early>>

Set(f, p, x) == [f EXCEPT ![p] = x]

(* lmg_init_log appends to the files that are there. *)
HydraInit ==
    /\ \E n \in 0..log_max_size, own \in 0..log_max_size :
          logs = [f \in Logs |-> [k \in 1..(IF f = 0 THEN n ELSE own) |-> Old]]
    /\ lmfp = [p \in Processes |-> IF p = Parent THEN 0 ELSE NoLog]
    /\ pos = [p \in Processes |-> IF p = Parent THEN "fork" ELSE "none"]
    /\ cb = [p \in Processes |-> "out"]
    /\ forks = 0
    /\ lines = [p \in Processes |-> 0]
    /\ early = {}

-----------------------------------------------------------------------------
(* cleanup_logfile: fstat, ftruncate and the first fprintf, then the line  *)
(* itself; another process that has the file open may come in between.     *)
write_to_file_cb(p) ==
    /\ \/ /\ cb[p] = "stat"
          /\ cb' = Set(cb, p, IF lmfp[p] = NoLog THEN "out"
                              ELSE IF Len(logs[lmfp[p]]) < log_max_size THEN "print" ELSE "truncate")
          /\ UNCHANGED <<logs, early>>
       \/ /\ cb[p] = "truncate"
          /\ logs' = [logs EXCEPT ![lmfp[p]] = <<>>]
          /\ early' = IF Len(logs[lmfp[p]]) < log_max_size THEN early \cup {lmfp[p]} ELSE early
          /\ cb' = Set(cb, p, "clear")
       \/ /\ cb[p] = "clear"
          /\ logs' = [logs EXCEPT ![lmfp[p]] = Append(@, Clear)]
          /\ cb' = Set(cb, p, "print")
          /\ UNCHANGED early
       \/ /\ cb[p] = "print"
          /\ logs' = [logs EXCEPT ![lmfp[p]] = Append(@, p)]
          /\ cb' = Set(cb, p, "out")
          /\ UNCHANGED early
    /\ UNCHANGED <<lmfp, pos, forks, lines>>

-----------------------------------------------------------------------------
(* The loop of main: the child has what the parent has open, and goes to   *)
(* _CHILD_CONT when event_reinit succeeds; both log a line.                *)
fork(p) ==
    /\ pos[p] = "fork"
    /\ IF forks = WORK_PROCESSES_NUM - 1
       THEN pos' = Set(pos, p, "reopen") /\ UNCHANGED <<forks, lmfp, cb>>
       ELSE \/ LET child == forks + 2
               IN  /\ forks' = forks + 1
                   /\ lmfp' = Set(lmfp, child, lmfp[p])
                   /\ pos' = Set(pos, child, "reinit")
                   /\ cb' = [cb EXCEPT ![p] = "stat", ![child] = "stat"]
            \/ /\ pos' = Set(pos, p, "exit") /\ cb' = Set(cb, p, "stat")
               /\ UNCHANGED <<forks, lmfp>>
    /\ UNCHANGED <<logs, lines, early>>

(* A child that fails logs it, and exits without lmg_release_log: the      *)
(* system closes its files.                                                *)
event_reinit(p) ==
    /\ pos[p] = "reinit"
    /\ \/ pos' = Set(pos, p, "reopen") /\ UNCHANGED cb
       \/ pos' = Set(pos, p, "exit") /\ cb' = Set(cb, p, "stat")
    /\ UNCHANGED <<logs, lmfp, forks, lines, early>>

(* Mutant: the log of the process is opened only where there is none. *)
reopened_if_none(p) == IF lmfp[p] = NoLog THEN p ELSE lmfp[p]

(* The log that is open after _CHILD_CONT. *)
reopened(p) == p

(* lmg_release_log and lmg_init_log, which may fail. *)
reopen(p) ==
    /\ pos[p] = "reopen"
    /\ \/ lmfp' = Set(lmfp, p, reopened(p)) /\ pos' = Set(pos, p, "dispatch")
       \/ lmfp' = Set(lmfp, p, NoLog) /\ pos' = Set(pos, p, "exit")
    /\ UNCHANGED <<logs, cb, forks, lines, early>>

(* event_base_dispatch: libevent logs a line, or SIGINT ends the loop. *)
event_base_dispatch(p) ==
    /\ pos[p] = "dispatch"
    /\ \/ /\ lines[p] < MaxLines
          /\ lines' = Set(lines, p, lines[p] + 1) /\ cb' = Set(cb, p, "stat")
          /\ UNCHANGED pos
       \/ pos' = Set(pos, p, "exit") /\ UNCHANGED <<lines, cb>>
    /\ UNCHANGED <<logs, lmfp, forks, early>>

(* _EXIT_3: lmg_release_log. *)
exit_main(p) ==
    /\ pos[p] = "exit"
    /\ lmfp' = Set(lmfp, p, NoLog) /\ pos' = Set(pos, p, "gone")
    /\ UNCHANGED <<logs, cb, forks, lines, early>>

hydra(p) ==
    IF cb[p] # "out" THEN write_to_file_cb(p)
    ELSE fork(p) \/ event_reinit(p) \/ reopen(p) \/ event_base_dispatch(p) \/ exit_main(p)

HydraNext == \E p \in Processes : hydra(p)

HydraSpec == HydraInit /\ [][HydraNext]_hydraVars

-----------------------------------------------------------------------------
(* From its reopening on a process writes only to its own log, and its log *)
(* has no line of another one.  A log that one process writes is emptied   *)
(* only when it is full.  This is not so of test.log, which parent and     *)
(* children share from the fork to the reopening: one may empty it on the  *)
(* size it had before another one did.  No log gets longer than its limit  *)
(* by more than two lines, a mark and its own, for each other process that *)
(* can write it.                                                           *)
LogsOfTheirOwn ==
    /\ \A p \in Processes :
          /\ Range(logs[p]) \subseteq {Old, Clear, p}
          /\ pos[p] = "dispatch" => lmfp[p] = p
          /\ Len(logs[p]) <= log_max_size
    /\ early \subseteq {0}
    /\ Len(logs[0]) <= log_max_size + 2 * (WORK_PROCESSES_NUM - 1)

-----------------------------------------------------------------------------
(* The log of log.c.  Files are known by their length; a line fits into    *)
(* g_buffer.                                                               *)

CONSTANTS
    LogNames, NoName,
    FILE_MAX_SIZE,
    LineLengths,
    MaxLogLength               \* a bound on the length of a file

ASSUME LogFileAssumption ==
    NoName \notin LogNames /\ FILE_MAX_SIZE \in Nat /\ LineLengths \subseteq Nat

VARIABLES
    length,     \* of each file, or -1 where there is none
    log_fp,     \* the file that fp is open on
    g_filename,
    g_rotate,
    astray,     \* log_init was called with another name than g_filename after a rotation
    log_crash   \* fp was NULL in fwrite

logFileVars == <<length, log_fp, g_filename, g_rotate, astray, log_crash>>

LogFileInit ==
    /\ length \in [LogNames -> {-1}]
    /\ log_fp = NoName /\ g_filename = NoName /\ g_rotate = FALSE
    /\ astray = FALSE /\ log_crash = FALSE

-----------------------------------------------------------------------------
(* The name is kept when no rotation has been. *)
filename(name) == IF g_rotate THEN g_filename ELSE name

log_init(name) ==
    /\ ~log_crash
    /\ g_filename' = filename(name)
    /\ \/ /\ log_fp' = name
          /\ length' = [length EXCEPT ![name] = IF @ = -1 THEN 0 ELSE @]
       \/ log_fp' = NoName /\ UNCHANGED length
    /\ astray' = (astray \/ (g_rotate /\ name # g_filename))
    /\ UNCHANGED <<g_rotate, log_crash>>

log_close ==
    /\ ~log_crash
    /\ log_fp # NoName /\ log_fp' = NoName
    /\ UNCHANGED <<length, g_filename, g_rotate, astray, log_crash>>

get_file_size(name) == IF name = NoName \/ length[name] = -1 THEN 0 ELSE length[name]

(* The line goes to the file that is open. *)
write_line(n) ==
    /\ get_file_size(g_filename) <= FILE_MAX_SIZE
    /\ length' = [length EXCEPT ![log_fp] = @ + n]
    /\ UNCHANGED <<log_fp, g_filename, g_rotate, log_crash>>

(* unlink, fclose, a rename that fails for want of the file, log_init of   *)
(* g_filename, the line.                                                   *)
rotate(n) ==
    /\ get_file_size(g_filename) > FILE_MAX_SIZE
    /\ g_rotate' = TRUE
    /\ \/ /\ length' = [length EXCEPT ![g_filename] = n]
          /\ log_fp' = g_filename /\ UNCHANGED log_crash
       \/ /\ length' = [length EXCEPT ![g_filename] = -1]
          /\ log_fp' = NoName /\ log_crash' = TRUE
    /\ UNCHANGED g_filename

(* Without a file a line goes to stderr. *)
logw(n) ==
    /\ ~log_crash /\ log_fp # NoName
    /\ length[log_fp] + n <= MaxLogLength
    /\ write_line(n) \/ rotate(n)
    /\ UNCHANGED astray

LogFileNext ==
    \/ \E name \in LogNames : log_init(name)
    \/ log_close
    \/ \E n \in LineLengths : logw(n)

LogFileSpec == LogFileInit /\ [][LogFileNext]_logFileVars

-----------------------------------------------------------------------------
(* No file is longer than the limit by more than a line, unless log_init   *)
(* was called with a new name after a rotation: g_filename keeps the old   *)
(* one then, whose size is looked at while lines go to the new file.       *)
LogsBounded ==
    /\ ~astray => \A name \in LogNames : \A n \in LineLengths :
          (\A k \in LineLengths : k <= n) => length[name] <= FILE_MAX_SIZE + n
    /\ ~astray /\ log_fp # NoName => log_fp = g_filename
    /\ log_crash => g_rotate

-----------------------------------------------------------------------------
(* The two side by side. *)
LogsSpec == HydraSpec /\ LogFileSpec

(* Each process of hydra.c has its lines in its own log, which is emptied  *)
(* only when it is full, and the log of log.c does not outgrow its limit,  *)
(* unless it is given another name after a rotation.                       *)
LogsKept == LogsOfTheirOwn /\ LogsBounded
=============================================================================
