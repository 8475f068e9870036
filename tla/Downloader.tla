----------------------------- MODULE Downloader -----------------------------
(***************************************************************************)
(* The multi-threaded downloader, socket/libcurl/pool/multi.cpp, on top of *)
(* the C++ worker pool.  The main thread cuts the files into segments,     *)
(* gives each one to the pool, and watches download_map until every count  *)
(* is zero; the workers run job_process.  Bytes are numbered by their      *)
(* place in the file, so that byte p belongs at position p.                *)
(***************************************************************************)
EXTENDS CThreadPool

CONSTANTS
    urls_vec,       \* the urls, without repetition
    seg_size,       \* the length at which a file is cut into segments
    Lengths         \* what get_download_file_length can answer

Urls == {urls_vec[i] : i \in 1..Len(urls_vec)}
MaxLength == CHOOSE n \in Lengths : \A k \in Lengths : k <= n

DownloaderAssumption ==
    /\ seg_size \in Nat \ {0}
    /\ IsFiniteSet(Lengths) /\ Lengths \subseteq Int /\ MaxLength > 0
    /\ Jobs = 1..(Len(urls_vec) * (1 + MaxLength \div seg_size))

VARIABLES
    file_len,       \* the length of each url; 0 or less where it could not be
                    \* had, or its local file not be opened
    ji_vec,         \* the JobInfo of each job: url, startPos, stopPos, ranged,
                    \* and from, the startPos it was made with
    download_map,   \* the url's count of segments still to come
    map_size, next_job,     \* main's local variables map_size and it
    dpc,            \* where main is, between its calls of the pool
    g_mutex,        \* the thread that holds it, or None
    jpc,            \* where each worker is in job_process
    nmemb,          \* the bytes write_data is called with, for each worker
    received,       \* the bytes of each job curl has handed over
    reported,       \* history: the jobs that have decremented their count
    file, fpos,     \* each file's bytes and its FILE's position
    counted         \* history: each count was the number of its jobs

transfer == <<nmemb, received, file, fpos>>
control == <<file_len, map_size, next_job, dpc, counted>>

-----------------------------------------------------------------------------
(* get_job_queue *)

additional(len) == IF len % seg_size = 0 THEN 0 ELSE 1

(* The number of segments written to the map; ranged is still what the     *)
(* files before this one made it.                                          *)
seg_total(len, ranged) ==
    IF ranged /\ len >= seg_size THEN len \div seg_size + additional(len) ELSE 1

Smaller(a, b) == IF a < b THEN a ELSE b

(* The jobs that are made for a file. *)
segments(url, len, ranged) ==
    [i \in 1..(IF len < seg_size THEN 1 ELSE len \div seg_size + additional(len)) |->
        [url |-> url,
         from |-> (i - 1) * seg_size,
         startPos |-> (i - 1) * seg_size,
         stopPos |-> Smaller(i * seg_size, len) - 1,
         ranged |-> ranged \/ len >= seg_size]]

(* One turn of the loop over urls_vec. *)
add_url(acc, url) ==
    LET len == file_len[url]
    IN  IF len <= 0
        THEN acc
        ELSE [ranged |-> acc.ranged \/ len >= seg_size,
              jobs |-> acc.jobs \o segments(url, len, acc.ranged),
              map |-> [u \in DOMAIN acc.map \cup {url} |->
                         IF u = url THEN seg_total(len, acc.ranged) ELSE acc.map[u]]]

JobsOf(url) == {j \in 1..Len(ji_vec) : ji_vec[j].url = url}

get_job_queue ==
    /\ dpc = "get_jobs" /\ mpc = "idle"
    /\ LET first[n \in 0..Len(urls_vec)] ==
               IF n = 0 THEN [ranged |-> FALSE, jobs |-> <<>>, map |-> <<>>]
               ELSE add_url(first[n - 1], urls_vec[n])
           q == first[Len(urls_vec)]
       IN  /\ ji_vec' = q.jobs
           /\ download_map' = q.map
           /\ counted' = \A u \in DOMAIN q.map : q.map[u] = Cardinality(JobsOf(u)')
    /\ dpc' = "submit"
    /\ UNCHANGED <<pool, transfer, file_len, map_size, next_job, g_mutex, jpc, reported>>

-----------------------------------------------------------------------------
(* job_process and write_data, run by worker w. *)

in_job(w, l) == at(w, "run") /\ jpc[w] = l
ji(w) == ji_vec[job[w]]

(* The bytes the server has for the job: those of its range, or the file.  *)
Size(j) == ji_vec[j].stopPos - ji_vec[j].from + 1

(* The file with k bytes, handed over in order, written where FILE stands. *)
fwrite(w, k) ==
    LET url == ji(w).url
        src == ji(w).from + received[job[w]]
    IN  /\ file' = [file EXCEPT ![url] =
                      [p \in DOMAIN @ |-> IF p \in fpos[url]..(fpos[url] + k - 1)
                                          THEN src + p - fpos[url] ELSE @[p]]]
        /\ fpos' = [fpos EXCEPT ![url] = @ + k]

(* Mutant: the mutex is not taken. *)
write_data_unlocked(w) ==
    /\ in_job(w, "perform") /\ ji(w).ranged
    /\ \E n \in 1..(Size(job[w]) - received[job[w]]) : nmemb' = [nmemb EXCEPT ![w] = n]
    /\ fpos' = [fpos EXCEPT ![ji(w).url] = ji(w).startPos]
    /\ jpc' = [jpc EXCEPT ![w] = "write"]
    /\ UNCHANGED <<pool, control, ji_vec, download_map, reported, g_mutex, file, received>>

(* curl calls write_data with n more bytes.  A ranged job locks g_mutex    *)
(* and seeks to startPos; another one writes where the FILE stands.        *)
write_data(w) ==
    /\ in_job(w, "perform")
    /\ \E n \in 1..(Size(job[w]) - received[job[w]]) :
         \/ /\ ji(w).ranged
            /\ g_mutex = None
            /\ g_mutex' = w
            /\ fpos' = [fpos EXCEPT ![ji(w).url] = ji(w).startPos]
            /\ nmemb' = [nmemb EXCEPT ![w] = n]
            /\ jpc' = [jpc EXCEPT ![w] = "write"]
            /\ UNCHANGED <<file, received>>
         \/ /\ ~ji(w).ranged
            /\ fwrite(w, n)
            /\ received' = [received EXCEPT ![job[w]] = @ + n]
            /\ UNCHANGED <<g_mutex, nmemb, jpc>>
    /\ UNCHANGED <<pool, control, ji_vec, download_map, reported>>

(* Mutant: the mutex is not released. *)
write_ranged_locked(w) ==
    LET n == nmemb[w]
        whole == ji(w).startPos + n <= ji(w).stopPos
        written == IF whole THEN n ELSE ji(w).stopPos - ji(w).startPos + 1
    IN  /\ in_job(w, "write")
        /\ fwrite(w, written)
        /\ ji_vec' = [ji_vec EXCEPT ![job[w]].startPos =
                         IF whole THEN @ + n ELSE ji(w).stopPos]
        /\ received' = [received EXCEPT ![job[w]] = @ + n]
        /\ nmemb' = [nmemb EXCEPT ![w] = 0]
        /\ jpc' = [jpc EXCEPT ![w] = IF written = n THEN "perform" ELSE "report"]
        /\ UNCHANGED <<pool, control, download_map, reported, g_mutex>>

(* The rest of a ranged write_data: fwrite, advance startPos, unlock.      *)
(* A short count makes curl give the transfer up.                          *)
write_ranged(w) ==
    LET n == nmemb[w]
        whole == ji(w).startPos + n <= ji(w).stopPos
        written == IF whole THEN n ELSE ji(w).stopPos - ji(w).startPos + 1
    IN  /\ in_job(w, "write")
        /\ fwrite(w, written)
        /\ ji_vec' = [ji_vec EXCEPT ![job[w]].startPos =
                         IF whole THEN @ + n ELSE ji(w).stopPos]
        /\ received' = [received EXCEPT ![job[w]] = @ + n]
        /\ nmemb' = [nmemb EXCEPT ![w] = 0]
        /\ g_mutex' = None
        /\ jpc' = [jpc EXCEPT ![w] = IF written = n THEN "perform" ELSE "report"]
        /\ UNCHANGED <<pool, control, download_map, reported>>

(* curl_easy_perform returns: all bytes have come, or the transfer failed. *)
(* A failure is printed and nothing more.                                  *)
perform_returns(w) ==
    /\ in_job(w, "perform")
    /\ jpc' = [jpc EXCEPT ![w] = "report"]
    /\ UNCHANGED <<pool, transfer, control, ji_vec, download_map, g_mutex, reported>>

(* download_map[url]-- under g_mutex, which makes the entry if there is    *)
(* none; job_process returns to the pool.                                  *)
report(w) ==
    LET url == ji(w).url
    IN  /\ in_job(w, "report")
        /\ g_mutex = None
        /\ download_map' = [u \in DOMAIN download_map \cup {url} |->
              IF u # url THEN download_map[u]
              ELSE IF u \in DOMAIN download_map THEN download_map[u] - 1 ELSE -1]
        /\ reported' = reported \cup {job[w]}
        /\ jpc' = [jpc EXCEPT ![w] = "perform"]
        /\ worker_run(w)
        /\ UNCHANGED <<transfer, control, ji_vec, g_mutex>>

job_process(w) == write_data(w) \/ write_ranged(w) \/ perform_returns(w) \/ report(w)

-----------------------------------------------------------------------------
(* main, between its calls of the pool. *)

keepJobs == UNCHANGED <<transfer, ji_vec, jpc, reported>>

(* One turn of the loop that adds the jobs. *)
submit ==
    /\ dpc = "submit"
    /\ next_job <= Len(ji_vec)
    /\ pool_add_job(next_job)
    /\ next_job' = next_job + 1
    /\ UNCHANGED <<file_len, map_size, dpc, counted, download_map, g_mutex>> /\ keepJobs

read_map_size ==
    /\ dpc = "submit" /\ mpc = "idle"
    /\ next_job > Len(ji_vec)
    /\ map_size' = Cardinality(DOMAIN download_map)
    /\ dpc' = "monitor"
    /\ UNCHANGED <<pool, file_len, next_job, counted, download_map, g_mutex>> /\ keepJobs

(* Mutant: main takes a count of one for a finished file. *)
monitor_early ==
    /\ dpc = "monitor"
    /\ g_mutex = None
    /\ Cardinality({u \in DOMAIN download_map : download_map[u] <= 1}) = map_size
    /\ dpc' = "clear"
    /\ UNCHANGED <<pool, file_len, map_size, next_job, counted, download_map, g_mutex>>
    /\ keepJobs

(* The turn of the watching loop that finds every count zero.  Any other   *)
(* turn changes nothing and sleeps; a count that was zero in between is    *)
(* not noticed.                                                            *)
monitor ==
    /\ dpc = "monitor"
    /\ g_mutex = None
    /\ Cardinality({u \in DOMAIN download_map : download_map[u] = 0}) = map_size
    /\ dpc' = "clear"
    /\ UNCHANGED <<pool, file_len, map_size, next_job, counted, download_map, g_mutex>>
    /\ keepJobs

(* download_map.clear(), without the lock. *)
clear_map ==
    /\ dpc = "clear"
    /\ download_map' = <<>>
    /\ dpc' = "delete"
    /\ UNCHANGED <<pool, file_len, map_size, next_job, counted, g_mutex>> /\ keepJobs

delete_pool ==
    /\ dpc = "delete"
    /\ destructor
    /\ dpc' = "close"
    /\ UNCHANGED <<file_len, map_size, next_job, counted, download_map, g_mutex>>
    /\ keepJobs

(* After the destructor: every file is closed, and main returns. *)
close_files ==
    /\ dpc = "close" /\ mpc = "returned"
    /\ dpc' = "closed"
    /\ UNCHANGED <<pool, file_len, map_size, next_job, counted, download_map, g_mutex>>
    /\ keepJobs

-----------------------------------------------------------------------------
DownloadInit ==
    /\ Init
    /\ file_len \in [Urls -> Lengths]
    /\ ji_vec = <<>>
    /\ download_map = <<>>
    /\ map_size = 0
    /\ next_job = 1
    /\ dpc = "get_jobs"
    /\ g_mutex = None
    /\ jpc = [w \in Workers |-> "perform"]
    /\ nmemb = [w \in Workers |-> 0]
    /\ received = [j \in Jobs |-> 0]
    /\ reported = {}
    /\ file = [u \in Urls |-> [p \in 0..(MaxLength - 1) |-> None]]
    /\ fpos = [u \in Urls |-> 0]
    /\ counted = FALSE

in_pool ==
    /\ pool_call \/ \E w \in Workers : thread_routine(w) \/ spurious_wakeup(w)
    /\ UNCHANGED <<transfer, control, ji_vec, download_map, g_mutex, jpc, reported>>

main == get_job_queue \/ submit \/ read_map_size \/ monitor \/ clear_map
        \/ delete_pool \/ close_files

DownloadNext == in_pool \/ main \/ \E w \in Workers : job_process(w)

-----------------------------------------------------------------------------
(* Properties *)

JobInfo == [url : Urls, from : Nat, startPos : Nat, stopPos : Nat, ranged : BOOLEAN]

(* The types of the state of the pool and of the program. *)
DownloadTypeOK ==
    /\ TypeOK
    /\ file_len \in [Urls -> Lengths]
    /\ \A j \in 1..Len(ji_vec) : j \in Jobs /\ ji_vec[j] \in JobInfo
    /\ \A u \in DOMAIN download_map : u \in Urls /\ download_map[u] \in Int
    /\ map_size \in Nat
    /\ next_job \in 1..(Len(ji_vec) + 1)
    /\ dpc \in {"get_jobs", "submit", "monitor", "clear", "delete", "close", "closed"}
    /\ g_mutex \in Workers \cup {None}
    /\ jpc \in [Workers -> {"perform", "write", "report"}]
    /\ nmemb \in [Workers -> Nat]
    /\ received \in [Jobs -> Nat]
    /\ reported \subseteq Jobs
    /\ file \in [Urls -> [0..(MaxLength - 1) -> (0..(MaxLength - 1)) \cup {None}]]
    /\ fpos \in [Urls -> Nat]
    /\ counted \in BOOLEAN

(* The threads that write to one file share its position: fseek and fwrite *)
(* of different segments interleave.  No byte ever lands where it does not *)
(* belong, and the bytes of a segment that curl has handed over are in the *)
(* file, down to the last one, stopPos included.                           *)
BytesInPlace ==
    /\ \A u \in Urls : \A p \in DOMAIN file[u] : file[u][p] \in {None, p}
    /\ \A j \in 1..Len(ji_vec) :
         (\A w \in Workers : job[w] = j => jpc[w] # "write") =>
             \A p \in ji_vec[j].from..(ji_vec[j].from + received[j] - 1) :
                 file[ji_vec[j].url][p] = p

(* The segments of a file cover it without overlap. *)
SegmentsPartition ==
    dpc # "get_jobs" =>
        \A u \in Urls : \A p \in 0..(file_len[u] - 1) :
            \E j \in JobsOf(u) :
                /\ p \in ji_vec[j].from..ji_vec[j].stopPos
                /\ \A k \in JobsOf(u) \ {j} : p \notin ji_vec[k].from..ji_vec[k].stopPos

(* Where every count started as the number of the url's jobs, main leaves  *)
(* the watching loop, and clears the map without the lock, only when each  *)
(* job has reported: no decrement comes late.                              *)
FinishMeansDoneIfCounted ==
    (counted /\ dpc \in {"clear", "delete", "close", "closed"}) =>
        reported = 1..Len(ji_vec)

(* The files are closed after the pool is deleted; no worker is then in    *)
(* job_process, or can come to be.                                         *)
FilesOutliveWorkers ==
    dpc = "closed" => \A w \in Workers : at(w, "exited")

(* Where the counts are right, main notices that all jobs are done.        *)
MonitorEndsIfCounted == (counted /\ dpc = "monitor") ~> (dpc = "delete")

(* "count whether all tasks have been downloaded, and then prepare to      *)
(* exit" (multi.cpp, line 244), and "finish all task" (line 258).          *)
FinishMeansDone == dpc \in {"clear", "delete"} => reported = 1..Len(ji_vec)
=============================================================================
