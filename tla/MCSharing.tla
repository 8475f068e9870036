----------------------------- MODULE MCSharing -----------------------------
(***************************************************************************)
(* Programs whose threads share data: the object cache of kernel/lock      *)
(* (ObjectCache), with two threads, two ids and room for two objects;      *)
(* multi.cpp over the C++ pool (Downloader), with two files of up to three *)
(* bytes cut every two; multithreaddownload.c (RangeDownload); the worker  *)
(* processes of hydra.c with their logs, and the log of log.c (LogFiles).  *)
(* A behaviour is one of one of them.                                      *)
(***************************************************************************)
EXTENDS ObjectCache, LogFiles, RangeDownload

CONSTANTS Workers, Jobs, urls_vec, seg_size, Lengths     \* of Downloader

VARIABLES
    program,
    shutdown, queue_job, cur_queue_size, queue_mutex, d_pc, job, mpc, new, added, missed,
    file_len, ji_vec, download_map, map_size, next_job, dpc, g_mutex, jpc,
    nmemb, received, reported, file, fpos, counted

Pool == INSTANCE Downloader WITH pc <- d_pc

ASSUME Pool!PoolAssumption /\ Pool!DownloaderAssumption

MCUrls == <<"a", "b">>
MCJobs == 1..4
MCLengths == {-1, 2, 3}
(* Bound: the two files are not both of three bytes, which would be four   *)
(* segments; two segments of one file and one of the other are enough for  *)
(* the workers to meet in.                                                 *)
ThreeSegments == file_len # [u \in Pool!Urls |-> 3]

MCFileLengths == {-1, 1, 2, 5}

OneUrl == <<"a">>
OneFileJobs == 1..3
OneFileLengths == {0, 1, 2, 5}

dVars == <<shutdown, queue_job, cur_queue_size, queue_mutex, d_pc, job, mpc, new, added, missed,
           file_len, ji_vec, download_map, map_size, next_job, dpc, g_mutex, jpc,
           nmemb, received, reported, file, fpos, counted>>
allVars == <<program, vars, dVars, rangeVars, hydraVars, logFileVars>>

InitSharing ==
    /\ program \in {"cache", "pool", "ranges", "hydra", "log"}
    /\ Init /\ Pool!DownloadInit /\ RangeInit /\ LogFileInit
    /\ HydraInit /\ (program # "hydra" => \A f \in Logs : logs[f] = <<>>)
    /\ program # "ranges" => fileLength = 1
    /\ ThreeSegments
    /\ program # "pool" => file_len = [u \in Pool!Urls |-> 2]

NextSharing ==
    /\ UNCHANGED program
    /\ \/ program = "cache" /\ Next /\ UNCHANGED <<dVars, rangeVars, hydraVars, logFileVars>>
       \/ program = "pool" /\ Pool!DownloadNext /\ UNCHANGED <<vars, rangeVars, hydraVars, logFileVars>>
       \/ program = "ranges" /\ RangeNext /\ UNCHANGED <<vars, dVars, hydraVars, logFileVars>>
       \/ program = "hydra" /\ HydraNext /\ UNCHANGED <<vars, dVars, rangeVars, logFileVars>>
       \/ program = "log" /\ LogFileNext /\ UNCHANGED <<vars, dVars, rangeVars, hydraVars>>

(* Each thread of a downloader that can run is scheduled.  A transfer      *)
(* ends: it is given up once it is slower than one byte a second for five  *)
(* seconds.                                                                *)
SpecSharing ==
    /\ InitSharing /\ [][NextSharing]_allVars
    /\ WF_dVars(program = "pool" /\ (Pool!main \/ (Pool!pool_call /\ Pool!in_pool)))
    /\ \A w \in Workers :
          WF_dVars(/\ program = "pool"
                   /\ Pool!job_process(w) \/ (Pool!thread_routine(w) /\ Pool!in_pool))
    /\ WF_rangeVars(program = "ranges" /\ download)
    /\ \A t \in RangeThreads : WF_rangeVars(program = "ranges" /\ workThread(t))

-----------------------------------------------------------------------------
(* The workers of multi.cpp share the position of each FILE: no byte is    *)
(* ever written where it does not belong, and what curl has handed over is *)
(* in the file; positions and counts stay in their types.  get_job_queue   *)
(* cuts a file into segments that cover it without overlap.                *)
BytesWhereTheyBelong ==
    program = "pool" => Pool!DownloadTypeOK /\ Pool!BytesInPlace /\ Pool!SegmentsPartition

(* Where every count started as the number of the url's jobs, main of      *)
(* multi.cpp leaves its watching loop, and clears the map without the      *)
(* lock, only when each job has reported: no decrement comes late.  The    *)
(* files outlive the workers: main closes them when each has exited.       *)
FinishMeansDoneIfCounted ==
    program = "pool" => Pool!FinishMeansDoneIfCounted /\ Pool!FilesOutliveWorkers

(* "统计所有的任务是否下载完成, 再准备退出" (multi.cpp:244): main goes on  *)
(* only when all tasks have been downloaded.                               *)
FinishMeansDone == Pool!FinishMeansDone

(* main of multi.cpp notices that all jobs are done, where the counts are  *)
(* right; download returns, if its threads could be created.               *)
DownloadsEnd == Pool!MonitorEndsIfCounted /\ (program = "ranges" => <>Returned)
=============================================================================
