------------------------------- MODULE MCZlib -------------------------------
(***************************************************************************)
(* The programs under zlib/ that keep data in files: gzlog.c, its log      *)
(* (GzLog) and its lock file (GzLock); the gz* calls of zlib, reading      *)
(* (GzRead) and writing (GzWrite); and gzip (GzipFile).  A behaviour is    *)
(* one of one of them.                                                     *)
(***************************************************************************)
EXTENDS GzLog, GzLock, GzipFile

CONSTANTS
    Size, Lens, Offsets, MaxPos, Pushed,    \* of GzRead
    Buffer, MaxOffset, MaxFile              \* of GzWrite

VARIABLES
    program,
    file, s, last, over,
    w, written, closed

MCTexts == {<<1>>, <<2, 3, 4>>}
MCContents == {<<"good">>, <<"good", "garbage">>, <<"good", "unknown">>, <<"refused">>}

Reading == INSTANCE GzRead
Writing == INSTANCE GzWrite WITH Texts <- MCTexts

(* Raw files, members of no, one and several buffers, one after another,   *)
(* cut off, or followed by other bytes; damaged data and a failing disk.   *)
gzip(data) == Reading!Magic \o data \o <<Reading!EndOfStream>>
MCFiles == {
    <<>>, <<31>>, <<1, 10, 2, 3, 1, 2, 3>>, <<1, 2, 3, Reading!ReadError>>,
    gzip(<<1, 2, 10, 3, 1, 2>>), gzip(<<1>>) \o gzip(<<>>) \o gzip(<<2, 10, 3>>),
    gzip(<<1, 2>>) \o <<7, 7>>, Reading!Magic \o <<1, 2>>,
    gzip(<<1, 2>>) \o Reading!Magic \o <<3, Reading!BadData>>}

MCOldDicts == {None, <<Old>>}
NoOldDict == {None}
MCMessages == {<<1>>, <<2, 3, 4>>}

rVars == <<file, s, last, over>>
wVars == <<w, written, closed>>
allVars == <<program, vars, lockVars, rVars, wVars, gzipVars>>

InitZlib ==
    /\ program \in {"log", "lock", "read", "write", "gzip"}
    /\ Init /\ (program # "log" => disk.dict = None)
    /\ LockInit
    /\ IF program = "read" THEN Reading!ReadInit(MCFiles) ELSE Reading!ReadInit({<<>>})
    /\ Writing!WriteInit /\ (program # "write" => w.direct)
    /\ GzipInit
    /\ program # "gzip" =>
          /\ ~options.decompress /\ ~options.force /\ ~options.to_stdout
          /\ \A f \in 1..FileCount : stat[f] = "regular" /\ suffix[f] /\ ofile[f] = "absent"

(* Bound: a second fault comes while a first one is being recovered from,  *)
(* or after an error.                                                      *)
notAgain == faults' > 1 /\ faults' > faults => hurt \/ \E p \in Procs : proc[p].rec

NextZlib ==
    /\ UNCHANGED program
    /\ \/ program = "log" /\ Next /\ notAgain /\ UNCHANGED <<lockVars, rVars, wVars, gzipVars>>
       \/ program = "lock" /\ LockNext /\ UNCHANGED <<vars, rVars, wVars, gzipVars>>
       \/ program = "read" /\ Reading!ReadNext /\ UNCHANGED <<vars, lockVars, wVars, gzipVars>>
       \/ program = "write" /\ Writing!WriteNext /\ UNCHANGED <<vars, lockVars, rVars, gzipVars>>
       \/ program = "gzip" /\ GzipNext /\ UNCHANGED <<vars, lockVars, rVars, wVars>>

(* A process that has the lock of a log goes on. *)
SpecZlib == InitZlib /\ [][NextZlib]_allVars /\ \A p \in Procs : WF_vars(program = "log" /\ works(p))

-----------------------------------------------------------------------------
(* Whatever a file holds and however the gz* calls that read it are mixed, *)
(* each returns the bytes at the position that gztell reports, as many as  *)
(* were asked for or are left; a seek lands on its offset; a byte that was *)
(* pushed back is the next one read; only a damaged file makes a call      *)
(* fail.  Set apart are two calls that gzread.c has no right answer for:   *)
(* gzgetc with a skip request pending, and gzungetc before any read.       *)
ReadsTheStream == Reading!Stream!StreamSpec

(* A closed file reads back as what gzwrite, gzputc and gzprintf were      *)
(* given, each text at the offset that gztell reported, with zeros where   *)
(* gzseek went ahead, however it was buffered and flushed.                 *)
WrittenIsReadBack == program = "write" => Writing!WrittenIsReadBack
=============================================================================
