------------------------------ MODULE GzipFile ------------------------------
(***************************************************************************)
(* gzip.c of gzip-1.5: main calls treat_file for each of the files it is   *)
(* given, which makes an output file, writes it and removes the input.  A  *)
(* signal that is caught comes between any two steps, unless it is blocked;*)
(* it removes the output that is being written.  The process may also be   *)
(* killed.                                                                 *)
(*                                                                         *)
(* Of a compressed file the model has the members: "good", or what is      *)
(* wrong with one: "bad" data; a header that get_method refuses            *)
(* ("unknown"); data that work refuses ("refused", LZW of more than 16     *)
(* bits); or no header at all ("garbage").                                 *)
(***************************************************************************)
EXTENDS Integers, Sequences

CONSTANTS
    FileCount,      \* the files on the command line are 1..FileCount
    Contents        \* a bound on what the files hold: sequences of members

Files == 1..FileCount

(* get_method looks at what comes first in a file, if only to refuse it. *)
ASSUME GzipAssumption ==
    /\ FileCount \in Nat \ {0}
    /\ Contents \subseteq Seq({"good", "bad", "unknown", "refused", "garbage"}) \ {<<>>}

VARIABLES
    options,            \* decompress, force, to_stdout
    stat,               \* of each file: "regular", "linked" or "special"
    suffix,             \* whether its name ends in .gz
    members,            \* what it holds
    ifile,              \* whether it is there
    ofile,              \* its output: "absent", "old", "partial" or "whole"
    current,            \* the file treated
    stage,              \* where treat_file is; or "done", "aborted", "killed"
    part_nb,            \* the members read
    method,             \* -1 after a failure
    remove_ofname_fd    \* whether it is set

gzipVars == <<options, stat, suffix, members, ifile, ofile, current, stage, part_nb, method, remove_ofname_fd>>
inputVars == <<options, stat, suffix, members>>

GzipInit ==
    /\ options \in [decompress : BOOLEAN, force : BOOLEAN, to_stdout : BOOLEAN]
    /\ stat \in [Files -> {"regular", "linked", "special"}]
    /\ suffix \in [Files -> BOOLEAN]
    /\ members \in [Files -> IF options.decompress THEN Contents ELSE {<<"good">>}]
    /\ ifile = [f \in Files |-> TRUE]
    /\ ofile \in [Files -> {"absent", "old"}]
    /\ current = 1 /\ stage = "treat" /\ part_nb = 0 /\ method = 0 /\ remove_ofname_fd = FALSE

-----------------------------------------------------------------------------
next_file ==
    /\ current' = current + 1 /\ part_nb' = 0 /\ method' = 0
    /\ stage' = IF current = FileCount THEN "done" ELSE "treat"

(* The files treat_file and make_ofname leave alone. *)
ignored(f) ==
    \/ ~options.to_stdout /\ stat[f] = "special"
    \/ ~options.to_stdout /\ ~options.force /\ stat[f] = "linked"
    \/ ~options.to_stdout /\ options.decompress /\ ~suffix[f]
    \/ ~options.to_stdout /\ ~options.decompress /\ suffix[f] /\ ~options.force

(* What get_method returns for member n. *)
get_method(f, n) ==
    CASE members[f][n] = "unknown" -> -1
      [] members[f][n] = "garbage" -> IF n = 1 THEN -1 ELSE -2
      [] OTHER -> 8

(* treat_file up to create_outfile.  A file that cannot be opened is left. *)
treat_file ==
    /\ stage = "treat"
    /\ \/ next_file
       \/ /\ ~ignored(current)
          /\ ~(options.decompress /\ get_method(current, 1) < 0)
          /\ stage' = IF options.to_stdout THEN "work" ELSE "create"
          /\ part_nb' = 1
          /\ UNCHANGED <<current, method>>
    /\ UNCHANGED <<inputVars, ifile, ofile, remove_ofname_fd>>

(* Mutant: signals are not blocked, and one comes after the open. *)
create_outfile_unblocked ==
    /\ stage = "create"
    /\ ofile[current] = "absent"
    /\ ofile' = [ofile EXCEPT ![current] = "partial"]
    /\ \/ remove_ofname_fd' = TRUE /\ stage' = "work"
       \/ remove_ofname_fd' = FALSE /\ stage' = "aborted"
    /\ UNCHANGED <<inputVars, ifile, current, part_nb, method>>

(* create_outfile: the open and the assignment with signals blocked.       *)
create_outfile ==
    /\ stage = "create"
    /\ \/ /\ ofile[current] = "absent"
          /\ ofile' = [ofile EXCEPT ![current] = "partial"]
          /\ remove_ofname_fd' = TRUE /\ stage' = "work"
          /\ UNCHANGED <<current, part_nb, method>>
       \/ /\ ofile[current] # "absent"
          /\ stage' = "exists"
          /\ UNCHANGED <<ofile, remove_ofname_fd, current, part_nb, method>>
       \/ next_file /\ UNCHANGED <<ofile, remove_ofname_fd>>
    /\ UNCHANGED <<inputVars, ifile>>

(* The user may be asked whether the file is overwritten. *)
check_ofname ==
    /\ stage = "exists"
    /\ \/ /\ ofile' = [ofile EXCEPT ![current] = "absent"]
          /\ stage' = "create"
          /\ UNCHANGED <<current, part_nb, method>>
       \/ next_file /\ UNCHANGED ofile
    /\ UNCHANGED <<inputVars, ifile, remove_ofname_fd>>

-----------------------------------------------------------------------------
remove_output_file ==
    /\ ofile' = IF remove_ofname_fd THEN [ofile EXCEPT ![current] = "absent"] ELSE ofile
    /\ remove_ofname_fd' = FALSE

abort_gzip ==
    /\ remove_output_file
    /\ stage' = "aborted"
    /\ UNCHANGED <<current, part_nb, method>>

(* The loop over the members: work on one, and get_method of the next.     *)
(* What can be neither read nor written ends the program.                  *)
work ==
    LET member == members[current][part_nb]
        last   == part_nb = Len(members[current])
        next   == IF last THEN 8 ELSE get_method(current, part_nb + 1) IN
    /\ stage = "work"
    /\ \/ abort_gzip
       \/ /\ member = "refused"
          /\ method' = -1 /\ stage' = "close"
          /\ UNCHANGED <<ofile, part_nb, remove_ofname_fd, current>>
       \/ /\ member = "good" /\ ~last /\ next >= 0
          /\ part_nb' = part_nb + 1
          /\ UNCHANGED <<ofile, stage, method, remove_ofname_fd, current>>
       \/ /\ member = "good" /\ (last \/ next < 0)
          /\ method' = next /\ stage' = "close"
          /\ ofile' = IF options.to_stdout \/ next = -1 THEN ofile ELSE [ofile EXCEPT ![current] = "whole"]
          /\ UNCHANGED <<part_nb, remove_ofname_fd, current>>
    /\ UNCHANGED <<inputVars, ifile>>

(* The close of both files, copy_stat in between. *)
close_files ==
    /\ stage = "close"
    /\ \/ abort_gzip
       \/ /\ ~options.to_stdout /\ stage' = "unlink"
          /\ UNCHANGED <<ofile, remove_ofname_fd, current, part_nb, method>>
       \/ /\ options.to_stdout /\ next_file
          /\ UNCHANGED <<ofile, remove_ofname_fd>>
    /\ UNCHANGED <<inputVars, ifile>>

(* The input is removed, with signals blocked, also after a failure; the   *)
(* output is no longer known to remove_output_file.  The unlink may fail.  *)
unlink_input ==
    /\ stage = "unlink"
    /\ remove_ofname_fd' = FALSE
    /\ \E removed \in BOOLEAN : ifile' = [ifile EXCEPT ![current] = ~removed]
    /\ stage' = "end"
    /\ UNCHANGED <<inputVars, ofile, current, part_nb, method>>

(* The end of treat_file: remove_output_file after a failure. *)
treat_file_ends ==
    /\ stage = "end"
    /\ IF method = -1 THEN remove_output_file ELSE UNCHANGED <<ofile, remove_ofname_fd>>
    /\ next_file
    /\ UNCHANGED <<inputVars, ifile>>

-----------------------------------------------------------------------------
ended == stage \in {"done", "aborted", "killed"}

abort_gzip_signal ==
    /\ ~ended
    /\ abort_gzip
    /\ UNCHANGED <<inputVars, ifile>>

kill ==
    /\ ~ended
    /\ stage' = "killed"
    /\ UNCHANGED <<inputVars, ifile, ofile, current, part_nb, method, remove_ofname_fd>>

GzipNext ==
    \/ treat_file \/ create_outfile \/ check_ofname \/ work \/ close_files \/ unlink_input
    \/ treat_file_ends \/ abort_gzip_signal \/ kill

GzipSpec == GzipInit /\ [][GzipNext]_gzipVars

-----------------------------------------------------------------------------
Failed(f) == \E n \in DOMAIN members[f] : members[f][n] \in {"unknown", "refused"}

(* At every moment, and whatever ends the program, the data of a file is   *)
(* in the file itself or whole in its output, and half an output is left   *)
(* only where the process was killed: unless a member was refused, in      *)
(* which case treat_file goes on as if all had been well.                  *)
DataKept ==
    \A f \in Files :
        \/ Failed(f)
        \/ /\ ifile[f] \/ ofile[f] = "whole"
           /\ stage \in {"done", "aborted"} => ofile[f] # "partial"

(* "method = -1; /* force cleanup */" (gzip.c:834): of a file that was     *)
(* refused no half output is left when the program ends by itself.         *)
CleanedUp == stage = "done" => \A f \in Files : ofile[f] # "partial"
=============================================================================
