------------------------------ MODULE LineEcho ------------------------------
(***************************************************************************)
(* Handle of go/count/count.go: one connection, which is read until a      *)
(* newline comes, and answered with the line in front of it.               *)
(***************************************************************************)
EXTENDS Integers, Sequences
LOCAL INSTANCE SequencesExt

CONSTANTS
    NewLine, Letters,   \* the bytes
    EchoBuf,            \* the length of buf, 1024 in the code
    MaxTyped            \* a bound on the bytes that the client sends

VARIABLES
    typed,      \* what the client has sent
    hangs,      \* "no", "closed" by the client, or "failed": Read fails
    taken,      \* the number of bytes that were read
    buf, got,   \* buf and data of Handle
    echo,       \* what was written back
    handling    \* "reading" or "closed"

echoVars == <<typed, hangs, taken, buf, got, echo, handling>>

EchoInit ==
    /\ typed = <<>> /\ hangs = "no" /\ taken = 0
    /\ buf = [k \in 1..EchoBuf |-> 0] /\ got = <<>> /\ echo = <<>> /\ handling = "reading"

types(b) ==
    /\ hangs = "no" /\ Len(typed) < MaxTyped
    /\ typed' = Append(typed, b)
    /\ UNCHANGED <<hangs, taken, buf, got, echo, handling>>

hangs_up ==
    /\ hangs = "no" /\ hangs' \in {"closed", "failed"}
    /\ UNCHANGED <<typed, taken, buf, got, echo, handling>>

-----------------------------------------------------------------------------
(* strings.Split(data, "\n")[0] *)
first_line(data) ==
    IF Contains(data, NewLine) THEN SubSeq(data, 1, (CHOOSE k \in DOMAIN data :
          data[k] = NewLine /\ \A j \in 1..(k - 1) : data[j] # NewLine) - 1)
    ELSE data

(* data = append(data, buf[:n]...) *)
take(n) == got \o SubSeq(typed, taken + 1, taken + n)

(* A read of n bytes leaves the rest of buf as it was, and the whole of    *)
(* buf is searched.  At the end of the stream n is 0 and io.EOF is let     *)
(* through: the loop goes round.                                           *)
read_some(n) ==
    /\ n <= Len(typed) - taken
    /\ n = 0 => taken = Len(typed) /\ hangs = "closed"
    /\ buf' = [k \in 1..EchoBuf |-> IF k <= n THEN typed[taken + k] ELSE buf[k]]
    /\ got' = take(n)
    /\ taken' = taken + n
    /\ IF \E k \in 1..EchoBuf : buf'[k] = NewLine
       THEN echo' = first_line(got') /\ handling' = "closed"
       ELSE UNCHANGED <<echo, handling>>

(* Any other error of Read ends Handle; a reset may drop what has come. *)
read_fails ==
    /\ hangs = "failed"
    /\ handling' = "closed"
    /\ UNCHANGED <<taken, buf, got, echo>>

Handle ==
    /\ handling = "reading"
    /\ read_fails \/ \E n \in 0..EchoBuf : read_some(n)
    /\ UNCHANGED <<typed, hangs>>

EchoNext == (\E b \in Letters \cup {NewLine} : types(b)) \/ hangs_up \/ Handle

-----------------------------------------------------------------------------
Answered == handling = "closed" /\ Contains(got, NewLine)

(* However its bytes come, a line is answered whole and without the ones   *)
(* behind it, although what is searched is the buffer with what earlier    *)
(* reads left there and what is answered comes from all reads.  A          *)
(* connection is closed without an answer only when Read failed: one that  *)
(* the client closed in the middle of a line is read on and on.            *)
FirstLineEchoed ==
    /\ handling = "closed" => Answered \/ hangs = "failed"
    /\ Answered => echo = first_line(typed)
    /\ handling = "reading" => ~Contains(got, NewLine) /\ got = SubSeq(typed, 1, taken)

(* A connection on which a line came, or Read failed, was closed. *)
EchoDone == Contains(typed, NewLine) \/ hangs = "failed" => handling = "closed"
=============================================================================
