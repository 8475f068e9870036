----------------------------- MODULE AppendLog -----------------------------
(***************************************************************************)
(* What gzlog promises its callers: a log to which whole messages are      *)
(* added.  A message that a call is writing is in the log at once or not   *)
(* at all, also when the writer is interrupted, and a call that returned   *)
(* has its message there.  After damage from outside (an error of the file *)
(* system, or foo.add deleted by someone else) the log may lose messages.  *)
(***************************************************************************)
EXTENDS Integers, Sequences

CONSTANT Messages   \* the messages, sequences of data without common elements

VARIABLES
    log,        \* the data in the log
    writing,    \* the messages that calls have begun to write,
    acked,      \* and those of calls that have returned
    hurt        \* damage from outside has happened

vars == <<log, writing, acked, hurt>>

Init == log = <<>> /\ writing = {} /\ acked = {} /\ hurt = FALSE

Begin(m) ==
    /\ m \notin writing
    /\ writing' = writing \cup {m}
    /\ UNCHANGED <<log, acked, hurt>>

Add(m) ==
    /\ m \in writing
    /\ \A i \in 1..Len(log) : log[i] # m[1]
    /\ log' = log \o m
    /\ UNCHANGED <<writing, acked, hurt>>

Return(m) ==
    /\ \E i \in 1..Len(log) - Len(m) + 1 : SubSeq(log, i, i + Len(m) - 1) = m
    /\ acked' = acked \cup {m}
    /\ UNCHANGED <<log, writing, hurt>>

Damage ==
    /\ hurt'
    /\ writing \subseteq writing' /\ acked \subseteq acked'

Next == Damage \/ \E m \in Messages : Begin(m) \/ Add(m) \/ Return(m)

Spec == Init /\ [][Next]_vars
=============================================================================
