---------------------------- MODULE ReadyServers ----------------------------
(***************************************************************************)
(* Three servers that read from many clients with one thread around one    *)
(* readiness call: socket/epoll_banu.c (epoll_test2.c has the same loop)   *)
(* with edge-triggered epoll and sockets that do not block; selecttest.c   *)
(* and polltest.c with a table of clients and sockets that block.  style   *)
(* is the one that runs.                                                   *)
(***************************************************************************)
EXTENDS Integers, FiniteSets

CONSTANTS
    Visitors, NoVisitor, Listen,    \* the clients, none, and the listening socket
    BACKLOG,                        \* a bound on the size of the table
    BUFLEN, REVLEN,                 \* the sizes of buf of epoll_banu.c and of recvBuf
    MaxSend                         \* a bound on the bytes a client sends

ASSUME ReadyAssumption ==
    /\ BACKLOG \in Nat \ {0} /\ BUFLEN \in Nat \ {0} /\ REVLEN \in Nat \ {0} /\ MaxSend \in Nat
    /\ NoVisitor \notin Visitors /\ Listen \notin Visitors \cup {NoVisitor}

VARIABLES
    style,          \* "epoll", "select" or "poll"
    conn,           \* of each client: "none", "waiting" to be accepted, "open",
                    \* "closed", or "lost": accepted without a place in the table
    sends, reads,   \* the bytes it has sent, and those read of them
    ended,          \* whether it goes on ("no"), has closed ("fin") or reset ("rst")
    edges,          \* what epoll has to report
    batch,          \* what the last wait reported and is not worked off
    doing,          \* where the loop is: at; of, the client; slot, its place
    recvLen,
    table, sockMax, \* the clients by place, and the highest place polled
    refused         \* accept has failed in epoll_banu.c, which does not try again

readyVars == <<style, conn, sends, reads, ended, edges, batch, doing, recvLen, table, sockMax, refused>>

Slots == DOMAIN table
Idle(at) == [at |-> at, of |-> NoVisitor, slot |-> 0]
Unread(c) == sends[c] - reads[c]
Queue == {c \in Visitors : conn[c] = "waiting"}
HasNews(c) == Unread(c) > 0 \/ ended[c] # "no"

ReadyInit ==
    /\ style \in {"epoll", "select", "poll"}
    /\ conn = [c \in Visitors |-> "none"] /\ ended = [c \in Visitors |-> "no"]
    /\ sends = [c \in Visitors |-> 0] /\ reads = [c \in Visitors |-> 0]
    /\ edges = {} /\ batch = {} /\ doing = Idle("wait") /\ recvLen = 0
    /\ \E size \in IF style = "epoll" THEN {0} ELSE 1..BACKLOG : table = [i \in 1..size |-> NoVisitor]
    /\ sockMax = 0 /\ refused = FALSE

-----------------------------------------------------------------------------
(* The clients, and what the kernel notes for epoll.  A reset drops what   *)
(* was not read.                                                           *)
visitors_keep == UNCHANGED <<style, reads, batch, doing, recvLen, table, sockMax, refused>>
noted(c) == edges' = IF style = "epoll" /\ conn[c] = "open" THEN edges \cup {c} ELSE edges
there(c) == conn[c] \in {"waiting", "open"} /\ ended[c] = "no"

connects(c) ==
    /\ conn[c] = "none"
    /\ conn' = [conn EXCEPT ![c] = "waiting"] /\ edges' = IF style = "epoll" THEN edges \cup {Listen} ELSE edges
    /\ UNCHANGED <<sends, ended>> /\ visitors_keep

sends_on(c) ==
    /\ there(c)
    /\ \E n \in 1..(MaxSend - sends[c]) : sends' = [sends EXCEPT ![c] = @ + n]
    /\ noted(c) /\ UNCHANGED <<conn, ended>> /\ visitors_keep

ends(c) ==
    /\ there(c)
    /\ \E how \in {"fin", "rst"} : ended' = [ended EXCEPT ![c] = how]
    /\ noted(c) /\ UNCHANGED <<conn, sends>> /\ visitors_keep

-----------------------------------------------------------------------------
(* epoll_banu.c.  Descriptors are closed when the end is read. *)
epoll_keep == UNCHANGED <<style, sends, ended, recvLen, table, sockMax>>
worked_off(rest) == doing' = Idle(IF rest = {} THEN "wait" ELSE "events")
(* Mutant: what epoll has to report of a closed descriptor stays. *)
closes_reported(c) == conn' = [conn EXCEPT ![c] = "closed"] /\ UNCHANGED edges

closes(c) == conn' = [conn EXCEPT ![c] = "closed"] /\ edges' = edges \ {c}

epoll_wait ==
    /\ style = "epoll" /\ doing.at = "wait" /\ edges # {}
    /\ batch' = {[of |-> e, hup |-> e # Listen /\ ended[e] = "rst"] : e \in edges}
    /\ edges' = {} /\ doing' = Idle("events")
    /\ UNCHANGED <<conn, reads, refused>> /\ epoll_keep

event(e) ==
    /\ doing.at = "events"
    /\ batch' = batch \ {e}
    /\ \/ e.hup /\ closes(e.of) /\ worked_off(batch')
       \/ e.of = Listen /\ doing' = Idle("accept") /\ UNCHANGED <<conn, edges>>
       \/ /\ ~e.hup /\ e.of # Listen
          /\ doing' = [at |-> "read", of |-> e.of, slot |-> 0] /\ UNCHANGED <<conn, edges>>
    /\ UNCHANGED <<reads, refused>> /\ epoll_keep

(* Until accept says EAGAIN, or fails.  A socket that has something to     *)
(* read when it is added is reported at once.                              *)
accept_all ==
    /\ style = "epoll" /\ doing.at = "accept"
    /\ \/ \E c \in Queue :
            /\ conn' = [conn EXCEPT ![c] = "open"]
            /\ edges' = IF HasNews(c) THEN edges \cup {c} ELSE edges
            /\ UNCHANGED <<doing, refused>>
       \/ Queue = {} /\ worked_off(batch) /\ UNCHANGED <<conn, edges, refused>>
       \/ Queue # {} /\ refused' = TRUE /\ worked_off(batch) /\ UNCHANGED <<conn, edges>>
    /\ UNCHANGED <<reads, batch>> /\ epoll_keep

(* Mutant: one read for a report. *)
read_once ==
    LET c == doing.of IN
    /\ doing.at = "read"
    /\ \/ /\ ended[c] # "rst" /\ Unread(c) > 0
          /\ reads' = [reads EXCEPT ![c] = IF Unread(c) < BUFLEN THEN sends[c] ELSE @ + BUFLEN]
          /\ worked_off(batch) /\ UNCHANGED <<conn, edges>>
       \/ /\ ended[c] = "rst" \/ Unread(c) = 0
          /\ closes(c) /\ worked_off(batch) /\ UNCHANGED reads
    /\ UNCHANGED <<batch, refused>> /\ epoll_keep

(* Until read says EAGAIN, or the end. *)
read_all ==
    LET c == doing.of IN
    /\ doing.at = "read"
    /\ \/ /\ ended[c] # "rst" /\ Unread(c) > 0
          /\ reads' = [reads EXCEPT ![c] = IF Unread(c) < BUFLEN THEN sends[c] ELSE @ + BUFLEN]
          /\ UNCHANGED <<conn, edges, doing>>
       \/ /\ Unread(c) = 0 /\ ended[c] = "no"
          /\ worked_off(batch) /\ UNCHANGED <<conn, edges, reads>>
       \/ /\ ended[c] = "rst" \/ (Unread(c) = 0 /\ ended[c] = "fin")
          /\ closes(c) /\ worked_off(batch) /\ UNCHANGED reads
    /\ UNCHANGED <<batch, refused>> /\ epoll_keep

-----------------------------------------------------------------------------
(* selecttest.c and polltest.c: the first reads, then accepts one client,  *)
(* the second the other way round.                                         *)
table_keep == UNCHANGED <<style, sends, ended, edges>>

(* On to the next place behind i that was reported. *)
next_slot(i, reported) ==
    LET left == {j \in Slots : j > i /\ table'[j] \in reported}
        j    == CHOOSE k \in left : \A l \in left : k <= l IN
    IF left # {}
    THEN /\ doing' = [at |-> "recv", of |-> table'[j], slot |-> j]
         /\ batch' = {table'[k] : k \in left \ {j}} \cup (reported \cap {Listen})
    ELSE /\ doing' = Idle(IF style = "select" /\ Listen \in reported THEN "accept" ELSE "wait")
         /\ batch' = {}

select ==
    LET reported == {c \in Visitors : HasNews(c) /\ \E i \in Slots : table[i] = c}
                    \cup (IF Queue # {} THEN {Listen} ELSE {}) IN
    /\ style # "epoll" /\ doing.at = "wait" /\ reported # {}
    /\ UNCHANGED table
    /\ IF style = "poll" /\ Listen \in reported THEN doing' = Idle("accept") /\ batch' = reported
       ELSE next_slot(0, reported)
    /\ UNCHANGED <<conn, reads, recvLen, sockMax, refused>> /\ table_keep

(* The first free place is taken.  polltest.c looks at the revents of a    *)
(* new place also if poll has never set them; with no place free it ends,  *)
(* and selecttest.c forgets the client.  An accept may fail.               *)
accept_one ==
    LET free == {j \in Slots : table[j] = NoVisitor}
        j    == CHOOSE k \in free : \A l \in free : k <= l
        stops(at) == doing' = Idle(at) /\ batch' = {}
        goes_on(reported) == IF style = "poll" THEN next_slot(0, reported) ELSE stops("wait") IN
    /\ style # "epoll" /\ doing.at = "accept"
    /\ sockMax' = IF style = "poll" /\ free # {} /\ j > sockMax THEN j ELSE sockMax
    /\ \/ \E c \in Queue :
            /\ free # {}
            /\ conn' = [conn EXCEPT ![c] = "open"] /\ table' = [table EXCEPT ![j] = c]
            /\ goes_on(batch) \/ (sockMax' # sockMax /\ goes_on(batch \cup {c}))
       \/ \E c \in Queue :
            /\ free = {}
            /\ conn' = [conn EXCEPT ![c] = "lost"]
            /\ stops(IF style = "poll" THEN "ended" ELSE "wait")
            /\ UNCHANGED table
       \/ /\ UNCHANGED <<conn, table>>
          /\ IF style = "poll" /\ free = {} THEN stops("ended") ELSE goes_on(batch)
    /\ UNCHANGED <<reads, recvLen, refused>> /\ table_keep

(* recv until the buffer is full, waiting for more if need be; or the end, *)
(* after which the place is free and the descriptor is never closed.       *)
recv ==
    LET c    == doing.of
        room == REVLEN - recvLen
        n    == IF Unread(c) < room THEN Unread(c) ELSE room IN
    /\ doing.at = "recv"
    /\ \/ /\ ended[c] # "rst" /\ n > 0
          /\ reads' = [reads EXCEPT ![c] = @ + n]
          /\ UNCHANGED <<conn, table>>
          /\ IF n < room THEN recvLen' = recvLen + n /\ UNCHANGED <<doing, batch>>
             ELSE recvLen' = 0 /\ next_slot(doing.slot, batch)
       \/ /\ ended[c] = "rst" \/ (Unread(c) = 0 /\ ended[c] = "fin")
          /\ conn' = [conn EXCEPT ![c] = "closed"] /\ table' = [table EXCEPT ![doing.slot] = NoVisitor]
          /\ recvLen' = 0 /\ next_slot(doing.slot, batch)
          /\ UNCHANGED reads
    /\ UNCHANGED <<sockMax, refused>> /\ table_keep

-----------------------------------------------------------------------------
ReadyStep == epoll_wait \/ (\E e \in batch : style = "epoll" /\ event(e)) \/ accept_all \/ read_all
             \/ select \/ accept_one \/ recv
ReadyNext == ReadyStep \/ \E c \in Visitors : connects(c) \/ sends_on(c) \/ ends(c)

ReadySpec == ReadyInit /\ [][ReadyNext]_readyVars

-----------------------------------------------------------------------------
(* A client is read only while it is connected, although the loop works    *)
(* from an older report, and is given up only if it has reset, or has      *)
(* ended and everything it sent was read.                                  *)
GivenUpForAReason ==
    /\ doing.at \in {"read", "recv"} => conn[doing.of] = "open"
    /\ \A c \in Visitors :
          conn[c] = "closed" => ended[c] = "rst" \/ (ended[c] = "fin" /\ Unread(c) = 0)

(* The loop waits in recv for a client that has sent less than REVLEN.     *)
Held == doing.at = "recv" /\ Unread(doing.of) = 0 /\ ended[doing.of] = "no"

(* Whatever comes while the loop is busy is not missed: what a client has  *)
(* sent is read, unless selecttest.c or polltest.c is held for ever by     *)
(* another client, and with epoll a client that waits is accepted, unless  *)
(* an accept fails.                                                        *)
ReportsSuffice ==
    \A c \in Visitors :
        /\ <>[]Held \/ ((conn[c] = "open" /\ Unread(c) > 0)
                            ~> (Unread(c) = 0 \/ conn[c] # "open" \/ doing.at = "ended"))
        /\ (style = "epoll" /\ conn[c] = "waiting") ~> (conn[c] # "waiting" \/ refused)
=============================================================================
