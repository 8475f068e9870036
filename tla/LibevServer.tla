---------------------------- MODULE LibevServer ----------------------------
(***************************************************************************)
(* libev/server.c with libev/buffer.c (libev/http holds a copy): accept_cb *)
(* makes a server for each connection, server_recv_cb collects what comes  *)
(* in a growing buffer and answers.  The loop runs one callback at a time. *)
(* Where the code goes on with memory it has freed, or writes behind its   *)
(* buffer, the behaviour is undefined and the model stops.                 *)
(***************************************************************************)
EXTENDS Integers

CONSTANTS
    Conns, BUF_SIZE,
    MaxBytes        \* a bound on what a client sends on one connection

ASSUME LibevAssumption == BUF_SIZE \in Nat \ {0} /\ MaxBytes \in Nat

VARIABLES
    server,         \* of each connection: state; len and capacity of buf
    client,         \* unread, its bytes in the socket; ended, whether it hung up
                    \* or was reset; partly, whether an answer was cut short
    process         \* "runs", or what is undefined: "freed" or "overrun"

libevVars == <<server, client, process>>

LibevInit ==
    /\ server = [c \in Conns |-> [state |-> "none", len |-> 0, capacity |-> 0]]
    /\ client = [c \in Conns |-> [unread |-> 0, ended |-> FALSE, partly |-> FALSE]]
    /\ process = "runs"

-----------------------------------------------------------------------------
(* The clients. *)
client_sends(c) ==
    /\ server[c].state = "open" /\ ~client[c].ended
    /\ \E n \in 1..(MaxBytes - server[c].len - client[c].unread) : client' = [client EXCEPT ![c].unread = @ + n]
    /\ UNCHANGED <<server, process>>

client_ends(c) ==
    /\ server[c].state = "open"
    /\ client' = [client EXCEPT ![c].ended = TRUE]
    /\ UNCHANGED <<server, process>>

-----------------------------------------------------------------------------
(* accept_cb and new_server. *)
accept_cb(c) ==
    /\ process = "runs" /\ server[c].state = "none"
    /\ server' = [server EXCEPT ![c] = [state |-> "open", len |-> 0, capacity |-> BUF_SIZE]]
    /\ client' = [client EXCEPT ![c] = [unread |-> 0, ended |-> FALSE, partly |-> FALSE]]
    /\ UNCHANGED process

(* The connection is closed, its watchers are stopped and the server is    *)
(* freed: the descriptor may come back with another connection.            *)
close_and_free_server(c) ==
    /\ server' = [server EXCEPT ![c] = [state |-> "none", len |-> 0, capacity |-> 0]]
    /\ client' = [client EXCEPT ![c] = [unread |-> 0, ended |-> FALSE, partly |-> FALSE]]

(* Mutant: the buffer grows by what is in it. *)
brealloc_len(c, len, capacity) ==
    server' = [server EXCEPT ![c].len = len, ![c].capacity = IF @ < len THEN len ELSE @]

brealloc(c, len, capacity) ==
    LET real == IF len > capacity THEN len ELSE capacity
    IN  server' = [server EXCEPT ![c].len = len, ![c].capacity = IF @ < real THEN real ELSE @]

(* The answer, of any length: all of it is sent, or it fails; or it is     *)
(* sent in part or not at all, and nobody sends the rest.                  *)
send_answer(c, r) ==
    \/ close_and_free_server(c)
    \/ /\ server' = [server EXCEPT ![c].len = @ + r]
       /\ client' = [client EXCEPT ![c].unread = @ - r, ![c].partly = TRUE]

(* recv returns what is there, up to BUF_SIZE bytes.  At the end, or after *)
(* an error, the server is freed and then used.                            *)
server_recv_cb(c) ==
    LET r == IF client[c].unread > BUF_SIZE THEN BUF_SIZE ELSE client[c].unread IN
    /\ process = "runs" /\ server[c].state = "open"
    /\ \/ /\ client[c].ended
          /\ close_and_free_server(c)
          /\ process' = "freed"
       \/ /\ r > 0 /\ server[c].len + r > server[c].capacity
          /\ process' = "overrun"
          /\ UNCHANGED <<server, client>>
       \/ /\ r = BUF_SIZE /\ server[c].len + r <= server[c].capacity
          /\ brealloc(c, server[c].len + r, server[c].len + r + BUF_SIZE)
          /\ client' = [client EXCEPT ![c].unread = @ - r]
          /\ UNCHANGED process
       \/ /\ r > 0 /\ r < BUF_SIZE /\ server[c].len + r <= server[c].capacity
          /\ send_answer(c, r)
          /\ UNCHANGED process

LibevNext ==
    \E c \in Conns : accept_cb(c) \/ server_recv_cb(c) \/ client_sends(c) \/ client_ends(c)

LibevSpec == LibevInit /\ [][LibevNext]_libevVars

-----------------------------------------------------------------------------
(* recv is always given BUF_SIZE bytes behind len (line 205), and only a   *)
(* full read makes the buffer grow: as long as every answer has gone out   *)
(* whole there is room for them, however much has come before, and nothing *)
(* is written behind a buffer.                                             *)
RoomForRecv ==
    /\ \A c \in Conns : server[c].state = "open" /\ ~client[c].partly =>
          server[c].capacity - server[c].len >= BUF_SIZE
    /\ process = "overrun" => \E c \in Conns : client[c].partly
=============================================================================
