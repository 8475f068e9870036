------------------------------- MODULE Proxy -------------------------------
(***************************************************************************)
(* The poll loop of socket/proxy (proxy.c, client.c, util.c), with the     *)
(* remote clients and servers.  A turn of the loop polls, and then each    *)
(* entry of the fdlist is a step; the remote sides move in between.        *)
(* Nothing in the program asks for POLLOUT, so process_send, client_close  *)
(* and client_shutdown never run and no descriptor is ever closed.         *)
(***************************************************************************)
EXTENDS Integers, Sequences, FiniteSets

CONSTANTS
    Peers,      \* the remote clients
    MaxFd,      \* the greatest descriptor the process can have
    MaxSent     \* what the clients send at most, all of them

ASSUME ProxyAssumption == MaxFd \in Nat \ {0} /\ MaxSent \in Nat

listenfd == 1
Fds == 1..MaxFd

VARIABLES
    client_list,    \* the clients, each with its fd, server_fd and peer
    open,           \* the descriptors of the process
    pollfds, i,     \* the entries of the fdlist with their revents; the loop's index
    pc,             \* "poll", "scan", "exit" or "abort"
    backlog,        \* the clients that wait for accept
    inbox,          \* what a client has sent and the proxy has not read
    sent,           \* the number of requests of a client
    forwarded,      \* the requests of a client that went to a server
    answers,        \* the servers' descriptors with an answer to read
    relayed         \* the clients that were sent an answer

vars == <<client_list, open, pollfds, i, pc, backlog, inbox, sent, forwarded, answers, relayed>>

Messages == {"host", "nohost", "eof"}
Owners == {"FD_LISTEN", "FD_CLIENT", "FD_SERVER"}
Client == [fd : Fds, server_fd : Fds \cup {0, -1}, peer : Peers]

TypeOK ==
    /\ client_list \in Seq(Client)
    /\ open \subseteq Fds
    /\ pollfds \in Seq([owner : Owners, fd : Fds \cup {-1}, revents : BOOLEAN])
    /\ i \in 1..(Len(pollfds) + 1)
    /\ pc \in {"poll", "scan", "exit", "abort"}
    /\ backlog \in Seq(Peers)
    /\ inbox \in [Peers -> Seq(Messages)]
    /\ sent \in [Peers -> Nat]
    /\ forwarded \in [Peers -> Nat]
    /\ answers \subseteq open
    /\ relayed \subseteq Peers

Init ==
    /\ client_list = <<>>
    /\ open = {listenfd}
    /\ pollfds = <<>> /\ i = 1
    /\ pc = "poll"
    /\ backlog = <<>>
    /\ inbox = [p \in Peers |-> <<>>]
    /\ sent = [p \in Peers |-> 0]
    /\ forwarded = [p \in Peers |-> 0]
    /\ answers = {}
    /\ relayed = {}

-----------------------------------------------------------------------------
(* The remote sides. *)
peers == {client_list[c].peer : c \in DOMAIN client_list}
servers == {client_list[c].server_fd : c \in DOMAIN client_list} \ {0, -1}
connected(p) == p \in peers \/ \E k \in DOMAIN backlog : backlog[k] = p
closed(p) == \E k \in DOMAIN inbox[p] : inbox[p][k] = "eof"

Connect(p) ==
    /\ ~connected(p)
    /\ backlog' = Append(backlog, p)
    /\ UNCHANGED <<client_list, open, pollfds, i, pc, inbox, sent, forwarded, answers, relayed>>

Send(p) ==
    /\ connected(p) /\ ~closed(p)
    /\ \/ /\ Cardinality(UNION {{q} \X (1..sent[q]) : q \in Peers}) < MaxSent
          /\ \E msg \in {"host", "nohost"} : inbox' = [inbox EXCEPT ![p] = Append(@, msg)]
          /\ sent' = [sent EXCEPT ![p] = @ + 1]
       \/ /\ inbox' = [inbox EXCEPT ![p] = Append(@, "eof")]
          /\ UNCHANGED sent
    /\ UNCHANGED <<client_list, open, pollfds, i, pc, backlog, forwarded, answers, relayed>>

Answer(f) ==
    /\ f \in servers \ answers
    /\ answers' = answers \cup {f}
    /\ UNCHANGED <<client_list, open, pollfds, i, pc, backlog, inbox, sent, forwarded, relayed>>

-----------------------------------------------------------------------------
entry(owner, fd, r) == [owner |-> owner, fd |-> fd, revents |-> r]

(* server_get_fds: a server_fd of -1 is polled too, and is never ready. *)
server_fds[n \in 0..Len(client_list)] ==
    IF n = 0 THEN <<>>
    ELSE LET fd == client_list[n].server_fd
         IN  IF fd = 0 THEN server_fds[n - 1]
             ELSE Append(server_fds[n - 1], entry("FD_SERVER", fd, fd \in answers))

server_get_fds == server_fds[Len(client_list)]

client_get_fds ==
    [k \in DOMAIN client_list |->
        entry("FD_CLIENT", client_list[k].fd, inbox[client_list[k].peer] # <<>>)]

(* A turn of main_loop up to the return of ppoll: one that times out finds *)
(* nothing ready.                                                          *)
ppoll ==
    /\ pc = "poll"
    /\ pollfds' = <<entry("FD_LISTEN", listenfd, backlog # <<>>)>> \o server_get_fds \o client_get_fds
    /\ i' = 1
    /\ pc' = "scan"
    /\ UNCHANGED <<client_list, open, backlog, inbox, sent, forwarded, answers, relayed>>

free_fds == Fds \ open
lowest == {fd \in free_fds : \A f \in free_fds : fd <= f}

(* Mutant: the descriptor of the last client is given again. *)
client_accept_again ==
    IF free_fds = {} \/ backlog = <<>>
    THEN pc' = "exit" /\ UNCHANGED <<client_list, open, backlog, i>>
    ELSE /\ client_list' = Append(client_list,
                [fd |-> CHOOSE fd \in open : \A f \in open : f <= fd, server_fd |-> 0, peer |-> Head(backlog)])
         /\ backlog' = Tail(backlog)
         /\ i' = i + 1
         /\ UNCHANGED <<pc, open>>

(* client_accept: without a descriptor main_loop returns. *)
client_accept ==
    IF free_fds = {} \/ backlog = <<>>
    THEN pc' = "exit" /\ UNCHANGED <<client_list, open, backlog, i>>
    ELSE /\ \E fd \in lowest :
              /\ client_list' = Append(client_list, [fd |-> fd, server_fd |-> 0, peer |-> Head(backlog)])
              /\ open' = open \cup {fd}
         /\ backlog' = Tail(backlog)
         /\ i' = i + 1
         /\ UNCHANGED pc

(* opensock of a host: the descriptors it may return. *)
opensock == {-1} \cup lowest

(* How many messages one recv takes: it reads a stream. *)
readable(p) == {n \in 1..Len(inbox[p]) : \A k \in 1..n : inbox[p][k] # "eof"}

(* Mutant: the program ends when no connection can be made. *)
process_recv_refused(c) ==
    LET p == client_list[c].peer
    IN  IF Head(inbox[p]) = "eof"
        THEN pc' = "abort" /\ UNCHANGED <<client_list, open, inbox, forwarded, i>>
        ELSE \E n \in readable(p), fd \in opensock :
          IF fd = -1 \/ \A k \in 1..n : inbox[p][k] = "nohost"
          THEN pc' = "abort" /\ UNCHANGED <<client_list, open, inbox, forwarded, i>>
          ELSE /\ inbox' = [inbox EXCEPT ![p] = SubSeq(@, n + 1, Len(@))]
               /\ client_list' = [client_list EXCEPT ![c].server_fd = fd]
               /\ open' = open \cup ({fd} \ {-1})
               /\ forwarded' = IF fd = -1 THEN forwarded ELSE [forwarded EXCEPT ![p] = @ + 1]
               /\ i' = i + 1
               /\ UNCHANGED pc

(* process_recv.  parse_header_line puts an end behind the host it finds,  *)
(* so that what an earlier recv has left in the buffer has none any more:  *)
(* at the end of the stream, and for a message without a host, opensock    *)
(* gets a null pointer and its assertion ends the program.                 *)
process_recv(c) ==
    LET p == client_list[c].peer
    IN  IF Head(inbox[p]) = "eof"
        THEN pc' = "abort" /\ UNCHANGED <<client_list, open, inbox, forwarded, i>>
        ELSE \E n \in readable(p), fd \in opensock :
          IF \A k \in 1..n : inbox[p][k] = "nohost"
          THEN pc' = "abort" /\ UNCHANGED <<client_list, open, inbox, forwarded, i>>
          ELSE /\ inbox' = [inbox EXCEPT ![p] = SubSeq(@, n + 1, Len(@))]
               /\ client_list' = [client_list EXCEPT ![c].server_fd = fd]
               /\ open' = open \cup ({fd} \ {-1})
               /\ forwarded' = IF fd = -1 THEN forwarded ELSE [forwarded EXCEPT ![p] = @ + 1]
               /\ i' = i + 1
               /\ UNCHANGED pc

(* recv_server: the answer goes to the client. *)
recv_server(c) ==
    /\ answers' = answers \ {client_list[c].server_fd}
    /\ relayed' = relayed \cup {client_list[c].peer}
    /\ i' = i + 1
    /\ UNCHANGED <<client_list, open, inbox, forwarded, pc>>

(* client_process: the client is looked up by its own descriptor, also for *)
(* an event of its server.                                                 *)
client_process(e) ==
    IF ~\E c \in DOMAIN client_list : client_list[c].fd = e.fd
    THEN i' = i + 1 /\ UNCHANGED <<client_list, open, pc, inbox, forwarded, answers, relayed>>
    ELSE LET c == CHOOSE k \in DOMAIN client_list :
                    /\ client_list[k].fd = e.fd
                    /\ \A j \in 1..(k - 1) : client_list[j].fd # e.fd
         IN  IF e.owner = "FD_CLIENT"
             THEN process_recv(c) /\ UNCHANGED <<answers, relayed>>
             ELSE recv_server(c)

(* One entry of the loop over the fdlist. *)
handle ==
    /\ pc = "scan" /\ i <= Len(pollfds)
    /\ LET e == pollfds[i]
       IN  \/ /\ ~e.revents
              /\ i' = i + 1
              /\ UNCHANGED <<client_list, open, pc, backlog, inbox, forwarded, answers, relayed>>
           \/ /\ e.revents /\ e.owner = "FD_LISTEN"
              /\ client_accept
              /\ UNCHANGED <<inbox, forwarded, answers, relayed>>
           \/ /\ e.revents /\ e.owner # "FD_LISTEN"
              /\ client_process(e)
              /\ UNCHANGED backlog
    /\ UNCHANGED <<pollfds, sent>>

turn ==
    /\ pc = "scan" /\ i > Len(pollfds)
    /\ pc' = "poll" /\ pollfds' = <<>> /\ i' = 1
    /\ UNCHANGED <<client_list, open, backlog, inbox, sent, forwarded, answers, relayed>>

Next ==
    \/ \E p \in Peers : Connect(p) \/ Send(p)
    \/ \E f \in Fds : Answer(f)
    \/ ppoll \/ handle \/ turn

Spec == Init /\ [][Next]_vars /\ WF_vars(ppoll) /\ WF_vars(handle) /\ WF_vars(turn)

-----------------------------------------------------------------------------
(* Every client has a descriptor of its own that is open, as has every     *)
(* server connection that a client still knows.                            *)
OwnDescriptors ==
    \A c, d \in DOMAIN client_list :
        LET x == client_list[c]
            y == client_list[d]
        IN  /\ x.fd \in open \ {listenfd}
            /\ x.server_fd \in open \cup {0, -1}
            /\ x.server_fd # y.fd
            /\ c # d => /\ x.fd # y.fd
                        /\ x.server_fd = y.server_fd => x.server_fd \in {0, -1}

(* No two clients or servers share a descriptor (client_accept, opensock), *)
(* and the state of the proxy has its types.                               *)
DescriptorsApart == TypeOK /\ OwnDescriptors

(* main_loop returns only when the process has no descriptor left, and the *)
(* program ends with an assertion only when the client it reads from       *)
(* closed its side or sent something without a host: neither happens       *)
(* because of another client or of a server that is not there.             *)
EndsForAReason ==
    /\ pc = "exit" => open = Fds
    /\ pc = "abort" =>
          \E c \in DOMAIN client_list :
              /\ client_list[c].fd = pollfds[i].fd
              /\ Head(inbox[client_list[c].peer]) \in {"eof", "nohost"}

(* What a client sends is read, unless the program ends. *)
Read ==
    \A p \in Peers : inbox[p] # <<>> ~> inbox[p] = <<>> \/ pc \in {"exit", "abort"}

(* "assert (host != NULL)" of opensock (client.c:448): it is not called    *)
(* without a host.                                                         *)
HostKnown == pc # "abort"

(* "Build packet and send it to server, wait for response" (proxy.c:171):  *)
(* an answer of a server that a client waits for goes to the client.       *)
Relayed ==
    \A f \in Fds : f \in answers ~> f \notin answers \/ pc \in {"exit", "abort"}
=============================================================================
