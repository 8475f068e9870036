---------------------------- MODULE ServerProofs ----------------------------
(***************************************************************************)
(* Proofs about the servers, for any number of connections: the one on     *)
(* libev, and the epoll, select and poll ones.                             *)
(***************************************************************************)
EXTENDS LibevServer, ReadyServers, WellFoundedInduction, TLAPS

(* The least-number principle, for sets: what a first free descriptor or a *)
(* first free place is.                                                    *)
LEMMA LeastNumber ==
    ASSUME NEW T \in SUBSET Nat, T # {}
    PROVE  \E x \in T : \A y \in T : x <= y
<1>1. PICK x \in T : \A y \in T : ~(y < x)
  <2> DEFINE R == OpToRel(<, Nat)
  <2>1. IsWellFoundedOn(R, Nat)
    BY NatLessThanWellFounded
  <2>2. \A x, y \in Nat : y < x => <<y, x>> \in R
    BY DEF OpToRel
  <2> HIDE DEF R
  <2>3. PICK x \in T : \A y \in T : <<y, x>> \notin R
    BY <2>1, WFMin
  <2> QED BY <2>2, <2>3
<1> QED BY <1>1
-----------------------------------------------------------------------------
(* libev/server.c. *)
LibevTypeOK ==
    /\ server \in [Conns -> [state : {"none", "open"}, len : Nat, capacity : Nat]]
    /\ client \in [Conns -> [unread : Nat, ended : BOOLEAN, partly : BOOLEAN]]
    /\ process \in {"runs", "freed", "overrun"}

(* The inductive invariant of libev/server.c. *)
LibevInv == LibevTypeOK /\ RoomForRecv

LEMMA LibevStep == LibevInv /\ [LibevNext]_libevVars => LibevInv'
<1> SUFFICES ASSUME LibevInv, [LibevNext]_libevVars PROVE LibevInv'
  OBVIOUS
<1> USE LibevAssumption DEF LibevInv
<1>1. ASSUME NEW c \in Conns, accept_cb(c) PROVE LibevInv'
  <2>1. LibevTypeOK'
    BY <1>1 DEF LibevTypeOK, accept_cb
  <2>2. RoomForRecv'
    BY <1>1 DEF LibevTypeOK, accept_cb, RoomForRecv
  <2> QED BY <2>1, <2>2
<1>2. ASSUME NEW c \in Conns, server_recv_cb(c) PROVE LibevInv'
  <2> DEFINE r == IF client[c].unread > BUF_SIZE THEN BUF_SIZE ELSE client[c].unread
  <2>1. /\ server[c].len \in Nat /\ server[c].capacity \in Nat /\ client[c].unread \in Nat /\ BUF_SIZE \in Nat
        /\ r \in Nat /\ r <= BUF_SIZE /\ r <= client[c].unread
    BY DEF LibevTypeOK
  <2>2. /\ process = "runs" /\ server[c].state = "open"
        /\ \/ close_and_free_server(c) /\ process' \in {"freed", "runs"}
           \/ /\ server[c].len + r > server[c].capacity
              /\ process' = "overrun" /\ UNCHANGED <<server, client>>
           \/ /\ brealloc(c, server[c].len + r, server[c].len + r + BUF_SIZE)
              /\ client' = [client EXCEPT ![c].unread = @ - r] /\ UNCHANGED process
           \/ /\ server' = [server EXCEPT ![c].len = @ + r]
              /\ client' = [client EXCEPT ![c].unread = @ - r, ![c].partly = TRUE] /\ UNCHANGED process
    BY <1>2 DEF server_recv_cb, send_answer
  <2> HIDE DEF r
  <2>3. CASE close_and_free_server(c) /\ process' \in {"freed", "runs"}
    <3>1. LibevTypeOK'
      BY <2>3 DEF close_and_free_server, LibevTypeOK
    <3>2. RoomForRecv'
      BY <2>3 DEF close_and_free_server, LibevTypeOK, RoomForRecv
    <3> QED BY <3>1, <3>2
  <2>4. CASE server[c].len + r > server[c].capacity /\ process' = "overrun" /\ UNCHANGED <<server, client>>
    <3>1. client[c].partly
      BY <2>1, <2>2, <2>4 DEF RoomForRecv
    <3> QED BY <2>4, <3>1 DEF LibevTypeOK, RoomForRecv
  <2>5. CASE /\ brealloc(c, server[c].len + r, server[c].len + r + BUF_SIZE)
             /\ client' = [client EXCEPT ![c].unread = @ - r] /\ UNCHANGED process
    <3> DEFINE n == server[c].len + r
               room == IF server[c].capacity < n + BUF_SIZE THEN n + BUF_SIZE ELSE server[c].capacity
               x == [server[c] EXCEPT !.len = n, !.capacity = room]
               y == [client[c] EXCEPT !.unread = client[c].unread - r]
    <3>0. server' = [server EXCEPT ![c] = x] /\ client' = [client EXCEPT ![c] = y]
      <4>1. client' = [client EXCEPT ![c] = y]
        BY <2>5 DEF LibevTypeOK
      <4>2. (IF n > n + BUF_SIZE THEN n ELSE n + BUF_SIZE) = n + BUF_SIZE
        BY <2>1
      <4>3. server' = [server EXCEPT ![c].len = n, ![c].capacity = IF @ < n + BUF_SIZE THEN n + BUF_SIZE ELSE @]
        BY <2>5, <4>2 DEF brealloc
      <4> HIDE DEF n
      <4>4. server' = [server EXCEPT ![c] = x]
        BY <4>3 DEF LibevTypeOK
      <4> QED BY <4>1, <4>4
    <3>1. LibevTypeOK'
      <4>0. n \in Nat /\ room \in Nat
        BY <2>1
      <4>1. x \in [state : {"none", "open"}, len : Nat, capacity : Nat]
        <5> HIDE DEF n, room
        <5> QED BY <4>0 DEF LibevTypeOK
      <4>2. client[c].unread - r \in Nat
        BY <2>1
      <4>3. y \in [unread : Nat, ended : BOOLEAN, partly : BOOLEAN]
        BY <4>2 DEF LibevTypeOK
      <4>4. process' \in {"runs", "freed", "overrun"}
        BY <2>5 DEF LibevTypeOK
      <4> HIDE DEF x, y
      <4> QED BY <3>0, <4>1, <4>3, <4>4 DEF LibevTypeOK
    <3>2. server'[c].len = server[c].len + r /\ server'[c].capacity >= server[c].len + r + BUF_SIZE
      BY <2>1, <2>5 DEF LibevTypeOK, brealloc
    <3>3. \A d \in Conns : client'[d].partly = client[d].partly /\ (d # c => server'[d] = server[d])
      BY <2>5 DEF LibevTypeOK, brealloc
    <3>4. RoomForRecv'
      BY <2>1, <2>2, <2>5, <3>1, <3>2, <3>3 DEF RoomForRecv, LibevTypeOK
    <3> QED BY <3>1, <3>4
  <2>6. CASE /\ server' = [server EXCEPT ![c].len = @ + r]
             /\ client' = [client EXCEPT ![c].unread = @ - r, ![c].partly = TRUE] /\ UNCHANGED process
    <3> DEFINE x == [server[c] EXCEPT !.len = server[c].len + r]
               y == [client[c] EXCEPT !.unread = client[c].unread - r, !.partly = TRUE]
    <3>0. server' = [server EXCEPT ![c] = x] /\ client' = [client EXCEPT ![c] = y]
      BY <2>6 DEF LibevTypeOK
    <3>1. LibevTypeOK'
      <4>1. x \in [state : {"none", "open"}, len : Nat, capacity : Nat]
        BY <2>1 DEF LibevTypeOK
      <4>2. client[c].unread - r \in Nat
        BY <2>1
      <4>3. y \in [unread : Nat, ended : BOOLEAN, partly : BOOLEAN]
        BY <4>2 DEF LibevTypeOK
      <4>4. process' \in {"runs", "freed", "overrun"}
        BY <2>6 DEF LibevTypeOK
      <4> HIDE DEF x, y
      <4> QED BY <3>0, <4>1, <4>3, <4>4 DEF LibevTypeOK
    <3>2. client'[c].partly /\ \A d \in Conns \ {c} : client'[d] = client[d] /\ server'[d] = server[d]
      BY <2>6 DEF LibevTypeOK
    <3>3. RoomForRecv'
      BY <2>6, <3>2 DEF RoomForRecv
    <3> QED BY <3>1, <3>3
  <2> QED BY <2>2, <2>3, <2>4, <2>5, <2>6
<1>3. ASSUME NEW c \in Conns, client_sends(c) PROVE LibevInv'
  <2>1. PICK n \in 1..(MaxBytes - server[c].len - client[c].unread) : client' = [client EXCEPT ![c].unread = @ + n]
    BY <1>3 DEF client_sends
  <2>2. server' = server /\ process' = process /\ n \in Nat
    BY <1>3 DEF client_sends
  <2>3. LibevTypeOK'
    BY <2>1, <2>2 DEF LibevTypeOK
  <2>4. \A d \in Conns : client'[d].partly = client[d].partly
    BY <2>1 DEF LibevTypeOK
  <2>5. RoomForRecv'
    BY <2>2, <2>4 DEF RoomForRecv
  <2> QED BY <2>3, <2>5
<1>4. ASSUME NEW c \in Conns, client_ends(c) PROVE LibevInv'
  <2>1. LibevTypeOK'
    BY <1>4 DEF LibevTypeOK, client_ends
  <2>2. \A d \in Conns : client'[d].partly = client[d].partly
    BY <1>4 DEF LibevTypeOK, client_ends
  <2>3. RoomForRecv'
    BY <1>4, <2>2 DEF RoomForRecv, client_ends
  <2> QED BY <2>1, <2>3
<1>5. CASE UNCHANGED libevVars
  BY <1>5 DEF libevVars, LibevTypeOK, RoomForRecv
<1> QED
  BY <1>1, <1>2, <1>3, <1>4, <1>5 DEF LibevNext

(* recv is always given room for BUF_SIZE bytes, and nothing is written    *)
(* behind a buffer, as long as every answer has gone out whole.            *)
THEOREM RoomForRecvHolds == LibevSpec => []RoomForRecv
<1>1. LibevInit => LibevInv
  BY LibevAssumption DEF LibevInit, LibevInv, LibevTypeOK, RoomForRecv
<1>2. LibevInv => RoomForRecv
  BY DEF LibevInv
<1> QED BY <1>1, <1>2, LibevStep, PTL DEF LibevSpec


-----------------------------------------------------------------------------
(* epoll_banu.c, selecttest.c and polltest.c. *)
Doing == [at : {"wait", "events", "accept", "read", "recv", "ended"}, of : Visitors \cup {NoVisitor}, slot : Nat]

ReadyTypeOK ==
    /\ style \in {"epoll", "select", "poll"}
    /\ conn \in [Visitors -> {"none", "waiting", "open", "closed", "lost"}]
    /\ ended \in [Visitors -> {"no", "fin", "rst"}]
    /\ sends \in [Visitors -> Nat] /\ reads \in [Visitors -> Nat] /\ recvLen \in Nat
    /\ doing \in Doing
    /\ DOMAIN table \subseteq Nat /\ table \in [DOMAIN table -> Visitors \cup {NoVisitor}]

(* epoll has to report, and the loop has still to work off, only clients   *)
(* that are connected, each once; a client that is being read is no longer *)
(* among them.                                                             *)
EpollInv ==
    style = "epoll" =>
        /\ edges \subseteq Visitors \cup {Listen}
        /\ \A c \in edges : c # Listen => conn[c] = "open"
        /\ batch \subseteq [of : Visitors \cup {Listen}, hup : BOOLEAN]
        /\ \A e \in batch :
              /\ e.of = Listen => ~e.hup
              /\ e.of # Listen => conn[e.of] = "open" /\ (e.hup => ended[e.of] = "rst")
        /\ \A e, f \in batch : e.of = f.of => e = f
        /\ doing.at \in {"wait", "events", "accept", "read"}
        /\ doing.at = "read" =>
              doing.of \in Visitors /\ conn[doing.of] = "open" /\ \A e \in batch : e.of # doing.of

(* The table of selecttest.c and polltest.c has the clients that are       *)
(* connected, each in one place, and the loop is at a place of the table.  *)
TableInv ==
    style # "epoll" =>
        /\ batch \subseteq Visitors \cup {Listen}
        /\ \A j \in DOMAIN table : table[j] # NoVisitor => conn[table[j]] = "open"
        /\ \A j, k \in DOMAIN table : table[j] = table[k] /\ table[j] # NoVisitor => j = k
        /\ doing.at \in {"wait", "accept", "recv", "ended"}
        /\ doing.at = "recv" =>
              doing.slot \in DOMAIN table /\ doing.of \in Visitors /\ table[doing.slot] = doing.of

(* The inductive invariant of the three servers. *)
ReadyInv == ReadyTypeOK /\ EpollInv /\ TableInv /\ GivenUpForAReason

LEMMA ReadyInitially == ReadyInit => ReadyInv
<1> SUFFICES ASSUME ReadyInit PROVE ReadyInv
  OBVIOUS
<1>1. PICK n \in {0} \cup 1..BACKLOG : table = [k \in 1..n |-> NoVisitor]
  BY DEF ReadyInit
<1>2. DOMAIN table = 1..n /\ \A k \in 1..n : table[k] = NoVisitor
  BY <1>1
<1>3. doing = [at |-> "wait", of |-> NoVisitor, slot |-> 0]
  BY DEF ReadyInit, Idle
<1>4. ReadyTypeOK
  <2>1. doing \in Doing
    BY <1>3 DEF Doing
  <2>2. DOMAIN table \subseteq Nat /\ table \in [DOMAIN table -> Visitors \cup {NoVisitor}]
    BY <1>1, <1>2, ReadyAssumption
  <2> QED BY <2>1, <2>2 DEF ReadyInit, ReadyTypeOK
<1>5. EpollInv /\ TableInv /\ GivenUpForAReason
  BY <1>2, <1>3, ReadyAssumption DEF ReadyInit, EpollInv, TableInv, GivenUpForAReason
<1> QED BY <1>4, <1>5 DEF ReadyInv

(* A step that leaves the loop alone. *)
LEMMA VisitorsStep ==
    ASSUME ReadyInv, NEW c \in Visitors, connects(c) \/ sends_on(c) \/ ends(c)
    PROVE  ReadyInv'
<1> USE DEF ReadyInv, visitors_keep
<1>1. CASE connects(c)
  <2>1. ReadyTypeOK'
    BY <1>1 DEF ReadyTypeOK, connects
  <2>2. EpollInv'
    BY <1>1 DEF ReadyTypeOK, EpollInv, connects
  <2>3. TableInv'
    BY <1>1 DEF ReadyTypeOK, TableInv, connects
  <2>4. GivenUpForAReason'
    BY <1>1 DEF ReadyTypeOK, GivenUpForAReason, connects, Unread
  <2> QED BY <2>1, <2>2, <2>3, <2>4
<1>2. CASE sends_on(c)
  <2>1. PICK n \in 1..(MaxSend - sends[c]) : sends' = [sends EXCEPT ![c] = @ + n]
    BY <1>2 DEF sends_on
  <2>2. ReadyTypeOK'
    BY <1>2, <2>1, ReadyAssumption DEF ReadyTypeOK, sends_on
  <2>3. EpollInv'
    BY <1>2 DEF ReadyTypeOK, EpollInv, sends_on, noted
  <2>4. TableInv'
    BY <1>2 DEF ReadyTypeOK, TableInv, sends_on
  <2>5. GivenUpForAReason'
    BY <1>2, <2>1 DEF ReadyTypeOK, GivenUpForAReason, sends_on, there, Unread
  <2> QED BY <2>2, <2>3, <2>4, <2>5
<1>3. CASE ends(c)
  <2>1. PICK how \in {"fin", "rst"} : ended' = [ended EXCEPT ![c] = how]
    BY <1>3 DEF ends
  <2>2. ReadyTypeOK'
    BY <1>3, <2>1 DEF ReadyTypeOK, ends
  <2>3. EpollInv'
    BY <1>3, <2>1 DEF ReadyTypeOK, EpollInv, ends, noted, there
  <2>4. TableInv'
    BY <1>3 DEF ReadyTypeOK, TableInv, ends
  <2>5. GivenUpForAReason'
    BY <1>3, <2>1 DEF ReadyTypeOK, GivenUpForAReason, ends, there, Unread
  <2> QED BY <2>2, <2>3, <2>4, <2>5
<1> QED BY <1>1, <1>2, <1>3

(* A step of epoll_banu.c. *)
LEMMA EpollStep ==
    ASSUME ReadyInv, style = "epoll",
           epoll_wait \/ accept_all \/ read_all \/ \E e \in batch : event(e)
    PROVE  ReadyInv'
<1> USE DEF ReadyInv, epoll_keep
<1>0. /\ \A at \in {"wait", "events", "accept"} : Idle(at) \in Doing /\ Idle(at).at = at
      /\ \A rest : worked_off(rest) => doing' \in Doing /\ doing'.at \in {"wait", "events"}
  BY ReadyAssumption DEF Idle, Doing, worked_off
<1>1. CASE epoll_wait
  <2>1. doing' \in Doing /\ doing'.at = "events"
    BY <1>0, <1>1 DEF epoll_wait
  <2>2. ReadyTypeOK'
    BY <1>1, <2>1 DEF ReadyTypeOK, epoll_wait
  <2>3. EpollInv'
    <3>1. /\ edges' = {}
          /\ \A f \in batch' : \E e \in edges : f = [of |-> e, hup |-> e # Listen /\ ended[e] = "rst"]
      BY <1>1 DEF epoll_wait
    <3>2. ASSUME NEW f \in batch'
          PROVE  /\ f \in [of : Visitors \cup {Listen}, hup : BOOLEAN]
                 /\ f.of \in edges /\ f.hup = (f.of # Listen /\ ended[f.of] = "rst")
      <4>1. PICK e \in edges : f = [of |-> e, hup |-> e # Listen /\ ended[e] = "rst"]
        BY <3>1
      <4> DEFINE h == e # Listen /\ ended[e] = "rst"
      <4>2. h \in BOOLEAN /\ e \in Visitors \cup {Listen}
        BY DEF EpollInv
      <4> HIDE DEF h
      <4>3. f.of = e /\ f.hup = h /\ f \in [of : Visitors \cup {Listen}, hup : BOOLEAN]
        BY <4>1, <4>2 DEF h
      <4> QED BY <4>3 DEF h
    <3>3. \A e, f \in batch' : e.of = f.of => e = f
      BY <3>2
    <3> QED BY <1>1, <2>1, <3>1, <3>2, <3>3 DEF EpollInv, epoll_wait
  <2>4. TableInv' /\ GivenUpForAReason'
    BY <1>1, <2>1 DEF ReadyTypeOK, TableInv, GivenUpForAReason, epoll_wait, Unread
  <2> QED BY <2>2, <2>3, <2>4
<1>2. ASSUME NEW e \in batch, event(e) PROVE ReadyInv'
  <2>0. /\ doing.at = "events" /\ batch' = batch \ {e}
        /\ UNCHANGED <<style, sends, ended, recvLen, table, sockMax, reads, refused>>
    BY <1>2 DEF event
  <2>1. e.of \in Visitors \cup {Listen} /\ (e.of = Listen => ~e.hup)
    BY DEF EpollInv
  <2>2. CASE e.hup /\ closes(e.of) /\ worked_off(batch')
    <3>1. e.of \in Visitors /\ ended[e.of] = "rst" /\ \A f \in batch' : f.of # e.of
      BY <2>0, <2>1, <2>2 DEF EpollInv
    <3>2. doing' \in Doing /\ doing'.at \in {"wait", "events"}
      BY <1>0, <2>2
    <3>3. ReadyTypeOK'
      BY <2>0, <2>2, <3>2 DEF ReadyTypeOK, closes
    <3>4. EpollInv'
      BY <2>0, <2>2, <3>1, <3>2 DEF ReadyTypeOK, EpollInv, closes
    <3>5. TableInv' /\ GivenUpForAReason'
      BY <2>0, <2>2, <3>1, <3>2 DEF ReadyTypeOK, TableInv, GivenUpForAReason, closes, Unread
    <3> QED BY <3>3, <3>4, <3>5
  <2>3. CASE e.of = Listen /\ doing' = Idle("accept") /\ UNCHANGED <<conn, edges>>
    <3>1. doing' \in Doing /\ doing'.at = "accept"
      BY <1>0, <2>3
    <3>2. ReadyTypeOK'
      BY <2>0, <2>3, <3>1 DEF ReadyTypeOK
    <3>3. EpollInv'
      BY <2>0, <2>3, <3>1 DEF EpollInv
    <3>4. TableInv' /\ GivenUpForAReason'
      BY <2>0, <2>3, <3>1 DEF TableInv, GivenUpForAReason, Unread
    <3> QED BY <3>2, <3>3, <3>4
  <2>4. CASE /\ ~e.hup /\ e.of # Listen /\ UNCHANGED <<conn, edges>>
             /\ doing' = [at |-> "read", of |-> e.of, slot |-> 0]
    <3>1. e.of \in Visitors /\ conn[e.of] = "open" /\ \A f \in batch' : f.of # e.of
      BY <2>0, <2>1, <2>4 DEF EpollInv
    <3>2. doing' \in Doing /\ doing'.at = "read" /\ doing'.of = e.of
      BY <2>4, <3>1 DEF Doing
    <3>3. ReadyTypeOK'
      BY <2>0, <2>4, <3>2 DEF ReadyTypeOK
    <3>4. EpollInv'
      BY <2>0, <2>4, <3>1, <3>2 DEF EpollInv
    <3>5. TableInv' /\ GivenUpForAReason'
      BY <2>0, <2>4, <3>1, <3>2 DEF TableInv, GivenUpForAReason, Unread
    <3> QED BY <3>3, <3>4, <3>5
  <2> QED BY <1>2, <2>2, <2>3, <2>4 DEF event
<1>3. CASE accept_all
  <2>0. /\ doing.at = "accept"
        /\ UNCHANGED <<style, sends, ended, recvLen, table, sockMax, reads, batch>>
    BY <1>3 DEF accept_all
  <2>1. ASSUME NEW c \in Queue, conn' = [conn EXCEPT ![c] = "open"],
               edges' = IF HasNews(c) THEN edges \cup {c} ELSE edges, UNCHANGED <<doing, refused>>
        PROVE  ReadyInv'
    <3>1. ReadyTypeOK'
      BY <2>0, <2>1 DEF ReadyTypeOK
    <3>2. EpollInv'
      <4>1. c \in Visitors /\ conn[c] = "waiting" /\ conn'[c] = "open" /\ \A d \in Visitors \ {c} : conn'[d] = conn[d]
        BY <2>1 DEF ReadyTypeOK, Queue
      <4>2. edges' \subseteq edges \cup {c}
        BY <2>1
      <4> QED BY <2>0, <2>1, <4>1, <4>2 DEF EpollInv
    <3>3. TableInv' /\ GivenUpForAReason'
      BY <2>0, <2>1 DEF ReadyTypeOK, TableInv, GivenUpForAReason, Unread, Queue
    <3> QED BY <3>1, <3>2, <3>3
  <2>2. ASSUME worked_off(batch), UNCHANGED <<conn, edges>> PROVE ReadyInv'
    <3>1. doing' \in Doing /\ doing'.at \in {"wait", "events"}
      BY <1>0, <2>2
    <3>2. ReadyTypeOK'
      BY <2>0, <2>2, <3>1 DEF ReadyTypeOK
    <3>3. EpollInv'
      BY <2>0, <2>2, <3>1 DEF EpollInv
    <3>4. TableInv' /\ GivenUpForAReason'
      BY <2>0, <2>2, <3>1 DEF TableInv, GivenUpForAReason, Unread
    <3> QED BY <3>2, <3>3, <3>4
  <2> QED BY <1>3, <2>1, <2>2 DEF accept_all
<1>4. CASE read_all
  <2> DEFINE c == doing.of
  <2>0. /\ doing.at = "read" /\ UNCHANGED <<style, sends, ended, recvLen, table, sockMax, batch, refused>>
        /\ \/ /\ reads' = [reads EXCEPT ![c] = IF Unread(c) < BUFLEN THEN sends[c] ELSE @ + BUFLEN]
              /\ UNCHANGED <<conn, edges, doing>>
           \/ worked_off(batch) /\ UNCHANGED <<conn, edges, reads>>
           \/ /\ ended[c] = "rst" \/ (Unread(c) = 0 /\ ended[c] = "fin")
              /\ closes(c) /\ worked_off(batch) /\ UNCHANGED reads
    BY <1>4 DEF read_all
  <2>1. c \in Visitors /\ conn[c] = "open" /\ \A e \in batch : e.of # c
    BY <2>0 DEF EpollInv
  <2> HIDE DEF c
  <2>2. CASE /\ reads' = [reads EXCEPT ![c] = IF Unread(c) < BUFLEN THEN sends[c] ELSE @ + BUFLEN]
             /\ UNCHANGED <<conn, edges, doing>>
    <3>1. ReadyTypeOK'
      <4>1. sends[c] \in Nat /\ reads[c] + BUFLEN \in Nat
        BY <2>1, ReadyAssumption DEF ReadyTypeOK
      <4>2. reads' \in [Visitors -> Nat]
        BY <2>2, <4>1 DEF ReadyTypeOK
      <4> QED BY <2>0, <2>2, <4>2 DEF ReadyTypeOK
    <3>2. EpollInv' /\ TableInv'
      BY <2>0, <2>2 DEF EpollInv, TableInv
    <3>3. GivenUpForAReason'
      BY <2>0, <2>1, <2>2 DEF ReadyTypeOK, GivenUpForAReason, Unread, c
    <3> QED BY <3>1, <3>2, <3>3
  <2>3. CASE worked_off(batch) /\ UNCHANGED <<conn, edges, reads>>
    <3>1. doing' \in Doing /\ doing'.at \in {"wait", "events"}
      BY <1>0, <2>3
    <3>2. ReadyTypeOK'
      BY <2>0, <2>3, <3>1 DEF ReadyTypeOK
    <3>3. EpollInv'
      BY <2>0, <2>3, <3>1 DEF EpollInv
    <3>4. TableInv' /\ GivenUpForAReason'
      BY <2>0, <2>3, <3>1 DEF TableInv, GivenUpForAReason, Unread
    <3> QED BY <3>2, <3>3, <3>4
  <2>4. CASE /\ ended[c] = "rst" \/ (Unread(c) = 0 /\ ended[c] = "fin")
             /\ closes(c) /\ worked_off(batch) /\ UNCHANGED reads
    <3>1. doing' \in Doing /\ doing'.at \in {"wait", "events"}
      BY <1>0, <2>4
    <3>2. ReadyTypeOK'
      BY <2>0, <2>4, <3>1 DEF ReadyTypeOK, closes
    <3>3. EpollInv'
      BY <2>0, <2>1, <2>4, <3>1 DEF ReadyTypeOK, EpollInv, closes
    <3>4. TableInv' /\ GivenUpForAReason'
      BY <2>0, <2>1, <2>4, <3>1 DEF ReadyTypeOK, TableInv, GivenUpForAReason, Unread, closes
    <3> QED BY <3>2, <3>3, <3>4
  <2> QED BY <2>0, <2>2, <2>3, <2>4
<1> QED BY <1>1, <1>2, <1>3, <1>4

(* Where next_slot leaves the loop. *)
LEMMA NextSlot ==
    ASSUME NEW n \in Nat, NEW reported, next_slot(n, reported),
           reported \subseteq Visitors \cup {Listen}, DOMAIN table \subseteq Nat,
           \A j \in DOMAIN table : table'[j] \in Visitors \cup {NoVisitor}
    PROVE  /\ batch' \subseteq Visitors \cup {Listen}
           /\ doing' \in Doing /\ doing'.at \in {"wait", "accept", "recv"}
           /\ doing'.at = "recv" => /\ doing'.slot \in DOMAIN table
                                    /\ doing'.of \in Visitors /\ table'[doing'.slot] = doing'.of
<1> DEFINE left == {j \in DOMAIN table : j > n /\ table'[j] \in reported}
           j == CHOOSE k \in left : \A l \in left : k <= l
<1>1. CASE left = {}
  <2>1. /\ doing' = Idle(IF style = "select" /\ Listen \in reported THEN "accept" ELSE "wait")
        /\ batch' = {}
    BY <1>1 DEF next_slot, Slots
  <2> QED BY <2>1 DEF Idle, Doing
<1>2. CASE left # {}
  <2>1. j \in left
    <3>1. left \in SUBSET Nat
      OBVIOUS
    <3> HIDE DEF left
    <3>2. \E k \in left : \A l \in left : k <= l
      BY <1>2, <3>1, LeastNumber
    <3> QED BY <3>2
  <2>2. /\ doing' = [at |-> "recv", of |-> table'[j], slot |-> j]
        /\ batch' = {table'[k] : k \in left \ {j}} \cup (reported \cap {Listen})
    BY <1>2 DEF next_slot, Slots
  <2> HIDE DEF j
  <2>3. j \in DOMAIN table /\ j \in Nat /\ table'[j] \in Visitors
    BY <2>1, ReadyAssumption
  <2>4. batch' \subseteq Visitors \cup {Listen}
    BY <2>2
  <2> QED BY <2>2, <2>3, <2>4 DEF Doing
<1> QED BY <1>1, <1>2

(* A step of selecttest.c or polltest.c. *)
LEMMA TableStep ==
    ASSUME ReadyInv, style # "epoll", select \/ accept_one \/ recv
    PROVE  ReadyInv'
<1> USE DEF ReadyInv, table_keep
<1>0. \A at \in {"wait", "accept", "ended"} : Idle(at) \in Doing /\ Idle(at).at = at
  BY ReadyAssumption DEF Idle, Doing
<1>1. CASE select
  <2> DEFINE reported == {c \in Visitors : HasNews(c) /\ \E k \in Slots : table[k] = c}
                         \cup (IF Queue # {} THEN {Listen} ELSE {})
  <2>1. /\ UNCHANGED <<style, sends, ended, edges, conn, reads, recvLen, sockMax, refused, table>>
        /\ \/ doing' = Idle("accept") /\ batch' = reported
           \/ next_slot(0, reported)
    BY <1>1 DEF select
  <2>2. reported \subseteq Visitors \cup {Listen}
    OBVIOUS
  <2> HIDE DEF reported
  <2>3. /\ batch' \subseteq Visitors \cup {Listen}
        /\ doing' \in Doing /\ doing'.at \in {"wait", "accept", "recv"}
        /\ doing'.at = "recv" => /\ doing'.slot \in DOMAIN table
                                 /\ doing'.of \in Visitors /\ table'[doing'.slot] = doing'.of
    <3>1. CASE doing' = Idle("accept") /\ batch' = reported
      BY <1>0, <2>2, <3>1
    <3>2. CASE next_slot(0, reported)
      <4>1. \A k \in DOMAIN table : table'[k] \in Visitors \cup {NoVisitor}
        BY <2>1 DEF ReadyTypeOK
      <4> QED BY <2>2, <3>2, <4>1, NextSlot DEF ReadyTypeOK
    <3> QED BY <2>1, <3>1, <3>2
  <2>4. ReadyTypeOK'
    BY <2>1, <2>3 DEF ReadyTypeOK
  <2>5. EpollInv' /\ TableInv'
    BY <2>1, <2>3 DEF EpollInv, TableInv
  <2>6. GivenUpForAReason'
    BY <2>1, <2>3, ReadyAssumption DEF GivenUpForAReason, Unread, TableInv
  <2> QED BY <2>4, <2>5, <2>6
<1>2. CASE accept_one
  <2> DEFINE free == {k \in DOMAIN table : table[k] = NoVisitor}
             j == CHOOSE k \in free : \A l \in free : k <= l
             stops(at) == doing' = Idle(at) /\ batch' = {}
             goes_on(reported) == IF style = "poll" THEN next_slot(0, reported) ELSE stops("wait")
             Seated(c) == /\ free # {}
                          /\ conn' = [conn EXCEPT ![c] = "open"] /\ table' = [table EXCEPT ![j] = c]
                          /\ goes_on(batch) \/ goes_on(batch \cup {c})
             Lost(c) == /\ conn' = [conn EXCEPT ![c] = "lost"] /\ UNCHANGED table
                        /\ stops("ended") \/ stops("wait")
             Failed == UNCHANGED <<conn, table>> /\ (stops("ended") \/ goes_on(batch))
  <2>1. /\ UNCHANGED <<style, sends, ended, edges, reads, recvLen, refused>>
        /\ (\E c \in Queue : Seated(c)) \/ (\E c \in Queue : Lost(c)) \/ Failed
    BY <1>2 DEF accept_one, Slots
  <2>2. ASSUME NEW reported, reported \subseteq Visitors \cup {Listen}, goes_on(reported),
               \A k \in DOMAIN table : table'[k] \in Visitors \cup {NoVisitor}
        PROVE  /\ batch' \subseteq Visitors \cup {Listen}
               /\ doing' \in Doing /\ doing'.at \in {"wait", "accept", "recv"}
               /\ doing'.at = "recv" => /\ doing'.slot \in DOMAIN table
                                        /\ doing'.of \in Visitors /\ table'[doing'.slot] = doing'.of
    <3>1. CASE next_slot(0, reported)
      BY <2>2, <3>1, NextSlot DEF ReadyTypeOK
    <3>2. CASE stops("wait")
      BY <1>0, <3>2
    <3> QED BY <2>2, <3>1, <3>2
  <2>3. ASSUME NEW c \in Queue, Seated(c) PROVE ReadyInv'
    <3>0. c \in Visitors /\ conn[c] = "waiting"
      BY <2>3 DEF Queue
    <3>1. j \in DOMAIN table /\ table[j] = NoVisitor
      <4>1. free \in SUBSET Nat
        BY DEF ReadyTypeOK
      <4>2. \E k \in free : \A l \in free : k <= l
        <5> HIDE DEF free
        <5> QED BY <2>3, <4>1, LeastNumber
      <4>3. j \in free
        BY <4>2
      <4> QED BY <4>3
    <3>2. conn' = [conn EXCEPT ![c] = "open"] /\ table' = [table EXCEPT ![j] = c]
      BY <2>3
    <3>3. PICK reported \in {batch, batch \cup {c}} : goes_on(reported)
      BY <2>3
    <3> HIDE DEF j, goes_on
    <3>4. /\ DOMAIN table' = DOMAIN table /\ table' \in [DOMAIN table -> Visitors \cup {NoVisitor}]
          /\ conn' \in [Visitors -> {"none", "waiting", "open", "closed", "lost"}]
      BY <3>0, <3>1, <3>2 DEF ReadyTypeOK
    <3>5. /\ batch' \subseteq Visitors \cup {Listen}
          /\ doing' \in Doing /\ doing'.at \in {"wait", "accept", "recv"}
          /\ doing'.at = "recv" => /\ doing'.slot \in DOMAIN table
                                   /\ doing'.of \in Visitors /\ table'[doing'.slot] = doing'.of
      <4>1. reported \subseteq Visitors \cup {Listen}
        BY <3>0, <3>3 DEF TableInv
      <4> QED BY <2>2, <3>3, <3>4, <4>1
    <3>6. ReadyTypeOK'
      BY <2>1, <3>4, <3>5 DEF ReadyTypeOK
    <3>7. /\ \A k \in DOMAIN table : table[k] # NoVisitor => table[k] \in Visitors /\ conn[table[k]] = "open"
          /\ \A k \in DOMAIN table : table[k] # c
      BY <3>0, ReadyAssumption DEF TableInv, ReadyTypeOK
    <3>8. \A k \in DOMAIN table : table'[k] # NoVisitor => conn'[table'[k]] = "open"
      BY <3>0, <3>1, <3>2, <3>7 DEF ReadyTypeOK
    <3>9. \A k, l \in DOMAIN table : table'[k] = table'[l] /\ table'[k] # NoVisitor => k = l
      BY <3>0, <3>1, <3>2, <3>7 DEF ReadyTypeOK, TableInv
    <3>10. EpollInv' /\ TableInv'
      BY <2>1, <3>4, <3>5, <3>8, <3>9 DEF EpollInv, TableInv
    <3>11. GivenUpForAReason'
      BY <2>1, <3>0, <3>2, <3>5, <3>8, ReadyAssumption DEF GivenUpForAReason, Unread, ReadyTypeOK
    <3> QED BY <3>6, <3>10, <3>11
  <2>4. ASSUME NEW c \in Queue, Lost(c) PROVE ReadyInv'
    <3>0. c \in Visitors /\ conn[c] = "waiting"
      BY <2>4 DEF Queue
    <3>1. /\ conn' = [conn EXCEPT ![c] = "lost"] /\ UNCHANGED table
          /\ doing' \in Doing /\ doing'.at \in {"ended", "wait"} /\ batch' = {}
      BY <1>0, <2>4
    <3>2. ReadyTypeOK'
      BY <2>1, <3>1 DEF ReadyTypeOK
    <3>3. EpollInv' /\ TableInv'
      BY <2>1, <3>0, <3>1 DEF EpollInv, TableInv, ReadyTypeOK
    <3>4. GivenUpForAReason'
      BY <2>1, <3>0, <3>1 DEF GivenUpForAReason, Unread, ReadyTypeOK
    <3> QED BY <3>2, <3>3, <3>4
  <2>5. CASE Failed
    <3>1. UNCHANGED <<conn, table>>
      BY <2>5
    <3>2. /\ batch' \subseteq Visitors \cup {Listen}
          /\ doing' \in Doing /\ doing'.at \in {"wait", "accept", "recv", "ended"}
          /\ doing'.at = "recv" => /\ doing'.slot \in DOMAIN table
                                   /\ doing'.of \in Visitors /\ table'[doing'.slot] = doing'.of
      <4>1. CASE stops("ended")
        BY <1>0, <4>1
      <4>2. CASE goes_on(batch)
        <5> HIDE DEF goes_on
        <5>1. /\ batch \subseteq Visitors \cup {Listen}
              /\ \A k \in DOMAIN table : table'[k] \in Visitors \cup {NoVisitor}
          BY <3>1 DEF TableInv, ReadyTypeOK
        <5> QED BY <2>2, <4>2, <5>1
      <4> QED BY <2>5, <4>1, <4>2
    <3>3. ReadyTypeOK'
      BY <2>1, <3>1, <3>2 DEF ReadyTypeOK
    <3>4. EpollInv' /\ TableInv'
      BY <2>1, <3>1, <3>2 DEF EpollInv, TableInv
    <3>5. GivenUpForAReason'
      BY <2>1, <3>1, <3>2, ReadyAssumption DEF GivenUpForAReason, Unread, TableInv
    <3> QED BY <3>3, <3>4, <3>5
  <2> HIDE DEF Seated, Lost, Failed
  <2> QED BY <2>1, <2>3, <2>4, <2>5
<1>3. CASE recv
  <2> DEFINE c == doing.of
             s == doing.slot
  <2>0. /\ doing.at = "recv" /\ UNCHANGED <<style, sends, ended, edges, sockMax, refused>>
        /\ c \in Visitors /\ s \in DOMAIN table /\ s \in Nat /\ table[s] = c /\ conn[c] = "open"
        /\ batch \subseteq Visitors \cup {Listen}
    BY <1>3 DEF recv, TableInv, GivenUpForAReason, ReadyTypeOK
  <2>1. \/ \E n \in Nat :
             /\ n > 0 /\ reads' = [reads EXCEPT ![c] = @ + n] /\ UNCHANGED <<conn, table>>
             /\ \/ recvLen' = recvLen + n /\ UNCHANGED <<doing, batch>>
                \/ recvLen' = 0 /\ next_slot(s, batch)
        \/ /\ ended[c] = "rst" \/ (Unread(c) = 0 /\ ended[c] = "fin")
           /\ conn' = [conn EXCEPT ![c] = "closed"] /\ table' = [table EXCEPT ![s] = NoVisitor]
           /\ recvLen' = 0 /\ next_slot(s, batch) /\ UNCHANGED reads
    <3> DEFINE room == REVLEN - recvLen
               n == IF Unread(c) < room THEN Unread(c) ELSE room
    <3>1. n \in Int
      BY <2>0, ReadyAssumption DEF ReadyTypeOK, Unread
    <3>2. \/ /\ n > 0 /\ reads' = [reads EXCEPT ![c] = @ + n] /\ UNCHANGED <<conn, table>>
             /\ \/ recvLen' = recvLen + n /\ UNCHANGED <<doing, batch>>
                \/ recvLen' = 0 /\ next_slot(s, batch)
          \/ /\ ended[c] = "rst" \/ (Unread(c) = 0 /\ ended[c] = "fin")
             /\ conn' = [conn EXCEPT ![c] = "closed"] /\ table' = [table EXCEPT ![s] = NoVisitor]
             /\ recvLen' = 0 /\ next_slot(s, batch) /\ UNCHANGED reads
      BY <1>3 DEF recv
    <3> HIDE DEF n, c, s
    <3>3. n > 0 => n \in Nat
      BY <3>1
    <3> QED BY <3>2, <3>3
  <2> HIDE DEF c, s
  <2>2. ASSUME NEW n \in Nat, n > 0, reads' = [reads EXCEPT ![c] = @ + n], UNCHANGED <<conn, table>>,
               \/ recvLen' = recvLen + n /\ UNCHANGED <<doing, batch>>
               \/ recvLen' = 0 /\ next_slot(s, batch)
        PROVE  ReadyInv'
    <3>1. /\ batch' \subseteq Visitors \cup {Listen}
          /\ doing' \in Doing /\ doing'.at \in {"wait", "accept", "recv"}
          /\ doing'.at = "recv" => /\ doing'.slot \in DOMAIN table
                                   /\ doing'.of \in Visitors /\ table'[doing'.slot] = doing'.of
      <4>1. CASE UNCHANGED <<doing, batch>>
        BY <2>0, <2>2, <4>1 DEF ReadyTypeOK, c, s
      <4>2. CASE next_slot(s, batch)
        <5>1. \A k \in DOMAIN table : table'[k] \in Visitors \cup {NoVisitor}
          BY <2>2 DEF ReadyTypeOK
        <5> QED BY <2>0, <4>2, <5>1, NextSlot DEF ReadyTypeOK
      <4> QED BY <2>2, <4>1, <4>2
    <3>2. ReadyTypeOK'
      <4>1. recvLen' \in Nat
        BY <2>2 DEF ReadyTypeOK
      <4>2. reads' \in [Visitors -> Nat]
        BY <2>0, <2>2 DEF ReadyTypeOK
      <4> QED BY <2>0, <2>2, <3>1, <4>1, <4>2 DEF ReadyTypeOK
    <3>3. EpollInv' /\ TableInv'
      BY <2>0, <2>2, <3>1 DEF EpollInv, TableInv
    <3>4. GivenUpForAReason'
      <4>1. doing'.at \in {"read", "recv"} => conn'[doing'.of] = "open"
        BY <2>2, <3>1, ReadyAssumption DEF TableInv
      <4>2. \A d \in Visitors : conn[d] = "closed" => d # c /\ reads'[d] = reads[d]
        BY <2>0, <2>2 DEF ReadyTypeOK
      <4> QED BY <2>0, <2>2, <4>1, <4>2 DEF GivenUpForAReason, Unread
    <3> QED BY <3>2, <3>3, <3>4
  <2>3. ASSUME ended[c] = "rst" \/ (Unread(c) = 0 /\ ended[c] = "fin"),
               conn' = [conn EXCEPT ![c] = "closed"], table' = [table EXCEPT ![s] = NoVisitor],
               recvLen' = 0, next_slot(s, batch), UNCHANGED reads
        PROVE  ReadyInv'
    <3>1. /\ DOMAIN table' = DOMAIN table /\ table' \in [DOMAIN table -> Visitors \cup {NoVisitor}]
          /\ conn' \in [Visitors -> {"none", "waiting", "open", "closed", "lost"}]
      BY <2>0, <2>3 DEF ReadyTypeOK
    <3>2. /\ batch' \subseteq Visitors \cup {Listen}
          /\ doing' \in Doing /\ doing'.at \in {"wait", "accept", "recv"}
          /\ doing'.at = "recv" => /\ doing'.slot \in DOMAIN table
                                   /\ doing'.of \in Visitors /\ table'[doing'.slot] = doing'.of
      BY <2>0, <2>3, <3>1, NextSlot DEF ReadyTypeOK
    <3>3. ReadyTypeOK'
      BY <2>0, <2>3, <3>1, <3>2 DEF ReadyTypeOK
    <3>4. \A k \in DOMAIN table : table'[k] # NoVisitor => table'[k] = table[k] /\ table[k] # c
      BY <2>0, <2>3, ReadyAssumption DEF ReadyTypeOK, TableInv
    <3>5. \A k \in DOMAIN table : table'[k] # NoVisitor => conn'[table'[k]] = "open"
      BY <2>0, <2>3, <3>4 DEF ReadyTypeOK, TableInv
    <3>6. \A k, l \in DOMAIN table : table'[k] = table'[l] /\ table'[k] # NoVisitor => k = l
      BY <3>4 DEF TableInv
    <3>7. EpollInv' /\ TableInv'
      BY <2>0, <3>1, <3>2, <3>5, <3>6 DEF EpollInv, TableInv
    <3>8. GivenUpForAReason'
      <4>1. doing'.at \in {"read", "recv"} => conn'[doing'.of] = "open"
        BY <3>2, <3>5, ReadyAssumption
      <4> QED BY <2>0, <2>3, <4>1 DEF GivenUpForAReason, Unread, ReadyTypeOK
    <3> QED BY <3>3, <3>7, <3>8
  <2> QED BY <2>1, <2>2, <2>3
<1> QED BY <1>1, <1>2, <1>3

(* Every step of the servers keeps the invariant. *)
LEMMA ReadyStepKeeps == ReadyInv /\ [ReadyNext]_readyVars => ReadyInv'
<1> SUFFICES ASSUME ReadyInv, [ReadyNext]_readyVars PROVE ReadyInv'
  OBVIOUS
<1>1. CASE ReadyStep
  <2>1. CASE style = "epoll"
    <3>1. doing.at # "recv"
      BY <2>1 DEF ReadyInv, EpollInv
    <3>2. ~select /\ ~accept_one /\ ~recv
      BY <2>1, <3>1 DEF select, accept_one, recv
    <3> QED BY <1>1, <2>1, <3>2, EpollStep DEF ReadyStep
  <2>2. CASE style # "epoll"
    <3>1. doing.at # "read"
      BY <2>2 DEF ReadyInv, TableInv
    <3>2. ~epoll_wait /\ ~accept_all /\ ~read_all
      BY <2>2, <3>1 DEF epoll_wait, accept_all, read_all
    <3> QED BY <1>1, <2>2, <3>2, TableStep DEF ReadyStep
  <2> QED BY <2>1, <2>2
<1>2. CASE \E c \in Visitors : connects(c) \/ sends_on(c) \/ ends(c)
  BY <1>2, VisitorsStep
<1>3. CASE UNCHANGED readyVars
  BY <1>3 DEF readyVars, ReadyInv, ReadyTypeOK, EpollInv, TableInv, GivenUpForAReason, Unread
<1> QED BY <1>1, <1>2, <1>3 DEF ReadyNext

(* The servers around epoll, select and poll read a client only while it   *)
(* is connected, and give it up only if it has reset, or has ended and all *)
(* it sent was read (read_all, recv).                                      *)
THEOREM GivenUpForAReasonHolds == ReadySpec => []GivenUpForAReason
<1>1. ReadyInv => GivenUpForAReason
  BY DEF ReadyInv
<1> QED BY <1>1, ReadyInitially, ReadyStepKeeps, PTL DEF ReadySpec
=============================================================================
