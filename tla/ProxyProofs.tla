----------------------------- MODULE ProxyProofs -----------------------------
(***************************************************************************)
(* Proofs about the proxy, for any number of clients and descriptors.      *)
(***************************************************************************)
EXTENDS Proxy, WellFoundedInduction, TLAPS

(* The least-number principle, for sets: what a first free descriptor or a *)
(* first free place is.                                                    *)
LEMMA LeastNumber ==
    ASSUME NEW T \in SUBSET Nat, T # {}
    PROVE  \E x \in T : \A y \in T : x <= y
<1>1. PICK x \in T : \A y \in T : ~(y < x)
  <2> DEFINE R == OpToRel(<, Nat)
  <2>1. IsWellFoundedOn(R, Nat)
    BY NatLessThanWellFounded
  <2>2. \A x, y \in Nat : y < x => <<y, x>> \in R
    BY DEF OpToRel
  <2> HIDE DEF R
  <2>3. PICK x \in T : \A y \in T : <<y, x>> \notin R
    BY <2>1, WFMin
  <2> QED BY <2>2, <2>3
<1> QED BY <1>1

(* What the operators on sequences give. *)
LEMMA Appended ==
    ASSUME NEW S, NEW s \in Seq(S), NEW x \in S
    PROVE  /\ Append(s, x) \in Seq(S) /\ Len(Append(s, x)) = Len(s) + 1
           /\ \A k \in 1..Len(s) : Append(s, x)[k] = s[k]
           /\ Append(s, x)[Len(s) + 1] = x
  OBVIOUS

LEMMA Joined ==
    ASSUME NEW S, NEW s \in Seq(S), NEW t \in Seq(S)
    PROVE  /\ s \o t \in Seq(S) /\ Len(s \o t) = Len(s) + Len(t)
           /\ \A k \in 1..(Len(s) + Len(t)) : (s \o t)[k] = IF k <= Len(s) THEN s[k] ELSE t[k - Len(s)]
  OBVIOUS

LEMMA WithoutHead ==
    ASSUME NEW S, NEW s \in Seq(S), s # <<>>
    PROVE  /\ Len(s) \in Nat \ {0} /\ Head(s) = s[1] /\ s[1] \in S
           /\ Tail(s) \in Seq(S) /\ Len(Tail(s)) = Len(s) - 1
           /\ \A k \in 1..(Len(s) - 1) : Tail(s)[k] = s[k + 1]
  OBVIOUS

LEMMA CutOff ==
    ASSUME NEW S, NEW s \in Seq(S), NEW n \in 1..Len(s)
    PROVE  SubSeq(s, n + 1, Len(s)) \in Seq(S)
  OBVIOUS

LEMMA Replaced ==
    ASSUME NEW S, NEW s \in Seq(S), NEW k \in 1..Len(s), NEW x \in S
    PROVE  [s EXCEPT ![k] = x] \in Seq(S)
  OBVIOUS

LEMMA Wider ==
    ASSUME NEW S, NEW T, S \subseteq T, NEW s \in Seq(S)
    PROVE  s \in Seq(T)
  OBVIOUS
-----------------------------------------------------------------------------
(* socket/proxy.  No peer is accepted twice.                               *)
PeersApart ==
    /\ \A c, d \in DOMAIN client_list : client_list[c].peer = client_list[d].peer => c = d
    /\ \A k, l \in DOMAIN backlog : backlog[k] = backlog[l] => k = l
    /\ \A c \in DOMAIN client_list, k \in DOMAIN backlog : client_list[c].peer # backlog[k]

(* The listening socket comes first in the fdlist, each client is there    *)
(* once, and what poll has reported is still so when the loop comes to it. *)
PollInv ==
    /\ listenfd \in open
    /\ \A k \in DOMAIN pollfds : pollfds[k].owner = "FD_LISTEN" => k = 1
    /\ \A k, l \in DOMAIN pollfds :
          pollfds[k].owner = "FD_CLIENT" /\ pollfds[l].owner = "FD_CLIENT" /\ pollfds[k].fd = pollfds[l].fd => k = l
    /\ pc = "scan" =>
          \A k \in DOMAIN pollfds :
              k >= i /\ pollfds[k].revents =>
                  /\ pollfds[k].owner = "FD_LISTEN" => backlog # <<>>
                  /\ pollfds[k].owner = "FD_CLIENT" =>
                        \E c \in DOMAIN client_list :
                            client_list[c].fd = pollfds[k].fd /\ inbox[client_list[c].peer] # <<>>

EndInv ==
    /\ pc = "exit" => open = Fds
    /\ pc = "abort" =>
          \E c \in DOMAIN client_list :
              /\ client_list[c].fd = pollfds[i].fd
              /\ inbox[client_list[c].peer] # <<>>
              /\ Head(inbox[client_list[c].peer]) \in {"eof", "nohost"}

(* The inductive invariant of the proxy. *)
ProxyInv == TypeOK /\ OwnDescriptors /\ PeersApart /\ PollInv /\ EndInv

(* A value built in N steps, each from the one before: there is one, by    *)
(* the least number of steps for which there is none.                      *)
LEMMA BuiltInSteps ==
    ASSUME NEW S, NEW b \in S, NEW N \in Nat, NEW F \in [1..N -> [S -> S]]
    PROVE  \E g \in [0..N -> S] : g[0] = b /\ \A k \in 1..N : g[k] = F[k][g[k - 1]]
<1> DEFINE Built(m) == \E g \in [0..m -> S] : g[0] = b /\ \A k \in 1..m : g[k] = F[k][g[k - 1]]
           T == {m \in 0..N : ~Built(m)}
<1>1. SUFFICES ASSUME T # {} PROVE FALSE
  <2>1. N \notin T => Built(N)
    OBVIOUS
  <2> QED BY <2>1
<1>2. T \in SUBSET Nat
  OBVIOUS
<1>3. PICK m \in T : \A y \in T : m <= y
  <2> HIDE DEF T
  <2> QED BY <1>1, <1>2, LeastNumber
<1>4. m \in 0..N /\ ~Built(m)
  OBVIOUS
<1>5. m # 0
  <2>1. Built(0)
    <3> DEFINE g == [x \in 0..0 |-> b]
    <3>1. g \in [0..0 -> S] /\ g[0] = b /\ \A k \in 1..0 : g[k] = F[k][g[k - 1]]
      OBVIOUS
    <3> QED BY <3>1
  <2> QED BY <1>4, <2>1
<1>6. m - 1 \in 0..N /\ m \in 1..N
  BY <1>4, <1>5
<1>7. Built(m - 1)
  <2>1. m - 1 \notin T
    BY <1>3, <1>6
  <2> QED BY <1>6, <2>1
<1>8. PICK g \in [0..(m - 1) -> S] : g[0] = b /\ \A k \in 1..(m - 1) : g[k] = F[k][g[k - 1]]
  BY <1>7
<1> DEFINE h == [x \in 0..m |-> IF x = m THEN F[m][g[m - 1]] ELSE g[x]]
<1>9. F[m][g[m - 1]] \in S
  BY <1>6
<1>10. h \in [0..m -> S] /\ h[0] = b
  BY <1>5, <1>6, <1>8, <1>9
<1>11. ASSUME NEW k \in 1..m PROVE h[k] = F[k][h[k - 1]]
  <2>1. k - 1 \in 0..m /\ k - 1 # m /\ h[k - 1] = g[k - 1]
    BY <1>6
  <2>2. CASE k = m
    BY <2>1, <2>2
  <2>3. CASE k # m
    <3>1. k \in 1..(m - 1)
      BY <1>6, <2>3
    <3> QED BY <1>8, <2>1, <2>3, <3>1
  <2> QED BY <2>2, <2>3
<1>12. Built(m)
  <2> HIDE DEF h
  <2> QED BY <1>10, <1>11
<1> QED BY <1>4, <1>12

PolledServers == Seq([owner : {"FD_SERVER"}, fd : Fds \cup {-1}, revents : BOOLEAN])

(* server_get_fds gives entries of servers. *)
LEMMA ServerEntries ==
    ASSUME TypeOK
    PROVE  server_get_fds \in PolledServers
<1> DEFINE N == Len(client_list)
           E(n) == entry("FD_SERVER", client_list[n].server_fd, client_list[n].server_fd \in answers)
           Step(n, s) == IF client_list[n].server_fd = 0 THEN s ELSE Append(s, E(n))
           F == [n \in 1..N |-> [s \in PolledServers |-> Step(n, s)]]
<1>1. N \in Nat
  BY DEF TypeOK
<1>2. ASSUME NEW n \in 1..N, NEW s \in PolledServers PROVE Step(n, s) \in PolledServers
  <2>1. client_list[n].server_fd \in Fds \cup {0, -1}
    <3>1. client_list[n] \in Client
      BY <1>1 DEF TypeOK
    <3> QED BY <3>1 DEF Client
  <2>2. client_list[n].server_fd # 0 => E(n) \in [owner : {"FD_SERVER"}, fd : Fds \cup {-1}, revents : BOOLEAN]
    <3> DEFINE r == client_list[n].server_fd \in answers
    <3>1. r \in BOOLEAN
      OBVIOUS
    <3> HIDE DEF r
    <3>2. E(n) = [owner |-> "FD_SERVER", fd |-> client_list[n].server_fd, revents |-> r]
      BY DEF entry, r
    <3> QED BY <2>1, <3>1, <3>2
  <2> HIDE DEF E
  <2>3. CASE client_list[n].server_fd = 0
    BY <2>3
  <2>4. CASE client_list[n].server_fd # 0
    <3>1. Append(s, E(n)) \in PolledServers
      BY <2>2, <2>4 DEF PolledServers
    <3> QED BY <2>4, <3>1
  <2> QED BY <2>3, <2>4
<1>3. <<>> \in PolledServers
  BY DEF PolledServers
<1>4. F \in [1..N -> [PolledServers -> PolledServers]]
  BY <1>2
<1>5. PICK g \in [0..N -> PolledServers] : g[0] = <<>> /\ \A k \in 1..N : g[k] = F[k][g[k - 1]]
  <2> HIDE DEF F, N
  <2> QED BY <1>1, <1>3, <1>4, BuiltInSteps
<1>6. ASSUME NEW k \in 1..N PROVE k - 1 \in 0..N /\ g[k] = Step(k, g[k - 1])
  <2>1. k - 1 \in 0..N
    BY <1>1
  <2>2. g[k - 1] \in PolledServers
    BY <1>5, <2>1
  <2>3. g[k] = F[k][g[k - 1]]
    BY <1>5
  <2> HIDE DEF Step, N
  <2> QED BY <2>1, <2>2, <2>3
<1>7. g = [n \in 0..N |-> IF n = 0 THEN <<>> ELSE Step(n, g[n - 1])]
  <2> HIDE DEF Step, N
  <2> QED BY <1>1, <1>5, <1>6
<1>8. server_fds = [n \in 0..N |-> IF n = 0 THEN <<>> ELSE Step(n, server_fds[n - 1])]
  <2>1. \E f : f = [n \in 0..N |-> IF n = 0 THEN <<>> ELSE Step(n, f[n - 1])]
    BY <1>7
  <2> QED BY <2>1, Zenon DEF server_fds
<1> HIDE DEF F, E
<1> DEFINE T == {n \in 0..N : server_fds[n] \notin PolledServers}
<1>9. SUFFICES ASSUME T # {} PROVE FALSE
  <2>1. N \in 0..N
    BY <1>1
  <2> QED BY <1>1, <2>1 DEF server_get_fds
<1>10. T \in SUBSET Nat
  OBVIOUS
<1>11. PICK m \in T : \A y \in T : m <= y
  <2> HIDE DEF T
  <2> QED BY <1>9, <1>10, LeastNumber
<1>12. m \in 0..N /\ server_fds[m] \notin PolledServers
  OBVIOUS
<1>13. m # 0
  <2>1. server_fds[0] = <<>>
    BY <1>1, <1>8
  <2> QED BY <1>3, <1>12, <2>1
<1>14. m \in 1..N /\ m - 1 \in 0..N
  BY <1>1, <1>12, <1>13
<1>15. server_fds[m - 1] \in PolledServers
  <2>1. m - 1 \notin T
    BY <1>11, <1>14
  <2> QED BY <1>14, <2>1
<1>16. server_fds[m] = Step(m, server_fds[m - 1])
  <2> HIDE DEF Step, N
  <2> QED BY <1>8, <1>12, <1>13
<1> QED BY <1>2, <1>12, <1>14, <1>15, <1>16

Polled == [owner : Owners, fd : Fds \cup {-1}, revents : BOOLEAN]

LEMMA ProxyInitially == Init => ProxyInv
<1> SUFFICES ASSUME Init PROVE ProxyInv
  OBVIOUS
<1>1. client_list = <<>> /\ pollfds = <<>> /\ backlog = <<>> /\ DOMAIN <<>> = {} /\ Len(<<>>) = 0
  BY DEF Init
<1>2. TypeOK
  BY <1>1, ProxyAssumption DEF Init, TypeOK, Fds, listenfd
<1>3. OwnDescriptors /\ PeersApart /\ PollInv /\ EndInv
  BY <1>1 DEF Init, OwnDescriptors, PeersApart, PollInv, EndInv
<1> QED BY <1>2, <1>3 DEF ProxyInv

(* The types, as the steps use them. *)
LEMMA ProxyTypes ==
    ASSUME TypeOK
    PROVE  /\ Len(client_list) \in Nat /\ DOMAIN client_list = 1..Len(client_list)
           /\ \A c \in DOMAIN client_list :
                /\ client_list[c] \in Client /\ client_list[c].fd \in Fds
                /\ client_list[c].server_fd \in Fds \cup {0, -1} /\ client_list[c].peer \in Peers
           /\ Len(pollfds) \in Nat /\ DOMAIN pollfds = 1..Len(pollfds)
           /\ \A k \in DOMAIN pollfds : pollfds[k] \in Polled
           /\ Len(backlog) \in Nat /\ DOMAIN backlog = 1..Len(backlog)
           /\ \A k \in DOMAIN backlog : backlog[k] \in Peers
           /\ \A p \in Peers : inbox[p] \in Seq(Messages)
<1>1. Len(client_list) \in Nat /\ DOMAIN client_list = 1..Len(client_list)
  BY DEF TypeOK
<1>2. \A c \in DOMAIN client_list : client_list[c] \in Client
  BY <1>1 DEF TypeOK
<1>3. \A x \in Client : x.fd \in Fds /\ x.server_fd \in Fds \cup {0, -1} /\ x.peer \in Peers
  BY DEF Client
<1>4. Len(pollfds) \in Nat /\ DOMAIN pollfds = 1..Len(pollfds)
  BY DEF TypeOK
<1>5. pollfds \in Seq(Polled)
  BY DEF TypeOK, Polled
<1>6. \A k \in DOMAIN pollfds : pollfds[k] \in Polled
  BY <1>4, <1>5
<1>7. /\ Len(backlog) \in Nat /\ DOMAIN backlog = 1..Len(backlog)
      /\ \A k \in DOMAIN backlog : backlog[k] \in Peers
  BY DEF TypeOK
<1>8. \A p \in Peers : inbox[p] \in Seq(Messages)
  BY DEF TypeOK
<1> QED BY <1>1, <1>2, <1>3, <1>4, <1>6, <1>7, <1>8

(* A step of a remote side. *)
LEMMA RemoteStep ==
    ASSUME ProxyInv, (\E p \in Peers : Connect(p) \/ Send(p)) \/ (\E f \in Fds : Answer(f))
    PROVE  ProxyInv'
<1> USE DEF ProxyInv
<1>1. ASSUME NEW p \in Peers, Connect(p) PROVE ProxyInv'
  <2>1. /\ UNCHANGED <<client_list, open, pollfds, i, pc, inbox, sent, forwarded, answers, relayed>>
        /\ backlog' = Append(backlog, p) /\ ~connected(p)
    BY <1>1 DEF Connect
  <2>2. /\ backlog' \in Seq(Peers) /\ DOMAIN backlog' = 1..(Len(backlog) + 1) /\ backlog' # <<>>
        /\ \A k \in DOMAIN backlog' : backlog'[k] = IF k \in DOMAIN backlog THEN backlog[k] ELSE p
        /\ \A k \in DOMAIN backlog' \ DOMAIN backlog : k = Len(backlog) + 1
    <3>1. backlog \in Seq(Peers) /\ Len(backlog) \in Nat /\ DOMAIN backlog = 1..Len(backlog)
      BY ProxyTypes DEF TypeOK
    <3>2. /\ backlog' \in Seq(Peers) /\ Len(backlog') = Len(backlog) + 1
          /\ \A k \in 1..Len(backlog) : backlog'[k] = backlog[k]
          /\ backlog'[Len(backlog) + 1] = p
      BY <2>1, <3>1, Appended
    <3>3. DOMAIN backlog' = 1..(Len(backlog) + 1) /\ backlog' # <<>>
      BY <3>1, <3>2
    <3> QED BY <3>1, <3>2, <3>3
  <2>3. /\ \A c \in DOMAIN client_list : client_list[c].peer # p
        /\ \A k \in DOMAIN backlog : backlog[k] # p
    BY <2>1 DEF connected, peers
  <2>4. TypeOK'
    BY <2>1, <2>2 DEF TypeOK
  <2>5. OwnDescriptors' /\ EndInv'
    BY <2>1 DEF OwnDescriptors, EndInv
  <2>6. PeersApart'
    BY <2>1, <2>2, <2>3 DEF PeersApart
  <2>7. PollInv'
    BY <2>1, <2>2 DEF PollInv
  <2> QED BY <2>4, <2>5, <2>6, <2>7
<1>2. ASSUME NEW p \in Peers, Send(p) PROVE ProxyInv'
  <2>1. /\ UNCHANGED <<client_list, open, pollfds, i, pc, backlog, forwarded, answers, relayed>>
        /\ \E msg \in Messages : inbox' = [inbox EXCEPT ![p] = Append(@, msg)]
        /\ sent' = sent \/ sent' = [sent EXCEPT ![p] = @ + 1]
    BY <1>2 DEF Send, Messages
  <2>2. PICK msg \in Messages : inbox' = [inbox EXCEPT ![p] = Append(@, msg)]
    BY <2>1
  <2>3. /\ Append(inbox[p], msg) \in Seq(Messages) /\ Append(inbox[p], msg) # <<>>
        /\ inbox[p] # <<>> => Head(Append(inbox[p], msg)) = Head(inbox[p])
    BY ProxyTypes
  <2>4. /\ inbox' \in [Peers -> Seq(Messages)]
        /\ \A q \in Peers : inbox[q] # <<>> => inbox'[q] # <<>> /\ Head(inbox'[q]) = Head(inbox[q])
    BY <2>2, <2>3 DEF TypeOK
  <2>5. TypeOK'
    <3>1. sent' \in [Peers -> Nat]
      <4>1. sent \in [Peers -> Nat] /\ sent[p] + 1 \in Nat
        BY DEF TypeOK
      <4>2. CASE sent' = [sent EXCEPT ![p] = @ + 1]
        BY <4>1, <4>2
      <4> QED BY <2>1, <4>1, <4>2
    <3> QED BY <2>1, <2>4, <3>1 DEF TypeOK
  <2>6. OwnDescriptors' /\ PeersApart'
    BY <2>1 DEF OwnDescriptors, PeersApart
  <2>7. PollInv'
    BY <2>1, <2>4, ProxyTypes DEF PollInv
  <2>8. EndInv'
    BY <2>1, <2>4, ProxyTypes DEF EndInv
  <2> QED BY <2>5, <2>6, <2>7, <2>8
<1>3. ASSUME NEW f \in Fds, Answer(f) PROVE ProxyInv'
  <2>1. /\ UNCHANGED <<client_list, open, pollfds, i, pc, backlog, inbox, sent, forwarded, relayed>>
        /\ f \in servers /\ answers' = answers \cup {f}
    BY <1>3 DEF Answer
  <2>2. f \in open
    BY <2>1 DEF servers, OwnDescriptors
  <2>3. TypeOK'
    BY <2>1, <2>2 DEF TypeOK
  <2>4. OwnDescriptors' /\ PeersApart' /\ PollInv' /\ EndInv'
    BY <2>1 DEF OwnDescriptors, PeersApart, PollInv, EndInv
  <2> QED BY <2>3, <2>4
<1> QED BY <1>1, <1>2, <1>3

(* A turn of main_loop up to ppoll, and its end. *)
LEMMA PollStep ==
    ASSUME ProxyInv, ppoll \/ turn
    PROVE  ProxyInv'
<1> USE DEF ProxyInv
<1>1. CASE ppoll
  <2> DEFINE L == entry("FD_LISTEN", listenfd, backlog # <<>>)
             A == server_get_fds
             B == client_get_fds
  <2>1. /\ UNCHANGED <<client_list, open, backlog, inbox, sent, forwarded, answers, relayed>>
        /\ pollfds' = <<L>> \o A \o B /\ i' = 1 /\ pc' = "scan"
    BY <1>1 DEF ppoll
  <2>2. L \in Polled /\ L.owner = "FD_LISTEN" /\ (L.revents => backlog # <<>>)
    <3> DEFINE r == backlog # <<>>
    <3>1. r \in BOOLEAN
      OBVIOUS
    <3>2. listenfd \in Fds
      BY ProxyAssumption DEF listenfd, Fds
    <3>3. L = [owner |-> "FD_LISTEN", fd |-> listenfd, revents |-> r]
      BY DEF entry
    <3> HIDE DEF r
    <3>4. L \in Polled /\ L.owner = "FD_LISTEN" /\ L.revents = r
      BY <3>1, <3>2, <3>3 DEF Polled, Owners
    <3> QED BY <3>4 DEF r
  <2>3. /\ A \in Seq(Polled) /\ Len(A) \in Nat
        /\ \A k \in 1..Len(A) : A[k].owner = "FD_SERVER"
    <3>1. A \in PolledServers
      BY ServerEntries
    <3> HIDE DEF A
    <3> DEFINE X == [owner : {"FD_SERVER"}, fd : Fds \cup {-1}, revents : BOOLEAN]
    <3>2. X \subseteq Polled /\ \A x \in X : x.owner = "FD_SERVER"
      BY DEF Polled, Owners
    <3>3. A \in Seq(X)
      BY <3>1 DEF PolledServers
    <3> HIDE DEF X
    <3>4. \A k \in 1..Len(A) : A[k] \in X
      BY <3>3
    <3>5. A \in Seq(Polled)
      BY <3>2, <3>3, Wider
    <3> QED BY <3>2, <3>3, <3>4, <3>5
  <2>4. /\ B \in Seq(Polled) /\ Len(B) = Len(client_list)
        /\ \A c \in DOMAIN client_list :
             /\ B[c].owner = "FD_CLIENT" /\ B[c].fd = client_list[c].fd
             /\ B[c].revents => inbox[client_list[c].peer] # <<>>
    <3>1. ASSUME NEW c \in DOMAIN client_list
          PROVE  /\ B[c] \in Polled /\ B[c].owner = "FD_CLIENT" /\ B[c].fd = client_list[c].fd
                 /\ B[c].revents => inbox[client_list[c].peer] # <<>>
      <4> DEFINE r == inbox[client_list[c].peer] # <<>>
      <4>1. r \in BOOLEAN
        OBVIOUS
      <4>2. B[c] = [owner |-> "FD_CLIENT", fd |-> client_list[c].fd, revents |-> r]
        BY DEF client_get_fds, entry
      <4> HIDE DEF r
      <4>3. B[c] \in Polled /\ B[c].owner = "FD_CLIENT" /\ B[c].fd = client_list[c].fd /\ B[c].revents = r
        BY <4>1, <4>2, ProxyTypes DEF Polled, Owners
      <4> QED BY <4>3 DEF r
    <3>2. DOMAIN B = 1..Len(client_list) /\ Len(client_list) \in Nat
      BY ProxyTypes DEF client_get_fds
    <3>3. B = [c \in 1..Len(client_list) |-> B[c]]
      BY ProxyTypes DEF client_get_fds
    <3>4. \A c \in 1..Len(client_list) : B[c] \in Polled
      BY <3>1, ProxyTypes
    <3> HIDE DEF B
    <3>5. B \in Seq(Polled) /\ Len(B) = Len(client_list)
      BY <3>2, <3>3, <3>4
    <3> QED BY <3>1, <3>5
  <2> HIDE DEF L, A, B
  <2>5. /\ pollfds' \in Seq(Polled) /\ Len(pollfds') = 1 + Len(A) + Len(B)
        /\ DOMAIN pollfds' = 1..(1 + Len(A) + Len(B))
        /\ pollfds'[1] = L
        /\ \A k \in 2..(1 + Len(A)) : pollfds'[k] = A[k - 1]
        /\ \A k \in (2 + Len(A))..(1 + Len(A) + Len(B)) : pollfds'[k] = B[k - 1 - Len(A)]
    <3>1. <<L>> \in Seq(Polled) /\ Len(<<L>>) = 1 /\ <<L>>[1] = L
      BY <2>2
    <3>2. /\ <<L>> \o A \in Seq(Polled) /\ Len(<<L>> \o A) = 1 + Len(A)
          /\ (<<L>> \o A)[1] = L /\ \A k \in 2..(1 + Len(A)) : (<<L>> \o A)[k] = A[k - 1]
      BY <2>3, <3>1, Joined
    <3> DEFINE M == <<L>> \o A
    <3>3. pollfds' = M \o B
      BY <2>1
    <3> HIDE DEF M
    <3>4. M \in Seq(Polled) /\ Len(M) = 1 + Len(A) /\ Len(B) \in Nat
      BY <2>4, <3>2 DEF M
    <3>5. /\ pollfds' \in Seq(Polled) /\ Len(pollfds') = 1 + Len(A) + Len(B)
          /\ \A k \in 1..(1 + Len(A) + Len(B)) :
                pollfds'[k] = IF k <= 1 + Len(A) THEN M[k] ELSE B[k - (1 + Len(A))]
      <4>1. /\ M \o B \in Seq(Polled) /\ Len(M \o B) = Len(M) + Len(B)
            /\ \A k \in 1..(Len(M) + Len(B)) : (M \o B)[k] = IF k <= Len(M) THEN M[k] ELSE B[k - Len(M)]
        <5>1. M \in Seq(Polled) /\ B \in Seq(Polled)
          BY <2>4, <3>4
        <5> QED BY <5>1, Joined, Zenon
      <4>2. Len(M) = 1 + Len(A) /\ Len(M) + Len(B) = 1 + Len(A) + Len(B)
        BY <2>3, <3>4
      <4> QED BY <3>3, <4>1, <4>2
    <3>6. DOMAIN pollfds' = 1..(1 + Len(A) + Len(B))
      BY <3>5
    <3>7. pollfds'[1] = M[1] /\ \A k \in 2..(1 + Len(A)) : pollfds'[k] = M[k]
      BY <2>3, <3>4, <3>5
    <3>8. \A k \in (2 + Len(A))..(1 + Len(A) + Len(B)) : pollfds'[k] = B[k - 1 - Len(A)]
      BY <2>3, <3>4, <3>5
    <3> QED BY <3>2, <3>5, <3>6, <3>7, <3>8 DEF M
  <2>6. ASSUME NEW k \in DOMAIN pollfds'
        PROVE  /\ pollfds'[k].owner = "FD_LISTEN" => k = 1 /\ pollfds'[k] = L
               /\ pollfds'[k].owner = "FD_CLIENT" =>
                     k - 1 - Len(A) \in DOMAIN client_list /\ pollfds'[k] = B[k - 1 - Len(A)]
    <3>0. k \in Nat /\ k >= 1 /\ k <= 1 + Len(A) + Len(B) /\ Len(A) \in Nat /\ Len(B) \in Nat
      BY <2>3, <2>4, <2>5
    <3>1. CASE k = 1
      BY <2>2, <2>5, <3>1
    <3>2. CASE k \in 2..(1 + Len(A))
      <4>1. k - 1 \in 1..Len(A)
        BY <3>0, <3>2
      <4> QED BY <2>3, <2>5, <3>2, <4>1
    <3>3. CASE k \in (2 + Len(A))..(1 + Len(A) + Len(B))
      <4>1. k - 1 - Len(A) \in DOMAIN client_list
        BY <2>4, <3>0, <3>3, ProxyTypes
      <4> QED BY <2>4, <2>5, <3>3, <4>1
    <3> QED BY <3>0, <3>1, <3>2, <3>3
  <2>7. TypeOK'
    <3>1. i' \in 1..(Len(pollfds') + 1)
      BY <2>1, <2>3, <2>4, <2>5, ProxyTypes
    <3> QED BY <2>1, <2>5, <3>1 DEF TypeOK, Polled
  <2>8. OwnDescriptors' /\ PeersApart' /\ EndInv'
    BY <2>1 DEF OwnDescriptors, PeersApart, EndInv
  <2>9. PollInv'
    <3>1. ASSUME NEW k \in DOMAIN pollfds', NEW l \in DOMAIN pollfds',
                 pollfds'[k].owner = "FD_CLIENT", pollfds'[l].owner = "FD_CLIENT", pollfds'[k].fd = pollfds'[l].fd
          PROVE  k = l
      <4>1. k - 1 - Len(A) = l - 1 - Len(A)
        BY <2>4, <2>6, <3>1 DEF OwnDescriptors
      <4>2. k \in Int /\ l \in Int /\ Len(A) \in Int
        BY <2>3, <2>5
      <4> QED BY <4>1, <4>2
    <3>2. ASSUME NEW k \in DOMAIN pollfds', pollfds'[k].revents
          PROVE  /\ pollfds'[k].owner = "FD_LISTEN" => backlog # <<>>
                 /\ pollfds'[k].owner = "FD_CLIENT" =>
                       \E c \in DOMAIN client_list :
                           client_list[c].fd = pollfds'[k].fd /\ inbox[client_list[c].peer] # <<>>
      BY <2>2, <2>4, <2>6, <3>2
    <3> QED BY <2>1, <2>6, <3>1, <3>2 DEF PollInv
  <2> QED BY <2>7, <2>8, <2>9
<1>2. CASE turn
  <2>1. /\ UNCHANGED <<client_list, open, backlog, inbox, sent, forwarded, answers, relayed>>
        /\ pollfds' = <<>> /\ i' = 1 /\ pc' = "poll" /\ DOMAIN <<>> = {} /\ Len(<<>>) = 0
    BY <1>2 DEF turn
  <2>2. TypeOK'
    BY <2>1 DEF TypeOK
  <2>3. OwnDescriptors' /\ PeersApart' /\ PollInv' /\ EndInv'
    BY <2>1 DEF OwnDescriptors, PeersApart, PollInv, EndInv
  <2> QED BY <2>2, <2>3
<1> QED BY <1>1, <1>2

(* An entry of the fdlist is passed over. *)
LEMMA PassedOver ==
    ASSUME ProxyInv, pc = "scan", i <= Len(pollfds), i' = i + 1, answers' \subseteq answers, relayed' \subseteq Peers,
           UNCHANGED <<client_list, open, pollfds, pc, backlog, inbox, sent, forwarded>>
    PROVE  ProxyInv'
<1> USE DEF ProxyInv
<1>1. i \in Nat /\ Len(pollfds) \in Nat /\ i + 1 \in 1..(Len(pollfds) + 1)
  BY ProxyTypes DEF TypeOK
<1>2. TypeOK'
  BY <1>1 DEF TypeOK
<1>3. OwnDescriptors' /\ PeersApart' /\ EndInv'
  BY DEF OwnDescriptors, PeersApart, EndInv
<1>4. \A k \in DOMAIN pollfds : k >= i + 1 => k >= i
  BY <1>1, ProxyTypes
<1>5. PollInv'
  BY <1>4 DEF PollInv
<1> QED BY <1>2, <1>3, <1>5

(* A client is accepted with the lowest free descriptor. *)
LEMMA AcceptStep ==
    ASSUME ProxyInv, pc = "scan", i <= Len(pollfds), pollfds[i].revents, pollfds[i].owner = "FD_LISTEN",
           client_accept, UNCHANGED <<inbox, forwarded, answers, relayed, pollfds, sent>>
    PROVE  ProxyInv'
<1> USE DEF ProxyInv
<1>1. i \in DOMAIN pollfds /\ i \in Nat /\ Len(pollfds) \in Nat /\ i + 1 \in 1..(Len(pollfds) + 1)
  BY ProxyTypes DEF TypeOK
<1>2. i = 1 /\ backlog # <<>>
  BY <1>1 DEF PollInv
<1>3. CASE free_fds = {}
  <2>1. pc' = "exit" /\ UNCHANGED <<client_list, open, backlog, i>>
    BY <1>3 DEF client_accept
  <2>2. open = Fds
    BY <1>3 DEF free_fds, TypeOK
  <2>3. TypeOK'
    BY <2>1 DEF TypeOK
  <2>4. OwnDescriptors' /\ PeersApart' /\ PollInv' /\ EndInv'
    BY <2>1, <2>2 DEF OwnDescriptors, PeersApart, PollInv, EndInv
  <2> QED BY <2>3, <2>4
<1>4. CASE free_fds # {}
  <2>1. PICK fd \in lowest : /\ client_list' = Append(client_list, [fd |-> fd, server_fd |-> 0, peer |-> Head(backlog)])
                             /\ open' = open \cup {fd}
    BY <1>2, <1>4 DEF client_accept
  <2>2. backlog' = Tail(backlog) /\ i' = i + 1 /\ UNCHANGED pc
    BY <1>2, <1>4 DEF client_accept
  <2>3. fd \in Fds /\ fd \notin open /\ fd \in Nat /\ fd >= 1
    BY <2>1, ProxyAssumption DEF lowest, free_fds, Fds
  <2>4. /\ Head(backlog) \in Peers /\ Head(backlog) = backlog[1] /\ 1 \in DOMAIN backlog
        /\ backlog' \in Seq(Peers) /\ Len(backlog') = Len(backlog) - 1 /\ DOMAIN backlog' = 1..(Len(backlog) - 1)
        /\ \A k \in DOMAIN backlog' : k + 1 \in DOMAIN backlog /\ k + 1 # 1 /\ backlog'[k] = backlog[k + 1]
    <3>1. backlog \in Seq(Peers) /\ Len(backlog) \in Nat \ {0} /\ DOMAIN backlog = 1..Len(backlog)
      BY <1>2, ProxyTypes, WithoutHead DEF TypeOK
    <3>2. /\ Tail(backlog) \in Seq(Peers) /\ Len(Tail(backlog)) = Len(backlog) - 1
          /\ \A k \in 1..Len(Tail(backlog)) : Tail(backlog)[k] = backlog[k + 1]
      BY <1>2, <3>1, WithoutHead
    <3>3. Head(backlog) = backlog[1] /\ backlog[1] \in Peers
      BY <1>2, <3>1
    <3>4. DOMAIN Tail(backlog) = 1..(Len(backlog) - 1)
      BY <3>2
    <3>5. \A k \in 1..(Len(backlog) - 1) : k + 1 \in 1..Len(backlog) /\ k + 1 # 1
      BY <3>1
    <3>6. 1 \in DOMAIN backlog
      BY <3>1
    <3> QED BY <2>2, <3>1, <3>2, <3>3, <3>4, <3>5, <3>6
  <2> DEFINE x == [fd |-> fd, server_fd |-> 0, peer |-> Head(backlog)]
             n == Len(client_list)
  <2>5. x \in Client /\ x.fd = fd /\ x.server_fd = 0 /\ x.peer = backlog[1]
    BY <2>3, <2>4 DEF Client
  <2> HIDE DEF x
  <2>6. /\ client_list' \in Seq(Client) /\ DOMAIN client_list' = 1..(n + 1) /\ n \in Nat /\ DOMAIN client_list = 1..n
        /\ \A c \in 1..n : client_list'[c] = client_list[c]
        /\ client_list'[n + 1] = x
    <3>1. client_list' = Append(client_list, x)
      BY <2>1 DEF x
    <3>2. client_list \in Seq(Client) /\ n \in Nat /\ DOMAIN client_list = 1..n
      BY ProxyTypes DEF TypeOK
    <3>3. /\ client_list' \in Seq(Client) /\ Len(client_list') = n + 1
          /\ \A c \in 1..n : client_list'[c] = client_list[c]
          /\ client_list'[n + 1] = x
      BY <2>5, <3>1, <3>2, Appended
    <3>4. DOMAIN client_list' = 1..(n + 1)
      BY <3>3
    <3> QED BY <3>2, <3>3, <3>4
  <2>7. \A c \in DOMAIN client_list' :
           \/ c \in DOMAIN client_list /\ client_list'[c] = client_list[c]
           \/ c = n + 1 /\ c \notin DOMAIN client_list /\ client_list'[c] = x
    <3>1. \A c \in 1..(n + 1) : c \in 1..n \/ (c = n + 1 /\ c \notin 1..n)
      BY <2>6
    <3>2. DOMAIN client_list' = 1..(n + 1) /\ DOMAIN client_list = 1..n
      BY <2>6
    <3>3. ASSUME NEW c \in DOMAIN client_list'
          PROVE  \/ c \in DOMAIN client_list /\ client_list'[c] = client_list[c]
                 \/ c = n + 1 /\ c \notin DOMAIN client_list /\ client_list'[c] = x
      <4>1. CASE c \in 1..n
        BY <2>6, <4>1
      <4>2. CASE c = n + 1 /\ c \notin 1..n
        BY <2>6, <4>2
      <4> QED BY <3>1, <3>2, <4>1, <4>2
    <3> QED BY <3>3
  <2>8. \A c \in DOMAIN client_list : c \in DOMAIN client_list' /\ client_list'[c] = client_list[c]
    BY <2>6
  <2>9. TypeOK'
    BY <1>1, <2>1, <2>2, <2>3, <2>4, <2>6 DEF TypeOK
  <2>10. OwnDescriptors'
    <3>1. \A c \in DOMAIN client_list :
             /\ client_list[c].fd \in open \ {listenfd} /\ client_list[c].fd \in Fds
             /\ client_list[c].server_fd \in open \cup {0, -1} /\ client_list[c].fd # fd /\ client_list[c].server_fd # fd
             /\ client_list[c].fd # 0
      BY <2>3, ProxyTypes DEF OwnDescriptors, Fds
    <3>2. x.fd # listenfd /\ x.fd # 0
      BY <2>3, <2>5 DEF PollInv
    <3>3. ASSUME NEW c \in DOMAIN client_list', NEW d \in DOMAIN client_list'
          PROVE  LET u == client_list'[c]
                     v == client_list'[d]
                 IN  /\ u.fd \in open' \ {listenfd}
                     /\ u.server_fd \in open' \cup {0, -1}
                     /\ u.server_fd # v.fd
                     /\ c # d => /\ u.fd # v.fd
                                 /\ u.server_fd = v.server_fd => u.server_fd \in {0, -1}
      <4>1. CASE c \in DOMAIN client_list /\ d \in DOMAIN client_list
        BY <2>1, <2>8, <4>1 DEF OwnDescriptors
      <4>2. CASE c \in DOMAIN client_list /\ d = n + 1 /\ client_list'[d] = x
        BY <2>1, <2>5, <2>8, <3>1, <3>2, <4>2
      <4>3. CASE c = n + 1 /\ client_list'[c] = x /\ d \in DOMAIN client_list
        BY <2>1, <2>5, <2>8, <3>1, <3>2, <4>3
      <4>4. CASE c = n + 1 /\ client_list'[c] = x /\ d = n + 1
        BY <2>1, <2>5, <3>2, <4>4
      <4> QED BY <2>7, <4>1, <4>2, <4>3, <4>4
    <3> QED BY <3>3 DEF OwnDescriptors, listenfd
  <2>11. PeersApart'
    <3>1. /\ \A c \in DOMAIN client_list : client_list[c].peer # x.peer
          /\ \A k \in DOMAIN backlog' : backlog'[k] # x.peer
          /\ \A k \in DOMAIN backlog', c \in DOMAIN client_list : backlog'[k] # client_list[c].peer
      BY <2>4, <2>5 DEF PeersApart
    <3>2. \A k, l \in DOMAIN backlog' : backlog'[k] = backlog'[l] => k = l
      <4>1. \A k, l \in DOMAIN backlog' : backlog'[k] = backlog'[l] => k + 1 = l + 1
        BY <2>4 DEF PeersApart
      <4> QED BY <2>4, <4>1
    <3>3. \A c, d \in DOMAIN client_list' : client_list'[c].peer = client_list'[d].peer => c = d
      BY <2>7, <3>1 DEF PeersApart
    <3>4. \A c \in DOMAIN client_list', k \in DOMAIN backlog' : client_list'[c].peer # backlog'[k]
      BY <2>7, <3>1
    <3> QED BY <3>2, <3>3, <3>4 DEF PeersApart
  <2>12. PollInv'
    <3>1. \A k \in DOMAIN pollfds : k >= i + 1 => k >= i /\ k # 1
      BY <1>1, <1>2, ProxyTypes
    <3> QED BY <2>1, <2>2, <2>8, <3>1 DEF PollInv
  <2>13. EndInv'
    BY <2>2 DEF EndInv
  <2> QED BY <2>9, <2>10, <2>11, <2>12, <2>13
<1> QED BY <1>3, <1>4

(* process_recv: a server is connected to, or the program ends. *)
LEMMA RecvStep ==
    ASSUME ProxyInv, pc = "scan", i <= Len(pollfds), pollfds[i].revents, pollfds[i].owner = "FD_CLIENT",
           NEW c \in DOMAIN client_list, client_list[c].fd = pollfds[i].fd,
           process_recv(c), UNCHANGED <<backlog, answers, relayed, pollfds, sent>>
    PROVE  ProxyInv'
<1> USE DEF ProxyInv
<1> DEFINE p == client_list[c].peer
<1>1. i \in DOMAIN pollfds /\ i \in Nat /\ Len(pollfds) \in Nat /\ i + 1 \in 1..(Len(pollfds) + 1)
  BY ProxyTypes DEF TypeOK
<1>2. p \in Peers /\ inbox[p] \in Seq(Messages) /\ inbox[p] # <<>>
  <2>1. PICK d \in DOMAIN client_list : client_list[d].fd = pollfds[i].fd /\ inbox[client_list[d].peer] # <<>>
    BY <1>1 DEF PollInv
  <2>2. d = c
    BY <2>1 DEF OwnDescriptors
  <2> QED BY <2>1, <2>2, ProxyTypes
<1>3. ASSUME pc' = "abort", UNCHANGED <<client_list, open, inbox, forwarded, i>>, Head(inbox[p]) \in {"eof", "nohost"}
      PROVE  ProxyInv'
  <2>1. TypeOK'
    BY <1>3 DEF TypeOK
  <2>2. OwnDescriptors' /\ PeersApart' /\ PollInv'
    BY <1>3 DEF OwnDescriptors, PeersApart, PollInv
  <2>3. EndInv'
    BY <1>2, <1>3 DEF EndInv
  <2> QED BY <2>1, <2>2, <2>3
<1>4. ASSUME NEW n \in readable(p), NEW fd \in opensock,
             inbox' = [inbox EXCEPT ![p] = SubSeq(@, n + 1, Len(@))],
             client_list' = [client_list EXCEPT ![c].server_fd = fd],
             open' = open \cup ({fd} \ {-1}),
             forwarded' = IF fd = -1 THEN forwarded ELSE [forwarded EXCEPT ![p] = @ + 1],
             i' = i + 1, UNCHANGED pc
      PROVE  ProxyInv'
  <2> DEFINE x == [client_list[c] EXCEPT !.server_fd = fd]
  <2>1. fd = -1 \/ (fd \in Fds /\ fd \notin open)
    BY <1>4 DEF opensock, lowest, free_fds
  <2>2. x \in Client /\ x.fd = client_list[c].fd /\ x.peer = p /\ x.server_fd = fd
    <3>1. fd \in Fds \cup {0, -1}
      BY <2>1
    <3> QED BY <3>1, ProxyTypes DEF Client
  <2>3. client_list' = [client_list EXCEPT ![c] = x]
    BY <1>4
  <2> HIDE DEF x
  <2>4. /\ client_list' \in Seq(Client) /\ DOMAIN client_list' = DOMAIN client_list
        /\ client_list'[c] = x /\ \A d \in DOMAIN client_list : d # c => client_list'[d] = client_list[d]
    <3>1. client_list \in Seq(Client) /\ DOMAIN client_list = 1..Len(client_list)
      BY ProxyTypes DEF TypeOK
    <3>2. client_list' \in Seq(Client)
      BY <2>2, <2>3, <3>1, Replaced
    <3> QED BY <2>3, <3>2
  <2>5. /\ inbox' \in [Peers -> Seq(Messages)]
        /\ \A q \in Peers : q # p => inbox'[q] = inbox[q]
    <3>1. n \in 1..Len(inbox[p]) /\ Len(inbox[p]) \in Nat
      BY <1>2, <1>4 DEF readable
    <3>2. SubSeq(inbox[p], n + 1, Len(inbox[p])) \in Seq(Messages)
      BY <1>2, <3>1, CutOff
    <3> QED BY <1>2, <1>4, <3>2 DEF TypeOK
  <2>6. forwarded' \in [Peers -> Nat]
    <3>1. forwarded \in [Peers -> Nat] /\ forwarded[p] + 1 \in Nat
      BY <1>2 DEF TypeOK
    <3>2. CASE fd = -1
      BY <1>4, <3>1, <3>2
    <3>3. CASE fd # -1
      BY <1>2, <1>4, <3>1, <3>3
    <3> QED BY <3>2, <3>3
  <2>7. open' \subseteq Fds /\ open \subseteq open' /\ (fd # -1 => fd \in open')
    BY <1>4, <2>1 DEF TypeOK
  <2>8. TypeOK'
    BY <1>1, <1>4, <2>4, <2>5, <2>6, <2>7 DEF TypeOK
  <2>9. OwnDescriptors'
    <3>1. \A d \in DOMAIN client_list :
             /\ client_list[d].fd \in open \ {listenfd} /\ client_list[d].fd # -1 /\ client_list[d].fd # fd
             /\ client_list[d].server_fd \in open \cup {0, -1} /\ (client_list[d].server_fd = fd => fd = -1)
      <4>1. \A g \in Fds : g # -1 /\ g # 0
        BY ProxyAssumption DEF Fds
      <4> QED BY <2>1, <4>1, ProxyTypes DEF OwnDescriptors
    <3>2. ASSUME NEW d \in DOMAIN client_list', NEW g \in DOMAIN client_list'
          PROVE  LET u == client_list'[d]
                     v == client_list'[g]
                 IN  /\ u.fd \in open' \ {listenfd}
                     /\ u.server_fd \in open' \cup {0, -1}
                     /\ u.server_fd # v.fd
                     /\ d # g => /\ u.fd # v.fd
                                 /\ u.server_fd = v.server_fd => u.server_fd \in {0, -1}
      <4>0. d \in DOMAIN client_list /\ g \in DOMAIN client_list
        BY <2>4
      <4>1. client_list'[d].fd = client_list[d].fd /\ client_list'[g].fd = client_list[g].fd
        BY <2>2, <2>4, <4>0
      <4>2. /\ client_list'[d].server_fd = IF d = c THEN fd ELSE client_list[d].server_fd
            /\ client_list'[g].server_fd = IF g = c THEN fd ELSE client_list[g].server_fd
        BY <2>2, <2>4, <4>0
      <4>3. client_list'[d].fd \in open' \ {listenfd} /\ client_list'[d].server_fd \in open' \cup {0, -1}
        BY <2>7, <3>1, <4>0, <4>1, <4>2
      <4>4. client_list'[d].server_fd # client_list'[g].fd
        BY <3>1, <4>0, <4>1, <4>2 DEF OwnDescriptors
      <4>5. d # g => client_list'[d].fd # client_list'[g].fd
        BY <4>0, <4>1 DEF OwnDescriptors
      <4>6. d # g /\ client_list'[d].server_fd = client_list'[g].server_fd => client_list'[d].server_fd \in {0, -1}
        BY <3>1, <4>0, <4>2 DEF OwnDescriptors
      <4> QED BY <4>3, <4>4, <4>5, <4>6
    <3> QED BY <3>2 DEF OwnDescriptors, listenfd
  <2>10. PeersApart'
    <3>1. \A d \in DOMAIN client_list : client_list'[d].peer = client_list[d].peer
      BY <2>2, <2>4
    <3> QED BY <2>4, <3>1 DEF PeersApart
  <2>11. PollInv'
    <3>1. listenfd \in open'
      BY <2>7 DEF PollInv
    <3>2. ASSUME NEW k \in DOMAIN pollfds, k >= i + 1, pollfds[k].revents
          PROVE  /\ pollfds[k].owner = "FD_LISTEN" => backlog # <<>>
                 /\ pollfds[k].owner = "FD_CLIENT" =>
                       \E d \in DOMAIN client_list' :
                           client_list'[d].fd = pollfds[k].fd /\ inbox'[client_list'[d].peer] # <<>>
      <4>1. k >= i /\ k # i
        BY <1>1, <3>2, ProxyTypes
      <4>2. pollfds[k].owner = "FD_LISTEN" => backlog # <<>>
        BY <3>2, <4>1 DEF PollInv
      <4>3. ASSUME pollfds[k].owner = "FD_CLIENT"
            PROVE  \E d \in DOMAIN client_list' :
                       client_list'[d].fd = pollfds[k].fd /\ inbox'[client_list'[d].peer] # <<>>
        <5>1. PICK d \in DOMAIN client_list :
                 client_list[d].fd = pollfds[k].fd /\ inbox[client_list[d].peer] # <<>>
          BY <3>2, <4>1, <4>3 DEF PollInv
        <5>2. pollfds[k].fd # pollfds[i].fd
          BY <1>1, <4>1, <4>3 DEF PollInv
        <5>3. d # c /\ client_list[d].peer # p /\ client_list[d].peer \in Peers
          BY <5>1, <5>2, ProxyTypes DEF PeersApart
        <5> QED BY <2>4, <2>5, <5>1, <5>3
      <4> QED BY <4>2, <4>3
    <3> QED BY <1>4, <3>1, <3>2 DEF PollInv
  <2>12. EndInv'
    BY <1>4 DEF EndInv
  <2> QED BY <2>8, <2>9, <2>10, <2>11, <2>12
<1>5. CASE Head(inbox[p]) = "eof"
  BY <1>3, <1>5 DEF process_recv
<1>6. CASE Head(inbox[p]) # "eof"
  <2>1. PICK n \in readable(p), fd \in opensock :
          IF \A k \in 1..n : inbox[p][k] = "nohost"
          THEN pc' = "abort" /\ UNCHANGED <<client_list, open, inbox, forwarded, i>>
          ELSE /\ inbox' = [inbox EXCEPT ![p] = SubSeq(@, n + 1, Len(@))]
               /\ client_list' = [client_list EXCEPT ![c].server_fd = fd]
               /\ open' = open \cup ({fd} \ {-1})
               /\ forwarded' = IF fd = -1 THEN forwarded ELSE [forwarded EXCEPT ![p] = @ + 1]
               /\ i' = i + 1
               /\ UNCHANGED pc
    BY <1>6 DEF process_recv
  <2>2. CASE \A k \in 1..n : inbox[p][k] = "nohost"
    <3>1. 1 \in 1..n
      BY <1>2, <2>1 DEF readable
    <3>2. Head(inbox[p]) = "nohost"
      BY <1>2, <2>2, <3>1
    <3> QED BY <1>3, <2>1, <2>2, <3>2
  <2>3. CASE ~\A k \in 1..n : inbox[p][k] = "nohost"
    BY <1>4, <2>1, <2>3
  <2> QED BY <2>2, <2>3
<1> QED BY <1>5, <1>6

(* Every step of the proxy keeps the invariant. *)
LEMMA ProxyStep == ProxyInv /\ [Next]_vars => ProxyInv'
<1> SUFFICES ASSUME ProxyInv, [Next]_vars PROVE ProxyInv'
  OBVIOUS
<1>1. CASE handle
  <2> DEFINE e == pollfds[i]
  <2>1. pc = "scan" /\ i <= Len(pollfds) /\ UNCHANGED <<pollfds, sent>>
    BY <1>1 DEF handle
  <2>2. TypeOK /\ relayed \subseteq Peers /\ e \in Polled
    <3>1. TypeOK /\ i \in DOMAIN pollfds
      BY <2>1, ProxyTypes DEF ProxyInv, TypeOK
    <3> QED BY <3>1, ProxyTypes DEF TypeOK
  <2>3. CASE /\ ~e.revents /\ i' = i + 1
             /\ UNCHANGED <<client_list, open, pc, backlog, inbox, forwarded, answers, relayed>>
    BY <2>1, <2>2, <2>3, PassedOver
  <2>4. CASE /\ e.revents /\ e.owner = "FD_LISTEN" /\ client_accept
             /\ UNCHANGED <<inbox, forwarded, answers, relayed>>
    BY <2>1, <2>4, AcceptStep
  <2>5. CASE e.revents /\ e.owner # "FD_LISTEN" /\ client_process(e) /\ UNCHANGED backlog
    <3> DEFINE P(k) == client_list[k].fd = e.fd /\ \A j \in 1..(k - 1) : client_list[j].fd # e.fd
               c == CHOOSE k \in DOMAIN client_list : P(k)
    <3>1. CASE ~\E k \in DOMAIN client_list : client_list[k].fd = e.fd
      <4>1. i' = i + 1 /\ UNCHANGED <<client_list, open, pc, inbox, forwarded, answers, relayed>>
        BY <2>5, <3>1 DEF client_process
      <4> QED BY <2>1, <2>2, <2>5, <4>1, PassedOver
    <3>2. CASE \E k \in DOMAIN client_list : client_list[k].fd = e.fd
      <4>1. c \in DOMAIN client_list /\ client_list[c].fd = e.fd
        <5>1. PICK k \in DOMAIN client_list : client_list[k].fd = e.fd
          BY <3>2
        <5>2. \A j \in 1..(k - 1) : j \in DOMAIN client_list /\ j # k
          BY <2>2, ProxyTypes
        <5>3. P(k)
          BY <5>1, <5>2 DEF ProxyInv, OwnDescriptors
        <5>4. \E l \in DOMAIN client_list : P(l)
          BY <5>3
        <5>5. c \in DOMAIN client_list /\ P(c)
          <6> HIDE DEF P
          <6> QED BY <5>4
        <5> QED BY <5>5
      <4>2. IF e.owner = "FD_CLIENT"
            THEN process_recv(c) /\ UNCHANGED <<answers, relayed>>
            ELSE recv_server(c)
        BY <2>5, <3>2 DEF client_process
      <4> HIDE DEF c, P
      <4>3. CASE e.owner = "FD_CLIENT"
        BY <2>1, <2>5, <4>1, <4>2, <4>3, RecvStep
      <4>4. CASE e.owner # "FD_CLIENT"
        <5>1. /\ answers' \subseteq answers /\ relayed' \subseteq Peers /\ i' = i + 1
              /\ UNCHANGED <<client_list, open, inbox, forwarded, pc>>
          BY <2>2, <4>1, <4>2, <4>4, ProxyTypes DEF recv_server
        <5> QED BY <2>1, <2>5, <5>1, PassedOver
      <4> QED BY <4>3, <4>4
    <3> QED BY <3>1, <3>2
  <2> QED BY <1>1, <2>3, <2>4, <2>5 DEF handle
<1>2. CASE UNCHANGED vars
  <2>1. UNCHANGED <<client_list, open, pollfds, i, pc, backlog, inbox, sent, forwarded, answers, relayed>>
    BY <1>2 DEF vars
  <2> QED BY <2>1 DEF ProxyInv, TypeOK, OwnDescriptors, PeersApart, PollInv, EndInv
<1> QED BY <1>1, <1>2, RemoteStep, PollStep DEF Next

(* The descriptors of clients and servers of the proxy are open and no two *)
(* are the same, and the proxy keeps its types, with any number of clients *)
(* and descriptors (client_accept, process_recv, opensock).                *)
THEOREM DescriptorsApartHold == Spec => []DescriptorsApart
<1>1. ProxyInv => DescriptorsApart
  BY DEF ProxyInv, DescriptorsApart
<1> QED BY <1>1, ProxyInitially, ProxyStep, PTL DEF Spec

(* main_loop returns only without a descriptor left, and the program ends  *)
(* with an assertion only for what the client it reads from has sent.      *)
THEOREM EndsForAReasonHolds == Spec => []EndsForAReason
<1>1. ProxyInv => EndsForAReason
  BY DEF ProxyInv, EndInv, EndsForAReason
<1> QED BY <1>1, ProxyInitially, ProxyStep, PTL DEF Spec

=============================================================================
