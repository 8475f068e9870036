----------------------------- MODULE LeaseQuery -----------------------------
(***************************************************************************)
(* The delay client (socket/libevent/client) and the lease gateway         *)
(* (socket/libevent/server).  Every 300 s network_status reads the wireless*)
(* stations from a file, asks the gateway over HTTP for the address of     *)
(* each, and measures the delay to it.  The gateway looks the addresses up *)
(* in the leases of the DHCP server, which may change at any time.  JSON is*)
(* modelled by what survives it: the sequence of pairs.                    *)
(***************************************************************************)
EXTENDS Integers, SequencesExt

CONSTANTS
    Macs, Addrs,
    Empty,          \* the empty string: a station without address, a blank line
    Nothing,        \* no request, or no answer
    MaxLines,       \* a bound on the lines of either file, at most MAX_USER
    FdLimit         \* a bound on the descriptors the client may hold

VARIABLES
    place,          \* of the client: "sleeping", "connecting", "reading", "measuring"
    stations,       \* the stations of this round: of the macs read
    pair,           \* pair->value: what the client knows of each
    count,          \* the connections tried
    sock,           \* whether the client holds a socket
    files,          \* the files it has opened and not closed
    request,        \* what the gateway is asked: a sequence of macs, or Nothing
    answer,         \* what it has answered: a sequence of pairs, or Nothing
    leases,         \* /tmp/dhcp.leases
    used            \* the leases the gateway answered from in this round

leaseVars == <<place, stations, pair, count, sock, files, request, answer, leases, used>>

LeaseInit ==
    /\ place = "sleeping" /\ stations = << >> /\ pair = << >> /\ count = 0
    /\ sock = FALSE /\ files = 0
    /\ request = Nothing /\ answer = Nothing
    /\ leases = << >> /\ used = << >>

-----------------------------------------------------------------------------
(* The DHCP server adds a lease to its file, or takes one out. *)
dhcp_server ==
    /\ \/ Len(leases) < MaxLines /\ \E lease \in Macs \X Addrs : leases' = Append(leases, lease)
       \/ \E k \in DOMAIN leases : leases' = RemoveAt(leases, k)
    /\ UNCHANGED <<place, stations, pair, count, sock, files, request, answer, used>>

(* The second word of each line.  A line without one leaves mac as it was: *)
(* sscanf returns EOF, which is not zero.                                  *)
second_words(lines) ==
    FoldLeft(LAMBDA macs, line :
                Append(macs, IF line # Empty THEN line
                             ELSE IF macs = << >> THEN Empty ELSE Last(macs)),
             << >>, lines)

(* The start of network_status: the file is read, and never closed. *)
read_wlan_client ==
    /\ place = "sleeping"
    /\ \/ /\ files < FdLimit
          /\ files' = files + 1
          /\ \E lines \in BoundedSeq(Macs \union {Empty}, MaxLines) : stations' = second_words(lines)
       \/ files' = files /\ stations' = << >>
    /\ pair' = [k \in DOMAIN stations' |-> [mac |-> stations'[k], ip |-> Empty]]
    /\ place' = "connecting" /\ count' = 0
    /\ UNCHANGED <<sock, request, answer, leases, used>>

(* The JSON of a request has the macs of the stations. *)
form_request_json(value) == [k \in DOMAIN value |-> value[k].mac]

(* send_request up to the answer: no descriptor is left for a socket; or   *)
(* connect_to_server fails, times out or succeeds at once (which it takes  *)
(* for a failure), and is tried three times; or the request is sent.       *)
send_request ==
    /\ place = "connecting"
    /\ \/ files = FdLimit /\ place' = "measuring" /\ UNCHANGED <<sock, count, request>>
       \/ /\ files < FdLimit
          /\ count' = count + 1
          /\ place' = IF count < 2 THEN "connecting" ELSE "measuring"
          /\ UNCHANGED <<sock, request>>
       \/ /\ files < FdLimit
          /\ sock' = TRUE /\ place' = "reading" /\ request' = form_request_json(pair)
          /\ UNCHANGED count
    /\ UNCHANGED <<stations, pair, files, answer, leases, used>>

-----------------------------------------------------------------------------
(* Mutant: the mac of a lease is not compared. *)
dhcp_leases_get_any(value) ==
    FoldLeft(LAMBDA v, lease : IF v = << >> THEN v ELSE [v EXCEPT ![1].ip = lease[2]], value, leases)

(* Every lease goes to the first station of its mac. *)
dhcp_leases_get(value) ==
    LET index(mac) == SelectInSeq(value, LAMBDA station : station.mac = mac)
    IN  FoldLeft(LAMBDA v, lease :
                    IF index(lease[1]) = 0 THEN v ELSE [v EXCEPT ![index(lease[1])].ip = lease[2]],
                 value, leases)

parse_request_json(macs) == [k \in DOMAIN macs |-> [mac |-> macs[k], ip |-> Empty]]

(* A request without macs is never answered. *)
httpserver_process_request ==
    /\ request # Nothing
    /\ request' = Nothing
    /\ answer' = IF request = << >> THEN Nothing ELSE dhcp_leases_get(parse_request_json(request))
    /\ used' = leases
    /\ UNCHANGED <<place, stations, pair, count, sock, files, leases>>

-----------------------------------------------------------------------------
(* The answer has the pairs; a part of it is no JSON, and changes nothing. *)
parse_response_json(text) == pair' = IF text = Nothing THEN pair ELSE text

(* Mutant: read has no timeout. *)
read_answer_waiting ==
    /\ place = "reading" /\ answer # Nothing
    /\ \E text \in {answer, Nothing} : parse_response_json(text)
    /\ sock' = FALSE /\ place' = "measuring"
    /\ request' = Nothing /\ answer' = Nothing
    /\ UNCHANGED <<stations, count, files, leases, used>>

(* The rest of send_request, and network_status up to parse_response_json. *)
(* One read is made: the answer comes whole, or in part (and is no JSON),  *)
(* or not within 5 s.  The connection is closed, and with it goes what the *)
(* gateway has not answered.                                               *)
read_answer ==
    /\ place = "reading"
    /\ \E text \in {answer, Nothing} : parse_response_json(text)
    /\ sock' = FALSE /\ place' = "measuring"
    /\ request' = Nothing /\ answer' = Nothing
    /\ UNCHANGED <<stations, count, files, leases, used>>

(* network_delay for every pair, NetworkDelay.tla; then network_status     *)
(* returns and main_loop sleeps.                                           *)
measure ==
    /\ place = "measuring"
    /\ place' = "sleeping"
    /\ stations' = << >> /\ pair' = << >> /\ count' = 0 /\ used' = << >>
    /\ UNCHANGED <<sock, files, request, answer, leases>>

ClientStep == read_wlan_client \/ send_request \/ read_answer \/ measure
LeaseNext == ClientStep \/ httpserver_process_request \/ dhcp_server

-----------------------------------------------------------------------------
(* A round measures the stations it began with, each with no address or   *)
(* with the address the last lease of its own mac gave it in the file the  *)
(* gateway read; of a station that is listed twice only the first has one. *)
(* However the connections failed, no socket is left open.                 *)
AddressOfTheStation ==
    place \in {"measuring", "sleeping"} =>
        /\ ~sock
        /\ [k \in DOMAIN pair |-> pair[k].mac] = stations
        /\ \A k \in DOMAIN pair : pair[k].ip # Empty =>
              /\ \A j \in 1..(k - 1) : pair[j].mac # pair[k].mac
              /\ \E n \in DOMAIN used :
                    /\ used[n] = <<pair[k].mac, pair[k].ip>>
                    /\ \A m \in (n + 1)..Len(used) : used[m][1] # pair[k].mac

(* A round has ended, whether or not the gateway answered. *)
RoundEnded == place = "sleeping"
=============================================================================
