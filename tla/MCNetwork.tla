------------------------------ MODULE MCNetwork ------------------------------
(***************************************************************************)
(* The programs that talk over sockets, each a program of its own: the     *)
(* proxy, the framing of go/tcpserver, the server of libev, the delay      *)
(* client with the lease gateway, the delays it measures, the servers      *)
(* around epoll, select and poll, and the echo server of go/count.         *)
(* program is the one that runs.                                           *)
(***************************************************************************)
EXTENDS Proxy, LibevServer, ReadyServers

CONSTANTS Macs, Addrs, Empty, Nothing, MaxLines, FdLimit
CONSTANTS Hosts, TEST_NUM, PKT_LEN, FailLimit, Rtts
CONSTANTS MaxMessages, MaxNoise, MaxRead
CONSTANTS NewLine, Letters, EchoBuf, MaxTyped

(* A header of three bytes, messages that contain the header, its parts,   *)
(* or nothing, and noise that looks like the start of a header.            *)
MCHeader == <<7, 7, 8>>
MCData == {<<>>, <<7>>, <<7, 7, 8>>, <<7, 7, 8, 0>>}
MCNoise == {0, 7}

VARIABLES program,
    written, noise, wire, tmpBuffer, delivered,
    place, stations, pair, count, sock, files, request, answer, leases, used,
    host, size, test, waiting, coming, arr, fail_cnt, sum, min, max, ret, strayed, late,
    typed, hangs, taken, e_buf, got, echo, handling

framingVars == <<written, noise, wire, tmpBuffer, delivered>>
leaseVars == <<place, stations, pair, count, sock, files, request, answer, leases, used>>
delayVars == <<host, size, test, waiting, coming, arr, fail_cnt, sum, min, max, ret, strayed, late>>
echoVars == <<typed, hangs, taken, e_buf, got, echo, handling>>
allVars == <<program, vars, framingVars, libevVars, leaseVars, delayVars, readyVars, echoVars>>

Framed == INSTANCE Framing WITH
    sent <- written, ConstHeader <- MCHeader, Data <- MCData, Noise <- MCNoise
Lease == INSTANCE LeaseQuery
Delay == INSTANCE NetworkDelay
Echo == INSTANCE LineEcho WITH buf <- e_buf

NetworkInit ==
    /\ program \in {"proxy", "framing", "libev", "leases", "delays", "ready", "echo"}
    /\ Init /\ Framed!Init /\ LibevInit /\ Lease!LeaseInit /\ Delay!DelayInit /\ Echo!EchoInit
    /\ IF program = "ready" THEN ReadyInit
       ELSE ReadyInit /\ style = "epoll"

(* The programs that do not run stay as they are. *)
NetworkNext ==
    \/ program = "proxy" /\ Next /\ UNCHANGED <<program, framingVars, libevVars, leaseVars, delayVars, readyVars, echoVars>>
    \/ program = "framing" /\ Framed!Next /\ UNCHANGED <<program, vars, libevVars, leaseVars, delayVars, readyVars, echoVars>>
    \/ program = "libev" /\ LibevNext /\ UNCHANGED <<program, vars, framingVars, leaseVars, delayVars, readyVars, echoVars>>
    \/ program = "leases" /\ Lease!LeaseNext /\ UNCHANGED <<program, vars, framingVars, libevVars, delayVars, readyVars, echoVars>>
    \/ program = "delays" /\ Delay!DelayNext /\ UNCHANGED <<program, vars, framingVars, libevVars, leaseVars, readyVars, echoVars>>
    \/ program = "ready" /\ ReadyNext /\ UNCHANGED <<program, vars, framingVars, libevVars, leaseVars, delayVars, echoVars>>
    \/ program = "echo" /\ Echo!EchoNext /\ UNCHANGED <<program, vars, framingVars, libevVars, leaseVars, delayVars, readyVars>>

(* A loop that can go on does: the loop of the proxy, the client, the      *)
(* waits of which all have a timeout, the one thread of the servers, and   *)
(* the goroutine of a connection.                                          *)
NetworkSpec ==
    /\ NetworkInit /\ [][NetworkNext]_allVars
    /\ WF_vars(program = "proxy" /\ ppoll) /\ WF_vars(program = "proxy" /\ handle) /\ WF_vars(program = "proxy" /\ turn)
    /\ WF_leaseVars(program = "leases" /\ Lease!ClientStep)
    /\ WF_delayVars(program = "delays" /\ Delay!DelayStep)
    /\ WF_readyVars(program = "ready" /\ ReadyStep)
    /\ WF_echoVars(program = "echo" /\ Echo!Handle)

-----------------------------------------------------------------------------
(* Unpack delivers what was sent, whole and in order, however it is cut,   *)
(* and keeps less than a packet; Handle of count.go answers the first line *)
(* it was sent.                                                            *)
FramesDelivered ==
    /\ program = "framing" => Framed!Delivered /\ Framed!Bounded
    /\ program = "echo" => Echo!FirstLineEchoed

(* The delay client measures each station at the address of its last lease *)
(* (dhcp_leases_get), and leaves no socket open; network_delay computes    *)
(* what its answers say (ping.c).                                          *)
StationsMeasured ==
    /\ program = "leases" => Lease!AddressOfTheStation
    /\ program = "delays" => Delay!DelaysExact

(* What a client sends is read: by the proxy unless it ends, and by the    *)
(* servers whatever they were busy with when it came.                      *)
NothingMissed == Read /\ ReportsSuffice

(* Every round of the delay client ends, all its hosts are measured, and   *)
(* Handle of count.go ends once it has a line or Read fails.               *)
RoundsEnd ==
    /\ program = "leases" => []<>Lease!RoundEnded
    /\ program = "delays" => <>Delay!DelaysDone
    /\ program = "echo" => []<>Echo!EchoDone
=============================================================================
