---------------------------- MODULE NetworkDelay ----------------------------
(***************************************************************************)
(* socket/libevent/client/ping.c: network_delay sends TEST_NUM echo        *)
(* requests of each of PKT_LEN sizes to a host, and computes the average,  *)
(* least and greatest delay of each size.  All requests carry the same     *)
(* identifier and sequence number, and a raw socket sees every ICMP packet *)
(* that comes while it is open.  network_status calls it for host after    *)
(* host.                                                                   *)
(***************************************************************************)
EXTENDS Integers, Sequences, FiniteSetsExt

CONSTANTS
    Hosts,          \* network_status has the addresses 1..Hosts
    TEST_NUM, PKT_LEN,
    FailLimit,      \* 5 in the code
    Rtts            \* a bound on the delays: a set of numbers, none negative

VARIABLES
    host, size, test,   \* the request: the host, i and j of network_delay
    waiting,            \* whether sendping waits on its socket
    coming,             \* the requests the answers of which may still come
    arr, fail_cnt,      \* of network_delay
    sum, min, max,
    ret,                \* ret.icmp: of each size that is done
    strayed,            \* whether an answer came to another request than its own
    late                \* whether a request was given up before its answer came

delayVars == <<host, size, test, waiting, coming, arr, fail_cnt, sum, min, max, ret, strayed, late>>

NoRows == [i \in 1..PKT_LEN |-> << >>]

DelayInit ==
    /\ host = 1 /\ size = 1 /\ test = 1 /\ waiting = FALSE /\ coming = {}
    /\ arr = NoRows /\ fail_cnt = 0 /\ sum = 0 /\ min = 0 /\ max = 0 /\ ret = << >>
    /\ strayed = FALSE /\ late = FALSE

-----------------------------------------------------------------------------
(* network_delay returns, and network_status goes to the next host. *)
network_delay_returns ==
    /\ host' = host + 1 /\ size' = 1 /\ test' = 1
    /\ arr' = NoRows /\ fail_cnt' = 0 /\ sum' = 0 /\ min' = 0 /\ max' = 0 /\ ret' = << >>

(* Mutant: the least and the greatest are not set by the first answer. *)
network_delay_min(rtt) ==
    LET row == Append(arr[size], rtt)
        done == [sum |-> sum + rtt, min |-> min', max |-> max'] IN
    \/ fail_cnt > FailLimit /\ network_delay_returns
    \/ /\ fail_cnt <= FailLimit
       /\ arr' = [arr EXCEPT ![size] = row]
       /\ fail_cnt' = IF rtt < 0 THEN fail_cnt + 1 ELSE fail_cnt
       /\ max' = IF rtt > max THEN rtt ELSE max
       /\ min' = IF rtt < min THEN rtt ELSE min
       /\ IF test < TEST_NUM
          THEN test' = test + 1 /\ sum' = sum + rtt /\ UNCHANGED <<size, ret>>
          ELSE test' = 1 /\ sum' = 0 /\ size' = size + 1 /\ ret' = Append(ret, done)
       /\ UNCHANGED host

(* What network_delay does with the answer of sendping.  The failures are  *)
(* counted after they are tested.  After the last size it returns, which   *)
(* is the next step.                                                       *)
network_delay(rtt) ==
    LET row == Append(arr[size], rtt)
        done == [sum |-> sum + rtt, min |-> min', max |-> max'] IN
    \/ fail_cnt > FailLimit /\ network_delay_returns
    \/ /\ fail_cnt <= FailLimit
       /\ arr' = [arr EXCEPT ![size] = row]
       /\ fail_cnt' = IF rtt < 0 THEN fail_cnt + 1 ELSE fail_cnt
       /\ max' = IF test = 1 \/ rtt > max THEN rtt ELSE max
       /\ min' = IF test = 1 \/ rtt < min THEN rtt ELSE min
       /\ IF test < TEST_NUM
          THEN test' = test + 1 /\ sum' = sum + rtt /\ UNCHANGED <<size, ret>>
          ELSE test' = 1 /\ sum' = 0 /\ size' = size + 1 /\ ret' = Append(ret, done)
       /\ UNCHANGED host

next_host ==
    /\ host <= Hosts /\ size > PKT_LEN
    /\ network_delay_returns
    /\ UNCHANGED <<waiting, coming, strayed, late>>

-----------------------------------------------------------------------------
Request == <<host, size, test>>

(* sendping up to select: an answer will come, or not. *)
sendping ==
    /\ host <= Hosts /\ size <= PKT_LEN /\ ~waiting
    /\ waiting' = TRUE
    /\ \/ coming' = coming \union {Request}
       \/ coming' = coming
    /\ UNCHANGED <<host, size, test, arr, fail_cnt, sum, min, max, ret, strayed, late>>

(* An echo reply with our identifier comes: to this request or to another. *)
reply(request) ==
    /\ waiting /\ request \in coming
    /\ \E rtt \in Rtts : network_delay(rtt)
    /\ waiting' = FALSE /\ coming' = coming \ {request}
    /\ strayed' = (strayed \/ request # Request)
    /\ late' = (late \/ Request \in coming')

(* Two seconds pass; or some other ICMP packet comes, and the socket is    *)
(* not read a second time.                                                 *)
no_reply ==
    /\ waiting
    /\ network_delay(-1)
    /\ waiting' = FALSE
    /\ late' = (late \/ Request \in coming)
    /\ UNCHANGED <<coming, strayed>>

(* An answer is lost, or comes while no socket is open. *)
dropped(request) ==
    /\ request \in coming
    /\ coming' = coming \ {request}
    /\ UNCHANGED <<host, size, test, waiting, arr, fail_cnt, sum, min, max, ret, strayed, late>>

DelayStep == sendping \/ no_reply \/ next_host \/ (\E request \in coming : reply(request))
DelayNext == DelayStep \/ (\E request \in coming : dropped(request))

-----------------------------------------------------------------------------
(* The delays of each size are those of its own TEST_NUM answers, a failed *)
(* one counted as -1: the sum (avg is a TEST_NUMth of it), the least and   *)
(* the greatest.  A host with all sizes measured has failed no more than   *)
(* FailLimit + 1 times: once more than the comment at ping.c:211 has it.   *)
(* An answer is taken for another one only after a request was given up    *)
(* before its answer came.                                                 *)
DelaysExact ==
    /\ \A i \in DOMAIN ret :
          /\ Len(arr[i]) = TEST_NUM
          /\ ret[i].sum = MapThenSumSet(LAMBDA j : arr[i][j], 1..TEST_NUM)
          /\ ret[i].min = Min({arr[i][j] : j \in 1..TEST_NUM})
          /\ ret[i].max = Max({arr[i][j] : j \in 1..TEST_NUM})
    /\ Len(ret) = PKT_LEN =>
          Quantify((1..PKT_LEN) \X (1..TEST_NUM), LAMBDA p : arr[p[1]][p[2]] < 0) <= FailLimit + 1
    /\ strayed => late

(* Every host was measured or given up. *)
DelaysDone == host > Hosts
=============================================================================
