---------------------------- MODULE UinetVerify ----------------------------
(***************************************************************************)
(* The active side of the uinet test program (uinet_main.c): run_test()    *)
(* starts verify_thread with kthread_add() and opens one connection for    *)
(* every foreign address and port; client_upcall() puts a connection on    *)
(* the client's queue when it is established and marks it done when it is  *)
(* lost; verify_thread walks the queue for ever, sending a message on each *)
(* connection and reading the echo.                                        *)
(*                                                                         *)
(* Three actors: the thread that runs run_test, the stack's thread, which  *)
(* makes every upcall, and verify_thread.  What the messages say is left   *)
(* out (the thread only counts and prints the comparisons); how many bytes *)
(* are on their way decides where the thread blocks, and is kept.          *)
(***************************************************************************)
EXTENDS KThread, Sequences, FiniteSets, SequencesExt

CONSTANTS
    NumForeignAddrs,    \* test->num_foreign_ips
    NumForeignPorts,    \* test->num_foreign_ports
    StartAddrs,         \* the addresses the loop over foreign addresses is at
    MsgLen,             \* bytes of one message
    SndBufSize,         \* bytes a connection takes that the peer has not echoed
    RcvBufSize          \* bytes of echo a connection holds unread

Conns == 1..(NumForeignAddrs * NumForeignPorts)

VARIABLES
    main,               \* where run_test is
    foreign_addr,       \* four bytes, network order
    foreign_addr_num, foreign_port_num,
    so,                 \* run_test's local so
    error,              \* run_test's local error: "unset", "0" or "EFAIL"
    ret,                \* what run_test returned
    client,             \* the client context: "alloc" or "freed"
    queue,              \* client->queue
    conn_state,         \* cc->conn_state, NULL before cc is allocated
    active,             \* cc->active
    cc_so,              \* cc->so
    so_state,           \* the socket's so_state
    peer,               \* the address and port it was connected to
    wire,               \* bytes sent that the peer has not echoed yet
    so_rcv,             \* bytes of echo in the receive buffer
    vpc,                \* where verify_thread is
    vcc                 \* its local cc

loopVars == <<foreign_addr, foreign_addr_num, foreign_port_num, so, error, ret>>
ccVars   == <<queue, conn_state, active, cc_so>>
sockVars == <<so_state, peer, wire, so_rcv>>
vars == <<kthreadVars, main, loopVars, client, ccVars, sockVars, vpc, vcc>>

Byte == 0..255

Init ==
    /\ KThreadInit
    /\ main = "kthread_add"
    /\ foreign_addr \in StartAddrs
    /\ foreign_addr_num = 0 /\ foreign_port_num = 0
    /\ so = NULL /\ error = "unset" /\ ret = "none"
    /\ client = "alloc"
    /\ queue = <<>>
    /\ conn_state = [c \in Conns |-> NULL]
    /\ active = [c \in Conns |-> 0]
    /\ cc_so = [c \in Conns |-> NULL]
    /\ so_state = [c \in Conns |-> "none"]
    /\ peer = [c \in Conns |-> NULL]
    /\ wire = [c \in Conns |-> 0]
    /\ so_rcv = [c \in Conns |-> 0]
    /\ vpc = "wait"
    /\ vcc = NULL

TypeOK ==
    /\ KThreadTypeOK
    /\ main \in {"kthread_add", "td_wchan", "connect", "out", "returned"}
    /\ foreign_addr \in Seq(Byte) /\ Len(foreign_addr) = 4
    /\ foreign_addr_num \in 0..NumForeignAddrs
    /\ foreign_port_num \in 0..NumForeignPorts
    /\ so \in Conns \cup {NULL}
    /\ error \in {"unset", "0", "EFAIL"} /\ ret \in {"none", "0", "EFAIL"}
    /\ client \in {"alloc", "freed"}
    /\ queue \in Seq(Conns)
    /\ conn_state \in [Conns -> {NULL, "CS_INIT", "CS_CONNECTED", "CS_DONE"}]
    /\ active \in [Conns -> {0, 1}]
    /\ cc_so \in [Conns -> Conns \cup {NULL}]
    /\ so_state \in [Conns -> {"none", "SS_ISCONNECTING", "SS_ISCONNECTED",
                               "SS_ISDISCONNECTED", "closed"}]
    /\ peer \in [Conns -> (Seq(Byte) \X Nat) \cup {NULL}]
    /\ wire \in [Conns -> 0..SndBufSize]
    /\ so_rcv \in [Conns -> 0..RcvBufSize]
    /\ vpc \in {"wait", "asleep", "first", "send", "receive", "next", "pause"}
    /\ vcc \in Conns \cup {NULL}

-----------------------------------------------------------------------------
(* run_test, for a test of type ACTIVE.                                    *)

incr_plain(addr) == [addr EXCEPT ![4] = (@ + 1) % 256]

\* incr_in_addr_t(): the next address, host parts .0 and .255 left out.
\* Every part is a uint8_t and wraps on its own.
incr_in_addr_t(addr) ==
    LET p4 == (addr[4] + 1) % 256
        p3 == (addr[3] + 1) % 256
        p2 == (addr[2] + 1) % 256
        p1 == (addr[1] + 1) % 256
    IN  IF p4 \notin {255, 0} THEN [addr EXCEPT ![4] = p4]
        ELSE IF p3 # 0 THEN <<addr[1], addr[2], p3, 1>>
        ELSE IF p2 # 0 THEN <<addr[1], p2, 0, 1>>
        ELSE <<p1, 0, 0, 1>>

\* Lines 926-935: kthread_add(verify_thread, client); when it fails the
\* client context is given back and run_test leaves with error never set.
RunTestStart ==
    /\ main = "kthread_add"
    /\ \E created \in BOOLEAN :
          /\ kthread_add_create(created, FALSE)
          /\ main' = "td_wchan"
    /\ UNCHANGED <<loopVars, client, ccVars, sockVars, vpc, vcc>>

RunTestStarted ==
    /\ main = "td_wchan"
    /\ kthread_add_return
    /\ IF thread = "none"
       THEN main' = "out" /\ client' = "freed"
       ELSE main' = "connect" /\ client' = client
    /\ UNCHANGED <<loopVars, ccVars, sockVars, vpc, vcc>>

\* The connection the two loops are at.
Current == foreign_addr_num * NumForeignPorts + foreign_port_num + 1

\* Lines 1000-1006 and the loop heads at 965 and 968: the next port, and
\* after the last port the next address.
LoopStep ==
    IF foreign_port_num + 1 < NumForeignPorts
    THEN /\ foreign_port_num' = foreign_port_num + 1
         /\ UNCHANGED <<foreign_addr, foreign_addr_num>>
         /\ main' = "connect"
    ELSE /\ foreign_port_num' = 0
         /\ foreign_addr' = incr_in_addr_t(foreign_addr)
         /\ foreign_addr_num' = foreign_addr_num + 1
         /\ main' = IF foreign_addr_num + 1 < NumForeignAddrs THEN "connect" ELSE "out"

\* create_test_socket() returns NULL: socreate, a socket option or mac_aton
\* failed and the socket, if there was one, is closed.  run_test leaves with
\* so NULL and error as it was.
create_test_socket_fails(c) ==
    /\ main' = "out"
    /\ UNCHANGED <<loopVars, sockVars>>

\* dobind() or doconnect() fails: run_test leaves with error set and the
\* socket in so, to be closed at out.
dobind_doconnect_fails(c) ==
    /\ main' = "out"
    /\ so' = c /\ error' = "EFAIL"
    /\ UNCHANGED <<foreign_addr, foreign_addr_num, foreign_port_num, ret, sockVars>>

\* Lines 969-1002, one pass of the inner loop: a client_conn is allocated,
\* and a socket with client_upcall as its upcall is created, bound and
\* connected to the foreign address and port the loops are at.
RunTestConnect ==
    /\ main = "connect"
    /\ LET c == Current IN
       /\ conn_state' = [conn_state EXCEPT ![c] = "CS_INIT"]
       /\ \/ create_test_socket_fails(c)
          \/ dobind_doconnect_fails(c)
          \/ /\ so_state' = [so_state EXCEPT ![c] = "SS_ISCONNECTING"]
             /\ peer' = [peer EXCEPT ![c] = <<foreign_addr, foreign_port_num>>]
             /\ so' = NULL /\ error' = "0"
             /\ LoopStep
             /\ UNCHANGED <<ret, wire, so_rcv>>
    /\ UNCHANGED <<kthreadVars, client, queue, active, cc_so, vpc, vcc>>

\* Lines 1035-1039.  An error never set is whatever the stack held.
RunTestOut ==
    /\ main = "out"
    /\ main' = "returned"
    /\ so_state' = IF so # NULL THEN [so_state EXCEPT ![so] = "closed"] ELSE so_state
    /\ ret' \in IF error = "unset" THEN {"0", "EFAIL"} ELSE {error}
    /\ UNCHANGED <<kthreadVars, foreign_addr, foreign_addr_num, foreign_port_num, so,
                   error, client, ccVars, peer, wire, so_rcv, vpc, vcc>>

run_test == RunTestStart \/ RunTestStarted \/ RunTestConnect \/ RunTestOut

-----------------------------------------------------------------------------
(* The upcall, and the stack and the peers that cause it.                  *)

\* wakeup(&client->queue), against the mtx_sleep at line 384.
wakeup == vpc' = IF vpc = "asleep" THEN "wait" ELSE vpc

Enqueue(c) ==
    /\ active' = [active EXCEPT ![c] = 1]
    /\ cc_so' = [cc_so EXCEPT ![c] = c]
    /\ conn_state' = [conn_state EXCEPT ![c] = "CS_CONNECTED"]
    /\ queue' = Append(queue, c)

client_upcall_again(c, state) ==
    CASE state = "SS_ISCONNECTED" -> Enqueue(c) /\ wakeup
      [] OTHER -> /\ conn_state' = [conn_state EXCEPT ![c] = "CS_DONE"]
                  /\ UNCHANGED <<active, cc_so, queue, vpc>>

client_upcall_silent(c, state) ==
    CASE conn_state[c] = "CS_INIT" /\ state = "SS_ISCONNECTED" -> Enqueue(c) /\ vpc' = vpc
      [] state # "SS_ISCONNECTED" ->
            /\ conn_state' = [conn_state EXCEPT ![c] = "CS_DONE"]
            /\ UNCHANGED <<active, cc_so, queue, vpc>>
      [] OTHER -> UNCHANGED <<ccVars, vpc>>

\* client_upcall(), called with the socket in the given state.
client_upcall(c, state) ==
    CASE conn_state[c] = "CS_INIT" /\ state = "SS_ISCONNECTED" -> Enqueue(c) /\ wakeup
      [] state # "SS_ISCONNECTED" ->
            /\ conn_state' = [conn_state EXCEPT ![c] = "CS_DONE"]
            /\ UNCHANGED <<active, cc_so, queue, vpc>>
      [] OTHER -> UNCHANGED <<ccVars, vpc>>

\* The connection is established, refused or lost.
Turn(c, from, to) ==
    /\ so_state[c] \in from
    /\ so_state' = [so_state EXCEPT ![c] = to]
    /\ client_upcall(c, to)
    /\ UNCHANGED <<kthreadVars, main, loopVars, client, peer, wire, so_rcv, vcc>>

Established(c) == Turn(c, {"SS_ISCONNECTING"}, "SS_ISCONNECTED")
Disconnected(c) == Turn(c, {"SS_ISCONNECTING", "SS_ISCONNECTED"}, "SS_ISDISCONNECTED")

\* The peer echoes a byte.
Echo(c) ==
    /\ so_state[c] = "SS_ISCONNECTED"
    /\ wire[c] > 0 /\ so_rcv[c] < RcvBufSize
    /\ wire' = [wire EXCEPT ![c] = @ - 1]
    /\ so_rcv' = [so_rcv EXCEPT ![c] = @ + 1]
    /\ client_upcall(c, so_state[c])
    /\ UNCHANGED <<kthreadVars, main, loopVars, client, so_state, peer, vcc>>

-----------------------------------------------------------------------------
(* verify_thread.                                                          *)

VerifyBegin ==
    /\ pthread_start_routine
    /\ UNCHANGED <<main, loopVars, client, ccVars, sockVars, vpc, vcc>>

VerifyNoWait ==
    /\ thread = "routine" /\ vpc = "wait"
    /\ vpc' = "first"
    /\ UNCHANGED <<kthreadVars, main, loopVars, client, ccVars, sockVars, vcc>>

\* Lines 382-386.
VerifyWait ==
    /\ thread = "routine" /\ vpc = "wait"
    /\ vpc' = IF queue = <<>> THEN "asleep" ELSE "first"
    /\ UNCHANGED <<kthreadVars, main, loopVars, client, ccVars, sockVars, vcc>>

\* Lines 388-400, and with an empty queue lines 466-467 and the return into
\* pthread_start_routine.
VerifyFirst ==
    /\ thread = "routine" /\ vpc = "first"
    /\ IF queue = <<>>
       THEN /\ client' = "freed"
            /\ pthread_start_routine_returns
            /\ UNCHANGED <<vpc, vcc>>
       ELSE /\ vcc' = Head(queue)
            /\ vpc' = "send"
            /\ UNCHANGED <<kthreadVars, client>>
    /\ UNCHANGED <<main, loopVars, ccVars, sockVars>>

\* Lines 403-428: sosend() waits for room in the send buffer, and fails on
\* a socket that is not connected.
VerifySend ==
    /\ thread = "routine" /\ vpc = "send"
    /\ IF so_state[cc_so[vcc]] = "SS_ISCONNECTED"
       THEN /\ wire[vcc] + MsgLen <= SndBufSize
            /\ wire' = [wire EXCEPT ![vcc] = @ + MsgLen]
       ELSE UNCHANGED wire
    /\ vpc' = "receive"
    /\ UNCHANGED <<kthreadVars, main, loopVars, client, ccVars, so_state, peer, so_rcv, vcc>>

\* Lines 430-449: soreceive() waits for the first byte, takes what there is
\* up to the length of the message, and fails on a socket that is not
\* connected and has nothing to read.
VerifyReceive ==
    /\ thread = "routine" /\ vpc = "receive"
    /\ so_rcv[vcc] > 0 \/ so_state[cc_so[vcc]] # "SS_ISCONNECTED"
    /\ so_rcv' = [so_rcv EXCEPT ![vcc] = IF @ <= MsgLen THEN 0 ELSE @ - MsgLen]
    /\ vpc' = "next"
    /\ UNCHANGED <<kthreadVars, main, loopVars, client, ccVars, so_state, peer, wire, vcc>>

\* How many connections at the front of s are done.
DoneRun(s) ==
    IF \E i \in DOMAIN s : conn_state[s[i]] # "CS_DONE"
    THEN CHOOSE i \in 0..Len(s) : /\ \A j \in 1..i : conn_state[s[j]] = "CS_DONE"
                                  /\ conn_state[s[i + 1]] # "CS_DONE"
    ELSE Len(s)

VerifyNextSweeps ==
    /\ thread = "routine" /\ vpc = "next"
    /\ LET live == SelectSeq(queue, LAMBDA c : conn_state[c] # "CS_DONE") IN
       /\ queue' = live
       /\ vcc' = NULL
       /\ vpc' = "pause"
    /\ UNCHANGED <<kthreadVars, main, loopVars, client, conn_state, active, cc_so, sockVars>>

\* Lines 452-460: cc moves on, past the finished connections behind it,
\* which are unlinked.
VerifyNext ==
    /\ thread = "routine" /\ vpc = "next"
    /\ LET at     == CHOOSE i \in DOMAIN queue : queue[i] = vcc
           behind == SubSeq(queue, at + 1, Len(queue))
           rest   == SubSeq(behind, DoneRun(behind) + 1, Len(behind))
       IN  /\ queue' = SubSeq(queue, 1, at) \o rest
           /\ vcc' = IF rest = <<>> THEN NULL ELSE Head(rest)
           /\ vpc' = IF rest = <<>> THEN "pause" ELSE "send"
    /\ UNCHANGED <<kthreadVars, main, loopVars, client, conn_state, active, cc_so, sockVars>>

\* Lines 462-463 and back to line 388.
VerifyPause ==
    /\ thread = "routine" /\ vpc = "pause"
    /\ vpc' = "first"
    /\ UNCHANGED <<kthreadVars, main, loopVars, client, ccVars, sockVars, vcc>>

verify_thread ==
    \/ VerifyBegin \/ VerifyWait \/ VerifyFirst \/ VerifySend \/ VerifyReceive
    \/ VerifyNext \/ VerifyPause

Next ==
    \/ run_test
    \/ verify_thread
    \/ \E c \in Conns : Established(c) \/ Disconnected(c) \/ Echo(c)

\* verify_thread is a thread that runs; nothing is assumed of run_test, of
\* the stack or of the peers.
Spec == Init /\ [][Next]_vars /\ WF_vars(verify_thread)

-----------------------------------------------------------------------------
(* Properties.                                                             *)

Live(c) == so_state[c] \in {"SS_ISCONNECTING", "SS_ISCONNECTED"}

\* Nothing is used after it was freed: kthread_add() stores into td (line
\* 123 of uinet_kern_kthread.c) after the thread may have started, and the
\* thread frees td when verify_thread returns; verify_thread frees the
\* client context (line 467), which every later upcall locks (lines 514 and
\* 524).  Both are safe only because verify_thread does not return while
\* run_test is starting it or a connection is open.
NothingUsedAfterFree ==
    /\ td_wchan # "stray"
    /\ client = "freed" => \A c \in Conns : ~Live(c)

\* client->queue holds every connection once, each with its socket filled
\* in by the upcall (line 511) before verify_thread uses it (line 423), and
\* the connection verify_thread is at is linked in the queue, so that
\* TAILQ_NEXT at line 453 reads a live link.
CursorIsLinked ==
    /\ IsInjective(queue)
    /\ \A i \in DOMAIN queue : cc_so[queue[i]] # NULL /\ active[queue[i]] = 1
    /\ vpc \in {"send", "receive", "next"} => Contains(queue, vcc)

\* The loop at lines 454-458 unlinks finished connections behind the one
\* just verified and never that one: the first connection of the queue
\* stays the first whatever becomes of it, the queue never empties again,
\* and "No more connections" (line 398) is never reached.
HeadStays ==
    [][queue # <<>> => queue' # <<>> /\ Head(queue') = Head(queue)]_vars

\* Every connection is made to an address of its own, and never to the
\* network's .0 or .255: incr_in_addr_t (line 1005) steps over them and
\* carries into the next part.
PeersAreHosts ==
    /\ foreign_addr[4] \notin {0, 255}
    /\ \A c, d \in Conns :
          peer[c] # NULL /\ peer[d] # NULL /\ c # d => peer[c] # peer[d]

\* The first connection queued by client_upcall (line 515) gets
\* verify_thread past its wait at lines 383-385: the wakeup at line 516 is
\* not lost against the thread going to sleep.
FirstConnectionWakes ==
    (queue # <<>>) ~> (vpc \notin {"wait", "asleep"})

=============================================================================
