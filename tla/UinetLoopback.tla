--------------------------- MODULE UinetLoopback ---------------------------
(***************************************************************************)
(* The passive side of the uinet test program (uinet_main.c): a listening  *)
(* socket whose upcall accepts connections, a receive upcall per           *)
(* connection that puts the connection on the server's work queue, and     *)
(* loopback_thread, which takes connections off the queue and echoes what  *)
(* it can read.                                                            *)
(*                                                                         *)
(* Two actors: the stack's thread, which makes every upcall, and           *)
(* loopback_thread.  An upcall runs with the socket buffer locked, and     *)
(* takes server->lock inside; the thread's steps are the stretches of its  *)
(* loop that hold one lock: lines 173-179 (server->lock), soreceive,       *)
(* sosend, and the unlocked reads at lines 181 and 214.                    *)
(*                                                                         *)
(* Bytes are numbered: the n-th byte a peer sends is n.                    *)
(***************************************************************************)
EXTENDS Naturals, Sequences, FiniteSets, SequencesExt

CONSTANTS
    Conns,          \* the connections peers may open
    CopyBufSize,    \* sizeof(server->copybuf)
    SndBufSize,     \* room in a socket's send buffer
    MaxData,        \* bound: bytes one peer sends
    NULL

ASSUME CopyBufSize \in Nat \ {0} /\ SndBufSize \in Nat \ {0} /\ MaxData \in Nat

VARIABLES
    so_comp,        \* head->so_comp: connections completed, not yet accepted
    head_upcalls,   \* upcalls the stack owes the listening socket
    so_state,       \* per connection: "none", "SQ_COMP", "accepted", "closed"
    so_upcall,      \* the socket's receive upcall: NULL, "established" or "rcv"
    so_rcv,         \* its receive buffer
    so_snd,         \* bytes in its send buffer, not yet acknowledged
    sb_state,       \* subset of {"CANTRCVMORE", "ERROR", "DISCONNECTED"}
    conn_state,     \* sc->conn_state
    active,         \* sc->active
    queue,          \* server->queue
    pc,             \* where loopback_thread is
    sc,             \* its local sc
    copybuf,        \* the first len bytes of server->copybuf
    arrived,        \* bytes the peer has sent so far
    echoed,         \* bytes given to sosend and taken by it
    dropped         \* bytes read and not sent (line 209 was printed)

stackVars  == <<so_comp, head_upcalls, so_state, so_upcall, sb_state, arrived>>
connVars   == <<conn_state, active, queue>>
threadVars == <<pc, sc, copybuf>>
vars == <<stackVars, connVars, threadVars, so_rcv, so_snd, echoed, dropped>>

ConnStates == {"CS_INIT", "CS_CONNECTED", "CS_DONE"}

Init ==
    /\ so_comp = <<>>
    /\ head_upcalls = 0
    /\ so_state = [c \in Conns |-> "none"]
    /\ so_upcall = [c \in Conns |-> NULL]
    /\ so_rcv = [c \in Conns |-> <<>>]
    /\ so_snd = [c \in Conns |-> 0]
    /\ sb_state = [c \in Conns |-> {}]
    /\ conn_state = [c \in Conns |-> NULL]
    /\ active = [c \in Conns |-> 0]
    /\ queue = <<>>
    /\ pc = "lock"
    /\ sc = NULL
    /\ copybuf = <<>>
    /\ arrived = [c \in Conns |-> 0]
    /\ echoed = [c \in Conns |-> <<>>]
    /\ dropped = [c \in Conns |-> 0]

TypeOK ==
    /\ so_comp \in Seq(Conns)
    /\ head_upcalls \in 0..Cardinality(Conns)
    /\ so_state \in [Conns -> {"none", "SQ_COMP", "accepted", "closed"}]
    /\ so_upcall \in [Conns -> {NULL, "established", "rcv"}]
    /\ so_rcv \in [Conns -> Seq(1..MaxData)]
    /\ so_snd \in [Conns -> 0..SndBufSize]
    /\ sb_state \in [Conns -> SUBSET {"CANTRCVMORE", "ERROR", "DISCONNECTED"}]
    /\ conn_state \in [Conns -> ConnStates \cup {NULL}]
    /\ active \in [Conns -> {0, 1}]
    /\ queue \in Seq(Conns)
    /\ pc \in {"lock", "asleep", "check", "receive", "send", "closed"}
    /\ sc \in Conns \cup {NULL}
    /\ copybuf \in Seq(1..MaxData) /\ Len(copybuf) <= CopyBufSize
    /\ arrived \in [Conns -> 0..MaxData]
    /\ echoed \in [Conns -> Seq(1..MaxData)]
    /\ dropped \in [Conns -> 0..MaxData]
    /\ \A c \in Conns : conn_state[c] = NULL <=> so_upcall[c] = NULL

-----------------------------------------------------------------------------
(* The upcalls.                                                            *)

\* wakeup(&server->queue): a thread in mtx_sleep takes the lock again and
\* looks at the queue.
wakeup == pc' = IF pc = "asleep" THEN "lock" ELSE pc

server_conn_rcv_silent(c) ==
    IF active[c] = 0
    THEN /\ active' = [active EXCEPT ![c] = 1]
         /\ queue' = Append(queue, c)
         /\ pc' = pc
    ELSE UNCHANGED <<active, queue, pc>>

server_conn_rcv(c) ==
    IF active[c] = 0
    THEN /\ active' = [active EXCEPT ![c] = 1]
         /\ queue' = Append(queue, c)
         /\ wakeup
    ELSE UNCHANGED <<active, queue, pc>>

server_conn_established(c) ==
    /\ conn_state' = [conn_state EXCEPT ![c] = "CS_CONNECTED"]
    /\ so_upcall' = [so_upcall EXCEPT ![c] = "rcv"]
    /\ server_conn_rcv(c)

\* sorwakeup(): the stack calls the upcall the socket has, if it has one.
sorwakeup(c) ==
    CASE so_upcall[c] = "established" -> server_conn_established(c)
      [] so_upcall[c] = "rcv" -> server_conn_rcv(c) /\ UNCHANGED <<conn_state, so_upcall>>
      [] OTHER -> UNCHANGED <<conn_state, so_upcall, active, queue, pc>>

\* server_upcall(): nothing completed (the code then frees the pointer sa,
\* which it has not set), soaccept() failed, or a server_conn is made.
server_upcall ==
    /\ head_upcalls > 0
    /\ head_upcalls' = head_upcalls - 1
    /\ UNCHANGED <<sb_state, arrived, active, queue, threadVars,
                   so_rcv, so_snd, echoed, dropped>>
    /\ \/ /\ so_comp = <<>>
          /\ UNCHANGED <<so_comp, so_state, so_upcall, conn_state>>
       \/ /\ so_comp # <<>>
          /\ so_comp' = Tail(so_comp)
          /\ LET so == Head(so_comp) IN
             IF "DISCONNECTED" \in sb_state[so]
             THEN /\ so_state' = [so_state EXCEPT ![so] = "closed"]
                  /\ UNCHANGED <<so_upcall, conn_state>>
             ELSE /\ so_state' = [so_state EXCEPT ![so] = "accepted"]
                  /\ conn_state' = [conn_state EXCEPT ![so] = "CS_INIT"]
                  /\ so_upcall' = [so_upcall EXCEPT ![so] = "established"]

-----------------------------------------------------------------------------
(* The stack and the peers.                                                *)

Open(c) == so_state[c] \in {"SQ_COMP", "accepted"}

\* A connection completes: it is queued on the listening socket, which is
\* owed an upcall.
Connect(c) ==
    /\ so_state[c] = "none"
    /\ so_state' = [so_state EXCEPT ![c] = "SQ_COMP"]
    /\ so_comp' = Append(so_comp, c)
    /\ head_upcalls' = head_upcalls + 1
    /\ UNCHANGED <<so_upcall, sb_state, arrived, connVars, threadVars,
                   so_rcv, so_snd, echoed, dropped>>

\* A byte arrives.
Data(c) ==
    /\ Open(c) /\ "CANTRCVMORE" \notin sb_state[c]
    /\ arrived[c] < MaxData
    /\ arrived' = [arrived EXCEPT ![c] = @ + 1]
    /\ so_rcv' = [so_rcv EXCEPT ![c] = Append(@, arrived[c] + 1)]
    /\ sorwakeup(c)
    /\ UNCHANGED <<so_comp, head_upcalls, so_state, sb_state, sc, copybuf,
                   so_snd, echoed, dropped>>

\* The peer closes its side (flags = {"CANTRCVMORE"}) or resets the
\* connection (all three flags).
Shut(c, flags) ==
    /\ Open(c) /\ "CANTRCVMORE" \notin sb_state[c]
    /\ sb_state' = [sb_state EXCEPT ![c] = flags]
    /\ sorwakeup(c)
    /\ UNCHANGED <<so_comp, head_upcalls, so_state, arrived, sc, copybuf,
                   so_rcv, so_snd, echoed, dropped>>

\* The peer acknowledges what was sent to it.
Ack(c) ==
    /\ so_snd[c] > 0
    /\ so_snd' = [so_snd EXCEPT ![c] = 0]
    /\ UNCHANGED <<stackVars, connVars, threadVars, so_rcv, echoed, dropped>>

-----------------------------------------------------------------------------
(* loopback_thread.                                                        *)

\* Lines 173-176 with an empty queue: mtx_sleep gives the lock up and waits.
LoopSleep ==
    /\ pc = "lock" /\ queue = <<>>
    /\ pc' = "asleep"
    /\ UNCHANGED <<stackVars, connVars, sc, copybuf, so_rcv, so_snd, echoed, dropped>>

LoopTakeKeepsActive ==
    /\ pc = "lock" /\ queue # <<>>
    /\ sc' = Head(queue)
    /\ queue' = Tail(queue)
    /\ pc' = "check"
    /\ UNCHANGED <<stackVars, conn_state, active, copybuf, so_rcv, so_snd, echoed, dropped>>

\* Lines 173-179.
LoopTake ==
    /\ pc = "lock" /\ queue # <<>>
    /\ sc' = Head(queue)
    /\ queue' = Tail(queue)
    /\ active' = [active EXCEPT ![Head(queue)] = 0]
    /\ pc' = "check"
    /\ UNCHANGED <<stackVars, conn_state, copybuf, so_rcv, so_snd, echoed, dropped>>

\* Lines 181-182.
LoopCheck ==
    /\ pc = "check"
    /\ pc' = IF conn_state[sc] = "CS_DONE" THEN "lock" ELSE "receive"
    /\ UNCHANGED <<stackVars, connVars, sc, copybuf, so_rcv, so_snd, echoed, dropped>>

\* What soreceive() gives a non-blocking socket asked for n bytes: the data
\* there is, up to n; with none, the pending error, end of file or EAGAIN.
soreceive(so, n) ==
    LET got == IF Len(so_rcv[so]) <= n THEN so_rcv[so] ELSE SubSeq(so_rcv[so], 1, n)
    IN  [data |-> got,
         rest |-> SubSeq(so_rcv[so], Len(got) + 1, Len(so_rcv[so])),
         error |-> IF got # <<>> THEN "none"
                   ELSE IF "ERROR" \in sb_state[so] THEN "ECONNRESET"
                   ELSE IF "CANTRCVMORE" \in sb_state[so] THEN "none"
                   ELSE "EAGAIN"]

LoopReceiveOverrun ==
    /\ pc = "receive"
    /\ LET r == soreceive(sc, CopyBufSize + 1) IN
       /\ so_rcv' = [so_rcv EXCEPT ![sc] = r.rest]
       /\ copybuf' = IF r.error \in {"none", "EAGAIN"} THEN r.data ELSE <<>>
       /\ sb_state' = [sb_state EXCEPT ![sc] = IF r.data = <<>> THEN @ \ {"ERROR"} ELSE @]
    /\ pc' = "send"
    /\ UNCHANGED <<so_comp, head_upcalls, so_state, so_upcall, arrived, connVars, sc,
                   so_snd, echoed, dropped>>

LoopReceivePeeks ==
    /\ pc = "receive"
    /\ LET r == soreceive(sc, CopyBufSize) IN
       /\ copybuf' = IF r.error \in {"none", "EAGAIN"} THEN r.data ELSE <<>>
       /\ sb_state' = [sb_state EXCEPT ![sc] = IF r.data = <<>> THEN @ \ {"ERROR"} ELSE @]
    /\ pc' = "send"
    /\ UNCHANGED <<so_comp, head_upcalls, so_state, so_upcall, arrived, connVars, sc,
                   so_rcv, so_snd, echoed, dropped>>

\* Lines 184-200: len is the length of copybuf.
LoopReceive ==
    /\ pc = "receive"
    /\ LET r == soreceive(sc, CopyBufSize) IN
       /\ so_rcv' = [so_rcv EXCEPT ![sc] = r.rest]
       /\ copybuf' = IF r.error \in {"none", "EAGAIN"} THEN r.data ELSE <<>>
       /\ sb_state' = [sb_state EXCEPT ![sc] = IF r.data = <<>> THEN @ \ {"ERROR"} ELSE @]
    /\ pc' = "send"
    /\ UNCHANGED <<so_comp, head_upcalls, so_state, so_upcall, arrived, connVars, sc,
                   so_snd, echoed, dropped>>

\* How many of n bytes sosend() takes on a non-blocking socket before it
\* returns: those the send buffer has room for, none once disconnected.
sosend(so, n) ==
    LET space == SndBufSize - so_snd[so] IN
    IF "DISCONNECTED" \in sb_state[so] THEN 0
    ELSE IF n <= space THEN n ELSE space

\* Lines 201-211.  A failed sosend is printed; the loop goes on.
LoopSend ==
    /\ pc = "send"
    /\ LET sent == sosend(sc, Len(copybuf)) IN
       /\ echoed' = [echoed EXCEPT ![sc] = @ \o SubSeq(copybuf, 1, sent)]
       /\ so_snd' = [so_snd EXCEPT ![sc] = @ + sent]
       /\ dropped' = [dropped EXCEPT ![sc] = @ + (Len(copybuf) - sent)]
    /\ pc' = "closed"
    /\ UNCHANGED <<stackVars, connVars, sc, copybuf, so_rcv>>

\* Lines 214-221, and back to the top of the loop.
LoopClosed ==
    /\ pc = "closed"
    /\ conn_state' = IF copybuf = <<>> /\ "CANTRCVMORE" \in sb_state[sc]
                     THEN [conn_state EXCEPT ![sc] = "CS_DONE"]
                     ELSE conn_state
    /\ pc' = "lock"
    /\ copybuf' = <<>>
    /\ UNCHANGED <<stackVars, active, queue, sc, so_rcv, so_snd, echoed, dropped>>

loopback_thread ==
    LoopSleep \/ LoopTake \/ LoopCheck \/ LoopReceive \/ LoopSend \/ LoopClosed

Next ==
    \/ loopback_thread
    \/ server_upcall
    \/ \E c \in Conns :
          \/ Connect(c)
          \/ Data(c)
          \/ Shut(c, {"CANTRCVMORE"})
          \/ Shut(c, {"CANTRCVMORE", "ERROR", "DISCONNECTED"})
          \/ Ack(c)

\* loopback_thread is a kernel thread that runs; every step of it returns
\* (the sockets are non-blocking).  The stack makes the upcalls it owes.
Spec == Init /\ [][Next]_vars /\ WF_vars(loopback_thread) /\ WF_vars(server_upcall)

-----------------------------------------------------------------------------
(* Properties.                                                             *)

Numbered(n) == [i \in 1..n |-> i]

\* What has come out of the receive buffer and not reached sosend yet.
InHand(c) == IF sc = c /\ pc = "send" THEN copybuf ELSE <<>>

Increasing(s) == \A i, j \in DOMAIN s : i < j => s[i] < s[j]

\* The queue is the set of connections marked active, each once: the test
\* at line 235 keeps server_conn_rcv from linking a server_conn into the
\* TAILQ twice, and line 178 is what lets it be linked again.
QueueIsActive ==
    /\ IsInjective(queue)
    /\ \A c \in Conns : active[c] = 1 <=> Contains(queue, c)

\* Every byte that arrived is, in order and once, in the receive buffer, in
\* copybuf on its way from soreceive (line 195) to sosend (line 207), or
\* echoed, except those a failed sosend dropped (line 208): the echo never
\* repeats or reorders, and loses nothing while sosend succeeds.
EchoConserves ==
    \A c \in Conns :
        LET all == echoed[c] \o InHand(c) \o so_rcv[c] IN
        /\ Increasing(all)
        /\ Len(all) + dropped[c] = arrived[c]
        /\ dropped[c] = 0 => all = Numbered(arrived[c])

\* A connection put on the queue by server_conn_rcv (line 237) is taken off
\* it by loopback_thread (line 177): the wakeup at line 238 is not lost
\* against the thread going to sleep at line 175.
QueuedIsServed ==
    \A c \in Conns : (active[c] = 1) ~> (active[c] = 0)

\* A connection marked CS_DONE (line 220) has nothing left to read: lines
\* 214-221 take "soreceive returned nothing" and "the peer has closed" to
\* mean that everything was read.
DoneMeansDrained ==
    \A c \in Conns : conn_state[c] = "CS_DONE" => so_rcv[c] = <<>>

=============================================================================
