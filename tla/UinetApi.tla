------------------------------ MODULE UinetApi ------------------------------
(***************************************************************************)
(* The interface of libuinet to its user (uinet_api.c).  A thread of the   *)
(* user gets a thread structure with uinet_initialize_thread() and gives   *)
(* it back with uinet_finalize_thread(); the calls that take `curthread`   *)
(* hand that structure to the socket layer.  A listening socket can have a *)
(* syn filter: the stack asks the user's callback about every SYN, and the *)
(* callback accepts, rejects, or defers with a copy of the question that   *)
(* uinet_synfilter_deferral_deliver() answers later.                       *)
(*                                                                         *)
(* The socket layer, the interface and malloc are not part of these        *)
(* sources; they are modelled by what their manual pages promise.  Memory  *)
(* is a set of cells, and malloc may hand out any cell that is free, one   *)
(* that was freed a moment ago included.                                   *)
(***************************************************************************)
EXTENDS Integers, SequencesExt

CONSTANTS
    Threads,             \* the threads of the user
    Sockets,             \* the places a socket can be at
    Mem,                 \* the cells malloc can hand out
    NULL,
    StackDepths,         \* the stack_depth given to uinet_setl2info
    SockOpts,            \* the options given to uinet_sosetsockopt
    MaxResid,            \* the most a uio asks to move
    MaxLeft,             \* bound on the configuration sockets left open
    InitializeAgain,     \* a thread is initialized again after it was finalized
    CloseBeforeDeliver   \* a listener is closed with deferrals on it

ASSUME /\ MaxResid \in Nat /\ MaxLeft \in Nat
       /\ StackDepths \subseteq Int
       /\ InitializeAgain \in BOOLEAN /\ CloseBeforeDeliver \in BOOLEAN

VARIABLES
    heap,        \* what every cell is: "free", or what was allocated in it
    pcurthread,  \* the thread structure of every thread (thread-local)
    phase,       \* what the user did last on a thread: nothing yet ("new"),
                 \* initialized it ("up") or finalized it ("done")
    so,          \* the socket at every place
    deferred,    \* the deferrals the user holds: [mem, so]
    sa,          \* the user's struct uinet_sockaddr *sa, for the name of a socket
    if_up,       \* the interface has IFF_UP and the promiscuous flags
    left_open,   \* configuration sockets that were not closed
    uio_resid,   \* uio->uio_resid of the user's uio after the last transfer
    fault        \* "none", or the undefined behaviour the program ran into

vars == <<heap, pcurthread, phase, so, deferred, sa, if_up, left_open, uio_resid, fault>>
threadVars == <<pcurthread, phase>>
otherVars == <<sa, if_up, left_open, uio_resid>>

-----------------------------------------------------------------------------
(* The socket layer *)

Promiscuous == <<"SO_PROMISC", "SO_SETFIB", "SO_REUSEPORT", "IP_BINDANY">>
Upcalls == {"UINET_SO_RCV", "UINET_SO_SND"}
Decisions == {"ACCEPT", "REJECT", "DEFER"}

L2Info == [tag_any : BOOLEAN, cnt : Nat]

Socket ==
    [state : {"open", "bound", "listening", "connected", "shutdown"},
     nbio : BOOLEAN, options : SUBSET (Range(Promiscuous) \cup SockOpts), upcall : SUBSET Upcalls,
     synf : Mem \cup {NULL}, l2info : L2Info \cup {NULL}]

(* What socreate() makes. *)
socreate ==
    [state |-> "open", nbio |-> FALSE, options |-> {}, upcall |-> {}, synf |-> NULL,
     l2info |-> NULL]

(* The states sobind, solisten, soconnect, soshutdown take a socket from,
   and the state they leave it in when they succeed. *)
Transition ==
    [sobind     |-> [from |-> {"open"}, to |-> "bound"],
     solisten   |-> [from |-> {"open", "bound"}, to |-> "listening"],
     soconnect  |-> [from |-> {"open", "bound"}, to |-> "connected"],
     soshutdown |-> [from |-> {"connected"}, to |-> "shutdown"]]

Live(s) == so[s] # NULL

-----------------------------------------------------------------------------
(* Memory *)

Kinds == {"thread", "ctx", "deferral", "sockaddr"}

Free == {m \in Mem : heap[m] = "free"}

(* What comes of reading or writing through m as a `kind`. *)
Deref(m, kind) ==
    CASE m = NULL -> "NULL dereferenced"
      [] m # NULL /\ heap[m] = kind -> "none"
      [] OTHER -> "freed memory used"

(* free(m): nothing for NULL; a cell that is free already is freed twice. *)
free(m) ==
    IF m = NULL THEN UNCHANGED <<heap, fault>>
    ELSE /\ heap' = [heap EXCEPT ![m] = "free"]
         /\ fault' = IF heap[m] = "free" THEN "memory freed twice" ELSE fault

Running == fault = "none"

-----------------------------------------------------------------------------
TypeOK ==
    /\ heap \in [Mem -> Kinds \cup {"free"}]
    /\ pcurthread \in [Threads -> Mem \cup {NULL}]
    /\ phase \in [Threads -> {"new", "up", "done"}]
    /\ so \in [Sockets -> Socket \cup {NULL}]
    /\ deferred \subseteq [mem : Mem, so : Sockets]
    /\ sa \in Mem \cup {NULL}
    /\ if_up \in BOOLEAN
    /\ left_open \in 0..MaxLeft
    /\ uio_resid \in 0..MaxResid
    /\ fault \in {"none", "NULL dereferenced", "freed memory used", "memory freed twice"}

Init ==
    /\ heap = [m \in Mem |-> "free"]
    /\ pcurthread = [t \in Threads |-> NULL]
    /\ phase = [t \in Threads |-> "new"]
    /\ so = [s \in Sockets |-> NULL]
    /\ deferred = {}
    /\ sa = NULL
    /\ if_up = FALSE
    /\ left_open = 0
    /\ uio_resid = 0
    /\ fault = "none"

-----------------------------------------------------------------------------
(* Threads *)

(* uinet_initialize_thread(): a thread without a thread structure gets
   one, unless there is no memory (ENOMEM); a thread whose pcurthread is
   set keeps what it has. *)
uinet_initialize_thread(t) ==
    /\ Running
    /\ phase[t] = "new" \/ (InitializeAgain /\ phase[t] = "done")
    /\ IF pcurthread[t] = NULL
       THEN \/ \E td \in Free :
                 /\ heap' = [heap EXCEPT ![td] = "thread"]
                 /\ pcurthread' = [pcurthread EXCEPT ![t] = td]
                 /\ phase' = [phase EXCEPT ![t] = "up"]
            \/ UNCHANGED <<heap, threadVars>>
       ELSE /\ phase' = [phase EXCEPT ![t] = "up"]
            /\ UNCHANGED <<heap, pcurthread>>
    /\ UNCHANGED <<so, deferred, otherVars, fault>>

(* uinet_finalize_thread(): the thread structure is freed; pcurthread is
   left as it is. *)
uinet_finalize_thread(t) ==
    /\ Running
    /\ phase[t] = "up"
    /\ free(pcurthread[t])
    /\ phase' = [phase EXCEPT ![t] = "done"]
    /\ UNCHANGED <<pcurthread, so, deferred, otherVars>>

-----------------------------------------------------------------------------
(* Calls that take curthread *)

(* A thread the user has initialized calls with its curthread, which is
   read, by this file or by the socket layer; `call` is what the call does
   to `changed` when the thread structure is one. *)
WithCurthread(t, changed, call) ==
    /\ Running
    /\ phase[t] = "up"
    /\ LET f == Deref(pcurthread[t], "thread")
       IN  IF f = "none" THEN call /\ UNCHANGED fault
           ELSE fault' = f /\ UNCHANGED changed

(* The call succeeds and leaves socket s as `new`, or fails and leaves it
   as it was. *)
SocketCall(t, s, new) ==
    /\ WithCurthread(t, so, so' = [so EXCEPT ![s] = new] \/ UNCHANGED so)
    /\ UNCHANGED <<heap, threadVars, deferred, otherVars>>

(* The socket is one that `call` can be made on, and what it is after. *)
Can(s, call) == Live(s) /\ so[s].state \in Transition[call].from
After(s, call) == [so[s] EXCEPT !.state = Transition[call].to]

uinet_socreate(t, s) ==
    /\ ~Live(s)
    /\ SocketCall(t, s, socreate)

uinet_sobind(t, s) ==
    /\ Can(s, "sobind")
    /\ SocketCall(t, s, After(s, "sobind"))

uinet_solisten(t, s) ==
    /\ Can(s, "solisten")
    /\ SocketCall(t, s, After(s, "solisten"))

uinet_soconnect(t, s) ==
    /\ Can(s, "soconnect")
    /\ SocketCall(t, s, After(s, "soconnect"))

(* uinet_sosend() and uinet_soreceive(): the user's uio is copied into one
   of the kernel with curthread in it, the socket layer moves what it can,
   and what is left to move is copied back. *)
Transfer(t, s, resid) ==
    /\ Live(s)
    /\ so[s].state = "connected"
    /\ WithCurthread(t, uio_resid, \E moved \in 0..resid : uio_resid' = resid - moved)
    /\ UNCHANGED <<heap, threadVars, so, deferred, sa, if_up, left_open>>

uinet_sosend(t, s, resid) ==
    /\ resid \in 1..MaxResid
    /\ Transfer(t, s, resid)

uinet_soreceive(t, s, resid) ==
    /\ resid \in 1..MaxResid
    /\ Transfer(t, s, resid)

(* uinet_interface_up(): a configuration socket is created, the flags of
   the interface are read, IFF_UP and the promiscuous flags are added and
   written, and the socket is closed.  When socreate fails nothing is
   done; when one of the two ifioctl calls fails the function returns as
   it is. *)
uinet_interface_up(t) ==
    /\ WithCurthread(t, <<if_up, left_open>>,
          \/ UNCHANGED <<if_up, left_open>>
          \/ /\ left_open < MaxLeft
             /\ left_open' = left_open + 1
             /\ UNCHANGED if_up
          \/ /\ if_up' = TRUE
             /\ UNCHANGED left_open)
    /\ UNCHANGED <<heap, threadVars, so, deferred, sa, uio_resid>>

-----------------------------------------------------------------------------
(* Calls on a socket *)

(* A call that leaves socket s as `new` and changes nothing else. *)
OnSocket(s, new) ==
    /\ so' = [so EXCEPT ![s] = new]
    /\ UNCHANGED <<heap, threadVars, deferred, otherVars, fault>>

(* uinet_make_socket_promiscuous(): four options are set one after the
   other, up to the first that fails. *)
uinet_make_socket_promiscuous(s, set) ==
    /\ Running
    /\ Live(s)
    /\ OnSocket(s, [so[s] EXCEPT !.options = @ \cup {Promiscuous[i] : i \in 1..set}])

(* uinet_setl2info(): any tag for a negative stack_depth, stack_depth tags
   for a positive one; so_setsockopt takes it or fails. *)
uinet_setl2info(s, stack_depth) ==
    LET l2i == [tag_any |-> stack_depth < 0,
                cnt |-> IF stack_depth > 0 THEN stack_depth ELSE 0]
    IN  /\ Running
        /\ Live(s)
        /\ \E error \in BOOLEAN :
               OnSocket(s, IF error THEN so[s] ELSE [so[s] EXCEPT !.l2info = l2i])

uinet_sosetnonblocking(s, nonblocking) ==
    /\ Running
    /\ Live(s)
    /\ OnSocket(s, [so[s] EXCEPT !.nbio = (nonblocking # 0)])

(* uinet_sosetsockopt(): the option goes to so_setsockopt as it is, which
   sets or clears it, or fails. *)
uinet_sosetsockopt(s, optname, optval) ==
    /\ Running
    /\ Live(s)
    /\ \E error \in BOOLEAN :
           OnSocket(s, IF error THEN so[s]
                       ELSE [so[s] EXCEPT !.options =
                                IF optval # 0 THEN @ \cup {optname} ELSE @ \ {optname}])

uinet_soshutdown(s) ==
    /\ Running
    /\ Can(s, "soshutdown")
    /\ \E error \in BOOLEAN :
           OnSocket(s, IF error THEN so[s] ELSE After(s, "soshutdown"))

(* uinet_soupcall_set() and uinet_soupcall_clear(): for the receive or the
   send buffer; any other `which` returns at once. *)
uinet_soupcall_set(s, which) ==
    /\ Running
    /\ Live(s)
    /\ OnSocket(s, IF which \in Upcalls THEN [so[s] EXCEPT !.upcall = @ \cup {which}]
                   ELSE so[s])

uinet_soupcall_clear(s, which) ==
    /\ Running
    /\ Live(s)
    /\ OnSocket(s, IF which \in Upcalls THEN [so[s] EXCEPT !.upcall = @ \ {which}]
                   ELSE so[s])

-----------------------------------------------------------------------------
(* The name of a socket *)

(* *sa = NULL, and then the protocol's pru_peeraddr or pru_sockaddr: it
   allocates the name and stores it in *sa when the socket `has` one, or
   fails and leaves *sa. *)
getaddr(s, has) ==
    /\ Running
    /\ Live(s)
    /\ sa = NULL
    /\ \/ \E m \in Free : has /\ sa' = m /\ heap' = [heap EXCEPT ![m] = "sockaddr"]
       \/ sa' = NULL /\ UNCHANGED heap
    /\ UNCHANGED <<threadVars, so, deferred, if_up, left_open, uio_resid, fault>>

uinet_sogetpeeraddr(s) ==
    /\ Live(s)
    /\ getaddr(s, so[s].state \in {"connected", "shutdown"})

uinet_sogetsockaddr(s) ==
    /\ Live(s)
    /\ getaddr(s, TRUE)

(* uinet_free_sockaddr(), by a user that gives back what it was given,
   failed calls included, and forgets it. *)
uinet_free_sockaddr ==
    /\ Running
    /\ free(sa)
    /\ sa' = NULL
    /\ UNCHANGED <<threadVars, so, deferred, if_up, left_open, uio_resid>>

-----------------------------------------------------------------------------
(* The syn filter *)

(* uinet_api_synfilter_dtor(): the socket layer gives back the instance
   argument of a filter when it takes the filter away. *)
uinet_api_synfilter_dtor(arg) == free(arg)

(* uinet_soclose(): the socket is gone, and its filter with it. *)
uinet_soclose(s) ==
    /\ Running
    /\ Live(s)
    /\ CloseBeforeDeliver \/ \A d \in deferred : d.so # s
    /\ so' = [so EXCEPT ![s] = NULL]
    /\ IF so[s].synf # NULL THEN uinet_api_synfilter_dtor(so[s].synf)
       ELSE UNCHANGED <<heap, fault>>
    /\ UNCHANGED <<threadVars, deferred, otherVars>>

(* uinet_api_synfilter_ctor(): the argument of the filter holds the pointer
   to the context, which becomes the instance argument. *)
uinet_api_synfilter_ctor(arg) == arg

(* An install that frees the context whatever so_setsockopt returned. *)
install_and_free(s, ctx, error) ==
    /\ so' = [so EXCEPT ![s].synf = IF error THEN @ ELSE uinet_api_synfilter_ctor(ctx)]
    /\ UNCHANGED heap

(* An install that keeps the context whatever so_setsockopt returned. *)
install_and_keep(s, ctx, error) ==
    /\ so' = [so EXCEPT ![s].synf = IF error THEN @ ELSE uinet_api_synfilter_ctor(ctx)]
    /\ heap' = [heap EXCEPT ![ctx] = "ctx"]

(* uinet_synfilter_install(), from malloc on: the context is given to the
   socket layer as the argument of the filter, and freed when so_setsockopt
   fails. *)
install(s, ctx, error) ==
    /\ so' = [so EXCEPT ![s].synf = IF error THEN @ ELSE uinet_api_synfilter_ctor(ctx)]
    /\ heap' = [heap EXCEPT ![ctx] = IF error THEN "free" ELSE "ctx"]

(* The socket layer takes a filter on a listening socket that has none. *)
uinet_synfilter_install(s) ==
    /\ Running
    /\ Live(s)
    /\ \E ctx \in Free, error \in BOOLEAN :
           /\ ~error => so[s].state = "listening" /\ so[s].synf = NULL
           /\ install(s, ctx, error)
    /\ UNCHANGED <<threadVars, deferred, otherVars, fault>>

(* uinet_synfilter_deferral_alloc(): a copy of the question, for the user
   to keep. *)
uinet_synfilter_deferral_alloc(s, m) ==
    /\ heap' = [heap EXCEPT ![m] = "deferral"]
    /\ deferred' = deferred \cup {[mem |-> m, so |-> s]}

(* uinet_api_synfilter_callback(): a SYN has come in for a listening
   socket with a filter, and the stack asks.  The context is read and the
   user's callback is called, which decides or defers. *)
uinet_api_synfilter_callback(s, decision) ==
    /\ Running
    /\ Live(s)
    /\ so[s].state = "listening"
    /\ so[s].synf # NULL
    /\ LET f == Deref(so[s].synf, "ctx")
       IN  IF f # "none" THEN fault' = f /\ UNCHANGED <<heap, deferred>>
           ELSE /\ UNCHANGED fault
                /\ IF decision = "DEFER"
                   THEN \E m \in Free : uinet_synfilter_deferral_alloc(s, m)
                   ELSE UNCHANGED <<heap, deferred>>
    /\ UNCHANGED <<threadVars, so, otherVars>>

(* uinet_synfilter_deferral_deliver(): the decision is written into the
   deferral and given to the socket, and the deferral is freed. *)
uinet_synfilter_deferral_deliver(d) ==
    /\ Running
    /\ d \in deferred
    /\ deferred' = deferred \ {d}
    /\ LET f == Deref(d.mem, "deferral")
       IN  CASE f # "none" -> fault' = f /\ UNCHANGED heap
             [] f = "none" /\ ~Live(d.so) -> fault' = "freed memory used" /\ UNCHANGED heap
             [] OTHER -> free(d.mem)
    /\ UNCHANGED <<threadVars, so, otherVars>>

-----------------------------------------------------------------------------
Next ==
    \/ \E t \in Threads : uinet_initialize_thread(t)
    \/ \E t \in Threads : uinet_finalize_thread(t)
    \/ \E t \in Threads, s \in Sockets : uinet_socreate(t, s)
    \/ \E t \in Threads, s \in Sockets : uinet_sobind(t, s)
    \/ \E t \in Threads, s \in Sockets : uinet_solisten(t, s)
    \/ \E t \in Threads, s \in Sockets : uinet_soconnect(t, s)
    \/ \E t \in Threads, s \in Sockets, resid \in 1..MaxResid : uinet_sosend(t, s, resid)
    \/ \E t \in Threads, s \in Sockets, resid \in 1..MaxResid : uinet_soreceive(t, s, resid)
    \/ \E t \in Threads : uinet_interface_up(t)
    \/ \E s \in Sockets, set \in 0..Len(Promiscuous) : uinet_make_socket_promiscuous(s, set)
    \/ \E s \in Sockets, stack_depth \in StackDepths : uinet_setl2info(s, stack_depth)
    \/ \E s \in Sockets, nonblocking \in {0, 1} : uinet_sosetnonblocking(s, nonblocking)
    \/ \E s \in Sockets, optname \in SockOpts, optval \in {0, 1} :
           uinet_sosetsockopt(s, optname, optval)
    \/ \E s \in Sockets : uinet_soshutdown(s)
    \/ \E s \in Sockets, which \in Upcalls \cup {"other"} : uinet_soupcall_set(s, which)
    \/ \E s \in Sockets, which \in Upcalls \cup {"other"} : uinet_soupcall_clear(s, which)
    \/ \E s \in Sockets : uinet_soclose(s)
    \/ \E s \in Sockets : uinet_sogetpeeraddr(s)
    \/ \E s \in Sockets : uinet_sogetsockaddr(s)
    \/ uinet_free_sockaddr
    \/ \E s \in Sockets : uinet_synfilter_install(s)
    \/ \E s \in Sockets, decision \in Decisions : uinet_api_synfilter_callback(s, decision)
    \/ \E d \in [mem : Mem, so : Sockets] : uinet_synfilter_deferral_deliver(d)

Spec == Init /\ [][Next]_vars

-----------------------------------------------------------------------------
(* Properties *)

(* The program never reads through NULL or through memory that was freed,
   and frees nothing twice: a thread structure, the context of a filter and
   a deferral are used only between their malloc and their free, by the
   calls that take curthread, by uinet_api_synfilter_callback() for every
   SYN, and by uinet_synfilter_deferral_deliver(). *)
NeverFaults == fault = "none"

(* Every cell that is allocated has one holder, and every holder a cell of
   its own: a thread that is initialized its thread structure, a socket
   with a filter the context uinet_synfilter_install() allocated, the user
   the deferrals and the name of a socket.  Nothing is leaked when so_setsockopt fails in
   uinet_synfilter_install() or when a socket with a filter is closed, and
   no two threads get the same thread structure from
   uinet_initialize_thread(). *)
Holders(m) ==
    [thread |-> {t \in Threads : phase[t] = "up" /\ pcurthread[t] = m},
     ctx |-> {s \in Sockets : Live(s) /\ so[s].synf = m},
     deferral |-> {d \in deferred : d.mem = m},
     sockaddr |-> {sa} \cap {m}]

HeapIsOwned ==
    \A m \in Mem :
        \A kind \in Kinds :
            Cardinality(Holders(m)[kind]) = IF heap[m] = kind THEN 1 ELSE 0

(* uinet_interface_up() leaves no socket behind. *)
ConfigSocketIsClosed == left_open = 0
=============================================================================
