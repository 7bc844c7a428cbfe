---------------------------- MODULE SocketUinet ----------------------------
(***************************************************************************)
(* SocketUinet::accept on a CallbackThread.  Three threads meet in a       *)
(* listening socket: its user, which is code the callback thread runs (a   *)
(* handler, or the set-up before the thread is started); the network       *)
(* stack, which calls receive_upcall() under the socket's upcall lock when *)
(* a connection completes; and the callback thread, which runs the user's  *)
(* handler.  accept() either finds a connection and schedules the callback *)
(* or leaves accept_do_ set for the upcall to do so.  close() closes the   *)
(* socket of the stack and schedules the user's callback, whose handler    *)
(* deletes the SocketUinet.                                                *)
(*                                                                         *)
(* An object of CallbackThread is here a listening socket together with    *)
(* its user: action[o] is the cancellation accept() returned to the user.  *)
(***************************************************************************)
EXTENDS CallbackThread

CONSTANT MaxArrivals   \* how many connections complete on each socket

ASSUME MaxArrivals \in Nat

VARIABLES
    accept_do,        \* accept_do_ of each socket
    accept_action,    \* accept_action_: the scheduled callback, or NULL
    accept_callback,  \* accept_callback_: the callback not yet scheduled, or NULL
    so_comp,          \* how many completed connections wait in the listen queue
    arrived,          \* how many connections have completed so far
    upcalls,          \* how many upcalls the stack still has to make
    busy,             \* the upcall is inside do_accept(), holding the upcall lock
    param,            \* param[cb]: the event the callback was given
    cancelling,       \* where accept_cancel() is: [so |-> socket, at |-> step], or NULL
    so_,              \* so_: "open", "closed" by uinet_soclose, "deleted" with its owner
    close_action      \* the cancellation close() returned to the user, or NULL

closeVars == <<so_, close_action>>

socketVars == <<accept_do, accept_action, accept_callback, so_comp, arrived,
                upcalls, busy, param, cancelling, closeVars>>

allVars == <<vars, socketVars>>

SocketInit ==
    /\ Init
    /\ accept_do = [o \in Objects |-> FALSE]
    /\ accept_action = [o \in Objects |-> NULL]
    /\ accept_callback = [o \in Objects |-> NULL]
    /\ so_comp = [o \in Objects |-> 0]
    /\ arrived = [o \in Objects |-> 0]
    /\ upcalls = [o \in Objects |-> 0]
    /\ busy = [o \in Objects |-> FALSE]
    /\ param = [cb \in Callbacks |-> "none"]
    /\ cancelling = NULL
    /\ so_ = [o \in Objects |-> "open"]
    /\ close_action = [o \in Objects |-> NULL]

SocketTypeOK ==
    /\ TypeOK
    /\ accept_do \in [Objects -> BOOLEAN]
    /\ accept_action \in [Objects -> Callbacks \cup {NULL}]
    /\ accept_callback \in [Objects -> Callbacks \cup {NULL}]
    /\ so_comp \in [Objects -> 0..MaxArrivals]
    /\ arrived \in [Objects -> 0..MaxArrivals]
    /\ upcalls \in [Objects -> 0..MaxArrivals]
    /\ busy \in [Objects -> BOOLEAN]
    /\ param \in [Callbacks -> {"none", "Done", "Error"}]
    /\ cancelling \in [so : Objects, at : {"action", "callback"}] \cup {NULL}
    /\ so_ \in [Objects -> {"open", "closed", "deleted"}]
    /\ close_action \in [Objects -> Callbacks \cup {NULL}]

-----------------------------------------------------------------------------
(* SocketUinet::create: what the caller names is turned into the stack's   *)
(* numbers, and a socket of these is made.  NULL is "no socket".           *)

Families == {"IPv4", "IPv6", "Unix", "IP"}
Types == {"Stream", "Datagram"}
Protocols == {"", "tcp", "TCP", "udp", "UDP", "sctp"}
Domains == {"AF_INET", "AF_INET6"}
Errnos == {"0", "EPROTONOSUPPORT", "ENOBUFS"}

typenum(type) ==
    CASE type = "Stream" -> "SOCK_STREAM"
      [] type = "Datagram" -> "SOCK_DGRAM"
      [] OTHER -> NULL

protonum(protocol) ==
    CASE protocol = "" -> "0"
      [] protocol \in {"tcp", "TCP"} -> "IPPROTO_TCP"
      [] protocol \in {"udp", "UDP"} -> "IPPROTO_UDP"
      [] OTHER -> NULL

(* The switch on the family; the case of SocketAddressFamilyIP is compiled *)
(* out, so that family is one of the default's.                            *)
domainnum(family, inet6) ==
    CASE family = "IPv4" -> "AF_INET"
      [] family = "IPv6" /\ inet6 -> "AF_INET6"
      [] OTHER -> NULL

(* socreate[d] is what uinet_socreate returns for a socket of domain d. *)
RECURSIVE create(_, _, _, _, _)
create(family, type, protocol, inet6, socreate) ==
    LET t == typenum(type)
        p == protonum(protocol)
        d == domainnum(family, inet6)
    IN  IF NULL \in {t, p, d} THEN NULL
        ELSE IF socreate[d] = "0" THEN [domain |-> d, socktype |-> t, protocol |-> p]
        ELSE IF /\ inet6
                /\ socreate[d] = "EPROTONOSUPPORT"
                /\ d = "AF_INET6"
                /\ family = "IP"
             THEN create("IPv4", type, protocol, inet6, socreate)
             ELSE NULL

(* SocketUinet::create gives a socket exactly when the caller named a type, *)
(* a protocol and a family the stack has and uinet_socreate succeeded for  *)
(* that family's domain, and the socket is then of the domain, type and    *)
(* protocol named: never an IPv6 socket from a stack without IPv6, never   *)
(* an IPv4 socket for a caller that asked for IPv6.                        *)
CreateGivesWhatWasNamed ==
    \A family \in Families, type \in Types, protocol \in Protocols,
       inet6 \in BOOLEAN, socreate \in [Domains -> Errnos] :
        LET so == create(family, type, protocol, inet6, socreate)
            named == [domain |-> IF family = "IPv4" THEN "AF_INET" ELSE "AF_INET6",
                      socktype |-> IF type = "Stream" THEN "SOCK_STREAM" ELSE "SOCK_DGRAM",
                      protocol |-> CASE protocol = "" -> "0"
                                     [] protocol \in {"tcp", "TCP"} -> "IPPROTO_TCP"
                                     [] OTHER -> "IPPROTO_UDP"]
            possible == /\ family \in {"IPv4", "IPv6"}
                        /\ family = "IPv6" => inet6
                        /\ protocol # "sctp"
                        /\ socreate[named.domain] = "0"
        IN  so = IF possible THEN named ELSE NULL

(* create() is compared with its table before the states are explored. *)
ASSUME CreateGivesWhatWasNamed

-----------------------------------------------------------------------------
(* The network stack. *)

(* A connection completes: it is put on the listen queue and the stack     *)
(* will call the socket's receive upcall.                                  *)
Arrive(o) ==
    /\ halted = "no"
    /\ so_[o] = "open"
    /\ arrived[o] < MaxArrivals
    /\ arrived' = [arrived EXCEPT ![o] = @ + 1]
    /\ so_comp' = [so_comp EXCEPT ![o] = @ + 1]
    /\ upcalls' = [upcalls EXCEPT ![o] = @ + 1]
    /\ UNCHANGED <<vars, accept_do, accept_action, accept_callback, busy, param,
                   cancelling, closeVars>>

(* uinet_soaccept takes the first completed connection off the queue. *)
soaccept(o) ==
    /\ so_comp[o] > 0
    /\ so_comp' = [so_comp EXCEPT ![o] = @ - 1]

-----------------------------------------------------------------------------
(* do_accept(). *)

(* A connection, or an error accepting it: the callback gets its event and *)
(* is scheduled.                                                           *)
Complete(o, cb) ==
    /\ soaccept(o)
    /\ \E event \in {"Done", "Error"} : param' = [param EXCEPT ![cb] = event]
    /\ schedule(cb)

(* No connection: uinet_soaccept has called accept_wouldblock_handler      *)
(* before it gave up the upcall lock.                                      *)
WouldBlock(o) ==
    /\ so_comp[o] = 0
    /\ accept_do' = [accept_do EXCEPT ![o] = TRUE]
    /\ UNCHANGED <<so_comp, param, queue, pc>>

(* The user may call into the socket: it is the handler that is running    *)
(* and not inside accept_cancel(), or the set-up before main() has begun.  *)
UserRuns ==
    /\ halted = "no"
    /\ cancelling = NULL
    /\ pc \in {"start", "handling"}

(* SocketUinet::accept, called by a user that holds no cancellation. *)
Accept(o) ==
    /\ UserRuns
    /\ so_[o] = "open"
    /\ action[o] = NULL
    /\ \E cb \in Callbacks :
        /\ IsNew(cb)
        /\ target' = [target EXCEPT ![cb] = o]
        /\ action' = [action EXCEPT ![o] = cb]
        /\ IF accept_do[o] \/ accept_action[o] # NULL \/ accept_callback[o] # NULL
           THEN /\ halted' = "ASSERT"
                /\ UNCHANGED <<queue, pc, accept_do, accept_action, accept_callback,
                               so_comp, param>>
           ELSE /\ \/ /\ Complete(o, cb)
                      /\ accept_action' = [accept_action EXCEPT ![o] = cb]
                      /\ UNCHANGED <<accept_do, accept_callback>>
                   \/ /\ WouldBlock(o)
                      /\ accept_callback' = [accept_callback EXCEPT ![o] = cb]
                      /\ UNCHANGED accept_action
                /\ UNCHANGED halted
    /\ UNCHANGED <<inflight, idle, stop, running, deleted, started, cancelled,
                   arrived, upcalls, busy, cancelling, closeVars>>

(* receive_upcall that clears accept_do_ after do_accept() has returned. *)
UpcallClearsLast(o) ==
    /\ halted = "no"
    /\ upcalls[o] > 0
    /\ ~busy[o]
    /\ upcalls' = [upcalls EXCEPT ![o] = @ - 1]
    /\ \/ /\ ~accept_do[o] \/ so_comp[o] = 0
          /\ accept_do' = [accept_do EXCEPT ![o] = FALSE]
          /\ UNCHANGED <<queue, pc, so_comp, param, busy>>
       \/ /\ accept_do[o]
          /\ accept_do' = [accept_do EXCEPT ![o] = FALSE]
          /\ Complete(o, accept_callback[o])
          /\ busy' = [busy EXCEPT ![o] = TRUE]
    /\ UNCHANGED <<inflight, idle, stop, running, action, target, deleted, started,
                   cancelled, halted, accept_action, accept_callback, arrived,
                   cancelling, closeVars>>

(* receive_upcall, by the stack under the upcall lock, as far as           *)
(* do_accept()'s schedule(): with accept_do_ set it is cleared and         *)
(* do_accept() called, which may set it again.                             *)
UpcallBegin(o) ==
    /\ halted = "no"
    /\ upcalls[o] > 0
    /\ ~busy[o]
    /\ upcalls' = [upcalls EXCEPT ![o] = @ - 1]
    /\ \/ /\ ~accept_do[o]
          /\ UNCHANGED <<queue, pc, accept_do, so_comp, param, busy>>
       \/ /\ accept_do[o]
          /\ WouldBlock(o)
          /\ UNCHANGED busy
       \/ /\ accept_do[o]
          /\ accept_do' = [accept_do EXCEPT ![o] = FALSE]
          /\ Complete(o, accept_callback[o])
          /\ busy' = [busy EXCEPT ![o] = TRUE]
    /\ UNCHANGED <<inflight, idle, stop, running, action, target, deleted, started,
                   cancelled, halted, accept_action, accept_callback, arrived,
                   cancelling, closeVars>>

(* The rest of do_accept() in the upcall: the action schedule() returned   *)
(* is stored, accept_callback_ cleared, and the upcall lock given up.      *)
UpcallStore(o) ==
    /\ halted = "no"
    /\ busy[o]
    /\ accept_action' = [accept_action EXCEPT ![o] = accept_callback[o]]
    /\ accept_callback' = [accept_callback EXCEPT ![o] = NULL]
    /\ busy' = [busy EXCEPT ![o] = FALSE]
    /\ UNCHANGED <<vars, accept_do, so_comp, arrived, upcalls, param, cancelling,
                   closeVars>>

-----------------------------------------------------------------------------
(* accept_cancel(). *)

(* accept_cancel that leaves accept_do_ as it is. *)
accept_cancel_keeps(o) ==
    /\ ~busy[o]
    /\ cancelling' = [so |-> o, at |-> "action"]
    /\ UNCHANGED accept_do

(* Under the upcall lock: the upcall is told to leave the accept alone. *)
accept_cancel(o) ==
    /\ ~busy[o]
    /\ accept_do' = [accept_do EXCEPT ![o] = FALSE]
    /\ cancelling' = [so |-> o, at |-> "action"]

(* accept_cancel that forgets the scheduled callback without cancelling it. *)
AcceptCancelForgets ==
    /\ halted = "no"
    /\ cancelling # NULL
    /\ cancelling.at = "action"
    /\ accept_action' = [accept_action EXCEPT ![cancelling.so] = NULL]
    /\ cancelling' = [cancelling EXCEPT !.at = "callback"]
    /\ UNCHANGED <<queue, inflight, deleted, cancelled, halted>>
    /\ UNCHANGED <<idle, stop, pc, running, action, target, started, accept_do,
                   accept_callback, so_comp, arrived, upcalls, busy, param, closeVars>>

(* Without the lock: a scheduled callback is cancelled. *)
AcceptCancelAction ==
    /\ halted = "no"
    /\ cancelling # NULL
    /\ cancelling.at = "action"
    /\ LET o == cancelling.so IN
        \/ /\ accept_action[o] # NULL
           /\ cancel(accept_action[o])
           /\ accept_action' = [accept_action EXCEPT ![o] = NULL]
        \/ /\ accept_action[o] = NULL
           /\ UNCHANGED <<queue, inflight, deleted, cancelled, halted, accept_action>>
    /\ cancelling' = [cancelling EXCEPT !.at = "callback"]
    /\ UNCHANGED <<idle, stop, pc, running, action, target, started, accept_do,
                   accept_callback, so_comp, arrived, upcalls, busy, param, closeVars>>

(* A callback that was never scheduled is deleted; accept_cancel returns   *)
(* and the user forgets its cancellation.                                  *)
AcceptCancelCallback ==
    /\ halted = "no"
    /\ cancelling # NULL
    /\ cancelling.at = "callback"
    /\ LET o == cancelling.so IN
        /\ deleted' = deleted \cup ({accept_callback[o]} \ {NULL})
        /\ accept_callback' = [accept_callback EXCEPT ![o] = NULL]
        /\ action' = [action EXCEPT ![o] = NULL]
    /\ cancelling' = NULL
    /\ UNCHANGED <<queue, inflight, idle, stop, pc, running, target, started,
                   cancelled, halted, accept_do, accept_action, so_comp, arrived,
                   upcalls, busy, param, closeVars>>

-----------------------------------------------------------------------------
(* close() and the destructor. *)

(* cb is the callback a close() scheduled. *)
IsClose(cb) == close_action[target[cb]] = cb

(* uinet_soclose: the stack gives up the socket, and with it the           *)
(* connections nobody accepted and the upcalls it had yet to make.         *)
soclose(o) ==
    /\ so_' = [so_ EXCEPT ![o] = "closed"]
    /\ so_comp' = [so_comp EXCEPT ![o] = 0]
    /\ upcalls' = [upcalls EXCEPT ![o] = 0]

(* SocketUinet::close, by a user that has cancelled its accept: whatever   *)
(* uinet_soclose returned, the callback is scheduled.                      *)
Close(o) ==
    /\ UserRuns
    /\ so_[o] = "open"
    /\ action[o] = NULL
    /\ soclose(o)
    /\ \E cb \in Callbacks :
        /\ IsNew(cb)
        /\ target' = [target EXCEPT ![cb] = o]
        /\ schedule(cb)
        /\ close_action' = [close_action EXCEPT ![o] = cb]
    /\ UNCHANGED <<inflight, idle, stop, running, action, deleted, started, cancelled,
                   halted, accept_do, accept_action, accept_callback, arrived, busy,
                   param, cancelling>>

(* ~SocketUinet, with its three asserts. *)
Destroy(o) ==
    IF accept_do[o] \/ accept_action[o] # NULL \/ accept_callback[o] # NULL
    THEN halted' = "ASSERT" /\ UNCHANGED so_
    ELSE so_' = [so_ EXCEPT ![o] = "deleted"] /\ UNCHANGED halted

(* execute() enters the handler of a close: it cancels its cancellation    *)
(* and deletes the socket.                                                 *)
CloseHandlerEnter ==
    /\ halted = "no"
    /\ pc = "execute"
    /\ IsClose(running)
    /\ started' = Append(started, running)
    /\ inflight' = NULL
    /\ cancelled' = cancelled \cup {running}
    /\ close_action' = [close_action EXCEPT ![target[running]] = NULL]
    /\ Destroy(target[running])
    /\ pc' = "handling"
    /\ UNCHANGED <<queue, idle, stop, running, action, target, deleted, accept_do,
                   accept_action, accept_callback, so_comp, arrived, upcalls, busy,
                   param, cancelling>>

-----------------------------------------------------------------------------
(* The user's handler. *)

(* execute() enters the handler, which cancels its cancellation first. *)
AcceptHandlerEnter ==
    /\ halted = "no"
    /\ pc = "execute"
    /\ ~IsClose(running)
    /\ started' = Append(started, running)
    /\ LET o == target[running] IN
        \/ /\ action[o] = NULL
           /\ halted' = "NULL"
           /\ UNCHANGED <<pc, accept_do, cancelling>>
        \/ /\ action[o] # NULL
           /\ accept_cancel(o)
           /\ pc' = "handling"
           /\ UNCHANGED halted
    /\ UNCHANGED <<queue, inflight, idle, stop, running, action, target, deleted,
                   cancelled, accept_action, accept_callback, so_comp, arrived,
                   upcalls, busy, param, closeVars>>

(* A handler cancels an accept that is outstanding, its own new one or     *)
(* another socket's.                                                       *)
UserCancel(o) ==
    /\ UserRuns
    /\ pc = "handling"
    /\ action[o] # NULL
    /\ accept_cancel(o)
    /\ UNCHANGED <<vars, accept_action, accept_callback, so_comp, arrived,
                   upcalls, busy, param, closeVars>>

(* The handler returns. *)
AcceptHandlerReturn ==
    /\ cancelling = NULL
    /\ HandlerReturn
    /\ UNCHANGED socketVars

-----------------------------------------------------------------------------
(* main() of the callback thread, as in CallbackThread. *)
Thread ==
    /\ MainStart \/ MainWake \/ MainResume
    /\ UNCHANGED socketVars

(* Every step the callback thread is bound to take. *)
Runs ==
    \/ Thread
    \/ AcceptHandlerEnter
    \/ CloseHandlerEnter
    \/ AcceptCancelAction
    \/ AcceptCancelCallback
    \/ AcceptHandlerReturn

(* Every step the stack is bound to take. *)
Upcall == \E o \in Objects : UpcallBegin(o) \/ UpcallStore(o)

SocketNext ==
    \/ Runs
    \/ Upcall
    \/ \E o \in Objects : Arrive(o) \/ Accept(o) \/ UserCancel(o) \/ Close(o)

SocketSpec ==
    SocketInit /\ [][SocketNext]_allVars /\ WF_allVars(Runs) /\ WF_allVars(Upcall)

-----------------------------------------------------------------------------
(* A user that waits for a connection gets one that is there: while a      *)
(* connection is on the listen queue and the user holds its cancellation,  *)
(* the callback is on its way, whatever the order in which the connection, *)
(* the upcall and accept() came.  receive_upcall clears accept_do_ before  *)
(* do_accept() so that the would-block handler's setting it again is kept. *)
ConnectionDelivered ==
    \A o \in Objects :
        (so_comp[o] > 0 /\ action[o] # NULL) ~> (so_comp[o] = 0 \/ action[o] = NULL)

(* What the comment in accept_cancel() relies on: between giving up the    *)
(* upcall lock and its end, accept_do_ is false and no upcall is inside    *)
(* do_accept(), so accept_action_ and accept_callback_ are accept_cancel's *)
(* alone.                                                                  *)
CancelIsAlone ==
    cancelling # NULL => ~accept_do[cancelling.so] /\ ~busy[cancelling.so]

(* The asserts of accept() hold and the callback thread never HALTs: when  *)
(* the handler runs, accept_action_ is the callback in flight, so its      *)
(* cancel clears inflight_; when the user accepts again, accept_cancel()   *)
(* has left accept_do_, accept_action_ and accept_callback_ clear.         *)
AcceptNeverAborts == halted = "no"

(* A connection accepted is handed to the user: a callback that was given  *)
(* a new socket (Done) is not deleted before its handler has run.          *)
AcceptedIsDelivered ==
    [][\A cb \in Callbacks :
        (param[cb] = "Done" /\ cb \in deleted' \ deleted) => Contains(started, cb)]_allVars
=============================================================================
