--------------------------- MODULE CallbackThread ---------------------------
(***************************************************************************)
(* CallbackThread: a queue of callbacks and the thread that runs them.     *)
(* Any thread may schedule() a callback and gets back an action that       *)
(* cancel()s it.  Everything schedule(), cancel() and main() do to the     *)
(* queue they do under mtx_, so each action below is one stretch of code   *)
(* between taking mtx_ and giving it up (by unlock or, atomically, by      *)
(* sleepq_.wait()).  The callback itself runs outside mtx_.                *)
(*                                                                         *)
(* The users are the objects of the comment above cancel(): each has a     *)
(* lock and one action `a`; it schedules its handler under its lock, and   *)
(* the handler, run by the callback thread, takes the lock and cancels the *)
(* action before anything else.                                            *)
(***************************************************************************)
EXTENDS Naturals, Sequences, FiniteSets, SequencesExt

CONSTANTS
    Threads,       \* the threads that use the callback thread, itself included
    Self,          \* the callback thread (code run from inside a handler)
    Cancellers,    \* the threads that cancel actions
    Objects,       \* the objects whose handlers are scheduled
    MaxCallbacks,  \* how many callbacks are created in a behaviour
    NULL

ASSUME /\ Self \in Threads
       /\ Cancellers \subseteq Threads
       /\ MaxCallbacks \in Nat
       /\ NULL \notin Objects

(* Callbacks are numbered in the order they are created. *)
Callbacks == 1..MaxCallbacks

ASSUME NULL \notin Callbacks

VARIABLES
    queue,      \* queue_
    inflight,   \* inflight_
    idle,       \* idle_
    stop,       \* stop_
    pc,         \* where main() is
    running,    \* cb of main(): the callback taken off the queue last
    action,     \* action[o]: the member `a` of object o, a callback or NULL
    target,     \* target[cb]: the object callback cb is bound to
    deleted,    \* the callbacks that were deleted
    started,    \* the callbacks whose execute() was entered, in that order
    cancelled,  \* the callbacks a cancel() has returned for
    halted      \* "no", or the reason the process was aborted

vars == <<queue, inflight, idle, stop, pc, running, action, target,
          deleted, started, cancelled, halted>>

Init ==
    /\ queue = <<>>
    /\ inflight = NULL
    /\ idle = FALSE
    /\ stop = FALSE
    /\ pc = "start"
    /\ running = NULL
    /\ action = [o \in Objects |-> NULL]
    /\ target = [cb \in Callbacks |-> NULL]
    /\ deleted = {}
    /\ started = <<>>
    /\ cancelled = {}
    /\ halted = "no"

TypeOK ==
    /\ queue \in Seq(Callbacks)
    /\ inflight \in Callbacks \cup {NULL}
    /\ idle \in BOOLEAN
    /\ stop \in BOOLEAN
    /\ pc \in {"start", "asleep", "woken", "execute", "handling", "executed", "done"}
    /\ running \in Callbacks \cup {NULL}
    /\ action \in [Objects -> Callbacks \cup {NULL}]
    /\ target \in [Callbacks -> Objects \cup {NULL}]
    /\ deleted \subseteq Callbacks
    /\ started \in Seq(Callbacks)
    /\ cancelled \subseteq Callbacks
    /\ halted \in {"no", "HALT", "NOTREACHED", "NULL"}

-----------------------------------------------------------------------------
(* The sleep queue and the queue of callbacks. *)

(* SleepQueue::signal: wakes the thread if it is waiting, else does nothing. *)
signal == pc' = IF pc = "asleep" THEN "woken" ELSE pc

(* SleepQueue::wait: gives up mtx_ and sleeps, in one step. *)
wait == pc' = "asleep"

(* schedule() that never signals. *)
scheduleQuiet(cb) ==
    /\ queue' = Append(queue, cb)
    /\ UNCHANGED pc

(* CallbackThread::schedule. *)
schedule(cb) ==
    /\ queue' = Append(queue, cb)
    /\ IF queue = <<>> /\ idle THEN signal ELSE UNCHANGED pc

(* cancel() that returns for a callback in flight without disowning it. *)
cancelKeepsInflight(cb) ==
    /\ cancelled' = cancelled \cup {cb}
    /\ IF inflight = cb \/ Contains(queue, cb)
       THEN /\ queue' = RemoveFirst(queue, cb)
            /\ deleted' = IF inflight = cb THEN deleted ELSE deleted \cup {cb}
            /\ UNCHANGED <<inflight, halted>>
       ELSE halted' = "NOTREACHED" /\ UNCHANGED <<queue, inflight, deleted>>

(* cancel() that deletes a queued callback and leaves it on the queue. *)
cancelLeavesQueued(cb) ==
    /\ cancelled' = cancelled \cup {cb}
    /\ IF inflight = cb
       THEN inflight' = NULL /\ UNCHANGED <<queue, deleted, halted>>
       ELSE /\ deleted' = deleted \cup {cb}
            /\ UNCHANGED <<queue, inflight, halted>>

(* CallbackThread::cancel.  A callback in flight is only disowned; one     *)
(* that waits is taken off the queue and deleted; any other is a bug of    *)
(* the caller.                                                             *)
cancel(cb) ==
    /\ cancelled' = cancelled \cup {cb}
    /\ \/ /\ inflight = cb
          /\ inflight' = NULL
          /\ UNCHANGED <<queue, deleted, halted>>
       \/ /\ inflight # cb
          /\ Contains(queue, cb)
          /\ queue' = RemoveFirst(queue, cb)
          /\ deleted' = deleted \cup {cb}
          /\ UNCHANGED <<inflight, halted>>
       \/ /\ inflight # cb
          /\ ~Contains(queue, cb)
          /\ halted' = "NOTREACHED"
          /\ UNCHANGED <<queue, inflight, deleted>>

-----------------------------------------------------------------------------
(* The users. *)

(* The handler of o is running and holds o's lock. *)
Locked(o) == pc = "handling" /\ target[running] = o

(* Thread t may take o's lock: code run by the callback thread is the      *)
(* handler that is running; another thread waits while a handler holds     *)
(* the lock.                                                               *)
MayLock(t, o) ==
    /\ halted = "no"
    /\ IF t = Self THEN pc = "handling" ELSE ~Locked(o)

(* cb is the next callback to be created. *)
IsNew(cb) == target[cb] = NULL /\ \A earlier \in 1..(cb - 1) : target[earlier] # NULL

(* lock(Foo); cb = callback(Foo, Foo::handle); a = schedule(cb); unlock(Foo) *)
Arm(t, o) ==
    /\ MayLock(t, o)
    /\ action[o] = NULL
    /\ \E cb \in Callbacks :
        /\ IsNew(cb)
        /\ target' = [target EXCEPT ![cb] = o]
        /\ schedule(cb)
        /\ action' = [action EXCEPT ![o] = cb]
    /\ UNCHANGED <<inflight, idle, stop, running, deleted, started, cancelled, halted>>

(* lock(Foo); a->cancel(); a = NULL; unlock(Foo) *)
Disarm(t, o) ==
    /\ MayLock(t, o)
    /\ action[o] # NULL
    /\ cancel(action[o])
    /\ action' = [action EXCEPT ![o] = NULL]
    /\ UNCHANGED <<idle, stop, pc, running, target, started>>

(* cb->execute() enters the handler: lock(Foo); a->cancel(), which is a    *)
(* NULL dereference when the action was cancelled meanwhile.               *)
HandlerEnter ==
    /\ halted = "no"
    /\ pc = "execute"
    /\ started' = Append(started, running)
    /\ LET o == target[running] IN
        \/ /\ action[o] = NULL
           /\ halted' = "NULL"
           /\ UNCHANGED <<queue, inflight, deleted, cancelled, action, pc>>
        \/ /\ action[o] # NULL
           /\ cancel(action[o])
           /\ action' = [action EXCEPT ![o] = NULL]
           /\ pc' = "handling"
    /\ UNCHANGED <<idle, stop, running, target>>

(* The handler returns and main() deletes the callback. *)
HandlerReturn ==
    /\ halted = "no"
    /\ pc = "handling"
    /\ deleted' = deleted \cup {running}
    /\ pc' = "executed"
    /\ UNCHANGED <<queue, inflight, idle, stop, running, action, target,
                   started, cancelled, halted>>

-----------------------------------------------------------------------------
(* CallbackThread::main. *)

(* The inner loop that never looks at stop_. *)
StopOrWaitDeaf == wait

(* The head of the inner loop: return when told to stop, else wait. *)
StopOrWait == IF stop THEN pc' = "done" ELSE wait

(* The queue is empty: idle_ is set and the thread waits or returns. *)
Sleep ==
    /\ queue = <<>>
    /\ idle' = TRUE
    /\ StopOrWait
    /\ UNCHANGED <<queue, inflight, running>>

(* Dispatch that takes the callback at the back. *)
DispatchBack ==
    /\ queue # <<>>
    /\ running' = Last(queue)
    /\ inflight' = Last(queue)
    /\ queue' = Front(queue)
    /\ pc' = "execute"

(* The callback at the front is taken and mtx_ given up to run it. *)
Dispatch ==
    /\ queue # <<>>
    /\ running' = Head(queue)
    /\ inflight' = Head(queue)
    /\ queue' = Tail(queue)
    /\ pc' = "execute"

(* main() takes mtx_ and enters its loop. *)
MainStart ==
    /\ halted = "no"
    /\ pc = "start"
    /\ Sleep \/ (Dispatch /\ UNCHANGED idle)
    /\ UNCHANGED <<stop, action, target, deleted, started, cancelled, halted>>

(* MainWake that looks at stop_ before it looks at the queue. *)
MainWakeStopFirst ==
    /\ halted = "no"
    /\ pc = "woken"
    /\ \/ stop /\ pc' = "done" /\ UNCHANGED <<queue, inflight, running, idle>>
       \/ ~stop /\ queue = <<>> /\ wait /\ UNCHANGED <<queue, inflight, running, idle>>
       \/ ~stop /\ Dispatch /\ idle' = FALSE
    /\ UNCHANGED <<stop, action, target, deleted, started, cancelled, halted>>

(* sleepq_.wait() returns: with nothing queued the inner loop goes round,  *)
(* else idle_ is cleared and the callbacks are run.                        *)
MainWake ==
    /\ halted = "no"
    /\ pc = "woken"
    /\ \/ queue = <<>> /\ StopOrWait /\ UNCHANGED <<queue, inflight, running, idle>>
       \/ Dispatch /\ idle' = FALSE
    /\ UNCHANGED <<stop, action, target, deleted, started, cancelled, halted>>

(* After execute(): the callback must have cancelled its action; then the  *)
(* next callback, or back to the head of the loop.                         *)
MainResume ==
    /\ halted = "no"
    /\ pc = "executed"
    /\ \/ /\ inflight # NULL
          /\ halted' = "HALT"
          /\ UNCHANGED <<queue, inflight, idle, pc, running>>
       \/ /\ inflight = NULL
          /\ Sleep \/ (Dispatch /\ UNCHANGED idle)
          /\ UNCHANGED halted
    /\ UNCHANGED <<stop, action, target, deleted, started, cancelled>>

(* A condition variable may wake its waiter without a signal. *)
SpuriousWake ==
    /\ halted = "no"
    /\ pc = "asleep"
    /\ pc' = "woken"
    /\ UNCHANGED <<queue, inflight, idle, stop, running, action, target,
                   deleted, started, cancelled, halted>>

(* EventSystem::stop tells the thread to stop. *)
Stop ==
    /\ halted = "no"
    /\ ~stop
    /\ stop' = TRUE
    /\ signal
    /\ UNCHANGED <<queue, inflight, idle, running, action, target,
                   deleted, started, cancelled, halted>>

(* Every step of the callback thread itself. *)
Main == MainStart \/ MainWake \/ MainResume \/ HandlerEnter \/ HandlerReturn

Next ==
    \/ Main
    \/ SpuriousWake
    \/ Stop
    \/ \E t \in Threads, o \in Objects : Arm(t, o)
    \/ \E t \in Cancellers, o \in Objects : Disarm(t, o)

(* The callback thread runs: its next step is taken. *)
Spec == Init /\ [][Next]_vars /\ WF_vars(Main)

-----------------------------------------------------------------------------
(* A sleeping thread has nothing to do: no callback is queued and no stop  *)
(* asked for while main() waits in sleepq_.wait() with no signal on its    *)
(* way.  schedule() signals only when the queue was empty and idle_ set,   *)
(* and main() sets idle_ before it waits, both under mtx_.                 *)
NoLostWakeup == pc = "asleep" => queue = <<>> /\ ~stop

(* The process is never aborted: main() finds inflight_ cleared after      *)
(* every execute() (no HALT "Callback not cancelled in execution"),        *)
(* cancel() always finds its callback in flight or queued (no NOTREACHED), *)
(* and a handler always finds its action set.                              *)
NeverAborts == halted = "no"

(* A callback whose cancel() has returned is not run afterwards: cancel()  *)
(* of a queued callback takes it off the queue before execute() can be     *)
(* reached.                                                                *)
CancelledNeverRuns ==
    [][\A cb \in Callbacks :
        cb \in cancelled /\ ~Contains(started, cb) => ~Contains(started', cb)]_vars

(* Callbacks are run in the order they were scheduled, each at most once:  *)
(* schedule() appends, main() takes from the front, cancel() erases one    *)
(* entry and keeps the order of the rest.                                  *)
RunsInOrder ==
    \A i, j \in 1..Len(started) : i < j => started[i] < started[j]

(* A callback that is queued while main() has not returned is run, unless  *)
(* it is cancelled first: main() looks at stop_ only with the queue empty. *)
ScheduledRuns ==
    \A cb \in Callbacks :
        (Contains(queue, cb) /\ pc # "done")
            ~> (Contains(started, cb) \/ cb \in cancelled)

(* A thread told to stop returns from main() once its queue is drained.    *)
StopEnds == stop ~> pc = "done"
=============================================================================
