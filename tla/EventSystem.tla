----------------------------- MODULE EventSystem -----------------------------
(***************************************************************************)
(* EventSystem (event_system.h) keeps the threads of the program in the    *)
(* deque threads_: start() starts its three threads and registers each     *)
(* with thread_wait(), IOUinet's constructor (io_uinet.cc) starts the      *)
(* handler thread and registers it too, stop() tells every registered      *)
(* thread to stop, and join() waits for the first thread of the deque,     *)
(* takes it off, and goes on until the deque is empty.                     *)
(*                                                                         *)
(* Nothing guards threads_.  join() is called by the main thread and       *)
(* blocks it, so stop() is called from elsewhere: by a callback that one   *)
(* of the threads runs, or by a signal handler that interrupts the main    *)
(* thread.  Thread (start, stop, join and the thread's own main) is not    *)
(* part of these sources and is modelled by its interface.                 *)
(***************************************************************************)
EXTENDS Naturals, Sequences, SequencesExt

CONSTANTS
    td_, poll_, timeout_,   \* the threads that are members of EventSystem
    handler_thread_,        \* the thread of IOUinet
    main,                   \* the thread that calls start() and join()
    NULL,
    Stoppers,       \* the threads that may call stop()
    IOFirst,        \* IOUinet is constructed before start(), not after it
    StopAnyTime,    \* stop() may be called before the main thread is in join()
    MaxStops        \* bound on the calls of stop()

Threads == {td_, poll_, timeout_, handler_thread_}

ASSUME /\ Stoppers \subseteq Threads \cup {main}
       /\ IOFirst \in BOOLEAN /\ StopAnyTime \in BOOLEAN
       /\ MaxStops \in Nat

VARIABLES
    threads_,   \* the deque of registered threads
    state,      \* of every thread: "new", "running", "stopping" (told to
                \* stop), "exited"
    todo,       \* the calls the main thread has yet to make before join()
    pc,         \* the main thread: "run", "pop" (inside join(), between
                \* front()->join() and pop_front()), "done"
    stopper,    \* the thread that is inside stop(), or NULL
    it,         \* the place of stop()'s iterator in threads_
    stops,      \* the calls of stop() so far
    raced       \* threads_ was changed by one thread while another walked it

vars == <<threads_, state, todo, pc, stopper, it, stops, raced>>

-----------------------------------------------------------------------------
(* What the main thread does *)

Calls == [call : {"start", "thread_wait"}, thread : Threads]

(* t.start(); thread_wait(&t); *)
StartAndWait(t) ==
    <<[call |-> "start", thread |-> t], [call |-> "thread_wait", thread |-> t]>>

(* A start() that starts the poll thread first. *)
start_poll_first == StartAndWait(poll_) \o StartAndWait(td_) \o StartAndWait(timeout_)

(* EventSystem::start(). *)
start == StartAndWait(td_) \o StartAndWait(poll_) \o StartAndWait(timeout_)

(* IOUinet::IOUinet(), from handler_thread_->start() on. *)
IOUinet == StartAndWait(handler_thread_)

(* The program: the two in either order, and then join(). *)
Program == IF IOFirst THEN IOUinet \o start ELSE start \o IOUinet

TypeOK ==
    /\ threads_ \in Seq(Threads)
    /\ state \in [Threads -> {"new", "running", "stopping", "exited"}]
    /\ todo \in Seq(Calls)
    /\ pc \in {"run", "pop", "done"}
    /\ stopper \in Stoppers \cup {NULL}
    /\ it \in 0..Len(threads_) + 1
    /\ stops \in 0..MaxStops
    /\ raced \in BOOLEAN

Init ==
    /\ threads_ = <<>>
    /\ state = [t \in Threads |-> "new"]
    /\ todo = Program
    /\ pc = "run"
    /\ stopper = NULL
    /\ it = 0
    /\ stops = 0
    /\ raced = FALSE

(* The main thread runs its own code unless a signal handler of its own is
   inside stop(). *)
MainRuns == stopper # main

(* The main thread is inside join(). *)
InJoin == todo = <<>> /\ pc # "done"

(* The main thread changes the deque: a race with a stop() that another
   thread is inside of. *)
Raced == raced \/ stopper \notin {NULL, main}

-----------------------------------------------------------------------------
(* Thread, from its interface *)

(* Thread::start(): the thread runs its main(). *)
ThreadStart(t) ==
    /\ MainRuns
    /\ todo # <<>>
    /\ Head(todo) = [call |-> "start", thread |-> t]
    /\ todo' = Tail(todo)
    /\ state' = [state EXCEPT ![t] = "running"]
    /\ UNCHANGED <<threads_, pc, stopper, it, stops, raced>>

(* Thread::stop(): the thread is told to stop. *)
Stopped(t) == [state EXCEPT ![t] = IF @ = "running" THEN "stopping" ELSE @]

(* A thread that was told to stop returns from its main(), once it is not
   inside stop() itself. *)
ThreadExit(t) ==
    /\ state[t] = "stopping"
    /\ stopper # t
    /\ state' = [state EXCEPT ![t] = "exited"]
    /\ UNCHANGED <<threads_, todo, pc, stopper, it, stops, raced>>

-----------------------------------------------------------------------------
(* EventSystem *)

(* thread_wait(td): the thread is put at the back of the deque. *)
thread_wait(t) ==
    /\ MainRuns
    /\ todo # <<>>
    /\ Head(todo) = [call |-> "thread_wait", thread |-> t]
    /\ todo' = Tail(todo)
    /\ threads_' = Append(threads_, t)
    /\ raced' = Raced
    /\ UNCHANGED <<state, pc, stopper, it, stops>>

(* A join() that takes the first thread off without waiting for it. *)
JoinFrontBlind ==
    /\ MainRuns
    /\ InJoin /\ pc = "run"
    /\ threads_ # <<>>
    /\ pc' = "pop"
    /\ UNCHANGED <<threads_, state, todo, stopper, it, stops, raced>>

(* join(): threads_.front()->join() returns when the first thread has
   exited. *)
JoinFront ==
    /\ MainRuns
    /\ InJoin /\ pc = "run"
    /\ threads_ # <<>>
    /\ state[Head(threads_)] = "exited"
    /\ pc' = "pop"
    /\ UNCHANGED <<threads_, state, todo, stopper, it, stops, raced>>

(* join(): threads_.pop_front().  An iterator of stop() behind the first
   place stays at its thread. *)
PopFront ==
    /\ MainRuns
    /\ pc = "pop"
    /\ threads_' = Tail(threads_)
    /\ it' = IF it > 1 THEN it - 1 ELSE it
    /\ raced' = Raced
    /\ pc' = "run"
    /\ UNCHANGED <<state, todo, stopper, stops>>

(* join(): the deque is empty. *)
JoinReturn ==
    /\ MainRuns
    /\ InJoin /\ pc = "run"
    /\ threads_ = <<>>
    /\ pc' = "done"
    /\ UNCHANGED <<threads_, state, todo, stopper, it, stops, raced>>

join == JoinFront \/ PopFront \/ JoinReturn

(* stop() is called on thread s: by a callback the thread runs, or by a
   signal handler when s is the main thread. *)
StopBegin(s) ==
    /\ s \in Stoppers
    /\ stopper = NULL
    /\ stops < MaxStops
    /\ IF s = main THEN pc # "done" ELSE state[s] \in {"running", "stopping"}
    /\ StopAnyTime \/ InJoin
    /\ stopper' = s
    /\ it' = 1
    /\ stops' = stops + 1
    /\ UNCHANGED <<threads_, state, todo, pc, raced>>

(* A loop that leaves out the last thread. *)
AtEndEarly == it >= Len(threads_)

(* it == threads_.end() *)
AtEnd == it > Len(threads_)

(* One turn of the loop of stop(): td->stop() and ++it. *)
StopThread ==
    /\ stopper # NULL
    /\ ~AtEnd
    /\ state' = Stopped(threads_[it])
    /\ it' = it + 1
    /\ UNCHANGED <<threads_, todo, pc, stopper, stops, raced>>

(* stop() returns. *)
StopReturn ==
    /\ stopper # NULL
    /\ AtEnd
    /\ stopper' = NULL
    /\ it' = 0
    /\ UNCHANGED <<threads_, state, todo, pc, stops, raced>>

stop == (\E s \in Threads \cup {main} : StopBegin(s)) \/ StopThread \/ StopReturn

-----------------------------------------------------------------------------
Next ==
    \/ \E t \in Threads : ThreadStart(t)
    \/ \E t \in Threads : thread_wait(t)
    \/ \E t \in Threads : ThreadExit(t)
    \/ join
    \/ stop

(* The main thread runs, a call of stop() goes on to its end, and a thread
   that was told to stop returns from its main().  Nobody has to call
   stop(). *)
Fairness ==
    /\ WF_vars((\E t \in Threads : ThreadStart(t) \/ thread_wait(t)) \/ join)
    /\ WF_vars(StopThread \/ StopReturn)
    /\ \A t \in Threads : WF_vars(ThreadExit(t))

Spec == Init /\ [][Next]_vars /\ Fairness

-----------------------------------------------------------------------------
(* Properties *)

(* The deque is never changed by the main thread (thread_wait()'s
   push_back, join()'s pop_front) while another thread is inside the loop
   of stop(): the thread that calls stop() is the first of the deque, so
   join() takes nothing off before stop() has returned. *)
ThreadsIsNotRaced == ~raced

(* Once stop() has been called join() returns: stop() reaches every thread
   that join() is going to wait for. *)
JoinReturns == (stops > 0) ~> (pc = "done")

(* When join() has returned no thread is running: every thread that was
   started was registered, and join() took none off the deque that had not
   exited. *)
NoThreadOutlivesJoin ==
    pc = "done" => \A t \in Threads : state[t] = "exited"
=============================================================================
