---------------------------- MODULE TimeoutQueue ----------------------------
(***************************************************************************)
(* TimeoutQueue: callbacks that are to run once a delay has passed.        *)
(* timeout_queue_ is a std::map from the time of expiry, a NanoTime, to    *)
(* the CallbackQueue of the callbacks that expire then; begin() is the     *)
(* entry whose key NanoTime's operator< puts first.  append() computes the *)
(* key from the clock and the delay in milliseconds, ready() and           *)
(* interval() look at the first entry, perform() runs the callbacks of the *)
(* first entry and erases it.                                              *)
(*                                                                         *)
(* A NanoTime is a pair (seconds_, nanoseconds_).  Time is counted here in *)
(* units of which NsPerMs make a millisecond and MsPerSecond * NsPerMs a   *)
(* second, so that the integer divisions of append() and interval() lose   *)
(* what they lose in the code.                                             *)
(*                                                                         *)
(* The owner of the queue is the thread that polls it: it calls perform(), *)
(* or sleeps for interval() milliseconds when nothing is ready, and is     *)
(* woken when a timeout is added.  It serialises the calls, so every       *)
(* action is one call, but for perform(), whose callbacks run user code    *)
(* that may add and cancel timeouts: perform() is a step for each callback *)
(* it runs.                                                                *)
(***************************************************************************)
EXTENDS Naturals, Sequences, FiniteSets, SequencesExt

CONSTANTS
    Callbacks,    \* the callbacks that may be given a timeout, each once
    Delays,       \* the delays asked for, in milliseconds
    MsPerSecond,  \* 1000 in the code
    NsPerMs,      \* 1000000 in the code
    MaxTime,      \* the clock stops here, and no timeout expires later
    NULL

Second == MsPerSecond * NsPerMs

ASSUME /\ Delays \subseteq Nat
       /\ MsPerSecond \in Nat \ {0}
       /\ NsPerMs \in Nat \ {0}
       /\ MaxTime \in Nat
       /\ NULL \notin Callbacks \cup Nat

(* The keys append() can make: nanoseconds_ may pass a second. *)
NanoTime == [seconds_ : 0..(MaxTime \div Second), nanoseconds_ : 0..(2 * Second)]

VARIABLES
    now,             \* what NanoTime::current_time() returns
    timeout_queue_,  \* a function from the keys in the map to their queues
    it,              \* perform()'s iterator: the entry being run, or NULL
    owner,           \* "awake", or "asleep" in the wait for a timeout
    wakeAt,          \* when the sleep ends, NULL when only a new timeout ends it
    due,             \* due[cb]: when cb was asked to run, NULL before that
    fired,           \* fired[cb]: when cb ran, NULL before that
    cancelled        \* the callbacks whose action was cancelled

vars == <<now, timeout_queue_, it, owner, wakeAt, due, fired, cancelled>>

(* A time as one number of units. *)
Units(t) == t.seconds_ * Second + t.nanoseconds_

TypeOK ==
    /\ now \in NanoTime /\ now.nanoseconds_ < Second
    /\ DOMAIN timeout_queue_ \subseteq NanoTime
    /\ \A key \in DOMAIN timeout_queue_ : timeout_queue_[key] \in Seq(Callbacks)
    /\ it \in DOMAIN timeout_queue_ \cup {NULL}
    /\ owner \in {"awake", "asleep"}
    /\ wakeAt \in 0..(MaxTime + Second) \cup {NULL}
    /\ due \in [Callbacks -> 0..MaxTime \cup {NULL}]
    /\ fired \in [Callbacks -> 0..MaxTime \cup {NULL}]
    /\ cancelled \subseteq Callbacks

Init ==
    /\ now = [seconds_ |-> 0, nanoseconds_ |-> 0]
    /\ timeout_queue_ = <<>>
    /\ it = NULL
    /\ owner = "awake"
    /\ wakeAt = NULL
    /\ due = [cb \in Callbacks |-> NULL]
    /\ fired = [cb \in Callbacks |-> NULL]
    /\ cancelled = {}

-----------------------------------------------------------------------------
(* NanoTime *)

(* operator<: by seconds_, then by nanoseconds_. *)
Less(a, b) ==
    \/ a.seconds_ < b.seconds_
    \/ a.seconds_ = b.seconds_ /\ a.nanoseconds_ < b.nanoseconds_

LessEq(a, b) == ~Less(b, a)

(* operator-=, for b <= a: borrows a second when it has to. *)
Minus(a, b) ==
    IF a.nanoseconds_ < b.nanoseconds_
    THEN [seconds_ |-> a.seconds_ - 1 - b.seconds_,
          nanoseconds_ |-> a.nanoseconds_ + Second - b.nanoseconds_]
    ELSE [seconds_ |-> a.seconds_ - b.seconds_,
          nanoseconds_ |-> a.nanoseconds_ - b.nanoseconds_]

(* The clock moves on by a unit. *)
Tick ==
    /\ Units(now) < MaxTime
    /\ now' = IF now.nanoseconds_ + 1 = Second
              THEN [seconds_ |-> now.seconds_ + 1, nanoseconds_ |-> 0]
              ELSE [now EXCEPT !.nanoseconds_ = @ + 1]
    /\ UNCHANGED <<timeout_queue_, it, owner, wakeAt, due, fired, cancelled>>

-----------------------------------------------------------------------------
(* TimeoutQueue *)

empty == DOMAIN timeout_queue_ = {}

(* timeout_queue_.begin(), when the map is not empty *)
begin == CHOOSE key \in DOMAIN timeout_queue_ :
             \A other \in DOMAIN timeout_queue_ : LessEq(key, other)

(* The callbacks waiting in the map. *)
Pending == UNION {ToSet(timeout_queue_[key]) : key \in DOMAIN timeout_queue_}

(* The key of a delay of ms milliseconds that begins now. *)
ExpiryNoSeconds(ms) ==
    [now EXCEPT !.nanoseconds_ = @ + (ms % MsPerSecond) * NsPerMs]

Expiry(ms) ==
    [seconds_ |-> now.seconds_ + ms \div MsPerSecond,
     nanoseconds_ |-> now.nanoseconds_ + (ms % MsPerSecond) * NsPerMs]

(* timeout_queue_[key].schedule(cb): operator[] makes the entry if there is
   none, schedule() puts cb at the end of its queue. *)
append(ms, cb) ==
    LET key == Expiry(ms)
        queue == IF key \in DOMAIN timeout_queue_ THEN timeout_queue_[key] ELSE <<>>
    IN  timeout_queue_' =
            [k \in DOMAIN timeout_queue_ \cup {key} |->
                IF k = key THEN Append(queue, cb) ELSE timeout_queue_[k]]

(* interval(): the milliseconds until the first entry expires. *)
interval ==
    IF empty \/ Less(begin, now) THEN 0
    ELSE LET expiry == Minus(begin, now)
         IN  expiry.seconds_ * MsPerSecond + expiry.nanoseconds_ \div NsPerMs

ready == ~empty /\ LessEq(begin, now)

(* perform() up to the loop: nothing to do when the map is empty or its
   first entry has not expired. *)
PerformBegin ==
    /\ owner = "awake"
    /\ it = NULL
    /\ it' = IF empty \/ Less(now, begin) THEN NULL ELSE begin
    /\ UNCHANGED <<now, timeout_queue_, owner, wakeAt, due, fired, cancelled>>

(* One turn of the loop: queue.perform() runs the first callback. *)
PerformCallback ==
    /\ it # NULL
    /\ timeout_queue_[it] # <<>>
    /\ timeout_queue_' = [timeout_queue_ EXCEPT ![it] = Tail(@)]
    /\ fired' = [fired EXCEPT ![Head(timeout_queue_[it])] = Units(now)]
    /\ UNCHANGED <<now, it, owner, wakeAt, due, cancelled>>

Erase(key) == [k \in DOMAIN timeout_queue_ \ {key} |-> timeout_queue_[k]]

(* The end of perform() had it no loop: the entry goes after one turn. *)
PerformEndEarly ==
    /\ it # NULL
    /\ timeout_queue_' = Erase(it)
    /\ it' = NULL
    /\ UNCHANGED <<now, owner, wakeAt, due, fired, cancelled>>

(* The end of perform() that leaves the entry in the map. *)
PerformEndKeeps ==
    /\ it # NULL
    /\ timeout_queue_[it] = <<>>
    /\ it' = NULL
    /\ UNCHANGED <<now, timeout_queue_, owner, wakeAt, due, fired, cancelled>>

(* The loop ends when the queue is empty, and the entry is erased. *)
PerformEnd ==
    /\ it # NULL
    /\ timeout_queue_[it] = <<>>
    /\ timeout_queue_' = Erase(it)
    /\ it' = NULL
    /\ UNCHANGED <<now, owner, wakeAt, due, fired, cancelled>>

perform == PerformBegin \/ PerformCallback \/ PerformEnd

-----------------------------------------------------------------------------
(* The users *)

(* A thread, or a callback that perform() is running, asks for cb to run
   in ms milliseconds; the owner is woken to look at the map again. *)
Timeout(ms, cb) ==
    /\ due[cb] = NULL
    /\ Units(now) + ms * NsPerMs <= MaxTime
    /\ append(ms, cb)
    /\ due' = [due EXCEPT ![cb] = Units(now) + ms * NsPerMs]
    /\ owner' = "awake"
    /\ wakeAt' = NULL
    /\ UNCHANGED <<now, it, fired, cancelled>>

(* The action append() returned is cancelled: the callback leaves its
   queue, the entry of the map stays. *)
Cancel(cb) ==
    /\ cb \in Pending
    /\ timeout_queue_' =
           [key \in DOMAIN timeout_queue_ |->
               SelectSeq(timeout_queue_[key], LAMBDA c : c # cb)]
    /\ cancelled' = cancelled \cup {cb}
    /\ UNCHANGED <<now, it, owner, wakeAt, due, fired>>

(* With nothing ready the owner waits: for interval() milliseconds, or for
   a timeout to be added when the map is empty. *)
Sleep ==
    /\ owner = "awake"
    /\ it = NULL
    /\ ~ready
    /\ owner' = "asleep"
    /\ wakeAt' = IF empty THEN NULL ELSE Units(now) + interval * NsPerMs
    /\ UNCHANGED <<now, timeout_queue_, it, due, fired, cancelled>>

Wake ==
    /\ owner = "asleep"
    /\ wakeAt # NULL
    /\ wakeAt <= Units(now)
    /\ owner' = "awake"
    /\ wakeAt' = NULL
    /\ UNCHANGED <<now, timeout_queue_, it, due, fired, cancelled>>

Next ==
    \/ Tick
    \/ \E ms \in Delays, cb \in Callbacks : Timeout(ms, cb)
    \/ \E cb \in Callbacks : Cancel(cb)
    \/ PerformBegin
    \/ PerformCallback
    \/ PerformEnd
    \/ Sleep
    \/ Wake

(* Time passes, and the owner goes on polling while it is awake. *)
Spec == Init /\ [][Next]_vars /\ WF_vars(Tick) /\ WF_vars(perform) /\ WF_vars(Wake)

-----------------------------------------------------------------------------
(* Properties *)

(* Every callback given to append() is waiting in the map, has run or was
   cancelled: perform() erases an entry only when its loop has run every
   callback in it, those added to the entry while it ran included. *)
NothingDropped ==
    \A cb \in Callbacks :
        due[cb] # NULL => cb \in Pending \/ fired[cb] # NULL \/ cb \in cancelled

(* The queue is never a second or more off, either way.  No callback runs
   a second or more before its delay has passed: append() adds the
   milliseconds to nanoseconds_ without carrying into seconds_, so a key
   can name a time in the second after its seconds_, and ready() and
   perform() compare seconds_ first.  And the owner never sleeps a second
   or more past the time a waiting callback is due: interval() measures the
   wait to the first key of the map, and a key that append() did not
   normalise can be first although a later key is due before it. *)
WithinASecond ==
    /\ \A cb \in Callbacks : fired[cb] # NULL => due[cb] < fired[cb] + Second
    /\ owner = "asleep" =>
           \A cb \in Pending : wakeAt # NULL /\ wakeAt < due[cb] + Second

(* A callback never runs before its delay has passed. *)
NeverEarly ==
    \A cb \in Callbacks : fired[cb] # NULL => due[cb] <= fired[cb]

(* Every callback given a timeout runs, unless it is cancelled. *)
ExpiredRuns ==
    \A cb \in Callbacks :
        due[cb] # NULL ~> fired[cb] # NULL \/ cb \in cancelled
=============================================================================
