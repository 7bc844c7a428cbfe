----------------------------- MODULE ThreadMain -----------------------------
(***************************************************************************)
(* The test of Thread::main (src/common/thread/test/thread-main1): in each *)
(* round main() makes NTHREAD threads with two tests each, starts them     *)
(* all, joins them all, and deletes the tests and the threads.  A thread   *)
(* passes its first test in its main() and its second in its destructor;   *)
(* a test tells its group at its deletion whether it was passed.           *)
(*                                                                         *)
(* Thread and Test are outside src/: start() lets main() run on a thread   *)
(* of its own, join() returns when that thread has ended.                  *)
(***************************************************************************)
EXTENDS Naturals

CONSTANTS NTHREAD, ROUNDS, NULL

ASSUME NTHREAD \in Nat \ {0} /\ ROUNDS \in Nat

Index == 0..NTHREAD - 1

(* The loops of a round, in their order. *)
Loops == <<"new", "start", "join", "delete test_main", "delete threads",
           "delete test_destroy">>

VARIABLES
    j, loop, i,      \* main(): the round, the loop of Loops it is in, and i
    threads,         \* NULL, "new", "started", "ended" or "joined"
    test_main,       \* NULL, "new", "passed" or "deleted"
    test_destroy,
    failures,        \* the tests deleted before they were passed
    fault            \* a Test was used after its deletion

vars == <<j, loop, i, threads, test_main, test_destroy, failures, fault>>

Init ==
    /\ j = 0 /\ loop = 1 /\ i = 0
    /\ threads = [n \in Index |-> NULL]
    /\ test_main = [n \in Index |-> NULL]
    /\ test_destroy = [n \in Index |-> NULL]
    /\ failures = 0
    /\ fault = FALSE

(* Test::pass(). *)
pass(test) == IF test = "new" THEN "passed" ELSE test

(* ~Test(): the group is told. *)
Deleted(test) == IF test = "passed" THEN failures ELSE failures + 1

(* A main() that does not return. *)
mainRunsOn(n) ==
    /\ threads[n] = "started"
    /\ test_main' = [test_main EXCEPT ![n] = pass(@)]
    /\ UNCHANGED <<j, loop, i, threads, test_destroy, failures, fault>>

(* TestThread::main, on the thread that start() made. *)
main(n) ==
    /\ threads[n] = "started"
    /\ test_main' = [test_main EXCEPT ![n] = pass(@)]
    /\ fault' = (fault \/ test_main[n] \in {NULL, "deleted"})
    /\ threads' = [threads EXCEPT ![n] = "ended"]
    /\ UNCHANGED <<j, loop, i, test_destroy, failures>>

(* main() is in loop l of a round; after the pass for i it goes on to the  *)
(* next i, the next loop or the next round.                                *)
At(l) == j < ROUNDS /\ Loops[loop] = l

Advance ==
    /\ i' = (i + 1) % NTHREAD
    /\ loop' = IF i + 1 < NTHREAD THEN loop ELSE (loop % 6) + 1
    /\ j' = IF i + 1 = NTHREAD /\ loop = 6 THEN j + 1 ELSE j

New ==
    /\ At("new")
    /\ test_main' = [test_main EXCEPT ![i] = "new"]
    /\ test_destroy' = [test_destroy EXCEPT ![i] = "new"]
    /\ threads' = [threads EXCEPT ![i] = "new"]
    /\ Advance /\ UNCHANGED <<failures, fault>>

Start ==
    /\ At("start")
    /\ threads' = [threads EXCEPT ![i] = "started"]
    /\ Advance /\ UNCHANGED <<test_main, test_destroy, failures, fault>>

(* Thread::join() returns at once. *)
JoinedAtOnce(n) == threads[n] \in {"started", "ended"}

(* Thread::join() returns. *)
Joined(n) == threads[n] = "ended"

Join ==
    /\ At("join")
    /\ Joined(i)
    /\ threads' = [threads EXCEPT ![i] = "joined"]
    /\ Advance /\ UNCHANGED <<test_main, test_destroy, failures, fault>>

DeleteTestMain ==
    /\ At("delete test_main")
    /\ failures' = Deleted(test_main[i])
    /\ test_main' = [test_main EXCEPT ![i] = "deleted"]
    /\ Advance /\ UNCHANGED <<threads, test_destroy, fault>>

(* ~TestThread(). *)
DeleteThread ==
    /\ At("delete threads")
    /\ test_destroy' = [test_destroy EXCEPT ![i] = pass(@)]
    /\ fault' = (fault \/ test_destroy[i] \in {NULL, "deleted"})
    /\ threads' = [threads EXCEPT ![i] = NULL]
    /\ Advance /\ UNCHANGED <<test_main, failures>>

DeleteTestDestroy ==
    /\ At("delete test_destroy")
    /\ failures' = Deleted(test_destroy[i])
    /\ test_destroy' = [test_destroy EXCEPT ![i] = "deleted"]
    /\ Advance /\ UNCHANGED <<threads, test_main, fault>>

Step == New \/ Start \/ Join \/ DeleteTestMain \/ DeleteThread \/ DeleteTestDestroy

Next == Step \/ \E n \in Index : main(n)

Spec == Init /\ [][Next]_vars /\ WF_vars(Step) /\ \A n \in Index : WF_vars(main(n))

-----------------------------------------------------------------------------
TypeOK ==
    /\ j \in 0..ROUNDS /\ loop \in DOMAIN Loops /\ i \in Index
    /\ threads \in [Index -> {NULL, "new", "started", "ended", "joined"}]
    /\ test_main \in [Index -> {NULL, "new", "passed", "deleted"}]
    /\ test_destroy \in [Index -> {NULL, "new", "passed", "deleted"}]
    /\ failures \in Nat
    /\ fault \in BOOLEAN

(* The test passes: no Test is deleted before it was passed and none is    *)
(* passed after it was deleted, whenever the threads run.  join() is what  *)
(* keeps the delete of test_main[i] in line 78 behind the pass() of the    *)
(* thread's main().                                                        *)
EveryTestPasses == failures = 0 /\ ~fault

(* main() returns: every join() of line 75 returns, because every thread   *)
(* that was started runs its main() and ends.                              *)
Returns == <>(j = ROUNDS)

=============================================================================
