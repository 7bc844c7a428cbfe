------------------------------ MODULE KThread ------------------------------
(***************************************************************************)
(* Kernel threads of libuinet on top of pthreads (uinet_kern_kthread.c).   *)
(* kthread_add() allocates a thread structure td, starts a pthread on      *)
(* pthread_start_routine() and, after that, stores the pthread in td.  The *)
(* new thread adopts td, runs the routine it was given and frees td when   *)
(* the routine returns.                                                    *)
(*                                                                         *)
(* The module gives the steps of the creator and of the new thread as      *)
(* actions over its own variables; the module that starts a thread         *)
(* conjoins them with the steps of its caller and of its routine.          *)
(***************************************************************************)
EXTENDS Naturals

CONSTANT NULL

VARIABLES
    td,           \* the thread structure: "none", "alloc" or "freed"
    psa,          \* the start arguments: "none", "alloc" or "freed"
    thread,       \* the pthread: "none", "start", "routine" or "gone"
    pcurthread,   \* the new thread's pcurthread
    td_wchan,     \* td->td_wchan: NULL, "pthread", or "stray" when the store
                  \* went to memory already freed
    tdp           \* *tdp of the caller: NULL while nothing was stored, "td",
                  \* or "fault" when the store went through a null pointer

kthreadVars == <<td, psa, thread, pcurthread, td_wchan, tdp>>

KThreadInit ==
    /\ td = "none"
    /\ psa = "none"
    /\ thread = "none"
    /\ pcurthread = NULL
    /\ td_wchan = NULL
    /\ tdp = NULL

KThreadTypeOK ==
    /\ td \in {"none", "alloc", "freed"}
    /\ psa \in {"none", "alloc", "freed"}
    /\ thread \in {"none", "start", "routine", "gone"}
    /\ pcurthread \in {NULL, "td"}
    /\ td_wchan \in {NULL, "pthread", "stray"}
    /\ tdp \in {NULL, "td", "fault"}

\* Lines 105-122: everything is allocated and filled in, and the pthread is
\* created; `created` is whether _pthread_create succeeded, `given` whether
\* the caller passed a tdp that is not NULL (lines 106-107).
kthread_add_create(created, given) ==
    /\ td = "none"
    /\ td' = "alloc"
    /\ tdp' = IF given THEN "td" ELSE tdp
    /\ psa' = "alloc"
    /\ thread' = IF created THEN "start" ELSE "none"
    /\ UNCHANGED <<pcurthread, td_wchan>>

\* Lines 123-124: the store into td, whatever _pthread_create returned and
\* whatever has become of td since.
kthread_add_return ==
    /\ td_wchan' = IF td = "alloc" THEN "pthread" ELSE "stray"
    /\ UNCHANGED <<td, psa, thread, pcurthread, tdp>>

\* Lines 77-81, up to the call of the routine.
pthread_start_routine ==
    /\ thread = "start"
    /\ pcurthread' = "td"
    /\ thread' = "routine"
    /\ UNCHANGED <<td, psa, td_wchan, tdp>>

\* Lines 82-85: the routine has returned.
pthread_start_routine_returns ==
    /\ thread = "routine"
    /\ td' = "freed"
    /\ psa' = "freed"
    /\ thread' = "gone"
    /\ UNCHANGED <<pcurthread, td_wchan, tdp>>

\* Lines 127-131: the routine ends its thread with kthread_exit(), as the
\* threads of a FreeBSD kernel do; lines 82-83 are not reached.
kthread_exit ==
    /\ thread = "routine"
    /\ thread' = "gone"
    /\ UNCHANGED <<td, psa, pcurthread, td_wchan, tdp>>

\* Lines 137-164: kproc_kthread_add() is kthread_add() with a proc that is
\* neither read nor written and a tdp that is written unchecked (line 151):
\* without one the store goes through a null pointer, when td is allocated
\* and nothing else is, and the call goes no further.
kproc_kthread_add_create(created, given) ==
    \/ given /\ kthread_add_create(created, given)
    \/ /\ ~given
       /\ td = "none"
       /\ td' = "alloc"
       /\ tdp' = "fault"
       /\ UNCHANGED <<psa, thread, pcurthread, td_wchan>>

\* Lines 165-167.
kproc_kthread_add_return == kthread_add_return

\* One thread, made by either call, with a routine that ends either way.
KThreadNext ==
    \/ \E created, given \in BOOLEAN :
           kthread_add_create(created, given) \/ kproc_kthread_add_create(created, given)
    \/ /\ td # "none" /\ td_wchan = NULL /\ tdp # "fault"
       /\ kthread_add_return \/ kproc_kthread_add_return
    \/ pthread_start_routine
    \/ pthread_start_routine_returns
    \/ kthread_exit

KThreadSpec == KThreadInit /\ [][KThreadNext]_kthreadVars

\* What was allocated for a thread is freed when the thread has ended: the
\* two calls of free() in lines 82 and 83 of pthread_start_routine(), for a
\* routine that ends in whatever way.
GoneIsFreed == thread = "gone" => td = "freed" /\ psa = "freed"

=============================================================================
