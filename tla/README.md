# TLA+ models of wanproxy

This directory holds TLA+ specifications of the parts of wanproxy that are in
`src/`, the TLC configurations that check them, and `PROJECT.json`, which maps
every definition to the lines of code it models and lists the runs, the
findings and the hazards.

Run a check with `tlc -workers 2 -config <cfg> <module>`; every run of
`PROJECT.json` finishes in less than a minute and a half.  The configurations
that `PROJECT.json` does not list as a run reproduce a finding each (section 4),
or check a part that stands by itself (the keys of an SSH session, the test of
`Thread::main`).

## 1. The system

wanproxy is a WAN-optimising proxy.  Two proxies sit at either end of a slow
link; each takes a byte stream from its local side, encodes it with XCodec (a
deduplicating codec that replaces fixed-size segments it has seen before with
references to them), sends the encoded
stream across, and decodes what the other end sends.  Around this core, `src/`
holds pieces of the event system the proxy runs on, of its I/O layer and of the
user-space network stack (libuinet) it can be built on.

| Part | Source | State | Operations |
|---|---|---|---|
| XCodec protocol, cache, window | `spec.md` §3-4 (code not under `src/`) | cache: fingerprint → segment; window: ring of recently declared segments | enter, lookup, declare, dereference |
| XCodecEncoder | `spec.md` §4.2-4.4 (code not under `src/`) | the encoder's window, whether HELLO was sent | encode, encode_ask, encode_learn |
| XCodecDecoder | `src/xcodec/xcodec_decoder.cc` | the `input` being parsed, `queued_`, `asked_`, `window_`, the shared cache, the encoder of the same pair | `decode()`: one branch per opcode, the queue in front of it |
| XCodecPipePair | `src/xcodec/xcodec_pipe_pair.h` | one decoder, one encoder, two pipes | construction, `decoder_produce`, `decoder_error`, `get_incoming`, `get_outgoing` |
| CallbackThread | `src/event/callback_thread.cc` | `queue_`, `inflight_`, `idle_`, `stop_`, `mtx_`, `sleepq_` | `schedule`, `cancel`, `main` |
| Lock, ScopedLock, SleepQueue | `src/common/thread/lock.h`, `sleep_queue_posix.cc` | a mutex, a condition variable | acquire, drop, wait, signal |
| TimeoutQueue | `src/event/timeout_queue.cc` | `timeout_queue_`: map from expiry to a queue of callbacks | `append`, `interval`, `perform`, `ready` |
| EventSystem | `src/event/event_system.h` | `threads_`, the deque of the program's threads | `thread_wait`, `start`, `stop`, `join` |
| IOUinet | `src/io/io_uinet.cc` | `handler_thread_` | the constructor, which starts the handler thread and registers it |
| SocketUinet | `src/io/socket/socket_uinet.cc` | `accept_do_`, `accept_action_`, `accept_callback_`, the upcall lock | `accept`, `do_accept`, receive upcall, would-block handler, `accept_cancel`, `close`, `create` |
| uinet kernel threads | `uinet_kern_kthread.c` | thread structure `td`, start arguments | `kthread_add`, `kproc_kthread_add`, `pthread_start_routine` |
| uinet API | `uinet_api.c` | per-thread `pcurthread`, the sockets of the socket layer, the context of a syn filter, the deferrals the user holds | `uinet_initialize_thread`, `uinet_finalize_thread`, the `uinet_so...` calls (socket options and the names of a socket included), `uinet_free_sockaddr`, `uinet_interface_up`, `uinet_mac_aton`, `uinet_synfilter_install`, the filter's callback, `deferral_alloc`, `deferral_deliver` |
| netmap host interface | `uinet_if_netmap_host.c` | the context of a registration, the receive and the transmit ring it maps, the interface's offloads and promiscuous mode | `if_netmap_register_if`, `if_netmap_deregister_if`, `rxsync`, `txsync`, `rxslot`, `rxsetslot`, `txslot`, `set_offload`, `set_promisc`, the ethtool helpers, `get_ifaddr` |
| uinet test program | `uinet_main.c` | a queue of connections, each with `active` and `conn_state` | upcalls, `loopback_thread`, `verify_thread`, `run_test` |
| PipeLink | `src/io/pipe/pipe_link.cc` | `pipe_splice_`, `pipe_splice_action_`, `pipe_splice_error_`, the two pipes it joins | constructor, `input`, `output`, `pipe_splice_complete`, destructor |
| DeflatePipe | `src/zlib/deflate_pipe.cc` | `stream_` (the zlib stream), and inside `consume()` the input, `out`, `outbuf`, `first`, `flush` | constructor, `consume`, destructor |
| SSH session | `src/ssh/ssh_session.cc` | the chosen and the active algorithms, the secret and the hash of the key exchange, the session id, six key buffers | `activate_chosen`, `generate_key` |
| Thread test | `src/common/thread/test/thread-main1/thread-main1.cc` | per round, `NTHREAD` threads with two tests each | `main`, `TestThread::main`, `~TestThread` |
| Configuration classes | `src/config/...`, `wanproxy_config_class_codec.h` | the members of a configuration object | `activate` |

How they interact.  The encoder of one proxy feeds the decoder of the other
over a reliable, ordered byte stream.  The decoder and the encoder of one pair
share a cache, and the decoder uses the encoder of its own pair to answer:
`ASK` for a fingerprint it cannot resolve, `LEARN` for one it was asked for.
Callbacks are run by a `CallbackThread`: any thread may `schedule` one and gets
an action back with which to `cancel` it.  `EventSystem` starts the threads
of the program and keeps them in a deque; `IOUinet` adds the thread that runs
the callbacks of the uinet sockets; `stop()` tells all of them to stop and
`join()` waits for them.  `SocketUinet` hands completed
connections to its user through such a callback, scheduled either from
`accept()` (the user's thread) or from the receive upcall (the network stack's
thread).  A `PipeLink` joins two pipes with a splice that moves what the first
produces into the second and reports its end through a callback; a
`DeflatePipe` is such a pipe, compressing what it is given with zlib.
`SocketUinet` and the test program reach the network stack
through the uinet API, which keeps a thread structure for each thread of its
user and hands it to the socket layer with every call.

What is hard.  In the codec: tokens parsed from a stream that arrives in pieces
of any size; data queued behind a reference that cannot be resolved yet, and
released when it can; two windows, one at each end, that must name the same
segment by the same index although nothing but the data stream keeps them
together; fingerprints that collide.  In the event system: `schedule`, `cancel`
and the thread's loop interleaved under one mutex, with the callback itself
running outside it; an upcall of the network stack and the user's
`accept_cancel()` meeting in one socket; timeouts kept under a key of seconds
and nanoseconds, added to and cancelled by the callbacks that `perform()` is
running; a deque of threads that `join()` shortens on one thread while
`stop()` walks it on another, with no lock.  In the netmap interface: a registration of five steps that can each
fail; rings whose slots are lent to the stack and get other buffers meanwhile.
In the pipes: an output buffer that is full in the middle of a segment, of a
flush or of the end of the stream, and a link that is deleted before or after
its splice has reported.  In the uinet API: three kinds of memory (thread structures, filter
contexts, deferrals) allocated in one call and freed in another, some of them
by the socket layer.  In the test program: a work queue
filled by upcalls and drained by a thread that sleeps on it, a thread that
frees what its creator and the upcalls still use, and "finished" decided from
values read without the lock.

## 2. Modules

| Module | Models | From |
|---|---|---|
| `XCodec` | tokens as byte sequences, big-endian fingerprints, cache and window operations | `spec.md`, and the token layouts `decode()` parses |
| `XCodecEncoder` | the encoder: the tokens it emits for a segment, HELLO, ASK, LEARN | `spec.md` §4 |
| `XCodecDecoder` | `XCodecDecoder::decode()`, one action per branch | `src/xcodec/xcodec_decoder.cc` |
| `XCodecPipePair` | two pipe pairs, each one's encoder feeding the other's decoder | `src/xcodec/xcodec_pipe_pair.h` |
| `ByteStream` | the promise: what comes out is a prefix of what went in | abstract |
| `XCodecStream` | one decoder fed any sequence of well-framed tokens, with a reference semantics of token streams | `src/xcodec/xcodec_decoder.cc` |
| `CallbackThread` | `schedule`, `cancel`, `main`, the sleep queue, what `EventSystem::stop` asks of the thread, and the users the comment above `cancel()` describes | `src/event/callback_thread.cc`, `sleep_queue_posix.cc`, `event_system.h` |
| `SocketUinet` | `accept`, `do_accept`, the receive upcall, the would-block handler, `accept_cancel`, `close` and the destructor, on a `CallbackThread` (EXTENDS it); `create` as an operator | `src/io/socket/socket_uinet.cc`, `uinet_api.c` (`uinet_soaccept`) |
| `KThread` | `kthread_add`, `kproc_kthread_add`, `pthread_start_routine` and `kthread_exit`, as actions for a module that starts a thread, and a next-state relation of their own | `uinet_kern_kthread.c` |
| `UinetLoopback` | the echo server of the test program: `server_upcall`, `server_conn_established`, `server_conn_rcv`, `loopback_thread` | `uinet_main.c` 158-365 |
| `UinetVerify` | the client of the test program: `run_test`, `client_upcall`, `verify_thread`, `incr_in_addr_t`, with `KThread` (EXTENDS it) | `uinet_main.c` 368-530, 694-715, 820-1040 |
| `TimeoutQueue` | `append`, `interval`, `perform`, `ready`, with the clock, `NanoTime`, the thread that owns the queue and the users of timeouts | `src/event/timeout_queue.cc`; `NanoTime` and the owner from the interface the code calls |
| `NetmapHost` | every function of the netmap host interface, for FreeBSD and for Linux, with the kernel's side of the rings and a driver above | `uinet_if_netmap_host.c`; the kernel and the driver from the netmap interface |
| `Pipe` | what the two pipe modules share: the variables of the pipeline, `PipeProducer`'s `produce`, `produce_eos` and `output`, the outgoing pipe | the interface `pipe_link.cc` and `deflate_pipe.cc` call |
| `DeflatePipe` | the constructor, the destructor and `consume()`, with `deflate()` as the set of results zlib allows (EXTENDS `Pipe`) | `src/zlib/deflate_pipe.cc`; `deflate` from `zlib.h` |
| `PipeLink` | the constructor, `input`, `output`, `pipe_splice_complete` and the destructor over a `DeflatePipe` (EXTENDS it), with the steps of the splice | `src/io/pipe/pipe_link.cc`; the splice from the interface the code calls |
| `UinetApi` | the calls of `uinet_api.c` that change something, over a socket layer that is a state per socket and a heap of cells | `uinet_api.c`; the socket layer, `curthread` and malloc from the interface the code calls |
| `EventSystem` | `start`, `thread_wait`, `join` and `stop` over `threads_`, `IOUinet`'s constructor, the main thread and the callers of `stop()` | `src/event/event_system.h`, `src/io/io_uinet.cc` 35-66; `Thread` from the interface the code calls |
| `MacAton` | `uinet_mac_aton` with `strtoul`, as operators, and a user that calls it | `uinet_api.c` 137-162; `strtoul` from its manual page |
| `SSHSession` | `activate_chosen` and `generate_key` at the two ends of a connection, with the key exchanges that come before them | `src/ssh/ssh_session.cc`; the key exchange, the hash, the ciphers and the MACs from the interface the code calls |
| `ThreadMain` | the test of `Thread::main`: `main()`, one action for each of its loops, and the threads it starts | `src/common/thread/test/thread-main1/thread-main1.cc`; `Thread` and `Test` from the interface the code calls |
| `MC...` | constants for TLC that a cfg cannot write: tuples, negative numbers, sets built by an operator, a symmetry set (the other modules take theirs from the cfg alone) | |

`PROJECT.json` maps every definition of these modules to the lines it stands
for.  What a module takes from outside `src/` (the encoder, the socket layer's
`soreceive` and `sosend`, the peer of a connection) is marked there as
modelled from the design document or from the interface the code calls.

### XCodecDecoder

`decode(Buffer *output, Buffer *input)` parses `input` in place, in a loop.
The model keeps the decoder's `input[p]`, `queued[p]` (`queued_`), `asked[p]`
(`asked_`), `window[p]` and `output[p]`.  `Blocked(p)` is the code's
`!queued_.empty()`, which decides whether bytes go to `output` or behind the
queue; `HandleQueued` is lines 46-59 (with nothing asked for any more, the
queue is put in front of the input and parsed again).  One pass of the loop is
one action: `DecodeData` (the bytes before the next MAGIC), `DecodeLoneMagic`,
`DecodeIncomplete` (any `return (true)` for want of bytes), and one action per
opcode.  `status[p]` is `"idle"` between calls, `"decoding"` inside one,
`"error"` after `return (false)` and `"halted"` where the code would fail an
ASSERT.  `wire[p]` holds what peer `p`'s encoder has written and the other side
has not read yet; `DecoderConsume` takes any number of its bytes into `input`,
so every split of the stream into reads is explored.

A segment is `SEGMENT_SIZE` bytes, a fingerprint `HASH_SIZE` bytes; the hash
function is the constant `Hash`, chosen in the MC modules so that two segments
collide.  The run of a REF through the wire is modelled by what it does: the
encoder writes the fingerprint big-endian, the decoder reads `HASH_SIZE` bytes
and converts them back.

### CallbackThread

Everything `schedule()`, `cancel()` and `main()` do to `queue_`, `inflight_`,
`idle_` and `stop_` happens under `mtx_`, so each stretch of code between
taking the mutex and giving it up (or sleeping on it) is one action.  `pc` is
where `main()` is: `"start"`, `"asleep"` in `sleepq_.wait()`, `"woken"`,
`"execute"` with the mutex given up and `running` about to be executed,
`"handling"` inside the handler, `"done"`.  `SleepQueue::signal` and `wait`
are the operators `signal` and `wait`; `SpuriousWake` is a return from the
condition variable that no signal caused.  `halted` records the `HALT`, the
`NOTREACHED` and the NULL dereference that end the process.

The users are those of the comment at lines 60-91: an object `o` with a member
`action[o]`, a thread that schedules the object's handler under the object's
lock (`Arm`), one that cancels it (`Disarm`), and a handler that cancels its
own action first (`HandlerEnter`).  `Cancellers` is the set of threads that
cancel: the callback thread's own code only, or other threads too.

### SocketUinet

A listening socket and its user are one object of `CallbackThread`.  The
stack's thread calls `receive_upcall()` with the socket's upcall lock held, and
`accept_cancel()` takes the same lock for its first lines: `busy[o]` is the
lock held by an upcall that is inside `do_accept()`, between `schedule()`
(`UpcallBegin`) and the stores into `accept_action_` and `accept_callback_`
(`UpcallStore`).  `uinet_soaccept` calls the would-block handler before it
gives up the lock, so "no connection" and `accept_do_ = true` are one step
(`WouldBlock`).  `accept_cancel()` is three actions, as the code has three
stretches: under the lock (`accept_cancel`), cancelling the scheduled action
(`AcceptCancelAction`), deleting the unscheduled callback
(`AcceptCancelCallback`).  `close()` is one action (`Close`): `uinet_soclose`
takes the socket and its listen queue away (`so_[o] = "closed"`) and the
user's callback is scheduled whatever the stack answered.  The user closes
after it has cancelled its accept, and the handler of the close
(`CloseHandlerEnter`) cancels the action `close()` returned and deletes the
socket: `Destroy` is the destructor, whose three asserts are part of what
`AcceptNeverAborts` says never fails.  `socket_uinet.cc` is written against a
later interface of the stack than `uinet_api.c` under `src/` has
(`uinet_soclose` returns an error there and nothing here, `uinet_soaccept`
has one argument more); the model takes the control flow from
`socket_uinet.cc` and what the stack does from `uinet_api.c`.  `create()` is
the operator `create`, with `uinet_socreate` a function from the domain to
what it returns.

### UinetLoopback

`server_upcall` (accepting a connection), `server_conn_established` and
`server_conn_rcv` run in the stack's thread with the socket buffer locked and
take `server->lock` themselves; the event in the stack and the upcall it causes
are one action (`Connect`, `Data`, `Shut`).  `loopback_thread` is one action
per stretch: `LoopSleep` and `LoopTake` under the lock (lines 172-179),
`LoopCheck`, `LoopReceive` (`soreceive` into `copybuf`), `LoopSend` (`sosend`),
`LoopClosed` (lines 214-222, which read the socket's state without a lock).
Bytes are numbered, so that loss, repetition and reordering show.
`soreceive` returns at most `CopyBufSize` bytes or EAGAIN; `sosend` on the
non-blocking socket takes as many bytes of `copybuf` as the send buffer has
room for, none once the socket is disconnected; the bytes it did not take
are counted in `dropped`, as the loop goes on to the next read without
keeping them (line 209); `Ack` is the peer taking what was echoed.

### KThread and UinetVerify

`run_test` starts `verify_thread` with `kthread_add` and opens
`NumForeignAddrs * NumForeignPorts` connections, stepping the foreign address
with `incr_in_addr_t`.  `kthread_add` is two actions because the new thread
runs between them: `kthread_add_create` (allocate `td`, create the pthread) and
`kthread_add_return` (the store into `td` at line 123).  `td_wchan = "stray"`
is that store reaching memory the thread has freed.  `client_upcall` queues a
connection when it is established and marks it when it is disconnected;
`verify_thread` waits for the first connection and then cycles through the
queue: `VerifyFirst`, `VerifySend`, `VerifyReceive`, `VerifyNext` (which
unlinks finished connections behind the current one), `VerifyPause`.  The
peer echoes (`Echo`), refuses or drops the connection (`Disconnected`).

`tdp` is what the caller's `*tdp` holds.  `kthread_add` stores `td` there when
the caller gave a pointer (`given`, lines 106-107); `run_test` gives none.
`kproc_kthread_add` is the code of `kthread_add` again with a `proc` it never
touches and the store through `tdp` unguarded (line 151): without a pointer
the store is through NULL, which the model records as `tdp = "fault"` with
`td` allocated and nothing after it done.  `kthread_exit` ends the thread
inside its routine.  Nothing under `src/` calls the two; `KThreadNext` is one
thread made by either call, with or without a `tdp`, whose routine ends either
way.

### SSHSession

The two roles are the two ends of one connection.  `KeyExchange(r)` is what
the code outside `src/` does before `activate_chosen()`: the n-th exchange
gives both ends the same secret, the same hash and the same algorithms, and
the hash of the first exchange is the session id for good.  A role activates
the keys of an exchange before it ends the next.  `ActivateChosen(r)` is the
whole of `activate_chosen()`: `Derived` are the six key buffers after lines
18-35 (a buffer whose algorithm is NULL keeps what it had), `Halt` the first
HALT the call meets, and `encrypt`, `decrypt` and `integrity` what its ciphers
and MACs were given.  `generate_key` is the loop (`Extend`) and the
truncation.  A digest is `HashSize` values that name what was hashed and
their place in the digest, so two keys are equal exactly when they were
derived from the same input in the same way; a cipher or MAC refuses a key or
an IV that is not of the size it names.

### ThreadMain

`main()` of the test is at a loop, an `i` and a round `j`; each of its six
loops is an action (`New`, `Start`, `Join`, `DeleteTestMain`, `DeleteThread`,
`DeleteTestDestroy`) that does one pass and moves on (`Advance`).
`main(n)` is `TestThread::main` on the thread `start()` made; `Join` waits
for it.  A test is `"new"`, `"passed"` or `"deleted"`; `failures` counts the
tests deleted before they were passed, and `fault` is a test passed after its
deletion.

### TimeoutQueue

`timeout_queue_` is a function from expiry to the sequence of callbacks
scheduled for it; its first entry (`begin`) is the least key in `NanoTime`'s
order, seconds before nanoseconds.  The clock `now` is a `NanoTime` that `Tick`
advances by one unit; a second is `MsPerSecond` milliseconds of `NsPerMs` units
each, so that the arithmetic of `append()` (`ms / 1000` to the seconds,
`ms % 1000` scaled to the nanoseconds, no carry) and of `interval()` is the
code's at a scale TLC can cover.  `perform()` is three actions, because the
callbacks it runs are code of others: `PerformBegin` (lines 64-70, the iterator
`it` taken), `PerformCallback` (one `queue.perform()`), `PerformEnd` (the loop
sees the queue empty and the entry is erased).  Between them `Timeout` (a call
of `append()`) and `Cancel` may happen, and time may pass.  The owner is the
thread that calls `interval()`, sleeps that long (`Sleep`, `Wake`) and is woken
by a new timeout.  `due`, `fired` and `cancelled` record when a callback was to
run, when it ran, and whether it was cancelled; the properties are stated over
them.

### NetmapHost

The file is compiled for FreeBSD or for Linux; `platform` is chosen in `Init`
and selects the branch of every `#if`.  `caps` is the set of offloads that are
on at the interface, `promisc` its mode, `bound` and `mapped` what `NIOCREGIF`
and `mmap` have done for the descriptor, `ctx` the context the driver holds.
`if_netmap_register_if(isvale, broken)` is the whole function: `broken` is the
set of system calls that fail in this call, `StopsAt` the step at which the
function therefore goes to `fail`, and every effect of the steps before it
stays.  The Linux helpers are modelled by what they do: `ethtool_set_flag`
changes the flag when `data ^ flag` is not zero, `ethtool_set_discrete` tests
`etv.cmd` and so only ever clears, and their results are dropped.
`if_netmap_get_ifaddr` is an operator over the list `getifaddrs()` gives;
`NetmapHost` compares it with its description for every list of up to two
entries before the states are explored.

The rings are `rxr` and `txr` (`avail`, `cur`, `reserved`, the slots with
`len`, `buf_idx` and `flags`), `kring` is what the kernel keeps for itself, and
`buffer[i]` is the packet in netmap buffer `i`.  `if_netmap_rxsync` and
`if_netmap_txsync` store the values whose pointer is not NULL and call the
kernel (`KernelRxSync`, `KernelTxSync`, from the netmap interface);
`if_netmap_rxslot`, `if_netmap_rxsetslot` and `if_netmap_txslot` are operators
that give the values the functions return through their pointers, the slot
after `slotno` among them.  The driver
(`RxPoll`, `RxSync`, `RxTake`, `RxRelease`, `RxReplace`, `TxPoll`, `TxPut`,
`TxSync`) and the stack that reads what it is lent (`StackRead`) are modelled
from the interface: a slot handed to the stack stays reserved until the stack
has read its buffer or the slot has been given a spare one.  Packets are
numbered and as long as their number, so that loss, repetition, reordering and
a wrong length show.

### Pipe, DeflatePipe and PipeLink

`Pipe` declares the variables of the whole pipeline, so that the actions of
`DeflatePipe` can say what they leave unchanged and be steps of `PipeLink`
under their own names.  The bytes put in are numbered 1, 2, ...; what deflate
makes of them is one token for each byte, in order, a mark where a flush ended
(`SyncMark`) and one where the stream ends (`EndMark`).  The properties are
about order, completeness and termination, which the coding does not change;
that deflate's output is shorter or longer than its input matters only through
how full `outbuf` gets, and that is free: `deflate(strm, fl, room)` is the set
of every result `zlib.h` allows.  It takes `k` bytes of the input and writes
`m` of what is pending; it stops short of the input only when the room is used
up, and a flush stops short of the pending output only then; `Z_STREAM_END`
comes when a `Z_FINISH` has written everything; a finished stream answers
`Z_STREAM_ERROR` to anything but `Z_FINISH`.

`consume()` is four actions, with `pc` saying where it is: `consume(buf)`
(lines 54-62), `NextSegment` (the head of the outer loop, 64-82), `Deflate`
(one call of deflate and the `if`s behind it, 84-106) and `Skip` (108-110).
It runs on the event loop, so nothing of the link happens between them; they
are steps because the loops need not end.  `in->skip(0)` is taken to do
nothing.

`PipeLink`'s `Init` is its constructor: the splice is running and its action
held.  The splice (`SpliceData`, `SpliceEOS`) moves `output_buffer_` of the
incoming pipe to the outgoing pipe, which produces it or, with `SinkFails`,
fails; at the end of the incoming pipe or at a failure the splice is complete
and `completion` holds the event of the callback it scheduled.
`SpliceComplete` is the event loop running `pipe_splice_complete(e)`.
`Input`, `output` and `Destroy` are the user: puts in the next bytes or an empty buffer, asks for
output until it is given the end, deletes the link at any time between two
callbacks.  `halted` records the assertion that failed, or the use of an
action that is NULL.

### UinetApi and MacAton

`heap[m]` says what cell `m` of memory is: free, a thread structure, the
context of a filter, a deferral or the name of a socket; malloc hands out any free cell, one freed a
moment ago included.  `pcurthread[t]` is the thread-local pointer of thread
`t`, and `phase[t]` what the user did last on it.  `so[s]` is a socket of the
socket layer, from the interface: its state (`Transition` gives the states
`sobind`, `solisten`, `soconnect` and `soshutdown` are made in and lead to),
its options, upcalls, layer-2 information and the instance argument of its
filter (`synf`).  `fault` is `"none"` until the program reads through NULL or
through a cell that is not what it takes it for (`Deref`), or frees a cell
twice (`free`); after that nothing more happens.

Every call is one action, because the file holds no lock and keeps no state
between calls other than `pcurthread`.  The calls that pass `curthread` on
(`WithCurthread`) read the thread structure; each may succeed or fail in the
socket layer.  `uinet_interface_up` has three outcomes: `socreate` fails,
an `ifioctl` fails (`left_open` counts the configuration socket that stays
open), or the flags are written and the socket is closed.
`uinet_make_socket_promiscuous(s, set)` sets the first `set` of its four
options, `uinet_setl2info` keeps the sign and the count of `stack_depth`.
`uinet_synfilter_install` allocates the context, gives it to `so_setsockopt`
and frees it when that fails (`install`); `uinet_api_synfilter_callback` is
the stack asking about a SYN, with the user's callback answering ACCEPT,
REJECT or DEFER with a `uinet_synfilter_deferral_alloc`;
`uinet_synfilter_deferral_deliver` gives the answer to the socket and frees
the deferral; `uinet_soclose` lets the socket layer call
`uinet_api_synfilter_dtor`.  `uinet_sosetsockopt` sets or clears one of `SockOpts`.
`uinet_sogetpeeraddr` and `uinet_sogetsockaddr` set the user's `sa` to NULL and let the protocol allocate the name
(`getaddr`); the user gives back what it got with `uinet_free_sockaddr`, a
NULL of a failed call included.

Two constants say what the user keeps to.  With `InitializeAgain = FALSE` a
thread is initialized once; with `CloseBeforeDeliver = FALSE` a listener is
closed only when no deferral for it is held.  The run has both FALSE;
`MCUinetApiAgain.cfg` and `MCUinetApiDeferral.cfg` set one of them (findings
13 and 16).

`MacAton` keeps the string as a sequence of characters and `strtoul(str, p)`
by what it does: blanks are skipped, a sign is taken, then a `0x` that has a
digit behind it, the digits are folded to a number, and without a digit `endp`
is `p`.  `mac_pairs` is the loop, which
stores the byte before it tests; `rejected` is the test.  The alphabet has
three digits (`0`, `1`, `a`), `x`, the colon, a blank and the two signs.

### EventSystem

`threads_` is the deque, `state[t]` what a thread is doing (`new`, `running`,
`stopping` once `Thread::stop()` reached it, `exited`).  The main thread's
calls before `join()` are the sequence `todo`: `start` is the six calls of
`EventSystem::start()` (each thread started, then registered), `IOUinet` the
two of the constructor, and `Program` puts them in the order `IOFirst` says.
After them the main thread is in `join()`: `JoinFront` is
`threads_.front()->join()`, which returns when the first thread has exited,
`PopFront` the `pop_front()` behind it, `JoinReturn` the end of the loop.
`stop()` is entered by a thread of `Stoppers` (`StopBegin`), walks the deque
with `it` one thread at a turn (`StopThread`) and returns at its end
(`StopReturn`).  A stopper that is `main` is a signal handler: the main thread
does nothing else while it runs (`MainRuns`).  A thread that was told to stop
exits when it is not inside `stop()` itself.

`raced` records that the main thread changed the deque while another thread
was inside `stop()`: what the C++ library leaves undefined, whatever the
iterator then does.  In the model the iterator stays at its thread.

Three constants say what the program keeps to, since `main()` and the callers
of `stop()` are outside `src/`: `Stoppers` (the run has the event thread
`td_`, whose callbacks are the program's, and a signal handler), `IOFirst`
(FALSE: the event system is started before the I/O system is made) and
`StopAnyTime` (FALSE: `stop()` is called once the main thread waits in
`join()`).  `MCEventSystemRace.cfg` and `MCEventSystemEarly.cfg` set one of
them (findings 17 and 18).

### What is abstracted

Message contents are numbers or lengths; printing, logging, option parsing and
the wording of errors are left out; addresses are four bytes, ports a counter.
Every loop of the code over data is one step of the model; every place where
another thread can get in is a boundary between two actions.

## 3. Runs

| Run | Module / cfg | Result | States | Shows |
|---|---|---|---|---|
| `xcodec_pair` | `MCXCodecPipePair` / `MCXCodecPipePair.cfg` | pass | 54,747 | Two proxies, `a` sending up to 6 bytes chosen from four segments (two of which collide, one holding MAGIC), `b`'s cache warm or cold: what `b` puts out is a prefix of what `a` was given (`RoundTrip`, refinement of `ByteStream`), the two windows agree whenever the decoder has caught up (`WindowLockstep`), and every fingerprint asked for is one the peer can teach (`AskedIsTeachable`) |
| `xcodec_stream` | `MCXCodecStream` / `MCXCodecStream.cfg` | pass | 29,151 | A decoder fed any three tokens out of ten (or two, for a decoder without an encoder), read in pieces of any size: its output is always a prefix of what the tokens mean (`InOrder`), it is all of it once everything is read and nothing queued (`DecodesAll`), and `decode()` returns (`DecodeReturns`) |
| `callback_thread` | `CallbackThread` / `CallbackThread.cfg` | pass | 2,498 | With cancels made only by code the callback thread runs: no wake-up is lost (`NoLostWakeup`), the process is never aborted (`NeverAborts`), callbacks run in the order scheduled (`RunsInOrder`) and never after their cancel returned (`CancelledNeverRuns`), a queued callback runs (`ScheduledRuns`) and a stopped thread returns (`StopEnds`) |
| `socket_accept` | `SocketUinet` / `SocketUinet.cfg` | pass | 164,300 | Two listening sockets, connections, upcalls, accepts, cancels and closes in any order: no assert of `accept()` or of the destructor fails and the thread never HALTs (`AcceptNeverAborts`), `accept_cancel()` has the socket to itself after its locked part (`CancelIsAlone`), a user that waits gets a connection that is there (`ConnectionDelivered`). Before it explores the states TLC evaluates the assumption `CreateGivesWhatWasNamed` of `SocketUinet`: `create()` gives the socket the caller named, or none, for every input |
| `uinet_loopback` | `UinetLoopback` / `MCUinetLoopback.cfg` | pass | 341,778 | `copybuf` and the send buffer never hold more than their size (`TypeOK`); the work queue is the set of connections marked active, each once (`QueueIsActive`); every byte is, in order and once, unread, in `copybuf` or echoed, but for those a failed `sosend` dropped (`EchoConserves`); a queued connection is taken by the thread (`QueuedIsServed`) |
| `uinet_verify` | `MCUinetVerify` / `MCUinetVerify.cfg` | pass | 391,658 | nothing is used after it was freed (`NothingUsedAfterFree`), the connection `verify_thread` is at stays linked (`CursorIsLinked`), the first connection of the queue is never unlinked (`HeadStays`), every connection goes to a host address of its own (`PeersAreHosts`), the first connection wakes the thread (`FirstConnectionWakes`) |
| `timeout_queue` | `TimeoutQueue` / `TimeoutQueue.cfg` | pass | 785,861 | Three callbacks, each scheduled once and some cancelled, while `perform()` runs and time passes: a callback given to `append()` is in some queue of the map, has run or was cancelled (`NothingDropped`); none runs a second or more before its time and the owner never sleeps a second or more past the first expiry (`WithinASecond`); a timeout that is not cancelled runs (`ExpiredRuns`) |
| `netmap_host` | `NetmapHost` / `NetmapHost.cfg` | pass | 287,576 | An interface attached once and a call that fails, at any step, before or after: a context is returned only with everything in place and none is left allocated otherwise (`ReturnedContextIsReady`); the stack reads the packets that arrived and the wire gets the packets that were written, once, in order, with their lengths (`PacketsInOrder`); no buffer is in two slots, or in a slot and spare or lent (`BuffersApart`); the slots the driver keeps reserved are those it lent (`ReservedAreLent`).  Before it explores the states TLC evaluates the assumption `GetIfaddrFindsFirst` |
| `pipe_link` | `PipeLink` / `PipeLink.cfg` | pass | 144,972 | Six bytes put into a link over a `DeflatePipe`, in buffers of one or two segments, then the end, with the outgoing pipe failing and the link deleted at any point: as long as the outgoing pipe has not failed, what was given out, what the pipes hold and what deflate has yet to take are the bytes put in, once and in order (`NothingLostOrReordered`); no assertion of the link fails and no action is used that is NULL (`LinkNeverAborts`); after the empty buffer the outgoing pipe is given the end, unless the link is deleted first (`EndGetsThrough`) |
| `uinet_api` | `MCUinetApi` / `MCUinetApi.cfg` | pass | 290,961 | Two threads, one socket and three cells of memory, every call in any order and failing where it can, with a user that initializes a thread once and delivers its deferrals before it closes the listener: nothing is read through NULL or after its free and nothing is freed twice (`NeverFaults`); every allocated cell has exactly one holder, a thread, a filter or the user (a deferral, a name), and every holder a cell of its own (`HeapIsOwned`) |
| `mac_aton` | `MCMacAton` / `MCMacAton.cfg` | pass | 265 | `uinet_mac_aton` on `1a:a1:aa:01:a1:1a` and on every string that differs from it by one character replaced, removed or inserted: every well-formed string is taken and gives its bytes, in order (`MacIsParsed`) |
| `event_system` | `EventSystem` / `MCEventSystem.cfg` | pass | 383 | `start()`, `IOUinet`'s constructor and `join()` on the main thread, and `stop()` called twice, by the event thread or by a signal handler, once the main thread waits in `join()`: the deque is never changed while another thread walks it (`ThreadsIsNotRaced`), `join()` returns once `stop()` was called (`JoinReturns`), and no thread is running when it has (`NoThreadOutlivesJoin`) |

Every module has a type invariant (`TypeOK`, `SocketTypeOK`), checked while
the module was written; run `uinet_loopback` keeps its own, which bounds the
buffers, and the other runs keep to the properties above.  For every
property of a passing run `PROJECT.json` names a mutant: a definition changed
the way a slip in the code would change it (a dropped guard, a swapped order, a
missing reset), under which TLC finds the property violated.

Deadlock checking is off in every run, because every one of these systems may
stop: a stream ends, a thread is stopped, the last connection is closed.

Configurations that are not runs of `PROJECT.json`.  Two check a part that
has nothing to do with the others, and pass:

| cfg | Module | States | Shows |
|---|---|---|---|
| `SSHSession.cfg` | `SSHSession` | 157,541 | Two key exchanges between a client and a server, with any algorithms for either direction and a hash that may fail: once both ends have activated the keys of the same exchange, what one encrypts and signs with is what the other decrypts and verifies with (`KeysAgree`); every key in use is the key of RFC 4253 §7.2 for the secret and hash of that exchange and the hash of the first, cut to the size asked for (`KeysAreOfRfc4253`); `activate_chosen()` HALTs only when the hash fails (`HaltsOnlyForTheHash`) |
| `ThreadMain.cfg` | `ThreadMain` | 123 | Two rounds of four threads that run whenever they like after `start()`: no test is deleted before it was passed or passed after it was deleted (`EveryTestPasses`), and `main()` returns (`Returns`) |

Each of these properties fails when the definition it is about is replaced by
the variant defined in front of it: `KeysAgree` with `RemoteToLocalSame` for
`RemoteToLocal`, `KeysAreOfRfc4253` with `ExtendUnchained` for `Extend`,
`HaltsOnlyForTheHash` with `generate_key_whole` for `generate_key`,
`EveryTestPasses` with `JoinedAtOnce` for `Joined`, `Returns` with
`mainRunsOn` for `main`.

The others each check one property that the code does not have, and TLC
answers with the behaviour that shows it:

| cfg | Module | Property | Finding |
|---|---|---|---|
| `MCXCodecLoneMagic.cfg` | `MCXCodecPipePair` | `DecodeNeverAsserts` | 1 |
| `MCXCodecLearn.cfg` | `MCXCodecPipePair` | `LearnTeaches` | 2 |
| `MCXCodecBackref.cfg` | `MCXCodecPipePair` | `WindowLockstep` | 3 |
| `CallbackCancel.cfg` | `CallbackThread` | `CancelledNeverRuns` | 4 |
| `SocketCancel.cfg` | `SocketUinet` | `AcceptedIsDelivered` | 5 |
| `MCUinetDone.cfg` | `UinetLoopback` | `DoneMeansDrained` | 6 |
| `TimeoutEarly.cfg` | `TimeoutQueue` | `NeverEarly` | 8 |
| `NetmapHostAsFound.cfg` | `NetmapHost` | `HostAsFound` | 9 |
| `NetmapOffloadsOff.cfg` | `NetmapHost` | `OffloadsOff` | 10 |
| `PipeLinkFlush.cfg` | `PipeLink` | `FlushIsComplete` | 11 |
| `PipeLinkAfterEOS.cfg` | `PipeLink` | `ConsumeReturns` | 12 |
| `MCUinetApiAgain.cfg` | `MCUinetApi` | `HeapIsOwned` | 13 |
| `MCUinetApiLeft.cfg` | `MCUinetApi` | `ConfigSocketIsClosed` | 14 |
| `MCMacAtonStrict.cfg` | `MCMacAton` | `MacIsWellFormed` | 15 |
| `MCUinetApiDeferral.cfg` | `MCUinetApi` | `NeverFaults` | 16 |
| `MCEventSystemRace.cfg` | `EventSystem` | `ThreadsIsNotRaced` | 17 |
| `MCEventSystemEarly.cfg` | `EventSystem` | `JoinReturns` | 18 |
| `KThreadExit.cfg` | `KThread` | `GoneIsFreed` | 19 |

### Bounds

XCodec.  `SEGMENT_SIZE = 2`, `HASH_SIZE = 2`, window of 2 (1 in the stream
run): a window of two makes an index other than the newest reachable, and is
overwritten by the third distinct segment, so eviction, a BACKREF to an evicted
slot and the wrap of the cursor all happen.  Four segments, with
`Hash(P) = Hash(Q)`: the collision paths of encoder and decoder are taken.  One
segment contains MAGIC, so ESCAPE is produced and parsed.  Six bytes of input
give three segments, or any mix of segments and literals.  The stream run's
three tokens are enough for REF-unknown, data queued behind it, and the EXTRACT
that releases it.

CallbackThread.  Two objects, one thread besides the callback thread, four
callbacks (`MaxCallbacks`): an object is armed, cancelled and armed again while
the other's handler runs, and the queue holds two callbacks with a third in
flight.

SocketUinet.  Two sockets, three callbacks, two connections per socket
(`MaxArrivals`): a connection arrives before, between and after `accept()` and
`accept_cancel()`, the second arrives while the first upcall is inside
`do_accept()`, and one socket is closed and deleted while the other still
accepts, its close callback queued behind an accept callback of the other.

UinetLoopback.  Two connections, three bytes each (`MaxData`), a copy buffer
and a send buffer of two bytes: a read fills the buffer and leaves a byte
behind, `sosend` finds the send buffer full or with room for one byte of
two, and the thread serves one
connection while the other's data arrives.

UinetVerify.  Two foreign addresses with two ports each, starting from
10.0.0.1 and from 10.0.0.254 (so that `incr_in_addr_t` steps over .255 and .0
and carries), messages and buffers of one unit: four connections are
established, refused or dropped in any order while `run_test` is still opening
the later ones.

TimeoutQueue.  A second of two milliseconds of two units, delays of 0 to 3
milliseconds, a clock that runs for six units: a timeout set at unit 3 for one
millisecond gets the key (0 s, 5 units), which is past as soon as the clock
shows (1 s, 0); two timeouts for the same expiry share a queue; a callback
scheduled while `perform()` runs lands in the queue being run or in front of
it; three callbacks allow one running, one queued behind it and one being
cancelled.

NetmapHost.  Rings of three slots (the cursor wraps after three packets), two
spare buffers, four packets in and three out: the kernel writes to a slot
again while the stack still holds the buffer that was in it, after
`if_netmap_rxsetslot` has put a spare one there.  One attachment
(`MaxRegisters`) and one failing call (`MaxFailures`) with at most one failing
system call in it: every step fails once, on a fresh interface and on one
that was attached before.  Two initial settings of the offloads, one for each
platform, with one offload that the interface cannot change (`Frozen`).  The
rings are found with no slot or with one slot reserved by an earlier user.

PipeLink.  An `outbuf` of two bytes (`DEFLATE_CHUNK_SIZE`) and segments of up
to three (`SegmentSize`): deflate fills `outbuf` once or twice within a
segment, leaves part of a segment untaken, and runs out of room in the middle
of a flush and of the end of the stream.  Buffers of one or two segments
(`MaxSegments`) and six bytes altogether (`MaxInput`): up to six calls of
`input()`, so that a call finds in the stream what the flush of the one before
left there, and an empty buffer comes first, after some data or after all of
it.  `SinkFails` lets the splice end with Error as well as with EOS.
`InputAfterEOS` is FALSE in the run: the user stops at the end of the stream.

UinetApi.  Two threads, one socket place and three cells: a cell freed by one
holder is handed out to a holder of another kind (a thread structure's cell to
a filter's context, a context's to a deferral), two threads are initialized at
once, and the socket is closed and created again with a filter each time.
With three cells a listener holds a context and the user two deferrals, or a
deferral and a name, or two threads their structures and the filter its
context.  The cells are alike and so are the threads, and the run checks
invariants only: it takes the states up to a permutation of either
(`MCSymmetry`).  `MaxResid = 1`: a
transfer moves everything or nothing.  `MaxLeft = 1` bounds the sockets
`uinet_interface_up` leaves open.  `StackDepths` is -1, 0 and 1, one for each
branch of `uinet_setl2info`.  `SockOpts` is one option, which
`uinet_make_socket_promiscuous` sets as well: the user's setting comes
before, between and after the four of that call.

MacAton.  `ETHER_ADDR_LEN = 6`, as in the code.  The strings are one good
address and everything one slip away from it, and the empty
string and NULL: a pair is short, long, signed, blank or begins with `0x`,
a colon is missing, doubled or another character, and the string ends a
character early or late.

EventSystem.  The four threads of the program, as in the code.  Two calls of
`stop()` (`MaxStops`): the second walks a deque that `join()` has shortened
or emptied after the first.  With `Stoppers = {td_, main}` the call comes from
the first thread of the deque and from a signal handler.

SSHSession.  Ciphers with an IV of 0 or 2 bytes and a key of 3, MACs with a
key of 1 or 4, digests of 2 bytes: a key is nothing, less than a digest, a
digest and a part, or two digests, so the loop of `generate_key` runs not at
all, once or twice and the truncation cuts or does not.  Two exchanges
(`MaxExchanges`): the second derives from a new secret and hash and the old
session id, and can leave a direction without a cipher that had one.

ThreadMain.  Four threads for the eight of the test and two rounds for its
1024: every order of the threads' `main()` among themselves and against the
loops of `main()` is there with two threads, and the second round starts from
what the first left.

### Fairness

| Specification | Fairness | Why |
|---|---|---|
| `XCodecStream` | WF of `Decode(p)` | `decode()` is a function that is running; its next step is taken |
| `CallbackThread` | WF of `Main` | the callback thread is a thread of its own; once woken or inside its loop it runs |
| `SocketUinet` | WF of `Runs` and of `Upcall` | as above, and the stack makes the upcall it owes for a completed connection |
| `UinetLoopback` | WF of `loopback_thread` and of `server_upcall` | the thread runs; the stack calls the upcall of a listening socket with a completed connection |
| `UinetVerify` | WF of `verify_thread` | the thread runs |
| `TimeoutQueue` | WF of `Tick`, of `perform` and of `Wake` | time passes; the owner of the queue is a thread that polls while it is awake, and its timed wait ends |
| `NetmapHost` | none | only safety is checked |
| `EventSystem` | WF of the main thread's steps (`ThreadStart`, `thread_wait`, `join`), of `StopThread` and `StopReturn` together, and of `ThreadExit(t)` | the main thread and the caller of `stop()` are running code with no wait in it but `join()`'s; a thread that was told to stop returns from its `main()`.  Nobody has to call `stop()` |
| `UinetApi`, `MacAton` | none | only safety is checked: the calls are made by a user who may stop |
| `ThreadMain` | WF of `Step` and of `main(n)` | `main()` is running code whose only wait is `join()`; a thread that was started runs |
| `SSHSession` | none | only safety is checked |
| `PipeLink` | WF of `NextSegment`, `Deflate` and `Skip` together, of `SpliceData` and `SpliceEOS` together, and of `SpliceComplete` | `consume()` is a function that is running; the splice and its callback are callbacks the event loop has been given, and it runs them |

Nothing is assumed of peers, users, `run_test` or the arrival of data: they
may stop at any point.

## 4. Findings

1. **A read that ends on MAGIC** (`xcodec_decoder.cc:89`,
   `MCXCodecLoneMagic.cfg`).  When the only byte left in the input is MAGIC, the
   loop is left by `break` with that byte still in the input, and
   `ASSERT(input->empty())` after the loop (line 282) fails.  Every other
   incomplete token leaves by `return (true)`.  A stream read in two pieces,
   split between MAGIC and its opcode, stops the proxy.
2. **LEARN is misframed** (`xcodec_decoder.cc:230`, `MCXCodecLearn.cfg`).  The
   branch copies the segment from the front of the input, where MAGIC and the
   opcode still are (EXTRACT skips them first, line 130), and skips only the
   segment's length.  The segment entered in the cache begins with the two
   header bytes, the fingerprint asked for is never erased from `asked_`, and
   the queued stream never resumes.
3. **BACKREF and the window** (`xcodec_decoder.cc:212`,
   `MCXCodecBackref.cfg`).
   `spec.md` has the encoder declare a segment again when it refers back to
   it; `decode()` only dereferences.  With such an encoder the windows disagree
   after the first BACKREF.
4. **A cancelled callback runs** (`callback_thread.cc:96`,
   `CallbackCancel.cfg`).  `cancel()` of a callback that `main()` has taken off
   the queue clears `inflight_` and returns; `main()` executes it all the same.
   This is the race the comment at lines 60-91 draws.  With cancels made only
   from the callback thread's own handlers it cannot happen (run
   `callback_thread`).
5. **An accepted connection is dropped** (`socket_uinet.cc:153`,
   `SocketCancel.cfg`).  When the user cancels after `do_accept()` has scheduled
   the callback with the new socket as its parameter, the callback is deleted
   and the socket with it is neither closed nor handed over.
6. **Done with data unread** (`uinet_main.c:214`, `MCUinetDone.cfg`).
   `loopback_thread` takes "soreceive returned nothing" and "the peer has
   closed", read one after the other without a lock, to mean "everything was
   read".  Data and the end of the stream arriving between the two leave the
   connection `CS_DONE` with bytes that are never echoed.
7. **The first connection is never unlinked** (`uinet_main.c:454`, property
   `HeadStays` of run `uinet_verify`).  `verify_thread` unlinks finished
   connections only behind the one it has just verified and starts every cycle
   at the head of the queue.  The queue never empties, "No more connections"
   is never reached, and the thread goes on sending to a connection that is
   done.  It is also why `NothingUsedAfterFree` holds: the thread never gets to
   free `td` and the client context, which `kthread_add` and later upcalls
   still use.
8. **A timeout runs early** (`timeout_queue.cc:39`, `TimeoutEarly.cfg`).
   `append()` adds `ms / 1000` to `seconds_` and the rest to `nanoseconds_`
   and does not carry.  Set at 0.9 s for 200 ms, a timeout gets the key
   (0 s, 1.1e9 ns); `NanoTime` compares seconds first, so at 1.0 s the key is
   past and `perform()` runs the callback 100 ms early.  `interval()`
   subtracts with a borrow and can tell the owner to sleep longer than the
   time that is left for a timeout behind such a key.  Both errors are below
   one second, which is what run `timeout_queue` shows.
9. **A failed registration leaves the interface changed**
   (`uinet_if_netmap_host.c:192`, `NetmapHostAsFound.cfg`).  When
   `NIOCREGIF` or `mmap` fails, `fail:` frees the context; the offloads stay
   off and the interface stays in promiscuous mode, and the caller has no
   context to undo it with.  On Linux `if_netmap_set_promisc()` sets
   `IFF_PROMISC` whatever `on` is (line 470), so `if_netmap_deregister_if()`
   leaves the mode on too.
10. **The ethtool helpers** (`uinet_if_netmap_host.c:344`,
   `NetmapOffloadsOff.cfg`).  `if_netmap_ethtool_set_flag()` tests
   `etv.data ^ flag`, which is zero only when `flag` is the one flag that is
   on: the last of the flags to be turned off stays on.
   `if_netmap_ethtool_set_discrete()` tests `etv.cmd` where it means
   `etv.data`.  Both pass `&ifr`, the address of their pointer argument, where
   `ioctl` wants the pointer; `if_netmap_set_offload()` drops their results.
11. **A flush that is not complete** (`deflate_pipe.cc:96`,
   `PipeLinkFlush.cfg`).  `consume()` returns when `deflate(Z_SYNC_FLUSH)`
   has returned `Z_OK`.  `zlib.h` wants the call repeated, with the same flush
   and more room, while it returns with `avail_out == 0`.  When the output of
   the flush ends at or beyond the end of `outbuf`, `consume()` produces what
   it has and leaves the rest in the stream until the next input: the peer
   cannot decode the end of what was sent, and waits.  Nothing is lost or
   reordered (run `pipe_link`), and the loop for `Z_FINISH` has no such gap.
12. **Input after the end** (`deflate_pipe.cc:94`, `PipeLinkAfterEOS.cfg`).
   After an empty buffer the stream is finished.  A later `consume()` of data
   gets `Z_STREAM_ERROR` from `deflate(Z_NO_FLUSH)`, does not look at it,
   skips nothing and gives deflate the same segment again, for ever, on the
   thread of the event loop.  Whether `PipeProducer::input()` keeps input away
   after the end is not to be seen in `src/`.
13. **A thread initialized again keeps a freed structure**
   (`uinet_api.c:77`, `MCUinetApiAgain.cfg`).  `uinet_finalize_thread()` frees
   the thread structure and does not reset `pcurthread`;
   `uinet_initialize_thread()` allocates only when `pcurthread` is NULL.  A
   thread that is finalized and initialized again gets 0 back and goes on with
   the freed structure as `curthread`; a second finalize frees it twice.
14. **The configuration socket stays open** (`uinet_api.c:119`,
   `MCUinetApiLeft.cfg`).  The two returns of `uinet_interface_up()` after a
   failed `ifioctl` leave out `soclose(cfg_so)`.  `main()` of `uinet_main.c`
   ends the program when the call fails; a user that tries again leaves one
   socket more with every failure.
15. **"Two hex digits"** (`uinet_api.c:153`, `MCMacAtonStrict.cfg`).
   `uinet_mac_aton()` takes a pair for good when `strtoul` stopped two
   characters after its start.  `strtoul` skips white space and takes a sign,
   so ` 1`, `+1` and `-a` pass as pairs; `-a` is stored as the byte 246.
   Every well-formed address is parsed as it should be (run `mac_aton`).
   `mac_aton()` of `uinet_main.c` is the same code.
16. **A deferral needs its socket** (`uinet_api.c:558`,
   `MCUinetApiDeferral.cfg`).  `uinet_synfilter_deferral_deliver()` is the
   only way to free a deferral and passes the listener to `so_setsockopt`
   first.  After `uinet_soclose()` of the listener a deferral can neither be
   delivered nor released, and nothing in the interface says that deferrals
   are to be delivered before the close.
17. **`join()` shortens the deque that `stop()` walks** (`event_system.h:96`,
   `MCEventSystemRace.cfg`).  `threads_` has no lock.  `join()` takes the
   first thread off as soon as it has exited, and the thread that called
   `stop()` may still be inside the loop over the deque, whose iterator
   `pop_front()` invalidates.  It cannot happen while `stop()` is called by
   the first thread of the deque or by a signal handler on the main thread
   (run `event_system`); it happens when `IOUinet` is constructed before
   `start()`, which puts the handler thread first, and with `stop()` called
   by the poll or the handler thread.  Which of these the program does is
   decided outside `src/`.
18. **A `stop()` that comes early is forgotten** (`event_system.h:103`,
   `MCEventSystemEarly.cfg`).  `stop()` reaches the threads that are in the
   deque when it is called and leaves no mark.  Called while the main thread
   is still in `start()` or in `IOUinet`'s constructor (by a signal, or by a
   callback of a thread that already runs), it misses the threads registered
   later, and `join()` waits for them for ever.

19. **A thread that exits leaks** (`uinet_kern_kthread.c:130`,
   `KThreadExit.cfg`).  `pthread_start_routine()` frees the thread structure
   and the start arguments after the routine has returned.  `kthread_exit()`
   calls `pthread_exit()` inside the routine, so a thread that ends the way
   the threads of a FreeBSD kernel do never gets to the two calls of
   `free()`.  The test program's routines return, and nothing under `src/`
   calls `kthread_exit()`.

Seen while modelling and not checked by a run: `if_netmap_get_ifaddr` reads
`ifa_addr->sa_family` of every entry with the right name, and `getifaddrs()`
leaves `ifa_addr` NULL for an interface without an address of that kind
(`uinet_if_netmap_host.c:110`; the operator answers `"SIGSEGV"`); the branch of `create()` that
falls back from IPv6 to IPv4 (`socket_uinet.cc:286`) tests for a family,
`SocketAddressFamilyIP`, whose case in the switch above is compiled out, so
it is never taken; `server_upcall` frees an address it has not set when the
listen queue is empty (`uinet_main.c:361`); `run_test` returns 0 when
`create_test_socket` fails in a later pass of its loop;
`uinet_finalize_thread()` on the first thread would free `thread0`, which is
static (`uinet_kern_kthread.c:174`); `kthread_add` allocates a lock and a
condition variable for every thread (`uinet_kern_kthread.c:109`) and
`pthread_start_routine` frees the thread structure and the start arguments
only; `kproc_kthread_add` has a parameter for the process and never writes
it, so a caller that reads it back reads what it had before
(`uinet_kern_kthread.c:137`), and it stores through `tdp` without the test
`kthread_add` makes, so a caller that wants no thread pointer and passes NULL
faults (`uinet_kern_kthread.c:151`); `ConfigClassAddress::activate` has a branch for
IPv4 and one for Unix and answers false for every other family
(`config_class_address.cc:32`); `uinet_setl2info()` copies `stack_depth`
tags into `inl2t_tags` without comparing the count with the size of the array
(`uinet_api.c:214`); `pipe_splice_complete()` called with an event other than
EOS or Error leaves the link with its action cancelled and its splice set.

## 5. Not modelled yet, and the plan

`PROJECT.json` lists every component with its status, and under `hazards` what
can go wrong where; the hazards without a property are the work that is left.
In this order:

1. `UinetLoopback`: data that is in the receive buffer when the thread last
   looked and for which no further upcall comes (`uinet_main.c:195`) stays
   there; this is a liveness property under an assumption on the peer, and
   wants a run of its own.  The same for `verify_thread`'s blocking
   `soreceive` (`uinet_main.c:439`).
2. `ConfigClassAddress::activate` as an operator with its table.
3. `TimeoutQueue` and `EventSystem` composed with `CallbackThread`, `PipeLink` over a pipe
   pair of the codec in place of the `DeflatePipe`, and `UinetApi`'s thread
   structures under `SocketUinet` and the test program.

Not modelled, and not planned: `uinet_init_thread0` of
`uinet_kern_kthread.c` (one assignment to the `pcurthread` of the thread that
calls it, which nothing under `src/` does); of `XCodecPipePair`, `decoder_produce`, `encoder_produce`,
`decoder_error`, `encoder_error`, `get_incoming`, `get_outgoing` and the
destructor (each passes one call on to a pipe wrapper that is outside
`src/`, or selects one of the two by `type_`; the decoder's failure is
`status = "error"` in `XCodecDecoder`); the configuration classes' registration of
their members (declarations, with the parser outside `src/`); the templates
of `object_callback.h` (one class per number of arguments, each a call through
a member pointer); `Lock` and `ScopedLock` beyond the mutex the other modules
already have (nothing under `src/` calls `acquire()` or `drop()`); of
`EventSystem`, `schedule`, `timeout`, `poll` and `register_interest`, which
pass the call to one of its threads; `main()` and the option parsing of
`uinet_main.c`; of `uinet_api.c`, the calls that only read
(`uinet_sogetsockopt`, `sogetstate`, `sogetconninfo`, `inet_addr`,
`inet_ntoa`, `synfilter_get_conninfo`, `synfilter_get_l2info`).

The project keeps to a dozen runs and forty properties.  A new question is
asked in place of a run whose property the code does not have: its
configuration stays in the directory, and TLC still answers it with the
behaviour that shows the finding, as it does today for findings 1 to 6 and 8
to 19.

The hash function, the ciphers, zlib, the kernel socket layer and the
operating system are outside `src/` and are constants or nondeterministic
choices of the models.
