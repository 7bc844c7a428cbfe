-------------------------------- MODULE Pipe --------------------------------
(***************************************************************************)
(* What DeflatePipe (src/zlib/deflate_pipe.cc) and PipeLink (src/io/pipe/  *)
(* pipe_link.cc) share: the bytes that go through, the state of the two    *)
(* pipes a link joins, and what a PipeProducer does with what its          *)
(* consume() produces.  PipeProducer, PipeSplice and Buffer are not under  *)
(* src/; they are modelled from the calls the two files make.              *)
(*                                                                         *)
(* Everything runs on one event loop: a call runs to its end before the    *)
(* next callback is taken.                                                 *)
(***************************************************************************)
EXTENDS Integers, Sequences, FiniteSets, SequencesExt

CONSTANTS
    DEFLATE_CHUNK_SIZE,  \* sizeof outbuf
    SegmentSize,         \* the most bytes a BufferSegment holds
    MaxSegments,         \* the most segments of a Buffer given to input()
    MaxInput,            \* how many bytes are put in altogether
    SinkFails,           \* the outgoing pipe may fail
    InputAfterEOS,       \* the user may call input() after an empty buffer
    NULL

ASSUME /\ DEFLATE_CHUNK_SIZE \in Nat \ {0}
       /\ SegmentSize \in Nat \ {0}
       /\ MaxSegments \in Nat \ {0}
       /\ MaxInput \in Nat
       /\ SinkFails \in BOOLEAN
       /\ InputAfterEOS \in BOOLEAN

(* The bytes that are put in are numbered.  What deflate makes of them is
   one token for each, in their order, a mark where a flush ended and one
   where the stream ends: the properties are about order and completeness,
   which the coding of the tokens does not change. *)
Bytes == 1..MaxInput
SyncMark == 0
EndMark == -1
Token == Bytes \cup {SyncMark, EndMark}

(* A Buffer: its segments, each a run of bytes. *)
Buffer == Seq(Seq(Bytes) \ {<<>>})

VARIABLES
    stream_,              \* DeflatePipe: the z_stream
    in,                   \* consume(): the buffer it was given
    out,                  \* consume(): what it has collected to produce
    outbuf,               \* consume(): what deflate has written since the last append
    first,                \* consume(): no segment was seen yet
    flush,                \* consume(): how deflate is called
    pc,                   \* where consume() is, "idle" outside it
    output_buffer_,       \* PipeProducer of the incoming pipe: what was produced
    output_eos_,          \* PipeProducer of the incoming pipe: the end was produced
    sink_buffer,          \* the outgoing pipe: what it has to give
    sink_end,             \* the outgoing pipe: NULL, or "EOS" or "Error" after its data
    sink_callback,        \* the outgoing pipe: an output() is waiting
    pipe_splice_,         \* PipeLink: NULL or the state of the splice
    pipe_splice_action_,  \* PipeLink: NULL or the action start() returned
    pipe_splice_error_,   \* PipeLink
    completion,           \* the event of the scheduled pipe_splice_complete, or NULL
    destroyed,            \* ~PipeLink has run
    halted,               \* "no", or the assertion that failed
    fed,                  \* how many bytes input() was given
    closed,               \* input() was given an empty buffer
    input_events,         \* the events of the callbacks of input()
    delivered,            \* what the callbacks of output() were given
    delivered_end         \* NULL, or the "EOS" or "Error" output() ended with

deflateVars == <<stream_, in, out, outbuf, first, flush, pc>>
producerVars == <<output_buffer_, output_eos_>>
sinkVars == <<sink_buffer, sink_end, sink_callback>>
linkVars == <<pipe_splice_, pipe_splice_action_, pipe_splice_error_, completion,
              destroyed, halted>>
inputVars == <<fed, closed, input_events>>
outputVars == <<delivered, delivered_end>>
vars == <<deflateVars, producerVars, sinkVars, linkVars, inputVars, outputVars>>

(* PipeProducer::produce(): what consume() made is kept for output(). *)
produce(buf) ==
    /\ output_buffer_' = output_buffer_ \o buf
    /\ UNCHANGED output_eos_

(* PipeProducer::produce_eos() *)
produce_eos(buf) ==
    /\ output_buffer_' = output_buffer_ \o buf
    /\ output_eos_' = TRUE

(* The outgoing pipe is given a buffer by the splice and produces it as it
   is: an output() that is waiting gets it at once. *)
SinkProduce(buf) ==
    IF sink_callback
    THEN /\ delivered' = delivered \o buf
         /\ sink_callback' = FALSE
         /\ UNCHANGED <<sink_buffer, sink_end, delivered_end>>
    ELSE /\ sink_buffer' = sink_buffer \o buf
         /\ UNCHANGED <<sink_end, sink_callback, delivered, delivered_end>>

(* The outgoing pipe comes to its end, with EOS or with an error. *)
SinkEnd(event) ==
    IF sink_callback
    THEN /\ delivered_end' = event
         /\ sink_end' = event
         /\ sink_callback' = FALSE
         /\ UNCHANGED <<sink_buffer, delivered>>
    ELSE /\ sink_end' = event
         /\ UNCHANGED <<sink_buffer, sink_callback, delivered, delivered_end>>

(* PipeProducer::output() of the outgoing pipe: what is there is given to
   the callback, the end after the data; with nothing there the callback
   waits. *)
SinkOutput ==
    CASE sink_buffer # <<>> ->
            /\ delivered' = delivered \o sink_buffer
            /\ sink_buffer' = <<>>
            /\ UNCHANGED <<sink_end, sink_callback, delivered_end>>
      [] sink_buffer = <<>> /\ sink_end # NULL ->
            /\ delivered_end' = sink_end
            /\ UNCHANGED <<sink_buffer, sink_end, sink_callback, delivered>>
      [] OTHER ->
            /\ sink_callback' = TRUE
            /\ UNCHANGED <<sink_buffer, sink_end, delivered, delivered_end>>
=============================================================================
