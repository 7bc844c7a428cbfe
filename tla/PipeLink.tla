------------------------------ MODULE PipeLink ------------------------------
(***************************************************************************)
(* PipeLink (src/io/pipe/pipe_link.cc): one pipe made of two.  What is     *)
(* put into the link goes into the incoming pipe, a PipeSplice moves what  *)
(* that pipe produces into the outgoing pipe, and what the link gives out  *)
(* is what the outgoing pipe produces.  The incoming pipe is a DeflatePipe *)
(* here; the outgoing pipe produces what it is given, or fails.            *)
(*                                                                         *)
(* The splice ends with EOS or with an error and tells the link through    *)
(* the callback pipe_splice_complete, which the event loop runs later: the *)
(* user's input(), output() and the destructor can come before it.         *)
(***************************************************************************)
EXTENDS DeflatePipe

(* What a PipeSplice gives its callback. *)
SpliceEvents == {"EOS", "Error"}

TypeOK ==
    /\ DeflateTypeOK
    /\ sink_buffer \in Seq(Token)
    /\ sink_end \in {NULL, "EOS", "Error"}
    /\ sink_callback \in BOOLEAN
    /\ pipe_splice_ \in {NULL, "running", "complete"}
    /\ pipe_splice_action_ \in {NULL, "splice"}
    /\ pipe_splice_error_ \in BOOLEAN
    /\ completion \in SpliceEvents \cup {NULL}
    /\ destroyed \in BOOLEAN
    /\ halted \in {"no", "ASSERT(pipe_splice_action_ != NULL)",
                   "ASSERT(pipe_splice_action_ == NULL)", "SIGSEGV"}
    /\ fed \in 0..MaxInput
    /\ closed \in BOOLEAN
    /\ input_events \in Seq({"Done", "Error"})
    /\ delivered \in Seq(Token)
    /\ delivered_end \in {NULL, "EOS", "Error"}

(* PipeLink::PipeLink(): the splice is made and started. *)
Init ==
    /\ DeflateInit
    /\ sink_buffer = <<>>
    /\ sink_end = NULL
    /\ sink_callback = FALSE
    /\ pipe_splice_ = "running"
    /\ pipe_splice_action_ = "splice"
    /\ pipe_splice_error_ = FALSE
    /\ completion = NULL
    /\ destroyed = FALSE
    /\ halted = "no"
    /\ fed = 0
    /\ closed = FALSE
    /\ input_events = <<>>
    /\ delivered = <<>>
    /\ delivered_end = NULL

(* The link is there and the loop is free to take a call. *)
Ready == ~destroyed /\ halted = "no" /\ pc = "idle"

(* The buffers a user can put in next: the bytes that follow those already
   put in, cut into segments; none of them for the end of the stream. *)
NextBuffers ==
    LET sum(lens) == FoldLeft(LAMBDA a, b : a + b, 0, lens)
        cut(lens) == [i \in DOMAIN lens |->
                         [j \in 1..lens[i] |-> fed + sum(SubSeq(lens, 1, i - 1)) + j]]
    IN  {cut(lens) : lens \in {l \in BoundedSeq(1..SegmentSize, MaxSegments) :
                                  fed + sum(l) <= MaxInput}}

(* PipeLink::input(): after an error of the splice the buffer is cleared
   and the callback gets Error; otherwise the incoming pipe consumes it. *)
input(buf) ==
    /\ Ready
    /\ closed => InputAfterEOS
    /\ fed' = fed + Len(FlattenSeq(buf))
    /\ closed' = (closed \/ buf = <<>>)
    /\ IF pipe_splice_error_
       THEN /\ input_events' = Append(input_events, "Error")
            /\ UNCHANGED <<deflateVars, producerVars>>
       ELSE /\ consume(buf)
            /\ UNCHANGED input_events
    /\ UNCHANGED <<sinkVars, linkVars, outputVars>>

(* A user puts in one of the buffers it can. *)
Input == \E buf \in NextBuffers : input(buf)

(* PipeLink::output(): after an error of the splice the callback gets
   Error; otherwise the outgoing pipe is asked.  A user asks for output
   until it is given the end. *)
output ==
    /\ Ready
    /\ ~sink_callback
    /\ delivered_end = NULL
    /\ IF pipe_splice_error_
       THEN /\ delivered_end' = "Error"
            /\ UNCHANGED <<sinkVars, delivered>>
       ELSE SinkOutput
    /\ UNCHANGED <<deflateVars, producerVars, linkVars, inputVars>>

(* The splice takes what the incoming pipe has produced and puts it into
   the outgoing pipe, which produces it or fails; its failure ends the
   splice with Error. *)
SpliceData ==
    /\ Ready
    /\ pipe_splice_ = "running"
    /\ output_buffer_ # <<>>
    /\ output_buffer_' = <<>>
    /\ \/ /\ SinkProduce(output_buffer_)
          /\ UNCHANGED <<pipe_splice_, completion>>
       \/ /\ SinkFails
          /\ SinkEnd("Error")
          /\ pipe_splice_' = "complete"
          /\ completion' = "Error"
    /\ UNCHANGED <<deflateVars, output_eos_, pipe_splice_action_, pipe_splice_error_,
                   destroyed, halted, inputVars>>

(* The splice finds the incoming pipe at its end: the outgoing pipe is
   given the end, and the splice ends with EOS. *)
SpliceEOS ==
    /\ Ready
    /\ pipe_splice_ = "running"
    /\ output_buffer_ = <<>>
    /\ output_eos_
    /\ SinkEnd("EOS")
    /\ pipe_splice_' = "complete"
    /\ completion' = "EOS"
    /\ UNCHANGED <<deflateVars, producerVars, pipe_splice_action_, pipe_splice_error_,
                   destroyed, halted, inputVars>>

(* PipeLink::pipe_splice_complete(): the action is cancelled and forgotten;
   for EOS and Error the splice is deleted, and Error is remembered. *)
pipe_splice_complete_keeps(e) ==
    /\ pipe_splice_action_' = NULL
    /\ pipe_splice_error_' = (pipe_splice_error_ \/ e = "Error")
    /\ UNCHANGED <<pipe_splice_, halted>>

pipe_splice_complete(e) ==
    IF pipe_splice_action_ = NULL
    THEN /\ halted' = "SIGSEGV"
         /\ UNCHANGED <<pipe_splice_, pipe_splice_action_, pipe_splice_error_>>
    ELSE /\ pipe_splice_action_' = NULL
         /\ pipe_splice_' = IF e \in {"EOS", "Error"} THEN NULL ELSE pipe_splice_
         /\ pipe_splice_error_' = (pipe_splice_error_ \/ e = "Error")
         /\ UNCHANGED halted

(* The event loop runs the callback the splice scheduled. *)
SpliceComplete ==
    /\ Ready
    /\ completion # NULL
    /\ pipe_splice_complete(completion)
    /\ completion' = NULL
    /\ UNCHANGED <<deflateVars, producerVars, sinkVars, destroyed, inputVars, outputVars>>

(* PipeLink::~PipeLink(): a splice that is there is cancelled through its
   action and deleted, which also takes back the callback it scheduled. *)
Destroy ==
    /\ Ready
    /\ destroyed' = TRUE
    /\ IF pipe_splice_ # NULL
       THEN /\ halted' = IF pipe_splice_action_ # NULL THEN "no"
                         ELSE "ASSERT(pipe_splice_action_ != NULL)"
            /\ pipe_splice_action_' = NULL
            /\ pipe_splice_' = NULL
            /\ completion' = NULL
       ELSE /\ halted' = IF pipe_splice_action_ = NULL THEN "no"
                         ELSE "ASSERT(pipe_splice_action_ == NULL)"
            /\ UNCHANGED <<pipe_splice_, pipe_splice_action_, completion>>
    /\ UNCHANGED <<deflateVars, producerVars, sinkVars, pipe_splice_error_, inputVars,
                   outputVars>>

-----------------------------------------------------------------------------
Next ==
    \/ Input
    \/ output
    \/ NextSegment
    \/ Deflate
    \/ Skip
    \/ SpliceData
    \/ SpliceEOS
    \/ SpliceComplete
    \/ Destroy
    \/ DeflatePipeDelete

(* consume() is code that is running, and the event loop runs what is
   scheduled on it.  Nothing is assumed of the user. *)
Spec ==
    /\ Init /\ [][Next]_vars
    /\ WF_vars(NextSegment \/ Deflate \/ Skip)
    /\ WF_vars(SpliceData \/ SpliceEOS)
    /\ WF_vars(SpliceComplete)

-----------------------------------------------------------------------------
(* Properties *)

(* The bytes of a sequence of tokens *)
Data(tokens) == SelectSeq(tokens, LAMBDA t : t \in Bytes)

(* Nothing is lost, repeated or reordered on the way through the link:
   while the outgoing pipe has not failed, what was given out, what the
   outgoing pipe holds, what consume() has produced and collected, what
   deflate has pending and what it has not taken yet are, in this order,
   the bytes that were put in.  consume() skips what deflate took of a
   segment and no more, and appends outbuf before it is written again. *)
NothingLostOrReordered ==
    sink_end # "Error" /\ ~pipe_splice_error_ =>
        Data(delivered \o sink_buffer \o InDeflate) \o Unread = [i \in 1..fed |-> i]

(* No assertion of the link fails and no action that is NULL is cancelled:
   pipe_splice_complete() runs once for a splice, and leaves the splice and
   its action both there or both gone for the destructor, whenever that
   comes. *)
LinkNeverAborts == halted = "no"

(* The end of the stream gets through: when the user has put in an empty
   buffer, the outgoing pipe is given the end, unless it fails or the link
   is destroyed first.  consume() comes to an end with Z_FINISH however
   little room outbuf has, and the splice is still there to move what it
   produced. *)
EndGetsThrough == closed ~> (sink_end # NULL \/ destroyed)

(* consume() returns with everything it was given flushed: deflate has
   nothing pending that the next call would have to bring out. *)
FlushIsComplete == pc = "idle" => stream_.pending = <<>>

(* consume() returns. *)
ConsumeReturns == pc # "idle" ~> pc = "idle"
=============================================================================
