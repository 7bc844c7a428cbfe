---------------------------- MODULE DeflatePipe ----------------------------
(***************************************************************************)
(* DeflatePipe (src/zlib/deflate_pipe.cc): a PipeProducer whose consume()  *)
(* hands the segments of its input to deflate, one call each, collects     *)
(* what deflate writes into outbuf, and produces it when the input is      *)
(* used up and flushed.  An empty input is the end of the stream.          *)
(*                                                                         *)
(* zlib is not under src/.  deflate() is modelled from zlib.h: how much    *)
(* of the input it takes and how much it writes are its own choice, within *)
(* what the manual promises.                                               *)
(***************************************************************************)
EXTENDS Pipe

Flushes == {"Z_NO_FLUSH", "Z_SYNC_FLUSH", "Z_FINISH"}

(* The z_stream: next_in are the avail_in bytes deflate has yet to take,
   pending is what it has made of the input and not written yet. *)
ZStream ==
    [status : {"busy", "finishing", "finished", "ended"},
     next_in : Seq(Bytes),
     pending : Seq(Token)]

avail_out == DEFLATE_CHUNK_SIZE - Len(outbuf)

DeflateTypeOK ==
    /\ stream_ \in ZStream
    /\ in \in Buffer
    /\ out \in Seq(Token)
    /\ outbuf \in Seq(Token) /\ Len(outbuf) < DEFLATE_CHUNK_SIZE
    /\ first \in BOOLEAN
    /\ flush \in Flushes
    /\ pc \in {"idle", "segment", "deflate", "skip"}
    /\ output_buffer_ \in Seq(Token)
    /\ output_eos_ \in BOOLEAN

(* DeflatePipe::DeflatePipe(): deflateInit has given a stream.  When it
   cannot, the constructor HALTs and there is no pipe. *)
DeflateInit ==
    /\ stream_ = [status |-> "busy", next_in |-> <<>>, pending |-> <<>>]
    /\ in = <<>>
    /\ out = <<>>
    /\ outbuf = <<>>
    /\ first = TRUE
    /\ flush = "Z_NO_FLUSH"
    /\ pc = "idle"
    /\ output_buffer_ = <<>>
    /\ output_eos_ = FALSE

(* deflate(&stream_, fl) with room for `room` bytes: the results it can
   have, each the value returned, what was written and the stream after
   it.  It takes k bytes of the input and writes m of what is pending; it
   stops short of the input only when the room is used up, and with a
   flush it stops short of what is pending only then.  A flush ends in a
   mark, Z_FINISH in the end of the stream, and Z_STREAM_END is returned
   when all of that is written.  A stream that has ended takes nothing. *)
deflate(strm, fl, room) ==
    LET avail_in == Len(strm.next_in)
        mark(k) == CASE k = avail_in /\ fl = "Z_SYNC_FLUSH" -> <<SyncMark>>
                     [] k = avail_in /\ fl = "Z_FINISH" /\ strm.status = "busy" -> <<EndMark>>
                     [] OTHER -> <<>>
        all(k) == strm.pending \o SubSeq(strm.next_in, 1, k) \o mark(k)
        ended(k, m) == fl = "Z_FINISH" /\ k = avail_in /\ m = Len(all(k))
        result(k, m) ==
            [error |-> IF ended(k, m) THEN "Z_STREAM_END" ELSE "Z_OK",
             written |-> SubSeq(all(k), 1, m),
             stream |-> [status |-> CASE ended(k, m) -> "finished"
                                      [] fl = "Z_FINISH" -> "finishing"
                                      [] OTHER -> strm.status,
                         next_in |-> SubSeq(strm.next_in, k + 1, avail_in),
                         pending |-> SubSeq(all(k), m + 1, Len(all(k)))]]
    IN  CASE strm.status = "finished" /\ fl = "Z_FINISH" /\ avail_in = 0 ->
                {[error |-> "Z_STREAM_END", written |-> <<>>, stream |-> strm]}
          [] strm.status # "busy" /\ fl # "Z_FINISH" ->
                {[error |-> "Z_STREAM_ERROR", written |-> <<>>, stream |-> strm]}
          [] OTHER ->
                {result(k, m) : <<k, m>> \in
                    {km \in (0..avail_in) \X (0..room) :
                        /\ km[2] <= Len(all(km[1]))
                        /\ km[2] < room => km[1] = avail_in
                        /\ km[2] < room /\ fl # "Z_NO_FLUSH" => km[2] = Len(all(km[1]))}}

(* consume(in), up to the loop: a new output buffer, outbuf empty. *)
consume(buf) ==
    /\ pc = "idle"
    /\ in' = buf
    /\ out' = <<>>
    /\ outbuf' = <<>>
    /\ first' = TRUE
    /\ pc' = "segment"
    /\ UNCHANGED <<stream_, flush, producerVars>>

(* With no segment left, the stream is finished when the input was empty
   from the start, and flushed otherwise. *)
flushAlways == "Z_SYNC_FLUSH"

flushAtEnd == IF first THEN "Z_FINISH" ELSE "Z_SYNC_FLUSH"

(* The head of the outer loop: the next segment of the input is what
   deflate is given; when there is none, it is given nothing and told to
   flush. *)
NextSegment ==
    /\ pc = "segment"
    /\ IF in = <<>>
       THEN /\ flush' = flushAtEnd
            /\ stream_' = [stream_ EXCEPT !.next_in = <<>>]
            /\ UNCHANGED first
       ELSE /\ flush' = "Z_NO_FLUSH"
            /\ first' = FALSE
            /\ stream_' = [stream_ EXCEPT !.next_in = Head(in)]
    /\ pc' = "deflate"
    /\ UNCHANGED <<in, out, outbuf, producerVars, sinkVars, linkVars, inputVars, outputVars>>

(* One pass of the inner loop: deflate is called.  With input, room left
   and Z_OK the segment is done with.  Otherwise outbuf goes to the output
   buffer; then a segment is done with, a flush that returned Z_OK and a
   finish that returned Z_STREAM_END produce and return, and anything else
   calls deflate again.  consume() returns to PipeProducer::input(), which
   schedules its callback with Done. *)
DeflateProduceAll(o) ==
    LET buf == out \o outbuf \o o.written IN
    /\ outbuf' = <<>>
    /\ CASE flush = "Z_NO_FLUSH" ->
               /\ out' = buf
               /\ pc' = "skip"
               /\ UNCHANGED <<producerVars, input_events>>
         [] flush = "Z_SYNC_FLUSH" /\ o.error = "Z_OK" ->
               /\ out' = <<>>
               /\ pc' = "idle"
               /\ IF buf # <<>> THEN produce(buf) ELSE UNCHANGED producerVars
               /\ input_events' = Append(input_events, "Done")
         [] flush = "Z_FINISH" /\ o.error = "Z_STREAM_END" ->
               /\ out' = <<>>
               /\ pc' = "idle"
               /\ produce_eos(buf)
               /\ input_events' = Append(input_events, "Done")
         [] OTHER ->
               /\ out' = buf
               /\ pc' = "deflate"
               /\ UNCHANGED <<producerVars, input_events>>

Deflate ==
    /\ pc = "deflate"
    /\ \E o \in deflate(stream_, flush, avail_out) :
          /\ stream_' = o.stream
          /\ IF /\ o.error = "Z_OK"
                /\ DEFLATE_CHUNK_SIZE - Len(outbuf \o o.written) > 0
                /\ flush = "Z_NO_FLUSH"
             THEN /\ outbuf' = outbuf \o o.written
                  /\ pc' = "skip"
                  /\ UNCHANGED <<out, producerVars, input_events>>
             ELSE DeflateProduceAll(o)
    /\ UNCHANGED <<in, first, flush, sinkVars, linkVars, fed, closed, outputVars>>

(* The end of the outer loop: what deflate took of the segment is skipped. *)
SkipWhole == Tail(in)

SkipTaken ==
    IF stream_.next_in = <<>> THEN Tail(in) ELSE <<stream_.next_in>> \o Tail(in)

Skip ==
    /\ pc = "skip"
    /\ in' = SkipTaken
    /\ pc' = "segment"
    /\ UNCHANGED <<stream_, out, outbuf, first, flush, producerVars, sinkVars, linkVars,
                   inputVars, outputVars>>

(* DeflatePipe::~DeflatePipe(): deflateEnd frees the stream; the error it
   returns when the stream had not come to its end is logged. *)
DeflatePipeDelete ==
    /\ destroyed
    /\ pc = "idle"
    /\ stream_.status # "ended"
    /\ stream_' = [stream_ EXCEPT !.status = "ended"]
    /\ UNCHANGED <<in, out, outbuf, first, flush, pc, producerVars, sinkVars, linkVars,
                   inputVars, outputVars>>

(* What of the input deflate has not taken yet. *)
Unread ==
    IF pc \in {"deflate", "skip"} /\ flush = "Z_NO_FLUSH"
    THEN stream_.next_in \o FlattenSeq(Tail(in))
    ELSE FlattenSeq(in)

(* What deflate has made of the input and the pipe has not given out yet,
   in the order it will go out. *)
InDeflate == output_buffer_ \o out \o outbuf \o stream_.pending
=============================================================================
