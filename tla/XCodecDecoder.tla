---------------------------- MODULE XCodecDecoder ----------------------------
(***************************************************************************)
(* XCodecDecoder::decode of src/xcodec/xcodec_decoder.cc, for the decoder  *)
(* of every peer.  A call of decode() is a run of steps: status[p] is      *)
(* "decoding" from the moment the caller hands it new input until one of   *)
(* its exits is taken.  Each step is one pass of the for (;;) loop: the    *)
(* handling of queued data at its top, the literal bytes before the next   *)
(* MAGIC, or the case of the switch for the opcode that follows it.        *)
(*                                                                         *)
(*   "idle"      decode() returned true: everything parsed, or the rest    *)
(*               of a token is awaited and stays in input                  *)
(*   "error"     decode() returned false: the stream is torn down          *)
(*   "halted"    the ASSERT that ends decode() failed                      *)
(***************************************************************************)
EXTENDS XCodecEncoder

CONSTANT Remote     \* Remote[p]: the peer whose encoder writes to p's decoder

ASSUME Remote \in [Peers -> Peers]

VARIABLES
    input,      \* input[p]: the caller's buffer, what decode() has not parsed
    queued,     \* queued_: the stream from the first unresolved REF on
    asked,      \* asked_: the fingerprints an ASK is outstanding for
    window,     \* window_: the decoder's backref window
    output,     \* every byte decode() has appended to its output
    status      \* where the decoder of p stands (see above)

decoderVars == <<input, queued, asked, window, output, status>>

DecoderInit ==
    /\ input = [p \in Peers |-> <<>>]
    /\ queued = [p \in Peers |-> <<>>]
    /\ asked = [p \in Peers |-> {}]
    /\ window = [p \in Peers |-> <<>>]
    /\ output = [p \in Peers |-> <<>>]
    /\ status = [p \in Peers |-> "idle"]

IsBuffer(b) == b \in Seq(Byte)

IsSegment(s) == IsBuffer(s) /\ Len(s) = XCODEC_SEGMENT_LENGTH

IsWindow(w) ==
    /\ Len(w) <= XCODEC_WINDOW_COUNT
    /\ \A i \in 1..Len(w) : IsSegment(w[i])

TypeOK ==
    \A p \in Peers :
        /\ \A h \in DOMAIN cache[p] : h \in Nat /\ IsSegment(cache[p][h])
        /\ IsBuffer(wire[p]) /\ IsBuffer(sent[p])
        /\ \A i \in 1..Len(tokens[p]) : IsBuffer(tokens[p][i])
        /\ IsBuffer(input[p]) /\ IsBuffer(queued[p]) /\ IsBuffer(output[p])
        /\ greeted[p] \in BOOLEAN
        /\ IsWindow(ewindow[p]) /\ IsWindow(window[p])
        /\ asked[p] \subseteq Nat
        /\ status[p] \in {"idle", "decoding", "error", "halted"}

-----------------------------------------------------------------------------
Blocked(p) == queued[p] # <<>>

(* The test at the top of the loop: queued data and nothing asked for. *)
QueuedReady(p) == Blocked(p) /\ asked[p] = {}

IsMagic(byte) == byte = XCODEC_MAGIC

(* The bytes a token needs before its case of the switch goes on. *)
Needed(buf, blocked) ==
    LET op == buf[2] IN
    CASE op = XCODEC_OP_HELLO ->
            IF Len(buf) < 3 \/ blocked THEN 3 ELSE 3 + buf[3]
      [] op \in {XCODEC_OP_EXTRACT, XCODEC_OP_LEARN} -> 2 + XCODEC_SEGMENT_LENGTH
      [] op \in {XCODEC_OP_REF, XCODEC_OP_ASK} -> 2 + HASH_SIZE
      [] op = XCODEC_OP_BACKREF -> 3
      [] OTHER -> 2

(* A pass of the loop that has found MAGIC at offset 0 and an opcode. *)
AtToken(p) ==
    /\ status[p] = "decoding"
    /\ ~QueuedReady(p)
    /\ Len(input[p]) >= 2
    /\ IsMagic(input[p][1])

(* The switch is in the case of op and the whole token has arrived. *)
Parsing(p, op) ==
    /\ AtToken(p)
    /\ input[p][2] = op
    /\ Len(input[p]) >= Needed(input[p], Blocked(p))

Skip(p, n) == input' = [input EXCEPT ![p] = SubSeq(@, n + 1, Len(@))]

Payload(p, n) == SubSeq(input[p], 3, 2 + n)

(* Output if nothing is queued, and the queue otherwise. *)
Produce(p, bytes, token) ==
    \/ /\ ~Blocked(p)
       /\ output' = [output EXCEPT ![p] = @ \o bytes]
       /\ UNCHANGED queued
    \/ /\ Blocked(p)
       /\ queued' = [queued EXCEPT ![p] = @ \o token]
       /\ UNCHANGED output

(* window_.declare, which only the unblocked branch calls. *)
Declare(p, seg) ==
    window' = [window EXCEPT ![p] =
                  IF Blocked(p) THEN @ ELSE WindowDeclare(@, seg)]

(* return (false), with the n bytes the case had taken out of the input. *)
Fail(p, n) ==
    /\ status' = [status EXCEPT ![p] = "error"]
    /\ Skip(p, n)
    /\ UNCHANGED <<queued, asked, window, output, encoderVars>>

-----------------------------------------------------------------------------
(* HandleQueued with the queue put behind the input instead of before it. *)
HandleQueuedBehind(p) ==
    /\ status[p] = "decoding"
    /\ QueuedReady(p)
    /\ input' = [input EXCEPT ![p] = @ \o queued[p]]
    /\ queued' = [queued EXCEPT ![p] = <<>>]
    /\ UNCHANGED <<asked, window, output, status, encoderVars>>

(* Queued data and no outstanding hashes: the queue goes back in front of  *)
(* the input.                                                              *)
HandleQueued(p) ==
    /\ status[p] = "decoding"
    /\ QueuedReady(p)
    /\ input' = [input EXCEPT ![p] = queued[p] \o @]
    /\ queued' = [queued EXCEPT ![p] = <<>>]
    /\ UNCHANGED <<asked, window, output, status, encoderVars>>

(* The input is used up: the loop ends and decode() returns true. *)
DecodeDone(p) ==
    /\ status[p] = "decoding"
    /\ ~QueuedReady(p)
    /\ input[p] = <<>>
    /\ status' = [status EXCEPT ![p] = "idle"]
    /\ UNCHANGED <<input, queued, asked, window, output, encoderVars>>

(* DecodeData that appends to the output whether or not data is queued. *)
DecodeDataUnqueued(p) ==
    /\ status[p] = "decoding"
    /\ ~QueuedReady(p)
    /\ input[p] # <<>>
    /\ ~IsMagic(input[p][1])
    /\ LET found == SelectInSeq(input[p], IsMagic)
           off   == IF found = 0 THEN Len(input[p]) ELSE found - 1
       IN  /\ output' = [output EXCEPT ![p] = @ \o SubSeq(input[p], 1, off)]
           /\ Skip(p, off)
           /\ status' = [status EXCEPT ![p] =
                            IF found = 0 THEN "idle" ELSE "decoding"]
    /\ UNCHANGED <<queued, asked, window, encoderVars>>

(* The bytes before the next MAGIC, or all of them if there is none, are   *)
(* data; without a MAGIC the loop ends.                                    *)
DecodeData(p) ==
    /\ status[p] = "decoding"
    /\ ~QueuedReady(p)
    /\ input[p] # <<>>
    /\ ~IsMagic(input[p][1])
    /\ LET found == SelectInSeq(input[p], IsMagic)
           off   == IF found = 0 THEN Len(input[p]) ELSE found - 1
           data  == SubSeq(input[p], 1, off)
       IN  /\ Produce(p, data, data)
           /\ Skip(p, off)
           /\ status' = [status EXCEPT ![p] =
                            IF found = 0 THEN "idle" ELSE "decoding"]
    /\ UNCHANGED <<asked, window, encoderVars>>

(* MAGIC is the last byte there is: the loop is left by break, with the    *)
(* byte still in the input, and ASSERT(input->empty()) fails.              *)
DecodeLoneMagic(p) ==
    /\ status[p] = "decoding"
    /\ ~QueuedReady(p)
    /\ input[p] = <<XCODEC_MAGIC>>
    /\ status' = [status EXCEPT ![p] = "halted"]
    /\ UNCHANGED <<input, queued, asked, window, output, encoderVars>>

(* DecodeIncomplete that leaves the switch by break and not by return. *)
DecodeIncompleteBreak(p) ==
    /\ AtToken(p)
    /\ Len(input[p]) < Needed(input[p], Blocked(p))
    /\ UNCHANGED <<decoderVars, encoderVars>>

(* A token that is not all there yet: return (true), the input kept. *)
DecodeIncomplete(p) ==
    /\ AtToken(p)
    /\ Len(input[p]) < Needed(input[p], Blocked(p))
    /\ status' = [status EXCEPT ![p] = "idle"]
    /\ UNCHANGED <<input, queued, asked, window, output, encoderVars>>

-----------------------------------------------------------------------------
(* case XCODEC_OP_HELLO *)
DecodeHello(p) ==
    /\ Parsing(p, XCODEC_OP_HELLO)
    /\ \/ Blocked(p) /\ Fail(p, 0)
       \/ ~Blocked(p) /\ input[p][3] # 0 /\ Fail(p, 0)
       \/ /\ ~Blocked(p)
          /\ input[p][3] = 0
          /\ Skip(p, 3)
          /\ UNCHANGED <<queued, asked, window, output, status, encoderVars>>

(* case XCODEC_OP_ESCAPE *)
DecodeEscape(p) ==
    /\ Parsing(p, XCODEC_OP_ESCAPE)
    /\ Produce(p, <<XCODEC_MAGIC>>, EscapeToken)
    /\ Skip(p, 2)
    /\ UNCHANGED <<asked, window, status, encoderVars>>

(* case XCODEC_OP_EXTRACT *)
DecodeExtract(p) ==
    /\ Parsing(p, XCODEC_OP_EXTRACT)
    /\ LET seg == Payload(p, XCODEC_SEGMENT_LENGTH) IN
       \/ Collides(cache[p], seg) /\ Fail(p, 2 + XCODEC_SEGMENT_LENGTH)
       \/ /\ ~Collides(cache[p], seg)
          /\ cache' = [cache EXCEPT ![p] = CacheEnter(@, Hash(seg), seg)]
          /\ asked' = [asked EXCEPT ![p] = @ \ {Hash(seg)}]
          /\ Declare(p, seg)
          /\ Produce(p, seg, ExtractToken(seg))
          /\ Skip(p, 2 + XCODEC_SEGMENT_LENGTH)
          /\ UNCHANGED <<status, wire, greeted, ewindow, sent, tokens>>

(* A REF the cache resolves: the segment is declared and put out, or the   *)
(* token queued as it came.                                                *)
RefKnown(p, hash) ==
    /\ hash \in DOMAIN cache[p]
    /\ Declare(p, cache[p][hash])
    /\ Produce(p, cache[p][hash], SubSeq(input[p], 1, 2 + HASH_SIZE))
    /\ Skip(p, 2 + HASH_SIZE)
    /\ UNCHANGED <<asked, status, encoderVars>>

(* A REF the cache does not resolve: without an encoder an error, with one *)
(* an ASK unless one is outstanding, and the stream queues from here on.   *)
RefUnknown(p, hash) ==
    /\ hash \notin DOMAIN cache[p]
    /\ \/ p \notin WithEncoder /\ Fail(p, 2 + HASH_SIZE)
       \/ /\ p \in WithEncoder
          /\ \/ hash \notin asked[p] /\ encode_ask(p, hash)
             \/ hash \in asked[p] /\ UNCHANGED <<wire, greeted, tokens>>
          /\ asked' = [asked EXCEPT ![p] = @ \cup {hash}]
          /\ queued' = [queued EXCEPT ![p] =
                            @ \o SubSeq(input[p], 1, 2 + HASH_SIZE)]
          /\ Skip(p, 2 + HASH_SIZE)
          /\ UNCHANGED <<window, output, status, cache, ewindow, sent>>

(* DecodeRef that takes the bytes of the fingerprint in host order. *)
DecodeRefHostOrder(p) ==
    /\ Parsing(p, XCODEC_OP_REF)
    /\ LET hash == BigEndianDecode(Reverse(Payload(p, HASH_SIZE))) IN
       RefKnown(p, hash) \/ RefUnknown(p, hash)

(* DecodeRef that puts a known segment out without declaring it. *)
DecodeRefUndeclared(p) ==
    /\ Parsing(p, XCODEC_OP_REF)
    /\ LET hash == BigEndianDecode(Payload(p, HASH_SIZE)) IN
       \/ RefUnknown(p, hash)
       \/ /\ hash \in DOMAIN cache[p]
          /\ Produce(p, cache[p][hash], SubSeq(input[p], 1, 2 + HASH_SIZE))
          /\ Skip(p, 2 + HASH_SIZE)
          /\ UNCHANGED <<asked, window, status, encoderVars>>

(* case XCODEC_OP_REF *)
DecodeRef(p) ==
    /\ Parsing(p, XCODEC_OP_REF)
    /\ LET hash == BigEndianDecode(Payload(p, HASH_SIZE)) IN
       RefKnown(p, hash) \/ RefUnknown(p, hash)

(* case XCODEC_OP_BACKREF *)
DecodeBackref(p) ==
    /\ Parsing(p, XCODEC_OP_BACKREF)
    /\ LET idx == input[p][3] IN
       \/ ~Blocked(p) /\ ~WindowHas(window[p], idx) /\ Fail(p, 3)
       \/ /\ Blocked(p) \/ WindowHas(window[p], idx)
          /\ Produce(p, WindowDereference(window[p], idx), BackrefToken(idx))
          /\ Skip(p, 3)
          /\ UNCHANGED <<asked, window, status, encoderVars>>

(* case XCODEC_OP_LEARN.  The segment is copied out of the front of the    *)
(* input, where MAGIC and the opcode still are, and only as many bytes as  *)
(* a segment has are skipped: the last two bytes of the token stay.        *)
DecodeLearn(p) ==
    /\ Parsing(p, XCODEC_OP_LEARN)
    /\ LET seg == SubSeq(input[p], 1, XCODEC_SEGMENT_LENGTH) IN
       \/ Collides(cache[p], seg) /\ Fail(p, XCODEC_SEGMENT_LENGTH)
       \/ /\ ~Collides(cache[p], seg)
          /\ cache' = [cache EXCEPT ![p] = CacheEnter(@, Hash(seg), seg)]
          /\ asked' = [asked EXCEPT ![p] = @ \ {Hash(seg)}]
          /\ Skip(p, XCODEC_SEGMENT_LENGTH)
          /\ UNCHANGED <<queued, window, output, status,
                         wire, greeted, ewindow, sent, tokens>>

(* case XCODEC_OP_ASK *)
DecodeAsk(p) ==
    /\ Parsing(p, XCODEC_OP_ASK)
    /\ LET hash == BigEndianDecode(Payload(p, HASH_SIZE)) IN
       \/ p \notin WithEncoder /\ Fail(p, 0)
       \/ p \in WithEncoder /\ hash \notin DOMAIN cache[p] /\ Fail(p, 2 + HASH_SIZE)
       \/ /\ p \in WithEncoder
          /\ hash \in DOMAIN cache[p]
          /\ encode_learn(p, cache[p][hash])
          /\ Skip(p, 2 + HASH_SIZE)
          /\ UNCHANGED <<queued, asked, window, output, status,
                         cache, ewindow, sent>>

(* default: an opcode the decoder does not know *)
DecodeUnsupported(p) ==
    /\ AtToken(p)
    /\ input[p][2] \notin XCODEC_OP_HELLO..XCODEC_OP_ESCAPE
    /\ Fail(p, 0)

(* decoder_consume: a read hands the decoder the next n bytes of the wire  *)
(* and decode() starts on all it has.                                      *)
DecoderConsume(p) ==
    /\ status[p] = "idle"
    /\ \E n \in 1..Len(wire[Remote[p]]) :
          /\ input' = [input EXCEPT ![p] = @ \o SubSeq(wire[Remote[p]], 1, n)]
          /\ wire' = [wire EXCEPT ![Remote[p]] = SubSeq(@, n + 1, Len(@))]
    /\ status' = [status EXCEPT ![p] = "decoding"]
    /\ UNCHANGED <<queued, asked, window, output,
                   cache, greeted, ewindow, sent, tokens>>

(* One pass of the loop of decode(). *)
Decode(p) ==
    \/ HandleQueued(p)
    \/ DecodeDone(p)
    \/ DecodeData(p)
    \/ DecodeLoneMagic(p)
    \/ DecodeIncomplete(p)
    \/ DecodeHello(p)
    \/ DecodeEscape(p)
    \/ DecodeExtract(p)
    \/ DecodeRef(p)
    \/ DecodeBackref(p)
    \/ DecodeLearn(p)
    \/ DecodeAsk(p)
    \/ DecodeUnsupported(p)
=============================================================================
