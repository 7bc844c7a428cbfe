--------------------------- MODULE XCodecPipePair ---------------------------
(***************************************************************************)
(* Two proxies joined by a connection.  Each has the encoder and the       *)
(* decoder its XCodecPipePair binds together (src/xcodec/                  *)
(* xcodec_pipe_pair.h): application data goes through the encoder onto the *)
(* wire, the bytes of the wire go through the peer's decoder, and the ASK  *)
(* and LEARN a decoder hands to its own encoder travel in the same stream  *)
(* as that encoder's data.                                                 *)
(*                                                                         *)
(* The wire is a TCP stream: nothing is lost or reordered, and a read      *)
(* returns any number of the bytes that are waiting, so a token can reach  *)
(* the decoder in pieces.                                                  *)
(***************************************************************************)
EXTENDS XCodecDecoder

CONSTANTS
    Data,       \* the bytes the application data has outside segments
    Segments,   \* the segments the application data contains
    MaxSend     \* MaxSend[p]: how many bytes p's application sends

ASSUME /\ \A p \in Peers : Remote[p] # p /\ Remote[Remote[p]] = p
       /\ Data \subseteq Byte
       /\ \A seg \in Segments : Len(seg) = XCODEC_SEGMENT_LENGTH
       /\ MaxSend \in [Peers -> Nat]

vars == <<encoderVars, decoderVars>>

(* The constructor: no decoder state, no encoder output. *)
Init == EncoderInit /\ DecoderInit

(* encoder_consume: the next item of p's application data is encoded.  It  *)
(* runs on the event loop of the pair, so never inside a call of decode(). *)
EncoderConsume(p) ==
    /\ p \in WithEncoder
    /\ status[p] # "decoding"
    /\ \/ \E byte \in Data :
            /\ Len(sent[p]) + 1 <= MaxSend[p]
            /\ EncodeLiteral(p, byte)
       \/ \E seg \in Segments :
            /\ Len(sent[p]) + Len(seg) <= MaxSend[p]
            /\ EncodeSegment(p, seg)
    /\ UNCHANGED decoderVars

Next ==
    \E p \in Peers :
        \/ EncoderConsume(p)
        \/ DecoderConsume(p)
        \/ Decode(p)

Spec == Init /\ [][Next]_vars

-----------------------------------------------------------------------------
(* Round trip: each direction of the connection is a pipe of bytes.  What *)
(* the decoder of one proxy puts out is, byte for byte and in order, the   *)
(* beginning of what the application gave the encoder of the other; it     *)
(* only grows, and at its end.  This is what the escaping of MAGIC, the    *)
(* two windows kept in step and the queue of decode() are for.             *)
Pipe == INSTANCE ByteStream
            WITH Pipes <- Peers,
                 written <- sent,
                 delivered <- [p \in Peers |-> output[Remote[p]]]

RoundTrip == Pipe!Spec

(* Nothing of the stream from p is under way or held back at its peer. *)
CaughtUp(p) ==
    /\ wire[p] = <<>>
    /\ input[Remote[p]] = <<>>
    /\ queued[Remote[p]] = <<>>
    /\ status[Remote[p]] = "idle"

(* Backref-window equivalence: when a decoder has caught up with the       *)
(* peer's encoder, its window_ is the encoder's window, so an index means  *)
(* the same segment to both.  decode() declares on EXTRACT and REF, in     *)
(* stream order, and only once the token is no longer queued.              *)
WindowLockstep ==
    \A p \in Peers : CaughtUp(p) => window[Remote[p]] = ewindow[p]

(* A decoder asks only for what its peer can teach: every fingerprint in   *)
(* asked_ is one the peer's cache knows, so the ASK for it is answered     *)
(* with a LEARN and not with "Unknown hash in <ASK>".  The fingerprint     *)
(* comes out of a REF, through BigEndian::decode, and goes into the ASK.   *)
AskedIsTeachable ==
    \A p \in Peers : asked[p] \subseteq DOMAIN cache[Remote[p]]

(* A call of decode() returns true or false: the comment above it promises *)
(* true when it expects "to be able to finish processing it once more      *)
(* data arrives", and its last statement asserts that it left no input.    *)
DecodeNeverAsserts == \A p \in Peers : status[p] # "halted"

(* A LEARN teaches the segment it carries: once decode() is past the       *)
(* token, the cache holds the segment under its fingerprint and the        *)
(* fingerprint is no longer in asked_, which is how a blocked stream       *)
(* resumes.                                                                *)
LearnTeaches ==
    [][\A p \in Peers :
          LET seg == Payload(p, XCODEC_SEGMENT_LENGTH) IN
          /\ Parsing(p, XCODEC_OP_LEARN)
          /\ input'[p] # input[p]
          /\ status'[p] = "decoding"
          => /\ Hash(seg) \in DOMAIN cache'[p]
             /\ cache'[p][Hash(seg)] = seg
             /\ Hash(seg) \notin asked'[p]]_vars
=============================================================================
