------------------------------- MODULE XCodec -------------------------------
(***************************************************************************)
(* The XCodec wire format and the two data structures every encoder and    *)
(* decoder of a proxy shares or mirrors: the dictionary cache and the      *)
(* backref window.  Everything here is a constant operator; the state      *)
(* lives in XCodecEncoder and XCodecDecoder.                               *)
(*                                                                         *)
(* Bytes are numbers 0..255 and a buffer is a sequence of bytes, because   *)
(* the decoder (src/xcodec/xcodec_decoder.cc) is a parser whose control    *)
(* depends on where a token starts, how long it is and how much of it has  *)
(* arrived.  The two lengths that only scale the data are constants: the   *)
(* code has XCODEC_SEGMENT_LENGTH = 128 and sizeof (uint64_t) = 8.         *)
(***************************************************************************)
EXTENDS Integers, Sequences, FiniteSets, SequencesExt

CONSTANTS
    XCODEC_SEGMENT_LENGTH,  \* bytes of a segment (128 in the code)
    XCODEC_WINDOW_COUNT,    \* capacity of the backref window (at most 256)
    HASH_SIZE,              \* bytes of a fingerprint on the wire (8 in the code)
    Hash(_)                 \* XCodecHash<XCODEC_SEGMENT_LENGTH>::hash

ASSUME /\ XCODEC_SEGMENT_LENGTH \in Nat \ {0, 1}
       /\ XCODEC_WINDOW_COUNT \in 1..256
       /\ HASH_SIZE \in Nat \ {0}

Byte == 0..255

XCODEC_MAGIC      == 241    \* 0xf1
XCODEC_OP_HELLO   == 0
XCODEC_OP_LEARN   == 1
XCODEC_OP_ASK     == 2
XCODEC_OP_EXTRACT == 3
XCODEC_OP_REF     == 4
XCODEC_OP_BACKREF == 5
XCODEC_OP_ESCAPE  == 6

-----------------------------------------------------------------------------
(* Fingerprints travel as HASH_SIZE bytes, most significant first. *)

BigEndianEncode(hash) ==
    [i \in 1..HASH_SIZE |-> (hash \div 256^(HASH_SIZE - i)) % 256]

BigEndianDecode(bytes) ==
    FoldLeft(LAMBDA acc, b : 256 * acc + b, 0, bytes)

(* The tokens, as the bytes an encoder puts on the wire. *)

Header(op)        == <<XCODEC_MAGIC, op>>
HelloToken        == Header(XCODEC_OP_HELLO) \o <<0>>
EscapeToken       == Header(XCODEC_OP_ESCAPE)
ExtractToken(seg) == Header(XCODEC_OP_EXTRACT) \o seg
LearnToken(seg)   == Header(XCODEC_OP_LEARN) \o seg
RefToken(hash)    == Header(XCODEC_OP_REF) \o BigEndianEncode(hash)
AskToken(hash)    == Header(XCODEC_OP_ASK) \o BigEndianEncode(hash)
BackrefToken(idx) == Header(XCODEC_OP_BACKREF) \o <<idx>>

(* Literal framing: a data byte equal to MAGIC travels as ESCAPE. *)
Literal(byte) == IF byte = XCODEC_MAGIC THEN EscapeToken ELSE <<byte>>

(* A run of data bytes, token by token. *)
Literals(bytes) == [i \in 1..Len(bytes) |-> Literal(bytes[i])]

-----------------------------------------------------------------------------
(* The dictionary cache: a function from the fingerprints it knows to      *)
(* their segments.  lookup is "hash \in DOMAIN cache" and cache[hash].     *)

CacheEnter(cache, hash, seg) ==
    [h \in DOMAIN cache \cup {hash} |-> IF h = hash THEN seg ELSE cache[h]]

(* The segment stored under the fingerprint differs from this one. *)
Collides(cache, seg) ==
    /\ Hash(seg) \in DOMAIN cache
    /\ cache[Hash(seg)] # seg

-----------------------------------------------------------------------------
(* The backref window: the segments declared last, the most recent first;  *)
(* index i of a BACKREF names element i + 1 of the sequence.               *)

WindowDeclare(window, seg) ==
    SubSeq(<<seg>> \o window, 1, Min({Len(window) + 1, XCODEC_WINDOW_COUNT}))

WindowHas(window, idx) == idx < Len(window)

WindowDereference(window, idx) == window[idx + 1]

WindowPresent(window, hash) == \E i \in 1..Len(window) : Hash(window[i]) = hash

WindowIndexOf(window, hash) ==
    Min({i \in 1..Len(window) : Hash(window[i]) = hash}) - 1
=============================================================================
