---------------------------- MODULE XCodecEncoder ----------------------------
(***************************************************************************)
(* The encoder of every peer, and the cache it shares with the decoder of  *)
(* the same peer.  The encoder's source is not part of src/: it is         *)
(* modelled from the design document (sections 4.2 to 4.4), at the level   *)
(* the decoder sees it: the tokens it puts on the wire, in order.          *)
(*                                                                         *)
(* The scan of the input with the rolling hash is abstracted to its        *)
(* result: the application data reaches the encoder as a sequence of       *)
(* items, each a single byte that no segment covers or a whole segment.    *)
(***************************************************************************)
EXTENDS XCodec

CONSTANTS
    Peers,              \* the proxies of a connection
    WithEncoder,        \* the peers whose decoder was given an encoder
    InitialCache,       \* what each peer's cache holds when the connection opens
    DeclareOnBackref    \* TRUE: the encoder declares a segment again when it
                        \* emits a BACKREF for it (section 4.4, step 3)

ASSUME /\ WithEncoder \subseteq Peers
       /\ DeclareOnBackref \in BOOLEAN

VARIABLES
    cache,      \* cache[p]: fingerprint -> segment, shared by p's encoder and decoder
    wire,       \* wire[p]: the bytes p's encoder has written and its peer has not read
    greeted,    \* greeted[p]: p's encoder has emitted its HELLO
    ewindow,    \* ewindow[p]: the encoder's backref window
    sent,       \* sent[p]: the application bytes p's encoder has encoded so far
    tokens      \* tokens[p]: the tokens p has put on the wire so far

encoderVars == <<cache, wire, greeted, ewindow, sent, tokens>>

EncoderInit ==
    /\ cache = InitialCache
    /\ wire = [p \in Peers |-> <<>>]
    /\ greeted = [p \in Peers |-> FALSE]
    /\ ewindow = [p \in Peers |-> <<>>]
    /\ sent = [p \in Peers |-> <<>>]
    /\ tokens = [p \in Peers |-> <<>>]

(* Tokens go onto the wire whole, one behind the other. *)
Write(p, toks) ==
    /\ wire' = [wire EXCEPT ![p] = @ \o FlattenSeq(toks)]
    /\ tokens' = [tokens EXCEPT ![p] = @ \o toks]

(* Whatever the encoder emits first is preceded by its HELLO. *)
Transmit(p, toks) ==
    /\ Write(p, (IF greeted[p] THEN <<>> ELSE <<HelloToken>>) \o toks)
    /\ greeted' = [greeted EXCEPT ![p] = TRUE]

(* The two calls the decoder makes on its encoder. *)
encode_ask(p, hash) == Transmit(p, <<AskToken(hash)>>)

encode_learn(p, seg) == Transmit(p, <<LearnToken(seg)>>)

Encoded(p, bytes) == sent' = [sent EXCEPT ![p] = @ \o bytes]

(* A byte outside every segment travels as a literal. *)
EncodeLiteral(p, byte) ==
    /\ Transmit(p, <<Literal(byte)>>)
    /\ Encoded(p, <<byte>>)
    /\ UNCHANGED <<cache, ewindow>>

(* A segment the cache knows and the window still holds: BACKREF. *)
EncodeBackref(p, seg) ==
    /\ Hash(seg) \in DOMAIN cache[p]
    /\ cache[p][Hash(seg)] = seg
    /\ WindowPresent(ewindow[p], Hash(seg))
    /\ Transmit(p, <<BackrefToken(WindowIndexOf(ewindow[p], Hash(seg)))>>)
    /\ ewindow' = [ewindow EXCEPT ![p] =
                      IF DeclareOnBackref THEN WindowDeclare(@, seg) ELSE @]
    /\ Encoded(p, seg)
    /\ UNCHANGED cache

(* A segment the cache knows and the window has lost: REF. *)
EncodeRef(p, seg) ==
    /\ Hash(seg) \in DOMAIN cache[p]
    /\ cache[p][Hash(seg)] = seg
    /\ ~WindowPresent(ewindow[p], Hash(seg))
    /\ Transmit(p, <<RefToken(Hash(seg))>>)
    /\ ewindow' = [ewindow EXCEPT ![p] = WindowDeclare(@, seg)]
    /\ Encoded(p, seg)
    /\ UNCHANGED cache

(* A segment under a fingerprint the cache does not know: EXTRACT. *)
EncodeExtract(p, seg) ==
    /\ Hash(seg) \notin DOMAIN cache[p]
    /\ Transmit(p, <<ExtractToken(seg)>>)
    /\ cache' = [cache EXCEPT ![p] = CacheEnter(@, Hash(seg), seg)]
    /\ ewindow' = [ewindow EXCEPT ![p] = WindowDeclare(@, seg)]
    /\ Encoded(p, seg)

(* A segment whose fingerprint names another segment travels as literals. *)
EncodeCollision(p, seg) ==
    /\ Collides(cache[p], seg)
    /\ Transmit(p, Literals(seg))
    /\ Encoded(p, seg)
    /\ UNCHANGED <<cache, ewindow>>

EncodeSegment(p, seg) ==
    \/ EncodeBackref(p, seg)
    \/ EncodeRef(p, seg)
    \/ EncodeExtract(p, seg)
    \/ EncodeCollision(p, seg)
=============================================================================
