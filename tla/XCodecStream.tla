---------------------------- MODULE XCodecStream ----------------------------
(***************************************************************************)
(* One decoder and whatever its peer may send: any sequence of well-framed *)
(* tokens, in any order, a correct encoder's or not, read in pieces of any *)
(* size.  What decode() makes of it is compared with what the stream       *)
(* means, token by token, to a reader that never has to wait.              *)
(***************************************************************************)
EXTENDS XCodecDecoder

CONSTANTS
    Forgers,    \* the peers that send whatever they like
    Tokens,     \* the tokens they may send, each as its bytes
    MaxTokens   \* MaxTokens[p]: how many of them forger p sends

ASSUME /\ Forgers \subseteq Peers \ WithEncoder
       /\ MaxTokens \in [Forgers -> Nat]

vars == <<encoderVars, decoderVars>>

Init == EncoderInit /\ DecoderInit

(* A forger puts one more token on its wire.  A behaviour follows one      *)
(* forger and the decoder that reads it.                                   *)
Forge(p) ==
    /\ Len(tokens[p]) < MaxTokens[p]
    /\ \A q \in Forgers \ {p} : tokens[q] = <<>>
    /\ \E token \in Tokens : Write(p, <<token>>)
    /\ UNCHANGED <<cache, greeted, ewindow, sent, decoderVars>>

Next ==
    \/ \E p \in Forgers : Forge(p)
    \/ \E p \in Peers \ Forgers : DecoderConsume(p) \/ Decode(p)

(* A call of decode() runs on: nothing but its own return ends it. *)
Spec == Init /\ [][Next]_vars /\ \A p \in Peers \ Forgers : WF_vars(Decode(p))

(* The tokens sent to the decoder of p so far. *)
fed(p) == tokens[Remote[p]]

-----------------------------------------------------------------------------
(* What a stream of tokens means. *)

IsToken(token, ops) == IsMagic(token[1]) /\ token[2] \in ops

Argument(token) == SubSeq(token, 3, Len(token))

(* The segment each fingerprint names: the cache is first writer wins, so  *)
(* it is what the cache held at the start, then the first segment taught.  *)
Dictionary(p) ==
    LET Teach(dict, token) ==
            IF /\ IsToken(token, {XCODEC_OP_EXTRACT, XCODEC_OP_LEARN})
               /\ Hash(Argument(token)) \notin DOMAIN dict
            THEN CacheEnter(dict, Hash(Argument(token)), Argument(token))
            ELSE dict
    IN  FoldLeft(Teach, InitialCache[p], fed(p))

(* The bytes the tokens stand for and the window they leave, up to the     *)
(* first token that has no meaning.                                        *)
Meaning(p) ==
    LET dict == Dictionary(p)
        Emit(st, seg) ==
            [st EXCEPT !.out = @ \o seg, !.win = WindowDeclare(@, seg)]
        Read(st, token) ==
            LET arg == Argument(token) IN
            CASE ~IsMagic(token[1]) -> [st EXCEPT !.out = @ \o token]
              [] token = EscapeToken -> [st EXCEPT !.out = @ \o <<XCODEC_MAGIC>>]
              [] token = HelloToken -> st
              [] IsToken(token, {XCODEC_OP_LEARN, XCODEC_OP_ASK}) -> st
              [] IsToken(token, {XCODEC_OP_EXTRACT}) /\ ~Collides(dict, arg) ->
                    Emit(st, arg)
              [] /\ IsToken(token, {XCODEC_OP_REF})
                 /\ BigEndianDecode(arg) \in DOMAIN dict ->
                    Emit(st, dict[BigEndianDecode(arg)])
              [] /\ IsToken(token, {XCODEC_OP_BACKREF})
                 /\ WindowHas(st.win, arg[1]) ->
                    [st EXCEPT !.out = @ \o WindowDereference(st.win, arg[1])]
              [] OTHER -> [st EXCEPT !.stopped = TRUE]
        Step(st, token) == IF st.stopped THEN st ELSE Read(st, token)
    IN  FoldLeft(Step, [out |-> <<>>, win |-> <<>>, stopped |-> FALSE], fed(p))

(* The decoder has read everything sent and holds nothing back. *)
Settled(p) ==
    /\ wire[Remote[p]] = <<>>
    /\ input[p] = <<>>
    /\ queued[p] = <<>>
    /\ status[p] = "idle"

(* Ordering: what decode() has put out is the beginning of what the stream *)
(* means.  Whatever follows a REF the cache cannot resolve waits in        *)
(* queued_, token by token, until an EXTRACT or LEARN has taught the       *)
(* segment, and comes out behind it once the queue is parsed again.        *)
InOrder == \A p \in Peers \ Forgers : IsPrefix(output[p], Meaning(p).out)

(* Nothing is lost or kept: a decoder that has read all that was sent and  *)
(* holds nothing in queued_ has put out all the stream means, every token  *)
(* had a meaning, and window_ is the window the tokens leave.              *)
DecodesAll ==
    \A p \in Peers \ Forgers :
        Settled(p) => /\ output[p] = Meaning(p).out
                      /\ window[p] = Meaning(p).win
                      /\ ~Meaning(p).stopped

(* Every call of decode() returns: parsing the queue again after the last  *)
(* outstanding hash was taught does not go round for ever.                 *)
DecodeReturns ==
    \A p \in Peers \ Forgers : status[p] = "decoding" ~> status[p] # "decoding"
=============================================================================
