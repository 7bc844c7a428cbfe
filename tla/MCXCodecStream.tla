---------------------------- MODULE MCXCodecStream ----------------------------
(* A decoder with an encoder and one without, each with a peer that sends  *)
(* what it likes.                                                          *)
EXTENDS XCodecStream

CONSTANTS d, n, x, y

P == <<10, 30>>
Q == <<30, 10>>

MCPeers == {d, n, x, y}

MCForgers == {x, y}

(* x writes to d, which has an encoder, and y to n, which has none. *)
MCRemote == (d :> x) @@ (x :> d) @@ (n :> y) @@ (y :> n)

MCHash(seg) == FoldLeft(+, 0, seg)

MCInitialCache == [p \in MCPeers |-> <<>>]

(* Data, every kind of token but LEARN, a HELLO with an option and an      *)
(* opcode there is none of.  P and Q have one fingerprint.                 *)
MCTokens ==
    { <<7>>, EscapeToken, HelloToken, Header(XCODEC_OP_HELLO) \o <<1, 7>>,
      ExtractToken(P), ExtractToken(Q), RefToken(MCHash(P)),
      BackrefToken(0), AskToken(MCHash(P)), Header(9) }

(* The decoder without an encoder differs in its first unknown REF or ASK. *)
MCMaxTokens == (x :> 3) @@ (y :> 2)
=============================================================================
