-------------------------- MODULE MCXCodecPipePair --------------------------
(* A connection of two proxies, small enough to check. *)
EXTENDS XCodecPipePair

CONSTANTS a, b

(* Two-byte segments.  P and Q have the same fingerprint and both caches   *)
(* hold P under it; R is known to a alone, so b has to ask for it; N is    *)
(* new to both.                                                            *)
P == <<10, 30>>
Q == <<30, 10>>
R == <<4, 241>>
N == <<7, 8>>

MCSegments == {P, Q, R, N}

MCPeers == {a, b}

MCRemote == (a :> b) @@ (b :> a)

(* The fingerprint of the model: the sum of the bytes, which rolls. *)
MCHash(seg) == FoldLeft(+, 0, seg)

MCInitialCache ==
    [p \in MCPeers |->
        [h \in {MCHash(P)} \cup (IF p = a THEN {MCHash(R)} ELSE {}) |->
            IF h = MCHash(P) THEN P ELSE R]]

MCMaxSend == (a :> 6) @@ (b :> 0)
==============================================================================
