----------------------------- MODULE ByteStream -----------------------------
(***************************************************************************)
(* What an encoder, a wire and a decoder promise together: a pipe of       *)
(* bytes, one for each direction of each connection.  What has come out of *)
(* a pipe is always the beginning of what has gone in, it only ever grows, *)
(* and it grows at its end.                                                *)
(***************************************************************************)
EXTENDS Sequences, SequencesExt

CONSTANT Pipes

VARIABLES
    written,    \* written[p]: the bytes put into pipe p so far
    delivered   \* delivered[p]: the bytes that have come out of it so far

vars == <<written, delivered>>

Init ==
    /\ written = [p \in Pipes |-> <<>>]
    /\ delivered = [p \in Pipes |-> <<>>]

(* More bytes are put in behind those already there. *)
Write(p) ==
    /\ IsStrictPrefix(written[p], written'[p])
    /\ \A q \in Pipes \ {p} : written'[q] = written[q]
    /\ UNCHANGED delivered

(* The next bytes that were put in come out. *)
Deliver(p) ==
    /\ IsStrictPrefix(delivered[p], delivered'[p])
    /\ IsPrefix(delivered'[p], written[p])
    /\ \A q \in Pipes \ {p} : delivered'[q] = delivered[q]
    /\ UNCHANGED written

Next == \E p \in Pipes : Write(p) \/ Deliver(p)

Spec == Init /\ [][Next]_vars
=============================================================================
