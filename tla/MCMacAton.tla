----------------------------- MODULE MCMacAton -----------------------------
(* Addresses of six bytes, as in the code.  The strings are a well-formed  *)
(* one and what a slip makes of it: a character replaced, left out or put  *)
(* in, with a digit, an x, a colon, a blank or a sign.  MCMacAton.cfg asks       *)
(* whether the well-formed ones are taken, MCMacAtonStrict.cfg whether     *)
(* only they are.                                                          *)
EXTENDS MacAton

Chars == {"0", "1", "a", "x", ":", " ", "-", "+"}

Original == <<"1", "a", ":", "a", "1", ":", "a", "a", ":", "0", "1", ":", "a", "1", ":", "1", "a">>

Slips(str) ==
    {str}
        \cup {[str EXCEPT ![p] = c] : p \in DOMAIN str, c \in Chars}
        \cup {RemoveAt(str, p) : p \in DOMAIN str}
        \cup {InsertAt(str, p, c) : p \in 1..Len(str) + 1, c \in Chars}

MCMacStrings == {<<>>} \cup Slips(Original)
=============================================================================
