------------------------------ MODULE MacAton ------------------------------
(***************************************************************************)
(* uinet_mac_aton() (uinet_api.c): the text of a MAC address, pairs of     *)
(* hexadecimal digits with colons between them, is made into its bytes     *)
(* with strtoul.  The user calls it with one string after another, each    *)
(* time with a buffer of zeros for the address.                            *)
(***************************************************************************)
EXTENDS Integers, SequencesExt, TLC

CONSTANTS
    ETHER_ADDR_LEN,      \* the bytes of a MAC address
    MacStrings,          \* the strings the user has
    NULL

ASSUME ETHER_ADDR_LEN \in Nat \ {0}

VARIABLES
    given,       \* the string of the last call
    address,     \* the user's buffer for the address, after the call
    returned     \* what the last call returned

vars == <<given, address, returned>>

TypeOK ==
    /\ given \in MacStrings \cup {NULL}
    /\ address \in [1..ETHER_ADDR_LEN -> 0..255]
    /\ returned \in {0, 1}

(* A string is a sequence of characters; the character after its last is
   the terminating NUL. *)
NUL == "NUL"
At(str, p) == IF p \in DOMAIN str THEN str[p] ELSE NUL

(* The hexadecimal digits of the model, of sixteen. *)
HexValue == ("0" :> 0) @@ ("1" :> 1) @@ ("a" :> 10)
HexDigits == DOMAIN HexValue

(* The first place from p on whose character is not in `set`. *)
SkipAll(str, p, set) ==
    CHOOSE q \in p..Len(str) + 1 :
        /\ \A j \in p..q - 1 : str[j] \in set
        /\ At(str, q) \notin set

(* strtoul(p, &endp, 16): white space is skipped, a sign is taken, then a
   0x that has a digit behind it, and the digits that follow are the number;
   without a digit endp is p. *)
strtoul(str, p) ==
    LET sign == SkipAll(str, p, {" "})
        prefix == IF At(str, sign) \in {"+", "-"} THEN sign + 1 ELSE sign
        start == IF /\ At(str, prefix) = "0"
                    /\ At(str, prefix + 1) = "x"
                    /\ At(str, prefix + 2) \in HexDigits
                 THEN prefix + 2 ELSE prefix
        endp == SkipAll(str, start, HexDigits)
        number == FoldLeft(LAMBDA n, c : 16 * n + HexValue[c], 0,
                           SubSeq(str, start, endp - 1))
    IN  IF endp = start THEN [value |-> 0, endp |-> p]
        ELSE [value |-> IF At(str, sign) = "-" THEN -number ELSE number, endp |-> endp]

(* A test that takes a pair for one digit. *)
one_digit(str, i, p, endp) ==
    \/ endp # p + 1
    \/ i < ETHER_ADDR_LEN /\ At(str, endp) # ":"
    \/ i = ETHER_ADDR_LEN /\ At(str, endp) # NUL

(* The test on a pair, with the pair at p and the number ending at endp. *)
rejected(str, i, p, endp) ==
    \/ endp # p + 2
    \/ i < ETHER_ADDR_LEN /\ At(str, endp) # ":"
    \/ i = ETHER_ADDR_LEN /\ At(str, endp) # NUL

(* The loop from pair i on, which starts at p: the byte is stored, then
   tested. *)
RECURSIVE mac_pairs(_, _, _, _)
mac_pairs(str, i, p, macout) ==
    LET n == strtoul(str, p)
        out == [macout EXCEPT ![i] = n.value % 256]
    IN  CASE rejected(str, i, p, n.endp) -> [rc |-> 1, macout |-> out]
          [] OTHER -> IF i = ETHER_ADDR_LEN THEN [rc |-> 0, macout |-> out]
                      ELSE mac_pairs(str, i + 1, n.endp + 1, out)

(* uinet_mac_aton(): no string and the empty string give the address of
   zeros. *)
uinet_mac_aton(macstr, macout) ==
    IF macstr = NULL \/ macstr = <<>>
    THEN [rc |-> 0, macout |-> [i \in 1..ETHER_ADDR_LEN |-> 0]]
    ELSE mac_pairs(macstr, 1, 1, macout)

Init ==
    /\ given = NULL
    /\ address = [i \in 1..ETHER_ADDR_LEN |-> 0]
    /\ returned = 0

(* The user has a string made into an address. *)
MacAton(str) ==
    LET r == uinet_mac_aton(str, [i \in 1..ETHER_ADDR_LEN |-> 0])
    IN  /\ given' = str
        /\ address' = r.macout
        /\ returned' = r.rc

Next == \E str \in MacStrings \cup {NULL} : MacAton(str)

Spec == Init /\ [][Next]_vars

-----------------------------------------------------------------------------
(* Properties *)

(* The address a string stands for.  A well-formed string is ETHER_ADDR_LEN
   pairs of hexadecimal digits with a colon between one pair and the next. *)
WellFormed(str) ==
    /\ Len(str) = 3 * ETHER_ADDR_LEN - 1
    /\ \A p \in DOMAIN str : str[p] \in IF p % 3 = 0 THEN {":"} ELSE HexDigits

Address(str) ==
    [i \in 1..ETHER_ADDR_LEN |-> 16 * HexValue[str[3 * i - 2]] + HexValue[str[3 * i - 1]]]

(* uinet_mac_aton() takes every well-formed string and gives its address:
   the pointer is moved over the colon from one pair to the next, and both
   digits of a pair count. *)
MacIsParsed ==
    given # NULL /\ WellFormed(given) => returned = 0 /\ address = Address(given)

(* uinet_mac_aton() takes nothing else: what it takes is "two hex digits",
   "followed by ':', unless last pair", "followed by '\0', if last pair",
   as the comments in its loop say. *)
MacIsWellFormed ==
    given # NULL /\ given # <<>> /\ returned = 0 => WellFormed(given)
=============================================================================
