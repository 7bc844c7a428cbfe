----------------------------- MODULE SSHSession -----------------------------
(***************************************************************************)
(* The keys of an SSH session (src/ssh/ssh_session.cc).  After every key   *)
(* exchange each end calls activate_chosen(): it makes the algorithms that *)
(* were negotiated the active ones, derives an IV and a key for each       *)
(* direction that is encrypted and an integrity key for each that has a    *)
(* MAC, and initializes its ciphers with the keys of its own direction.    *)
(* generate_key() derives a key of any size from a hash of fixed size.     *)
(*                                                                         *)
(* The two ends of one connection are the two roles.  The key exchange,    *)
(* the hash, the ciphers and the MACs are outside src/: an exchange gives  *)
(* both ends the same secret, hash and algorithms, a digest is HashSize    *)
(* bytes that name what was hashed, and a cipher or a MAC refuses a key    *)
(* that is not of its size.                                                *)
(***************************************************************************)
EXTENDS Naturals, Sequences

CONSTANTS
    NULL,
    IvSizes, KeySizes,  \* iv_size() and key_size() of the ciphers there are
    MacKeySizes,        \* key_size() of the MACs there are
    HashSize,           \* the bytes of a digest of the key exchange's hash
    HashOutcomes,       \* what KeyExchange::hash may return
    MaxExchanges        \* bound on the key exchanges of a connection

ASSUME /\ IvSizes \cup KeySizes \cup MacKeySizes \subseteq Nat
       /\ HashSize \in Nat \ {0}
       /\ HashOutcomes \subseteq BOOLEAN
       /\ MaxExchanges \in Nat

Roles == {"ClientRole", "ServerRole"}

Peer(r) == IF r = "ClientRole" THEN "ServerRole" ELSE "ClientRole"

UnidirectionalAlgorithms ==
    [encryption_ : [iv_size : IvSizes, key_size : KeySizes] \cup {NULL},
     mac_ : [key_size : MacKeySizes] \cup {NULL}]

Algorithms ==
    [client_to_server_ : UnidirectionalAlgorithms,
     server_to_client_ : UnidirectionalAlgorithms]

VARIABLES
    negotiated,          \* the algorithms each exchange so far agreed on
    exchanged,           \* per role, the exchanges it has completed
    activated,           \* per role, the exchange whose keys it has activated
    shared_secret_, exchange_hash_, session_id_,
    chosen_algorithms_, active_algorithms_,
    keys,                \* per role, the six key buffers of the session
    encrypt, decrypt,    \* per role, the key and IV its ciphers were given
    integrity,           \* per role and direction, the key its MAC was given
    halted               \* NULL, or the message of the HALT

vars ==
    <<negotiated, exchanged, activated, shared_secret_, exchange_hash_, session_id_,
      chosen_algorithms_, active_algorithms_, keys, encrypt, decrypt, integrity, halted>>

None == [client_to_server_ |-> [encryption_ |-> NULL, mac_ |-> NULL],
         server_to_client_ |-> [encryption_ |-> NULL, mac_ |-> NULL]]

KeyNames ==
    {"client_to_server_iv_", "client_to_server_key_", "server_to_client_iv_",
     "server_to_client_key_", "client_to_server_integrity_key_",
     "server_to_client_integrity_key_"}

Init ==
    /\ negotiated = <<>>
    /\ exchanged = [r \in Roles |-> 0]
    /\ activated = [r \in Roles |-> 0]
    /\ shared_secret_ = [r \in Roles |-> NULL]
    /\ exchange_hash_ = [r \in Roles |-> NULL]
    /\ session_id_ = [r \in Roles |-> NULL]
    /\ chosen_algorithms_ = [r \in Roles |-> None]
    /\ active_algorithms_ = [r \in Roles |-> None]
    /\ keys = [r \in Roles |-> [k \in KeyNames |-> <<>>]]
    /\ encrypt = [r \in Roles |-> NULL]
    /\ decrypt = [r \in Roles |-> NULL]
    /\ integrity = [r \in Roles |-> [d \in DOMAIN None |-> NULL]]
    /\ halted = NULL

-----------------------------------------------------------------------------
(* KeyExchange::hash(&key, &input): the digest of input, appended to key. *)
hash(input) == [i \in 1..HashSize |-> <<input, i>>]

(* The loop with every digest that of x and the session id. *)
RECURSIVE ExtendUnchained(_, _, _, _)
ExtendUnchained(r, x, key_size, key) ==
    IF Len(key) < key_size
    THEN ExtendUnchained(r, x, key_size,
             key \o hash(<<shared_secret_[r], exchange_hash_[r], x, session_id_[r]>>))
    ELSE key

(* The loop of generate_key: digests are appended until the key is long    *)
(* enough, the first of x and the session id, the later ones of the key    *)
(* so far.                                                                 *)
RECURSIVE Extend(_, _, _, _)
Extend(r, x, key_size, key) ==
    IF Len(key) < key_size
    THEN Extend(r, x, key_size,
                key \o hash(<<shared_secret_[r], exchange_hash_[r]>>
                            \o (IF key = <<>> THEN <<x, session_id_[r]>> ELSE key)))
    ELSE key

(* generate_key without lines 79-80. *)
generate_key_whole(r, x, key_size) == Extend(r, x, key_size, <<>>)

generate_key(r, x, key_size) ==
    LET key == Extend(r, x, key_size, <<>>)
    IN  IF Len(key) > key_size THEN SubSeq(key, 1, key_size) ELSE key

(* Encryption::initialize and Mac::initialize take a key of their size.    *)
Initializes(encryption, key, iv) ==
    Len(key) = encryption.key_size /\ Len(iv) = encryption.iv_size

(* The key buffers after lines 18-35: those of an algorithm that is not    *)
(* NULL are derived, the others are left as they were.                     *)
Derived(r, alg) ==
    LET c2s == alg.client_to_server_
        s2c == alg.server_to_client_
        Key(name, x, a, size) ==
            IF a # NULL THEN generate_key(r, x, a[size]) ELSE keys[r][name]
    IN  [client_to_server_iv_ |-> Key("client_to_server_iv_", <<"A">>, c2s.encryption_, "iv_size"),
         client_to_server_key_ |-> Key("client_to_server_key_", <<"C">>, c2s.encryption_, "key_size"),
         server_to_client_iv_ |-> Key("server_to_client_iv_", <<"B">>, s2c.encryption_, "iv_size"),
         server_to_client_key_ |-> Key("server_to_client_key_", <<"D">>, s2c.encryption_, "key_size"),
         client_to_server_integrity_key_ |->
             Key("client_to_server_integrity_key_", <<"E">>, c2s.mac_, "key_size"),
         server_to_client_integrity_key_ |->
             Key("server_to_client_integrity_key_", <<"F">>, s2c.mac_, "key_size")]

(* Whether generate_key calls the hash at all for these algorithms. *)
Hashes(alg) ==
    \E d \in DOMAIN alg :
        \/ alg[d].encryption_ # NULL
               /\ (alg[d].encryption_.iv_size > 0 \/ alg[d].encryption_.key_size > 0)
        \/ alg[d].mac_ # NULL /\ alg[d].mac_.key_size > 0

(* The direction this role sends in: local_to_remote_ and the keys that    *)
(* lines 38-44 choose for it, and the one it receives in.                  *)
LocalToRemote(r) ==
    IF r = "ClientRole" THEN "client_to_server_" ELSE "server_to_client_"

(* Lines 50-56 with the branches of lines 38-44. *)
RemoteToLocalSame(r) == LocalToRemote(r)

RemoteToLocal(r) == LocalToRemote(Peer(r))

Direction(d, k) == [key |-> k[d \o "key_"], iv |-> k[d \o "iv_"]]

IntegrityKey(d, k) == k[d \o "integrity_key_"]

(* The first HALT that activate_chosen meets with the keys k, or NULL. *)
Halt(r, alg, k, hashed) ==
    LET l2r == LocalToRemote(r)
        r2l == RemoteToLocal(r)
        MacFails(d) ==
            alg[d].mac_ # NULL /\ Len(IntegrityKey(d, k)) # alg[d].mac_.key_size
        CipherFails(d) ==
            /\ alg[d].encryption_ # NULL
            /\ ~Initializes(alg[d].encryption_, Direction(d, k).key, Direction(d, k).iv)
    IN  CASE Hashes(alg) /\ ~hashed -> "Hash failed in generating key."
          [] MacFails("client_to_server_") -> "Failed to activate client-to-server MAC."
          [] MacFails("server_to_client_") -> "Failed to activate server-to-client MAC."
          [] CipherFails(l2r) -> "Failed to initialize local-to-remote encryption."
          [] CipherFails(r2l) -> "Failed to initialize local-to-remote encryption."
          [] OTHER -> NULL

(* SSH::Session::activate_chosen. *)
ActivateChosen(r) ==
    /\ halted = NULL
    /\ activated[r] < exchanged[r]
    /\ \E hashed \in HashOutcomes :
        LET alg == chosen_algorithms_[r]
            k == Derived(r, alg)
            l2r == LocalToRemote(r)
            r2l == RemoteToLocal(r)
            Given(d, old) ==
                IF alg[d].encryption_ # NULL THEN Direction(d, k) ELSE old
        IN  /\ active_algorithms_' = [active_algorithms_ EXCEPT ![r] = alg]
            /\ halted' = Halt(r, alg, k, hashed)
            /\ IF halted' = NULL
               THEN /\ keys' = [keys EXCEPT ![r] = k]
                    /\ integrity' = [integrity EXCEPT ![r] =
                           [d \in DOMAIN alg |->
                               IF alg[d].mac_ # NULL THEN IntegrityKey(d, k) ELSE @[d]]]
                    /\ encrypt' = [encrypt EXCEPT ![r] = Given(l2r, @)]
                    /\ decrypt' = [decrypt EXCEPT ![r] = Given(r2l, @)]
                    /\ activated' = [activated EXCEPT ![r] = exchanged[r]]
               ELSE UNCHANGED <<keys, integrity, encrypt, decrypt, activated>>
    /\ UNCHANGED <<negotiated, exchanged, shared_secret_, exchange_hash_, session_id_,
                   chosen_algorithms_>>

(* The shared secret and the hash of the n-th exchange; the letters that   *)
(* generate_key is given are strings of one character.                     *)
Secret(n) == <<"K", n, "mpint">>
ExchangeHash(n) == <<"H", n, "string">>

(* A key exchange ends at role r: the n-th exchange of the connection,     *)
(* with the algorithms it agreed on.  The session id is the hash of the    *)
(* first exchange.  A role starts no exchange before it has activated the  *)
(* keys of the last one, and none that its peer is two behind in.          *)
KeyExchange(r) ==
    /\ halted = NULL
    /\ activated[r] = exchanged[r]
    /\ exchanged[r] < MaxExchanges
    /\ exchanged[r] <= exchanged[Peer(r)]
    /\ LET n == exchanged[r] + 1
       IN  /\ \/ n <= Len(negotiated) /\ UNCHANGED negotiated
              \/ n > Len(negotiated) /\ \E alg \in Algorithms :
                                            negotiated' = Append(negotiated, alg)
           /\ exchanged' = [exchanged EXCEPT ![r] = n]
           /\ shared_secret_' = [shared_secret_ EXCEPT ![r] = Secret(n)]
           /\ exchange_hash_' = [exchange_hash_ EXCEPT ![r] = ExchangeHash(n)]
           /\ session_id_' = [session_id_ EXCEPT ![r] = IF @ = NULL THEN ExchangeHash(n) ELSE @]
           /\ chosen_algorithms_' = [chosen_algorithms_ EXCEPT ![r] = negotiated'[n]]
    /\ UNCHANGED <<activated, active_algorithms_, keys, encrypt, decrypt, integrity, halted>>

Next == \E r \in Roles : ActivateChosen(r) \/ KeyExchange(r)

Spec == Init /\ [][Next]_vars

-----------------------------------------------------------------------------
TypeOK ==
    /\ negotiated \in Seq(Algorithms) /\ Len(negotiated) <= MaxExchanges
    /\ exchanged \in [Roles -> 0..MaxExchanges]
    /\ activated \in [Roles -> 0..MaxExchanges]
    /\ \A r \in Roles : activated[r] <= exchanged[r] /\ exchanged[r] <= Len(negotiated)
    /\ chosen_algorithms_ \in [Roles -> Algorithms]
    /\ active_algorithms_ \in [Roles -> Algorithms]
    /\ DOMAIN keys = Roles /\ \A r \in Roles : DOMAIN keys[r] = KeyNames
    /\ halted \in {NULL, "Hash failed in generating key.",
                   "Failed to activate client-to-server MAC.",
                   "Failed to activate server-to-client MAC.",
                   "Failed to initialize local-to-remote encryption."}

(* The two ends have the same keys in use: once both have called           *)
(* activate_chosen() after the same exchange, the key and IV one end gave  *)
(* its cipher to encrypt with are those the other gave its cipher to       *)
(* decrypt with, in both directions, and their MACs have the same keys.    *)
(* This is the choice by role_ of lines 38-44 and 50-56, made by two       *)
(* sessions of different roles.                                            *)
KeysAgree ==
    \A r \in Roles :
        activated[r] = activated[Peer(r)] =>
            /\ encrypt[r] = decrypt[Peer(r)]
            /\ integrity[r] = integrity[Peer(r)]

(* The key of RFC 4253, section 7.2: the first key_size bytes of           *)
(* K1 || K2 || ..., with K1 = HASH(K || H || x || session_id) and          *)
(* K(i+1) = HASH(K || H || K1 || ... || Ki).                               *)
RECURSIVE KeyStream(_, _, _, _, _)
KeyStream(K, H, x, id, blocks) ==
    IF blocks = 0 THEN <<>>
    ELSE LET before == KeyStream(K, H, x, id, blocks - 1)
         IN  before \o hash(<<K, H>> \o (IF blocks = 1 THEN <<x, id>> ELSE before))

Rfc4253Key(K, H, x, id, size) ==
    SubSeq(KeyStream(K, H, x, id, (size + HashSize - 1) \div HashSize), 1, size)

(* What generate_key() returns is the key of RFC 4253 for the secret and   *)
(* the hash of the exchange last completed and the hash of the first one,  *)
(* of exactly the size asked for: the loop of lines 66-78 appends whole    *)
(* digests and lines 79-80 cut the last one.  It is stated of the keys the *)
(* ciphers and MACs of a role were last given, after a second exchange     *)
(* too.                                                                    *)
KeysAreOfRfc4253 ==
    \A r \in Roles :
        LET alg == active_algorithms_[r]
            n == activated[r]
            Key(x, size) == Rfc4253Key(Secret(n), ExchangeHash(n), x, ExchangeHash(1), size)
            Is(d, iv, key, mac) ==
                /\ alg[d].encryption_ # NULL =>
                       /\ keys[r][d \o "iv_"] = Key(iv, alg[d].encryption_.iv_size)
                       /\ keys[r][d \o "key_"] = Key(key, alg[d].encryption_.key_size)
                /\ alg[d].mac_ # NULL =>
                       keys[r][d \o "integrity_key_"] = Key(mac, alg[d].mac_.key_size)
        IN  (n > 0 /\ halted = NULL) =>
                Is("client_to_server_", <<"A">>, <<"C">>, <<"E">>)
                /\ Is("server_to_client_", <<"B">>, <<"D">>, <<"F">>)

(* activate_chosen() never HALTs unless the hash fails: every key it       *)
(* gives a cipher or a MAC is of the size that one asked for, whatever the *)
(* size of a digest.                                                       *)
HaltsOnlyForTheHash ==
    halted \in {NULL, "Hash failed in generating key."}

=============================================================================
