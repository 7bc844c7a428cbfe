----------------------------- MODULE NetmapHost -----------------------------
(***************************************************************************)
(* The host side of the netmap interface driver: what the driver does to   *)
(* the operating system when it attaches to a network interface, and how   *)
(* it reads and writes the rings it shares with the kernel.                *)
(*                                                                         *)
(* if_netmap_register_if() turns the offloads of the interface off and its *)
(* promiscuous mode on (for a hardware interface, not for a VALE port),    *)
(* binds the netmap descriptor to the interface and maps the rings; any of *)
(* these steps can fail.  if_netmap_deregister_if() undoes it.  The file   *)
(* is compiled for FreeBSD or for Linux, and the two differ in how the     *)
(* offloads and the promiscuous mode are set.                              *)
(*                                                                         *)
(* One interface and one descriptor are modelled.  A call is one action:   *)
(* nothing else touches the context or the interface's settings while it   *)
(* runs.  The kernel, the interface and the driver that calls these        *)
(* functions are not in this file; they are described here by what the     *)
(* calls assume of them.                                                   *)
(***************************************************************************)
EXTENDS Integers, Sequences, FiniteSets, SequencesExt

CONSTANTS
    InitialCaps,   \* the offload settings an interface may be found with
    Frozen,        \* the settings whose change the interface may not support
    MaxRegisters,  \* how many times the driver attaches
    MaxFailures,   \* how many times it tries to and fails
    Slots,         \* the slots of a ring (nr_rx_slots, nr_tx_slots)
    Spares,        \* the buffers the driver has beside those in the rings
    MaxPackets,    \* how many packets arrive at the interface
    MaxSends,      \* how many packets the driver sends
    NULL

(* IFCAP_* of SIOCSIFCAP.  LRO stands for the capabilities that
   if_netmap_set_offload() does not name. *)
IfCapsOn == {"HWCSUM", "TSO", "TOE", "VLAN_HWTAGGING", "VLAN_HWCSUM", "VLAN_HWTSO"}
IfCapsOff == IfCapsOn \cup {"VLAN_HWFILTER"}
IfCaps == IfCapsOff \cup {"LRO"}

(* ETH_FLAG_* of ETHTOOL_SFLAGS in the order they are set, and the offloads
   that have a command pair of their own. *)
EthFlagsSet == <<"RXVLAN", "TXVLAN", "NTUPLE", "RXHASH">>
EthFlags == ToSet(EthFlagsSet) \cup {"LRO"}
Discretes == <<"RXCSUM", "TXCSUM", "TSO", "UFO">>

Platforms == {"FreeBSD", "Linux"}
Caps(p) == IF p = "FreeBSD" THEN IfCaps ELSE EthFlags \cup ToSet(Discretes)

(* The steps of if_netmap_register_if() that can fail, in their order. *)
Steps == <<"calloc", "offload", "promisc", "regif", "mmap">>

ASSUME /\ InitialCaps \subseteq SUBSET (IfCaps \cup EthFlags \cup ToSet(Discretes))
       /\ Frozen \subseteq EthFlags \cup ToSet(Discretes)
       /\ MaxRegisters \in Nat
       /\ MaxFailures \in Nat
       /\ Slots \in Nat \ {0, 1}
       /\ Spares \in Nat
       /\ MaxPackets \in Nat
       /\ MaxSends \in Nat

(* A packet is known by its number, and is that many bytes long. *)
Packets == 1..(MaxPackets + MaxSends)
SlotNos == 0..(Slots - 1)
BufIdx == 0..(2 * Slots + Spares - 1)
Slot == [len : Packets \cup {0}, buf_idx : BufIdx, flags : SUBSET {"NS_BUF_CHANGED"}]

VARIABLES
    platform,   \* what the file was compiled for
    caps,       \* the offloads that are on at the interface
    promisc,    \* the interface is in promiscuous mode
    bound,      \* NIOCREGIF has bound the descriptor to the interface
    mapped,     \* the rings are mapped
    ctx,        \* the context the driver holds, or NULL
    allocated,  \* the contexts calloc() gave and free() has not taken back
    registers,  \* the calls of if_netmap_register_if() that returned a context
    failures,   \* the calls that returned NULL
    rxr,        \* *hw_rx_ring: avail, cur, reserved and the slots
    txr,        \* *hw_tx_ring: avail, cur and the slots
    kring,      \* what the kernel keeps of the rings for itself
    buffer,     \* buffer[i]: the packet in netmap buffer i, or NULL
    drv,        \* the driver's own copies of avail, cur and reserved
    spare,      \* the buffers in no slot that the driver may put into one
    held,       \* the received buffers the stack has not read yet, oldest first
    finished,   \* the buffers the stack has read that are still in their slot
    arrived,    \* how many packets the interface has received
    received,   \* what the stack read, in that order
    submitted,  \* how many packets the driver has written to the ring
    sent        \* what the interface put on the wire, in that order

hostVars == <<platform, caps, promisc, bound, mapped, ctx, allocated, registers,
              failures>>
rxVars == <<rxr, held, finished, arrived, received>>
ringVars == <<rxr, txr, kring, buffer, drv, spare, held, finished,
              arrived, received, submitted, sent>>
vars == <<hostVars, ringVars>>

TypeOK ==
    /\ platform \in Platforms
    /\ caps \subseteq Caps(platform)
    /\ promisc \in BOOLEAN
    /\ bound \in BOOLEAN
    /\ mapped \in BOOLEAN
    /\ ctx \in [isvale : BOOLEAN] \cup {NULL}
    /\ allocated \in 0..(MaxRegisters + MaxFailures)
    /\ registers \in 0..MaxRegisters
    /\ failures \in 0..MaxFailures
    /\ rxr \in [avail : 0..Slots, cur : SlotNos, reserved : 0..Slots, slot : [SlotNos -> Slot]]
    /\ txr \in [avail : 0..Slots, cur : SlotNos, slot : [SlotNos -> Slot]]
    /\ kring \in [rx_hwcur : SlotNos, rx_hwavail : 0..Slots, tx_hwcur : SlotNos]
    /\ buffer \in [BufIdx -> Packets \cup {NULL}]
    /\ drv \in [polled : SUBSET {"rx", "tx"},
                rx_avail : 0..Slots, rx_cur : SlotNos, rx_reserved : 0..Slots,
                tx_avail : 0..Slots, tx_cur : SlotNos]
    /\ spare \subseteq BufIdx
    /\ held \in Seq([buf : BufIdx, len : Packets \cup {0}, swapped : BOOLEAN])
    /\ finished \subseteq BufIdx
    /\ arrived \in 0..MaxPackets
    /\ received \in Seq([pkt : Packets \cup {NULL}, len : Packets \cup {0}])
    /\ submitted \in 0..MaxSends
    /\ sent \in Seq([pkt : Packets \cup {NULL}, len : Packets \cup {0}])

(* The rings as NIOCREGIF leaves them: empty, every slot with a buffer of
   its own.  The count of reserved slots is not the kernel's to reset. *)
FreshSlots(first) == [i \in SlotNos |-> [len |-> 0, buf_idx |-> first + i, flags |-> {}]]
FreshRx(reserved) == [avail |-> 0, cur |-> 0, reserved |-> reserved, slot |-> FreshSlots(0)]
FreshTx == [avail |-> Slots - 1, cur |-> 0, slot |-> FreshSlots(Slots)]
FreshKring == [rx_hwcur |-> 0, rx_hwavail |-> 0, tx_hwcur |-> 0]
FreshDrv == [polled |-> {}, rx_avail |-> 0, rx_cur |-> 0, rx_reserved |-> 0,
             tx_avail |-> 0, tx_cur |-> 0]
SpareBufs == BufIdx \ 0..(2 * Slots - 1)

(* An interface nobody has put into promiscuous mode, with rings an
   earlier user may have left slots reserved in. *)
Init ==
    /\ platform \in Platforms
    /\ caps \in {c \in InitialCaps : c \subseteq Caps(platform)}
    /\ promisc = FALSE
    /\ bound = FALSE
    /\ mapped = FALSE
    /\ ctx = NULL
    /\ allocated = 0
    /\ registers = 0
    /\ failures = 0
    /\ \E reserved \in {0, 1} : rxr = FreshRx(reserved)
    /\ txr = FreshTx
    /\ kring = FreshKring
    /\ buffer = [i \in BufIdx |-> NULL]
    /\ drv = FreshDrv
    /\ spare = SpareBufs
    /\ held = <<>>
    /\ finished = {}
    /\ arrived = 0
    /\ received = <<>>
    /\ submitted = 0
    /\ sent = <<>>

-----------------------------------------------------------------------------
(* The address of the interface *)

(* if_netmap_get_ifaddr() on platform p: the list getifaddrs() gave (NULL
   when it failed) is searched for the first entry with the name, the
   link-layer family and data.  ifa_addr of an entry is read as soon as the
   name is right, and getifaddrs() may leave it NULL. *)
if_netmap_get_ifaddr(p, ifname, ifa) ==
    LET af == IF p = "FreeBSD" THEN "AF_LINK" ELSE "AF_PACKET"
        named(e) == e.ifa_name = ifname
        found(e) == /\ named(e)
                    /\ e.ifa_addr # NULL
                    /\ e.ifa_addr.sa_family = af
                    /\ e.ifa_data
        stop == SelectInSeq(ifa, LAMBDA e : named(e) /\ (e.ifa_addr = NULL \/ found(e)))
    IN  CASE ifa = NULL -> [error |-> -1]
          [] stop = 0 -> [error |-> -1]
          [] ifa[stop].ifa_addr = NULL -> "SIGSEGV"
          [] OTHER -> [error |-> 0, ethaddr |-> ifa[stop].ifa_addr.addr]

(* With an address in every entry, the answer is the address of the first
   link-layer entry of that name that has data, or -1 when there is none. *)
GetIfaddrFindsFirst(names, ifas) ==
    \A p \in Platforms, ifname \in names, ifa \in ifas :
        LET link(e) == e.ifa_addr.sa_family = (IF p = "FreeBSD" THEN "AF_LINK" ELSE "AF_PACKET")
            hits == {i \in DOMAIN ifa : ifa[i].ifa_name = ifname /\ link(ifa[i]) /\ ifa[i].ifa_data}
        IN  (\A i \in DOMAIN ifa : ifa[i].ifa_addr # NULL) =>
                if_netmap_get_ifaddr(p, ifname, ifa) =
                    IF hits = {} THEN [error |-> -1]
                    ELSE [error |-> 0, ethaddr |-> ifa[Min(hits)].ifa_addr.addr]

(* if_netmap_get_ifaddr() is compared with this description before the
   states are explored, for the lists of up to two entries of two
   interfaces, with an address of the link layer or of another family. *)
ASSUME GetIfaddrFindsFirst(
           {"em0", "em1"},
           BoundedSeq([ifa_name : {"em0", "em1"},
                       ifa_addr : [sa_family : {"AF_LINK", "AF_PACKET", "AF_INET"},
                                   addr : {"a", "b"}],
                       ifa_data : BOOLEAN], 2))

-----------------------------------------------------------------------------
(* Offloads *)

(* if_netmap_ethtool_set_flag(): the flags are read, and written back with
   `flag` changed if data ^ flag is not zero.  ok is whether SIOCETHTOOL
   works at all; an interface that cannot change the flag answers
   EOPNOTSUPP, which is not an error.  The result is the settings after
   the call. *)
ethtool_set_flag(c, flag, on, ok) ==
    LET data == c \cap EthFlags
        want == IF on THEN data \cup {flag} ELSE data \ {flag}
    IN  IF ok /\ data # {flag} /\ flag \notin Frozen
        THEN (c \ EthFlags) \cup want
        ELSE c

(* if_netmap_ethtool_set_discrete(): the test is of etv.cmd, which holds
   the command code and is never zero, so the setting is cleared when on is
   zero and left alone when it is not. *)
ethtool_set_discrete(c, name, on, ok) ==
    IF ok /\ ~on /\ name \notin Frozen THEN c \ {name} ELSE c

(* if_netmap_set_offload(): the result and the settings after the call.
   On FreeBSD either ioctl can fail, and that fails the call; on Linux the
   results of the eight helpers are dropped. *)
set_offload_unchecked(c, on, ok) ==
    [rv |-> 0, caps |-> IF ~ok THEN c ELSE IF on THEN c \cup IfCapsOn ELSE c \ IfCapsOff]

set_offload_freebsd(c, on, ok) ==
    IF ~ok THEN [rv |-> -1, caps |-> c]
    ELSE [rv |-> 0, caps |-> IF on THEN c \cup IfCapsOn ELSE c \ IfCapsOff]

set_offload_linux(c, on, ok) ==
    LET flag(acc, name) == ethtool_set_flag(acc, name, on, ok)
        discrete(acc, name) == ethtool_set_discrete(acc, name, on, ok)
    IN  [rv |-> 0,
         caps |-> FoldLeft(discrete, FoldLeft(flag, c, EthFlagsSet), Discretes)]

set_offload(c, on, ok) ==
    IF platform = "FreeBSD" THEN set_offload_freebsd(c, on, ok)
    ELSE set_offload_linux(c, on, ok)

(* if_netmap_set_promisc(): the result and the mode after the call.  On
   FreeBSD the flag follows `on`; on Linux it is set whatever `on` is. *)
set_promisc(on, ok) ==
    IF ~ok THEN [rv |-> -1, promisc |-> promisc]
    ELSE [rv |-> 0, promisc |-> IF platform = "FreeBSD" THEN on ELSE TRUE]

-----------------------------------------------------------------------------
(* Register and deregister *)

(* The step is reached and succeeds in a call that fails at failAt. *)
Done(step, failAt) ==
    \/ failAt = NULL
    \/ SelectInSeq(Steps, LAMBDA s : s = step) < SelectInSeq(Steps, LAMBDA s : s = failAt)

(* The system calls that fail in one call of if_netmap_register_if(): none
   or one. *)
Breaks == {{}} \cup {{step} : step \in ToSet(Steps)}

(* Where if_netmap_register_if() stops when the system calls in `broken`
   fail: at the first step whose failure it sees, or nowhere.  A VALE port
   has no settings to fail at. *)
StopsAt(isvale, broken) ==
    LET fails(step) ==
            CASE step = "offload" ->
                    ~isvale /\ set_offload(caps, FALSE, step \notin broken).rv # 0
              [] step = "promisc" ->
                    ~isvale /\ set_promisc(TRUE, step \notin broken).rv # 0
              [] OTHER -> step \in broken
        first == SelectInSeq(Steps, fails)
    IN  IF first = 0 THEN NULL ELSE Steps[first]

(* The context the call returns: the label `fail` frees it. *)
Returns(isvale, failAt) ==
    /\ ctx' = IF failAt = NULL THEN [isvale |-> isvale] ELSE NULL
    /\ allocated' = allocated + (IF failAt = NULL THEN 1 ELSE 0)

(* The settings of a hardware interface after the call: offloads off, then
   promiscuous mode on. *)
Settings(isvale, broken, failAt) ==
    /\ caps' = IF isvale \/ ~Done("calloc", failAt) THEN caps
               ELSE set_offload(caps, FALSE, "offload" \notin broken).caps
    /\ promisc' = IF isvale \/ ~Done("offload", failAt) THEN promisc
                  ELSE set_promisc(TRUE, "promisc" \notin broken).promisc

(* The rings after the call: NIOCREGIF resets them, and the call itself
   clears the count of reserved slots once the rings are mapped. *)
RingsKeptReserved(failAt) ==
    /\ rxr' = IF Done("regif", failAt) THEN FreshRx(rxr.reserved) ELSE rxr
    /\ txr' = IF Done("regif", failAt) THEN FreshTx ELSE txr
    /\ kring' = IF Done("regif", failAt) THEN FreshKring ELSE kring

Rings(failAt) ==
    /\ rxr' = CASE failAt = NULL -> FreshRx(0)
                [] Done("regif", failAt) -> FreshRx(rxr.reserved)
                [] OTHER -> rxr
    /\ txr' = IF Done("regif", failAt) THEN FreshTx ELSE txr
    /\ kring' = IF Done("regif", failAt) THEN FreshKring ELSE kring

(* The driver attaches: if_netmap_register_if(), and the driver's own
   state begins anew. *)
if_netmap_register_if(isvale, broken) ==
    LET failAt == StopsAt(isvale, broken) IN
    /\ ctx = NULL
    /\ IF failAt = NULL
       THEN registers < MaxRegisters /\ registers' = registers + 1 /\ UNCHANGED failures
       ELSE failures < MaxFailures /\ failures' = failures + 1 /\ UNCHANGED registers
    /\ Returns(isvale, failAt)
    /\ Settings(isvale, broken, failAt)
    /\ bound' = (bound \/ Done("regif", failAt))
    /\ mapped' = Done("mmap", failAt)
    /\ Rings(failAt)
    /\ drv' = IF failAt = NULL THEN FreshDrv ELSE drv
    /\ spare' = IF failAt = NULL THEN SpareBufs ELSE spare
    /\ buffer' = IF Done("regif", failAt) THEN [i \in BufIdx |-> NULL] ELSE buffer
    /\ UNCHANGED <<platform, held, finished, arrived, received, submitted, sent>>

(* if_netmap_deregister_if(): the result of set_promisc() is dropped.  The
   driver detaches when the stack has given back what it was lent. *)
if_netmap_deregister_if(ok) ==
    /\ ctx # NULL
    /\ held = <<>>
    /\ promisc' = IF ctx.isvale THEN promisc ELSE set_promisc(FALSE, ok).promisc
    /\ mapped' = FALSE
    /\ ctx' = NULL
    /\ allocated' = allocated - 1
    /\ finished' = {}
    /\ UNCHANGED <<platform, caps, bound, registers, failures, rxr, txr, kring, buffer, drv,
                   spare, held, arrived, received, submitted, sent>>

(* The driver closes the descriptor when it has no context for it. *)
Close ==
    /\ ctx = NULL
    /\ bound
    /\ bound' = FALSE
    /\ UNCHANGED <<platform, caps, promisc, mapped, ctx, allocated, registers, failures,
                   ringVars>>

-----------------------------------------------------------------------------
(* The rings *)

nr_buf_size == MaxPackets + MaxSends

NETMAP_RING_NEXT(i) == IF i + 1 = Slots THEN 0 ELSE i + 1

(* The slots from slot `from` up to, not including, slot `to`. *)
Between(from, to) ==
    [j \in 1..((to + Slots - from) % Slots) |-> (from + j - 1) % Slots]

(* NIOCRXSYNC with n packets that have come in: the kernel puts them into
   the slots behind those it has handed out, takes back the slots the user
   has released, which are those before cur but for the reserved ones, and
   says how many slots are there to read. *)
KernelRxSync(r, n) ==
    LET into == [j \in 1..n |-> (kring.rx_hwcur + kring.rx_hwavail + j - 1) % Slots]
        first == (r.cur + Slots - r.reserved) % Slots
        hwavail == kring.rx_hwavail + n - Len(Between(kring.rx_hwcur, first))
    IN  /\ rxr' = [r EXCEPT
                      !.avail = hwavail - r.reserved,
                      !.slot = [i \in SlotNos |->
                                   [len |-> IF \E j \in 1..n : into[j] = i
                                            THEN arrived + (CHOOSE j \in 1..n : into[j] = i)
                                            ELSE r.slot[i].len,
                                    buf_idx |-> r.slot[i].buf_idx,
                                    flags |-> {}]]]
        /\ kring' = [kring EXCEPT !.rx_hwcur = first, !.rx_hwavail = hwavail]
        /\ buffer' = [b \in BufIdx |->
                         IF \E j \in 1..n : r.slot[into[j]].buf_idx = b
                         THEN arrived + (CHOOSE j \in 1..n : r.slot[into[j]].buf_idx = b)
                         ELSE buffer[b]]
        /\ arrived' = arrived + n

(* if_netmap_rxsync(): the values whose pointer is not NULL are stored in
   the ring, then the kernel is called. *)
if_netmap_rxsync(avail, cur, reserved, n) ==
    /\ n <= Slots - 1 - kring.rx_hwavail
    /\ arrived + n <= MaxPackets
    /\ KernelRxSync([rxr EXCEPT !.avail = IF avail = NULL THEN @ ELSE avail,
                                !.cur = IF cur = NULL THEN @ ELSE cur,
                                !.reserved = IF reserved = NULL THEN @ ELSE reserved], n)

(* if_netmap_rxslot(): the slot after slotno, and what is in slot slotno. *)
if_netmap_rxslot_stays(slotno) ==
    [slotno |-> slotno,
     len |-> rxr.slot[slotno].len,
     index |-> rxr.slot[slotno].buf_idx]

if_netmap_rxslot(slotno) ==
    [slotno |-> NETMAP_RING_NEXT(slotno),
     len |-> rxr.slot[slotno].len,
     index |-> rxr.slot[slotno].buf_idx]

(* if_netmap_rxsetslot(): the ring with buffer `index` in slot slotno, and
   the slot after slotno. *)
if_netmap_rxsetslot_unset(slotno, index) ==
    [ring |-> [rxr EXCEPT !.slot[slotno].flags = @ \cup {"NS_BUF_CHANGED"}],
     slotno |-> NETMAP_RING_NEXT(slotno)]

if_netmap_rxsetslot(slotno, index) ==
    [ring |-> [rxr EXCEPT !.slot[slotno].buf_idx = index,
                          !.slot[slotno].flags = @ \cup {"NS_BUF_CHANGED"}],
     slotno |-> NETMAP_RING_NEXT(slotno)]

(* NIOCTXSYNC: the kernel sends the slots the user has filled, which are
   those before cur, and says how many slots are free. *)
KernelTxSync(r) ==
    LET out == Between(kring.tx_hwcur, r.cur)
    IN  /\ sent' = sent \o [j \in DOMAIN out |->
                               [pkt |-> buffer[r.slot[out[j]].buf_idx],
                                len |-> r.slot[out[j]].len]]
        /\ kring' = [kring EXCEPT !.tx_hwcur = r.cur]
        /\ txr' = [r EXCEPT !.avail = Slots - 1]

if_netmap_txsync(avail, cur) ==
    KernelTxSync([txr EXCEPT !.avail = IF avail = NULL THEN @ ELSE avail,
                             !.cur = IF cur = NULL THEN @ ELSE cur])

(* if_netmap_txslot(): the ring with the length in slot slotno, the slot
   after it, and the buffer to write the packet to. *)
if_netmap_txslot(slotno, len) ==
    [ring |-> [txr EXCEPT !.slot[slotno].len = len],
     slotno |-> NETMAP_RING_NEXT(slotno),
     index |-> txr.slot[slotno].buf_idx]

(* What the driver reads from the ring and the context. *)
if_netmap_rxavail == rxr.avail
if_netmap_rxcur == rxr.cur
if_netmap_rxreserved == rxr.reserved
if_netmap_rxslots == Slots
if_netmap_rxbufsize == nr_buf_size
if_netmap_txavail == txr.avail
if_netmap_txcur == txr.cur
if_netmap_txslots == Slots

-----------------------------------------------------------------------------
(* The driver and the stack above it *)

Attached == ctx # NULL /\ mapped

(* The first look at the receive ring: nothing is given back, and the
   driver takes over what the ring says. *)
RxPoll(n) ==
    /\ Attached
    /\ "rx" \notin drv.polled
    /\ if_netmap_rxsync(NULL, NULL, NULL, n)
    /\ drv' = [drv EXCEPT !.polled = @ \cup {"rx"},
                          !.rx_avail = if_netmap_rxavail',
                          !.rx_cur = if_netmap_rxcur',
                          !.rx_reserved = if_netmap_rxreserved']
    /\ UNCHANGED <<hostVars, txr, spare, held, finished, received, submitted, sent>>

(* The driver tells the kernel how far it has read and what it still
   holds, and learns how many slots there are to read. *)
RxSync(n) ==
    /\ Attached
    /\ "rx" \in drv.polled
    /\ if_netmap_rxsync(drv.rx_avail, drv.rx_cur, drv.rx_reserved, n)
    /\ drv' = [drv EXCEPT !.rx_avail = if_netmap_rxavail']
    /\ UNCHANGED <<hostVars, txr, spare, held, finished, received, submitted, sent>>

(* The driver hands the buffer of the next slot to the stack; the slot
   stays reserved. *)
RxTake ==
    /\ Attached
    /\ drv.rx_avail > 0
    /\ LET slot == if_netmap_rxslot(drv.rx_cur)
       IN  /\ held' = Append(held, [buf |-> slot.index, len |-> slot.len, swapped |-> FALSE])
           /\ drv' = [drv EXCEPT !.rx_cur = slot.slotno,
                                 !.rx_avail = @ - 1,
                                 !.rx_reserved = @ + 1]
    /\ UNCHANGED <<hostVars, rxr, txr, kring, buffer, spare, finished, arrived,
                   received, submitted, sent>>

(* The stack reads the oldest buffer it was given.  A buffer that has left
   its slot goes to the driver's spare buffers. *)
StackRead ==
    /\ held # <<>>
    /\ LET h == Head(held)
       IN  /\ received' = Append(received, [pkt |-> buffer[h.buf], len |-> h.len])
           /\ spare' = IF h.swapped THEN spare \cup {h.buf} ELSE spare
           /\ finished' = IF h.swapped THEN finished ELSE finished \cup {h.buf}
    /\ held' = Tail(held)
    /\ UNCHANGED <<hostVars, rxr, txr, kring, buffer, drv, arrived, submitted, sent>>

(* The oldest reserved slot *)
Trail == (drv.rx_cur + Slots - drv.rx_reserved) % Slots

(* The driver gives up the oldest reserved slot, whose buffer the stack
   has read. *)
RxRelease ==
    /\ Attached
    /\ drv.rx_reserved > 0
    /\ rxr.slot[Trail].buf_idx \in finished
    /\ finished' = finished \ {rxr.slot[Trail].buf_idx}
    /\ drv' = [drv EXCEPT !.rx_reserved = @ - 1]
    /\ UNCHANGED <<hostVars, rxr, txr, kring, buffer, spare, held, arrived,
                   received, submitted, sent>>

(* The driver gives up the oldest reserved slot while the stack still has
   its buffer: the slot gets a spare buffer in its place. *)
RxReplace ==
    /\ Attached
    /\ drv.rx_reserved > 0
    /\ rxr.slot[Trail].buf_idx \notin finished
    /\ spare # {}
    /\ rxr' = if_netmap_rxsetslot(Trail, Min(spare)).ring
    /\ spare' = spare \ {Min(spare)}
    /\ held' = [i \in DOMAIN held |->
                   IF held[i].buf = rxr.slot[Trail].buf_idx
                   THEN [held[i] EXCEPT !.swapped = TRUE] ELSE held[i]]
    /\ drv' = [drv EXCEPT !.rx_reserved = @ - 1]
    /\ UNCHANGED <<hostVars, txr, kring, buffer, finished, arrived, received,
                   submitted, sent>>

(* The first look at the transmit ring. *)
TxPoll ==
    /\ Attached
    /\ "tx" \notin drv.polled
    /\ if_netmap_txsync(NULL, NULL)
    /\ drv' = [drv EXCEPT !.polled = @ \cup {"tx"},
                          !.tx_avail = if_netmap_txavail',
                          !.tx_cur = if_netmap_txcur']
    /\ UNCHANGED <<hostVars, rxVars, buffer, spare, submitted>>

(* The driver writes the next packet into the next free slot. *)
TxPut ==
    /\ Attached
    /\ drv.tx_avail > 0
    /\ submitted < MaxSends
    /\ submitted + 1 <= nr_buf_size
    /\ LET slot == if_netmap_txslot(drv.tx_cur, submitted + 1)
       IN  /\ txr' = slot.ring
           /\ buffer' = [buffer EXCEPT ![slot.index] = submitted + 1]
           /\ drv' = [drv EXCEPT !.tx_cur = slot.slotno, !.tx_avail = @ - 1]
    /\ submitted' = submitted + 1
    /\ UNCHANGED <<hostVars, rxVars, kring, spare, sent>>

(* The driver tells the kernel how far it has written. *)
TxSync ==
    /\ Attached
    /\ "tx" \in drv.polled
    /\ if_netmap_txsync(drv.tx_avail, drv.tx_cur)
    /\ drv' = [drv EXCEPT !.tx_avail = if_netmap_txavail']
    /\ UNCHANGED <<hostVars, rxVars, buffer, spare, submitted>>

-----------------------------------------------------------------------------
Next ==
    \/ \E isvale \in BOOLEAN, broken \in Breaks :
           if_netmap_register_if(isvale, broken)
    \/ \E ok \in BOOLEAN : if_netmap_deregister_if(ok)
    \/ Close
    \/ \E n \in 0..Slots : RxPoll(n)
    \/ \E n \in 0..Slots : RxSync(n)
    \/ RxTake
    \/ StackRead
    \/ RxRelease
    \/ RxReplace
    \/ TxPoll
    \/ TxPut
    \/ TxSync

Spec == Init /\ [][Next]_vars

-----------------------------------------------------------------------------
(* Properties *)

(* A context that if_netmap_register_if() returns is the only one allocated
   and belongs to a bound descriptor and mapped rings, and a hardware
   interface is then in promiscuous mode and, on FreeBSD, has the offloads
   off that if_netmap_set_offload() names: the call goes on only past the
   steps that succeeded.  When it fails, at whichever step, no context is
   left allocated. *)
ReturnedContextIsReady ==
    /\ allocated = IF ctx = NULL THEN 0 ELSE 1
    /\ ctx # NULL => bound /\ mapped
    /\ ctx # NULL /\ ~ctx.isvale =>
          /\ promisc
          /\ platform = "FreeBSD" => caps \cap IfCapsOff = {}

(* Is seq a sequence of packets with their own lengths, in rising order,
   none of them above n? *)
InOrder(seq, n) ==
    \A i \in DOMAIN seq :
        /\ seq[i].pkt \in 1..n
        /\ seq[i].len = seq[i].pkt
        /\ i > 1 => seq[i - 1].pkt < seq[i].pkt

(* Packets go through in order, both ways.  What the stack reads are the
   packets that arrived, each at most once and in the order of arrival,
   with their lengths: the kernel never writes to a buffer the stack has
   not read, because if_netmap_rxslot() walks the ring as the kernel does
   and the slots of unread buffers stay reserved or are given another
   buffer by if_netmap_rxsetslot().  What goes on the wire are the packets
   the driver wrote with if_netmap_txslot(), each at most once and in that
   order, with their lengths. *)
PacketsInOrder ==
    /\ InOrder(received, arrived)
    /\ InOrder(sent, submitted)

(* While the driver is attached no buffer is in two places: the slots of
   both rings name different buffers, none of them a spare one, and a
   buffer the stack holds after its slot was given up is in no slot and
   not spare. *)
BuffersApart ==
    Attached =>
    LET inSlot(b) == {<<"rx", i>> : i \in {j \in SlotNos : rxr.slot[j].buf_idx = b}}
                     \cup {<<"tx", i>> : i \in {j \in SlotNos : txr.slot[j].buf_idx = b}}
        swapped == {held[i].buf : i \in {j \in DOMAIN held : held[j].swapped}}
    IN  \A b \in BufIdx :
            Cardinality(inSlot(b)) + (IF b \in spare THEN 1 ELSE 0)
                + (IF b \in swapped THEN 1 ELSE 0) <= 1

(* The slots the driver keeps reserved are those whose buffer the stack was
   lent and the driver has not taken back: the count starts at zero because
   if_netmap_register_if() clears what an earlier user of the ring left in
   it, so the driver never gives up a slot it did not take. *)
ReservedAreLent ==
    Attached /\ "rx" \in drv.polled =>
        drv.rx_reserved =
            Cardinality({i \in DOMAIN held : ~held[i].swapped}) + Cardinality(finished)

(* When the driver has no context, the interface and the descriptor are as
   they were found: not in promiscuous mode and not bound. *)
HostAsFound ==
    ctx = NULL /\ ~bound => ~promisc

(* A hardware interface that if_netmap_register_if() returned a context
   for has the offloads off that if_netmap_set_offload() was to turn off. *)
OffloadsOff ==
    ctx # NULL /\ ~ctx.isvale =>
        caps \cap (IfCapsOff \cup ToSet(EthFlagsSet) \cup ToSet(Discretes)) \subseteq Frozen
=============================================================================
