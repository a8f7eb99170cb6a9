---------------------------------- MODULE Ip ----------------------------------
(***************************************************************************)
(* IP output with fragments (ip_tx), a network that loses, duplicates,     *)
(* reorders and damages packets, and IP input with reassembly at one host  *)
(* (ip_rx, ip_fragment_process).                                           *)
(*                                                                         *)
(* Calls of ip_tx run in any number of threads of any number of hosts, one *)
(* fragment a step; the receive thread handles one packet a step.          *)
(*                                                                         *)
(* A packet is a sequence of words, the unit of its checksum: a field of   *)
(* the header or an octet of the payload is one word each, and lengths,    *)
(* the header length in the first word included, count words.              *)
(***************************************************************************)
EXTENDS Mask, SequencesExt

CONSTANTS
    Calls,                   \* calls of ip_tx
    Datagram,                \* Datagram[c]: [src, dst, proto, data] passed to it
    Local,                   \* addresses the receiver takes: unicast, broadcasts
    Protocols,               \* protocols with a handler
    FirstId,                 \* where ip_generate_id starts (128)
    IdSpace,                 \* 2^16
    Unit,                    \* octets a fragment offset counts (8)
    OffsetSpace,             \* offsets below the MF flag (2^13)
    Version,                 \* IP_VERSION_IPV4
    IhlSpace,                \* header lengths below the version (16)
    Ttl,                     \* what ip_tx_core sets (0xff)
    Mtu,                     \* dev->mtu - IP_HDR_SIZE_MIN
    MinPayload,              \* what Ethernet pads a shorter payload to
    MaxLen,                  \* octets of fragment->data (65535)
    IP_FRAGMENT_NUM_MAX,
    IP_FRAGMENT_TIMEOUT_SEC,
    Failing                  \* ip_tx may fail between two fragments

Srcs == {Datagram[c].src : c \in Calls}
Length(c) == Len(Datagram[c].data)

\* IP_HDR_SIZE_MIN: vhl and tos, len, id, offset, ttl, protocol, sum, src, dst.
HdrSize == 9

ASSUME IpAssumption ==
    /\ {FirstId, IdSpace, Unit, OffsetSpace, IhlSpace, Mtu, MaxLen} \subseteq Nat \ {0}
    /\ MinPayload \in Nat /\ IP_FRAGMENT_TIMEOUT_SEC \in Nat
    /\ IP_FRAGMENT_NUM_MAX \in Nat \ {0}
    /\ Mtu % Unit = 0
    /\ \A c \in Calls : Length(c) \in 1..MaxLen /\ Length(c) < OffsetSpace * Unit
    /\ MaxLen <= WordBits * MaskWords
    /\ IsFiniteSet(Calls) /\ Cardinality(Calls) < IdSpace
    /\ Failing \in BOOLEAN

\* Every field of a header and every octet fits a word of the checksum.
ASSUME HeaderAssumption ==
    /\ Version \in Nat /\ HdrSize < IhlSpace /\ Version * IhlSpace + HdrSize < Modulus
    /\ Ttl \in 1..Modulus - 1
    /\ HdrSize + Mtu < Modulus /\ IdSpace <= Modulus /\ 2 * OffsetSpace <= Modulus
    /\ Datagram \in [Calls -> [src : 0..Modulus - 1, dst : 0..Modulus - 1,
                               proto : 0..Modulus - 1, data : Seq(0..Modulus - 1)]]

VARIABLES
    id,         \* id[s]: the static counter of ip_generate_id at host s
    tx,         \* tx[c]: the id of the call and how far it is
    net,        \* packets that were sent
    fragments,  \* the list of reassembly entries, newest first
    count,      \* count of ip_fragment_process
    undefined,  \* the receiver has used memory it does not own
    delivered   \* what the handlers were called with

vars == <<id, tx, net, fragments, count, undefined, delivered>>

Init ==
    /\ id = [s \in Srcs |-> FirstId % IdSpace]
    /\ tx = [c \in Calls |-> [pc |-> "ready", id |-> 0, done |-> 0]]
    /\ net = {}
    /\ fragments = <<>>
    /\ count = 0
    /\ undefined = FALSE
    /\ delivered = {}

-----------------------------------------------------------------------------
(***************************************************************************)
(* Output.                                                                 *)
(***************************************************************************)
Header(d, plen, pid, offset, sum) ==
    <<Version * IhlSpace + HdrSize, HdrSize + plen, pid, offset, Ttl, d.proto, sum,
      d.src, d.dst>>

\* What ethernet_tx makes of a payload below the smallest frame.
Padded(payload) ==
    [i \in 1..Max({Len(payload), MinPayload}) |->
        IF i \in DOMAIN payload THEN payload[i] ELSE 0]

ip_tx_core(d, payload, pid, offset) ==
    [hdr |-> Header(d, Len(payload), pid, offset,
                    cksum16(Header(d, Len(payload), pid, offset, 0))),
     data |-> Padded(payload)]

MutNextId(n) == n + 1

NextId(n) == (n + 1) % IdSpace

\* ip_tx takes an id.
TxStart(c) ==
    LET s == Datagram[c].src
    IN  /\ tx[c].pc = "ready"
        /\ tx' = [tx EXCEPT ![c] = [pc |-> "send", id |-> id[s], done |-> 0]]
        /\ id' = [id EXCEPT ![s] = NextId(@)]
        /\ UNCHANGED <<net, fragments, count, undefined, delivered>>

\* The fragment behind the first done octets: flag and offset share a word.
Fragment(c, pid, done) ==
    LET d    == Datagram[c].data
        slen == Min({Len(d) - done, Mtu})
        flag == IF done + slen < Len(d) THEN OffsetSpace ELSE 0
    IN  ip_tx_core(Datagram[c], SubSeq(d, done + 1, done + slen), pid,
                   flag + ((done \div Unit) % OffsetSpace))

TxFragment(c) ==
    LET done == Min({Length(c), tx[c].done + Mtu})
    IN  /\ tx[c].pc = "send"
        /\ net' = net \cup {Fragment(c, tx[c].id, tx[c].done)}
        /\ tx' = [tx EXCEPT ![c].done = done,
                            ![c].pc = IF done = Length(c) THEN "done" ELSE "send"]
        /\ UNCHANGED <<id, fragments, count, undefined, delivered>>

\* ip_tx_core failed: what was sent before stays sent.
TxFail(c) ==
    /\ Failing /\ tx[c].pc = "send"
    /\ tx' = [tx EXCEPT ![c].pc = "done"]
    /\ UNCHANGED <<id, net, fragments, count, undefined, delivered>>

-----------------------------------------------------------------------------
(***************************************************************************)
(* Reassembly.                                                             *)
(***************************************************************************)
ip_fragment_alloc(h) ==
    [src |-> h.src, dst |-> h.dst, id |-> h.id, proto |-> h.proto,
     len |-> 0, data |-> [i \in 1..MaxLen |-> 0], mask |-> maskclr, age |-> 0]

MutSearch(h, f) == f.dst = h.dst /\ f.id = h.id /\ f.proto = h.proto

\* The test of ip_fragment_search.
SameDatagram(h, f) ==
    f.src = h.src /\ f.dst = h.dst /\ f.id = h.id /\ f.proto = h.proto
Found(list, h) == {i \in DOMAIN list : SameDatagram(h, list[i])}

\* ip_fragment_patrol, on every fragment (its timestamp is never set), unlinks
\* an expired entry and frees the one behind it, which it reads next; only the
\* last entry has none behind it.
Expired(list) == {i \in DOMAIN list : list[i].age > IP_FRAGMENT_TIMEOUT_SEC}
PatrolUndefined(list) == Expired(list) \ {Len(list)} # {}
ip_fragment_patrol(list) == IF Expired(list) = {} THEN list ELSE Front(list)

\* A fragment is copied to its place.
Copied(f, h, payload) ==
    LET off == h.offset * Unit
        last == off + Len(payload)
    IN  [f EXCEPT !.data = [i \in 1..MaxLen |-> IF i \in off + 1..last
                                                THEN payload[i - off] ELSE @[i]],
                  !.mask = maskset(@, off, Len(payload)),
                  !.len = IF h.more THEN @ ELSE last,
                  !.age = 0]

MutComplete(f) == f.len # 0 /\ maskchk(f.mask, 0, f.len + 1)

Complete(f) == f.len # 0 /\ maskchk(f.mask, 0, f.len)

\* The handler of the protocol, if there is one, gets the datagram.
Handled(h, payload) ==
    IF h.proto \in Protocols
    THEN delivered \cup {[src |-> h.src, dst |-> h.dst, proto |-> h.proto,
                          data |-> payload]}
    ELSE delivered

MutRefuse(n) == n > IP_FRAGMENT_NUM_MAX

\* "too many fragments"
Refuse(n) == n >= IP_FRAGMENT_NUM_MAX

\* The entry at place i of list takes the fragment.
Store(list, i, n, h, payload) ==
    LET f == Copied(list[i], h, payload)
    IN  IF Complete(f)
        THEN /\ fragments' = RemoveAt(list, i)
             /\ count' = n - 1
             /\ delivered' = Handled(h, SubSeq(f.data, 1, f.len))
        ELSE /\ fragments' = [list EXCEPT ![i] = f]
             /\ count' = n
             /\ UNCHANGED delivered

ip_fragment_process(h, payload) ==
    LET list == ip_fragment_patrol(fragments)
        at   == Found(list, h)
    IN  IF PatrolUndefined(fragments)
        THEN undefined' = TRUE /\ UNCHANGED <<fragments, count, delivered>>
        ELSE /\ UNCHANGED undefined
             /\ IF at # {} THEN Store(list, Min(at), count, h, payload)
                ELSE IF Refuse(count)
                THEN fragments' = list /\ UNCHANGED <<count, delivered>>
                ELSE Store(<<ip_fragment_alloc(h)>> \o list, 1, count + 1, h, payload)

-----------------------------------------------------------------------------
(***************************************************************************)
(* Input.                                                                  *)
(***************************************************************************)
\* The packet as it lies in memory, and the header length it says it has.
Octets(p) == p.hdr \o p.data
Ihl(p) == p.hdr[1] % IhlSpace

Decoded(words) ==
    [id |-> words[3],
     offset |-> words[4] % OffsetSpace, more |-> (words[4] \div OffsetSpace) % 2 = 1,
     proto |-> words[6], src |-> words[8], dst |-> words[9]]

MutValid(p) ==
    /\ p.hdr[1] \div IhlSpace = Version /\ Ihl(p) = HdrSize
    /\ Ihl(p) <= Len(Octets(p)) /\ p.hdr[2] <= Len(Octets(p))
    /\ p.hdr[5] # 0

\* The checks of the header: version, lengths, checksum and TTL. That the
\* header length is at least HdrSize and at most len is not checked.
Valid(p) ==
    /\ p.hdr[1] \div IhlSpace = Version
    /\ Ihl(p) <= Len(Octets(p)) /\ p.hdr[2] <= Len(Octets(p))
    /\ cksum16(SubSeq(Octets(p), 1, Ihl(p))) = 0
    /\ p.hdr[5] # 0

\* plen = len - hlen is a size_t: below zero it is larger than any packet.
ip_rx(p) ==
    LET h == Decoded(p.hdr)
        payload == SubSeq(Octets(p), Ihl(p) + 1, p.hdr[2])
    IN  IF ~Valid(p) \/ h.dst \notin Local
        THEN UNCHANGED <<fragments, count, undefined, delivered>>
        ELSE IF p.hdr[2] < Ihl(p)
        THEN undefined' = TRUE /\ UNCHANGED <<fragments, count, delivered>>
        ELSE IF h.more \/ h.offset # 0
        THEN ip_fragment_process(h, payload)
        ELSE /\ delivered' = Handled(h, payload)
             /\ UNCHANGED <<fragments, count, undefined>>

\* A packet as it may arrive: intact, or with one bit of its header inverted.
\* The bits of a word of 2^16 values are the divisors of 2^16 but itself.
Bits == {b \in 1..Modulus - 1 : Modulus % b = 0}
Inverted(word, b) == IF (word \div b) % 2 = 1 THEN word - b ELSE word + b
Damaged(p) ==
    {[p EXCEPT !.hdr[w] = Inverted(@, b)] : w \in DOMAIN p.hdr, b \in Bits}

\* The code takes the checksum over as many words as the first one says, so an
\* inverted bit of the header length can pass: with destination 192.168.62.87
\* a header length of 4 for 5 does. This says that in no fragment of the calls
\* such a bit passes; it is a condition on the datagrams, not on the code.
IhlNoticed ==
    \A c \in Calls, i \in 0..IdSpace - 1, j \in 0..OffsetSpace - 1 :
        j * Unit < Length(c) =>
            \A q \in Damaged(Fragment(c, i, j * Unit)) : Valid(q) => Ihl(q) = HdrSize

\* A packet that was sent arrives never, once or many times, after any other.
Rx(p) ==
    /\ ~undefined
    /\ \E q \in {p} \cup Damaged(p) : ip_rx(q)
    /\ UNCHANGED <<id, tx, net>>

Tick ==
    /\ fragments' = [i \in DOMAIN fragments |->
                        IF fragments[i].age <= IP_FRAGMENT_TIMEOUT_SEC
                        THEN [fragments[i] EXCEPT !.age = @ + 1] ELSE fragments[i]]
    /\ UNCHANGED <<id, tx, net, count, undefined, delivered>>

Next ==
    \/ \E c \in Calls : TxStart(c) \/ TxFragment(c) \/ TxFail(c)
    \/ \E p \in net : Rx(p)
    \/ Tick

Spec == Init /\ [][Next]_vars

-----------------------------------------------------------------------------
(***************************************************************************)
(* IP implements the datagram service.                                     *)
(***************************************************************************)
Service == INSTANCE DatagramSpec WITH
    Datagrams <- {Datagram[c] : c \in Calls},
    sent <- {Datagram[c] : c \in {k \in Calls : tx[k].pc # "ready"}}

\* Every call of a handler is one the datagram service allows: however the
\* fragments of several datagrams are lost, repeated, reordered, damaged (as
\* far as IhlNoticed) and interleaved, and entries are refused and expire, what
\* is handed up is a whole datagram that was sent.
ImplementsDatagram == Service!Spec

\* Headers fit their words, entries their bounds.
TypeOK ==
    /\ id \in [Srcs -> 0..IdSpace - 1]
    /\ \A p \in net : \A i \in DOMAIN p.hdr : p.hdr[i] \in 0..Modulus - 1
    /\ \A i \in DOMAIN fragments :
         /\ fragments[i].len \in 0..MaxLen
         /\ fragments[i].mask \in [Words -> SUBSET AllBits]
         /\ fragments[i].age \in 0..IP_FRAGMENT_TIMEOUT_SEC + 1
    /\ count \in Nat /\ undefined \in BOOLEAN

\* What the mask says has arrived has arrived: an octet whose bit is set is
\* the octet of the datagram the entry is for, whatever order, overlap and
\* word boundaries its fragments had.
DataAgrees ==
    \A i \in DOMAIN fragments, o \in 0..MaxLen - 1 :
        LET f == fragments[i]
        IN  o % WordBits \in f.mask[o \div WordBits] =>
              \E c \in Calls :
                 /\ Datagram[c].src = f.src /\ tx[c].pc # "ready" /\ tx[c].id = f.id
                 /\ o < Length(c) /\ f.data[o + 1] = Datagram[c].data[o + 1]

\* Nothing whole is kept: an entry that has its last fragment misses an octet.
NoneWhole ==
    \A i \in DOMAIN fragments :
        LET f == fragments[i]
        IN  f.len = 0 \/ \E o \in 0..f.len - 1 :
                            o % WordBits \notin f.mask[o \div WordBits]

\* The memory for reassembly is bounded: the list has no more entries than
\* count says, and never more than IP_FRAGMENT_NUM_MAX.
ListBounded == Len(fragments) <= count /\ count <= IP_FRAGMENT_NUM_MAX
=============================================================================
