# A TLA+ model of tcpip-stack

This directory models the TCP/IP stack of this repository (`tcp.c`, `ip.c`,
`arp.c`, `ethernet.c` and what they use), checks the models with TLC on small
instances and proves their safety properties with TLAPS for every instance.
The source is the reference; line numbers below are of `tcp.c` unless a file is
named.

## 1. Inventory

A process has one Ethernet device with a receive thread, one TCP timer thread,
and any number of application threads. A frame goes up through
`ethernet_rx_thread` -> `ip_rx` / `arp_rx` -> `tcp_rx` in the receive thread; a
segment goes down through `tcp_tx` -> `ip_tx` -> `arp_resolve` -> device in
whichever thread sends it. `tcp.c`, `ip.c` and `arp.c` have one mutex each.

| Component | State | Operations | What makes it correct |
|---|---|---|---|
| TCP control block (`struct tcp_cb`, 67-112) | state, snd/rcv variables, iss, receive window, transmission queue, parent, backlog, user timeout | `tcp_tx`, `tcp_txq_add`, `tcp_close_cb`, `tcp_event_segment_arrives`, one visit of the timer, `tcp_close` | send variables agree with the state; nothing unacknowledged is forgotten; nothing is received twice |
| TCP table, API and threads | `cb_table[128]`, one mutex, a condition variable per control block | open, close, connect, bind, listen, accept, send, recv; `tcp_rx`; `tcp_timer_thread`, woken by `timer_cond` and at least every 100 ms | one control block per connection; no lost wake-up; blocking calls return; control blocks become free again |
| ARP (`arp.c`) | table of address, hardware address, timestamp, pending packet, cond | `arp_resolve` (timed wait of 1 s), `arp_rx`, patrol | a waiter gets the address it asked for; the table does not fill up for ever |
| IP (`ip.c`) | list of reassembly entries, their count, their masks | `ip_tx` (fragments), `ip_rx`, reassembly, patrol | what is delivered is a whole datagram that was sent; the list is bounded |
| Masks, queue (`util.c`) | bit mask, linked list | `maskset`, `maskchk`, `maskclr`, `queue_push`, `queue_pop` | agree with a set of bits, with a sequence |
| Ethernet device (`ethernet.c`) | thread id, terminate flag | open, run, stop, close, receive loop | the thread is stopped once and joined |
| Registry (`net.c`), raw devices (`raw.c`, `raw/`) | lists; file descriptors | register at start-up; read and write | - |
| Programs (`apps/`, `test/`) | - | call the API | - |

What is hard here: the application threads, the receive thread and the timer
thread interleave at every `pthread_cond_wait`; control blocks are recycled
without being cleared (`tcp_close_cb` keeps port, peer, parent, backlog and
`txq.snt`); closing crosses with FINs, ACKs and RSTs; segments are lost,
duplicated and reordered while windows move; `ip_tx` may fail or wait in the
middle of a call; timeouts race late answers. `PROJECT.json` lists these as
hazards, each at its line and with the properties that cover it.

## 2. Modules

    TcpCb ----- EXTENDS ----> TcpHost ---> MCTcpHost
       |                         +-------> TcpHostProofs -> TcpHostWakeupProofs
       +------- EXTENDS ----> TcpPair ---> MCTcpPair
       |                         +-------> TcpPairProofs -> TcpPairStreamProofs
       |                         +- implements --> StreamSpec
       +---------------------------------> TcpCbProofs (used by all four above)
    Arp ------- EXTENDS ----> Stack -----> MCStack
       |                         +-------> StackProofs (EXTENDS ArpProofs too)
       +---------------------------------> ArpProofs, MCArp
    Mask ------ EXTENDS ----> Ip --------> MCIp
                                 +-------> IpProofs
                                 +- implements --> DatagramSpec

**`TcpCb`** is one control block as a record and what the stack computes on it,
as pure operators. A handler returns a `Result`: the control block, the segments
it passed to `ip_tx`, how it notified `cb->cond`, whether it pushed the control
block on its parent's backlog, and whether `tcp_tx` failed. The structure
follows the code: `tcp_event_segment_arrives` is split at its `case` labels and
at its numbered checks (`SeqAcceptable`, `SegmentAck`, `SegmentText`,
`SegmentFin`). What the code does is kept where it differs from RFC 793: plain
comparisons of sequence numbers, `ack + 1 == snd.nxt`, no check that text fits
the window.

**`TcpHost`** is one host. `cbs` is `cb_table` and `thr` says in which blocking
call each application thread is and whether it was woken. Every API call,
`tcp_rx` and a pass of the timer hold the mutex from beginning to end, so each
is one action; `connect` and `accept` give it up in `pthread_cond_wait`, so each
is one action up to the wait (`Connect`, `Accept`) and one per wake-up
(`ConnectWake`, `AcceptWake`). A signal wakes any one waiting thread, a
broadcast all. The peers send any segment of `Segments` at any time.

**`TcpPair`** is one connection between two hosts that both run this stack:
`tcp_api_send` (one segment a step, holding the mutex), `tcp_api_recv`, the
receive and timer threads, and a network that is a set of segments per
direction. It starts after A has sent its SYN and B's control block was taken by
its listener; how it got there is `TcpHost`'s part. `tcp_api_close` may come at
any time, also while threads are asleep in send or recv on the same socket. A
segment that finds no control block left is answered with a reset where a
listener is (`Stray`); that a SYN would then open a second connection is not part
of this one. The mutex is explicit because `tcp_api_send` has a return path that keeps it.

**`StreamSpec`** is what `TcpPair` promises its applications: a byte stream each
way, of which one end has always received a beginning of what the other sent,
with an end that is seen only behind all of it.

**`Arp`** is `arp.c`. `table` is `arp_table`, `since` the age of the last patrol,
`call` where each caller of `arp_resolve` is, `rx` the message `arp_rx` holds
between its two critical sections. Each critical section of the ARP mutex is one
action: `Resolve` (found, wait, new pending entry with the saved packet, table
full), `ResolveReturn` after the timed wait, `RxUpdate` (patrol and update) and
`RxInsert`. A wait ends by a broadcast of its entry's condition variable or by
`TimeOut`, and the thread runs only later, when others may have cleared and
reused the entry.

**`Stack`** composes `Arp` with the Ethernet device and the TCP mutex. `dev` is
`struct ethernet_priv`, `ctl` the thread that opens, runs, stops and closes the
device, `rxpc` where `ethernet_rx_thread` is, `tcp` who has the TCP mutex. A
frame of another host or type is dropped (`ethernet_rx`, `netdev_rx_handler`), an
ARP message goes through `Arp`'s actions, an IP packet makes the receive thread
take the TCP mutex. TCP itself is reduced to what matters for this question: a
critical section that passes up to `MaxPackets` packets to `ip_tx`, each through
`arp_resolve` with the mutex held. What it computes is in `TcpCb`. Nothing keeps a
thread out of TCP when the device is closed: `ethernet_tx` then follows a null
`dev->priv`, which is modelled as the end of the process (`ctl = "dead"`).

**`Mask`** has `maskset`, `maskchk` and `maskclr` as `util.c` writes them (the
rest of the first word, full words, the beginning of the last word) and
`cksum16`.

**`Ip`** is `ip.c`: `ip_tx` cuts a datagram into fragments, one a step, with calls
of several threads and hosts interleaved; headers are nine words, version and
header length, TTL and checksum among them; `ip_rx` checks version, lengths,
checksum (over as many words as the header says it has) and TTL, as the code
does and no more, decodes and either hands up a datagram or passes a fragment to
`ip_fragment_process` with its list, `count`, masks and patrol.

**`DatagramSpec`** is what IP promises: what is handed up is a whole datagram that
was sent; it may come late, twice or never.

The theorems are in modules of their own. **`TcpCbProofs`** has the lemmas about
the operators of `TcpCb`; on it rest **`TcpHostProofs`** (types, send variables),
**`TcpHostWakeupProofs`** (one connection per port and peer, connect and accept),
**`TcpPairProofs`** (types, recv and send) and **`TcpPairStreamProofs`** (the byte
stream). **`ArpProofs`** and **`StackProofs`** are about `Arp` and `Stack`,
**`IpProofs`** about `Mask` and `Ip`.

Operators named `Mut...` are variants with a planted bug: put in place of the
definition they precede they make the property named in `PROJECT.json` fail,
which shows that the property depends on that code.

### Abstractions

- TCP data are sequences of abstract bytes; TCP headers, byte order and the TCP
  checksum are left out. Segments carry seq, ack, flags, window and data.
- Segments with `URG` are left out, with `up` and the one test of the flag, which
  lets a SYN|ACK without text go on to the checks behind (396). `irs` and `iface`
  are left out: with one interface no code decides anything on them. On the wire a
  segment without ACK has acknowledgement number 0 (`SegmentsAssumption`).
- Time: `left` is `timeout - now + 1` seconds cut at 0; the timestamp of a queued
  segment is its age cut at `RtxTimeout + 1`; entries of the ARP table and of the
  reassembly list have an age cut one above their timeout. `Tick` passes one
  second. The code compares whole seconds too, for `timeout` (919) and for the
  retransmission (968).
- `ip_tx` succeeds or fails nondeterministically (`TxOk`). The timer ignores its
  failure, which is the same as losing the segment. `malloc` and `gettimeofday`
  do not fail. `ip_netif_by_peer` returns NULL only before an interface is
  registered; `ConnectNoRoute` lets it happen at any time for peers in `NoRoute`.
- API calls that are refused at once change nothing and are not actions.
- `rcv.wnd`, `snd.wnd` and `txq.snt` are `uint16_t` with largest value `WinSize`;
  sequence numbers are modulo `SeqSpace`.
- ARP: the other hosts may send a request or a reply, solicited or not, at any
  time, with their own addresses in it; so the messages this host sends need no
  state. A spurious return of `pthread_cond_timedwait`, which POSIX allows, is
  left out; `arp_resolve` would take it for an answer.
- Stack: writes to the device succeed, `pthread_create` does not fail, one thread
  controls the device, and it calls run and stop on an open device, run once per
  open or stop (`ethernet_run` does not check whether a receive thread was
  started). `priv->terminate` is read and written without
  synchronisation; the receive loop calls through a function pointer between two
  reads, so that a build reads it again, and the model does too.
- IP: a packet that was sent stays in `net`, so that it may arrive never, once or
  often, in any order, intact or with any one bit of its header inverted. Only
  fragments as `ip_tx` makes them exist. The word sizes are constants, with the
  flag and the offset, and version and header length, sharing a word as in the
  header; an address is one word, and lengths count words. Where the
  header length is above `len`, `plen` is a `size_t` below zero (`ip.c:363`):
  `undefined` is set.
- The patrol of the reassembly list runs on every fragment, because its static
  timestamp is never set. It frees the entry after the expired one
  (`ip.c:169`). Where that entry exists, the next access is to freed memory:
  `undefined` is set and the receiver does nothing more, since any outcome is
  possible from there. Where the expired entry is the last, `free(NULL)` does
  nothing and the entry is unlinked. That `maskclr` (`ip.c:118`) clears memory
  behind the entry is left out.
- Text that starts inside the receive window is copied whole, beyond its end if
  need be (644). `Overrun` says that this happened at an end, and the model
  follows that end no further: what lies behind the window in `struct tcp_cb` is
  overwritten.

### Constants that restrict the environment

These constants and assumptions say under which use of the stack a property
holds; the code enforces none of them.

| Constant | Means | Without it |
|---|---|---|
| `Shared = FALSE` | no thread closes, connects or listens on a socket another thread is blocked on | two threads wait in `connect` on one condition variable and the signal of line 395 wakes one: `ConnectNoLostWakeup` fails |
| `FreshListen = TRUE` | applications listen only on control blocks that never had a peer | a listener whose control block kept a peer is matched by that peer's segments (846); an RST closes it and a SYN turns it into the connection |
| `Closers = {}`, or `Lossy = FALSE` and `InOrder = TRUE` | nobody closes, or the network keeps the order and loses nothing (it may still deliver nothing) | a FIN that overtakes data, or follows data that was lost, is taken and acknowledges it (675): `ImplementsStream` and `AckedDelivered` fail |
| `Readers` | the ends whose application calls `recv` | no property depends on it; a run without a reader is smaller |
| `SendThreads = {}` | in run `stack`, no call takes the return path of line 1460 | `stack_send` |
| `IpAssumption` | (its line on `Calls`) fewer datagrams than ids while one is in the network | a late fragment is put into the datagram that reuses its id, as IP itself allows |
| `IhlNoticed` | no fragment of the datagrams sent passes the checksum with an inverted bit of its header length | the header length decides what the checksum covers (`ip.c:328`, 333): to 192.168.62.87 a length of 4 for 5 always passes, and the last four octets of the header are taken for payload |

## 3. Runs

| Run | Expect | Checks | Distinct states |
|---|---|---|---|
| `host_server` | pass | `ConnUnique`, `AcceptNoLostWakeup` | 413,662 |
| `host_close` | pass | `TypeOK`, `SndInv`, `HalfOpenReclaimed` | 67,240 |
| `host_client` | pass | `ConnectNoLostWakeup`, `ConnectReturns` | 112,422 |
| `pair_lossy` | pass | `ImplementsStream`, `UnackedQueued`, `AckedDelivered`, `WindowAccounts` | 412,260 |
| `pair_fin` | pass | `TypeOK`, `ImplementsStream`, `RecvNoLostWakeup`, `SendNoLostWakeup`, `SendReturns` | 249,266 |
| `arp` | pass | `ArpTypeOK`, `TableTrue`, `AtMostTwice`, `ArpNoLostWakeup`, `ResolveReturns`, `PendingEnds` | 147,936 |
| `stack` | pass | `TypeOK`, `NoUseAfterClose`, `CallReturns`, `FramesHandled`, `StopReturns` | 120,380 |
| `ip` | pass | `TypeOK`, `DataAgrees`, `NoneWhole`, `ListBounded`, `ImplementsDatagram` | 30,912 |
| `host_closing` | violation | `ClosingEnds` | |
| `pair_held` | violation | `HeldIsSent` | |
| `arp_found` | violation | `FoundTrue` | |
| `stack_send` | violation | `FramesHandled` | |

**`host_server`**: two threads share listeners, accept and close, one client
opens and resets connections. Three control blocks are a listener, a connection
and a free one, which is what recycling needs; a reset and a new SYN put the
same control block on the backlog twice, so `MaxBacklog = 2` is reached with two
accepting threads. No thread connects: with `connect`, `ConnUnique` fails, since
a reopened control block keeps its old ephemeral port.

**`host_close`**: one application thread, two clients and two control blocks, so
that a control block one client leaves is taken by the other; ACKs of the SYN
and of the FIN, FINs before and after them, RSTs, a client that starts at the
last sequence number, `ip_tx` failing at every call. Timeouts are 1 second, so
that a segment may be younger or older than each of them.

**`host_client`**: two threads connect from two control blocks to a peer that
accepts, refuses, crosses the SYN, resets or stays silent; `ip_tx` and the route
may fail, so a SYN may stay in the queue of a control block that is then reused
(`MaxTxq` bounds how many).

**`pair_lossy`**: B sends five bytes in three segments to A, whose window holds
four; up to two segments are in flight to A and one to B, and any may be lost,
duplicated or overtaken while the timer retransmits. The window fills, `recv`
opens it, and a segment of two bytes that meets a window of one overruns it.
Up to there the connection implements the byte stream and `rcv.wnd` is exact. The
passive side speaks because the active side cannot (`pair_held`); nobody closes
(see the table above).

**`pair_fin`**: the send buffer holds one byte, so the second byte of a `send`
waits; B closes at any time, before, between and after its own segments and while
threads sleep in `send` or `recv` on the socket. `tcp_close` from ESTABLISHED sends
a FIN and wakes nobody (1093-1101), so a thread asleep in `send` sleeps on in
FIN_WAIT1, where it can send nothing more; `SendNoLostWakeup` says what it then
relies on: something, the FIN included, is still unacknowledged, so that an
ACK, a reset or the user timeout will broadcast. The network keeps the order and
loses nothing but need not deliver. The end of the stream is seen only after all
of it.

**`arp`**: two threads resolve two addresses while messages of both hosts arrive,
for this host and for another one. What the table says is true however entries
are cleared and reused; `arp_rx` and `arp_resolve` together make at most two
entries for a host, never a third; no caller sleeps on an entry that has an
answer; every call returns; and a pending entry is given back as long as ARP
messages keep arriving. That a second entry does occur is known: without the
interleaving of `RxUpdate` and `RxInsert` one would be the bound.

**`stack`**: an application and the timer hold the TCP mutex while they wait for
an ARP reply, the receive thread waits for that mutex or answers a segment and
waits for a reply only it could read, and the device is opened, run, stopped and
closed meanwhile, with threads inside TCP or not. The receive thread never meets a
freed device; another thread that does ends the process. Otherwise nothing is
stuck: the timed wait of `arp_resolve` is what
breaks every such circle, and the mutant without it fails `CallReturns` and
`FramesHandled`.

**`ip`**: two hosts send a datagram of three fragments and one of two under the
same id, the first also a short one that Ethernet pads; ids wrap, calls fail
between fragments, the list fills up and expires; every bit of every header may
be inverted, of the header length too. What is handed up is always a whole
datagram that was sent. `MCIp` assumes `IhlNoticed`, which TLC evaluates for these
datagrams.

The `violation` runs are disagreements between the code and what its comments
or its tests say of it; `PROJECT.json` quotes both sides:

- `host_closing`: close after the peer's FIN goes to CLOSING (1117), where the
  ACK of our FIN fails `ack + 1 == snd.nxt` (579). Nothing is left
  unacknowledged, so no timeout applies, and the control block is lost. The
  counterexample is a lasso under `FairSpec`.
- `pair_held`: the active side enters ESTABLISHED with `snd.wnd = 0` (393) and
  never sends what it holds back, under fair delivery too (`DeliverySpec`).
- `arp_found`: a caller waits on a pending entry, the patrol clears it and an
  insertion takes it for another host before the caller runs; `arp_resolve`
  looks at `used` and not at the address (`arp.c:337`) and returns the other
  host's hardware address. One caller is enough.
- `stack_send`: an ARP request nobody answers makes `tcp_tx` fail, `tcp_api_send`
  returns with the mutex locked (1460), and the receive thread never gets past
  the next segment.

Further behaviours of the code that the models have, with no run of their own:

- an ACK of everything but the FIN moves FIN_WAIT1 to FIN_WAIT2 (571);
- `connect` returns 0 after a refusal or a timeout (1216), and on a control block
  that once served a listener it keeps that parent (268);
- a reopened control block keeps its old ephemeral port, so that two connections
  may have the same port and peer;
- a FIN sent after an idle `USER_TIMEOUT` is given up by the next timer pass,
  since `tcp_close` does not restart the timeout (1097);
- a control block reset while in a backlog and opened again is returned by
  `accept` too (1299);
- closing a listener leaves the established connections of its backlog open,
  because `tcp_close` refuses a control block with `used == 0` (1059);
- a segment that starts inside the receive window and ends beyond it is copied
  whole (644) and `rcv.wnd` wraps; a sender that fills the window reaches this;
- a FIN is taken although data before it is missing (675);
- `ip_rx` takes the header length for true: below 5 the end of the header becomes
  payload, above `len` the payload's length is a `size_t` below zero (`ip.c:328`,
  363);
- the TCP timer thread never stops, and `apps/tcp_echo.c` closes the device (146-152)
  with its accept and handler threads alive: whichever sends next follows a null
  `dev->priv` (`ethernet.c:203`, 219);
- a second entry for a host in the ARP table may be a pending one in front of a
  resolved one, which it hides until it is answered or expires;
- `count` is not decreased when the reassembly list's patrol drops an entry, so
  that after `IP_FRAGMENT_NUM_MAX` expired datagrams every new one is refused
  (`ip.c:197`).

### Bounds

`SeqSpace` is far above any number used; the host's `random()` gives one value,
since only differences to it are ever compared, and it is below 2^31, so that
without data nothing wraps (`IssAssumption`). In `pair_lossy` a window of 4,
segments of 2 and a send buffer of 3 make segments of 2, 1 and 2 bytes, of which
the last may meet a window of 1, 2 or 4; in `pair_fin` one byte fills the send
buffer. `MaxBacklog`, `MaxTxq` and `MaxNet` cap what the code
leaves unbounded: a full link loses. Symmetry of threads and peers is used in the
runs that check safety only.

ARP: three entries are one more than `AtMostTwice` allows a host; two hosts and
two callers make an entry change its host under a waiter, let two callers wait
on one entry and fill the table. The timeouts are 0 or 1 seconds, so that an
answer, the wait's end and the patrol can come in any order. `Stack` has two
entries, the application, the timer and the receive thread, and up to two packets
under the mutex, so that one may fail and another follow.

IP: fragments of 6 octets, offsets in units of 2 and mask words of 4 bits make
fragments that start and end inside, at and across word boundaries; ids start at
3 of 4 and wrap; two list entries for three datagrams; nine header words of 5
bits, of which any one may be inverted.

Deadlock checking is on in every run; `Tick` is always enabled, so it asks
nothing of the code: what must not get stuck is stated as a liveness property.

### Fairness

`Fairness` asks that the clock runs, that the timer thread makes its passes (it
waits in `pthread_cond_timedwait` for 100 ms at most and takes the mutex, which
every call releases), and that a
thread that was woken gets the mutex and goes on. In `TcpPair` it also asks that
a thread inside `send` goes on. It asks nothing of the peers, the network or of
what applications call; only `pair_held` adds weak fairness of delivery, where
otherwise the counterexample would be a network that does nothing.

`ArpFairness` asks that the clock runs, that a timed wait ends once its time is
over, that a thread whose wait ended gets the ARP mutex (nobody keeps it across a
wait) and that `arp_rx` goes on to its second critical section. `PendingEnds`
has its own premise, that ARP messages keep arriving, because only `arp_rx`
patrols. `Stack`'s `Fairness` adds that threads inside TCP go on, that `poll`
returns after a second and a join when the thread has ended, and strong fairness
for one step: the receive thread gets the TCP mutex if it becomes free again and
again. The same would not follow from weak fairness, as the timer and the
applications may take it in between; pthread mutexes give it in practice though
POSIX does not promise it.

### Refinements

`TcpPair` implements `StreamSpec` (`ImplementsStream`) with `sent` the part of the
stream passed to `send`, `received` what `recv` has returned followed by the
receive buffer, `read` what `recv` has returned and `eof` the state CLOSE_WAIT. A
reset or a timeout is the abstract `Abort`. `Ip` implements `DatagramSpec`
(`ImplementsDatagram`) with `sent` the datagrams whose `ip_tx` has begun. Both are
safety: nothing says that data arrive, which neither layer can promise alone
(`pair_held` is a case where they never do).

## 4. Theorems

### One host

`TcpHostProofs` and `TcpHostWakeupProofs` prove, for every `NCb`, sets of threads,
peers, ports, ISS values and data-free segments:

- `TypeCorrect`: `Spec => []TypeOK`, the transmission queue included;
- `SndInvHolds`: `Spec => []SndInv`. `snd.una` lies between `iss` and `snd.nxt`;
  `snd.nxt` is `iss + 1` before and `iss + 2` after the host's FIN, and both are 0
  in CLOSED and LISTEN;
- `ConnUniqueHolds`: `ASSUME FreshListen, Targets = {} PROVE Spec => []ConnUnique`;
- `ConnectWakeups`: `ASSUME ~Shared PROVE Spec => []ConnectNoLostWakeup`;
- `AcceptWakeups`: `ASSUME FreshListen, ~Shared \/ Targets = {}
  PROVE Spec => []AcceptNoLostWakeup`.

Assumptions on the constants: `SeqSpaceAssumption`, `WinSizeAssumption`,
`TimeoutAssumption`, `HostAssumption`, `IssAssumption` (`iss + 2 < SeqSpace`: a
connection without data does not wrap), `SegmentsAssumption`, and
`ThreadsAssumption` (finitely many threads, so that they can be counted). The
hypotheses of the last three theorems are the restrictions of section 2, and none
can be dropped: with `Targets` not empty a reopened control block connects from
its old port and duplicates a connection; without `FreshListen` a listener that
kept a peer is turned into that peer's connection while threads sleep in accept
on it; with `Shared` a signal reaches one of two connecting threads.

The inductive invariant of the first two, `IndInv`, is `CbInv` of every control
block and `ThreadOK` of every thread. `CbInv` adds two facts to the types and
`SndOK`: the record's shape, and `iss + 2 < SeqSpace` in every state, CLOSED
included, because a failed `connect` leaves `iss` in a CLOSED control block.
`ThreadOK` adds that a blocked thread's socket is a control block, which
`ConnectWake` and `AcceptWake` need to look it up. Types and `SndOK` must go
together: `SndOK` needs `snd.nxt` in range to know that `SeqAdd` did not wrap, and
the range of `snd.una` after an ACK needs the comparison with `snd.nxt`. The
argument has three layers: a lemma per operator of `TcpCb` (from a control block
in `CbInv` it returns one in `CbInv`; `tcp_tx` changes nothing but the queue,
`Alike`), a lemma per action (`OpenStep` ... `TickStep`), and `NextInv` over the
disjuncts of `Next`. The queue has its own invariant, `QueueInv`, since nothing
else depends on it. `MinIn` (a non-empty set of numbers has a least element) comes
from the well-foundedness of the naturals.

The other three rest on one description of what a step does. Most steps only
`Settle` control blocks: port and peer stay, no listener and no half-open
connection appears, and one that is closed has its threads woken. `StepCases`
shows that every step settles or is a connect, bind, listen, accept, a wake-up or
a segment (`RxDoes`: the control block found, the listener it came from, the
handler's result and its notification). On top of it:

- `ConnUnique` is inductive together with `ListenFresh` (a listener has no peer),
  which is why a SYN takes a new control block only when no connection answers
  for its port and peer;
- `ConnectAlone` strengthens `ConnectNoLostWakeup` by what the signal of line 395
  relies on: a connecting thread is alone on its socket, and the socket does not
  become a listener before the thread has run;
- `AcceptNoLostWakeup` counts: a backlog is never longer than the number of woken
  threads in accept on it, if any sleeps. It is inductive with `ListenFresh` and
  `Apart` (no thread is in connect on a listener, where it would swallow the
  signal meant for a thread in accept).

### One connection

`TcpPairProofs` proves, for every stream, segment and buffer size, loss pattern
and set of ends that close, at any time:

- `PairTypeCorrect`: `Spec => []TypeOK`;
- `RecvWakeups`, `SendWakeups`: `Spec => []RecvNoLostWakeup` and
  `Spec => []SendNoLostWakeup`.

`WakeInv` says what a sleeper relies on (nothing to read in a state that may still
change that; something unacknowledged, and no room while the state allows
sending). `TcpCbProofs` shows for every operator that its result is `Quiet`, which
keeps sleepers right, or comes with a broadcast. A close is quiet: it adds a FIN
to what is unacknowledged. That this makes `snd.una` and `snd.nxt` differ needs
that `snd.nxt` did not wrap, which is `NextInv`: up to the FIN it counts the bytes
passed to `send`.

`TcpPairStreamProofs` proves, `ASSUME Closers = {}`, for streams and windows of any
size:

- `WindowAccountsHolds`, `AckedDeliveredHolds`, `UnackedQueuedHolds`: `Spec => []P`
  for the three invariants of run `pair_lossy`;
- `StreamRefinement`: `Spec => ImplementsStream`. Two ends that run this code over
  a network that loses, repeats and reorders are a byte stream each way.

Assumptions on the constants: those of `TcpCb`, `PairAssumption` (a connection's
sequence numbers do not wrap: the code compares them as plain numbers, so past
2^32 nothing of this holds) and `StreamAssumption`. `Closers = {}` is there because
a FIN is taken although data before it is missing (675). A stream may be longer
than the window and overrun it (644); the theorems hold up to that step and
including it, except `WindowAccounts`, which is about an end that was not overrun,
and the model does not follow that end further.

The inductive invariant `StreamInv` has for each end `Local(e)`: the states that
occur without a close, `snd.nxt` as the number of bytes passed to `send`,
`rcv.nxt` as the number of bytes received, the queue's segments as pieces of the
stream (`QueueInv`), and the queue covering everything from `snd.una` to `snd.nxt`
(`CoverInv`); and `Cross(e)` between what `e` sends and what its peer has: a prefix
(`PrefixInv`), segments in flight that are pieces of the stream (`NetInv`),
acknowledgements in flight and `snd.una` that are not ahead of the receiver
(`AcksInv`, `UnaInv`), and `CutInv`: no acknowledgement, `snd.una` or `rcv.nxt`
lies inside a queued or flying segment. The last one is what makes the rest
inductive. The code takes a queued segment out only when all of it is
acknowledged and takes an incoming one only if it starts at `rcv.nxt`; both are
right only because acknowledgements fall on the borders of segments, which holds
since a retransmission repeats a segment as it was.

Each step is, at each end, one of five `Kinds` (`Advance`: data or an ACK,
`Shuts`, `OpensUp`, `EstablishesUp`, `Sends`); each kind keeps `Local` and gives
the other end what its half of `Cross` needs (`Well`), and `WellKeeps` puts the
two together. For the refinement one end moves and the other is `Still`, and the
move is a `Send`, `Receive`, `Read` or `Abort` of `StreamSpec` or a stutter.
`DataLen` and `Kept`, which the code computes in loops, are recursive functions;
what is needed of them is proved by taking the least position where it fails,
since induction over data is out of the prover's reach.

### ARP

`ArpProofs` proves, for every table size, sets of hosts and callers and every
timeout, from `ArpAssumption` (hosts have distinct hardware addresses, none of
them `Any`) and `NoMsgAssumption`:

- `ArpTypeCorrect`: `ArpSpec => []ArpTypeOK`;
- `TableTrueHolds`: `ArpSpec => []TableTrue`;
- `ArpNoLostWakeupHolds`: `ArpSpec => []ArpNoLostWakeup`;
- `AtMostTwiceHolds`: `ArpSpec => []AtMostTwice`.

The first three are one inductive invariant, `IndInv`: `TableOK` (types and
`TableTrue`, entry by entry) and `CallsOK` (types, and a sleeping caller's entry
has no hardware address). They need each other: that a free entry is empty is
what makes a new pending entry unresolved and an inserted one without a packet,
and a change of the table keeps callers right only if every entry that gains a
hardware address is broadcast (`BroadcastOK`) or none does (`CallsKept`).

`AtMostTwice` is not inductive: from two entries and a message under way the next
step would make three. `TwiceInv` adds that between the critical sections of
`arp_rx` the sender has at most one entry, which holds because `RxUpdate` leaves
a message only when it found none, and because `arp_resolve` adds an entry only
for an address without one.

### The stack

`StackProofs` proves, from these and `StackAssumption`:

- `StackArpHolds`: `ArpTypeOK`, `TableTrue` and `ArpNoLostWakeup` hold in `Stack` too,
  because each of its steps is a step of `Arp`, leaves `Arp` alone, or resets what
  a call returned (`StepsOfArp`);
- `StackTypeCorrect`: `Spec => []TypeOK`; a call never passes more packets than it
  has, the mutex is free, owned by a thread, or left locked, and there is one
  receive thread at a time: `arp_rx` is between its critical sections exactly when
  that thread is, and it owns the TCP mutex exactly while it is in `tcp_rx`;
- `NoUseAfterCloseHolds`: `Spec => []NoUseAfterClose`, which is about the receive
  thread: nothing in the code makes it true of the others, and `apps/tcp_echo.c`
  does close the device under them.

The invariant behind the last two is `WaitInv` (a thread waits for ARP only while
it owns the TCP mutex) and `DevInv`: while the receive thread runs, the device is
open and `priv->thread` is its id, which is what `ethernet_close` decides on; while
a stop or close is joining, the device is open; and the receive thread owns the
TCP mutex exactly inside `tcp_rx`.

### IP

`IpProofs` proves, for every set of calls and datagrams, every size of header,
fragment, mask word and list, every timeout, and every network that loses,
repeats, reorders and inverts a bit of a header, `ASSUME IhlNoticed`:

- `IpTypeCorrect`: `Spec => []TypeOK`;
- `DataAgreesHolds`, `NoneWholeHolds`, `ListBoundedHolds`: `Spec => []P` for the
  three invariants of run `ip`;
- `DatagramRefinement`: `Spec => ImplementsDatagram`. What a handler is called
  with is a whole datagram that was sent.

Assumptions on the constants: `MaskAssumption` (a checksum word has more than 9
values), `IpAssumption` (a datagram fits the offset field and the buffer, the
mask has a bit for every octet of the buffer, the MTU without the header is a
multiple of the offset unit, and fewer datagrams than ids) and `HeaderAssumption`
(header fields fit a word). With the code's numbers (2^16 values, 2^16 ids, 2^13
offsets of 8 octets, 1480 = 185 * 8) all hold; that fewer datagrams than ids are
in the network is the restriction of section 2. `IhlNoticed` is a condition on the
datagrams: of destination, addresses and first words of the data together. It is
not a property of the code, and there are datagrams without it.

The inductive invariant `IInv` has two sides. The sender's, `SendInv`: a call
stands at a multiple of the offset unit (`TxInv`), what is in the network are
fragments of calls that have begun (`NetInv`), and no two calls of a host have the
same id (`IdInv`). The last is not inductive alone, since the counter wraps: the
invariant says that the ids in use are the last ones before the counter, so that
with fewer calls than ids the next one is free. The receiver's, `ListInv`: every
entry of the list is `For` one call that has begun, with its addresses, protocol
and id, a length that is not yet known or that call's, and under every bit of the
mask the octet of that call's datagram; and it is `Missing` an octet. `count`
bounds the list. That entries are kept only while they miss an octet needs the
masks to be exact, and that an entry stays one call's needs the ids.

The two sides meet in `RxStep`, and the argument rests on four facts:

- `SpanIs`, `MaskSet`, `MaskChk`: head bits, full words and tail bits of `maskset`
  and `maskchk` are exactly the octets of the range, for every word size, offset
  and length;
- `OneBit`: a header with one inverted bit, and its header length as it was, never
  passes `cksum16`. Folding keeps
  the sum modulo `Modulus - 1`, a valid header sums to a multiple of it, and a bit
  changes the sum by a power of two that is none;
- `HeaderRead`, `PayloadRead`: what `ip_rx` reads of a fragment is what `ip_tx_core`
  wrote, flag and offset in one word and Ethernet's padding included; so a packet
  that passes the checks is as it was sent (`ValidIntact`);
- `FoundFor`: the entry `ip_fragment_search` finds is the one of the fragment's call.

`CompleteIs` concludes that an entry that passes `maskchk` holds the datagram from
its first to its last octet. The refinement maps `TxStart` to `Send`, a delivery to
`Deliver` and every other step to a stutter. The sum in `cksum16` is a recursive
function over the words; a header has nine, so that its value is computed place by
place and no induction is needed. Over a header of another length `cksum16` is
taken over other words, of which nothing is known: that case is `IhlNoticed`.

### Only model-checked

- Liveness: `HalfOpenReclaimed`, `ConnectReturns`, `SendReturns`, `ResolveReturns`,
  `PendingEnds`, `CallReturns`, `FramesHandled`, `StopReturns`. The prover has no
  rules for fairness.
- `ImplementsStream` when a side closes (run `pair_fin`): the theorem has
  `Closers = {}`. With closes it holds only if the network keeps the order and loses
  nothing, and the invariant for that relates positions in the network, which
  `StreamInv` does not.

Every invariant of a passing run is a theorem.

## 5. Plan

Done: `TcpCb`, `TcpHost`, `TcpPair`; `Arp`; `Stack`, which is ARP, the device and the
TCP mutex composed; `Mask` and `Ip`; `StreamSpec` and `DatagramSpec` with their
refinements; a theorem for every invariant the runs check and for both
refinements. Next, in this order:

1. `ImplementsStream` with closes, on a network that keeps the order and loses
   nothing.
2. What follows a full window: `recv` opens it without telling the peer (1353).

## 6. Not modelled

- `tcp_checksum`: segments are records without a byte layout; the sum itself is
  `cksum16`, which guards the header in `Ip`.
- `queue_push` and `queue_pop` appear as a sequence (the backlog), not as a list
  with pointers.
- The registry (`net.c`) is filled once at start-up by one thread and only read
  afterwards; the choice of the handler by type is in `Stack`.
- The raw devices are system calls; their timed wait for a frame is in `Stack`.
- The memory behind a reassembly entry (`maskclr`'s size, offsets beyond the
  buffer) and what happens after a use of freed memory.
- `tcp_dump`, `hexdump`, address parsing and formatting are conversions and
  output that no property needs.
- The programs under `apps/` and `test/` are callers. Their calls of TCP are among
  the choices of `TcpHost` and `TcpPair`, within the restrictions of section 2. In
  `Stack` a program such as `tcp_echo`, which closes the device with threads alive,
  is followed up to the first use of the closed device.

## 7. Running

    tlc -workers 2 -config MCTcpHostServer.cfg MCTcpHost
    tlc -workers 2 -config MCArp.cfg MCArp
    for m in TcpCb TcpHost TcpHostWakeup TcpPair TcpPairStream Arp Stack Ip
    do tlapm ${m}Proofs.tla; done
