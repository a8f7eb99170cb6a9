--------------------------------- MODULE Arp ---------------------------------
(***************************************************************************)
(* The ARP table and the resolution of addresses (arp.c).                  *)
(*                                                                         *)
(* arp_resolve runs in any thread that sends, arp_rx in the receive        *)
(* thread.  Every critical section of the ARP mutex is one action:         *)
(* arp_resolve has one up to its timed wait (Resolve) and one after it     *)
(* (ResolveReturn), arp_rx has one for patrol and update (RxUpdate) and    *)
(* one for the insertion (RxInsert).  The requests and replies it sends go *)
(* to hosts that may send any message at any time.                         *)
(***************************************************************************)
EXTENDS Naturals, FiniteSets, FiniteSetsExt

CONSTANTS
    NEntries,               \* ARP_TABLE_SIZE
    Callers,                \* threads that may call arp_resolve
    Hosts,                  \* protocol addresses of the other hosts
    Me,                     \* this interface's address
    Elsewhere,              \* the address of somebody else in a message
    HwOf,                   \* HwOf[h]: the hardware address of host h
    Any,                    \* ETHERNET_ADDR_ANY
    NoHost,                 \* protocol address 0, and no saved packet
    NoMsg,                  \* arp_rx is not between its critical sections
    ARP_TABLE_TIMEOUT_SEC,
    PatrolPeriod,           \* seconds between two patrols
    ResolveTimeout          \* seconds arp_resolve waits

ASSUME ArpAssumption ==
    /\ NEntries \in Nat \ {0}
    /\ ARP_TABLE_TIMEOUT_SEC \in Nat /\ PatrolPeriod \in Nat
    /\ ResolveTimeout \in Nat
    /\ \A h \in Hosts : HwOf[h] # Any
    /\ \A g, h \in Hosts : HwOf[g] = HwOf[h] => g = h
    /\ NoHost \notin Hosts
    /\ Me # Elsewhere

Entries == 1..NEntries

\* An ARP message as arp_rx uses it: sha is the sender's hardware address.
Messages == [spa : Hosts, tpa : {Me, Elsewhere}]

ASSUME NoMsgAssumption == NoMsg \notin Messages

VARIABLES
    table,   \* arp_table; data is the destination of the saved packet, if any
    since,   \* seconds since the last patrol (timestamp), cut where it is due
    call,    \* where each caller is in arp_resolve, or what it returned
    rx       \* the message arp_rx goes on to insert

arpVars == <<table, since, call, rx>>

Blank == [used |-> FALSE, pa |-> NoHost, ha |-> Any, age |-> 0, data |-> NoHost]

\* A caller outside arp_resolve, with what the last call returned.
Returned(pa, ret, ha) ==
    [pc |-> "done", pa |-> pa, entry |-> 0, left |-> 0, ret |-> ret, ha |-> ha]

MutWaiting(pa, e) ==
    [pc |-> "wait", pa |-> pa, entry |-> e, left |-> ResolveTimeout + 1,
     ret |-> "NONE", ha |-> Any]

\* A caller inside arp_resolve: "wait" in pthread_cond_timedwait, "woken" by a
\* broadcast or "expired" (ETIMEDOUT) and not running yet.
Waiting(pa, e) ==
    [pc |-> "wait", pa |-> pa, entry |-> e, left |-> ResolveTimeout,
     ret |-> "NONE", ha |-> Any]

ArpInit ==
    /\ table = [e \in Entries |-> Blank]
    /\ since = 0
    /\ call = [t \in Callers |-> Returned(NoHost, "NONE", Any)]
    /\ rx = NoMsg

-----------------------------------------------------------------------------
(***************************************************************************)
(* The table.                                                              *)
(***************************************************************************)
\* The entries for pa, of which arp_table_select takes the first.
UsedFor(tab, pa) == {e \in Entries : tab[e].used /\ tab[e].pa = pa}
Free(tab) == {e \in Entries : ~tab[e].used}
arp_table_select(tab, pa) == Min(UsedFor(tab, pa))
arp_table_freespace(tab) == Min(Free(tab))

MutClear(entry) == [Blank EXCEPT !.ha = entry.ha]

arp_entry_clear(entry) == Blank

MutBroadcast(c, es) ==
    LET ts == {t \in Callers : c[t].pc = "wait" /\ c[t].entry \in es}
    IN  IF ts = {} THEN c ELSE [c EXCEPT ![CHOOSE t \in ts : TRUE].pc = "woken"]

\* pthread_cond_broadcast(&entry->cond) for every e in es.
Broadcast(c, es) ==
    [t \in Callers |-> IF c[t].pc = "wait" /\ c[t].entry \in es
                       THEN [c[t] EXCEPT !.pc = "woken"] ELSE c[t]]

MutExpired(tab) == {e \in Entries : tab[e].used /\ tab[e].ha # Any
                                    /\ tab[e].age > ARP_TABLE_TIMEOUT_SEC}

Expired(tab) == {e \in Entries : tab[e].used /\ tab[e].age > ARP_TABLE_TIMEOUT_SEC}

\* arp_rx patrols before it looks at the table, when the last patrol is old.
Patrolled(tab) == IF since > PatrolPeriod THEN Expired(tab) ELSE {}
arp_table_patrol(tab, es) ==
    [e \in Entries |-> IF e \in es THEN arp_entry_clear(tab[e]) ELSE tab[e]]

-----------------------------------------------------------------------------
(***************************************************************************)
(* arp_resolve.                                                            *)
(***************************************************************************)
Return(t, pa, ret, ha) == call' = [call EXCEPT ![t] = Returned(pa, ret, ha)]

ResolveFound(t, pa) ==
    LET ha == table[arp_table_select(table, pa)].ha
    IN  /\ UsedFor(table, pa) # {}
        /\ ha # Any
        /\ Return(t, pa, "FOUND", ha)
        /\ UNCHANGED table

\* A request for pa is pending: it is sent again, and the caller waits.
ResolveWait(t, pa) ==
    LET e == arp_table_select(table, pa)
    IN  /\ UsedFor(table, pa) # {}
        /\ table[e].ha = Any
        /\ call' = [call EXCEPT ![t] = Waiting(pa, e)]
        /\ UNCHANGED table

\* The packet is saved in a new pending entry.
ResolveQuery(t, pa) ==
    /\ UsedFor(table, pa) = {} /\ Free(table) # {}
    /\ table' = [table EXCEPT ![arp_table_freespace(table)] =
                    [@ EXCEPT !.used = TRUE, !.pa = pa, !.age = 0, !.data = pa]]
    /\ Return(t, NoHost, "QUERY", Any)

ResolveFull(t, pa) ==
    /\ UsedFor(table, pa) = {} /\ Free(table) = {}
    /\ Return(t, NoHost, "ERROR", Any)
    /\ UNCHANGED table

Resolve(t, pa) ==
    /\ call[t].pc = "done"
    /\ \/ ResolveFound(t, pa) \/ ResolveWait(t, pa)
       \/ ResolveQuery(t, pa) \/ ResolveFull(t, pa)
    /\ UNCHANGED <<since, rx>>

MutTimeOut(t) == FALSE /\ UNCHANGED arpVars

\* pthread_cond_timedwait gives up; the thread still has to get the mutex.
TimeOut(t) ==
    /\ call[t].pc = "wait" /\ call[t].left = 0
    /\ call' = [call EXCEPT ![t].pc = "expired"]
    /\ UNCHANGED <<table, since, rx>>

\* Back from the wait: an expired caller clears whatever the entry holds now,
\* a woken one takes whatever hardware address it has.
ResolveReturn(t) ==
    LET c == call[t]
        entry == table[c.entry]
    IN  /\ c.pc \in {"woken", "expired"}
        /\ IF entry.used /\ c.pc = "woken"
           THEN Return(t, c.pa, "FOUND", entry.ha) /\ UNCHANGED table
           ELSE /\ Return(t, NoHost, "ERROR", Any)
                /\ table' = [table EXCEPT ![c.entry] =
                                IF @.used THEN arp_entry_clear(@) ELSE @]
        /\ UNCHANGED <<since, rx>>

-----------------------------------------------------------------------------
(***************************************************************************)
(* arp_rx.                                                                 *)
(***************************************************************************)
\* arp_table_update: the entry is resolved and its saved packet leaves.
Updated(entry, pa) ==
    [entry EXCEPT !.ha = HwOf[pa], !.age = 0, !.data = NoHost]

MutInserts(found, msg) == msg.tpa = Me

\* A sender that was not in the table is saved if the message is for this host.
Inserts(found, msg) == ~found /\ msg.tpa = Me

\* First critical section: patrol, then update the entry of the sender.
RxUpdate(msg) ==
    LET es    == Patrolled(table)
        tab   == arp_table_patrol(table, es)
        found == UsedFor(tab, msg.spa) # {}
        e     == arp_table_select(tab, msg.spa)
    IN  /\ rx = NoMsg
        /\ since' = IF since > PatrolPeriod THEN 0 ELSE since
        /\ table' = IF found THEN [tab EXCEPT ![e] = Updated(@, msg.spa)] ELSE tab
        /\ call' = Broadcast(call, es \cup (IF found THEN {e} ELSE {}))
        /\ rx' = IF Inserts(found, msg) THEN msg ELSE NoMsg

\* Second one: the update found nothing and the message is for this host.
RxInsert ==
    LET e == arp_table_freespace(table)
    IN  /\ rx # NoMsg
        /\ rx' = NoMsg
        /\ IF Free(table) = {} THEN UNCHANGED <<table, call>>
           ELSE /\ table' = [table EXCEPT ![e] =
                       [@ EXCEPT !.used = TRUE, !.pa = rx.spa,
                                 !.ha = HwOf[rx.spa], !.age = 0]]
                /\ call' = Broadcast(call, {e})
        /\ UNCHANGED since

-----------------------------------------------------------------------------
\* One second passes.
ArpTick ==
    /\ table' = [e \in Entries |->
                    IF table[e].used /\ table[e].age <= ARP_TABLE_TIMEOUT_SEC
                    THEN [table[e] EXCEPT !.age = @ + 1] ELSE table[e]]
    /\ since' = IF since <= PatrolPeriod THEN since + 1 ELSE since
    /\ call' = [t \in Callers |-> IF call[t].pc = "wait" /\ call[t].left > 0
                                  THEN [call[t] EXCEPT !.left = @ - 1] ELSE call[t]]
    /\ UNCHANGED rx

ArpNext ==
    \/ \E t \in Callers : \/ \E pa \in Hosts : Resolve(t, pa)
                          \/ TimeOut(t)
                          \/ ResolveReturn(t)
    \/ \E msg \in Messages : RxUpdate(msg)
    \/ RxInsert
    \/ ArpTick

ArpSpec == ArpInit /\ [][ArpNext]_arpVars

(***************************************************************************)
(* Fairness: the clock runs, a wait ends when its time is over, a thread   *)
(* whose wait ended gets the mutex, and arp_rx goes on.                    *)
(***************************************************************************)
ArpFairness ==
    /\ WF_arpVars(ArpTick) /\ WF_arpVars(RxInsert)
    /\ \A t \in Callers : WF_arpVars(TimeOut(t)) /\ WF_arpVars(ResolveReturn(t))

ArpFairSpec == ArpSpec /\ ArpFairness

-----------------------------------------------------------------------------
InWait(t) == call[t].pc \in {"wait", "woken", "expired"}
HwAddrs == {HwOf[h] : h \in Hosts} \cup {Any}

\* The table, the callers and arp_rx are well formed.
ArpTypeOK ==
    /\ table \in [Entries -> [used : BOOLEAN, pa : Hosts \cup {NoHost},
                              ha : HwAddrs, age : 0..ARP_TABLE_TIMEOUT_SEC + 1,
                              data : Hosts \cup {NoHost}]]
    /\ since \in 0..PatrolPeriod + 1
    /\ call \in [Callers -> [pc : {"done", "wait", "woken", "expired"},
                             pa : Hosts \cup {NoHost}, entry : 0..NEntries,
                             left : 0..ResolveTimeout, ha : HwAddrs,
                             ret : {"NONE", "ERROR", "QUERY", "FOUND"}]]
    /\ \A t \in Callers : InWait(t) => call[t].entry \in Entries
    /\ rx \in Messages \cup {NoMsg}

\* What the table says is true, however entries are cleared and used again: a
\* hardware address is the one of its entry's host, a packet is saved only in
\* an unresolved entry for its destination (so that the answer sends it there),
\* and a free entry holds nothing that the next use would inherit.
TableTrue ==
    \A e \in Entries :
        /\ table[e].ha # Any => table[e].used /\ table[e].ha = HwOf[table[e].pa]
        /\ table[e].data # NoHost =>
             table[e].used /\ table[e].ha = Any /\ table[e].data = table[e].pa

\* arp_rx looks for the sender in one critical section and inserts it in
\* another.  What callers add in between makes a second entry for the same
\* host, and no interleaving makes a third.
AtMostTwice == \A h \in Hosts : Cardinality(UsedFor(table, h)) <= 2

\* No lost wake-up: a caller sleeps only while the entry it waits on has no
\* hardware address, whoever resolves, clears or reuses the entry.
ArpNoLostWakeup == \A t \in Callers : call[t].pc = "wait" => table[call[t].entry].ha = Any

\* Every call of arp_resolve returns, whether or not anybody answers.
ResolveReturns == \A t \in Callers : InWait(t) ~> ~InWait(t)

Pending(e) == table[e].used /\ table[e].ha = Any

\* A request nobody answers does not keep its entry for ever: while ARP
\* messages of any kind keep arriving, the patrol gives the entry back.
PendingEnds ==
    ([]<><<\E msg \in Messages : RxUpdate(msg)>>_arpVars)
        => \A e \in Entries : Pending(e) ~> ~Pending(e)

-----------------------------------------------------------------------------
\* "wait until reply come with timeout" (arp.c:334): the hardware address that
\* arp_resolve returns is the one of the host it was asked for.
FoundTrue ==
    \A t \in Callers : call[t].ret = "FOUND" => call[t].ha = HwOf[call[t].pa]
=============================================================================
