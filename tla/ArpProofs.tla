------------------------------ MODULE ArpProofs ------------------------------
(***************************************************************************)
(* The safety invariants of Arp, for every table size, every set of hosts  *)
(* and callers and every timeout.                                          *)
(*                                                                         *)
(* IndInv joins the three invariants that hold each other up.  A free      *)
(* entry must be empty (TableTrue) for ResolveQuery to make an entry       *)
(* without a hardware address and for RxInsert to make one without a       *)
(* packet, and callers' entries must be in the table (ArpTypeOK) to        *)
(* speak of their hardware address (ArpNoLostWakeup).  TwiceInv            *)
(* strengthens AtMostTwice by what holds between the critical sections of  *)
(* arp_rx: at most one entry is for the sender it goes on to insert.       *)
(***************************************************************************)
EXTENDS Arp, TLAPS, FiniteSetTheorems, WellFoundedInduction

EntryType == [used : BOOLEAN, pa : Hosts \cup {NoHost}, ha : HwAddrs,
              age : 0..ARP_TABLE_TIMEOUT_SEC + 1, data : Hosts \cup {NoHost}]

CallType == [pc : {"done", "wait", "woken", "expired"},
             pa : Hosts \cup {NoHost}, entry : 0..NEntries,
             left : 0..ResolveTimeout, ha : HwAddrs,
             ret : {"NONE", "ERROR", "QUERY", "FOUND"}]

\* The invariant of one entry of the table.
EntryOK(n) ==
    /\ n \in EntryType
    /\ n.ha # Any => n.used /\ n.ha = HwOf[n.pa]
    /\ n.data # NoHost => n.used /\ n.ha = Any /\ n.data = n.pa

TableOK(tab) == tab \in [Entries -> EntryType] /\ \A e \in Entries : EntryOK(tab[e])

\* The invariant of one caller, given the table.
CallOK(c, tab) ==
    /\ c \in CallType
    /\ c.pc # "done" => c.entry \in Entries
    /\ c.pc = "wait" => tab[c.entry].ha = Any

CallsOK(cs, tab) ==
    cs \in [Callers -> CallType] /\ \A t \in Callers : CallOK(cs[t], tab)

IndInv ==
    /\ TableOK(table)
    /\ CallsOK(call, table)
    /\ since \in 0..PatrolPeriod + 1
    /\ rx \in Messages \cup {NoMsg}

-----------------------------------------------------------------------------
(***************************************************************************)
(* The table.                                                              *)
(***************************************************************************)
LEMMA LeastIn ==
    ASSUME NEW S, S \subseteq Entries, S # {}
    PROVE  Min(S) \in S
<1> DEFINE R == OpToRel(<, Nat)
<1>1. S \subseteq Nat
  BY ArpAssumption DEF Entries
<1>2. \E x \in S : \A y \in S : ~(<<y, x>> \in R)
  BY <1>1, NatLessThanWellFounded, WFMin
<1>3. R = {p \in Nat \X Nat : p[1] < p[2]}
  BY DEF OpToRel
<1> HIDE DEF R
<1>4. PICK x \in S : \A y \in S : ~(<<y, x>> \in R)
  BY <1>2
<1>5. ASSUME NEW y \in S, ~(x <= y) PROVE FALSE
  <2>1. x \in Nat /\ y \in Nat /\ y < x
    BY <1>1, <1>5
  <2>2. <<y, x>> \in R
    BY <1>3, <2>1
  <2>3. QED
    BY <1>4, <2>2
<1>6. QED
  BY <1>5 DEF Min

LEMMA SelectIn ==
    ASSUME NEW tab, NEW pa, UsedFor(tab, pa) # {}
    PROVE  /\ arp_table_select(tab, pa) \in Entries
           /\ tab[arp_table_select(tab, pa)].used
           /\ tab[arp_table_select(tab, pa)].pa = pa
<1>1. arp_table_select(tab, pa) \in UsedFor(tab, pa)
  BY LeastIn DEF UsedFor, arp_table_select
<1>2. QED
  BY <1>1 DEF UsedFor

LEMMA FreespaceIn ==
    ASSUME NEW tab, Free(tab) # {}
    PROVE  /\ arp_table_freespace(tab) \in Entries
           /\ ~tab[arp_table_freespace(tab)].used
<1>1. arp_table_freespace(tab) \in Free(tab)
  BY LeastIn DEF Free, arp_table_freespace
<1>2. QED
  BY <1>1 DEF Free

\* A cleared entry is well formed and has no hardware address.
LEMMA BlankOK == EntryOK(Blank) /\ Blank.ha = Any /\ ~Blank.used
  BY ArpAssumption DEF EntryOK, EntryType, Blank, HwAddrs

\* An answer makes a used entry for its sender resolved.
LEMMA UpdatedOK ==
    ASSUME NEW n, EntryOK(n), NEW h \in Hosts, n.used, n.pa = h
    PROVE  EntryOK(Updated(n, h))
<1> DEFINE u == Updated(n, h)
<1>1. HwOf[h] \in HwAddrs
  BY DEF HwAddrs
<1>2. 0 \in 0..ARP_TABLE_TIMEOUT_SEC + 1
  BY ArpAssumption
<1>3. u \in EntryType
  BY <1>1, <1>2 DEF EntryOK, EntryType, Updated
<1>4. u.used = n.used /\ u.pa = n.pa /\ u.ha = HwOf[h] /\ u.data = NoHost
  BY DEF EntryOK, EntryType, Updated
<1>5. QED
  BY <1>3, <1>4 DEF EntryOK

\* The patrol leaves a well formed table, and resolves nothing.
LEMMA PatrolOK ==
    ASSUME NEW tab, TableOK(tab), NEW es
    PROVE  /\ TableOK(arp_table_patrol(tab, es))
           /\ \A e \in Entries : arp_table_patrol(tab, es)[e] \in {tab[e], Blank}
  BY BlankOK DEF TableOK, EntryOK, arp_table_patrol, arp_entry_clear

\* A broadcast wakes the callers on es, so that only the others need an entry
\* without a hardware address.
LEMMA BroadcastOK ==
    ASSUME NEW tab, NEW new, NEW es, CallsOK(call, tab),
           \A e \in Entries \ es : tab[e].ha = Any => new[e].ha = Any
    PROVE  CallsOK(Broadcast(call, es), new)
<1>1. ASSUME NEW t \in Callers PROVE CallOK(Broadcast(call, es)[t], new)
  <2>1. CallOK(call[t], tab)
    BY DEF CallsOK
  <2>2. CASE call[t].pc = "wait" /\ call[t].entry \in es
    <3>1. Broadcast(call, es)[t] = [call[t] EXCEPT !.pc = "woken"]
      BY <2>2 DEF Broadcast
    <3>2. QED
      BY <2>1, <2>2, <3>1 DEF CallOK, CallType
  <2>3. CASE ~(call[t].pc = "wait" /\ call[t].entry \in es)
    <3>1. Broadcast(call, es)[t] = call[t]
      BY <2>3 DEF Broadcast
    <3>2. QED
      BY <2>1, <2>3, <3>1 DEF CallOK
  <2>4. QED
    BY <2>2, <2>3
<1>2. Broadcast(call, es) \in [Callers -> CallType]
  BY <1>1 DEF Broadcast, CallOK
<1>3. QED
  BY <1>1, <1>2 DEF CallsOK

LEMMA ReplaceOK ==
    ASSUME NEW tab, TableOK(tab), NEW e \in Entries, NEW n, EntryOK(n)
    PROVE  TableOK([tab EXCEPT ![e] = n])
  BY DEF TableOK, EntryOK

-----------------------------------------------------------------------------
(***************************************************************************)
(* The callers.                                                            *)
(***************************************************************************)
LEMMA ReturnedOK ==
    ASSUME NEW tab, NEW pa \in Hosts \cup {NoHost}, NEW ha \in HwAddrs,
           NEW ret \in {"NONE", "ERROR", "QUERY", "FOUND"}
    PROVE  CallOK(Returned(pa, ret, ha), tab)
  BY ArpAssumption DEF CallOK, CallType, Returned

LEMMA WaitingOK ==
    ASSUME NEW tab, NEW pa \in Hosts, NEW e \in Entries, tab[e].ha = Any
    PROVE  CallOK(Waiting(pa, e), tab)
  BY ArpAssumption DEF CallOK, CallType, Waiting, Entries, HwAddrs

LEMMA CallReplaceOK ==
    ASSUME NEW cs, NEW tab, CallsOK(cs, tab), NEW t \in Callers, NEW c, CallOK(c, tab)
    PROVE  CallsOK([cs EXCEPT ![t] = c], tab)
  BY DEF CallsOK, CallOK

\* Callers do not notice a change that gives no entry a hardware address.
LEMMA CallsKept ==
    ASSUME NEW cs, NEW tab, NEW new, CallsOK(cs, tab),
           \A e \in Entries : tab[e].ha = Any => new[e].ha = Any
    PROVE  CallsOK(cs, new)
  BY DEF CallsOK, CallOK

LEMMA AnyIn == Any \in HwAddrs /\ NoHost \in Hosts \cup {NoHost}
  BY DEF HwAddrs

-----------------------------------------------------------------------------
(***************************************************************************)
(* Initial states and steps.                                               *)
(***************************************************************************)
LEMMA InitInv == ArpInit => IndInv
<1> SUFFICES ASSUME ArpInit PROVE IndInv
  OBVIOUS
<1>1. TableOK(table)
  BY BlankOK DEF ArpInit, TableOK, EntryOK
<1>2. CallsOK(call, table)
  <2>1. CallOK(Returned(NoHost, "NONE", Any), table)
    BY ReturnedOK, AnyIn
  <2>2. QED
    BY <2>1 DEF ArpInit, CallsOK, CallOK
<1>3. since \in 0..PatrolPeriod + 1 /\ rx \in Messages \cup {NoMsg}
  BY ArpAssumption DEF ArpInit
<1>4. QED
  BY <1>1, <1>2, <1>3 DEF IndInv

LEMMA ResolveStep ==
    ASSUME IndInv, NEW t \in Callers, NEW pa \in Hosts, Resolve(t, pa)
    PROVE  IndInv'
<1>1. TableOK(table) /\ CallsOK(call, table)
  BY DEF IndInv
<1>2. since' = since /\ rx' = rx
  BY DEF Resolve
<1>3. CASE ResolveFound(t, pa)
  <2> DEFINE e == arp_table_select(table, pa)
  <2>1. e \in Entries
    BY <1>3, SelectIn DEF ResolveFound
  <2>2. table[e].ha \in HwAddrs
    BY <1>1, <2>1 DEF TableOK, EntryType
  <2> HIDE DEF e
  <2>3. CallOK(Returned(pa, "FOUND", table[e].ha), table)
    BY <2>2, ReturnedOK
  <2>4. table' = table /\ call' = [call EXCEPT ![t] = Returned(pa, "FOUND", table[e].ha)]
    BY <1>3 DEF ResolveFound, Return, e
  <2>5. CallsOK(call', table)
    BY <1>1, <2>3, <2>4, CallReplaceOK
  <2>6. QED
    BY <1>1, <1>2, <2>4, <2>5 DEF IndInv
<1>4. CASE ResolveWait(t, pa)
  <2> DEFINE e == arp_table_select(table, pa)
  <2>1. e \in Entries /\ table[e].ha = Any
    BY <1>4, SelectIn DEF ResolveWait
  <2> HIDE DEF e
  <2>2. CallOK(Waiting(pa, e), table)
    BY <2>1, WaitingOK
  <2>3. table' = table /\ call' = [call EXCEPT ![t] = Waiting(pa, e)]
    BY <1>4 DEF ResolveWait, e
  <2>4. CallsOK(call', table)
    BY <1>1, <2>2, <2>3, CallReplaceOK
  <2>5. QED
    BY <1>1, <1>2, <2>3, <2>4 DEF IndInv
<1>5. CASE ResolveQuery(t, pa)
  <2> DEFINE e == arp_table_freespace(table)
             n == [table[e] EXCEPT !.used = TRUE, !.pa = pa, !.age = 0, !.data = pa]
  <2>1. e \in Entries /\ ~table[e].used
    BY <1>5, FreespaceIn DEF ResolveQuery
  <2>2. table' = [table EXCEPT ![e] = n]
    BY <1>5 DEF ResolveQuery
  <2>3. call' = [call EXCEPT ![t] = Returned(NoHost, "QUERY", Any)]
    BY <1>5 DEF ResolveQuery, Return
  <2> HIDE DEF e
  <2>4. EntryOK(table[e]) /\ table[e] \in EntryType
    BY <1>1, <2>1 DEF TableOK
  <2>5. table[e].ha = Any
    BY <2>1, <2>4 DEF EntryOK
  <2>6. EntryOK(n) /\ n.ha = Any
    <3>1. 0 \in 0..ARP_TABLE_TIMEOUT_SEC + 1
      BY ArpAssumption
    <3>2. n \in EntryType
      BY <2>4, <3>1 DEF EntryType
    <3>3. n.used = TRUE /\ n.pa = pa /\ n.data = pa /\ n.ha = Any
      BY <2>4, <2>5 DEF EntryType
    <3>4. QED
      BY <3>2, <3>3 DEF EntryOK
  <2> HIDE DEF n
  <2>7. TableOK(table')
    BY <1>1, <2>1, <2>2, <2>6, ReplaceOK
  <2>8. \A x \in Entries : table[x].ha = Any => table'[x].ha = Any
    BY <1>1, <2>2, <2>6 DEF TableOK
  <2>9. CallsOK(call, table')
    BY <1>1, <2>8, CallsKept
  <2>10. CallsOK(call', table')
    BY <2>3, <2>9, AnyIn, ReturnedOK, CallReplaceOK
  <2>11. QED
    BY <1>2, <2>7, <2>10 DEF IndInv
<1>6. CASE ResolveFull(t, pa)
  <2>1. table' = table /\ call' = [call EXCEPT ![t] = Returned(NoHost, "ERROR", Any)]
    BY <1>6 DEF ResolveFull, Return
  <2>2. CallsOK(call', table)
    BY <1>1, <2>1, AnyIn, ReturnedOK, CallReplaceOK
  <2>3. QED
    BY <1>1, <1>2, <2>1, <2>2 DEF IndInv
<1>7. QED
  BY <1>3, <1>4, <1>5, <1>6 DEF Resolve

LEMMA TimeOutStep ==
    ASSUME IndInv, NEW t \in Callers, TimeOut(t)
    PROVE  IndInv'
<1>1. CallsOK(call, table)
  BY DEF IndInv
<1>2. call[t].pc = "wait" /\ CallOK(call[t], table)
  BY <1>1 DEF TimeOut, CallsOK
<1>3. CallOK([call[t] EXCEPT !.pc = "expired"], table)
  BY <1>2 DEF CallOK, CallType
<1>4. call' = [call EXCEPT ![t] = [call[t] EXCEPT !.pc = "expired"]]
  BY DEF TimeOut
<1>5. CallsOK(call', table)
  BY <1>1, <1>3, <1>4, CallReplaceOK
<1>6. QED
  BY <1>5 DEF IndInv, TimeOut

LEMMA ResolveReturnStep ==
    ASSUME IndInv, NEW t \in Callers, ResolveReturn(t)
    PROVE  IndInv'
<1> DEFINE e == call[t].entry
<1>1. TableOK(table) /\ CallsOK(call, table)
  BY DEF IndInv
<1>2. since' = since /\ rx' = rx
  BY DEF ResolveReturn
<1>3. CallOK(call[t], table) /\ call[t].pc # "done"
  BY <1>1 DEF CallsOK, ResolveReturn
<1>4. e \in Entries /\ call[t].pa \in Hosts \cup {NoHost}
  BY <1>3 DEF CallOK, CallType
<1>5. table[e].ha \in HwAddrs
  BY <1>1, <1>4 DEF TableOK, EntryType
<1>6. CASE table[e].used /\ call[t].pc = "woken"
  <2>1. /\ table' = table
        /\ call' = [call EXCEPT ![t] = Returned(call[t].pa, "FOUND", table[e].ha)]
    BY <1>6 DEF ResolveReturn, Return
  <2>2. CallOK(Returned(call[t].pa, "FOUND", table[e].ha), table)
    BY <1>4, <1>5, ReturnedOK
  <2>3. CallsOK(call', table)
    BY <1>1, <2>1, <2>2, CallReplaceOK
  <2>4. QED
    BY <1>1, <1>2, <2>1, <2>3 DEF IndInv
<1>7. CASE ~(table[e].used /\ call[t].pc = "woken")
  <2> DEFINE n == IF table[e].used THEN Blank ELSE table[e]
  <2>1. call' = [call EXCEPT ![t] = Returned(NoHost, "ERROR", Any)]
    BY <1>7 DEF ResolveReturn, Return
  <2>2. table' = [table EXCEPT ![e] = n]
    BY <1>7 DEF ResolveReturn, arp_entry_clear
  <2>3. EntryOK(n) /\ (table[e].ha = Any => n.ha = Any)
    BY <1>1, <1>4, BlankOK DEF TableOK
  <2> HIDE DEF n
  <2>4. TableOK(table')
    BY <1>1, <1>4, <2>2, <2>3, ReplaceOK
  <2>5. \A x \in Entries : table[x].ha = Any => table'[x].ha = Any
    BY <1>1, <2>2, <2>3 DEF TableOK
  <2>6. CallsOK(call, table')
    BY <1>1, <2>5, CallsKept
  <2>7. CallsOK(call', table')
    BY <2>1, <2>6, AnyIn, ReturnedOK, CallReplaceOK
  <2>8. QED
    BY <1>2, <2>4, <2>7 DEF IndInv
<1>8. QED
  BY <1>6, <1>7

LEMMA RxUpdateStep ==
    ASSUME IndInv, NEW msg \in Messages, RxUpdate(msg)
    PROVE  IndInv'
<1> DEFINE es    == Patrolled(table)
           tab   == arp_table_patrol(table, es)
           found == UsedFor(tab, msg.spa) # {}
           e     == arp_table_select(tab, msg.spa)
<1>1. TableOK(table) /\ CallsOK(call, table)
  BY DEF IndInv
<1>2. since' \in 0..PatrolPeriod + 1 /\ rx' \in Messages \cup {NoMsg}
  BY ArpAssumption DEF IndInv, RxUpdate
<1>3. TableOK(tab) /\ \A x \in Entries : tab[x] \in {table[x], Blank}
  BY <1>1, PatrolOK
<1>4. /\ table' = IF found THEN [tab EXCEPT ![e] = Updated(tab[e], msg.spa)] ELSE tab
      /\ call' = Broadcast(call, es \cup (IF found THEN {e} ELSE {}))
  BY DEF RxUpdate
<1>5. found => e \in Entries /\ tab[e].used /\ tab[e].pa = msg.spa
  BY SelectIn
<1>6. msg.spa \in Hosts
  BY DEF Messages
<1> HIDE DEF tab, found, e, es
<1>7. CASE found
  <2>1. EntryOK(Updated(tab[e], msg.spa))
    BY <1>3, <1>5, <1>6, <1>7, UpdatedOK DEF TableOK
  <2>2. TableOK(table')
    BY <1>3, <1>4, <1>5, <1>7, <2>1, ReplaceOK
  <2>3. \A x \in Entries \ (es \cup {e}) : table[x].ha = Any => table'[x].ha = Any
    BY <1>3, <1>4, <1>7, BlankOK DEF TableOK
  <2>4. CallsOK(call', table')
    BY <1>1, <1>4, <1>7, <2>3, BroadcastOK
  <2>5. QED
    BY <1>2, <2>2, <2>4 DEF IndInv
<1>8. CASE ~found
  <2>1. table' = tab /\ call' = Broadcast(call, es)
    BY <1>4, <1>8
  <2>2. \A x \in Entries \ es : table[x].ha = Any => tab[x].ha = Any
    BY <1>3, BlankOK
  <2>3. CallsOK(call', tab)
    BY <1>1, <2>1, <2>2, BroadcastOK
  <2>4. QED
    BY <1>2, <1>3, <2>1, <2>3 DEF IndInv
<1>9. QED
  BY <1>7, <1>8

LEMMA RxInsertStep ==
    ASSUME IndInv, RxInsert
    PROVE  IndInv'
<1> DEFINE e == arp_table_freespace(table)
           n == [table[e] EXCEPT !.used = TRUE, !.pa = rx.spa,
                                 !.ha = HwOf[rx.spa], !.age = 0]
<1>1. TableOK(table) /\ CallsOK(call, table)
  BY DEF IndInv
<1>2. since' \in 0..PatrolPeriod + 1 /\ rx' \in Messages \cup {NoMsg}
  BY DEF IndInv, RxInsert
<1>3. CASE Free(table) = {}
  <2>1. table' = table /\ call' = call
    BY <1>3 DEF RxInsert
  <2>2. QED
    BY <1>1, <1>2, <2>1 DEF IndInv
<1>4. CASE Free(table) # {}
  <2>1. table' = [table EXCEPT ![e] = n] /\ call' = Broadcast(call, {e})
    BY <1>4 DEF RxInsert
  <2>2. e \in Entries /\ ~table[e].used
    BY <1>4, FreespaceIn
  <2>3. rx.spa \in Hosts
    BY DEF IndInv, RxInsert, Messages
  <2> HIDE DEF e
  <2>4. EntryOK(table[e]) /\ table[e] \in EntryType
    BY <1>1, <2>2 DEF TableOK
  <2>5. table[e].data = NoHost
    BY <2>2, <2>4 DEF EntryOK
  <2>6. EntryOK(n)
    <3>1. HwOf[rx.spa] \in HwAddrs /\ 0 \in 0..ARP_TABLE_TIMEOUT_SEC + 1
      BY <2>3, ArpAssumption DEF HwAddrs
    <3>2. n \in EntryType
      BY <2>3, <2>4, <3>1 DEF EntryType
    <3>3. n.used = TRUE /\ n.pa = rx.spa /\ n.ha = HwOf[rx.spa] /\ n.data = NoHost
      BY <2>4, <2>5 DEF EntryType
    <3>4. QED
      BY <3>2, <3>3 DEF EntryOK
  <2> HIDE DEF n
  <2>7. TableOK(table')
    BY <1>1, <2>1, <2>2, <2>6, ReplaceOK
  <2>8. \A x \in Entries \ {e} : table[x].ha = Any => table'[x].ha = Any
    BY <1>1, <2>1 DEF TableOK
  <2>9. CallsOK(call', table')
    BY <1>1, <2>1, <2>8, BroadcastOK
  <2>10. QED
    BY <1>2, <2>7, <2>9 DEF IndInv
<1>5. QED
  BY <1>3, <1>4

LEMMA TickStep ==
    ASSUME IndInv, ArpTick
    PROVE  IndInv'
<1>1. TableOK(table) /\ CallsOK(call, table)
  BY DEF IndInv
<1>2. since' \in 0..PatrolPeriod + 1 /\ rx' \in Messages \cup {NoMsg}
  BY ArpAssumption DEF IndInv, ArpTick
<1>3. ASSUME NEW e \in Entries
      PROVE  EntryOK(table'[e]) /\ table'[e].ha = table[e].ha
  <2>1. EntryOK(table[e]) /\ table[e] \in EntryType
    BY <1>1 DEF TableOK
  <2>2. CASE table[e].used /\ table[e].age <= ARP_TABLE_TIMEOUT_SEC
    <3> DEFINE n == [table[e] EXCEPT !.age = @ + 1]
    <3>1. table'[e] = n
      BY <2>2 DEF ArpTick
    <3>2. table[e].age + 1 \in 0..ARP_TABLE_TIMEOUT_SEC + 1
      BY <2>1, <2>2, ArpAssumption DEF EntryType
    <3>3. n \in EntryType
      BY <2>1, <3>2 DEF EntryType
    <3>4. n.used = table[e].used /\ n.pa = table[e].pa /\ n.ha = table[e].ha
          /\ n.data = table[e].data
      BY <2>1 DEF EntryType
    <3>5. QED
      BY <2>1, <3>1, <3>3, <3>4 DEF EntryOK
  <2>3. CASE ~(table[e].used /\ table[e].age <= ARP_TABLE_TIMEOUT_SEC)
    BY <2>1, <2>3 DEF ArpTick
  <2>4. QED
    BY <2>2, <2>3
<1>4. TableOK(table')
  <2>1. table' = [e \in Entries |-> table'[e]]
    BY DEF ArpTick
  <2>2. \A e \in Entries : table'[e] \in EntryType
    BY <1>3 DEF EntryOK
  <2>3. QED
    BY <1>3, <2>1, <2>2 DEF TableOK
<1>5. ASSUME NEW t \in Callers PROVE CallOK(call'[t], table)
  <2>1. CallOK(call[t], table)
    BY <1>1 DEF CallsOK
  <2>2. CASE call[t].pc = "wait" /\ call[t].left > 0
    <3>1. call'[t] = [call[t] EXCEPT !.left = @ - 1]
      BY <2>2 DEF ArpTick
    <3>2. call[t].left - 1 \in 0..ResolveTimeout
      BY <2>1, <2>2, ArpAssumption DEF CallOK, CallType
    <3>3. QED
      BY <2>1, <3>1, <3>2 DEF CallOK, CallType
  <2>3. CASE ~(call[t].pc = "wait" /\ call[t].left > 0)
    BY <2>1, <2>3 DEF ArpTick
  <2>4. QED
    BY <2>2, <2>3
<1>6. CallsOK(call', table')
  <2>1. call' = [t \in Callers |-> call'[t]]
    BY DEF ArpTick
  <2>2. CallsOK(call', table)
    BY <1>5, <2>1 DEF CallsOK, CallOK
  <2>3. QED
    BY <1>3, <2>2, CallsKept
<1>7. QED
  BY <1>2, <1>4, <1>6 DEF IndInv

LEMMA NextInv == IndInv /\ [ArpNext]_arpVars => IndInv'
<1> SUFFICES ASSUME IndInv, [ArpNext]_arpVars PROVE IndInv'
  OBVIOUS
<1>1. ASSUME NEW t \in Callers, NEW pa \in Hosts, Resolve(t, pa) PROVE IndInv'
  BY <1>1, ResolveStep
<1>2. ASSUME NEW t \in Callers, TimeOut(t) PROVE IndInv'
  BY <1>2, TimeOutStep
<1>3. ASSUME NEW t \in Callers, ResolveReturn(t) PROVE IndInv'
  BY <1>3, ResolveReturnStep
<1>4. ASSUME NEW msg \in Messages, RxUpdate(msg) PROVE IndInv'
  BY <1>4, RxUpdateStep
<1>5. CASE RxInsert
  BY <1>5, RxInsertStep
<1>6. CASE ArpTick
  BY <1>6, TickStep
<1>7. CASE UNCHANGED arpVars
  BY <1>7 DEF arpVars, IndInv
<1>8. QED
  BY <1>1, <1>2, <1>3, <1>4, <1>5, <1>6, <1>7 DEF ArpNext

LEMMA IndInvHolds == ArpSpec => []IndInv
  BY InitInv, NextInv, PTL DEF ArpSpec

LEMMA IndInvImplies == IndInv => ArpTypeOK /\ TableTrue /\ ArpNoLostWakeup
<1> SUFFICES ASSUME IndInv PROVE ArpTypeOK /\ TableTrue /\ ArpNoLostWakeup
  OBVIOUS
<1>1. ArpTypeOK
  <2>1. table \in [Entries -> EntryType] /\ call \in [Callers -> CallType]
    BY DEF IndInv, TableOK, CallsOK
  <2>2. \A t \in Callers : InWait(t) => call[t].entry \in Entries
    BY DEF IndInv, CallsOK, CallOK, InWait
  <2>3. QED
    BY <2>1, <2>2 DEF IndInv, ArpTypeOK, EntryType, CallType
<1>2. TableTrue
  BY DEF IndInv, TableOK, EntryOK, TableTrue
<1>3. ArpNoLostWakeup
  BY DEF IndInv, CallsOK, CallOK, ArpNoLostWakeup
<1>4. QED
  BY <1>1, <1>2, <1>3

\* The table, the callers and arp_rx stay well formed; in particular the entry
\* a caller of arp_resolve waits on is one of the table's.
THEOREM ArpTypeCorrect == ArpSpec => []ArpTypeOK
  BY IndInvHolds, IndInvImplies, PTL

\* No wrong hardware address is ever in the table, no packet waits in an entry
\* of another host and nothing is inherited by the next use of an entry, for
\* every size of arp_table and every number of threads.
THEOREM TableTrueHolds == ArpSpec => []TableTrue
  BY IndInvHolds, IndInvImplies, PTL

\* arp_table_update, arp_table_insert and the patrol broadcast whenever an
\* entry with sleeping callers gets a hardware address.
THEOREM ArpNoLostWakeupHolds == ArpSpec => []ArpNoLostWakeup
  BY IndInvHolds, IndInvImplies, PTL

-----------------------------------------------------------------------------
(***************************************************************************)
(* At most two entries for a host.                                         *)
(***************************************************************************)
\* Between the critical sections of arp_rx its sender has at most one entry.
TwiceInv ==
    \A h \in Hosts :
        /\ Cardinality(UsedFor(table, h)) <= 2
        /\ rx # NoMsg /\ rx.spa = h => Cardinality(UsedFor(table, h)) <= 1

LEMMA EntriesFinite ==
    ASSUME NEW S, S \subseteq Entries
    PROVE  IsFiniteSet(S) /\ Cardinality(S) \in Nat
<1>1. IsFiniteSet(Entries)
  BY ArpAssumption, FS_Interval DEF Entries
<1>2. IsFiniteSet(S)
  BY <1>1, FS_Subset
<1>3. QED
  BY <1>2, FS_CardinalityType

LEMMA FewerEntries ==
    ASSUME NEW S, S \subseteq Entries, NEW T, T \subseteq S
    PROVE  /\ Cardinality(T) <= Cardinality(S)
           /\ Cardinality(S) \in Nat /\ Cardinality(T) \in Nat
  BY EntriesFinite, FS_Subset

LEMMA OneMore ==
    ASSUME NEW S, S \subseteq Entries, NEW e \in Entries, NEW T, T \subseteq S \cup {e}
    PROVE  /\ Cardinality(T) <= Cardinality(S) + 1
           /\ Cardinality(S) \in Nat /\ Cardinality(T) \in Nat
           /\ S = {} => Cardinality(T) <= 1
<1>1. IsFiniteSet(S) /\ Cardinality(S) \in Nat
  BY EntriesFinite
<1>2. Cardinality(S \cup {e}) <= Cardinality(S) + 1
  BY <1>1, FS_AddElement
<1>3. S \cup {e} \subseteq Entries
  OBVIOUS
<1>4. /\ Cardinality(T) <= Cardinality(S \cup {e})
      /\ Cardinality(T) \in Nat /\ Cardinality(S \cup {e}) \in Nat
  BY <1>3, FewerEntries
<1>5. S = {} => Cardinality(S) = 0
  BY FS_EmptySet
<1>6. QED
  BY <1>1, <1>2, <1>4, <1>5

\* A step that adds no entry and lets arp_rx be or end preserves TwiceInv.
LEMMA NoNewEntry ==
    ASSUME TwiceInv, rx' \in {rx, NoMsg},
           \A h \in Hosts : UsedFor(table', h) \subseteq UsedFor(table, h)
    PROVE  TwiceInv'
<1>1. ASSUME NEW h \in Hosts
      PROVE  /\ Cardinality(UsedFor(table', h)) <= Cardinality(UsedFor(table, h))
             /\ Cardinality(UsedFor(table, h)) \in Nat
             /\ Cardinality(UsedFor(table', h)) \in Nat
  <2>1. UsedFor(table, h) \subseteq Entries
    BY DEF UsedFor
  <2>2. QED
    BY <2>1, FewerEntries
<1>2. QED
  BY <1>1 DEF TwiceInv

LEMMA InitTwice == ArpInit => TwiceInv
<1> SUFFICES ASSUME ArpInit, NEW h \in Hosts
             PROVE  Cardinality(UsedFor(table, h)) = 0
  BY DEF TwiceInv
<1>1. UsedFor(table, h) = {}
  BY DEF ArpInit, UsedFor, Blank
<1>2. QED
  BY <1>1, FS_EmptySet

\* arp_resolve adds an entry only for an address that has none.
LEMMA ResolveTwice ==
    ASSUME IndInv, TwiceInv, NEW t \in Callers, NEW pa \in Hosts, Resolve(t, pa)
    PROVE  TwiceInv'
<1>1. rx' = rx
  BY DEF Resolve
<1>2. CASE ResolveQuery(t, pa)
  <2> DEFINE e == arp_table_freespace(table)
  <2>1. e \in Entries /\ ~table[e].used
    BY <1>2, FreespaceIn DEF ResolveQuery
  <2>2. table[e] \in EntryType /\ table \in [Entries -> EntryType]
    BY <2>1 DEF IndInv, TableOK
  <2>3. \A x \in Entries \ {e} : table'[x] = table[x]
    BY <1>2, <2>2 DEF ResolveQuery
  <2>4. table'[e].pa = pa
    BY <1>2, <2>1, <2>2 DEF ResolveQuery, EntryType
  <2> HIDE DEF e
  <2>5. UsedFor(table, pa) = {} /\ UsedFor(table', pa) \subseteq UsedFor(table, pa) \cup {e}
    BY <1>2, <2>3 DEF ResolveQuery, UsedFor
  <2>6. Cardinality(UsedFor(table', pa)) \in Nat /\ Cardinality(UsedFor(table', pa)) <= 1
    BY <2>1, <2>5, OneMore
  <2>7. ASSUME NEW h \in Hosts, h # pa
        PROVE  /\ Cardinality(UsedFor(table', h)) <= Cardinality(UsedFor(table, h))
               /\ Cardinality(UsedFor(table, h)) \in Nat
               /\ Cardinality(UsedFor(table', h)) \in Nat
    <3>1. UsedFor(table', h) \subseteq UsedFor(table, h)
      BY <2>3, <2>4, <2>7 DEF UsedFor
    <3>2. UsedFor(table, h) \subseteq Entries
      BY DEF UsedFor
    <3>3. QED
      BY <3>1, <3>2, FewerEntries
  <2>8. QED
    BY <1>1, <2>6, <2>7 DEF TwiceInv
<1>3. CASE ~ResolveQuery(t, pa)
  <2>1. table' = table
    BY <1>3 DEF Resolve, ResolveFound, ResolveWait, ResolveFull
  <2>2. QED
    BY <1>1, <2>1, NoNewEntry
<1>4. QED
  BY <1>2, <1>3

\* The first critical section adds no entry, and leaves its message for the
\* second one only if no entry is for the sender.
LEMMA RxUpdateTwice ==
    ASSUME IndInv, TwiceInv, NEW msg \in Messages, RxUpdate(msg)
    PROVE  TwiceInv'
<1> DEFINE tab   == arp_table_patrol(table, Patrolled(table))
           found == UsedFor(tab, msg.spa) # {}
           e     == arp_table_select(tab, msg.spa)
<1>1. TableOK(tab) /\ \A x \in Entries : tab[x] \in {table[x], Blank}
  BY PatrolOK DEF IndInv
<1>2. table' = IF found THEN [tab EXCEPT ![e] = Updated(tab[e], msg.spa)] ELSE tab
  BY DEF RxUpdate
<1>3. rx' = IF ~found /\ msg.tpa = Me THEN msg ELSE NoMsg
  BY DEF RxUpdate, Inserts
<1>4. found => e \in Entries
  BY SelectIn
<1> HIDE DEF tab, e
<1>5. ASSUME NEW x \in Entries
      PROVE  table'[x].used = tab[x].used /\ table'[x].pa = tab[x].pa
  <2>1. tab[x] \in EntryType /\ tab \in [Entries -> EntryType]
    BY <1>1 DEF TableOK
  <2>2. CASE found /\ x = e
    BY <1>2, <1>4, <2>1, <2>2 DEF Updated, EntryType
  <2>3. CASE ~(found /\ x = e)
    BY <1>2, <2>1, <2>3
  <2>4. QED
    BY <2>2, <2>3
<1>6. \A h \in Hosts : UsedFor(table', h) \subseteq UsedFor(table, h)
  BY <1>1, <1>5, BlankOK DEF UsedFor
<1>7. CASE rx' = NoMsg
  BY <1>6, <1>7, NoNewEntry
<1>8. CASE rx' # NoMsg
  <2>1. rx' = msg /\ UsedFor(tab, msg.spa) = {}
    BY <1>3, <1>8
  <2>2. UsedFor(table', msg.spa) = {}
    BY <1>5, <2>1 DEF UsedFor
  <2>3. Cardinality(UsedFor(table', msg.spa)) = 0
    BY <2>2, FS_EmptySet
  <2>4. ASSUME NEW h \in Hosts
        PROVE  Cardinality(UsedFor(table', h)) <= 2
    <3>1. UsedFor(table, h) \subseteq Entries
      BY DEF UsedFor
    <3>2. /\ Cardinality(UsedFor(table', h)) <= Cardinality(UsedFor(table, h))
          /\ Cardinality(UsedFor(table, h)) \in Nat
          /\ Cardinality(UsedFor(table', h)) \in Nat
      BY <1>6, <3>1, FewerEntries
    <3>3. QED
      BY <3>2 DEF TwiceInv
  <2>5. QED
    BY <2>1, <2>3, <2>4 DEF TwiceInv
<1>9. QED
  BY <1>7, <1>8

\* The second one adds one entry, for the sender, which has at most one.
LEMMA RxInsertTwice ==
    ASSUME IndInv, TwiceInv, RxInsert
    PROVE  TwiceInv'
<1> DEFINE e == arp_table_freespace(table)
<1>1. rx' = NoMsg /\ rx # NoMsg
  BY DEF RxInsert
<1>2. CASE Free(table) = {}
  <2>1. table' = table
    BY <1>2 DEF RxInsert
  <2>2. QED
    BY <1>1, <2>1, NoNewEntry
<1>3. CASE Free(table) # {}
  <2>1. e \in Entries
    BY <1>3, FreespaceIn
  <2>2. table[e] \in EntryType /\ table \in [Entries -> EntryType]
    BY <2>1 DEF IndInv, TableOK
  <2>3. \A x \in Entries \ {e} : table'[x] = table[x]
    BY <1>3, <2>2 DEF RxInsert
  <2>4. table'[e].pa = rx.spa
    BY <1>3, <2>1, <2>2 DEF RxInsert, EntryType
  <2> HIDE DEF e
  <2>5. ASSUME NEW h \in Hosts PROVE Cardinality(UsedFor(table', h)) <= 2
    <3>1. UsedFor(table, h) \subseteq Entries
      BY DEF UsedFor
    <3>2. CASE h = rx.spa
      <4>1. UsedFor(table', h) \subseteq UsedFor(table, h) \cup {e}
        BY <2>3 DEF UsedFor
      <4>2. /\ Cardinality(UsedFor(table', h)) <= Cardinality(UsedFor(table, h)) + 1
            /\ Cardinality(UsedFor(table, h)) \in Nat
            /\ Cardinality(UsedFor(table', h)) \in Nat
        BY <2>1, <3>1, <4>1, OneMore
      <4>3. Cardinality(UsedFor(table, h)) <= 1
        BY <1>1, <3>2 DEF TwiceInv
      <4>4. QED
        BY <4>2, <4>3
    <3>3. CASE h # rx.spa
      <4>1. UsedFor(table', h) \subseteq UsedFor(table, h)
        BY <2>3, <2>4, <3>3 DEF UsedFor
      <4>2. /\ Cardinality(UsedFor(table', h)) <= Cardinality(UsedFor(table, h))
            /\ Cardinality(UsedFor(table, h)) \in Nat
            /\ Cardinality(UsedFor(table', h)) \in Nat
        BY <3>1, <4>1, FewerEntries
      <4>3. QED
        BY <4>2 DEF TwiceInv
    <3>4. QED
      BY <3>2, <3>3
  <2>6. QED
    BY <1>1, <2>5 DEF TwiceInv
<1>4. QED
  BY <1>2, <1>3

LEMMA NextTwice == IndInv /\ TwiceInv /\ [ArpNext]_arpVars => TwiceInv'
<1> SUFFICES ASSUME IndInv, TwiceInv, [ArpNext]_arpVars PROVE TwiceInv'
  OBVIOUS
<1>1. ASSUME NEW t \in Callers, NEW pa \in Hosts, Resolve(t, pa) PROVE TwiceInv'
  BY <1>1, ResolveTwice
<1>2. ASSUME NEW t \in Callers, TimeOut(t) PROVE TwiceInv'
  BY <1>2, NoNewEntry DEF TimeOut
<1>3. ASSUME NEW t \in Callers, ResolveReturn(t) PROVE TwiceInv'
  <2>1. rx' = rx
    BY <1>3 DEF ResolveReturn
  <2>2. table \in [Entries -> EntryType]
    BY DEF IndInv, TableOK
  <2>3. \A x \in Entries : table'[x] \in {table[x], Blank}
    BY <1>3, <2>2 DEF ResolveReturn, arp_entry_clear
  <2>4. \A h \in Hosts : UsedFor(table', h) \subseteq UsedFor(table, h)
    BY <2>3, BlankOK DEF UsedFor
  <2>5. QED
    BY <2>1, <2>4, NoNewEntry
<1>4. ASSUME NEW msg \in Messages, RxUpdate(msg) PROVE TwiceInv'
  BY <1>4, RxUpdateTwice
<1>5. CASE RxInsert
  BY <1>5, RxInsertTwice
<1>6. CASE ArpTick
  <2>1. ASSUME NEW x \in Entries
        PROVE  table'[x].used = table[x].used /\ table'[x].pa = table[x].pa
    <3>1. table[x] \in EntryType
      BY DEF IndInv, TableOK
    <3>2. QED
      BY <1>6, <3>1 DEF ArpTick, EntryType
  <2>2. \A h \in Hosts : UsedFor(table', h) \subseteq UsedFor(table, h)
    BY <2>1 DEF UsedFor
  <2>3. QED
    BY <1>6, <2>2, NoNewEntry DEF ArpTick
<1>7. CASE UNCHANGED arpVars
  BY <1>7, NoNewEntry DEF arpVars
<1>8. QED
  BY <1>1, <1>2, <1>3, <1>4, <1>5, <1>6, <1>7 DEF ArpNext

\* Although arp_rx drops the mutex between looking for the sender and inserting
\* it, no host ever gets a third entry, however many threads resolve it.
THEOREM AtMostTwiceHolds == ArpSpec => []AtMostTwice
<1>1. TwiceInv => AtMostTwice
  BY DEF TwiceInv, AtMostTwice
<1>2. ArpSpec => []TwiceInv
  BY InitTwice, NextTwice, IndInvHolds, PTL DEF ArpSpec
<1>3. QED
  BY <1>1, <1>2, PTL
=============================================================================
