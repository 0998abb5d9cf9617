----------------------------- MODULE RelayProofs -----------------------------
(***************************************************************************)
(* Proofs about Relay, for every set of devices, contents and bounds, and  *)
(* about SharedContext, for any consoles, sessions, base snapshots and     *)
(* edits.                                                                  *)
(***************************************************************************)
EXTENDS Relay, SharedContext, FiniteSetTheorems, TLAPS

-----------------------------------------------------------------------------
(* The order of the keys.                                                   *)

Pos == [at : Nat, cid : Nat, dev : Nat]

\* Keys and the empty cursor are triples of numbers, and no key is empty.
LEMMA KeyPos == Key \subseteq Pos /\ NoCursor \in Pos /\ NoCursor \notin Key
  <1>1. 1..MaxTime \subseteq Nat /\ Cids \subseteq Nat /\ Devices \subseteq Nat
    BY RelayAssumption DEF Devices
  <1>2. Key \subseteq Pos
    BY <1>1 DEF Key, Pos
  <1>3. NoCursor \in Pos
    BY DEF Pos, NoCursor
  <1>4. NoCursor \notin Key
    <2>1. ASSUME NoCursor \in Key PROVE FALSE
      <3>1. NoCursor.at \in 1..MaxTime
        BY <2>1 DEF Key
      <3> QED BY <3>1 DEF NoCursor
    <2> QED BY <2>1
  <1> QED BY <1>2, <1>3, <1>4

\* Less is a strict total order on those triples: it is irreflexive.
LEMMA LessIrreflexive == ASSUME NEW a \in Pos PROVE ~Less(a, a)
  BY DEF Less, Pos

\* It is transitive.
LEMMA LessTransitive ==
  ASSUME NEW a \in Pos, NEW b \in Pos, NEW c \in Pos, Less(a, b), Less(b, c)
  PROVE  Less(a, c)
  BY DEF Less, Pos

\* It is total.
LEMMA LessTotal ==
  ASSUME NEW a \in Pos, NEW b \in Pos PROVE a = b \/ Less(a, b) \/ Less(b, a)
  BY DEF Less, Pos

\* The empty cursor is below every key, and no key is at or below it.
LEMMA NoCursorBelow == ASSUME NEW k \in Key PROVE Less(NoCursor, k) /\ ~AtMost(k, NoCursor)
  BY KeyPos, RelayAssumption DEF Less, AtMost, Key, NoCursor, Devices

-----------------------------------------------------------------------------
(* The queue of the push loop.                                              *)

\* Broadcasting an entry keeps a queue a queue of entries.
LEMMA BroadcastType ==
  ASSUME NEW q \in Seq(Entry), NEW e \in Entry
  PROVE  Broadcast(q, e) \in Seq(Entry)
  BY RelayAssumption DEF Broadcast

\* An own capture anywhere in a queue is waiting.
LEMMA WaitingAt ==
  ASSUME NEW q, NEW n \in 1..Len(q), ~q[n].peer
  PROVE  q[n].key \in Waiting(q)
  BY DEF Waiting

\* It loses no own capture but the evicted one, and adds the new one.
LEMMA BroadcastWaiting ==
  ASSUME NEW q \in Seq(Entry), NEW e \in Entry
  PROVE  /\ Waiting(q) \subseteq Waiting(Broadcast(q, e)) \cup Evicted(q)
         /\ ~e.peer => e.key \in Waiting(Broadcast(q, e))
  <1>1. CASE Len(q) < QueueCap
    <2> DEFINE b == Append(q, e)
    <2>1. Len(b) = Len(q) + 1 /\ Len(q) \in Nat
      OBVIOUS
    <2>2. b[Len(q) + 1] = e /\ \A n \in 1..Len(q) : b[n] = q[n]
      OBVIOUS
    <2>3. Broadcast(q, e) = b
      BY <1>1 DEF Broadcast
    <2> HIDE DEF b
    <2>4. ASSUME NEW n \in 1..Len(q), ~q[n].peer PROVE q[n].key \in Waiting(b)
      <3>1. n \in 1..Len(b) /\ b[n] = q[n]
        BY <2>1, <2>2
      <3> QED BY <3>1, <2>4, WaitingAt
    <2>5. ASSUME ~e.peer PROVE e.key \in Waiting(b)
      <3>1. Len(q) + 1 \in 1..Len(b) /\ b[Len(q) + 1] = e
        BY <2>1, <2>2
      <3> QED BY <3>1, <2>5, WaitingAt
    <2> QED BY <2>3, <2>4, <2>5 DEF Waiting
  <1>2. CASE ~(Len(q) < QueueCap)
    <2> DEFINE b == Append(Tail(q), e)
    <2>1. q # <<>> /\ Len(q) \in Nat \ {0}
      BY <1>2, RelayAssumption
    <2>2. Len(b) = Len(q) /\ Head(q) = q[1]
      BY <2>1
    <2>3. b[Len(q)] = e /\ \A n \in 1..(Len(q) - 1) : b[n] = q[n + 1]
      BY <2>1
    <2>4. Broadcast(q, e) = b
      BY <1>2 DEF Broadcast
    <2> HIDE DEF b
    <2>5. ASSUME NEW n \in 1..Len(q), ~q[n].peer
          PROVE  q[n].key \in Waiting(b) \cup Evicted(q)
      <3>1. CASE n = 1
        BY <3>1, <2>5, <2>2, <1>2 DEF Evicted
      <3>2. CASE n # 1
        <4>1. n - 1 \in 1..Len(b) /\ b[n - 1] = q[n]
          BY <3>2, <2>1, <2>2, <2>3
        <4> QED BY <4>1, <2>5, WaitingAt
      <3> QED BY <3>1, <3>2
    <2>6. ASSUME ~e.peer PROVE e.key \in Waiting(b)
      <3>1. Len(q) \in 1..Len(b)
        BY <2>1, <2>2
      <3> QED BY <3>1, <2>3, <2>6, WaitingAt
    <2> QED BY <2>4, <2>5, <2>6 DEF Waiting
  <1> QED BY <1>1, <1>2

\* Taking the head of a queue leaves the other own captures waiting.
LEMMA TailWaiting ==
  ASSUME NEW q \in Seq(Entry), q # <<>>
  PROVE  \A k \in Waiting(q) : k \in Waiting(Tail(q)) \/ (~Head(q).peer /\ k = Head(q).key)
  <1>1. /\ Len(Tail(q)) = Len(q) - 1 /\ Len(q) \in Nat /\ Head(q) = q[1]
        /\ \A n \in 1..(Len(q) - 1) : Tail(q)[n] = q[n + 1]
    OBVIOUS
  <1>2. SUFFICES ASSUME NEW n \in 1..Len(q), ~q[n].peer, n # 1
                 PROVE  q[n].key \in Waiting(Tail(q))
    BY <1>1 DEF Waiting
  <1>3. n - 1 \in 1..Len(Tail(q)) /\ Tail(q)[n - 1] = q[n]
    BY <1>1, <1>2
  <1> QED BY <1>2, <1>3, WaitingAt

\* Nothing else starts to wait: broadcasting adds no own capture but the one that is
\* broadcast.
LEMMA BroadcastAdds ==
  ASSUME NEW q \in Seq(Entry), NEW e \in Entry
  PROVE  \A k \in Waiting(Broadcast(q, e)) : k \in Waiting(q) \/ (~e.peer /\ k = e.key)
  <1> DEFINE b == Broadcast(q, e)
  <1>1. /\ Len(q) \in Nat /\ Len(b) \in Nat
        /\ \A n \in 1..Len(b) : b[n] = e \/ \E m \in 1..Len(q) : b[n] = q[m]
    <2>1. CASE Len(q) < QueueCap
      <3>1. b = Append(q, e)
        BY <2>1 DEF Broadcast
      <3> HIDE DEF b
      <3>2. /\ Len(b) = Len(q) + 1 /\ Len(q) \in Nat
            /\ \A n \in 1..(Len(q) + 1) : b[n] = IF n <= Len(q) THEN q[n] ELSE e
        BY <3>1
      <3> QED BY <3>2
    <2>2. CASE ~(Len(q) < QueueCap)
      <3>1. q # <<>> /\ b = Append(Tail(q), e)
        BY <2>2, RelayAssumption DEF Broadcast
      <3> HIDE DEF b
      <3>2. /\ Len(b) = Len(q) /\ Len(q) \in Nat \ {0}
            /\ \A n \in 1..Len(q) : b[n] = IF n < Len(q) THEN q[n + 1] ELSE e
        BY <3>1
      <3>3. \A n \in 1..Len(q) : n < Len(q) => n + 1 \in 1..Len(q)
        BY <3>2
      <3> QED BY <3>2, <3>3
    <2> QED BY <2>1, <2>2
  <1> HIDE DEF b
  <1>2. SUFFICES ASSUME NEW n \in 1..Len(b), ~b[n].peer
                 PROVE  b[n].key \in Waiting(q) \/ (~e.peer /\ b[n].key = e.key)
    BY DEF Waiting, b
  <1> QED BY <1>1, <1>2, WaitingAt

\* Taking the head of a queue adds no own capture to those that wait.
LEMMA TailAdds ==
  ASSUME NEW q \in Seq(Entry), q # <<>>
  PROVE  /\ Waiting(Tail(q)) \subseteq Waiting(q)
         /\ ~Head(q).peer => Head(q).key \in Waiting(q)
  <1>1. /\ Len(Tail(q)) = Len(q) - 1 /\ Len(q) \in Nat \ {0} /\ Head(q) = q[1]
        /\ \A n \in 1..(Len(q) - 1) : Tail(q)[n] = q[n + 1]
    OBVIOUS
  <1>2. ASSUME NEW n \in 1..Len(Tail(q)), ~Tail(q)[n].peer
        PROVE  Tail(q)[n].key \in Waiting(q)
    <2>1. n + 1 \in 1..Len(q) /\ Tail(q)[n] = q[n + 1]
      BY <1>1
    <2> QED BY <2>1, <1>2, WaitingAt
  <1>3. ~Head(q).peer => Head(q).key \in Waiting(q)
    BY <1>1, WaitingAt
  <1> QED BY <1>2, <1>3 DEF Waiting

-----------------------------------------------------------------------------
(* The order and the size of pages.                                         *)

\* A page has no gap: with an item it holds everything before it and above the
\* cursor.
LEMMA PageNoGap ==
  ASSUME IsFiniteSet(relay), relay \subseteq Pos, NEW cur \in Pos,
         NEW i \in NextPage(cur), NEW k \in relay, Less(k, i), Less(cur, k)
  PROVE  k \in NextPage(cur)
  <1> DEFINE Below(x) == {j \in Above(cur) : Less(j, x)}
  <1>1. i \in Pos /\ k \in Pos /\ Above(cur) \subseteq Pos
    BY DEF NextPage, Above
  <1>2. Below(k) \subseteq Below(i)
    BY <1>1, LessTransitive
  <1>3. IsFiniteSet(Below(i)) /\ IsFiniteSet(Below(k))
    BY FS_Subset DEF Above
  <1>4. Cardinality(Below(k)) <= Cardinality(Below(i))
    BY <1>2, <1>3, FS_Subset
  <1>5. Cardinality(Below(i)) \in Nat /\ Cardinality(Below(k)) \in Nat
    BY <1>3, FS_CardinalityType
  <1>6. Cardinality(Below(i)) < PageLimit
    BY DEF NextPage
  <1>7. k \in Above(cur)
    BY DEF Above
  <1>8. Cardinality(Below(k)) < PageLimit
    BY <1>4, <1>5, <1>6, RelayAssumption
  <1> QED BY <1>7, <1>8 DEF NextPage

-----------------------------------------------------------------------------
(* Types.                                                                   *)

\* The name under which the relay keeps a capture is a key.
LEMMA RelayIdType ==
  ASSUME NEW c \in Cids, NEW d \in Devices, now \in 1..MaxTime
  PROVE  RelayId(c, d) \in Key
  BY DEF RelayId, Key

\* What waits in a queue, or is pushed out of it, is a key.
LEMMA QueueKeys ==
  ASSUME NEW q \in Seq(Entry) PROVE Waiting(q) \subseteq Key /\ Evicted(q) \subseteq Key
  <1>1. \A n \in 1..Len(q) : q[n].key \in Key
    <2>1. \A n \in 1..Len(q) : q[n] \in Entry
      OBVIOUS
    <2> QED BY <2>1 DEF Entry
  <1>2. Waiting(q) \subseteq Key
    BY <1>1 DEF Waiting
  <1>3. CASE Len(q) < QueueCap \/ Head(q).peer
    BY <1>2, <1>3 DEF Evicted
  <1>4. CASE ~(Len(q) < QueueCap \/ Head(q).peer)
    <2>1. q # <<>>
      BY <1>4, RelayAssumption
    <2>2. Head(q) \in Entry
      BY <2>1
    <2> QED BY <1>2, <2>2 DEF Evicted, Entry
  <1> QED BY <1>3, <1>4

\* The type invariant of the relay's model.
THEOREM TypeCorrect == Spec => []TypeOK
<1>1. Init => TypeOK
  BY RelayAssumption DEF Init, TypeOK
<1>2. TypeOK /\ [Next]_vars => TypeOK'
  <2> SUFFICES ASSUME TypeOK, [Next]_vars PROVE TypeOK'
    OBVIOUS
  <2> USE DEF TypeOK
  <2>0. Desktops \subseteq Devices /\ Phones \subseteq Devices
    BY DEF Devices
  <2>1. CASE Tick
    BY <2>1, RelayAssumption DEF Tick, pushVars, pullVars
  <2>2. ASSUME NEW d \in Desktops, NEW c \in Cids, LocalCapture(d, c) PROVE TypeOK'
    <3> DEFINE k == RelayId(c, d)
               e == [key |-> k, peer |-> FALSE]
    <3>1. k \in Key /\ e \in Entry
      BY <2>0, RelayIdType DEF Entry
    <3>2. Broadcast(queue[d], e) \in Seq(Entry)
      BY <3>1, BroadcastType
    <3>3. Evicted(queue[d]) \subseteq Key
      BY QueueKeys
    <3> HIDE DEF k, e
    <3>4. /\ captured' = [captured EXCEPT ![d] = @ \cup {k}]
          /\ queue' = [queue EXCEPT ![d] = Broadcast(@, e)]
          /\ lost' = lost \cup Evicted(queue[d])
          /\ UNCHANGED <<now, wire, relay, pullVars, imported, again, late, faults>>
      BY <2>2 DEF LocalCapture, k, e
    <3> QED BY <3>1, <3>2, <3>3, <3>4, <2>0 DEF pullVars
  <2>3. ASSUME NEW p \in Phones, NEW c \in Cids, PhoneCapture(p, c) PROVE TypeOK'
    <3>1. RelayId(c, p) \in Key
      BY <2>0, RelayIdType
    <3> QED BY <3>1, <2>3, <2>0 DEF PhoneCapture, pullVars
  <2>4. ASSUME NEW d \in Desktops, PushNext(d) PROVE TypeOK'
    <3>1. Head(queue[d]) \in Entry /\ Tail(queue[d]) \in Seq(Entry)
      BY <2>4 DEF PushNext
    <3>2. Head(queue[d]).key \in Key
      BY <3>1 DEF Entry
    <3> QED BY <3>1, <3>2, <2>4 DEF PushNext, pullVars
  <2>5. ASSUME NEW k \in wire, PushFails(k) PROVE TypeOK'
    BY <2>5 DEF PushFails, pullVars
  <2>6. ASSUME NEW k \in wire, StoreItem(k) PROVE TypeOK'
    <3>1. late' \in [Desktops -> SUBSET Key]
      BY <2>6 DEF StoreItem
    <3> QED BY <3>1, <2>6 DEF StoreItem, pullVars
  <2>7. ASSUME NEW d \in Desktops, PullPage(d) PROVE TypeOK'
    <3>1. NextPage(cursor[d]) \subseteq Key
      BY DEF NextPage, Above
    <3> QED BY <3>1, <2>7 DEF PullPage, pushVars
  <2>8. ASSUME NEW d \in Desktops, NEW k \in page[d], SkipOwn(d, k) PROVE TypeOK'
    BY <2>8 DEF SkipOwn, pushVars
  <2>9. ASSUME NEW d \in Desktops, NEW k \in page[d], ImportItem(d, k) PROVE TypeOK'
    <3> DEFINE e == [key |-> RelayId(k.cid, d), peer |-> TRUE]
    <3>1. k \in Key
      OBVIOUS
    <3>2. e \in Entry
      <4>1. k.cid \in Cids
        BY <3>1 DEF Key
      <4> QED BY <4>1, <2>0, RelayIdType DEF Entry
    <3>3. Broadcast(queue[d], e) \in Seq(Entry)
      BY <3>2, BroadcastType
    <3>4. Evicted(queue[d]) \subseteq Key
      BY QueueKeys
    <3> HIDE DEF e
    <3>5. /\ imported' = [imported EXCEPT ![d] = @ \cup {k}]
          /\ again' = [again EXCEPT ![d] = IF k \in imported[d] THEN @ \cup {k} ELSE @]
          /\ queue' = [queue EXCEPT ![d] = Broadcast(@, e)]
          /\ lost' = lost \cup Evicted(queue[d])
          /\ page' = [page EXCEPT ![d] = @ \ {k}]
          /\ latest' = [latest EXCEPT ![d] = k]
          /\ UNCHANGED <<now, captured, wire, relay, cursor, cursorFile, pulling, late,
                         faults>>
      BY <2>9 DEF ImportItem, e
    <3> QED BY <3>1, <3>3, <3>4, <3>5
  <2>10. ASSUME NEW d \in Desktops, NEW k \in page[d], ImportFails(d, k) PROVE TypeOK'
    BY <2>10 DEF ImportFails, pushVars
  <2>11. ASSUME NEW d \in Desktops, NEW saved \in BOOLEAN, AdvanceCursor(d, saved)
         PROVE  TypeOK'
    BY <2>11 DEF AdvanceCursor, pushVars
  <2>12. ASSUME NEW d \in Desktops, NEW torn \in BOOLEAN, Restart(d, torn)
         PROVE  TypeOK'
    <3>1. Waiting(queue[d]) \subseteq Key
      BY QueueKeys
    <3>2. cursorFile' \in [Desktops -> Key \cup {NoCursor}]
      BY <2>12 DEF Restart
    <3>3. cursor' \in [Desktops -> Key \cup {NoCursor}]
      BY <2>12, <3>2 DEF Restart, ReadCursor
    <3>4. queue' \in [Desktops -> Seq(Entry)]
      BY <2>12 DEF Restart
    <3> QED BY <2>12, <3>1, <3>2, <3>3, <3>4 DEF Restart
  <2>13. CASE UNCHANGED vars
    BY <2>13 DEF vars, pushVars, pullVars
  <2> QED BY <2>1, <2>2, <2>3, <2>4, <2>5, <2>6, <2>7, <2>8, <2>9, <2>10, <2>11, <2>12,
             <2>13 DEF Next, Pull
<1> QED BY <1>1, <1>2, PTL DEF Spec

-----------------------------------------------------------------------------
(* The push side.                                                           *)

\* Every capture carries its own device, and only captures wait to be pushed.
PushInv ==
  /\ \A d \in Devices : \A k \in captured[d] : k.dev = d
  /\ \A d \in Desktops : Waiting(queue[d]) \subseteq captured[d]
  /\ NoEcho
  /\ PushAccounted

LEMMA PushInvStep == TypeOK /\ PushInv /\ [Next]_vars => PushInv'
<1> SUFFICES ASSUME TypeOK, PushInv, [Next]_vars PROVE PushInv'
  OBVIOUS
<1> USE DEF PushInv, NoEcho, PushAccounted
<1>0. Desktops \subseteq Devices /\ Phones \subseteq Devices /\ Desktops \cap Phones = {}
  BY RelayAssumption DEF Devices
<1>q. \A d \in Desktops : queue[d] \in Seq(Entry)
  BY DEF TypeOK
<1>c. captured \in [Devices -> SUBSET Key] /\ queue \in [Desktops -> Seq(Entry)]
  BY DEF TypeOK
<1>d. \A k \in Key : k.dev \in Devices
  BY DEF Key
<1>k. relay \cup wire \subseteq Key
  BY DEF TypeOK
<1>2. ASSUME NEW d \in Desktops, NEW c \in Cids, LocalCapture(d, c) PROVE PushInv'
  <2> DEFINE k == RelayId(c, d)
             e == [key |-> k, peer |-> FALSE]
  <2>1. k \in Key /\ k.dev = d /\ e \in Entry /\ ~e.peer /\ e.key = k
    BY <1>0, RelayIdType DEF Entry, TypeOK, RelayId
  <2>2. /\ captured' = [captured EXCEPT ![d] = @ \cup {k}]
        /\ queue' = [queue EXCEPT ![d] = Broadcast(@, e)]
        /\ lost' = lost \cup Evicted(queue[d])
        /\ wire' = wire /\ relay' = relay
    BY <1>2 DEF LocalCapture
  <2> HIDE DEF k, e
  <2>3. /\ Waiting(queue[d]) \subseteq Waiting(queue'[d]) \cup Evicted(queue[d])
        /\ k \in Waiting(queue'[d])
        /\ Waiting(queue'[d]) \subseteq Waiting(queue[d]) \cup {k}
    <3>1. queue'[d] = Broadcast(queue[d], e)
      BY <2>2, <1>c
    <3> QED BY <3>1, <2>1, <1>q, BroadcastWaiting, BroadcastAdds
  <2>4. \A x \in Desktops : x # d => queue'[x] = queue[x] /\ captured'[x] = captured[x]
    BY <2>2, <1>c, <1>0
  <2>5. captured'[d] = captured[d] \cup {k}
    BY <2>2, <1>c, <1>0
  <2>6. (\A x \in Devices : \A y \in captured[x] : y.dev = x)'
    BY <2>1, <2>2, <1>c, <1>0
  <2>7. (\A x \in Desktops : Waiting(queue[x]) \subseteq captured[x])'
    BY <2>3, <2>4, <2>5
  <2>8. NoEcho'
    BY <2>2, <1>c, <1>d, <1>k
  <2>9. PushAccounted'
    BY <2>2, <2>3, <2>4, <2>5
  <2> QED BY <2>6, <2>7, <2>8, <2>9
<1>3. ASSUME NEW p \in Phones, NEW c \in Cids, PhoneCapture(p, c) PROVE PushInv'
  <2>1. RelayId(c, p) \in Key /\ RelayId(c, p).dev = p
    BY <1>0, RelayIdType DEF TypeOK, RelayId
  <2>2. \A x \in Desktops : captured'[x] = captured[x]
    BY <1>3, <1>0, <1>c DEF PhoneCapture
  <2>3. captured'[p] = captured[p] \cup {RelayId(c, p)}
    BY <1>3, <1>0, <1>c DEF PhoneCapture
  <2>4. \A x \in Devices : captured[x] \subseteq captured'[x]
    BY <1>3, <1>c DEF PhoneCapture
  <2>5. NoEcho'
    BY <1>3, <2>1, <2>3, <2>4, <1>d, <1>k DEF PhoneCapture
  <2>6. (\A x \in Devices : \A k \in captured[x] : k.dev = x)'
    BY <1>3, <2>1, <1>c DEF PhoneCapture
  <2> QED BY <1>3, <2>2, <2>5, <2>6 DEF PhoneCapture
<1>4. ASSUME NEW d \in Desktops, PushNext(d) PROVE PushInv'
  <2> DEFINE q == queue[d]
  <2>1. /\ q \in Seq(Entry) /\ q # <<>>
        /\ queue' = [queue EXCEPT ![d] = Tail(q)]
        /\ wire' = IF ~Head(q).peer THEN wire \cup {Head(q).key} ELSE wire
        /\ captured' = captured /\ relay' = relay /\ lost' = lost
    BY <1>4, <1>q DEF PushNext, ShouldPushToRelay
  <2>2. /\ \A k \in Waiting(q) : k \in Waiting(Tail(q)) \/ (~Head(q).peer /\ k = Head(q).key)
        /\ Waiting(Tail(q)) \subseteq Waiting(q)
        /\ ~Head(q).peer => Head(q).key \in Waiting(q)
    BY <2>1, TailWaiting, TailAdds
  <2>3. queue'[d] = Tail(q) /\ \A x \in Desktops \ {d} : queue'[x] = queue[x]
    BY <2>1, <1>c
  <2>4. NoEcho'
    BY <2>1, <2>2, <1>0
  <2>5. PushAccounted'
    BY <2>1, <2>2, <2>3
  <2> QED BY <2>1, <2>2, <2>3, <2>4, <2>5
<1>5. ASSUME NEW k \in wire, PushFails(k) \/ StoreItem(k) PROVE PushInv'
  BY <1>5 DEF PushFails, StoreItem
<1>6. ASSUME NEW d \in Desktops, NEW k \in page[d], ImportItem(d, k) PROVE PushInv'
  <2> DEFINE e == [key |-> RelayId(k.cid, d), peer |-> TRUE]
  <2>1. e \in Entry /\ e.peer
    <3>1. k \in Key
      BY DEF TypeOK
    <3>2. k.cid \in Cids
      BY <3>1 DEF Key
    <3> QED BY <3>2, <1>0, RelayIdType DEF Entry, TypeOK
  <2>2. /\ queue' = [queue EXCEPT ![d] = Broadcast(@, e)]
        /\ lost' = lost \cup Evicted(queue[d])
        /\ captured' = captured /\ wire' = wire /\ relay' = relay
    BY <1>6 DEF ImportItem
  <2> HIDE DEF e
  <2>3. /\ Waiting(queue[d]) \subseteq Waiting(queue'[d]) \cup Evicted(queue[d])
        /\ Waiting(queue'[d]) \subseteq Waiting(queue[d])
    <3>1. queue'[d] = Broadcast(queue[d], e)
      BY <2>2, <1>c
    <3> QED BY <3>1, <2>1, <1>q, BroadcastWaiting, BroadcastAdds
  <2>4. \A x \in Desktops : x # d => queue'[x] = queue[x]
    BY <2>2, <1>c
  <2> QED BY <2>2, <2>3, <2>4
<1>7. ASSUME NEW d \in Desktops, NEW torn \in BOOLEAN, Restart(d, torn) PROVE PushInv'
  <2>1. /\ queue' = [queue EXCEPT ![d] = <<>>]
        /\ lost' = lost \cup Waiting(queue[d])
        /\ captured' = captured /\ wire' = wire /\ relay' = relay
    BY <1>7 DEF Restart
  <2>2. Waiting(<<>>) = {}
    BY DEF Waiting
  <2>3. queue'[d] = <<>> /\ \A x \in Desktops : x # d => queue'[x] = queue[x]
    BY <2>1, <1>c
  <2> QED BY <2>1, <2>2, <2>3
<1>8. CASE UNCHANGED <<captured, queue, wire, relay, lost>>
  BY <1>8
<1>9. ASSUME NEW d \in Desktops PROVE PullPage(d) => PushInv'
  BY <1>8 DEF PullPage, pushVars
<1>10. ASSUME NEW d \in Desktops, NEW k \in page[d]
       PROVE  SkipOwn(d, k) \/ ImportFails(d, k) => PushInv'
  BY <1>8 DEF SkipOwn, ImportFails, pushVars
<1>11. ASSUME NEW d \in Desktops, NEW saved \in BOOLEAN PROVE AdvanceCursor(d, saved) => PushInv'
  BY <1>8 DEF AdvanceCursor, pushVars
<1>12. CASE Tick \/ UNCHANGED vars
  BY <1>8, <1>12 DEF Tick, vars, pushVars
<1> QED BY <1>2, <1>3, <1>4, <1>5, <1>6, <1>7, <1>9, <1>10, <1>11, <1>12 DEF Next, Pull

LEMMA PushInvInit == Init => PushInv
  <1>1. Waiting(<<>>) = {}
    BY DEF Waiting
  <1>2. Desktops \subseteq Devices
    BY DEF Devices
  <1> QED BY <1>1, <1>2 DEF Init, PushInv, NoEcho, PushAccounted

\* Whatever is on the relay or on its way there was captured by the device it
\* names: imports never go back to the relay.
THEOREM NeverEchoes == Spec => []NoEcho
<1>1. PushInv => NoEcho
  BY DEF PushInv
<1> QED BY <1>1, PushInvInit, PushInvStep, TypeCorrect, PTL DEF Spec

\* Every capture of a desktop reaches the relay, is on its way, or is one of the
\* losses that the push loop accounts for.
THEOREM EveryPushAccounted == Spec => []PushAccounted
<1>1. PushInv => PushAccounted
  BY DEF PushInv
<1> QED BY <1>1, PushInvInit, PushInvStep, TypeCorrect, PTL DEF Spec

-----------------------------------------------------------------------------
(* The pull side.                                                           *)

\* What desktop d owes to the items up to key k: it imported them, they are its
\* own, or they were stored behind its front.
SettledUpTo(d, k) ==
  \A i \in relay : i.dev # d /\ AtMost(i, k) => i \in imported[d] \cup late[d]

\* The page is what is left of an interval of the relay: nothing lies between
\* `latest` and its items but other items of the page and late ones.
PageInv(d) ==
  /\ AtMost(cursor[d], latest[d])
  /\ SettledUpTo(d, latest[d])
  /\ \A i \in page[d] : Less(latest[d], i)
  /\ \A i \in page[d] : \A k \in relay :
       Less(k, i) => AtMost(k, latest[d]) \/ k \in page[d] \/ k \in late[d]

PullInvOf(d) ==
  /\ {cursor[d], cursorFile[d], latest[d]} \subseteq relay \cup {NoCursor}
  /\ page[d] \subseteq relay
  /\ AtMost(cursorFile[d], cursor[d])
  /\ SettledUpTo(d, cursor[d])
  /\ IF pulling[d] THEN PageInv(d) ELSE page[d] = {}

PullInv == IsFiniteSet(relay) /\ \A d \in Desktops : PullInvOf(d)

LEMMA AtMostTransitive ==
  ASSUME NEW a \in Pos, NEW b \in Pos, NEW c \in Pos, AtMost(a, b), AtMost(b, c)
  PROVE  AtMost(a, c)
  BY LessTransitive DEF AtMost

\* A step that leaves the pull state of desktop x and the relay alone.
LEMMA PullFrame ==
  ASSUME NEW x \in Desktops, PullInvOf(x), relay' = relay,
         cursor'[x] = cursor[x], cursorFile'[x] = cursorFile[x],
         latest'[x] = latest[x], pulling'[x] = pulling[x], page'[x] = page[x],
         imported[x] \subseteq imported'[x], late'[x] = late[x]
  PROVE  PullInvOf(x)'
  BY DEF PullInvOf, PageInv, SettledUpTo

LEMMA PullInvStep == TypeOK /\ PullInv /\ [Next]_vars => PullInv'
<1> SUFFICES ASSUME TypeOK, PullInv, [Next]_vars PROVE PullInv'
  OBVIOUS
<1> USE DEF PullInv
<1>p. relay \subseteq Pos /\ NoCursor \in Pos /\ wire \subseteq Pos /\ relay \subseteq Key
  BY KeyPos DEF TypeOK
<1>t. /\ cursor \in [Desktops -> Key \cup {NoCursor}]
      /\ cursorFile \in [Desktops -> Key \cup {NoCursor}]
      /\ latest \in [Desktops -> Key \cup {NoCursor}]
      /\ page \in [Desktops -> SUBSET Key] /\ pulling \in [Desktops -> BOOLEAN]
      /\ imported \in [Desktops -> SUBSET Key] /\ late \in [Desktops -> SUBSET Key]
  BY DEF TypeOK
<1>c. \A x \in Desktops : cursor[x] \in Pos /\ cursorFile[x] \in Pos /\ latest[x] \in Pos
  BY <1>t, KeyPos
<1>1. CASE UNCHANGED <<relay, pullVars, imported, late>>
  BY <1>1, PullFrame DEF pullVars
<1>2. ASSUME NEW k \in wire, StoreItem(k) PROVE PullInv'
  <2>1. /\ relay' = relay \cup {k}
        /\ UNCHANGED <<cursor, cursorFile, latest, pulling, page, imported>>
    BY <1>2 DEF StoreItem, pullVars
  <2>2. IsFiniteSet(relay')
    BY <2>1, FS_AddElement
  <2>3. ASSUME NEW x \in Desktops PROVE PullInvOf(x)'
    <3> USE DEF PullInvOf
    <3>1. late'[x] = IF k \notin relay /\ BehindFront(x, k) THEN late[x] \cup {k} ELSE late[x]
      BY <1>2 DEF StoreItem
    <3>2. SettledUpTo(x, cursor[x])'
      BY <2>1, <3>1 DEF SettledUpTo, BehindFront
    <3>3. ASSUME pulling[x] PROVE PageInv(x)'
      <4>1. SettledUpTo(x, latest[x])'
        BY <2>1, <3>1, <3>3 DEF SettledUpTo, BehindFront, PageInv
      <4>2. (\A i \in page[x] : \A j \in relay :
               Less(j, i) => AtMost(j, latest[x]) \/ j \in page[x] \/ j \in late[x])'
        BY <2>1, <3>1, <3>3 DEF BehindFront, PageInv, AtMost
      <4> QED BY <4>1, <4>2, <2>1, <3>3 DEF PageInv
    <3> QED BY <2>1, <3>2, <3>3
  <2> QED BY <2>2, <2>3
<1>3. ASSUME NEW d \in Desktops, PullPage(d) PROVE PullInv'
  <2> DEFINE P == NextPage(cursor[d])
  <2>1. /\ ~pulling[d]
        /\ pulling' = [pulling EXCEPT ![d] = TRUE]
        /\ page' = [page EXCEPT ![d] = P]
        /\ latest' = [latest EXCEPT ![d] = cursor[d]]
        /\ UNCHANGED <<relay, cursor, cursorFile, imported, late>>
    BY <1>3 DEF PullPage
  <2>2. \A i \in P : i \in relay /\ Less(cursor[d], i)
    BY DEF NextPage, Above
  <2>3. \A i \in P : \A k \in relay : Less(k, i) => AtMost(k, cursor[d]) \/ k \in P
    BY PageNoGap, LessTotal, <1>c, <1>p DEF AtMost
  <2> HIDE DEF P
  <2>4. pulling'[d] /\ page'[d] = P /\ latest'[d] = cursor[d]
    BY <2>1, <1>t
  <2>5. PageInv(d)'
    <3>1. AtMost(cursor[d], latest[d])'
      BY <2>1, <2>4 DEF AtMost
    <3>2. SettledUpTo(d, latest[d])'
      BY <2>1, <2>4 DEF PullInvOf, SettledUpTo
    <3> QED BY <3>1, <3>2, <2>1, <2>2, <2>3, <2>4 DEF PageInv
  <2>6. PullInvOf(d)'
    BY <2>1, <2>2, <2>4, <2>5 DEF PullInvOf, SettledUpTo
  <2>7. \A x \in Desktops : x # d => PullInvOf(x)'
    BY <2>1, <1>t, PullFrame
  <2> QED BY <2>1, <2>6, <2>7
<1>4. ASSUME NEW d \in Desktops, NEW k \in page[d],
             SkipOwn(d, k) \/ ImportItem(d, k)
      PROVE  PullInv'
  <2>1. /\ pulling[d] /\ FirstOfPage(d, k)
        /\ page' = [page EXCEPT ![d] = @ \ {k}]
        /\ latest' = [latest EXCEPT ![d] = k]
        /\ \/ k.dev = d /\ imported' = imported
           \/ imported' = [imported EXCEPT ![d] = @ \cup {k}]
        /\ UNCHANGED <<relay, cursor, cursorFile, pulling, late>>
    BY <1>4 DEF SkipOwn, ImportItem
  <2>2. PullInvOf(d) /\ PageInv(d)
    BY <2>1 DEF PullInvOf
  <2>3. page[d] \subseteq relay /\ k \in relay /\ Less(latest[d], k)
    BY <2>2 DEF PullInvOf, PageInv
  <2>4. /\ page'[d] = page[d] \ {k} /\ latest'[d] = k /\ pulling'[d]
        /\ \A i \in imported[d] : i \in imported'[d]
        /\ k.dev = d \/ k \in imported'[d]
    BY <2>1, <1>t
  <2>5. \A j \in page[d] \ {k} : Less(k, j)
    BY <2>1 DEF FirstOfPage
  <2>6. PageInv(d)'
    <3>1. AtMost(cursor[d], latest[d])'
      <4>1. AtMost(cursor[d], k)
        BY <2>2, <2>3, <1>c, <1>p, AtMostTransitive DEF PageInv, AtMost
      <4> QED BY <4>1, <2>1, <2>4
    <3>2. ASSUME NEW i \in relay, i.dev # d, AtMost(i, k)
          PROVE  i \in imported'[d] \cup late[d]
      <4>1. CASE i = k
        BY <4>1, <3>2, <2>4
      <4>2. CASE Less(i, k)
        <5>1. AtMost(i, latest[d]) \/ i \in page[d] \/ i \in late[d]
          BY <4>2, <2>2 DEF PageInv
        <5>2. i \notin page[d]
          <6>1. i # k /\ ~Less(k, i)
            BY <4>2, <2>3, <1>p, LessIrreflexive, LessTransitive
          <6> QED BY <6>1, <2>5
        <5>3. AtMost(i, latest[d]) => i \in imported[d] \cup late[d]
          BY <3>2, <2>2 DEF PageInv, SettledUpTo
        <5> QED BY <5>1, <5>2, <5>3, <2>4
      <4> QED BY <4>1, <4>2, <3>2 DEF AtMost
    <3>3. SettledUpTo(d, latest[d])'
      BY <3>2, <2>1, <2>4 DEF SettledUpTo
    <3>4. ASSUME NEW i \in page[d] \ {k}, NEW j \in relay, Less(j, i)
          PROVE  AtMost(j, k) \/ j \in page[d] \ {k} \/ j \in late[d]
      <4>1. AtMost(j, latest[d]) \/ j \in page[d] \/ j \in late[d]
        BY <3>4, <2>2 DEF PageInv
      <4>2. AtMost(j, latest[d]) => AtMost(j, k)
        BY <2>3, <1>c, <1>p, AtMostTransitive DEF AtMost
      <4> QED BY <4>1, <4>2 DEF AtMost
    <3> QED BY <3>1, <3>3, <3>4, <2>1, <2>4, <2>5 DEF PageInv
  <2>7. PullInvOf(d)'
    <3>1. SettledUpTo(d, cursor[d])'
      BY <2>1, <2>2, <2>4 DEF PullInvOf, SettledUpTo
    <3> QED BY <3>1, <2>1, <2>2, <2>3, <2>4, <2>6 DEF PullInvOf
  <2>8. \A x \in Desktops : x # d => PullInvOf(x)'
    <3>1. \A x \in Desktops : x # d => /\ page'[x] = page[x] /\ latest'[x] = latest[x]
                                       /\ imported'[x] = imported[x]
      BY <2>1, <1>t
    <3> QED BY <3>1, <2>1, PullFrame
  <2> QED BY <2>1, <2>7, <2>8
<1>5. ASSUME NEW d \in Desktops, UNCHANGED <<relay, imported, late>>,
             pulling' = [pulling EXCEPT ![d] = FALSE],
             page' = [page EXCEPT ![d] = {}], latest' = [latest EXCEPT ![d] = NoCursor],
             \A x \in Desktops : x # d => cursor'[x] = cursor[x] /\ cursorFile'[x] = cursorFile[x],
             {cursor'[d], cursorFile'[d]} \subseteq relay \cup {NoCursor},
             AtMost(cursorFile'[d], cursor'[d]), SettledUpTo(d, cursor'[d])
      PROVE  PullInv'
  <2>1. PullInvOf(d)'
    BY <1>5, <1>t DEF PullInvOf, SettledUpTo
  <2>2. \A x \in Desktops : x # d => PullInvOf(x)'
    BY <1>5, <1>t, PullFrame
  <2> QED BY <1>5, <2>1, <2>2
<1>6. ASSUME NEW d \in Desktops, NEW k \in page[d], ImportFails(d, k) PROVE PullInv'
  BY <1>5, <1>6 DEF ImportFails, pushVars, PullInvOf
<1>7. ASSUME NEW d \in Desktops, NEW saved \in BOOLEAN, AdvanceCursor(d, saved)
      PROVE  PullInv'
  <2>1. /\ pulling[d] /\ page[d] = {} /\ UNCHANGED <<relay, imported, late>>
        /\ cursor' = [cursor EXCEPT ![d] = latest[d]]
        /\ cursorFile' = IF saved THEN [cursorFile EXCEPT ![d] = latest[d]] ELSE cursorFile
        /\ pulling' = [pulling EXCEPT ![d] = FALSE]
        /\ page' = [page EXCEPT ![d] = {}]
        /\ latest' = [latest EXCEPT ![d] = NoCursor]
    BY <1>7, <1>t DEF AdvanceCursor
  <2>2. PullInvOf(d) /\ PageInv(d)
    BY <2>1 DEF PullInvOf
  <2>3. cursor'[d] = latest[d] /\ cursorFile'[d] \in {latest[d], cursorFile[d]}
    BY <2>1, <1>t
  <2>4. AtMost(cursorFile[d], latest[d]) /\ AtMost(latest[d], latest[d])
    BY <2>2, <1>c, AtMostTransitive DEF PullInvOf, PageInv, AtMost
  <2>5. \A x \in Desktops : x # d => cursor'[x] = cursor[x] /\ cursorFile'[x] = cursorFile[x]
    BY <2>1, <1>t
  <2>6. {cursor'[d], cursorFile'[d]} \subseteq relay \cup {NoCursor}
    BY <2>2, <2>3 DEF PullInvOf
  <2>7. AtMost(cursorFile'[d], cursor'[d]) /\ SettledUpTo(d, cursor'[d])
    BY <2>2, <2>3, <2>4 DEF PageInv
  <2> QED BY <1>5, <2>1, <2>5, <2>6, <2>7
<1>8. ASSUME NEW d \in Desktops, NEW torn \in BOOLEAN, Restart(d, torn) PROVE PullInv'
  <2>1. /\ UNCHANGED <<relay, imported, late>>
        /\ cursorFile' = IF torn THEN [cursorFile EXCEPT ![d] = NoCursor] ELSE cursorFile
        /\ cursor' = [cursor EXCEPT ![d] = cursorFile'[d]]
        /\ pulling' = [pulling EXCEPT ![d] = FALSE]
        /\ page' = [page EXCEPT ![d] = {}]
        /\ latest' = [latest EXCEPT ![d] = NoCursor]
    BY <1>8 DEF Restart, ReadCursor
  <2>2. /\ cursorFile'[d] \in {NoCursor, cursorFile[d]} /\ cursor'[d] = cursorFile'[d]
        /\ \A x \in Desktops : x # d => cursor'[x] = cursor[x] /\ cursorFile'[x] = cursorFile[x]
    BY <2>1, <1>t
  <2>3. {cursor'[d], cursorFile'[d]} \subseteq relay \cup {NoCursor}
    BY <2>2 DEF PullInvOf
  <2>4. SettledUpTo(d, cursorFile[d])
    <3>1. \A i \in relay : AtMost(i, cursorFile[d]) => AtMost(i, cursor[d])
      BY <1>c, <1>p, AtMostTransitive DEF PullInvOf
    <3> QED BY <3>1 DEF PullInvOf, SettledUpTo
  <2>5. SettledUpTo(d, NoCursor)
    BY <1>p, NoCursorBelow DEF SettledUpTo
  <2>6. AtMost(cursorFile'[d], cursor'[d])
    BY <2>2 DEF AtMost
  <2>7. SettledUpTo(d, cursor'[d])
    BY <2>2, <2>4, <2>5
  <2> QED BY <1>5, <2>1, <2>2, <2>3, <2>6, <2>7
<1>9. ASSUME NEW d \in Desktops, NEW c \in Cids PROVE LocalCapture(d, c) => PullInv'
  BY <1>1 DEF LocalCapture
<1>10. ASSUME NEW p \in Phones, NEW c \in Cids PROVE PhoneCapture(p, c) => PullInv'
  BY <1>1 DEF PhoneCapture
<1>11. ASSUME NEW d \in Desktops PROVE PushNext(d) => PullInv'
  BY <1>1 DEF PushNext
<1>12. ASSUME NEW k \in wire PROVE PushFails(k) => PullInv'
  BY <1>1 DEF PushFails
<1>13. CASE Tick \/ UNCHANGED vars
  BY <1>1, <1>13 DEF Tick, vars
<1> QED BY <1>2, <1>3, <1>4, <1>6, <1>7, <1>8, <1>9, <1>10, <1>11, <1>12, <1>13
        DEF Next, Pull

LEMMA PullInvInit == Init => PullInv
  BY FS_EmptySet DEF Init, PullInv, PullInvOf, SettledUpTo, AtMost

LEMMA PullInvAlways == Spec => []PullInv
  BY PullInvInit, PullInvStep, TypeCorrect, PTL DEF Spec

\* The cursor of a desktop never passes an item that it should have imported and
\* did not, unless the relay stored the item behind the front of its pull.
THEOREM EveryPullAccounted == Spec => []PullAccounted
<1>1. PullInv => PullAccounted
  BY DEF PullInv, PullInvOf, SettledUpTo, PullAccounted
<1> QED BY <1>1, PullInvAlways, PTL

\* Nothing is lost between two desktops but what a failed push, a lagging
\* receiver, a restart or an item stored behind a front accounts for.
THEOREM EveryItemAccounted == Spec => []ItemsAccounted
<1>1. PushAccounted /\ PullAccounted => ItemsAccounted
  BY DEF ItemsAccounted
<1> QED BY <1>1, EveryPushAccounted, EveryPullAccounted, PTL

\* How far desktop d has imported.
Front(d) == IF pulling[d] THEN latest[d] ELSE cursor[d]

\* A desktop without a fault has imported nothing behind its front, nothing twice.
OnceInvOf(d) ==
  faults[d] = 0 => again[d] = {} /\ \A k \in imported[d] : AtMost(k, Front(d))

OnceInv == \A d \in Desktops : OnceInvOf(d)

\* A step that leaves what desktop x has imported alone, and its front.
LEMMA OnceFrame ==
  ASSUME NEW x \in Desktops, OnceInvOf(x), faults'[x] = faults[x], again'[x] = again[x],
         imported'[x] = imported[x], Front(x)' = Front(x)
  PROVE  OnceInvOf(x)'
  BY DEF OnceInvOf

\* Every step keeps the front of a desktop without a fault ahead of its imports.
LEMMA OnceInvStep == TypeOK /\ PullInv /\ OnceInv /\ [Next]_vars => OnceInv'
<1> SUFFICES ASSUME TypeOK, PullInv, OnceInv, [Next]_vars PROVE OnceInv'
  OBVIOUS
<1> USE DEF OnceInv
<1>t. /\ cursor \in [Desktops -> Key \cup {NoCursor}]
      /\ latest \in [Desktops -> Key \cup {NoCursor}]
      /\ page \in [Desktops -> SUBSET Key] /\ pulling \in [Desktops -> BOOLEAN]
      /\ imported \in [Desktops -> SUBSET Key] /\ again \in [Desktops -> SUBSET Key]
      /\ faults \in [Desktops -> Nat]
  BY DEF TypeOK
<1>c. /\ \A x \in Desktops : cursor[x] \in Pos /\ latest[x] \in Pos
      /\ \A x \in Desktops : \A k \in imported[x] \cup page[x] : k \in Pos
  BY <1>t, KeyPos
<1>1. CASE UNCHANGED <<pullVars, imported, again, faults>>
  BY <1>1, OnceFrame DEF pullVars, Front
<1>2. ASSUME NEW d \in Desktops, PullPage(d) PROVE OnceInv'
  <2>1. /\ ~pulling[d] /\ pulling' = [pulling EXCEPT ![d] = TRUE]
        /\ latest' = [latest EXCEPT ![d] = cursor[d]]
        /\ UNCHANGED <<cursor, imported, again, faults>>
    BY <1>2 DEF PullPage
  <2>2. \A x \in Desktops : Front(x)' = Front(x)
    BY <2>1, <1>t DEF Front
  <2> QED BY <2>1, <2>2, OnceFrame
<1>3. ASSUME NEW d \in Desktops, NEW k \in page[d], SkipOwn(d, k) \/ ImportItem(d, k)
      PROVE  OnceInv'
  <2>1. /\ pulling[d] /\ pulling' = pulling /\ cursor' = cursor /\ faults' = faults
        /\ latest' = [latest EXCEPT ![d] = k]
        /\ \/ imported' = imported /\ again' = again
           \/ /\ imported' = [imported EXCEPT ![d] = @ \cup {k}]
              /\ again' = [again EXCEPT ![d] = IF k \in imported[d] THEN @ \cup {k} ELSE @]
    BY <1>3 DEF SkipOwn, ImportItem
  <2>2. Less(latest[d], k)
    BY <2>1 DEF PullInv, PullInvOf, PageInv
  <2>3. Front(d) = latest[d] /\ Front(d)' = k
    BY <2>1, <1>t DEF Front
  <2>4. ASSUME faults[d] = 0 PROVE again'[d] = {} /\ \A i \in imported'[d] : AtMost(i, k)
    <3>1. again[d] = {} /\ \A i \in imported[d] : AtMost(i, latest[d])
      BY <2>4, <2>3 DEF OnceInvOf
    <3>2. k \notin imported[d]
      BY <3>1, <2>2, <1>c, LessIrreflexive, LessTransitive DEF AtMost
    <3>3. \A i \in imported[d] : AtMost(i, k)
      BY <3>1, <2>2, <1>c, AtMostTransitive DEF AtMost
    <3>4. AtMost(k, k)
      BY DEF AtMost
    <3> QED BY <3>1, <3>2, <3>3, <3>4, <2>1, <1>t
  <2>5. OnceInvOf(d)'
    BY <2>1, <2>3, <2>4 DEF OnceInvOf
  <2>6. ASSUME NEW x \in Desktops, x # d PROVE OnceInvOf(x)'
    <3>1. /\ faults'[x] = faults[x] /\ again'[x] = again[x] /\ imported'[x] = imported[x]
          /\ Front(x)' = Front(x)
      BY <2>1, <2>6, <1>t DEF Front
    <3> QED BY <3>1, OnceFrame
  <2> QED BY <2>5, <2>6
<1>4. ASSUME NEW d \in Desktops, NEW saved \in BOOLEAN, AdvanceCursor(d, saved)
      PROVE  OnceInv'
  <2>1. /\ pulling[d] /\ pulling' = [pulling EXCEPT ![d] = FALSE]
        /\ cursor' = [cursor EXCEPT ![d] = latest[d]]
        /\ latest' = [latest EXCEPT ![d] = NoCursor]
        /\ UNCHANGED <<imported, again, faults>>
    BY <1>4 DEF AdvanceCursor
  <2>2. \A x \in Desktops : Front(x)' = Front(x)
    BY <2>1, <1>t DEF Front
  <2> QED BY <2>1, <2>2, OnceFrame
<1>5. ASSUME NEW d \in Desktops, faults' = [faults EXCEPT ![d] = @ + 1],
             UNCHANGED <<imported, again>>,
             \A x \in Desktops : x # d => Front(x)' = Front(x)
      PROVE  OnceInv'
  <2>1. faults'[d] # 0
    BY <1>5, <1>t
  <2>2. OnceInvOf(d)'
    BY <2>1 DEF OnceInvOf
  <2>3. ASSUME NEW x \in Desktops, x # d PROVE OnceInvOf(x)'
    <3>1. faults'[x] = faults[x]
      BY <1>5, <2>3, <1>t
    <3> QED BY <3>1, <1>5, <2>3, OnceFrame
  <2> QED BY <2>2, <2>3
<1>6. ASSUME NEW d \in Desktops, NEW k \in page[d], ImportFails(d, k) PROVE OnceInv'
  <2>1. \A x \in Desktops : x # d => Front(x)' = Front(x)
    BY <1>6, <1>t DEF ImportFails, Front
  <2> QED BY <2>1, <1>6, <1>5 DEF ImportFails
<1>7. ASSUME NEW d \in Desktops, NEW torn \in BOOLEAN, Restart(d, torn) PROVE OnceInv'
  <2>1. \A x \in Desktops : x # d => Front(x)' = Front(x)
    BY <1>7, <1>t DEF Restart, ReadCursor, Front
  <2> QED BY <2>1, <1>7, <1>5 DEF Restart
<1>8. ASSUME Tick \/ (\E d \in Desktops, c \in Cids : LocalCapture(d, c))
             \/ (\E p \in Phones, c \in Cids : PhoneCapture(p, c))
             \/ (\E d \in Desktops : PushNext(d))
             \/ (\E k \in wire : PushFails(k) \/ StoreItem(k)) \/ UNCHANGED vars
      PROVE  OnceInv'
  <2>1. UNCHANGED <<pullVars, imported, again, faults>>
    BY <1>8 DEF Tick, LocalCapture, PhoneCapture, PushNext, PushFails, StoreItem, vars
  <2> QED BY <2>1, <1>1
<1> QED BY <1>2, <1>3, <1>4, <1>6, <1>7, <1>8 DEF Next, Pull

\* A desktop imports an item twice only after a fault of its own.
THEOREM OnceWithoutFault == Spec => []TwiceOnlyAfterFault
<1>1. Init => OnceInv
  BY DEF Init, OnceInv, OnceInvOf
<1>2. TypeOK /\ OnceInv => TwiceOnlyAfterFault
  BY DEF TypeOK, OnceInv, OnceInvOf, TwiceOnlyAfterFault
<1> QED BY <1>1, <1>2, OnceInvStep, PullInvAlways, TypeCorrect, PTL DEF Spec

\* A restart never resumes ahead of what was imported.
THEOREM FileNeverAhead == Spec => []FileBehindCursor
<1>1. PullInv => FileBehindCursor
  BY DEF PullInv, PullInvOf, FileBehindCursor
<1> QED BY <1>1, PullInvAlways, PTL

\* Without a fault a step only moves a cursor forward.
THEOREM CursorNeverBack == Spec => CursorMonotone
<1> DEFINE Forward == \A d \in Desktops : faults'[d] = faults[d] => AtMost(cursor[d], cursor'[d])
<1>1. TypeOK /\ PullInv /\ [Next]_vars => [Forward]_vars
  <2> SUFFICES ASSUME TypeOK, PullInv, Next PROVE Forward
    OBVIOUS
  <2>1. CASE UNCHANGED cursor
    BY <2>1 DEF AtMost
  <2>2. ASSUME NEW d \in Desktops, NEW saved \in BOOLEAN, AdvanceCursor(d, saved)
        PROVE  Forward
    <3>1. cursor' = [cursor EXCEPT ![d] = latest[d]] /\ pulling[d]
      BY <2>2 DEF AdvanceCursor
    <3>2. AtMost(cursor[d], latest[d])
      BY <3>1 DEF PullInv, PullInvOf, PageInv
    <3> QED BY <3>1, <3>2 DEF TypeOK, AtMost
  <2>3. ASSUME NEW d \in Desktops, NEW torn \in BOOLEAN, Restart(d, torn)
        PROVE  Forward
    <3>1. cursor' = [cursor EXCEPT ![d] = ReadCursor(cursorFile'[d])] /\ faults'[d] # faults[d]
      BY <2>3 DEF Restart, TypeOK
    <3> QED BY <3>1 DEF AtMost, TypeOK
  <2> QED BY <2>1, <2>2, <2>3 DEF Next, Pull, Tick, LocalCapture, PhoneCapture, PushNext,
             PushFails, StoreItem, PullPage, SkipOwn, ImportItem, ImportFails, pullVars
<1> QED BY <1>1, TypeCorrect, PullInvAlways, PTL DEF Spec, CursorMonotone

-----------------------------------------------------------------------------
(* The relay implements the ordered feed.                                   *)

LEMMA PrecedesIsLess == \A a, b : Feed!Precedes(a, b) <=> Less(a, b)
  BY DEF Feed!Precedes, Less

\* A step of the relay is a step of the feed or leaves it alone.
LEMMA FeedStep ==
  TypeOK /\ PullInv /\ [Next]_vars => [Feed!FeedNext]_Feed!feedVars
<1> SUFFICES ASSUME TypeOK, PullInv, [Next]_vars
             PROVE  Feed!FeedNext \/ UNCHANGED <<relay, imported, late>>
  BY DEF Feed!feedVars
<1>p. relay \subseteq Pos /\ wire \subseteq Key /\ relay \subseteq Key /\ Key \subseteq Pos
  BY KeyPos DEF TypeOK
<1>1. ASSUME NEW k \in wire, StoreItem(k), k \notin relay PROVE Feed!FeedNext
  <2> DEFINE M == {d \in Desktops : BehindFront(d, k)}
  <2>1. ASSUME NEW d \in Desktops, BehindFront(d, k)
        PROVE  \E j \in relay : Less(k, j)
    <3>1. PullInvOf(d) /\ (pulling[d] => PageInv(d))
      BY DEF PullInv, PullInvOf
    <3>2. \A x \in {cursor[d], latest[d]} : AtMost(k, x) => \E j \in relay : Less(k, j)
      BY <3>1, <1>1, <1>p, NoCursorBelow DEF PullInvOf, AtMost
    <3>3. \A i \in page[d] : AtMost(k, i) => \E j \in relay : Less(k, j)
      BY <3>1, <1>1 DEF PullInvOf, AtMost
    <3> QED BY <2>1, <3>2, <3>3 DEF BehindFront
  <2>2. Feed!Publish(k, M)
    <3>1. M # {} => \E j \in relay : Feed!Precedes(k, j)
      BY <2>1, PrecedesIsLess
    <3>2. late' = [r \in Desktops |-> IF r \in M THEN late[r] \cup {k} ELSE late[r]]
      BY <1>1 DEF StoreItem
    <3> HIDE DEF M
    <3> QED BY <3>1, <3>2, <1>1 DEF StoreItem, Feed!Publish
  <2> QED BY <2>2, <1>p DEF Feed!FeedNext
<1>2. ASSUME NEW k \in wire, StoreItem(k), k \in relay
      PROVE  UNCHANGED <<relay, imported, late>>
  BY <1>2 DEF StoreItem, TypeOK
<1>3. ASSUME NEW d \in Desktops, NEW k \in page[d], ImportItem(d, k) PROVE Feed!FeedNext
  <2>1. pulling[d] /\ FirstOfPage(d, k) /\ k.dev # d
    BY <1>3 DEF ImportItem
  <2>2. PageInv(d) /\ k \in relay /\ page[d] \subseteq relay
    BY <2>1 DEF PullInv, PullInvOf
  <2>3. ASSUME NEW j \in relay, j.dev # d, Less(j, k) PROVE j \in imported[d] \cup late[d]
    <3>1. AtMost(j, latest[d]) \/ j \in page[d] \/ j \in late[d]
      BY <2>2, <2>3 DEF PageInv
    <3>2. j \notin page[d]
      <4>1. j # k /\ ~Less(k, j)
        BY <2>2, <2>3, <1>p, LessIrreflexive, LessTransitive
      <4> QED BY <4>1, <2>1 DEF FirstOfPage
    <3>3. AtMost(j, latest[d]) => j \in imported[d] \cup late[d]
      BY <2>2, <2>3 DEF PageInv, SettledUpTo
    <3> QED BY <3>1, <3>2, <3>3
  <2>4. Feed!Deliver(d, k)
    BY <2>1, <2>2, <2>3, <1>3, PrecedesIsLess DEF Feed!Deliver, ImportItem
  <2> QED BY <2>2, <2>4, <1>p DEF Feed!FeedNext
<1>4. CASE UNCHANGED <<relay, imported, late>>
  BY <1>4
<1>5. CASE Tick \/ UNCHANGED vars
  BY <1>5 DEF Tick, vars
<1>6. ASSUME NEW d \in Desktops PROVE PushNext(d) \/ PullPage(d) => UNCHANGED <<relay, imported, late>>
  BY DEF PushNext, PullPage
<1>7. ASSUME NEW d \in Desktops, NEW k \in page[d]
      PROVE  SkipOwn(d, k) \/ ImportFails(d, k) => UNCHANGED <<relay, imported, late>>
  BY DEF SkipOwn, ImportFails
<1>8. ASSUME NEW d \in Desktops, NEW b \in BOOLEAN
      PROVE  AdvanceCursor(d, b) \/ Restart(d, b) => UNCHANGED <<relay, imported, late>>
  BY DEF AdvanceCursor, Restart
<1>9. ASSUME NEW d \in Desktops, NEW c \in Cids
      PROVE  LocalCapture(d, c) => UNCHANGED <<relay, imported, late>>
  BY DEF LocalCapture
<1>10. ASSUME NEW d \in Phones, NEW c \in Cids
      PROVE  PhoneCapture(d, c) => UNCHANGED <<relay, imported, late>>
  BY DEF PhoneCapture
<1>11. ASSUME NEW k \in wire PROVE PushFails(k) => UNCHANGED <<relay, imported, late>>
  BY DEF PushFails
<1> QED BY <1>1, <1>2, <1>3, <1>5, <1>6, <1>7, <1>8, <1>9, <1>10, <1>11 DEF Next, Pull

\* The relay with its push and pull loops implements the ordered feed: every
\* import is the first item still due, and only an item that was stored behind a
\* later one is ever missed.
THEOREM RelayImplementsFeed == Spec => FeedSpec
<1>1. Init => Feed!FeedInit
  BY DEF Init, Feed!FeedInit
<1> QED BY <1>1, FeedStep, TypeCorrect, PullInvAlways, PTL DEF Spec, FeedSpec, Feed!FeedSpec

-----------------------------------------------------------------------------
(* Lists of edits in the order of their keys.                               *)

AnyEdit == [clock : Nat \ {0}, author : Nat, slot : Slots \cup {"text"}, nth : Nat \ {0}]

\* No two edits of a set have the same key.
Keyed(S) == S \subseteq AnyEdit /\ IsFiniteSet(S) /\ \A a, b \in S : SameKey(a, b) => a = b

Sorted(s) == s \in Seq(AnyEdit) /\ \A i, j \in DOMAIN s : i < j => KeyLess(s[i], s[j])

Before(S, e) == {o \in S : KeyLess(o, e)}

\* The keys are ordered.
LEMMA KeyOrder ==
  ASSUME NEW a \in AnyEdit, NEW b \in AnyEdit
  PROVE  /\ ~KeyLess(a, a) /\ ~(KeyLess(a, b) /\ SameKey(a, b))
         /\ KeyLess(a, b) \/ KeyLess(b, a) \/ SameKey(a, b)
         /\ \A c \in AnyEdit : KeyLess(a, b) /\ KeyLess(b, c) => KeyLess(a, c)
  BY DEF KeyLess, SameKey, AnyEdit

\* More edits come before a later one.
LEMMA BeforeGrows ==
  ASSUME NEW S, Keyed(S), NEW a \in S, NEW b \in S, KeyLess(a, b)
  PROVE  Cardinality(Before(S, a)) < Cardinality(Before(S, b))
  <1>1. Before(S, a) \subseteq Before(S, b) /\ a \in Before(S, b) /\ a \notin Before(S, a)
    BY KeyOrder DEF Keyed, Before
  <1>2. Before(S, a) \subseteq S /\ Before(S, b) \subseteq S
    BY DEF Before
  <1>3. IsFiniteSet(Before(S, a)) /\ IsFiniteSet(Before(S, b))
    BY <1>2, FS_Subset DEF Keyed
  <1>4. Cardinality(Before(S, a)) <= Cardinality(Before(S, b))
        /\ Cardinality(Before(S, a)) # Cardinality(Before(S, b))
    BY <1>1, <1>3, FS_Subset
  <1> QED BY <1>3, <1>4, FS_CardinalityType

\* Every place of a sorted set is taken by one edit.
LEMMA Places ==
  ASSUME NEW S, Keyed(S)
  PROVE  /\ Cardinality(S) \in Nat
         /\ \A e \in S : Cardinality(Before(S, e)) \in 0..(Cardinality(S) - 1)
         /\ \A i \in 1..Cardinality(S) : \E e \in S : Cardinality(Before(S, e)) = i - 1
         /\ \A a, b \in S : Cardinality(Before(S, a)) = Cardinality(Before(S, b)) => a = b
  <1> DEFINE n == Cardinality(S)
             places == 0..(n - 1)
             Place(e) == Cardinality(Before(S, e))
             place == [e \in S |-> Place(e)]
  <1>1. n \in Nat
    BY FS_CardinalityType DEF Keyed
  <1>2. \A e \in S : Place(e) \in places
    <2> SUFFICES ASSUME NEW e \in S PROVE Place(e) \in places
      OBVIOUS
    <2>1. Before(S, e) \subseteq S /\ e \notin Before(S, e)
      BY KeyOrder DEF Keyed, Before
    <2>2. IsFiniteSet(Before(S, e)) /\ Place(e) <= n /\ Place(e) # n
      BY <2>1, FS_Subset DEF Keyed
    <2>3. Place(e) \in Nat
      BY <2>2, FS_CardinalityType
    <2> QED BY <1>1, <2>2, <2>3
  <1>3. \A a, b \in S : Place(a) = Place(b) => a = b
    <2> SUFFICES ASSUME NEW a \in S, NEW b \in S, Place(a) = Place(b), a # b PROVE FALSE
      OBVIOUS
    <2>1. KeyLess(a, b) \/ KeyLess(b, a)
      BY KeyOrder DEF Keyed
    <2>2. Place(a) \in Nat /\ Place(b) \in Nat
      BY <1>1, <1>2
    <2> QED BY <2>1, <2>2, BeforeGrows
  <1> HIDE DEF Place
  <1>4. place \in Injection(S, places)
    BY <1>2, <1>3 DEF Injection, IsInjective
  <1>5. IsFiniteSet(places) /\ Cardinality(places) = n
    BY <1>1, FS_Interval
  <1>6. place \in Surjection(S, places)
    BY <1>4, <1>5, FS_Injection
  <1>7. \A i \in 1..n : \E e \in S : Place(e) = i - 1
    <2> SUFFICES ASSUME NEW i \in 1..n PROVE \E e \in S : Place(e) = i - 1
      OBVIOUS
    <2>1. i - 1 \in places
      BY <1>1
    <2> QED BY <1>6, <2>1 DEF Surjection
  <1> QED BY <1>1, <1>2, <1>3, <1>7 DEF Place

\* SortedByKey sorts.
LEMMA SortsSet ==
  ASSUME NEW S, Keyed(S)
  PROVE  Sorted(SortedByKey(S)) /\ Range(SortedByKey(S)) = S
  <1> DEFINE n == Cardinality(S)
             s == SortedByKey(S)
  <1>1. n \in Nat /\ s = [i \in 1..n |-> CHOOSE e \in S : Cardinality(Before(S, e)) = i - 1]
    BY Places DEF SortedByKey, Before
  <1>2. \A i \in 1..n : s[i] \in S /\ Cardinality(Before(S, s[i])) = i - 1
    <2> SUFFICES ASSUME NEW i \in 1..n PROVE s[i] \in S /\ Cardinality(Before(S, s[i])) = i - 1
      OBVIOUS
    <2>1. \E e \in S : Cardinality(Before(S, e)) = i - 1
      BY Places
    <2>2. s[i] = CHOOSE e \in S : Cardinality(Before(S, e)) = i - 1
      BY <1>1
    <2> QED BY <2>1, <2>2
  <1>3. DOMAIN s = 1..n
    BY <1>1
  <1>4. s \in Seq(S)
    BY <1>1, <1>2
  <1> HIDE DEF s
  <1>5. \A i, j \in 1..n : i < j => KeyLess(s[i], s[j])
    <2> SUFFICES ASSUME NEW i \in 1..n, NEW j \in 1..n, i < j PROVE KeyLess(s[i], s[j])
      OBVIOUS
    <2>1. s[i] # s[j] /\ ~(Cardinality(Before(S, s[j])) < Cardinality(Before(S, s[i])))
      BY <1>1, <1>2
    <2>2. ~KeyLess(s[j], s[i])
      BY <1>2, <2>1, BeforeGrows
    <2> QED BY <1>2, <2>1, <2>2, KeyOrder DEF Keyed
  <1>6. Range(s) = S
    <2>1. \A e \in S : \E i \in 1..n : s[i] = e
      <3> SUFFICES ASSUME NEW e \in S PROVE \E i \in 1..n : s[i] = e
        OBVIOUS
      <3> DEFINE i == Cardinality(Before(S, e)) + 1
      <3>1. Cardinality(Before(S, e)) \in 0..(n - 1)
        BY Places
      <3>2. i \in 1..n /\ i - 1 = Cardinality(Before(S, e))
        BY <1>1, <3>1
      <3> HIDE DEF i
      <3>3. s[i] = e
        BY <1>2, <3>2, Places
      <3> QED BY <3>2, <3>3
    <2> QED BY <1>2, <1>3, <2>1 DEF Range
  <1>7. s \in Seq(AnyEdit)
    BY <1>4 DEF Keyed
  <1> QED BY <1>3, <1>5, <1>6, <1>7 DEF Sorted, s

\* A sorted list has finitely many edits, with different keys.
LEMMA SortedKeyed ==
  ASSUME NEW s, Sorted(s)
  PROVE  /\ Keyed(Range(s)) /\ Cardinality(Range(s)) = Len(s)
         /\ \A i, j \in DOMAIN s : s[i] = s[j] => i = j
  <1>1. DOMAIN s = 1..Len(s) /\ Len(s) \in Nat /\ \A i \in DOMAIN s : s[i] \in AnyEdit
    BY DEF Sorted
  <1>2. Range(s) \subseteq AnyEdit /\ \A i \in DOMAIN s : s[i] \in Range(s)
    BY <1>1 DEF Range
  <1>3. \A i, j \in DOMAIN s : SameKey(s[i], s[j]) => i = j
    <2> SUFFICES ASSUME NEW i \in DOMAIN s, NEW j \in DOMAIN s, SameKey(s[i], s[j]), i # j
                 PROVE  FALSE
      OBVIOUS
    <2>1. SameKey(s[j], s[i])
      BY DEF SameKey
    <2>2. KeyLess(s[i], s[j]) \/ KeyLess(s[j], s[i])
      BY <1>1 DEF Sorted
    <2> QED BY <1>1, <2>1, <2>2, KeyOrder
  <1>4. \A i, j \in DOMAIN s : s[i] = s[j] => i = j
    BY <1>3 DEF SameKey
  <1>5. \A a, b \in Range(s) : SameKey(a, b) => a = b
    BY <1>3 DEF Range
  <1>6. s \in Injection(1..Len(s), Range(s)) /\ s \in Surjection(1..Len(s), Range(s))
    <2>1. s \in [1..Len(s) -> Range(s)]
      BY <1>1, <1>2 DEF Sorted
    <2> QED BY <1>1, <1>4, <2>1 DEF Injection, IsInjective, Surjection, Range
  <1>7. IsFiniteSet(1..Len(s)) /\ Cardinality(1..Len(s)) = Len(s)
    BY <1>1, FS_Interval
  <1>8. IsFiniteSet(Range(s)) /\ Cardinality(Range(s)) = Len(s)
    BY <1>6, <1>7, FS_Surjection
  <1> QED BY <1>2, <1>4, <1>5, <1>8 DEF Keyed

\* A sorted list is the sorted list of its edits.
LEMMA SortedIsUnique ==
  ASSUME NEW s, Sorted(s)
  PROVE  s = SortedByKey(Range(s))
  <1> DEFINE S == Range(s)
             t == SortedByKey(S)
  <1>1. Keyed(S) /\ Cardinality(S) = Len(s) /\ \A i, j \in DOMAIN s : s[i] = s[j] => i = j
    BY SortedKeyed
  <1>2. DOMAIN s = 1..Len(s) /\ Len(s) \in Nat /\ \A i \in DOMAIN s : s[i] \in S /\ s[i] \in AnyEdit
    BY DEF Sorted, Range
  <1>3. \A i \in 1..Len(s) : Cardinality(Before(S, s[i])) = i - 1
    <2> SUFFICES ASSUME NEW i \in 1..Len(s) PROVE Cardinality(Before(S, s[i])) = i - 1
      OBVIOUS
    <2> DEFINE front == [j \in 1..(i - 1) |-> s[j]]
    <2>1. \A j \in 1..Len(s) : KeyLess(s[j], s[i]) <=> j < i
      <3> SUFFICES ASSUME NEW j \in 1..Len(s) PROVE KeyLess(s[j], s[i]) <=> j < i
        OBVIOUS
      <3>1. CASE j < i
        BY <1>2, <3>1 DEF Sorted
      <3>2. CASE i < j
        <4>1. KeyLess(s[i], s[j])
          BY <1>2, <3>2 DEF Sorted
        <4>2. ~KeyLess(s[j], s[i])
          BY <1>2, <4>1, KeyOrder
        <4> QED BY <3>2, <4>2
      <3>3. CASE i = j
        BY <1>2, <3>3, KeyOrder
      <3> QED BY <3>1, <3>2, <3>3
    <2>2. Before(S, s[i]) = {s[j] : j \in 1..(i - 1)}
      BY <1>2, <2>1 DEF Before, Range
    <2>3. front \in Injection(1..(i - 1), Before(S, s[i])) /\ front \in Surjection(1..(i - 1), Before(S, s[i]))
      BY <1>1, <1>2, <2>2 DEF Injection, IsInjective, Surjection
    <2>4. IsFiniteSet(1..(i - 1)) /\ Cardinality(1..(i - 1)) = i - 1
      BY FS_Interval
    <2>5. Cardinality(Before(S, s[i])) = Cardinality(1..(i - 1))
      BY <2>3, <2>4, FS_Surjection
    <2> QED BY <2>4, <2>5
  <1>4. t = [i \in 1..Len(s) |-> CHOOSE e \in S : Cardinality(Before(S, e)) = i - 1]
    BY <1>1 DEF SortedByKey, Before
  <1>5. \A i \in 1..Len(s) : t[i] = s[i]
    <2> SUFFICES ASSUME NEW i \in 1..Len(s) PROVE t[i] = s[i]
      OBVIOUS
    <2>1. s[i] \in S /\ Cardinality(Before(S, s[i])) = i - 1
      BY <1>2, <1>3
    <2>2. \A e \in S : Cardinality(Before(S, e)) = i - 1 => e = s[i]
      BY <1>1, <2>1, Places
    <2>3. t[i] = CHOOSE e \in S : Cardinality(Before(S, e)) = i - 1
      BY <1>4
    <2> QED BY <2>1, <2>2, <2>3
  <1> HIDE DEF t
  <1>6. s = [i \in 1..Len(s) |-> s[i]] /\ t = [i \in 1..Len(s) |-> t[i]]
    <2>1. s = [i \in 1..Len(s) |-> s[i]]
      BY <1>2 DEF Sorted
    <2>2. t = [i \in 1..Len(s) |-> t[i]]
      BY <1>4
    <2> QED BY <2>1, <2>2
  <1> QED BY <1>5, <1>6 DEF t

\* An edit with a later clock goes to the end of the list.
LEMMA SortedAppend ==
  ASSUME NEW s, Sorted(s), NEW e \in AnyEdit, \A o \in Range(s) : o.clock < e.clock
  PROVE  Sorted(Append(s, e)) /\ Range(Append(s, e)) = Range(s) \cup {e}
  <1> DEFINE t == Append(s, e)
             n == Len(s)
  <1>1. s \in Seq(AnyEdit) /\ n \in Nat /\ DOMAIN s = 1..n
    BY DEF Sorted
  <1>2. t \in Seq(AnyEdit) /\ DOMAIN t = 1..(n + 1) /\ t[n + 1] = e /\ \A i \in 1..n : t[i] = s[i]
    BY <1>1
  <1> HIDE DEF t
  <1>3. \A i \in 1..n : KeyLess(s[i], e)
    BY <1>1 DEF Range, KeyLess
  <1>4. \A i, j \in 1..(n + 1) : i < j => KeyLess(t[i], t[j])
    <2> SUFFICES ASSUME NEW i \in 1..(n + 1), NEW j \in 1..(n + 1), i < j PROVE KeyLess(t[i], t[j])
      OBVIOUS
    <2>1. CASE j = n + 1
      <3>1. i \in 1..n
        BY <1>1, <2>1
      <3> QED BY <1>2, <1>3, <2>1, <3>1
    <2>2. CASE j # n + 1
      <3>1. i \in 1..n /\ j \in 1..n
        BY <1>1, <2>2
      <3> QED BY <1>1, <1>2, <3>1 DEF Sorted
    <2> QED BY <2>1, <2>2
  <1>5. 1..(n + 1) = 1..n \cup {n + 1}
    BY <1>1
  <1>6. Range(t) = Range(s) \cup {e}
    BY <1>1, <1>2, <1>5 DEF Range
  <1> QED BY <1>2, <1>4, <1>6 DEF Sorted, t

\* MaxClock is the greatest clock of a list, or 0.
LEMMA MaxClockIs ==
  ASSUME NEW s, Sorted(s)
  PROVE  /\ MaxClock(s) \in {0} \cup {e.clock : e \in Range(s)}
         /\ \A e \in Range(s) : e.clock <= MaxClock(s)
  <1>1. s \in Seq(AnyEdit) /\ Len(s) \in Nat /\ DOMAIN s = 1..Len(s)
    BY DEF Sorted
  <1>2. \E m \in {0} \cup {e.clock : e \in Range(s)} : \A e \in Range(s) : e.clock <= m
    <2>1. CASE Len(s) = 0
      BY <1>1, <2>1 DEF Range
    <2>2. CASE Len(s) # 0
      <3>1. Len(s) \in DOMAIN s /\ s[Len(s)] \in Range(s)
        BY <1>1, <2>2 DEF Range
      <3>2. \A i \in DOMAIN s : s[i].clock <= s[Len(s)].clock
        <4> SUFFICES ASSUME NEW i \in DOMAIN s PROVE s[i].clock <= s[Len(s)].clock
          OBVIOUS
        <4>1. i = Len(s) \/ i < Len(s)
          BY <1>1
        <4>2. s[i] \in AnyEdit /\ s[Len(s)] \in AnyEdit
          BY <1>1, <3>1
        <4>3. i < Len(s) => KeyLess(s[i], s[Len(s)])
          BY <3>1 DEF Sorted
        <4> QED BY <4>1, <4>2, <4>3 DEF KeyLess, AnyEdit
      <3> QED BY <3>1, <3>2 DEF Range
    <2> QED BY <2>1, <2>2
  <1> QED BY <1>2 DEF MaxClock

\* Merging lists keeps every edit of the own one, and takes those of the other one
\* but for the keys it has.
LEMMA MergeSorts ==
  ASSUME NEW own, NEW remote, Sorted(own), Sorted(remote)
  PROVE  /\ Sorted(MergeList(own, remote))
         /\ Range(MergeList(own, remote)) = Range(own) \cup Unknown(own, remote)
  <1> DEFINE S == Range(own) \cup Unknown(own, remote)
  <1>1. Keyed(Range(own)) /\ Keyed(Range(remote))
    BY SortedKeyed
  <1>2. Unknown(own, remote) \subseteq Range(remote)
    BY DEF Unknown
  <1>3. IsFiniteSet(S) /\ S \subseteq AnyEdit
    BY <1>1, <1>2, FS_Subset, FS_Union DEF Keyed
  <1>4. \A a, b \in S : SameKey(a, b) => a = b
    BY <1>1, <1>2 DEF Keyed, Unknown, SameKey
  <1>5. Keyed(S)
    BY <1>3, <1>4 DEF Keyed
  <1> QED BY <1>5, SortsSet DEF MergeList

-----------------------------------------------------------------------------
(* The copies of a context.                                                 *)

Copy == [patches : Seq(AnyEdit), messages : Seq(AnyEdit)]
EditsOf(c) == Range(c.patches) \cup Range(c.messages)
Merge(c, d) == [patches |-> MergeList(c.patches, d.patches), messages |-> MergeList(c.messages, d.messages)]

\* What a console, a file or a reply has of the context.
IsCopy(c) == \E r \in Replicas : c = Context(r) \/ c = file[r] \/ c \in reply[r]

\* A copy is sorted, and each of its patches was made on some console's base.
CopyOk(c) ==
  /\ c \in Copy /\ Sorted(c.patches) /\ Sorted(c.messages) /\ EditsOf(c) \subseteq edits
  /\ \A p \in Range(c.patches) : \E r \in Replicas : p.slot \in DOMAIN BaseOf[r]

\* A clock is no higher than the number of its edit.
EditsInv ==
  /\ edits \subseteq AnyEdit /\ IsFiniteSet(edits) /\ Cardinality(edits) <= MaxEdits
  /\ \A e \in edits : e.clock <= e.nth /\ e.nth <= Cardinality(edits) /\ e.author \in Range(SessionOf)
  /\ past \subseteq edits \X edits /\ restarts \in Nat

CopiesInv ==
  /\ patches \in [Replicas -> Seq(AnyEdit)] /\ messages \in [Replicas -> Seq(AnyEdit)]
  /\ file \in [Replicas -> Copy] /\ reply \in [Replicas -> SUBSET Copy]
  /\ \A c : IsCopy(c) => CopyOk(c)

ContextInv == EditsInv /\ CopiesInv

\* An empty copy.
LEMMA EmptyOk == CopyOk(Empty) /\ EditsOf(Empty) = {}
  <1>1. Empty.patches = <<>> /\ Empty.messages = <<>> /\ Empty \in Copy
    BY DEF Empty, Copy
  <1>2. Range(<<>>) = {} /\ Sorted(<<>>)
    BY DEF Range, Sorted
  <1> QED BY <1>1, <1>2 DEF CopyOk, EditsOf

\* A copy stays in order when there are more edits.
LEMMA CopyStays ==
  ASSUME NEW c, CopyOk(c), edits \subseteq edits'
  PROVE  CopyOk(c)'
  BY DEF CopyOk

\* Two copies in order merge to one.
LEMMA MergeOk ==
  ASSUME NEW c, NEW d, CopyOk(c), CopyOk(d)
  PROVE  /\ CopyOk(Merge(c, d))
         /\ EditsOf(c) \subseteq EditsOf(Merge(c, d))
         /\ EditsOf(Merge(c, d)) \subseteq EditsOf(c) \cup EditsOf(d)
         /\ (\A a, b \in edits : SameKey(a, b) => a = b) => EditsOf(Merge(c, d)) = EditsOf(c) \cup EditsOf(d)
  <1> DEFINE m == Merge(c, d)
  <1>1. m.patches = MergeList(c.patches, d.patches) /\ m.messages = MergeList(c.messages, d.messages)
    BY DEF Merge
  <1>2. /\ Sorted(m.patches) /\ Range(m.patches) = Range(c.patches) \cup Unknown(c.patches, d.patches)
        /\ Sorted(m.messages) /\ Range(m.messages) = Range(c.messages) \cup Unknown(c.messages, d.messages)
    BY <1>1, MergeSorts DEF CopyOk
  <1>3. m \in Copy
    BY <1>1, <1>2 DEF Copy, Merge, Sorted
  <1>4. /\ Unknown(c.patches, d.patches) \subseteq Range(d.patches)
        /\ Unknown(c.messages, d.messages) \subseteq Range(d.messages)
    BY DEF Unknown
  <1> HIDE DEF m
  <1>5. EditsOf(m) \subseteq EditsOf(c) \cup EditsOf(d) /\ EditsOf(c) \subseteq EditsOf(m)
    BY <1>2, <1>4 DEF EditsOf
  <1>6. CopyOk(m)
    BY <1>2, <1>3, <1>4, <1>5 DEF CopyOk
  <1>7. ASSUME \A a, b \in edits : SameKey(a, b) => a = b
        PROVE  EditsOf(d) \subseteq EditsOf(m)
    <2>1. EditsOf(c) \subseteq edits /\ EditsOf(d) \subseteq edits
      BY DEF CopyOk
    <2>2. Range(d.patches) \subseteq Range(m.patches)
      BY <1>2, <1>7, <2>1 DEF Unknown, EditsOf
    <2>3. Range(d.messages) \subseteq Range(m.messages)
      BY <1>2, <1>7, <2>1 DEF Unknown, EditsOf
    <2> QED BY <2>2, <2>3 DEF EditsOf
  <1> QED BY <1>5, <1>6, <1>7 DEF m

\* What a step makes of the copies when console r gets the copy new and a reply
\* nothing but that.
LEMMA CopiesStep ==
  ASSUME CopiesInv, EditsInv', edits \subseteq edits', NEW r \in Replicas, NEW new, CopyOk(new)',
         patches' = [patches EXCEPT ![r] = new.patches], messages' = [messages EXCEPT ![r] = new.messages],
         file' \in [Replicas -> {c \in Copy : IsCopy(c)}], DOMAIN reply' = Replicas,
         reply' = [q \in Replicas |-> reply'[q]],
         \A q \in Replicas : \A c \in reply'[q] : c \in reply[q] \/ c = new
  PROVE  /\ ContextInv'
         /\ Context(r)' = new /\ \A q \in Replicas : q # r => Context(q)' = Context(q)
         /\ \A c : IsCopy(c)' => IsCopy(c) \/ c = new
  <1>1. new \in Copy /\ new.patches \in Seq(AnyEdit) /\ new.messages \in Seq(AnyEdit)
        /\ new = [patches |-> new.patches, messages |-> new.messages]
    BY DEF CopyOk, Copy
  <1>2. /\ patches' \in [Replicas -> Seq(AnyEdit)] /\ messages' \in [Replicas -> Seq(AnyEdit)]
        /\ patches'[r] = new.patches /\ messages'[r] = new.messages
        /\ \A q \in Replicas : q # r => patches'[q] = patches[q] /\ messages'[q] = messages[q]
    BY <1>1 DEF CopiesInv
  <1>3. Context(r)' = new /\ \A q \in Replicas : q # r => Context(q)' = Context(q)
    BY <1>1, <1>2 DEF Context
  <1>4. \A c : IsCopy(c)' => IsCopy(c) \/ c = new
    BY <1>3 DEF IsCopy
  <1>5. \A c : IsCopy(c)' => CopyOk(c)'
    <2>1. \A c : IsCopy(c) => CopyOk(c)'
      BY CopyStays DEF CopiesInv
    <2> QED BY <1>4, <2>1
  <1>6. file' \in [Replicas -> Copy]
    OBVIOUS
  <1>7. reply' \in [Replicas -> SUBSET Copy]
    BY <1>1 DEF CopiesInv
  <1>8. CopiesInv'
    BY <1>2, <1>5, <1>6, <1>7 DEF CopiesInv
  <1> QED BY <1>3, <1>4, <1>8 DEF ContextInv

\* Console r merges a copy of the context.
LEMMA MergeStep ==
  ASSUME ContextInv, NEW r \in Replicas, NEW d, IsCopy(d), MergeFrom(r, d),
         UNCHANGED <<file, edits, past, restarts>>,
         reply' = [q \in Replicas |-> reply'[q]],
         \A q \in Replicas : \A c \in reply'[q] : c \in reply[q] \/ c = Context(r)'
  PROVE  /\ ContextInv'
         /\ Context(r)' = Merge(Context(r), d) /\ \A q \in Replicas : q # r => Context(q)' = Context(q)
         /\ \A c : IsCopy(c)' => IsCopy(c) \/ c = Merge(Context(r), d)
  <1>0. PICK new : new = Merge(Context(r), d)
    OBVIOUS
  <1>1. IsCopy(Context(r))
    BY DEF IsCopy
  <1>2. CopyOk(new)
    BY <1>0, <1>1, MergeOk DEF ContextInv, CopiesInv
  <1>3. CopyOk(new)' /\ EditsInv'
    BY <1>2 DEF ContextInv, CopyOk, EditsInv
  <1>4. /\ patches' = [patches EXCEPT ![r] = new.patches]
        /\ messages' = [messages EXCEPT ![r] = new.messages]
    BY <1>0 DEF MergeFrom, Merge, Context
  <1>5. file' \in [Replicas -> {c \in Copy : IsCopy(c)}]
    BY DEF ContextInv, CopiesInv, IsCopy
  <1>6. Context(r)' = new
    BY <1>0, <1>4 DEF Context, Merge, ContextInv, CopiesInv
  <1>7. \A q \in Replicas : \A c \in reply'[q] : c \in reply[q] \/ c = new
    BY <1>6
  <1>8. /\ ContextInv'
        /\ Context(r)' = new /\ \A q \in Replicas : q # r => Context(q)' = Context(q)
        /\ \A c : IsCopy(c)' => IsCopy(c) \/ c = new
    BY <1>3, <1>4, <1>5, <1>7, CopiesStep DEF ContextInv
  <1> QED BY <1>0, <1>8

\* Console r makes the edit e.
LEMMA EditStep ==
  ASSUME ContextInv, NEW r \in Replicas, NEW slot \in Slots \cup {"text"},
         \/ ApplyPatchSet(r, slot)
         \/ slot = "text" /\ PostMessage(r)
  PROVE  LET e == NewEdit(r, slot) IN
         /\ ContextInv' /\ e \in AnyEdit /\ e \notin edits /\ e.author = SessionOf[r]
         /\ e.clock \in 1..MaxEdits /\ \A o \in Known(r) : o.clock < e.clock
         /\ edits' = edits \cup {e} /\ UNCHANGED restarts
         /\ past' = past \cup {<<o, e>> : o \in Known(r)}
         /\ EditsOf(Context(r)') = Known(r) \cup {e}
         /\ \A q \in Replicas : q # r => Context(q)' = Context(q)
         /\ \A c : IsCopy(c)' => IsCopy(c) \/ c = Context(r)'
  <1> DEFINE e == NewEdit(r, slot)
             ps == patches[r]
             ms == messages[r]
  <1>1. /\ Cardinality(edits) < MaxEdits /\ Made(r, e) /\ UNCHANGED <<file, reply, restarts>>
        /\ \/ /\ patches' = [patches EXCEPT ![r] = Append(@, e)] /\ messages' = messages
              /\ Applies(e, CurrentSnapshot(BaseOf[r], ps))
           \/ messages' = [messages EXCEPT ![r] = Append(@, e)] /\ patches' = patches
    BY DEF ApplyPatchSet, PostMessage
  <1>2. /\ Context(r).patches = ps /\ Context(r).messages = ms /\ CopyOk(Context(r))
        /\ Sorted(ps) /\ Sorted(ms) /\ Known(r) = EditsOf(Context(r)) /\ Known(r) \subseteq edits
    <2>1. Context(r).patches = ps /\ Context(r).messages = ms /\ IsCopy(Context(r))
      BY DEF Context, IsCopy
    <2> QED BY <2>1 DEF ContextInv, CopiesInv, CopyOk, Known, EditsOf
  <1>3. /\ e.clock = NextClock(ps, ms) /\ e.author = SessionOf[r] /\ e.slot = slot
        /\ e.nth = Cardinality(edits) + 1
        /\ e = [clock |-> e.clock, author |-> e.author, slot |-> e.slot, nth |-> e.nth]
    BY DEF NewEdit
  <1> HIDE DEF e
  <1>4. Cardinality(edits) \in Nat /\ MaxEdits \in Nat /\ SessionOf[r] \in Nat /\ SessionOf[r] \in Range(SessionOf)
    BY FS_CardinalityType, ContextAssumption DEF ContextInv, EditsInv, Range
  <1>5. \A o \in Known(r) : o \in AnyEdit /\ o.clock \in Nat /\ o.clock <= Cardinality(edits)
    <2>1. \A o \in edits : o \in AnyEdit /\ o.clock \in Nat /\ o.nth \in Nat /\ o.clock <= o.nth /\ o.nth <= Cardinality(edits)
      BY DEF ContextInv, EditsInv, AnyEdit
    <2> QED BY <1>2, <1>4, <2>1
  <1>6. e.clock \in Nat \ {0} /\ e.clock <= Cardinality(edits) + 1 /\ \A o \in Known(r) : o.clock < e.clock
    <2>1. /\ MaxClock(ps) \in {0} \cup {o.clock : o \in Range(ps)} /\ \A o \in Range(ps) : o.clock <= MaxClock(ps)
          /\ MaxClock(ms) \in {0} \cup {o.clock : o \in Range(ms)} /\ \A o \in Range(ms) : o.clock <= MaxClock(ms)
      BY <1>2, MaxClockIs
    <2>2. MaxClock(ps) \in 0..Cardinality(edits) /\ MaxClock(ms) \in 0..Cardinality(edits)
      BY <1>4, <1>5, <2>1 DEF Known
    <2> QED BY <1>3, <1>4, <1>5, <2>1, <2>2 DEF NextClock, Known
  <1>7. e \in AnyEdit /\ e.clock \in 1..MaxEdits
    BY <1>1, <1>3, <1>4, <1>6 DEF AnyEdit
  <1>8. e \notin edits
    BY <1>3, <1>4 DEF ContextInv, EditsInv
  <1>9. edits' = edits \cup {e} /\ past' = past \cup {<<o, e>> : o \in Known(r)}
    BY <1>1 DEF Made, Known
  <1>10. EditsInv'
    <2>1. IsFiniteSet(edits') /\ Cardinality(edits') = Cardinality(edits) + 1
      BY <1>8, <1>9, FS_AddElement DEF ContextInv, EditsInv
    <2>2. \A o \in edits' : /\ o.clock <= o.nth /\ o.nth <= Cardinality(edits)' /\ o.author \in Range(SessionOf)
                            /\ o \in AnyEdit
      <3>1. \A o \in edits : o \in AnyEdit /\ o.clock <= o.nth /\ o.nth <= Cardinality(edits) /\ o.author \in Range(SessionOf)
                             /\ o.nth \in Nat
        BY DEF ContextInv, EditsInv, AnyEdit
      <3>2. \A o \in edits : o.nth <= Cardinality(edits) + 1
        BY <1>4, <3>1
      <3> QED BY <1>3, <1>4, <1>6, <1>7, <1>9, <2>1, <3>1, <3>2
    <2>3. past' \subseteq edits' \X edits'
      BY <1>2, <1>9 DEF ContextInv, EditsInv
    <2> QED BY <1>1, <1>4, <2>1, <2>2, <2>3 DEF ContextInv, EditsInv
  <1>11. PICK c : c = Context(r)'
    OBVIOUS
  <1>12. /\ Sorted(c.patches) /\ Sorted(c.messages) /\ c \in Copy /\ EditsOf(c) = Known(r) \cup {e}
         /\ patches' = [patches EXCEPT ![r] = c.patches] /\ messages' = [messages EXCEPT ![r] = c.messages]
         /\ \A p \in Range(c.patches) : \E q \in Replicas : p.slot \in DOMAIN BaseOf[q]
    <2>1. c.patches = patches'[r] /\ c.messages = messages'[r] /\ c = [patches |-> c.patches, messages |-> c.messages]
      BY <1>11 DEF Context
    <2>2. patches \in [Replicas -> Seq(AnyEdit)] /\ messages \in [Replicas -> Seq(AnyEdit)]
      BY DEF ContextInv, CopiesInv
    <2>3. \A o \in Range(ps) \cup Range(ms) : o.clock < e.clock
      BY <1>6 DEF Known
    <2>4. /\ Sorted(Append(ps, e)) /\ Range(Append(ps, e)) = Range(ps) \cup {e}
          /\ Sorted(Append(ms, e)) /\ Range(Append(ms, e)) = Range(ms) \cup {e}
      BY <1>2, <1>7, <2>3, SortedAppend
    <2>5. \A p \in Range(ps) : \E q \in Replicas : p.slot \in DOMAIN BaseOf[q]
      BY <1>2 DEF CopyOk
    <2>6. CASE /\ patches' = [patches EXCEPT ![r] = Append(@, e)] /\ messages' = messages
               /\ Applies(e, CurrentSnapshot(BaseOf[r], ps))
      <3>1. c.patches = Append(ps, e) /\ c.messages = ms
        BY <2>1, <2>2, <2>6
      <3>2. slot \in DOMAIN BaseOf[r]
        BY <1>3, <2>6 DEF Applies, CurrentSnapshot, Broken
      <3>3. \A p \in Range(c.patches) : \E q \in Replicas : p.slot \in DOMAIN BaseOf[q]
        BY <1>3, <2>4, <2>5, <3>1, <3>2
      <3>4. messages' = [messages EXCEPT ![r] = c.messages] /\ patches' = [patches EXCEPT ![r] = c.patches]
        BY <2>2, <2>6, <3>1
      <3>5. Sorted(c.patches) /\ Sorted(c.messages) /\ EditsOf(c) = Known(r) \cup {e}
        BY <1>2, <2>4, <3>1 DEF EditsOf, Known
      <3> QED BY <2>1, <3>3, <3>4, <3>5 DEF Copy, Sorted
    <2>7. CASE messages' = [messages EXCEPT ![r] = Append(@, e)] /\ patches' = patches
      <3>1. c.messages = Append(ms, e) /\ c.patches = ps
        BY <2>1, <2>2, <2>7
      <3>4. messages' = [messages EXCEPT ![r] = c.messages] /\ patches' = [patches EXCEPT ![r] = c.patches]
        BY <2>2, <2>7, <3>1
      <3>5. Sorted(c.patches) /\ Sorted(c.messages) /\ EditsOf(c) = Known(r) \cup {e}
        BY <1>2, <2>4, <3>1 DEF EditsOf, Known
      <3> QED BY <2>1, <2>5, <3>1, <3>4, <3>5 DEF Copy, Sorted
    <2> QED BY <1>1, <2>6, <2>7
  <1>13. CopyOk(c)'
    BY <1>2, <1>9, <1>12 DEF CopyOk
  <1>14. file' \in [Replicas -> {d \in Copy : IsCopy(d)}] /\ reply' = [q \in Replicas |-> reply'[q]]
         /\ DOMAIN reply' = Replicas /\ \A q \in Replicas : \A d \in reply'[q] : d \in reply[q] \/ d = c
    BY <1>1 DEF ContextInv, CopiesInv, IsCopy
  <1>15. /\ ContextInv'
         /\ Context(r)' = c /\ \A q \in Replicas : q # r => Context(q)' = Context(q)
         /\ \A d : IsCopy(d)' => IsCopy(d) \/ d = c
    BY <1>9, <1>10, <1>12, <1>13, <1>14, CopiesStep DEF ContextInv
  <1> QED BY <1>1, <1>3, <1>6, <1>7, <1>8, <1>9, <1>12, <1>15 DEF e

\* The steps that do not make an edit: a merge, one that at most copies or forgets
\* what there is, and the restart of a console.
MergeAt(r, d) ==
  /\ IsCopy(d) /\ MergeFrom(r, d) /\ UNCHANGED <<file, edits, past, restarts>>
  /\ reply' = [q \in Replicas |-> reply'[q]]
  /\ \A q \in Replicas : \A c \in reply'[q] : c \in reply[q] \/ c = Context(r)'

CopyOrForget ==
  /\ UNCHANGED <<patches, messages, edits, past, restarts>>
  /\ file' \in [Replicas -> {c \in Copy : IsCopy(c)}]
  /\ reply' = [q \in Replicas |-> reply'[q]] /\ \A q \in Replicas : reply'[q] \subseteq reply[q]

\* There is no other kind of step.
LEMMA StepKinds ==
  ASSUME ContextInv, [ContextNext]_contextVars
  PROVE  \/ \E r \in Replicas, slot \in Slots \cup {"text"} :
               ApplyPatchSet(r, slot) \/ (slot = "text" /\ PostMessage(r))
         \/ \E r \in Replicas, d \in Copy : MergeAt(r, d)
         \/ CopyOrForget
         \/ \E r \in Replicas : Reopen(r)
  <1>1. /\ patches \in [Replicas -> Seq(AnyEdit)] /\ messages \in [Replicas -> Seq(AnyEdit)]
        /\ file \in [Replicas -> Copy] /\ reply \in [Replicas -> SUBSET Copy]
    BY DEF ContextInv, CopiesInv
  <1>2. /\ \A q \in Replicas : IsCopy(Context(q)) /\ Context(q) \in Copy /\ IsCopy(file[q]) /\ file[q] \in Copy
        /\ \A q \in Replicas : \A c \in reply[q] : IsCopy(c) /\ c \in Copy
    BY <1>1 DEF IsCopy, Context, Copy
  <1>3. ASSUME NEW r \in Replicas, Share(r) PROVE CopyOrForget
    BY <1>1, <1>2, <1>3 DEF Share, CopyOrForget
  <1>4. ASSUME NEW r \in Replicas, ReplyLost(r) PROVE CopyOrForget
    BY <1>1, <1>2, <1>4 DEF ReplyLost, CopyOrForget
  <1>5. ASSUME NEW r \in Replicas, NEW q \in Replicas, Join(r, q) PROVE MergeAt(r, file[q])
    BY <1>1, <1>2, <1>5 DEF Join, MergeAt
  <1>6. ASSUME NEW r \in Replicas, NEW q \in Replicas, Exchange(r, q) PROVE MergeAt(q, Context(r))
    <2>1. /\ MergeFrom(q, Context(r)) /\ UNCHANGED <<file, edits, past, restarts>>
          /\ reply' = [reply EXCEPT ![r] = {[patches |-> patches'[q], messages |-> messages'[q]]}]
      BY <1>6 DEF Exchange
    <2>2. reply' = [reply EXCEPT ![r] = {Context(q)'}]
      BY <2>1 DEF Context
    <2>3. reply' = [p \in Replicas |-> reply'[p]]
          /\ \A p \in Replicas : \A c \in reply'[p] : c \in reply[p] \/ c = Context(q)'
      BY <1>1, <2>2
    <2> QED BY <1>2, <2>1, <2>3 DEF MergeAt
  <1>7. ASSUME NEW r \in Replicas, ExchangeReply(r) PROVE \E d \in Copy : MergeAt(r, d)
    <2>1. PICK d \in reply[r] : MergeFrom(r, d) /\ reply' = [reply EXCEPT ![r] = {}]
                                /\ UNCHANGED <<file, edits, past, restarts>>
      BY <1>7 DEF ExchangeReply
    <2>2. MergeAt(r, d)
      BY <1>1, <1>2, <2>1 DEF MergeAt
    <2> QED BY <1>2, <2>2
  <1>8. CASE UNCHANGED contextVars
    BY <1>1, <1>2, <1>8 DEF contextVars, CopyOrForget
  <1>9. CASE ContextNext
    <2>1. CASE \E r \in Replicas, slot \in Slots : Free(r) /\ ApplyPatchSet(r, slot)
      BY <2>1
    <2>2. CASE \E r \in Replicas : Free(r) /\ (PostMessage(r) \/ Share(r))
      BY <1>3, <2>2
    <2>3. CASE \E r, q \in Replicas : Free(r) /\ Join(r, q)
      BY <1>2, <1>5, <2>3
    <2>4. CASE \E r, q \in Replicas : Free(q) /\ Exchange(r, q)
      BY <1>2, <1>6, <2>4
    <2>5. CASE \E r \in Replicas : ExchangeReply(r) \/ ReplyLost(r) \/ Reopen(r)
      BY <1>4, <1>7, <2>5
    <2> QED BY <1>9, <2>1, <2>2, <2>3, <2>4, <2>5 DEF ContextNext
  <1> QED BY <1>8, <1>9

\* Copies move and vanish.
LEMMA ForgetKeeps ==
  ASSUME ContextInv, CopyOrForget
  PROVE  ContextInv' /\ \A c : IsCopy(c)' => IsCopy(c)
  <1>1. \A r \in Replicas : Context(r)' = Context(r)
    BY DEF CopyOrForget, Context
  <1>2. \A c : IsCopy(c)' => IsCopy(c)
    BY <1>1 DEF IsCopy, CopyOrForget
  <1>3. EditsInv' /\ \A c : CopyOk(c) => CopyOk(c)'
    BY DEF ContextInv, EditsInv, CopyOk, CopyOrForget
  <1>4. file' \in [Replicas -> Copy] /\ reply' \in [Replicas -> SUBSET Copy]
    <2>1. reply' = [q \in Replicas |-> reply'[q]] /\ \A q \in Replicas : reply'[q] \subseteq Copy
      BY DEF ContextInv, CopiesInv, CopyOrForget
    <2>2. reply' \in [Replicas -> SUBSET Copy]
      BY <2>1
    <2>3. file' \in [Replicas -> Copy]
      BY DEF CopyOrForget
    <2> QED BY <2>2, <2>3
  <1>5. patches' \in [Replicas -> Seq(AnyEdit)] /\ messages' \in [Replicas -> Seq(AnyEdit)]
    BY DEF ContextInv, CopiesInv, CopyOrForget
  <1> QED BY <1>2, <1>3, <1>4, <1>5 DEF ContextInv, CopiesInv

\* A console that is opened again has an empty copy.
LEMMA ReopenKeeps ==
  ASSUME ContextInv, NEW r \in Replicas, Reopen(r)
  PROVE  ContextInv' /\ restarts' # 0
  <1>1. /\ UNCHANGED <<file, edits, past>> /\ restarts' = restarts + 1
        /\ patches' = [patches EXCEPT ![r] = <<>>] /\ messages' = [messages EXCEPT ![r] = <<>>]
        /\ reply' = [reply EXCEPT ![r] = {}]
    BY DEF Reopen
  <1>2. Empty.patches = <<>> /\ Empty.messages = <<>>
    BY DEF Empty
  <1>3. EditsInv' /\ CopyOk(Empty)' /\ restarts' # 0
    BY <1>1, EmptyOk DEF ContextInv, EditsInv, CopyOk
  <1>4. file' \in [Replicas -> {c \in Copy : IsCopy(c)}]
    BY <1>1 DEF ContextInv, CopiesInv, IsCopy
  <1>5. reply' = [q \in Replicas |-> reply'[q]] /\ DOMAIN reply' = Replicas
        /\ \A q \in Replicas : \A c \in reply'[q] : c \in reply[q] \/ c = Empty
    BY <1>1 DEF ContextInv, CopiesInv
  <1> QED BY <1>1, <1>2, <1>3, <1>4, <1>5, CopiesStep DEF ContextInv

\* The invariant holds of new contexts.
LEMMA ContextInitOk == ContextInit => ContextInv
  <1> SUFFICES ASSUME ContextInit PROVE ContextInv
    OBVIOUS
  <1>1. /\ patches = [r \in Replicas |-> <<>>] /\ messages = [r \in Replicas |-> <<>>]
        /\ file = [r \in Replicas |-> Empty] /\ reply = [r \in Replicas |-> {}]
        /\ edits = {} /\ past = {} /\ restarts = 0
    BY DEF ContextInit
  <1>2. EditsInv
    BY <1>1, FS_EmptySet, ContextAssumption DEF EditsInv
  <1>3. \A r \in Replicas : Context(r) = Empty
    BY <1>1 DEF Context, Empty
  <1>4. \A c : IsCopy(c) => c = Empty
    BY <1>1, <1>3 DEF IsCopy
  <1>5. Empty \in Copy /\ <<>> \in Seq(AnyEdit)
    BY EmptyOk DEF CopyOk
  <1>6. /\ patches \in [Replicas -> Seq(AnyEdit)] /\ messages \in [Replicas -> Seq(AnyEdit)]
        /\ file \in [Replicas -> Copy] /\ reply \in [Replicas -> SUBSET Copy]
    BY <1>1, <1>5
  <1> QED BY <1>2, <1>4, <1>6, EmptyOk DEF ContextInv, CopiesInv

\* Every step keeps the copies in order.
LEMMA ContextStep == ContextInv /\ [ContextNext]_contextVars => ContextInv'
  <1> SUFFICES ASSUME ContextInv, [ContextNext]_contextVars PROVE ContextInv'
    OBVIOUS
  <1>1. CASE \E r \in Replicas, slot \in Slots \cup {"text"} :
               ApplyPatchSet(r, slot) \/ (slot = "text" /\ PostMessage(r))
    BY <1>1, EditStep
  <1>2. CASE \E r \in Replicas, d \in Copy : MergeAt(r, d)
    BY <1>2, MergeStep DEF MergeAt
  <1> QED BY <1>1, <1>2, StepKinds, ForgetKeeps, ReopenKeeps

\* The copies are in order for ever.
LEMMA ContextAlways == ContextSpec => []ContextInv
  BY ContextInitOk, ContextStep, PTL DEF ContextSpec

\* Consoles that know the same patches agree on their order and on the snapshot,
\* for any consoles, sessions, bases and edits (Convergence): the list is the sorted
\* list of its patches, and no patch was made on a slot the bases do not have.
THEOREM CopiesConverge == ContextSpec => []Convergence
  <1>1. ContextInv => Convergence
    <2> SUFFICES ASSUME ContextInv, NEW r \in Replicas, NEW q \in Replicas,
                        Range(patches[r]) = Range(patches[q])
                 PROVE  /\ patches[r] = patches[q]
                        /\ BaseOf[r] = BaseOf[q] =>
                             CurrentSnapshot(BaseOf[r], patches[r]) = CurrentSnapshot(BaseOf[q], patches[q])
                        /\ (\A p \in Replicas : DOMAIN BaseOf[p] = DOMAIN BaseOf[r]) =>
                             CurrentSnapshot(BaseOf[r], patches[r]) # Broken
      BY DEF Convergence
    <2>1. \A p \in Replicas : CopyOk(Context(p)) /\ Context(p).patches = patches[p]
      BY DEF ContextInv, CopiesInv, IsCopy, Context
    <2>2. \A p \in Replicas : Sorted(patches[p])
      BY <2>1 DEF CopyOk
    <2>3. patches[r] = patches[q]
      BY <2>2, SortedIsUnique
    <2>4. ASSUME \A p \in Replicas : DOMAIN BaseOf[p] = DOMAIN BaseOf[r]
          PROVE  CurrentSnapshot(BaseOf[r], patches[r]) # Broken
      <3>1. \A p \in Range(patches[r]) : Applies(p, BaseOf[r])
        BY <2>1, <2>4 DEF CopyOk, Applies
      <3>2. DOMAIN CurrentSnapshot(BaseOf[r], patches[r]) = DOMAIN BaseOf[r]
        BY <3>1 DEF CurrentSnapshot
      <3>3. DOMAIN BaseOf[r] # {} /\ DOMAIN Broken = {}
        BY ContextAssumption DEF Broken
      <3> QED BY <3>2, <3>3
    <2> QED BY <2>3, <2>4
  <1> QED BY <1>1, ContextAlways, PTL

-----------------------------------------------------------------------------
(* The edit log.                                                            *)

\* A copy that has an edit has what its author knew when making it.
Closed(c) == \A pair \in past : pair[2] \in EditsOf(c) => pair[1] \in EditsOf(c)

\* Until a console is opened again a stamp is used once, a console has all its own
\* edits, and all copies are closed.
LogInv ==
  restarts = 0 =>
    /\ \A a, b \in edits : SameKey(a, b) => a = b
    /\ \A r \in Replicas : \A e \in edits : e.author = SessionOf[r] => e \in EditsOf(Context(r))
    /\ \A c : IsCopy(c) => Closed(c)

\* Every console has a session of its own.
OwnSessions == \A r, q \in Replicas : SessionOf[r] = SessionOf[q] => r = q

\* A console knows the edits of its copy.
LEMMA KnownIs == \A r : Known(r) = EditsOf(Context(r))
  BY DEF Known, EditsOf, Context

\* A new edit comes after all its author knows, and its author alone has its session.
LEMMA LogEdit ==
  ASSUME OwnSessions, ContextInv, LogInv, NEW r \in Replicas, NEW slot \in Slots \cup {"text"},
         ApplyPatchSet(r, slot) \/ (slot = "text" /\ PostMessage(r)), restarts' = 0
  PROVE  LogInv' /\ \A o \in edits : ~SameKey(o, NewEdit(r, slot))
  <1>1. PICK e : e = NewEdit(r, slot)
    OBVIOUS
  <1>2. PICK c : c = Context(r)'
    OBVIOUS
  <1>3. /\ ContextInv' /\ e \in AnyEdit /\ e \notin edits /\ e.author = SessionOf[r]
        /\ \A o \in Known(r) : o.clock < e.clock
        /\ edits' = edits \cup {e} /\ restarts = 0
        /\ past' = past \cup {<<o, e>> : o \in Known(r)}
        /\ EditsOf(c) = Known(r) \cup {e}
        /\ \A q \in Replicas : q # r => Context(q)' = Context(q)
        /\ \A d : IsCopy(d)' => IsCopy(d) \/ d = c
    BY <1>1, <1>2, EditStep
  <1>4. /\ \A a, b \in edits : SameKey(a, b) => a = b
        /\ \A q \in Replicas : \A o \in edits : o.author = SessionOf[q] => o \in EditsOf(Context(q))
        /\ \A d : IsCopy(d) => Closed(d)
    BY <1>3 DEF LogInv
  <1>5. Known(r) = EditsOf(Context(r)) /\ IsCopy(Context(r))
    BY KnownIs DEF IsCopy
  <1>6. edits \subseteq AnyEdit /\ \A d : IsCopy(d) => EditsOf(d) \subseteq edits
    BY DEF ContextInv, EditsInv, CopiesInv, CopyOk
  <1>7. \A o \in edits : ~SameKey(o, e) /\ ~SameKey(e, o)
    <2> SUFFICES ASSUME NEW o \in edits, o.author = e.author, o.clock = e.clock PROVE FALSE
      BY DEF SameKey
    <2>1. o \in Known(r)
      BY <1>3, <1>4, <1>5
    <2>2. o.clock < e.clock /\ o.clock \in Nat /\ e.clock \in Nat
      BY <1>3, <1>6, <2>1 DEF AnyEdit
    <2> QED BY <2>2
  <1>8. \A a, b \in edits' : SameKey(a, b) => a = b
    BY <1>3, <1>4, <1>7
  <1>9. \A q \in Replicas : \A o \in edits' : o.author = SessionOf[q] => o \in EditsOf(Context(q)')
    <2> SUFFICES ASSUME NEW q \in Replicas, NEW o \in edits', o.author = SessionOf[q]
                 PROVE  o \in EditsOf(Context(q)')
      OBVIOUS
    <2>1. CASE q = r
      BY <1>2, <1>3, <1>4, <1>5, <2>1
    <2>2. CASE q # r
      <3>1. o \in edits
        BY <1>3, <2>2 DEF OwnSessions
      <3> QED BY <1>3, <1>4, <2>2, <3>1
    <2> QED BY <2>1, <2>2
  <1>10. ASSUME NEW d, IsCopy(d)' PROVE Closed(d)'
    <2>1. CASE d = c
      <3>1. Closed(Context(r))
        BY <1>4, <1>5
      <3>2. \A pair \in past : pair[2] \in edits
        BY DEF ContextInv, EditsInv
      <3> QED BY <1>3, <1>5, <2>1, <3>1, <3>2 DEF Closed
    <2>2. CASE IsCopy(d)
      <3>1. Closed(d) /\ e \notin EditsOf(d)
        BY <1>3, <1>4, <1>6, <2>2
      <3> QED BY <1>3, <3>1 DEF Closed
    <2> QED BY <1>3, <1>10, <2>1, <2>2
  <1>11. LogInv'
    <2>1. \A q \in Replicas : EditsOf(Context(q))' = EditsOf(Context(q)')
      BY DEF EditsOf
    <2> QED BY <1>8, <1>9, <1>10, <2>1 DEF LogInv
  <1> QED BY <1>1, <1>7, <1>11

\* Two closed copies merge to one that has the edits of both.
LEMMA LogMerge ==
  ASSUME ContextInv, LogInv, NEW r \in Replicas, NEW d, MergeAt(r, d), restarts' = 0
  PROVE  LogInv' /\ EditsOf(Context(r)') = EditsOf(Context(r)) \cup EditsOf(d)
  <1>1. PICK m : m = Merge(Context(r), d)
    OBVIOUS
  <1>2. /\ Context(r)' = m /\ \A q \in Replicas : q # r => Context(q)' = Context(q)
        /\ \A c : IsCopy(c)' => IsCopy(c) \/ c = m
        /\ UNCHANGED <<edits, past, restarts>> /\ IsCopy(d) /\ IsCopy(Context(r))
    BY <1>1, MergeStep DEF MergeAt, IsCopy
  <1>3. /\ \A a, b \in edits : SameKey(a, b) => a = b
        /\ \A q \in Replicas : \A o \in edits : o.author = SessionOf[q] => o \in EditsOf(Context(q))
        /\ \A c : IsCopy(c) => Closed(c)
    BY <1>2 DEF LogInv
  <1>4. EditsOf(m) = EditsOf(Context(r)) \cup EditsOf(d)
    BY <1>1, <1>2, <1>3, MergeOk DEF ContextInv, CopiesInv
  <1>5. Closed(m)
    BY <1>2, <1>3, <1>4 DEF Closed
  <1>6. \A c : IsCopy(c)' => Closed(c)'
    BY <1>2, <1>3, <1>5 DEF Closed
  <1>7. \A q \in Replicas : \A o \in edits' : o.author = SessionOf[q] => o \in EditsOf(Context(q)')
    BY <1>2, <1>3, <1>4
  <1>8. LogInv'
    <2>1. \A q \in Replicas : EditsOf(Context(q))' = EditsOf(Context(q)')
      BY DEF EditsOf
    <2> QED BY <1>2, <1>3, <1>6, <1>7, <2>1 DEF LogInv
  <1> QED BY <1>2, <1>4, <1>8

\* Copies that move and vanish are a stutter of the log.
LEMMA LogForget ==
  ASSUME ContextInv, LogInv, CopyOrForget
  PROVE  LogInv' /\ UNCHANGED Log!logVars
  <1>1. UNCHANGED <<patches, messages, edits, past, restarts>> /\ \A c : IsCopy(c)' => IsCopy(c)
    BY ForgetKeeps DEF CopyOrForget
  <1>2. \A q : Context(q)' = Context(q) /\ Known(q)' = Known(q) /\ EditsOf(Context(q))' = EditsOf(Context(q))
    BY <1>1 DEF Context, Known, EditsOf
  <1>3. LogInv'
    BY <1>1, <1>2 DEF LogInv, Closed
  <1>4. UNCHANGED Log!logVars
    BY <1>1, <1>2 DEF Log!logVars
  <1> QED BY <1>3, <1>4

\* Edits have the same stamp when they have the same key.
LEMMA StampsAgree ==
  /\ \A a, b : StampOf(a) = StampOf(b) <=> SameKey(a, b)
  /\ \A e : StampOf(e).clock = e.clock
  BY DEF StampOf, SameKey

Knowledge == [r \in Replicas |-> StampsOf(Known(r))]
Causes == {<<StampOf(pair[1]), StampOf(pair[2])>> : pair \in past}

\* An edit is made in the log.
LEMMA LogMakes ==
  ASSUME OwnSessions, ContextInv, LogInv, NEW r \in Replicas, NEW slot \in Slots \cup {"text"},
         ApplyPatchSet(r, slot) \/ (slot = "text" /\ PostMessage(r)), restarts' = 0
  PROVE  Log!LogNext
  <1>1. PICK e : e = NewEdit(r, slot)
    OBVIOUS
  <1>2. /\ e.author = SessionOf[r] /\ e.clock \in 1..MaxEdits /\ \A o \in Known(r) : o.clock < e.clock
        /\ edits' = edits \cup {e} /\ past' = past \cup {<<o, e>> : o \in Known(r)}
        /\ EditsOf(Context(r)') = Known(r) \cup {e}
        /\ \A q \in Replicas : q # r => Context(q)' = Context(q)
    BY <1>1, EditStep
  <1>3. \A o \in edits : ~SameKey(o, e)
    BY <1>1, LogEdit
  <1> DEFINE stamp == StampOf(e)
  <1>4. stamp \in [clock : 1..MaxEdits, author : Range(SessionOf)]
    BY <1>2, ContextAssumption DEF StampOf, Range
  <1>5. stamp \notin StampsOf(edits) /\ StampsOf(edits)' = StampsOf(edits) \cup {stamp}
    BY <1>2, <1>3, StampsAgree DEF StampsOf
  <1>6. \A o \in Knowledge[r] : o.clock < stamp.clock
    BY <1>2, StampsAgree DEF Knowledge, StampsOf
  <1>7. Knowledge' = [Knowledge EXCEPT ![r] = @ \cup {stamp}]
    <2>1. Known(r)' = Known(r) \cup {e} /\ \A q \in Replicas : q # r => Known(q)' = Known(q)
      BY <1>2, KnownIs DEF Context, Known, EditsOf
    <2>2. StampsOf(Known(r)') = StampsOf(Known(r)) \cup {stamp}
      BY <2>1 DEF StampsOf
    <2>3. Knowledge' = [q \in Replicas |-> StampsOf(Known(q)')]
      BY DEF Knowledge, StampsOf
    <2> QED BY <2>1, <2>2, <2>3 DEF Knowledge
  <1>8. Causes' = Causes \cup {<<o, stamp>> : o \in Knowledge[r]}
    <2>1. Causes' = {<<StampOf(pair[1]), StampOf(pair[2])>> : pair \in past'}
      BY DEF Causes, StampOf
    <2>2. {<<StampOf(pair[1]), StampOf(pair[2])>> : pair \in past'}
            = Causes \cup {<<StampOf(o), stamp>> : o \in Known(r)}
      <3> DEFINE f(pair) == <<StampOf(pair[1]), StampOf(pair[2])>>
                 new == {<<o, e>> : o \in Known(r)}
      <3>1. {f(pair) : pair \in new} = {<<StampOf(o), stamp>> : o \in Known(r)}
        <4> DEFINE g(o) == <<StampOf(o), stamp>>
        <4>1. \A pair \in new : \E o \in Known(r) : f(pair) = g(o)
          OBVIOUS
        <4>2. \A o \in Known(r) : \E pair \in new : g(o) = f(pair)
          <5> SUFFICES ASSUME NEW o \in Known(r) PROVE \E pair \in new : g(o) = f(pair)
            OBVIOUS
          <5>1. <<o, e>> \in new
            OBVIOUS
          <5>2. g(o) = f(<<o, e>>)
            OBVIOUS
          <5> HIDE DEF f, g, new
          <5> QED BY <5>1, <5>2
        <4>3. {f(pair) : pair \in new} = {g(o) : o \in Known(r)}
          <5> HIDE DEF f, g, new
          <5> QED BY <4>1, <4>2
        <4> QED BY <4>3
      <3>2. {f(pair) : pair \in past'} = {f(pair) : pair \in past} \cup {f(pair) : pair \in new}
        <4> HIDE DEF f, new
        <4>1. past' = past \cup new
          BY <1>2 DEF new
        <4> QED BY <4>1
      <3> QED BY <3>1, <3>2 DEF Causes
    <2>3. {<<StampOf(o), stamp>> : o \in Known(r)} = {<<o, stamp>> : o \in Knowledge[r]}
      BY DEF Knowledge, StampsOf
    <2> QED BY <2>1, <2>2, <2>3
  <1>9. Log!Make(r, stamp)
    BY <1>5, <1>6, <1>7, <1>8 DEF Log!Make, Knowledge, Causes
  <1> QED BY <1>4, <1>9 DEF Log!LogNext

\* A console learns the edits of a copy it merges.
LEMMA LogLearns ==
  ASSUME ContextInv, LogInv, NEW r \in Replicas, NEW d, MergeAt(r, d), restarts' = 0
  PROVE  Log!LogNext
  <1>1. /\ EditsOf(Context(r)') = EditsOf(Context(r)) \cup EditsOf(d) /\ LogInv' /\ ContextInv'
        /\ \A q \in Replicas : q # r => Context(q)' = Context(q)
        /\ UNCHANGED <<edits, past>> /\ EditsOf(d) \subseteq edits
    BY LogMerge, MergeStep DEF MergeAt, ContextInv, CopiesInv, CopyOk
  <1> DEFINE learnt == StampsOf(EditsOf(d))
  <1>2. learnt \subseteq StampsOf(edits) /\ StampsOf(edits)' = StampsOf(edits) /\ Causes' = Causes
    BY <1>1 DEF StampsOf, Causes
  <1>3. /\ Known(r)' = Known(r) \cup EditsOf(d) /\ \A q \in Replicas : q # r => Known(q)' = Known(q)
    BY <1>1, KnownIs DEF Context, Known, EditsOf
  <1>4. Knowledge' = [Knowledge EXCEPT ![r] = @ \cup learnt]
    <2>1. StampsOf(Known(r)') = StampsOf(Known(r)) \cup learnt
      BY <1>3 DEF StampsOf
    <2>2. Knowledge' = [q \in Replicas |-> StampsOf(Known(q)')]
      BY DEF Knowledge, StampsOf
    <2> QED BY <1>3, <2>1, <2>2 DEF Knowledge
  <1>5. ASSUME NEW pair \in Causes, pair[2] \in Knowledge'[r] PROVE pair[1] \in Knowledge'[r]
    <2>1. PICK made \in past : pair = <<StampOf(made[1]), StampOf(made[2])>>
      BY DEF Causes
    <2>2. Knowledge'[r] = {StampOf(e) : e \in Known(r)'}
      BY DEF Knowledge, StampsOf
    <2>3. PICK e \in Known(r)' : StampOf(e) = StampOf(made[2])
      BY <1>5, <2>1, <2>2
    <2>4. /\ Known(r)' \subseteq edits /\ made[2] \in edits /\ made \in past'
          /\ \A a, b \in edits : SameKey(a, b) => a = b
      <3>1. Known(r) \subseteq edits
        BY KnownIs DEF ContextInv, CopiesInv, CopyOk, IsCopy
      <3>2. restarts = 0
        BY DEF MergeAt
      <3> QED BY <1>1, <1>3, <3>1, <3>2 DEF ContextInv, EditsInv, LogInv
    <2>5. e = made[2]
      BY <2>3, <2>4, StampsAgree
    <2>6. made[1] \in Known(r)'
      <3>1. (IsCopy(Context(r)) => Closed(Context(r)))' /\ IsCopy(Context(r))'
        BY <1>1 DEF LogInv, IsCopy
      <3>2. Known(r)' = EditsOf(Context(r))'
        BY DEF Known, EditsOf, Context
      <3> QED BY <2>4, <2>5, <3>1, <3>2 DEF Closed
    <2> QED BY <2>1, <2>2, <2>6
  <1>6. Log!Learn(r, learnt)
    BY <1>2, <1>4, <1>5 DEF Log!Learn, Knowledge, Causes
  <1> QED BY <1>2, <1>6 DEF Log!LogNext

\* Where every console has a session of its own the consoles implement the edit log
\* until one is opened again, for any consoles and edits (LogSpec): stamps are unique
\* and rise, and whoever knows an edit knows what its author knew.
THEOREM ContextImplementsLog ==
  ASSUME OwnSessions
  PROVE  ContextSpec => LogSpec
  <1>1. ContextInit => LogInv /\ Log!LogInit
    <2> SUFFICES ASSUME ContextInit PROVE LogInv /\ Log!LogInit
      OBVIOUS
    <2>1. \A r \in Replicas : Known(r) = {}
      BY DEF ContextInit, Known, Range
    <2>2. LogInv
      BY DEF ContextInit, LogInv, Closed
    <2>3. Log!LogInit
      BY <2>1 DEF ContextInit, Log!LogInit, StampsOf
    <2> QED BY <2>2, <2>3
  <1>2. ContextInv /\ LogInv /\ [ContextNext]_contextVars
        => LogInv' /\ (restarts' = 0 => Log!LogNext \/ UNCHANGED Log!logVars)
    <2> SUFFICES ASSUME ContextInv, LogInv, [ContextNext]_contextVars
                 PROVE  LogInv' /\ (restarts' = 0 => Log!LogNext \/ UNCHANGED Log!logVars)
      OBVIOUS
    <2>1. CASE restarts' # 0
      BY <2>1 DEF LogInv
    <2>2. CASE restarts' = 0
      <3>1. CASE \E r \in Replicas, slot \in Slots \cup {"text"} :
                   ApplyPatchSet(r, slot) \/ (slot = "text" /\ PostMessage(r))
        BY <2>2, <3>1, LogEdit, LogMakes
      <3>2. CASE \E r \in Replicas, d \in Copy : MergeAt(r, d)
        BY <2>2, <3>2, LogMerge, LogLearns
      <3>3. CASE CopyOrForget
        BY <3>3, LogForget
      <3> QED BY <2>2, <3>1, <3>2, <3>3, StepKinds, ReopenKeeps
    <2> QED BY <2>1, <2>2
  <1> QED BY <1>1, <1>2, ContextAlways, PTL DEF ContextSpec, LogSpec
=============================================================================
