-------------------------------- MODULE Relay --------------------------------
(***************************************************************************)
(* The AEON relay (aeon-sync/src/relay.rs): a store-and-forward node that  *)
(* phones and desktops push captures to and that desktops poll.  One       *)
(* action per step of the push loop, the relay's HTTP handlers and the     *)
(* pull loop; what runs between two awaits of the code is one action.      *)
(*                                                                         *)
(* A relay item is identified by the key the code builds in relay_id: the  *)
(* capture time, then the content id, then the pushing device, compared as *)
(* one zero-padded string, hence lexicographically.  The payload is a      *)
(* function of the key (same device, same millisecond, same content).      *)
(***************************************************************************)
EXTENDS Naturals, FiniteSets, Sequences

CONSTANTS
  Desktops,     \* devices that run aeon-sync: they push, pull and capture
  Phones,       \* devices that only post to the relay's capture endpoints
  Cids,         \* content ids, ordered as their hex strings are
  MaxTime,      \* bound: the wall clock stops here
  QueueCap,     \* capacity of the capture broadcast channel (256 in the code)
  PageLimit,    \* items in one pull response (50 in the code)
  MaxCaptures,  \* bound, per device: captures made on it
  MaxFaults     \* bound, per desktop: its crashes and failed imports

Devices == Desktops \cup Phones

ASSUME RelayAssumption ==
  /\ Desktops \subseteq Nat /\ Phones \subseteq Nat /\ Cids \subseteq Nat
  /\ Desktops \cap Phones = {}
  /\ MaxTime \in Nat \ {0} /\ QueueCap \in Nat \ {0} /\ PageLimit \in Nat \ {0}
  /\ MaxCaptures \in [Devices -> Nat] /\ MaxFaults \in [Desktops -> Nat]

VARIABLES
  now,        \* the wall clock, in milliseconds (all clocks agree here)
  captured,   \* history: the keys of the captures made on each device
  queue,      \* per desktop: the push loop's unread broadcast entries
  wire,       \* keys of the items stamped and not yet written by the relay
  relay,      \* keys of the item files of the space directory
  lost,       \* history: own captures that will never reach the relay
  cursor,     \* per desktop: the pull loop's in-memory cursor
  cursorFile, \* per desktop: relay-cursor.txt
  pulling,    \* per desktop: pull_once is between its request and its return
  page,       \* per desktop: the items of the response not handled yet
  latest,     \* per desktop: pull_once's `latest`
  imported,   \* per desktop: items written to its own capture stream
  again,      \* history: items a desktop imported more than once
  late,       \* history: items stored behind a desktop's pull front
  faults      \* per desktop: crashes and failed imports so far

pushVars == <<captured, queue, wire, lost>>
pullVars == <<cursor, cursorFile, pulling, page, latest>>
vars == <<now, pushVars, relay, pullVars, imported, again, late, faults>>

-----------------------------------------------------------------------------
(* Keys and their order.                                                    *)

Key == [at : 1..MaxTime, cid : Cids, dev : Devices]

\* No cursor yet: below every key.
NoCursor == [at |-> 0, cid |-> 0, dev |-> 0]

Less(a, b) ==
  \/ a.at < b.at
  \/ a.at = b.at /\ a.cid < b.cid
  \/ a.at = b.at /\ a.cid = b.cid /\ a.dev < b.dev

AtMost(a, b) == a = b \/ Less(a, b)

\* The key relay_id gives a capture of content c on device d at this moment.
RelayId(c, d) == [at |-> now, cid |-> c, dev |-> d]

-----------------------------------------------------------------------------
(* Entries of the capture broadcast channel.                                *)

Entry == [key : Key, peer : BOOLEAN]

\* Entry e is broadcast on queue q: a receiver that is QueueCap behind loses
\* its oldest entry (RecvError::Lagged).
Broadcast(q, e) ==
  IF Len(q) < QueueCap THEN Append(q, e) ELSE Append(Tail(q), e)

\* What the broadcast of one more entry pushes out of queue q, own captures only.
Evicted(q) ==
  IF Len(q) < QueueCap \/ Head(q).peer THEN {} ELSE {Head(q).key}

\* The keys of the own captures still waiting in queue q.
Waiting(q) == {q[k].key : k \in {j \in 1..Len(q) : ~q[j].peer}}

-----------------------------------------------------------------------------
Init ==
  /\ now = 1
  /\ captured = [d \in Devices |-> {}]
  /\ queue = [d \in Desktops |-> <<>>]
  /\ wire = {} /\ relay = {} /\ lost = {}
  /\ cursor = [d \in Desktops |-> NoCursor]
  /\ cursorFile = [d \in Desktops |-> NoCursor]
  /\ pulling = [d \in Desktops |-> FALSE]
  /\ page = [d \in Desktops |-> {}]
  /\ latest = [d \in Desktops |-> NoCursor]
  /\ imported = [d \in Desktops |-> {}]
  /\ again = [d \in Desktops |-> {}]
  /\ late = [d \in Desktops |-> {}]
  /\ faults = [d \in Desktops |-> 0]

Tick ==
  /\ now < MaxTime
  /\ now' = now + 1
  /\ UNCHANGED <<pushVars, relay, pullVars, imported, again, late, faults>>

-----------------------------------------------------------------------------
(* Pushing.                                                                 *)

\* A local capture of content c on desktop d: stored, logged and broadcast.
LocalCapture(d, c) ==
  LET k == RelayId(c, d) IN
  /\ Cardinality(captured[d]) < MaxCaptures[d]
  /\ k \notin captured[d]
  /\ captured' = [captured EXCEPT ![d] = @ \cup {k}]
  /\ queue' = [queue EXCEPT ![d] = Broadcast(@, [key |-> k, peer |-> FALSE])]
  /\ lost' = lost \cup Evicted(queue[d])
  /\ UNCHANGED <<now, wire, relay, pullVars, imported, again, late, faults>>

BugPushAll(e) == TRUE      \* no filter
BugPushPeers(e) == e.peer  \* the filter inverted
\* Only what was not itself imported from the relay is pushed to it.
ShouldPushToRelay(e) == ~e.peer

\* The push loop of desktop d takes its next entry; the request goes out only
\* for an entry that did not itself come from the relay.
PushNext(d) ==
  /\ queue[d] # <<>>
  /\ queue' = [queue EXCEPT ![d] = Tail(@)]
  /\ wire' = IF ShouldPushToRelay(Head(queue[d]))
             THEN wire \cup {Head(queue[d]).key} ELSE wire
  /\ UNCHANGED <<now, captured, lost, relay, pullVars, imported, again, late, faults>>

\* A phone posts content c: the handler stamps the item with the relay's clock.
PhoneCapture(p, c) ==
  LET k == RelayId(c, p) IN
  /\ Cardinality(captured[p]) < MaxCaptures[p]
  /\ k \notin captured[p]
  /\ captured' = [captured EXCEPT ![p] = @ \cup {k}]
  /\ wire' = wire \cup {k}
  /\ UNCHANGED <<now, queue, lost, relay, pullVars, imported, again, late, faults>>

\* A push that fails is logged and never retried.
PushFails(k) ==
  /\ wire' = wire \ {k}
  /\ lost' = lost \cup {k}
  /\ UNCHANGED <<now, captured, queue, relay, pullVars, imported, again, late, faults>>

\* How far desktop d has already looked: its cursor or, while it handles a
\* response, everything up to the last item of that response.
BehindFront(d, k) ==
  \/ AtMost(k, cursor[d])
  \/ pulling[d] /\ (AtMost(k, latest[d]) \/ \E i \in page[d] : AtMost(k, i))

\* RelayStore::push: the item file is complete and visible to pulls.
StoreItem(k) ==
  /\ wire' = wire \ {k}
  /\ relay' = relay \cup {k}
  /\ late' = [d \in Desktops |->
                IF k \notin relay /\ BehindFront(d, k)
                THEN late[d] \cup {k} ELSE late[d]]
  /\ UNCHANGED <<now, captured, queue, lost, pullVars, imported, again, faults>>

-----------------------------------------------------------------------------
(* Pulling.                                                                 *)

\* RelayStore::pull: what is above the cursor, in order, cut at the limit.
BugAtCursor(cur) == {k \in relay : AtMost(cur, k)}  \* `<` for `<=`
Above(cur) == {k \in relay : Less(cur, k)}

\* The sort descending: the newest items instead of the oldest.
BugNewest(cur) ==
  {k \in Above(cur) : Cardinality({j \in Above(cur) : Less(k, j)}) < PageLimit}
NextPage(cur) ==
  {k \in Above(cur) : Cardinality({j \in Above(cur) : Less(j, k)}) < PageLimit}

\* The pull loop's tick; a response without items leaves everything as it was.
PullPage(d) ==
  /\ ~pulling[d]
  /\ NextPage(cursor[d]) # {}
  /\ pulling' = [pulling EXCEPT ![d] = TRUE]
  /\ page' = [page EXCEPT ![d] = NextPage(cursor[d])]
  /\ latest' = [latest EXCEPT ![d] = cursor[d]]
  /\ UNCHANGED <<now, pushVars, relay, cursor, cursorFile, imported, again, late, faults>>

FirstOfPage(d, k) == k \in page[d] /\ \A j \in page[d] \ {k} : Less(k, j)

\* `latest` set only for items that are imported.
BugSkipForgotten(d, k) ==
  /\ pulling[d] /\ FirstOfPage(d, k) /\ k.dev = d
  /\ page' = [page EXCEPT ![d] = @ \ {k}]
  /\ UNCHANGED <<now, pushVars, relay, latest, cursor, cursorFile, pulling, imported,
                 again, late, faults>>
\* An own item is stepped over.
SkipOwn(d, k) ==
  /\ pulling[d] /\ FirstOfPage(d, k) /\ k.dev = d
  /\ page' = [page EXCEPT ![d] = @ \ {k}]
  /\ latest' = [latest EXCEPT ![d] = k]
  /\ UNCHANGED <<now, pushVars, relay, cursor, cursorFile, pulling, imported, again,
                 late, faults>>

\* import_relay_item: the item becomes a capture of source PeerSync, stamped
\* with the local clock and broadcast like any other capture.
ImportItem(d, k) ==
  /\ pulling[d] /\ FirstOfPage(d, k) /\ k.dev # d
  /\ imported' = [imported EXCEPT ![d] = @ \cup {k}]
  /\ again' = [again EXCEPT ![d] = IF k \in imported[d] THEN @ \cup {k} ELSE @]
  /\ queue' = [queue EXCEPT ![d] =
                 Broadcast(@, [key |-> RelayId(k.cid, d), peer |-> TRUE])]
  /\ lost' = lost \cup Evicted(queue[d])
  /\ page' = [page EXCEPT ![d] = @ \ {k}]
  /\ latest' = [latest EXCEPT ![d] = k]
  /\ UNCHANGED <<now, captured, wire, relay, cursor, cursorFile, pulling, late, faults>>

\* An import that fails ends pull_once with an error: the cursor stays.
ImportFails(d, k) ==
  /\ pulling[d] /\ FirstOfPage(d, k) /\ k.dev # d
  /\ faults[d] < MaxFaults[d]
  /\ faults' = [faults EXCEPT ![d] = @ + 1]
  /\ pulling' = [pulling EXCEPT ![d] = FALSE]
  /\ page' = [page EXCEPT ![d] = {}]
  /\ latest' = [latest EXCEPT ![d] = NoCursor]
  /\ UNCHANGED <<now, pushVars, relay, cursor, cursorFile, imported, again, late>>

\* pull_once returns the new cursor; writing it to disk may fail (saved = FALSE).
AdvanceCursor(d, saved) ==
  /\ pulling[d] /\ page[d] = {}
  /\ cursor' = [cursor EXCEPT ![d] = latest[d]]
  /\ cursorFile' = IF saved THEN [cursorFile EXCEPT ![d] = latest[d]] ELSE cursorFile
  /\ pulling' = [pulling EXCEPT ![d] = FALSE]
  /\ latest' = [latest EXCEPT ![d] = NoCursor]
  /\ UNCHANGED <<now, pushVars, relay, page, imported, again, late, faults>>

ReadCursor(file) == file

\* Desktop d stops and starts again: the queue and the pull in progress are
\* gone, the cursor is read back from the file.  A stop while the file is being
\* rewritten (torn) leaves it empty, which read_cursor takes for no cursor.
Restart(d, torn) ==
  /\ faults[d] < MaxFaults[d]
  /\ torn => pulling[d] /\ page[d] = {}
  /\ faults' = [faults EXCEPT ![d] = @ + 1]
  /\ cursorFile' = IF torn THEN [cursorFile EXCEPT ![d] = NoCursor] ELSE cursorFile
  /\ cursor' = [cursor EXCEPT ![d] = ReadCursor(cursorFile'[d])]
  /\ pulling' = [pulling EXCEPT ![d] = FALSE]
  /\ page' = [page EXCEPT ![d] = {}]
  /\ latest' = [latest EXCEPT ![d] = NoCursor]
  /\ queue' = [queue EXCEPT ![d] = <<>>]
  /\ lost' = lost \cup Waiting(queue[d])
  /\ UNCHANGED <<now, captured, wire, relay, imported, again, late>>

-----------------------------------------------------------------------------
Pull(d) ==
  \/ PullPage(d)
  \/ \E k \in page[d] : SkipOwn(d, k) \/ ImportItem(d, k)
  \/ \E saved \in BOOLEAN : AdvanceCursor(d, saved)

Next ==
  \/ Tick
  \/ \E d \in Desktops, c \in Cids : LocalCapture(d, c)
  \/ \E p \in Phones, c \in Cids : PhoneCapture(p, c)
  \/ \E d \in Desktops : PushNext(d)
  \/ \E k \in wire : PushFails(k) \/ StoreItem(k)
  \/ \E d \in Desktops : Pull(d)
  \/ \E d \in Desktops : \E k \in page[d] : ImportFails(d, k)
  \/ \E d \in Desktops, torn \in BOOLEAN : Restart(d, torn)

Spec == Init /\ [][Next]_vars

\* The pull loop ticks for ever and waits for nothing but its own requests;
\* no device is obliged to capture, and no push is obliged to arrive.
Fairness == \A d \in Desktops : WF_vars(Pull(d))
FairSpec == Spec /\ Fairness

-----------------------------------------------------------------------------
(* Properties.                                                              *)

TypeOK ==
  /\ now \in 1..MaxTime
  /\ captured \in [Devices -> SUBSET Key]
  /\ queue \in [Desktops -> Seq(Entry)]
  /\ wire \subseteq Key /\ relay \subseteq Key /\ lost \subseteq Key
  /\ cursor \in [Desktops -> Key \cup {NoCursor}]
  /\ cursorFile \in [Desktops -> Key \cup {NoCursor}]
  /\ pulling \in [Desktops -> BOOLEAN]
  /\ page \in [Desktops -> SUBSET Key]
  /\ latest \in [Desktops -> Key \cup {NoCursor}]
  /\ imported \in [Desktops -> SUBSET Key]
  /\ again \in [Desktops -> SUBSET Key]
  /\ late \in [Desktops -> SUBSET Key]
  /\ faults \in [Desktops -> Nat]

\* Imports never echo: whatever is on the relay, or on its way there, was
\* captured by the device that it names.  The push loop reads the same channel
\* that the pull loop's imports are broadcast on, so without the filter of
\* should_push_to_relay one item would circulate between desktops for ever.
NoEcho == \A k \in relay \cup wire : k \in captured[k.dev]

\* Every capture of a desktop is on the relay, on its way, in the push loop's
\* queue, or accounted for as lost: by a failed push, a lagging receiver or a
\* restart.  There is no other way to lose one.
PushAccounted ==
  \A d \in Desktops :
    captured[d] \subseteq relay \cup wire \cup lost \cup Waiting(queue[d])

\* The cursor never passes an item that desktop d should have imported and did
\* not, unless the relay stored the item behind the front of d's pull.
PullAccounted ==
  \A d \in Desktops : \A k \in relay :
    k.dev # d /\ AtMost(k, cursor[d]) => k \in imported[d] \cup late[d]

\* Nothing is lost on the way between two desktops but what these count.
ItemsAccounted == PushAccounted /\ PullAccounted

\* The saved cursor is never ahead of the one in memory, so a restart repeats
\* work and skips none.
FileBehindCursor == \A d \in Desktops : AtMost(cursorFile[d], cursor[d])

\* An item is imported twice only after a restart or a failed import.
TwiceOnlyAfterFault == \A d \in Desktops : again[d] # {} => faults[d] > 0

\* Within one run of a desktop the cursor only moves forward: it moves back only
\* in a step that counts a fault.
CursorMonotone ==
  [][\A d \in Desktops :
       faults'[d] = faults[d] => AtMost(cursor[d], cursor'[d])]_vars

\* Every item another device put on the relay is in the end imported by every
\* desktop, or was stored behind its pull front: pages of own items, failed
\* imports, unsaved cursors and restarts delay it but never block it.
ImportedOrLate ==
  \A d \in Desktops : \A k \in Key :
    (k \in relay /\ k.dev # d) ~> (k \in imported[d] \cup late[d])

\* The relay implements the ordered feed: an item that a desktop imports comes
\* after everything due before it, and only out-of-order arrivals are missed.
Feed == INSTANCE RelayFeed WITH
  Readers <- Desktops, Key <- Key,
  published <- relay, delivered <- imported, missed <- late
FeedSpec == Feed!FeedSpec
=============================================================================
