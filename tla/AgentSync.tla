------------------------------ MODULE AgentSync ------------------------------
(***************************************************************************)
(* The peer synchronisation of aeon-agent (engine.rs): devices hold TCP    *)
(* connections to each other, introduce themselves, offer the contents     *)
(* they have, and fetch what they lack.  Each connection has one handler   *)
(* per side, which reads a message, sends what it answers, and reads on;   *)
(* the main loop of a device announces new files on all its connections.   *)
(*                                                                         *)
(* Every envelope carries a nonce made from the millisecond it is signed   *)
(* in, and a receiver ignores an envelope whose sender and nonce it has    *)
(* seen.  Here the nonce is the count of distinct milliseconds in which    *)
(* the sender has signed anything: each signature falls into the same      *)
(* millisecond as the one before, or into a new one.                       *)
(***************************************************************************)
EXTENDS Naturals, FiniteSets, Sequences, SequencesExt

CONSTANTS
  Devices,
  Dials,      \* pairs <<d, e>>: d has e in its list of peers to connect to
  Cids,       \* contents (hashes, finitely many), of at most 10 MB each
  Stored,     \* the contents in each device's blob store at first
  WireCap,    \* envelopes a connection holds before a send has to wait
  MaxFiles,   \* bound: files that appear in the watched directories
  MaxFaults   \* bound: broken connections, restarts, failed writes, and signatures
              \* in the same millisecond as the one before

ASSUME AgentAssumption ==
  /\ Dials \subseteq {p \in Devices \X Devices : p[1] # p[2]}
  /\ IsFiniteSet(Cids) /\ Stored \in [Devices -> SUBSET Cids]
  /\ WireCap \in Nat \ {0} /\ MaxFiles \in Nat /\ MaxFaults \in Nat

VARIABLES
  store,       \* per device: the contents in its blob store
  seen,        \* per device: seen_cids of agent_state.json
  nonces,      \* per device: seen_nonces of agent_state.json
  records,     \* per device: the contents other devices' file_records name
  index,       \* per device: the main loop's file_index
  ms,          \* per device: milliseconds in which it has signed
  shared,      \* signatures in the same millisecond as the one before
  announcing,  \* per device: what the main loop still has to announce
  left,        \* per device: the connections that still get the first of these
  entry,       \* per device: the connections in its peers map
  link,        \* the connections that are up
  wire,        \* per connection and receiver: envelopes on their way
  todo,        \* per connection and side: messages its handler has yet to send
  files,       \* files that have appeared
  faults,
  collided     \* history: an envelope was ignored for its nonce

stateVars == <<store, seen, nonces, records>>
mainVars == <<index, announcing, left>>
linkVars == <<entry, link, wire, todo>>
vars == <<stateVars, mainVars, ms, shared, linkVars, files, faults, collided>>

-----------------------------------------------------------------------------
(* Messages and connections.                                                *)

\* A message is about a set of contents; all but Have are about at most one.
Message == [kind : {"Hello", "Have", "Want", "Data", "FileIngest"}, cids : SUBSET Cids]
Msg(kind, cids) == [kind |-> kind, cids |-> cids]
Hello == Msg("Hello", {})

Side == {s \in Dials \X Devices : s[2] \in {s[1][1], s[1][2]}}
Other(p, d) == IF d = p[1] THEN p[2] ELSE p[1]

\* Device d signs a message in the same millisecond as its last one, or later.
Millisecond(d) ==
  {ms[d] + 1} \cup (IF ms[d] = 0 \/ faults + shared >= MaxFaults THEN {} ELSE {ms[d]})
Signed(d, m, at) == [msg |-> m, by |-> d, at |-> at]

Room(p, d) == p \notin link \/ Len(wire[<<p, Other(p, d)>>]) < WireCap

\* PeerConn::send waits for room; a message for a connection that is gone is lost.
SendOn(p, d, m, at) ==
  /\ Room(p, d)
  /\ ms' = [ms EXCEPT ![d] = at]
  /\ shared' = IF at = ms[d] THEN shared + 1 ELSE shared
  /\ wire' = IF p \in link
             THEN [wire EXCEPT ![<<p, Other(p, d)>>] = Append(@, Signed(d, m, at))]
             ELSE wire

-----------------------------------------------------------------------------
Init ==
  /\ store = Stored /\ seen = [d \in Devices |-> {}]
  /\ nonces = [d \in Devices |-> {}] /\ records = [d \in Devices |-> {}]
  /\ index = [d \in Devices |-> {}] /\ ms = [d \in Devices |-> 0]
  /\ announcing = [d \in Devices |-> <<>>] /\ left = [d \in Devices |-> {}]
  /\ entry = [d \in Devices |-> {}] /\ link = {}
  /\ wire = [s \in Side |-> <<>>] /\ todo = [s \in Side |-> <<>>]
  /\ shared = 0 /\ files = 0 /\ faults = 0 /\ collided = FALSE

-----------------------------------------------------------------------------
(* The main loop.                                                           *)

BugIngestFirst(c) == <<Msg("FileIngest", {c}), Msg("Have", {c})>>  \* the order swapped
\* What is announced about a new file: its content, then where it was.
Announcements(c) == <<Msg("Have", {c}), Msg("FileIngest", {c})>>

\* The watcher reports a file of content c; one that is indexed is passed over.
Ingest(d, c) ==
  /\ announcing[d] = <<>> /\ c \notin index[d] /\ files < MaxFiles
  /\ files' = files + 1
  /\ store' = [store EXCEPT ![d] = @ \cup {c}]
  /\ index' = [index EXCEPT ![d] = @ \cup {c}]
  /\ announcing' = [announcing EXCEPT ![d] = Announcements(c)]
  /\ left' = [left EXCEPT ![d] = entry[d]]
  /\ UNCHANGED <<seen, nonces, records, ms, shared, linkVars, faults, collided>>

\* announce and announce_file_ingest: one envelope for each peer.
AnnounceTo(d, p, at) ==
  /\ p \in left[d] /\ at \in Millisecond(d)
  /\ SendOn(p, d, Head(announcing[d]), at)
  /\ left' = [left EXCEPT ![d] = @ \ {p}]
  /\ UNCHANGED <<stateVars, index, announcing, entry, link, todo, files, faults, collided>>

\* The loop over the peers is done: the next announcement begins.
AnnounceNext(d) ==
  /\ announcing[d] # <<>> /\ left[d] = {}
  /\ announcing' = [announcing EXCEPT ![d] = Tail(@)]
  /\ left' = [left EXCEPT ![d] = IF Len(announcing[d]) = 1 THEN {} ELSE entry[d]]
  /\ UNCHANGED <<stateVars, index, ms, shared, linkVars, files, faults, collided>>

-----------------------------------------------------------------------------
(* Connections.                                                             *)

\* The loop over the peer list connects to the next peer it has no entry for,
\* and stays with that connection until it ends.  The peers map is locked while
\* a device announces.
Connect(p) ==
  /\ left[p[1]] = {} /\ left[p[2]] = {}
  /\ p \notin link /\ p \notin entry[p[1]]
  /\ \A q \in link : q[1] # p[1]
  /\ link' = link \cup {p}
  /\ entry' = [d \in Devices |-> IF d \in {p[1], p[2]} THEN entry[d] \cup {p} ELSE entry[d]]
  /\ todo' = [s \in Side |-> IF s[1] = p THEN <<Hello>> ELSE todo[s]]
  /\ UNCHANGED <<stateVars, mainVars, ms, shared, wire, files, faults, collided>>

\* What is left of connections that break: a side that reads the end of the
\* stream removes its entry, a side that gets an error returns and keeps it.
EntriesAfter(broken, kept) ==
  [d \in Devices |-> entry[d] \ {p \in broken : <<p, d>> \notin kept}]

Drop(broken) ==
  /\ link' = link \ broken
  /\ wire' = [s \in Side |-> IF s[1] \in broken THEN <<>> ELSE wire[s]]
  /\ todo' = [s \in Side |-> IF s[1] \in broken THEN <<>> ELSE todo[s]]

\* Connection p breaks; kept are the sides that get an error.
Break(p, kept) ==
  /\ p \in link /\ faults + shared < MaxFaults
  /\ kept \subseteq {<<p, p[1]>>, <<p, p[2]>>}
  /\ faults' = faults + 1
  /\ Drop({p})
  /\ entry' = EntriesAfter({p}, kept)
  /\ UNCHANGED <<stateVars, mainVars, ms, shared, files, collided>>

\* Device d stops and starts again; agent_state.json may be left torn, which
\* SyncState::load takes for an empty state.
Restart(d, torn) ==
  /\ faults + shared < MaxFaults
  /\ faults' = faults + 1
  /\ LET broken == {p \in link : d \in {p[1], p[2]}}
     IN Drop(broken) /\ entry' = [EntriesAfter(broken, {}) EXCEPT ![d] = {}]
  /\ index' = [index EXCEPT ![d] = {}]
  /\ announcing' = [announcing EXCEPT ![d] = <<>>]
  /\ left' = [left EXCEPT ![d] = {}]
  /\ seen' = IF torn THEN [seen EXCEPT ![d] = {}] ELSE seen
  /\ nonces' = IF torn THEN [nonces EXCEPT ![d] = {}] ELSE nonces
  /\ records' = IF torn THEN [records EXCEPT ![d] = {}] ELSE records
  /\ UNCHANGED <<store, ms, shared, files, collided>>

-----------------------------------------------------------------------------
(* The handlers.                                                            *)

\* The handler of side d sends the next of its answers.
SendTodo(p, d, at) ==
  /\ todo[<<p, d>>] # <<>> /\ at \in Millisecond(d)
  /\ SendOn(p, d, Head(todo[<<p, d>>]), at)
  /\ todo' = [todo EXCEPT ![<<p, d>>] = Tail(@)]
  /\ UNCHANGED <<stateVars, mainVars, entry, link, files, faults, collided>>

BugAskNothing(d, cids) == {c \in cids : c \in store[d] /\ c \notin seen[d]}  \* `!` dropped
\* What device d lacks of the contents it is offered.
Missing(d, cids) == {c \in cids : c \notin store[d] /\ c \notin seen[d]}

\* on_message and on_want: what device d answers to message m.
Answers(d, m) ==
  CASE m.kind = "Hello" -> <<Msg("Have", store[d])>>
    [] m.kind = "Have" -> [n \in 1..Cardinality(Missing(d, m.cids)) |->
                             Msg("Want", {SetToSeq(Missing(d, m.cids))[n]})]
    [] m.kind = "Want" /\ m.cids \subseteq store[d] -> <<Msg("Data", m.cids)>>
    [] OTHER -> <<>>

\* on_data: what is marked as seen.
Learned(m) == IF m.kind = "Data" THEN m.cids ELSE {}

\* Side d of connection p reads an envelope and handles it, unless its nonce was
\* seen.  Storing a content may fail (stored = FALSE): it is marked as seen all
\* the same.
Receive(p, d, stored) ==
  LET s == <<p, d>>
      env == Head(wire[s])
      m == env.msg
  IN /\ todo[s] = <<>> /\ wire[s] # <<>>
     /\ <<env.by, env.at>> \notin nonces[d]
     /\ stored \/ (m.kind = "Data" /\ faults + shared < MaxFaults)
     /\ wire' = [wire EXCEPT ![s] = Tail(@)]
     /\ nonces' = [nonces EXCEPT ![d] = @ \cup {<<env.by, env.at>>}]
     /\ todo' = [todo EXCEPT ![s] = Answers(d, m)]
     /\ store' = IF m.kind = "Data" /\ stored
                 THEN [store EXCEPT ![d] = @ \cup m.cids] ELSE store
     /\ seen' = [seen EXCEPT ![d] = @ \cup Learned(m)]
     /\ records' = IF m.kind = "FileIngest"
                   THEN [records EXCEPT ![d] = @ \cup m.cids] ELSE records
     /\ faults' = IF stored THEN faults ELSE faults + 1
     /\ UNCHANGED <<mainVars, ms, shared, entry, link, files, collided>>

\* verify_env ignores an envelope whose nonce was seen.
Ignore(p, d) ==
  LET s == <<p, d>> IN
  /\ todo[s] = <<>> /\ wire[s] # <<>>
  /\ <<Head(wire[s]).by, Head(wire[s]).at>> \in nonces[d]
  /\ wire' = [wire EXCEPT ![s] = Tail(@)]
  /\ collided' = TRUE
  /\ UNCHANGED <<stateVars, mainVars, ms, shared, entry, link, todo, files, faults>>

-----------------------------------------------------------------------------
Main(d) ==
  \/ \E p \in left[d] : \E at \in Millisecond(d) : AnnounceTo(d, p, at)
  \/ AnnounceNext(d)

Handle(s) ==
  \/ \E at \in Millisecond(s[2]) : SendTodo(s[1], s[2], at)
  \/ Receive(s[1], s[2], TRUE)
  \/ Ignore(s[1], s[2])

Next ==
  \/ \E d \in Devices : Main(d) \/ (\E c \in Cids : Ingest(d, c))
  \/ \E s \in Side : Handle(s) \/ Receive(s[1], s[2], FALSE)
  \/ \E p \in Dials : Connect(p) \/ (\E kept \in SUBSET {<<p, p[1]>>, <<p, p[2]>>} : Break(p, kept))
  \/ \E d \in Devices, torn \in BOOLEAN : Restart(d, torn)

Spec == Init /\ [][Next]_vars

\* The loops and handlers of the program keep running; files need not appear and
\* nothing need break.
FairSpec ==
  /\ Spec
  /\ \A d \in Devices : WF_vars(Main(d))
  /\ \A s \in Side : WF_vars(Handle(s))
  /\ \A p \in Dials : WF_vars(Connect(p))

-----------------------------------------------------------------------------
(* Properties.                                                              *)

\* Message kind about content c is still to be sent by side s, or on its way
\* from there.
Coming(s, kind, c) ==
  LET r == <<s[1], Other(s[1], s[2])>> IN
  \/ \E m \in Range(todo[s]) : m.kind = kind /\ c \in m.cids
  \/ \E env \in Range(wire[r]) : env.msg.kind = kind /\ c \in env.msg.cids

\* Side s has not yet offered its contents, because the other's Hello is pending.
OfferPending(s) ==
  LET r == <<s[1], Other(s[1], s[2])>> IN
  \/ Hello \in Range(todo[r])
  \/ \E env \in Range(wire[s]) : env.msg.kind = "Hello"

\* A device that records where a file was has its content, is being offered it or
\* is about to ask for it: the record never arrives before the offer.
RecordedContentComing ==
  ~collided /\ faults = 0 =>
    \A d \in Devices : \A c \in records[d] \ store[d] :
      \E s \in Side :
        LET r == <<s[1], Other(s[1], d)>> IN
        s[2] = d /\ (Coming(s, "Want", c) \/ OfferPending(r)
                     \/ \E kind \in {"Have", "Data"} : Coming(r, kind, c))

\* Side d of connection p believes in a connection that is gone.
StaleEntry(p) == p \in entry[p[1]] /\ p \notin link

\* Both handlers of connection p wait for room that only the other one can make.
Stuck(p) == \A d \in {p[1], p[2]} : ~Room(p, d) /\ todo[<<p, d>>] # <<>>

\* Whatever breaks in between, every content of a device arrives at the device it
\* is connected to, unless an envelope was ignored for its nonce, a failed write
\* left the content marked as seen, the connection ended with an error and is
\* still in the peers map, so that it is not made again, or both sides have filled
\* the connection and wait for each other to read.
EveryContentArrives ==
  \A s \in Side : \A c \in Cids :
    LET other == Other(s[1], s[2]) IN
    c \in store[s[2]] ~>
      c \in store[other] \cup seen[other] \/ collided \/ StaleEntry(s[1]) \/ Stuck(s[1])
=============================================================================
