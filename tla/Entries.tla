--------------------------------- MODULE Entries ---------------------------------
(***************************************************************************)
(* The requests of aeon-sync that take captures in, edit them and list     *)
(* them (server/ingest.rs, server/entries.rs, server/shared.rs) over the   *)
(* index of captures, which keeps one record for a content, and the event  *)
(* log, which keeps one event for a capture.  A request dates its capture, *)
(* then CaptureEngine::capture stores it and logs it, each in its turn;    *)
(* either may fail, and between them others read and write.  An edit makes *)
(* a new capture that names the one it was made from.  What a restart      *)
(* leaves of index and log is CaptureEngine's matter, not modelled here.   *)
(***************************************************************************)
EXTENDS Integers, FiniteSets

CONSTANTS
  Texts, Kinds,  \* contents and kinds of captures
  Filters,       \* a filter, and the kinds that begin with it
  Senders,       \* what a request's headers say of the device: [kind, name]
  Handlers,      \* requests that capture
  Limits,        \* the limits asked for
  MaxCaptures, MaxErrors  \* bounds: captures begun, failed writes

NoText == "no text"

ASSUME EntriesAssumption ==
  {MaxCaptures, MaxErrors} \subseteq Nat /\ Limits \subseteq Nat /\ NoText \notin Texts

VARIABLES
  records,  \* the index: a record for each content captured
  log,      \* the captures whose events can be read from the log
  open,     \* what a last line of the log without its newline holds, in a set
  work,     \* what each request is about to store or to log
  count,    \* captures begun, which also dates them
  errors,   \* failed writes so far
  again,    \* history: contents that were captured more than once
  untold    \* history: captures whose write failed, or whose event continues a line
            \* that a failed write left

entryVars == <<records, log, open, work, count, errors, again, untold>>

Free == [at |-> "free"]
Part == [text |-> NoText]  \* of an event's line

EntriesInit ==
  /\ records = <<>> /\ log = {} /\ open = {} /\ work = [h \in Handlers |-> Free]
  /\ count = 0 /\ errors = 0 /\ again = {} /\ untold = {}

\* source_from_peer_headers
SourceOf(sender, default) ==
  CASE sender.kind = "android" -> "ShareMenu"
    [] sender.kind = "" -> default
    [] sender.kind \notin {"", "android"} -> IF sender.name = "" THEN default ELSE "PeerSync"

\* A request makes a capture, which waits for its turn.
New(text, kind, source, previous) ==
  [text |-> text, kind |-> kind, source |-> source, at |-> count + 1, previous |-> previous]
TakeIn(h, entry) ==
  /\ work[h] = Free /\ count < MaxCaptures /\ count' = count + 1
  /\ work' = [work EXCEPT ![h] = [at |-> "put", entry |-> entry]]
  /\ UNCHANGED <<records, log, open, errors, again, untold>>

CaptureText(h, text, sender) == TakeIn(h, New(text, "text", SourceOf(sender, "Manual"), NoText))
CaptureDrop(h, text, kind, sender) == TakeIn(h, New(text, kind, SourceOf(sender, "DragDrop"), NoText))
\* capture_webpage_url: what the page holds now.
CaptureUrl(h, text) == TakeIn(h, New(text, "webpage", "AppApi", NoText))

\* edit_entry: of the record as it is when it is read.
BugOwnCid(h, from, text) ==
  /\ from \in DOMAIN records /\ text # from
  /\ TakeIn(h, New(text, records[from].kind, "Manual", text))
Edit(h, from, text) ==
  /\ from \in DOMAIN records /\ text # from
  /\ TakeIn(h, New(text, records[from].kind, "Manual", from))

-----------------------------------------------------------------------------
(* CaptureEngine::capture: the record under the store's lock, then the      *)
(* event under the log's.                                                   *)

Does(h, step) == work[h] # Free /\ work[h].at = step
Fault == errors < MaxErrors /\ errors' = errors + 1

\* upsert_record: the record of the same content is replaced.
Indexes(entry) ==
  /\ records' = [t \in DOMAIN records \cup {entry.text} |->
                   IF t = entry.text THEN entry ELSE records[t]]
  /\ again' = IF entry.text \in DOMAIN records THEN again \cup {entry.text} ELSE again

Store(h) ==
  /\ Does(h, "put") /\ Indexes(work[h].entry)
  /\ work' = [work EXCEPT ![h] = [@ EXCEPT !.at = "append"]]
  /\ UNCHANGED <<log, open, count, errors, untold>>
\* The wrapping or the blob fails, and nothing is left; or the file of the index
\* does, after the record in memory.
StoreFails(h) ==
  /\ Does(h, "put") /\ Fault /\ work' = [work EXCEPT ![h] = Free]
  /\ \/ UNCHANGED <<records, again, untold>>
     \/ Indexes(work[h].entry) /\ untold' = untold \cup {work[h].entry}
  /\ UNCHANGED <<log, open, count>>

\* EventLog::append.  A line that two writes share is read as no event.
Log(h) ==
  /\ Does(h, "append") /\ work' = [work EXCEPT ![h] = Free]
  /\ open' = {}
  /\ IF open = {} THEN log' = log \cup {work[h].entry} /\ UNCHANGED untold
     ELSE log' = log \ open /\ untold' = untold \cup {work[h].entry}
  /\ UNCHANGED <<records, count, errors, again>>
\* Nothing, a part of the line, or the line without its newline is written.
LogFails(h) ==
  /\ Does(h, "append") /\ Fault /\ work' = [work EXCEPT ![h] = Free]
  /\ \/ UNCHANGED <<log, open>>
     \/ open = {} /\ open' = {Part} /\ UNCHANGED log
     \/ open = {} /\ open' = {work[h].entry} /\ log' = log \cup open'
     \/ open # {} /\ open' = {Part} /\ log' = log \ open
  /\ untold' = untold \cup {work[h].entry} /\ UNCHANGED <<records, count, again>>

EntriesNext == \E h \in Handlers :
  \/ \E text \in Texts, sender \in Senders :
       \/ CaptureText(h, text, sender) \/ CaptureUrl(h, text)
       \/ \E kind \in Kinds : CaptureDrop(h, text, kind, sender)
  \/ \E from, text \in Texts : Edit(h, from, text)
  \/ Store(h) \/ StoreFails(h) \/ Log(h) \/ LogFails(h)

EntriesSpec == EntriesInit /\ [][EntriesNext]_entryVars

-----------------------------------------------------------------------------
(* list_entries and list_events.  A list is in the order of time, newest    *)
(* first, so that what it holds is all there is to say of it.               *)

Indexed == {records[t] : t \in DOMAIN records}
FirstOf(set, limit) == {e \in set : Cardinality({o \in set : o.at > e.at}) < limit}
Matching(set, filter, source) ==
  {e \in set : e.kind \in Filters[filter] /\ source \in {"any", e.source}}

BugLimitFirst(filter, source, limit) == Matching(FirstOf(Indexed, limit), filter, source)
ListEntries(filter, source, limit) == FirstOf(Matching(Indexed, filter, source), limit)
ListEvents(filter, source, limit) == Matching(FirstOf(log, limit), filter, source)

-----------------------------------------------------------------------------
\* The versions of a capture lead back, each to one in the index, to one that is
\* no edit or to a content captured more than once: no captures are only versions
\* of one another, unless an edit restored an earlier text.
EditsLeadBack ==
  /\ \A t \in DOMAIN records : records[t].previous \in DOMAIN records \cup {NoText}
  /\ \A circle \in SUBSET DOMAIN records :
       circle # {} /\ (\A t \in circle : records[t].previous \in circle) => circle \cap again # {}

\* The list of captures holds as many as match, up to the limit.  While the log
\* tells no more than the limit, each of them is told by an event listed, unless
\* its event is still to be logged, its write failed, or its event continued a
\* line that a failed write had left.
ListsComplete == \A filter \in DOMAIN Filters, source \in {"any", "Manual", "PeerSync"}, limit \in Limits :
  LET entries == ListEntries(filter, source, limit)
      matching == Matching(Indexed, filter, source)
  IN /\ \A e \in matching \ entries : Cardinality({o \in entries : o.at > e.at}) = limit
     /\ Cardinality(log) <= limit => \A e \in entries :
          \/ e \in ListEvents(filter, source, limit) \/ e \in untold
          \/ \E h \in Handlers : Does(h, "append") /\ work[h].entry = e

=============================================================================
