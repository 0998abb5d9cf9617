-------------------------------- MODULE StoreSync --------------------------------
(***************************************************************************)
(* The blob store of aeon-store (store.rs) and its exchange between        *)
(* devices (sync.rs).  A device announces one blob to a listening one,     *)
(* which asks for it unless it has it; the announcer answers what it is    *)
(* asked until the listener closes the connection.  The listener serves    *)
(* one connection after the other.  No step has a timeout.                 *)
(***************************************************************************)
EXTENDS Integers, FiniteSets

CONSTANTS
  Listener, Announcers,  \* the devices
  Cids,                  \* the blobs
  MaxCalls, MaxHarm      \* bounds: announcements; crashes, cut connections, lost files

ASSUME StoreSyncAssumption == Listener \notin Announcers /\ {MaxCalls, MaxHarm} \subseteq Nat

Devices == Announcers \cup {Listener}

VARIABLES
  blob,      \* a device's file of a blob: "absent", "torn" or "whole"
  memory,    \* the blobs a process has read or written itself
  calls,     \* what each announcer does
  serving,   \* the announcer whose connection the listener serves, or Listener
  step,      \* what the listener waits for or does: "next", "data", "file", "stopped"
  made, harm \* counted against their bounds

storeVars == <<blob, memory, calls, serving, step, made, harm>>

\* at is what the announcer's connection carries last, or how announce_to ended;
\* had: the listener said it had the blob, spoilt: harm was done since the call.
Call(at, c) == [at |-> at, cid |-> c, had |-> FALSE, spoilt |-> FALSE]
Ended == {"rest", "done", "failed"}

StoreSyncInit ==
  /\ blob \in [Devices -> [Cids -> {"absent", "torn", "whole"}]]
  /\ memory = [d \in Devices |-> {}] /\ \E c \in Cids : calls = [a \in Announcers |-> Call("rest", c)]
  /\ serving = Listener /\ step = "next" /\ made = 0 /\ harm = 0

Has(d, c) == c \in memory[d] \/ blob[d][c] # "absent"
CallAt(a, at) == calls[a].at = at
Goes(a, at) == calls' = [calls EXCEPT ![a].at = at]
Remember(d, c) == memory' = [memory EXCEPT ![d] = @ \cup {c}]

\* announce_to: Have is sent at once; it waits when the listener serves another.
Announce(a, c) ==
  /\ calls[a].at \in Ended /\ serving # a /\ made < MaxCalls /\ made' = made + 1
  /\ Has(a, c) /\ step # "stopped" /\ calls' = [calls EXCEPT ![a] = Call("have", c)]
  /\ UNCHANGED <<blob, memory, serving, step, harm>>

\* handle_have; with nothing to ask for the connection is closed.
BugDirectoryOnly(c) == \A any \in Cids : ~Has(Listener, any)
Missing(c) == ~Has(Listener, c)
ReadHave(a) ==
  /\ step = "next" /\ CallAt(a, "have")
  /\ IF Missing(calls[a].cid) THEN Goes(a, "want") /\ serving' = a /\ step' = "data"
     ELSE calls' = [calls EXCEPT ![a].at = "closed", ![a].had = TRUE] /\ UNCHANGED <<serving, step>>
  /\ UNCHANGED <<blob, memory, made, harm>>

\* CIDStore::get: an absent blob is not answered, a damaged one ends the call.
BugSilent(a) ==
  /\ CallAt(a, "want")
  /\ IF calls[a].cid \in memory[a] \/ blob[a][calls[a].cid] = "whole"
     THEN Goes(a, "data") /\ Remember(a, calls[a].cid) ELSE Goes(a, "silent") /\ UNCHANGED memory
  /\ UNCHANGED <<blob, serving, step, made, harm>>
ReadWant(a) ==
  /\ CallAt(a, "want")
  /\ LET c == calls[a].cid
     IN CASE c \in memory[a] \/ blob[a][c] = "whole" -> Goes(a, "data") /\ Remember(a, c)
          [] c \notin memory[a] /\ blob[a][c] = "absent" -> Goes(a, "silent") /\ UNCHANGED memory
          [] c \notin memory[a] /\ blob[a][c] = "torn" -> Goes(a, "failed") /\ UNCHANGED memory
  /\ UNCHANGED <<blob, serving, step, made, harm>>

\* CIDStore::put writes only a file that is not there; then the blob is known.
OpenBlob(a) ==
  /\ serving = a /\ step = "data" /\ CallAt(a, "data")
  /\ IF blob[Listener][calls[a].cid] = "absent"
     THEN blob' = [blob EXCEPT ![Listener][calls[a].cid] = "torn"] /\ step' = "file"
     ELSE UNCHANGED blob /\ step' = "known"
  /\ UNCHANGED <<memory, calls, serving, made, harm>>
WriteBlob(a) ==
  /\ serving = a /\ step = "file" /\ blob[Listener][calls[a].cid] = "torn"
  /\ blob' = [blob EXCEPT ![Listener][calls[a].cid] = "whole"] /\ step' = "known"
  /\ UNCHANGED <<memory, calls, serving, made, harm>>
Served(a) ==
  /\ serving = a /\ step = "known" /\ Remember(Listener, calls[a].cid)
  /\ Goes(a, IF CallAt(a, "data") THEN "closed" ELSE "failed") /\ serving' = Listener /\ step' = "next"
  /\ UNCHANGED <<blob, made, harm>>

\* The announcer reads the end of the connection; the listener does when an
\* announcer failed.
ReadEnd(a) ==
  \/ CallAt(a, "closed") /\ Goes(a, "done") /\ UNCHANGED <<blob, memory, serving, step, made, harm>>
  \/ /\ serving = a /\ step = "data" /\ CallAt(a, "failed")
     /\ serving' = Listener /\ step' = "next" /\ UNCHANGED <<blob, memory, calls, made, harm>>

-----------------------------------------------------------------------------
Harm == harm < MaxHarm /\ harm' = harm + 1
Spoil(at) == calls' = [a \in Announcers |-> [calls[a] EXCEPT !.spoilt = TRUE,
                         !.at = IF @ \in Ended THEN @ ELSE at[a]]]
Same == [a \in Announcers |-> calls[a].at]

\* A connection breaks: both ends get an error, and listen_forever ends with its.
Break(a) ==
  /\ calls[a].at \notin Ended /\ Harm /\ Spoil([Same EXCEPT ![a] = "failed"])
  /\ IF serving = a \/ (CallAt(a, "have") /\ step = "next") THEN serving' = Listener /\ step' = "stopped"
     ELSE UNCHANGED <<serving, step>>
  /\ UNCHANGED <<blob, memory, made>>
\* A process ends in the middle of what it does; the listener is started again.
CrashListener ==
  /\ Harm /\ memory' = [memory EXCEPT ![Listener] = {}] /\ serving' = Listener /\ step' = "next"
  /\ Spoil([a \in Announcers |-> "failed"]) /\ UNCHANGED <<blob, made>>
\* Nobody serves what waited for a listener that ended.
Refused(a) ==
  /\ step = "stopped" /\ calls[a].at \notin Ended \cup {"closed"} /\ Goes(a, "failed")
  /\ UNCHANGED <<blob, memory, serving, step, made, harm>>
CrashAnnouncer(a) ==
  /\ Harm /\ calls[a].at \notin Ended /\ memory' = [memory EXCEPT ![a] = {}]
  /\ Spoil([Same EXCEPT ![a] = "failed"])
  /\ UNCHANGED <<blob, serving, step, made>>
\* Someone removes a file of a store.
Lose(d, c) ==
  /\ Harm /\ blob[d][c] # "absent" /\ blob' = [blob EXCEPT ![d][c] = "absent"] /\ Spoil(Same)
  /\ UNCHANGED <<memory, serving, step, made>>

StoreSyncNext ==
  \/ CrashListener \/ \E d \in Devices, c \in Cids : Lose(d, c)
  \/ \E a \in Announcers :
       \/ \E c \in Cids : Announce(a, c)
       \/ ReadHave(a) \/ ReadWant(a) \/ OpenBlob(a) \/ WriteBlob(a) \/ Served(a) \/ ReadEnd(a)
       \/ Break(a) \/ Refused(a) \/ CrashAnnouncer(a)

StoreSyncSpec == StoreSyncInit /\ [][StoreSyncNext]_storeVars

-----------------------------------------------------------------------------
\* An announcement that ended well, with nothing going wrong on the way, leaves
\* the listener with a blob it can read, unless it said it had the blob and its
\* file was cut short by a crash before: such a file is taken for the blob for ever.
DoneMeansKnown == \A a \in Announcers :
  LET c == calls[a].cid
  IN CallAt(a, "done") /\ ~calls[a].spoilt =>
       \/ c \in memory[Listener] \/ blob[Listener][c] = "whole"
       \/ calls[a].had /\ blob[Listener][c] = "torn"

\* Both ends wait for each other only when the announcer's file went away
\* between its announcement and the answer.
BothWaitOnlyIfLost == \A a \in Announcers :
  serving = a /\ step = "data" /\ CallAt(a, "silent") => calls[a].spoilt

\* An announcement nothing interferes with ends, and ends with the blob at both
\* devices.
ExchangeEnds == DoneMeansKnown /\ BothWaitOnlyIfLost

=============================================================================
