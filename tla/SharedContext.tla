---------------------------- MODULE SharedContext ----------------------------
(***************************************************************************)
(* The collaboration state of the VM console (aeon-vm/src/session.rs): a   *)
(* base snapshot, patches and messages stamped with a Lamport clock and    *)
(* their author's session.  Consoles edit their own copy and merge copies  *)
(* of others, read from a .ctx file (share, join) or received by the       *)
(* one-shot TCP exchange.  A file may be old by the time it is joined, and *)
(* the reply of an exchange may be lost.                                   *)
(***************************************************************************)
EXTENDS Naturals, FiniteSets, Sequences, Functions

CONSTANTS
  Replicas,    \* the consoles
  SessionOf,   \* the session id of each console, ordered as the strings are
  Slots,       \* registers, pc, call stack entries and heap ranges
  BaseOf,      \* the base snapshot of each console: its slots, at least one, and their values
  MaxEdits,    \* bound: patches and messages made
  MaxRestarts  \* bound: consoles closed and opened again

ASSUME ContextAssumption ==
  /\ SessionOf \in [Replicas -> Nat]
  /\ \A r \in Replicas : DOMAIN BaseOf[r] \in (SUBSET Slots) \ {{}}
  /\ MaxEdits \in Nat /\ MaxRestarts \in Nat

VARIABLES
  patches,   \* per console: its list of patches
  messages,  \* per console: its list of messages
  file,      \* per console: the .ctx file it shared last
  reply,     \* per console: the exchange replies on their way to it
  edits,     \* history: the patches and messages made
  past,      \* history: pairs of an edit and one made knowing it
  restarts   \* consoles closed so far

contextVars == <<patches, messages, file, reply, edits, past, restarts>>

-----------------------------------------------------------------------------
(* Patches and messages.                                                    *)

\* A patch writes one slot, a message none (slot "text"); what it writes is
\* its number, so that no two edits look alike.
Edit == [clock : 1..MaxEdits, author : Range(SessionOf), slot : Slots \cup {"text"},
         nth : 1..MaxEdits]

SameKey(a, b) == a.clock = b.clock /\ a.author = b.author
KeyLess(a, b) == a.clock < b.clock \/ (a.clock = b.clock /\ a.author < b.author)

\* Lamport::zero for an empty list.
MaxClock(s) == CHOOSE m \in {0} \cup {e.clock : e \in Range(s)} :
                 \A e \in Range(s) : e.clock <= m

\* next_clock
NextClock(ps, ms) ==
  IF MaxClock(ps) > MaxClock(ms) THEN MaxClock(ps) + 1 ELSE MaxClock(ms) + 1

-----------------------------------------------------------------------------
(* Snapshots.                                                               *)

\* A snapshot without slots: what is left when a patch does not apply.
Broken == [s \in {} |-> 0]

\* PatchSet::apply writes the new value whatever the old one was, and adds no slot.
Applies(p, base) == p.slot \in DOMAIN base

\* current_snapshot: the patches in the order of the list, so that the last one of
\* a slot remains; none of it when one does not apply.
CurrentSnapshot(base, ps) ==
  IF \E p \in Range(ps) : ~Applies(p, base) THEN Broken
  ELSE [slot \in DOMAIN base |->
          LET written == {i \in DOMAIN ps : ps[i].slot = slot} IN
          IF written = {} THEN base[slot]
          ELSE ps[CHOOSE i \in written : \A j \in written : j <= i].nth]

-----------------------------------------------------------------------------
(* Merging.                                                                 *)

Context(r) == [patches |-> patches[r], messages |-> messages[r]]
Empty == [patches |-> <<>>, messages |-> <<>>]

Unknown(own, remote) == {e \in Range(remote) : \A o \in Range(own) : ~SameKey(o, e)}

\* sort_by_key, of edits with different keys: each has its place by the number of
\* those that come before it.
SortedByKey(S) ==
  [i \in 1..Cardinality(S) |-> CHOOSE e \in S : Cardinality({o \in S : KeyLess(o, e)}) = i - 1]

BugUnsorted(own, remote) == own \o SortedByKey(Unknown(own, remote))  \* not sorted again
BugNewer(own, remote) ==                                 \* only what is newer than ours
  SortedByKey(Range(own) \cup {e \in Range(remote) : e.clock > MaxClock(own)})
\* merge_from, for one of the two lists.
MergeList(own, remote) == SortedByKey(Range(own) \cup Unknown(own, remote))

\* Console r merges context c.
MergeFrom(r, c) ==
  /\ patches' = [patches EXCEPT ![r] = MergeList(@, c.patches)]
  /\ messages' = [messages EXCEPT ![r] = MergeList(@, c.messages)]

-----------------------------------------------------------------------------
ContextInit ==
  /\ patches = [r \in Replicas |-> <<>>]
  /\ messages = [r \in Replicas |-> <<>>]
  /\ file = [r \in Replicas |-> Empty]
  /\ reply = [r \in Replicas |-> {}]
  /\ edits = {} /\ past = {} /\ restarts = 0

NewEdit(r, slot) ==
  [clock |-> NextClock(patches[r], messages[r]), author |-> SessionOf[r],
   slot |-> slot, nth |-> Cardinality(edits) + 1]

Made(r, e) ==
  /\ edits' = edits \cup {e}
  /\ past' = past \cup {<<o, e>> : o \in Range(patches[r]) \cup Range(messages[r])}

\* apply_patch: accepted if it applies to the current snapshot.
ApplyPatchSet(r, slot) ==
  LET e == NewEdit(r, slot) IN
  /\ Cardinality(edits) < MaxEdits
  /\ Applies(e, CurrentSnapshot(BaseOf[r], patches[r]))
  /\ patches' = [patches EXCEPT ![r] = Append(@, e)]
  /\ Made(r, e)
  /\ UNCHANGED <<messages, file, reply, restarts>>

PostMessage(r) ==
  LET e == NewEdit(r, "text") IN
  /\ Cardinality(edits) < MaxEdits
  /\ messages' = [messages EXCEPT ![r] = Append(@, e)]
  /\ Made(r, e)
  /\ UNCHANGED <<patches, file, reply, restarts>>

\* share: the context is written to a file.
Share(r) ==
  /\ file' = [file EXCEPT ![r] = Context(r)]
  /\ UNCHANGED <<patches, messages, reply, edits, past, restarts>>

\* join: console r merges the file that q has shared.
Join(r, q) ==
  /\ MergeFrom(r, file[q])
  /\ UNCHANGED <<file, reply, edits, past, restarts>>

\* exchange_context, first half: q accepts r's context, merges it and answers
\* with the result.
Exchange(r, q) ==
  /\ r # q /\ reply[r] = {}
  /\ MergeFrom(q, Context(r))
  /\ reply' = [reply EXCEPT ![r] = {[patches |-> patches'[q], messages |-> messages'[q]]}]
  /\ UNCHANGED <<file, edits, past, restarts>>

\* Second half: r, which did nothing else meanwhile, merges the answer.
ExchangeReply(r) ==
  \E c \in reply[r] :
    /\ MergeFrom(r, c)
    /\ reply' = [reply EXCEPT ![r] = {}]
    /\ UNCHANGED <<file, edits, past, restarts>>

\* The connection breaks before the answer.
ReplyLost(r) ==
  /\ reply[r] # {}
  /\ reply' = [reply EXCEPT ![r] = {}]
  /\ UNCHANGED <<patches, messages, file, edits, past, restarts>>

\* The console is closed and opened again on its base snapshot: nothing but the
\* shared file is left of its context.
Reopen(r) ==
  /\ restarts < MaxRestarts
  /\ restarts' = restarts + 1
  /\ patches' = [patches EXCEPT ![r] = <<>>]
  /\ messages' = [messages EXCEPT ![r] = <<>>]
  /\ reply' = [reply EXCEPT ![r] = {}]
  /\ UNCHANGED <<file, edits, past>>

\* While r waits for an answer it holds its context and does nothing else.
Free(r) == reply[r] = {}

ContextNext ==
  \/ \E r \in Replicas, slot \in Slots : Free(r) /\ ApplyPatchSet(r, slot)
  \/ \E r \in Replicas : Free(r) /\ (PostMessage(r) \/ Share(r))
  \/ \E r, q \in Replicas : Free(r) /\ Join(r, q)
  \/ \E r, q \in Replicas : Free(q) /\ Exchange(r, q)
  \/ \E r \in Replicas : ExchangeReply(r) \/ ReplyLost(r) \/ Reopen(r)

ContextSpec == ContextInit /\ [][ContextNext]_contextVars

-----------------------------------------------------------------------------
(* Properties.                                                              *)

Known(r) == Range(patches[r]) \cup Range(messages[r])

\* Consoles that know the same patches have them in the same order and, on the
\* same base, compute the same snapshot; and on bases with the same slots every
\* patch applies: however the copies travelled, were repeated, came late or were lost.
Convergence ==
  \A r, q \in Replicas :
    Range(patches[r]) = Range(patches[q]) =>
      /\ patches[r] = patches[q]
      /\ BaseOf[r] = BaseOf[q] =>
           CurrentSnapshot(BaseOf[r], patches[r]) = CurrentSnapshot(BaseOf[q], patches[q])
      /\ (\A p \in Replicas : DOMAIN BaseOf[p] = DOMAIN BaseOf[r]) =>
           CurrentSnapshot(BaseOf[r], patches[r]) # Broken

\* The stamps of the edits.
StampOf(e) == [clock |-> e.clock, author |-> e.author]
StampsOf(S) == {StampOf(e) : e \in S}

\* Until one of them is opened again, whose clock starts over, the consoles
\* implement the edit log: what a console knows grows, a stamp is used once, and
\* whoever knows an edit knows what its author knew when making it.
Log == INSTANCE EditLog WITH
  Nodes <- Replicas,
  Stamp <- [clock : 1..MaxEdits, author : Range(SessionOf)],
  edits <- StampsOf(edits),
  known <- [r \in Replicas |-> StampsOf(Known(r))],
  before <- {<<StampOf(pair[1]), StampOf(pair[2])>> : pair \in past}
LogSpec == Log!LogInit /\ [][restarts' = 0 => Log!LogNext \/ UNCHANGED Log!logVars]_contextVars
=============================================================================
