------------------------------ MODULE StoreProofs ------------------------------
(***************************************************************************)
(* Proofs about what the programs around the capture engine keep: the      *)
(* exchange of blobs (StoreSync), the JSON stores (JsonStores), the        *)
(* samplers (Polls), the shared folder (SharedFolder), the watcher of      *)
(* screenshots (ShotWatch) and the captures that are edited and listed     *)
(* (Entries), for all constants.                                           *)
(***************************************************************************)
EXTENDS StoreSync, JsonStores, Polls, SharedFolder, ShotWatch, Entries, SequenceTheorems,
        FiniteSetTheorems, WellFoundedInduction, TLAPS

IsContent(c) ==
  /\ c = [entries |-> c.entries, default |-> c.default]
  /\ c.entries = [k \in Keys |-> c.entries[k]]

\* The default is an entry, and there is one as soon as there are entries.
DefaultFits(c) ==
  \/ c.default = None /\ \A k \in Keys : c.entries[k] = None
  \/ c.default \in Keys /\ c.entries[c.default] # None

\* Content c has what was tried.
Holds(c) == \A k \in Keys : tried[k] # None => c.entries[k] = tried[k]

Forms ==
  /\ at \in {"down", "up", "filling"} /\ unsaved \in BOOLEAN
  /\ IsContent(doc) /\ IsContent(disk.doc)
  /\ disk = [how |-> disk.how, doc |-> disk.doc]
  /\ tried = [k \in Keys |-> tried[k]]

\* The process holds all that was tried; the file does unless it is being written
\* or the last write was lost; and then the two differ in nothing.
JsonInv ==
  /\ Forms
  /\ kind = "registry" => DefaultFits(doc) /\ DefaultFits(disk.doc)
  /\ at # "down" => Holds(doc)
  /\ at # "filling" /\ unsaved = FALSE =>
       \A k \in Keys : tried[k] # None => disk.how = "whole" /\ disk.doc.entries[k] = tried[k]
  /\ at = "up" /\ unsaved = FALSE /\ kind = "registry" =>
       disk.doc = doc \/ \A k \in Keys : doc.entries[k] = None

\* The empty content is one, and its default fits.
LEMMA NothingFits == IsContent(Nothing) /\ DefaultFits(Nothing) /\ \A k \in Keys : Nothing.entries[k] = None
  <1>1. Nothing.entries = [k \in Keys |-> None] /\ Nothing.default = None
    BY DEF Nothing
  <1>2. Nothing = [entries |-> Nothing.entries, default |-> Nothing.default]
    BY DEF Nothing
  <1> QED BY <1>1, <1>2 DEF IsContent, DefaultFits

\* A content whose default fits is normal.
LEMMA FitsNormal == ASSUME NEW c, DefaultFits(c) PROVE Normal(c) = c
  BY DEF Normal, DefaultFits

\* A normal content has the entries of the other.
LEMMA NormalEntries ==
  ASSUME NEW c, IsContent(c)
  PROVE  IsContent(Normal(c)) /\ Normal(c).entries = c.entries
  <1>1. CASE Normal(c) = c
    BY <1>1
  <1>2. CASE Normal(c) = [c EXCEPT !.default = None]
    <2>1. Normal(c) = [entries |-> c.entries, default |-> None]
      BY <1>2 DEF IsContent
    <2> HIDE DEF Normal
    <2> QED BY <2>1 DEF IsContent
  <1> QED BY <1>1, <1>2 DEF Normal

\* A change of the document that keeps it fit and holding keeps the invariant.
LEMMA ChangeKeeps ==
  ASSUME JsonInv, NEW c, Change(c), IsContent(c),
         tried' = [k \in Keys |-> tried'[k]],
         \A k \in Keys : tried'[k] # None => c.entries[k] = tried'[k],
         kind = "registry" => DefaultFits(c)
  PROVE  JsonInv'
  <1>1. at = "up" /\ doc' = c /\ kind' = kind
    BY DEF Change
  <1>2. /\ disk' = [how |-> disk'.how, doc |-> disk.doc] /\ disk'.doc = disk.doc
        /\ \/ at' = "filling" /\ unsaved' = unsaved
           \/ at' = "up" /\ unsaved' = TRUE
    <2>1. CASE Saving /\ unsaved' = unsaved
      <3>1. disk' = [disk EXCEPT !.how = "empty"]
        BY <2>1 DEF Saving
      <3>2. disk' = [how |-> "empty", doc |-> disk.doc]
        BY <3>1 DEF JsonInv, Forms
      <3> QED BY <2>1, <3>2 DEF Saving
    <2>2. CASE unsaved' = TRUE /\ UNCHANGED <<at, disk>>
      BY <1>1, <2>2 DEF JsonInv, Forms
    <2> QED BY <2>1, <2>2 DEF Change
  <1>3. Forms'
    BY <1>1, <1>2 DEF JsonInv, Forms
  <1>4. (kind = "registry" => DefaultFits(doc) /\ DefaultFits(disk.doc))'
    BY <1>1, <1>2 DEF JsonInv, DefaultFits
  <1>5. (at # "down" => Holds(doc))'
    BY <1>1 DEF Holds
  <1> QED BY <1>2, <1>3, <1>4, <1>5 DEF JsonInv

\* Every step keeps the invariant.
LEMMA JsonStep == JsonInv /\ [JsonNext]_jsonVars => JsonInv'
  <1> SUFFICES ASSUME JsonInv, [JsonNext]_jsonVars PROVE JsonInv'
    OBVIOUS
  <1>1. CASE UNCHANGED jsonVars
    BY <1>1 DEF jsonVars, JsonInv, Forms, Holds, DefaultFits
  <1>2. CASE StartUp
    <2>1. /\ at' = "up" /\ unsaved' = FALSE /\ doc' = Normal(Read) /\ tried' = Read.entries
          /\ UNCHANGED <<kind, disk>>
      BY <1>2 DEF StartUp
    <2>2. IsContent(Read) /\ (kind = "registry" => DefaultFits(Read))
      BY NothingFits DEF JsonInv, Forms, Read
    <2>3. IsContent(doc') /\ doc'.entries = Read.entries /\ (kind = "registry" => doc' = Read)
      BY <2>1, <2>2, FitsNormal, NormalEntries
    <2>4. \/ disk.how = "whole" /\ Read = disk.doc
          \/ Read = Nothing
      BY DEF Read
    <2> HIDE DEF Read
    <2>5. Forms'
      BY <2>1, <2>2, <2>3 DEF JsonInv, Forms, IsContent
    <2>6. (kind = "registry" => DefaultFits(doc) /\ DefaultFits(disk.doc))'
      BY <2>1, <2>2, <2>3 DEF JsonInv, DefaultFits
    <2>7. Holds(doc)'
      BY <2>1, <2>3 DEF Holds
    <2>8. (\A k \in Keys : tried[k] # None => disk.how = "whole" /\ disk.doc.entries[k] = tried[k])'
      BY <2>1, <2>4, NothingFits
    <2>9. (kind = "registry" => disk.doc = doc \/ \A k \in Keys : doc.entries[k] = None)'
      BY <2>1, <2>3, <2>4, NothingFits
    <2> QED BY <2>1, <2>5, <2>6, <2>7, <2>8, <2>9 DEF JsonInv
  <1>3. ASSUME NEW v \in Values, NewIdentity(v) PROVE JsonInv'
    <2>1. /\ kind = "identity" /\ kind' = kind /\ unsaved' = unsaved /\ at' = "filling"
          /\ disk' = [disk EXCEPT !.how = "empty"] /\ tried' = doc'.entries
          /\ doc' = [Nothing EXCEPT !.entries = [k \in Keys |-> v]]
      BY <1>3 DEF NewIdentity, Saving
    <2>2. doc' = [entries |-> [k \in Keys |-> v], default |-> None]
      BY <2>1 DEF Nothing
    <2>3. IsContent(doc')
      BY <2>2 DEF IsContent
    <2>4. disk' = [how |-> "empty", doc |-> disk.doc]
      BY <2>1 DEF JsonInv, Forms
    <2>5. Forms'
      BY <2>1, <2>3, <2>4 DEF JsonInv, Forms, IsContent
    <2> QED BY <2>1, <2>5 DEF JsonInv, Holds
  <1>4. ASSUME NEW v \in Values, NEW k \in Keys, Update(k, v) PROVE JsonInv'
    <2> DEFINE c == Updated(k, v)
    <2>1. Change(c) /\ tried' = [tried EXCEPT ![k] = v] /\ at = "up"
      BY <1>4 DEF Update, Change
    <2>2. tried' = [j \in Keys |-> IF j = k THEN v ELSE tried[j]]
      BY <2>1 DEF JsonInv, Forms
    <2>3. /\ c = [entries |-> c.entries, default |-> c.default]
          /\ c.entries = [j \in Keys |-> IF j = k THEN v ELSE doc.entries[j]]
      BY DEF Updated, JsonInv, Forms, IsContent
    <2>4. ASSUME kind = "registry" PROVE DefaultFits(c)
      <3>1. v # None
        BY JsonAssumption DEF None
      <3>2. CASE doc.default # None
        <4>1. c.default = doc.default
          BY <3>2 DEF Updated
        <4>2. doc.default \in Keys /\ doc.entries[doc.default] # None
          BY <2>4, <3>2 DEF JsonInv, DefaultFits
        <4> HIDE DEF c
        <4> QED BY <2>3, <3>1, <4>1, <4>2 DEF DefaultFits
      <3>3. CASE doc.default = None
        <4>1. \A j \in Keys : doc.entries[j] = None
          <5>1. None \notin Keys
            BY JsonAssumption DEF None
          <5> QED BY <2>4, <3>3, <5>1 DEF JsonInv, DefaultFits
        <4>2. Given \cup {k} = {k}
          BY <4>1 DEF Given
        <4>3. Lowest({k}) = k
          <5>1. k \in Int /\ k <= k
            BY JsonAssumption
          <5> QED BY <5>1 DEF Lowest
        <4>4. c.default = k
          BY <2>4, <3>3, <4>2, <4>3 DEF Updated
        <4> HIDE DEF c
        <4> QED BY <2>3, <3>1, <4>4 DEF DefaultFits
      <3> QED BY <3>2, <3>3
    <2> HIDE DEF c
    <2>5. IsContent(c)
      BY <2>3 DEF IsContent
    <2>6. \A j \in Keys : tried'[j] # None => c.entries[j] = tried'[j]
      BY <2>1, <2>2, <2>3 DEF JsonInv, Holds
    <2>7. tried' = [j \in Keys |-> tried'[j]]
      BY <2>2
    <2> QED BY <2>1, <2>4, <2>5, <2>6, <2>7, ChangeKeeps
  <1>5. ASSUME NEW k \in Keys, SetDefault(k) PROVE JsonInv'
    <2> DEFINE c == [doc EXCEPT !.default = k]
    <2>1. Change(c) /\ tried' = tried /\ at = "up" /\ k \in Given
      BY <1>5 DEF SetDefault, Change
    <2>2. c = [entries |-> doc.entries, default |-> k]
      BY DEF JsonInv, Forms, IsContent
    <2> HIDE DEF c
    <2>3. IsContent(c) /\ DefaultFits(c)
      BY <2>1, <2>2 DEF JsonInv, Forms, IsContent, DefaultFits, Given
    <2>4. \A j \in Keys : tried'[j] # None => c.entries[j] = tried'[j]
      BY <2>1, <2>2 DEF JsonInv, Holds
    <2>5. tried' = [j \in Keys |-> tried'[j]]
      BY <2>1 DEF JsonInv, Forms
    <2> QED BY <2>1, <2>3, <2>4, <2>5, ChangeKeeps
  <1>6. CASE Fill
    <2>1. /\ at = "filling" /\ at' = "up" /\ disk' = [how |-> "whole", doc |-> doc] /\ unsaved' = FALSE
          /\ UNCHANGED <<kind, doc, tried>>
      BY <1>6 DEF Fill
    <2>2. Forms'
      BY <2>1 DEF JsonInv, Forms
    <2>3. Holds(doc)' /\ (kind = "registry" => DefaultFits(doc))'
      BY <2>1 DEF JsonInv, Holds, DefaultFits
    <2> QED BY <2>1, <2>2, <2>3 DEF JsonInv, Holds
  <1>7. CASE FillFails \/ (GoDown /\ at = "filling")
    <2>1. /\ at' \in {"up", "down"} /\ at = "filling" /\ unsaved' = TRUE
          /\ UNCHANGED <<kind, doc, tried>>
      BY <1>7 DEF FillFails, GoDown
    <2>2. disk' = [how |-> disk'.how, doc |-> disk.doc]
      <3>1. disk' = disk \/ disk' = [disk EXCEPT !.how = "part"]
        BY <1>7 DEF FillFails, GoDown
      <3> QED BY <3>1 DEF JsonInv, Forms
    <2>3. disk'.doc = disk.doc
      BY <2>2
    <2>4. Forms'
      BY <2>1, <2>2, <2>3 DEF JsonInv, Forms
    <2>5. (at # "down" => Holds(doc))' /\ (kind = "registry" => DefaultFits(doc) /\ DefaultFits(disk.doc))'
      BY <2>1, <2>3 DEF JsonInv, Holds, DefaultFits
    <2> QED BY <2>1, <2>4, <2>5 DEF JsonInv
  <1>8. CASE GoDown /\ at # "filling"
    <2>1. /\ at' = "down" /\ at # "filling" /\ UNCHANGED <<kind, doc, tried, disk>>
      BY <1>8 DEF GoDown
    <2>2. unsaved' = unsaved
      <3>1. unsaved' = (unsaved \/ at = "filling") /\ at # "filling" /\ unsaved \in BOOLEAN
        BY <1>8 DEF GoDown, JsonInv, Forms
      <3> QED BY <3>1, Zenon
    <2>3. Forms' /\ (kind = "registry" => DefaultFits(doc) /\ DefaultFits(disk.doc))'
      BY <2>1, <2>2 DEF JsonInv, Forms, DefaultFits
    <2> QED BY <2>1, <2>2, <2>3 DEF JsonInv
  <1> QED BY <1>1, <1>2, <1>3, <1>4, <1>5, <1>6, <1>7, <1>8 DEF JsonNext

\* Unless the last write was lost, the file holds what was last given to every
\* key, and a registry with accounts has one of them as its default, for any
\* number of keys and values and any updates, failures and restarts.
THEOREM UpdatesAreKept == JsonSpec => []UpdatesKept
  <1>1. JsonInit => JsonInv
    <2> SUFFICES ASSUME JsonInit PROVE JsonInv
      OBVIOUS
    <2>1. /\ disk = [how |-> "absent", doc |-> Nothing] /\ doc = Nothing /\ at = "down"
          /\ tried = Nothing.entries /\ unsaved = FALSE
      BY DEF JsonInit
    <2>2. tried = [k \in Keys |-> None]
      BY <2>1 DEF Nothing
    <2>3. disk.doc = Nothing /\ disk.how = "absent"
      BY <2>1
    <2>4. Forms
      BY <2>1, <2>2, <2>3, NothingFits DEF Forms
    <2> QED BY <2>1, <2>2, <2>3, <2>4, NothingFits DEF JsonInv
  <1>2. JsonInv => UpdatesKept
    <2> SUFFICES ASSUME JsonInv, at # "filling", ~unsaved PROVE
           /\ \A k \in Keys : tried[k] # None => disk.how = "whole" /\ disk.doc.entries[k] = tried[k]
           /\ at = "up" /\ kind = "registry" /\ Given # {} => disk.doc.default \in Given
      BY DEF UpdatesKept
    <2>1. unsaved = FALSE
      <3>1. unsaved \in BOOLEAN
        BY DEF JsonInv, Forms
      <3> QED BY <3>1, Zenon
    <2>2. \A k \in Keys : tried[k] # None => disk.how = "whole" /\ disk.doc.entries[k] = tried[k]
      BY <2>1 DEF JsonInv
    <2>3. ASSUME at = "up", kind = "registry", Given # {} PROVE disk.doc.default \in Given
      <3>1. disk.doc = doc
        BY <2>1, <2>3 DEF JsonInv, Given
      <3>2. DefaultFits(doc)
        BY <2>3 DEF JsonInv
      <3> QED BY <2>3, <3>1, <3>2 DEF DefaultFits, Given
    <2> QED BY <2>2, <2>3
  <1> QED BY <1>1, <1>2, JsonStep, PTL DEF JsonSpec

\* The signature remembered is that of a value seen; what was captured was seen;
\* and a value that was seen is captured, dropped or taken for another.
PollInv ==
  /\ seen \subseteq Samples
  /\ mark = NoMark \/ \E v \in seen : MarkOf(v) = mark
  /\ \A e \in kept : \E v \in seen : e = Entry(v)
  /\ \A v \in seen : Entry(v) \in kept \/ v \in dropped
                     \/ \E other \in seen \ {v} : MarkOf(other) = MarkOf(v)

\* A tick keeps PollInv: a value passed over is the last one, or has its signature.
LEMMA ComparedKeeps ==
  ASSUME PollInv, NEW v \in Samples, Compared(v)
  PROVE  PollInv'
  <1>1. /\ seen' = seen \cup {v} /\ mark' = MarkOf(v) /\ source' = source
        /\ kept \subseteq kept' /\ dropped \subseteq dropped'
    BY DEF Compared
  <1>2. \A w : MarkOf(w)' = MarkOf(w) /\ Entry(w)' = Entry(w)
    BY <1>1 DEF MarkOf, Entry
  <1>3. MarkOf(v) # NoMark
    BY PollsAssumption DEF MarkOf, NoMark
  <1> USE DEF PollInv
  <1>4. \A e \in kept' : \E w \in seen' : e = Entry(w)
    BY <1>1 DEF Compared
  <1>5. Entry(v) \in kept' \/ v \in dropped' \/ \E other \in seen' \ {v} : MarkOf(other) = MarkOf(v)
    <2>1. CASE MarkOf(v) # mark
      BY <1>1, <2>1 DEF Compared
    <2>2. CASE MarkOf(v) = mark
      <3>1. PICK w \in seen : MarkOf(w) = mark
        BY <1>3, <2>2
      <3>2. CASE w = v
        BY <1>1, <3>1, <3>2
      <3>3. CASE w # v
        BY <1>1, <2>2, <3>1, <3>3
      <3> QED BY <3>2, <3>3
    <2> QED BY <2>1, <2>2
  <1>6. \A w \in seen' : Entry(w) \in kept' \/ w \in dropped'
                         \/ \E other \in seen' \ {w} : MarkOf(other) = MarkOf(w)
    <2> SUFFICES ASSUME NEW w \in seen'
                 PROVE  Entry(w) \in kept' \/ w \in dropped'
                        \/ \E other \in seen' \ {w} : MarkOf(other) = MarkOf(w)
      OBVIOUS
    <2>1. CASE w = v
      BY <1>5, <2>1
    <2>2. CASE w \in seen
      BY <1>1, <2>2
    <2> QED BY <1>1, <2>1, <2>2
  <1>7. v \in seen' /\ seen' \subseteq Samples
    BY <1>1
  <1> QED BY <1>1, <1>2, <1>4, <1>6, <1>7

\* A value is missed only when its capture failed or another has its signature,
\* and a typed text is stored in clear only where it is known to be harmless, for
\* any values, signatures and monitors.
THEOREM SamplesAreRecorded == PollSpec => []SamplesRecorded
  <1>1. PollInit => PollInv
    BY DEF PollInit, PollInv
  <1>2. PollInv /\ [PollNext]_pollVars => PollInv'
    <2> SUFFICES ASSUME PollInv, [PollNext]_pollVars PROVE PollInv'
      OBVIOUS
    <2>1. CASE PollNext
      BY <2>1, ComparedKeeps DEF PollNext, Clipboard, Foreground, Typing
    <2>2. CASE UNCHANGED pollVars
      BY <2>2 DEF PollInv, pollVars, MarkOf, Entry
    <2> QED BY <2>1, <2>2
  <1>3. PollInv => SamplesRecorded
    <2> SUFFICES ASSUME PollInv PROVE SamplesRecorded
      OBVIOUS
    <2>1. ASSUME source = "typing", NEW e \in kept, e.body # Redacted
          PROVE  \E v \in seen : v.body = e.body /\ v.mark = e.mark /\ v.plain = "yes"
      <3>1. PICK v \in seen : e = Entry(v)
        BY DEF PollInv
      <3>2. e.body = ForStorage(v) /\ e.mark = v.mark
        BY <2>1, <3>1 DEF Entry
      <3> QED BY <2>1, <3>1, <3>2 DEF ForStorage
    <2> QED BY <2>1 DEF PollInv, SamplesRecorded
  <1> QED BY <1>1, <1>2, <1>3, PTL DEF PollSpec

StoresForm ==
  /\ blob \in [Devices -> [Cids -> {"absent", "torn", "whole"}]]
  /\ memory = [d \in Devices |-> memory[d]]

IsCall(x) ==
  /\ x = [at |-> x.at, cid |-> x.cid, had |-> x.had, spoilt |-> x.spoilt]
  /\ x.cid \in Cids /\ x.spoilt \in BOOLEAN

\* What an announcement that ended well promises of the listener.
Settled(c, had) ==
  \/ c \in memory[Listener] \/ blob[Listener][c] = "whole"
  \/ had = TRUE /\ blob[Listener][c] = "torn"

\* While nothing goes wrong the announcer has what it announced, and answers.
CallInv(a) ==
  calls[a].spoilt = FALSE =>
    /\ calls[a].at \in {"have", "want"} => Has(a, calls[a].cid)
    /\ calls[a].at # "silent"
    /\ calls[a].at \in {"closed", "done"} => Settled(calls[a].cid, calls[a].had)

ExchangeInv ==
  /\ StoresForm
  /\ calls = [a \in Announcers |-> calls[a]]
  /\ \A a \in Announcers : IsCall(calls[a]) /\ CallInv(a)

\* No device loses a blob or the knowledge of one.
Grows ==
  \A d \in Devices :
    /\ memory[d] \subseteq memory'[d]
    /\ \A c \in Cids : /\ blob[d][c] = "whole" => blob'[d][c] = "whole"
                       /\ blob[d][c] = "torn" => blob'[d][c] \in {"torn", "whole"}

\* Then what a call promises stays true.
LEMMA GrowsCall ==
  ASSUME ExchangeInv, Grows, StoresForm', NEW a \in Announcers, calls'[a] = calls[a]
  PROVE  IsCall(calls[a])' /\ CallInv(a)'
  <1>1. IsCall(calls[a]) /\ CallInv(a) /\ calls[a].cid \in Cids
    BY DEF ExchangeInv, IsCall
  <1>2. a \in Devices /\ Listener \in Devices
    BY DEF Devices
  <1>3. Has(a, calls[a].cid) => Has(a, calls[a].cid)'
    <2>1. blob[a][calls[a].cid] \in {"absent", "torn", "whole"}
      BY <1>1, <1>2 DEF ExchangeInv, StoresForm
    <2> QED BY <1>1, <1>2, <2>1 DEF Grows, Has
  <1>4. Settled(calls[a].cid, calls[a].had) => Settled(calls[a].cid, calls[a].had)'
    BY <1>1, <1>2 DEF Grows, Settled
  <1>5. IsCall(calls'[a])
    BY <1>1
  <1> QED BY <1>1, <1>3, <1>4, <1>5 DEF CallInv, IsCall

\* A step of one call that keeps its own promise keeps the invariant.
LEMMA MoveKeeps ==
  ASSUME ExchangeInv, Grows, StoresForm', NEW a \in Announcers, NEW x,
         calls' = [calls EXCEPT ![a] = x], IsCall(x), CallInv(a)'
  PROVE  ExchangeInv'
  <1>1. calls' = [b \in Announcers |-> IF b = a THEN x ELSE calls[b]]
    BY DEF ExchangeInv
  <1>2. ASSUME NEW b \in Announcers PROVE IsCall(calls'[b]) /\ CallInv(b)'
    <2>1. CASE b = a
      BY <1>1, <2>1
    <2>2. CASE b # a
      <3>1. calls'[b] = calls[b]
        BY <1>1, <2>2
      <3> QED BY <3>1, GrowsCall DEF IsCall
    <2> QED BY <2>1, <2>2
  <1>3. calls' = [b \in Announcers |-> calls'[b]]
    BY <1>1
  <1> QED BY <1>2, <1>3 DEF ExchangeInv, IsCall

\* A call that goes on is a call.
LEMMA GoesOn ==
  ASSUME ExchangeInv, NEW a \in Announcers, NEW next, Goes(a, next)
  PROVE  LET x == [at |-> next, cid |-> calls[a].cid, had |-> calls[a].had, spoilt |-> calls[a].spoilt]
         IN calls' = [calls EXCEPT ![a] = x] /\ calls'[a] = x /\ IsCall(x)
  <1>1. IsCall(calls[a])
    BY DEF ExchangeInv
  <1>2. [calls[a] EXCEPT !.at = next]
          = [at |-> next, cid |-> calls[a].cid, had |-> calls[a].had, spoilt |-> calls[a].spoilt]
    BY <1>1 DEF IsCall
  <1>3. calls' = [calls EXCEPT ![a] = [calls[a] EXCEPT !.at = next]]
    BY DEF Goes
  <1>4. IsCall([at |-> next, cid |-> calls[a].cid, had |-> calls[a].had, spoilt |-> calls[a].spoilt])
    BY <1>1 DEF IsCall
  <1>5. a \in DOMAIN calls
    BY DEF ExchangeInv
  <1> QED BY <1>2, <1>3, <1>4, <1>5

\* It stays one about the same blob.
LEMMA GoesOnAbout ==
  ASSUME ExchangeInv, NEW a \in Announcers, NEW next, Goes(a, next)
  PROVE  /\ calls'[a].at = next /\ calls'[a].cid = calls[a].cid /\ calls'[a].had = calls[a].had
         /\ calls'[a].spoilt = calls[a].spoilt
  <1> DEFINE x == [at |-> next, cid |-> calls[a].cid, had |-> calls[a].had, spoilt |-> calls[a].spoilt]
  <1>1. calls'[a] = x
    BY GoesOn
  <1> QED BY <1>1

\* Harm spoils every call, so that none promises anything.
LEMMA SpoilKeeps ==
  ASSUME ExchangeInv, NEW next, Spoil(next), StoresForm'
  PROVE  ExchangeInv'
  <1>1. calls' = [a \in Announcers |-> [calls[a] EXCEPT !.spoilt = TRUE,
                                         !.at = IF @ \in Ended THEN @ ELSE next[a]]]
    BY DEF Spoil
  <1>2. ASSUME NEW a \in Announcers PROVE IsCall(calls'[a]) /\ calls'[a].spoilt = TRUE
    <2>1. IsCall(calls[a])
      BY DEF ExchangeInv
    <2>2. calls'[a] = [calls[a] EXCEPT !.spoilt = TRUE,
                        !.at = IF calls[a].at \in Ended THEN calls[a].at ELSE next[a]]
      BY <1>1, <2>1 DEF IsCall
    <2>3. calls'[a] = [at |-> IF calls[a].at \in Ended THEN calls[a].at ELSE next[a],
                       cid |-> calls[a].cid, had |-> calls[a].had, spoilt |-> TRUE]
      BY <2>1, <2>2 DEF IsCall
    <2> QED BY <2>1, <2>3 DEF IsCall
  <1>3. calls' = [a \in Announcers |-> calls'[a]]
    BY <1>1
  <1>4. \A a \in Announcers : CallInv(a)'
    BY <1>2 DEF CallInv
  <1> QED BY <1>2, <1>3, <1>4 DEF ExchangeInv, IsCall

\* A device that learns of a blob keeps the form of the stores.
LEMMA Remembers ==
  ASSUME ExchangeInv, NEW d \in Devices, NEW c, Remember(d, c), UNCHANGED blob
  PROVE  StoresForm' /\ Grows /\ c \in memory'[d]
  <1>1. memory' = [e \in Devices |-> IF e = d THEN memory[d] \cup {c} ELSE memory[e]]
    BY DEF Remember, ExchangeInv, StoresForm
  <1> QED BY <1>1 DEF Grows, ExchangeInv, StoresForm

\* So does one whose stores stay as they are.
LEMMA StoresStay ==
  ASSUME ExchangeInv, UNCHANGED <<blob, memory>>
  PROVE  StoresForm' /\ Grows
  BY DEF Grows, ExchangeInv, StoresForm

\* And one that forgets what it knew.
LEMMA Forgets ==
  ASSUME ExchangeInv, NEW d \in Devices, memory' = [memory EXCEPT ![d] = {}], UNCHANGED blob
  PROVE  StoresForm'
  BY DEF ExchangeInv, StoresForm

\* The second field the asker's answer sets.
LEMMA HadSet ==
  ASSUME NEW p, NEW q, NEW r, NEW s, NEW t, NEW y,
         y = [at |-> p, cid |-> q, had |-> r, spoilt |-> s]
  PROVE  [y EXCEPT !.had = t] = [at |-> p, cid |-> q, had |-> t, spoilt |-> s]
  OBVIOUS

\* Every step keeps the invariant.
LEMMA ExchangeStep == ExchangeInv /\ [StoreSyncNext]_storeVars => ExchangeInv'
  <1> SUFFICES ASSUME ExchangeInv, [StoreSyncNext]_storeVars PROVE ExchangeInv'
    OBVIOUS
  <1>0. Listener \in Devices /\ Announcers \subseteq Devices /\ Listener \notin Announcers
    BY StoreSyncAssumption DEF Devices
  <1>a. ASSUME NEW a \in Announcers, NEW next, Goes(a, next), Grows, StoresForm',
               next \notin {"have", "want", "silent"},
               next \in {"closed", "done"} /\ calls[a].spoilt = FALSE
                 => Settled(calls[a].cid, calls[a].had)'
        PROVE  ExchangeInv'
    <2> DEFINE x == [at |-> next, cid |-> calls[a].cid, had |-> calls[a].had, spoilt |-> calls[a].spoilt]
    <2>1. calls' = [calls EXCEPT ![a] = x] /\ calls'[a] = x /\ IsCall(x)
      BY <1>a, GoesOn
    <2>2. /\ calls'[a].at = next /\ calls'[a].cid = calls[a].cid /\ calls'[a].had = calls[a].had
          /\ calls'[a].spoilt = calls[a].spoilt
      BY <1>a, GoesOnAbout
    <2> HIDE DEF x
    <2>3. next \in {"closed", "done"} /\ calls'[a].spoilt = FALSE => Settled(calls[a].cid, calls[a].had)'
      BY <1>a, <2>2
    <2>4. CallInv(a)'
      BY <1>a, <2>2, <2>3 DEF CallInv, Settled
    <2> QED BY <1>a, <2>1, <2>4, MoveKeeps
  <1>1. CASE UNCHANGED storeVars
    <2>1. UNCHANGED <<blob, memory, calls>>
      BY <1>1 DEF storeVars
    <2>2. \A a \in Announcers : IsCall(calls[a])' /\ CallInv(a)'
      BY <2>1, StoresStay, GrowsCall
    <2> QED BY <2>1, <2>2, StoresStay DEF ExchangeInv
  <1>2. CASE CrashListener
    BY <1>0, <1>2, Forgets, SpoilKeeps DEF CrashListener
  <1>3. ASSUME NEW d \in Devices, NEW c \in Cids, Lose(d, c) PROVE ExchangeInv'
    <2>1. StoresForm'
      BY <1>3 DEF Lose, ExchangeInv, StoresForm
    <2> QED BY <1>3, <2>1, SpoilKeeps DEF Lose
  <1>4. ASSUME NEW a \in Announcers, NEW c \in Cids, Announce(a, c) PROVE ExchangeInv'
    <2> DEFINE x == Call("have", c)
    <2>1. Has(a, c) /\ calls' = [calls EXCEPT ![a] = x] /\ UNCHANGED <<blob, memory>>
      BY <1>4 DEF Announce
    <2>2. IsCall(x) /\ x.at = "have" /\ x.cid = c
      BY DEF IsCall, Call
    <2> HIDE DEF x
    <2>3. calls'[a] = x
      BY <2>1 DEF ExchangeInv
    <2>4. CallInv(a)'
      BY <2>1, <2>2, <2>3 DEF CallInv, Has
    <2> QED BY <2>1, <2>2, <2>4, StoresStay, MoveKeeps
  <1>5. ASSUME NEW a \in Announcers, ReadHave(a) PROVE ExchangeInv'
    <2>1. UNCHANGED <<blob, memory>> /\ calls[a].at = "have"
      BY <1>5 DEF ReadHave, CallAt
    <2>2. IsCall(calls[a]) /\ CallInv(a)
      BY DEF ExchangeInv
    <2>3. CASE Missing(calls[a].cid)
      <3> DEFINE x == [at |-> "want", cid |-> calls[a].cid, had |-> calls[a].had, spoilt |-> calls[a].spoilt]
      <3>1. Goes(a, "want")
        BY <1>5, <2>3 DEF ReadHave
      <3>2. calls' = [calls EXCEPT ![a] = x] /\ calls'[a] = x /\ IsCall(x)
        BY <3>1, GoesOn
      <3>3. CallInv(a)'
        BY <2>1, <2>2, <3>2 DEF CallInv, Has
      <3> HIDE DEF x
      <3> QED BY <2>1, <3>2, <3>3, StoresStay, MoveKeeps
    <2>4. CASE ~Missing(calls[a].cid)
      <3> DEFINE x == [at |-> "closed", cid |-> calls[a].cid, had |-> TRUE, spoilt |-> calls[a].spoilt]
      <3>1. calls' = [calls EXCEPT ![a].at = "closed", ![a].had = TRUE]
        BY <1>5, <2>4 DEF ReadHave
      <3>2. calls' = [calls EXCEPT ![a] = [[calls[a] EXCEPT !.at = "closed"] EXCEPT !.had = TRUE]]
        BY <3>1 DEF ExchangeInv
      <3>3. [[calls[a] EXCEPT !.at = "closed"] EXCEPT !.had = TRUE] = x
        <4> DEFINE y == [calls[a] EXCEPT !.at = "closed"]
        <4>1. y = [at |-> "closed", cid |-> calls[a].cid, had |-> calls[a].had, spoilt |-> calls[a].spoilt]
          BY <2>2 DEF IsCall
        <4> HIDE DEF y
        <4>2. [y EXCEPT !.had = TRUE] = x
          <5>1. \A t : [y EXCEPT !.had = t] = [at |-> "closed", cid |-> calls[a].cid, had |-> t, spoilt |-> calls[a].spoilt]
            BY <4>1, HadSet
          <5> QED BY <5>1, Zenon
        <4> QED BY <4>2 DEF y
      <3>4. calls' = [calls EXCEPT ![a] = x] /\ calls'[a] = x /\ IsCall(x)
        BY <2>2, <3>2, <3>3 DEF ExchangeInv, IsCall
      <3>5. Settled(calls[a].cid, TRUE)
        <4>1. Has(Listener, calls[a].cid)
          BY <2>4 DEF Missing
        <4>2. blob[Listener][calls[a].cid] \in {"absent", "torn", "whole"}
          BY <1>0, <2>2 DEF ExchangeInv, StoresForm, IsCall
        <4> QED BY <4>1, <4>2 DEF Has, Settled
      <3>6. CallInv(a)'
        BY <2>1, <3>4, <3>5 DEF CallInv, Settled
      <3> HIDE DEF x
      <3> QED BY <2>1, <3>4, <3>6, StoresStay, MoveKeeps
    <2> QED BY <2>3, <2>4
  <1>6. ASSUME NEW a \in Announcers, ReadWant(a) PROVE ExchangeInv'
    <2> DEFINE c == calls[a].cid
    <2>1. CallAt(a, "want") /\ UNCHANGED blob
      BY <1>6 DEF ReadWant
    <2>2. IsCall(calls[a]) /\ CallInv(a) /\ c \in Cids
      BY DEF ExchangeInv, IsCall
    <2>3. CASE Goes(a, "data") /\ Remember(a, c)
      BY <1>0, <1>a, <2>1, <2>3, Remembers
    <2>4. CASE Goes(a, "failed") /\ UNCHANGED memory
      BY <1>a, <2>1, <2>4, StoresStay
    <2>5. CASE c \notin memory[a] /\ blob[a][c] = "absent" /\ Goes(a, "silent") /\ UNCHANGED memory
      <3> DEFINE x == [at |-> "silent", cid |-> calls[a].cid, had |-> calls[a].had, spoilt |-> calls[a].spoilt]
      <3>1. calls' = [calls EXCEPT ![a] = x] /\ calls'[a] = x /\ IsCall(x)
        BY <2>5, GoesOn
      <3>2. calls[a].spoilt # FALSE
        BY <2>1, <2>2, <2>5 DEF CallInv, CallAt, Has
      <3>3. CallInv(a)'
        <4>1. calls'[a].spoilt = calls[a].spoilt
          BY <3>1
        <4> QED BY <3>2, <4>1 DEF CallInv
      <3> HIDE DEF x
      <3> QED BY <2>1, <2>5, <3>1, <3>3, StoresStay, MoveKeeps
    <2>6. blob[a][c] \in {"absent", "torn", "whole"}
      BY <1>0, <2>2 DEF ExchangeInv, StoresForm
    <2> QED BY <1>6, <2>3, <2>4, <2>5, <2>6 DEF ReadWant
  <1>7. ASSUME NEW a \in Announcers, OpenBlob(a) \/ WriteBlob(a) PROVE ExchangeInv'
    <2> DEFINE c == calls[a].cid
    <2>1. UNCHANGED <<memory, calls>> /\ c \in Cids
      BY <1>7 DEF OpenBlob, WriteBlob, ExchangeInv, IsCall
    <2>2. \/ UNCHANGED blob
          \/ blob' = [blob EXCEPT ![Listener][c] = "torn"] /\ blob[Listener][c] = "absent"
          \/ blob' = [blob EXCEPT ![Listener][c] = "whole"] /\ blob[Listener][c] = "torn"
      BY <1>7 DEF OpenBlob, WriteBlob
    <2> HIDE DEF c
    <2>3. StoresForm' /\ Grows
      <3>1. CASE UNCHANGED blob
        BY <2>1, <3>1, StoresStay
      <3>2. ASSUME NEW v \in {"torn", "whole"}, blob' = [blob EXCEPT ![Listener][c] = v],
                   blob[Listener][c] # "whole"
            PROVE  StoresForm' /\ Grows
        <4>1. blob' = [d \in Devices |-> [e \in Cids |->
                         IF d = Listener /\ e = c THEN v ELSE blob[d][e]]]
          BY <3>2 DEF ExchangeInv, StoresForm
        <4>2. StoresForm'
          BY <2>1, <4>1 DEF ExchangeInv, StoresForm
        <4>3. Grows
          BY <2>1, <3>2, <4>1 DEF Grows
        <4> QED BY <4>2, <4>3
      <3> QED BY <2>2, <3>1, <3>2
    <2>4. \A b \in Announcers : IsCall(calls[b])' /\ CallInv(b)'
      BY <2>1, <2>3, GrowsCall
    <2> QED BY <2>1, <2>3, <2>4 DEF ExchangeInv
  <1>8. ASSUME NEW a \in Announcers, Served(a) PROVE ExchangeInv'
    <2> DEFINE next == IF CallAt(a, "data") THEN "closed" ELSE "failed"
    <2>1. Remember(Listener, calls[a].cid) /\ UNCHANGED blob /\ Goes(a, next)
      BY <1>8 DEF Served
    <2>2. StoresForm' /\ Grows /\ calls[a].cid \in memory'[Listener]
      BY <1>0, <2>1, Remembers
    <2>3. next \notin {"have", "want", "silent"}
      OBVIOUS
    <2> HIDE DEF next
    <2>4. calls'[a].cid = calls[a].cid
      BY <2>1, GoesOnAbout
    <2>5. Settled(calls[a].cid, calls[a].had)'
      BY <2>2, <2>4 DEF Settled
    <2> QED BY <1>a, <2>1, <2>2, <2>3, <2>5
  <1>9. ASSUME NEW a \in Announcers, ReadEnd(a) PROVE ExchangeInv'
    <2>1. CASE UNCHANGED <<blob, memory, calls>>
      <3>1. \A b \in Announcers : IsCall(calls[b])' /\ CallInv(b)'
        BY <2>1, StoresStay, GrowsCall
      <3> QED BY <2>1, <3>1, StoresStay DEF ExchangeInv
    <2>2. CASE CallAt(a, "closed") /\ Goes(a, "done") /\ UNCHANGED <<blob, memory>>
      <3>1. calls'[a].cid = calls[a].cid /\ calls'[a].had = calls[a].had
        BY <2>2, GoesOnAbout
      <3>2. calls[a].spoilt = FALSE => Settled(calls[a].cid, calls[a].had)
        BY <2>2 DEF ExchangeInv, CallInv, CallAt
      <3>3. calls[a].spoilt = FALSE => Settled(calls[a].cid, calls[a].had)'
        BY <2>2, <3>1, <3>2 DEF Settled
      <3> QED BY <1>a, <2>2, <3>3, StoresStay
    <2> QED BY <1>9, <2>1, <2>2 DEF ReadEnd
  <1>10. ASSUME NEW a \in Announcers, Break(a) PROVE ExchangeInv'
    BY <1>10, StoresStay, SpoilKeeps DEF Break
  <1>11. ASSUME NEW a \in Announcers, Refused(a) PROVE ExchangeInv'
    BY <1>11, <1>a, StoresStay DEF Refused
  <1>12. ASSUME NEW a \in Announcers, CrashAnnouncer(a) PROVE ExchangeInv'
    BY <1>0, <1>12, Forgets, SpoilKeeps DEF CrashAnnouncer
  <1> QED BY <1>1, <1>2, <1>3, <1>4, <1>5, <1>6, <1>7, <1>8, <1>9, <1>10, <1>11, <1>12 DEF StoreSyncNext

\* An announcement nothing interferes with leaves the listener with the blob, or
\* with one it took for it before, and no two ends wait for each other unless the
\* announcer lost its file: for any announcers and blobs, crashes and broken
\* connections.
THEOREM ExchangesEnd == StoreSyncSpec => []ExchangeEnds
  <1>1. StoreSyncInit => ExchangeInv
    <2> SUFFICES ASSUME StoreSyncInit PROVE ExchangeInv
      OBVIOUS
    <2>1. PICK c \in Cids : calls = [a \in Announcers |-> Call("rest", c)]
      BY DEF StoreSyncInit
    <2>2. StoresForm
      BY DEF StoreSyncInit, StoresForm
    <2>3. \A a \in Announcers : IsCall(calls[a]) /\ calls[a].at = "rest"
      BY <2>1 DEF IsCall, Call
    <2>4. \A a \in Announcers : CallInv(a)
      BY <2>3 DEF CallInv
    <2> QED BY <2>1, <2>2, <2>3, <2>4 DEF ExchangeInv
  <1>2. ExchangeInv => ExchangeEnds
    <2> SUFFICES ASSUME ExchangeInv, NEW a \in Announcers
                 PROVE  LET c == calls[a].cid
                        IN /\ CallAt(a, "done") /\ ~calls[a].spoilt =>
                                \/ c \in memory[Listener] \/ blob[Listener][c] = "whole"
                                \/ calls[a].had /\ blob[Listener][c] = "torn"
                           /\ CallAt(a, "silent") => calls[a].spoilt
      BY DEF ExchangeEnds, DoneMeansKnown, BothWaitOnlyIfLost
    <2>1. CallInv(a) /\ calls[a].spoilt \in BOOLEAN
      BY DEF ExchangeInv, IsCall
    <2>2. CASE calls[a].spoilt = TRUE
      BY <2>2
    <2>3. CASE calls[a].spoilt = FALSE
      BY <2>1, <2>3 DEF CallInv, CallAt, Settled
    <2> QED BY <2>1, <2>2, <2>3
  <1> QED BY <1>1, <1>2, ExchangeStep, PTL DEF StoreSyncSpec

-----------------------------------------------------------------------------
(* The shared folder: what the monitor captures.                            *)

WatchInv ==
  /\ changes \in Nat /\ reads \in Nat
  /\ changes > 0 \/ reads > 0 \/ file \in stored \cup missed \cup {Absent, Empty}

LEMMA WatchStep == WatchInv /\ [FolderNext]_folderVars => WatchInv'
  <1> SUFFICES ASSUME WatchInv, [FolderNext]_folderVars PROVE WatchInv'
    OBVIOUS
  <1>1. ASSUME UNCHANGED <<changes, reads, file>>, stored \subseteq stored', missed \subseteq missed'
        PROVE  WatchInv'
    BY <1>1 DEF WatchInv
  <1>2. ASSUME NEW text, Changed(text), reads' = reads PROVE WatchInv'
    BY <1>2 DEF Changed, WatchInv
  <1>3. CASE UNCHANGED folderVars
    BY <1>1, <1>3 DEF folderVars, files, monitor
  <1>4. CASE Notice
    BY <1>4 DEF Notice, Watched, files, WatchInv
  <1>5. CASE CapturePath
    BY <1>5 DEF CapturePath, files, WatchInv
  <1>6. CASE RestartServer
    BY <1>6 DEF RestartServer, WatchInv
  <1>7. ASSUME NEW text \in Contents \cup {Absent}, Outside(text) PROVE WatchInv'
    BY <1>2, <1>7 DEF Outside
  <1>8. ASSUME NEW r \in Requests, NEW does, NEW data, Begin(r, does, data) PROVE WatchInv'
    BY <1>1, <1>8 DEF Begin, files, monitor
  <1>9. ASSUME NEW r \in Requests, OpenFile(r) \/ FillFile(r) \/ RemoveFile(r) PROVE WatchInv'
    BY <1>1, <1>2, <1>9 DEF OpenFile, FillFile, RemoveFile, Unchanged
  <1>10. ASSUME NEW r \in Requests, Look(r) \/ ReadHistory(r) \/ ReadOrigin(r) PROVE WatchInv'
    BY <1>1, <1>10 DEF Look, ReadHistory, ReadOrigin, files, monitor
  <1>11. ASSUME NEW r \in Requests, OpenHistory(r) \/ FillHistory(r) \/ OpenMeta(r) \/ FillMeta(r)
         PROVE  WatchInv'
    BY <1>1, <1>11 DEF OpenHistory, FillHistory, OpenMeta, FillMeta, monitor
  <1>12. ASSUME NEW r \in Requests, Finish(r) PROVE WatchInv'
    BY <1>1, <1>12 DEF Finish, files, monitor
  <1> QED BY <1>3, <1>4, <1>5, <1>6, <1>7, <1>8, <1>9, <1>10, <1>11, <1>12 DEF FolderNext

\* file.rs: once the monitor is at rest, what the file holds has been captured,
\* unless its capture failed or the server stopped before.
THEOREM FilesAreCaptured == FolderSpec => []FileCaptured
  <1>1. FolderInit => WatchInv
    BY DEF FolderInit, WatchInv
  <1>2. WatchInv => FileCaptured
    BY DEF WatchInv, FileCaptured
  <1> QED BY <1>1, <1>2, WatchStep, PTL DEF FolderSpec

-----------------------------------------------------------------------------
(* Its history.                                                             *)

FileTexts == Contents \cup {Absent, Empty, Mixed}
Origins == {Local, Unknown}
Version == [version : Nat, cid : FileTexts, deleted : BOOLEAN]
Stages == {"open", "fill", "look", "remove", "list", "open history", "fill history",
           "origin", "open meta", "fill meta", "finish"}
Request == [at : Stages, kind : {"save", "upload", "delete"}, data : FileTexts, list : Seq(Version),
            origin : Origins, alone : BOOLEAN, was : Seq(Version) \X Origins]

Numbered(list) == \A i \in DOMAIN list : list[i].version = i
StageFits(x) ==
  /\ x.at \in {"look", "remove"} => x.kind = "delete"
  /\ x.at \in {"open", "fill"} => x.kind \in {"save", "upload"}
  /\ x.at = "origin" => x.kind = "save"
  /\ x.at \in {"open meta", "fill meta"} => x.kind \in {"save", "upload"}
  /\ x.at \in {"open history", "fill history"} => Numbered(x.list) /\ x.list # <<>>

FilesForm ==
  /\ file \in FileTexts /\ meta \in Origins \cup {Absent, Empty} /\ unsure \in BOOLEAN
  /\ history = [state |-> history.state, list |-> history.list]
  /\ history.list \in Seq(Version) /\ Numbered(history.list)
  /\ history.list # <<>> => history.state = "list"
Fits(x) == x = Rest \/ (x \in Request /\ StageFits(x))
FolderForm ==
  /\ FilesForm
  /\ requests = [r \in Requests |-> requests[r]] /\ \A r \in Requests : Fits(requests[r])

\* The history tells what the folder holds.
Tells ==
  IF history.list = <<>> THEN file = Absent /\ history.state = Absent
  ELSE IF Last(history.list).deleted THEN file = Absent ELSE file = Last(history.list).cid

\* The folder holds what the request put there.
Written(x) == file = IF x.kind = "delete" THEN Absent ELSE x.data
\* A list that ends with the request's version, or is only longer by it.
EndsWith(list, x) ==
  list # <<>> /\ Last(list).cid = x.data /\ Last(list).deleted = (x.kind = "delete")
Longer(list, was) == \E e \in Version : list = Append(was, e)

\* What a request x that runs alone, as r, has done so far.
Done(x, r) ==
  /\ x.at \in {"open", "fill", "look", "remove", "list", "open history"} => history.list = x.was[1]
  /\ x.at \in {"open", "look", "remove"} /\ unsure = FALSE => Tells
  /\ x.at = "fill" => file = Empty /\ r \in writers
  /\ x.at \notin {"open", "fill", "look", "remove"} => Written(x)
  /\ x.at \in {"open history", "fill history"} => EndsWith(x.list, x) /\ Longer(x.list, x.was[1])
  /\ x.at = "fill history" => history = Unread(Empty)
  /\ x.at \in {"origin", "open meta", "fill meta", "finish"} =>
       /\ history.state = "list" /\ EndsWith(history.list, x)
       /\ history.list = x.was[1] \/ Longer(history.list, x.was[1])
  /\ x.kind = "save" =>
       CASE x.at \in {"open meta", "fill meta"} -> x.origin = x.was[2]
         [] x.at = "finish" -> meta = x.was[2]
         [] OTHER -> Origin = x.was[2]
Alone(r) == Done(requests[r], r) /\ \A other \in Requests : other # r => requests[other] = Rest

FolderInv ==
  /\ FolderForm
  /\ \A r \in Requests : requests[r] # Rest /\ requests[r].alone = TRUE => Alone(r)
  /\ unsure = FALSE => \A r \in Requests : requests[r] # Rest => requests[r].alone = TRUE
  /\ unsure = FALSE /\ Quiet => Tells

\* A request is at rest or it is one of the stages.
LEMMA Busy ==
  ASSUME FolderForm, NEW r \in Requests
  PROVE  /\ requests[r] = Rest <=> At(r, "rest")
         /\ ~At(r, "rest") => requests[r] \in Request /\ StageFits(requests[r])
  <1>1. requests[r] = Rest \/ (requests[r] \in Request /\ StageFits(requests[r]))
    BY DEF FolderForm, Fits
  <1>2. Rest.at = "rest"
    BY DEF Rest
  <1>3. requests[r] \in Request => requests[r].at # "rest"
    BY DEF Request, Stages
  <1> QED BY <1>1, <1>2, <1>3 DEF At

\* A step of one request that is no trouble.
LEMMA StepOf ==
  ASSUME FolderInv, NEW r \in Requests, NEW x, NEW y, x = requests[r], x # Rest,
         requests' = [requests EXCEPT ![r] = y], FilesForm', Fits(y), unsure' = unsure,
         y = Rest \/ y.alone = x.alone,
         x.alone = TRUE /\ Done(x, r) /\ y # Rest => Done(y, r)',
         x.alone = TRUE /\ Done(x, r) /\ y = Rest /\ unsure = FALSE => Tells'
  PROVE  FolderInv'
  <1>1. /\ requests' = [q \in Requests |-> requests'[q]] /\ requests'[r] = y
        /\ \A q \in Requests : q # r => requests'[q] = requests[q]
    BY DEF FolderInv, FolderForm
  <1>2. FolderForm'
    BY <1>1 DEF FolderInv, FolderForm
  <1>3. ASSUME NEW q \in Requests, requests'[q] # Rest, requests'[q].alone = TRUE PROVE Alone(q)'
    <2>1. CASE q = r
      <3>1. Alone(r) /\ x.alone = TRUE /\ y # Rest
        BY <1>1, <1>3, <2>1 DEF FolderInv
      <3>2. Done(y, r)'
        BY <3>1 DEF Alone
      <3>3. Done(requests[r], r)'
        BY <1>1, <3>2 DEF Done, Written, EndsWith
      <3> QED BY <1>1, <2>1, <3>1, <3>3 DEF Alone
    <2>2. CASE q # r
      BY <1>1, <1>3, <2>2 DEF FolderInv, Alone
    <2> QED BY <2>1, <2>2
  <1>4. unsure' = FALSE => \A q \in Requests : requests'[q] # Rest => requests'[q].alone = TRUE
    BY <1>1 DEF FolderInv
  <1>5. ASSUME unsure' = FALSE, Quiet' PROVE Tells'
    <2>1. y = Rest
      <3>1. y.at = "rest"
        BY <1>1, <1>5 DEF Quiet, At
      <3> QED BY <3>1 DEF Fits, Request, Stages
    <2>2. x.alone = TRUE /\ Done(x, r)
      BY <1>5 DEF FolderInv, Alone
    <2> QED BY <1>5, <2>1, <2>2
  <1> QED BY <1>2, <1>3, <1>4, <1>5 DEF FolderInv

\* A trouble, after which no request counts as alone.
LEMMA TroubleOf ==
  ASSUME FolderForm', unsure' = TRUE, \A r \in Requests : requests'[r] = Rest \/ requests'[r].alone = FALSE
  PROVE  FolderInv'
  BY DEF FolderInv

\* The requests, when none is alone any more.
LEMMA NoneAloneForm ==
  ASSUME FolderForm
  PROVE  /\ NoneAlone = [r \in Requests |-> NoneAlone[r]]
         /\ \A r \in Requests : NoneAlone[r] = Rest \/
              (NoneAlone[r] \in Request /\ StageFits(NoneAlone[r]) /\ NoneAlone[r].alone = FALSE)
         /\ \A r \in Requests : requests[r] # Rest =>
              /\ NoneAlone[r] # Rest
              /\ NoneAlone[r].at = requests[r].at /\ NoneAlone[r].kind = requests[r].kind
              /\ NoneAlone[r].list = requests[r].list
  <1>1. ASSUME NEW r \in Requests, requests[r] # Rest
        PROVE  /\ NoneAlone[r] \in Request /\ StageFits(NoneAlone[r]) /\ NoneAlone[r].alone = FALSE
               /\ NoneAlone[r].at = requests[r].at /\ NoneAlone[r].kind = requests[r].kind
               /\ NoneAlone[r].list = requests[r].list
    <2>1. requests[r] \in Request /\ StageFits(requests[r])
      BY <1>1 DEF FolderForm, Fits
    <2>2. ~At(r, "rest")
      BY <2>1 DEF At, Request, Stages
    <2>3. NoneAlone[r] = [requests[r] EXCEPT !.alone = FALSE]
      BY <2>2 DEF NoneAlone
    <2>4. NoneAlone[r] \in Request /\ NoneAlone[r].at = requests[r].at /\ NoneAlone[r].kind = requests[r].kind
          /\ NoneAlone[r].list = requests[r].list /\ NoneAlone[r].alone = FALSE
      BY <2>1, <2>3 DEF Request
    <2> QED BY <2>1, <2>4 DEF StageFits
  <1>2. \A r \in Requests : requests[r] = Rest => NoneAlone[r] = Rest
    BY DEF NoneAlone, At, Rest
  <1>3. \A r \in Requests : requests[r] # Rest => NoneAlone[r] # Rest
    BY <1>1 DEF Request, Stages, Rest
  <1>4. NoneAlone = [r \in Requests |-> NoneAlone[r]]
    BY DEF NoneAlone
  <1> QED BY <1>1, <1>2, <1>3, <1>4

\* The list with the request's version after it.
LEMMA NextVersion ==
  ASSUME FolderForm, NEW r \in Requests, requests[r] \in Request
  PROVE  /\ WithVersion(r) \in Seq(Version) /\ Numbered(WithVersion(r)) /\ WithVersion(r) # <<>>
         /\ EndsWith(WithVersion(r), requests[r]) /\ Longer(WithVersion(r), history.list)
  <1> DEFINE old == history.list
             e == [version |-> IF old = <<>> THEN 1 ELSE Last(old).version + 1,
                   cid |-> requests[r].data, deleted |-> requests[r].kind = "delete"]
  <1>1. old \in Seq(Version) /\ Len(old) \in Nat /\ \A i \in 1..Len(old) : old[i].version = i
    BY DEF FolderForm, FilesForm, Numbered
  <1>2. e.version = Len(old) + 1 /\ e.cid = requests[r].data /\ e.deleted = (requests[r].kind = "delete")
    <2>1. old = <<>> => Len(old) = 0
      OBVIOUS
    <2>2. old # <<>> => Last(old).version = Len(old)
      BY <1>1 DEF Last
    <2> QED BY <2>1, <2>2
  <1>3. e \in Version
    <2>1. requests[r].data \in FileTexts /\ (requests[r].kind = "delete") \in BOOLEAN
      BY DEF Request
    <2>2. e.version \in Nat
      BY <1>1, <1>2
    <2> QED BY <2>1, <2>2, <1>2 DEF Version
  <1>4. WithVersion(r) = Append(old, e)
    BY DEF WithVersion
  <1> HIDE DEF e, old
  <1>5. /\ Append(old, e) \in Seq(Version) /\ Len(Append(old, e)) = Len(old) + 1
        /\ Append(old, e)[Len(old) + 1] = e /\ \A i \in 1..Len(old) : Append(old, e)[i] = old[i]
    BY <1>1, <1>3
  <1>6. Numbered(Append(old, e))
    BY <1>1, <1>2, <1>5 DEF Numbered
  <1>7. Last(Append(old, e)) = e /\ Append(old, e) # <<>>
    <2> DEFINE longer == Append(old, e)
    <2>1. Len(longer) = Len(old) + 1 /\ longer[Len(old) + 1] = e /\ Len(old) + 1 # 0
      BY <1>1, <1>5
    <2> HIDE DEF longer
    <2>2. Last(longer) = e /\ longer # <<>>
      BY <2>1 DEF Last
    <2> QED BY <2>2 DEF longer
  <1>8. EndsWith(Append(old, e), requests[r])
    BY <1>2, <1>7 DEF EndsWith
  <1> QED BY <1>3, <1>4, <1>5, <1>6, <1>7, <1>8 DEF Longer, old

\* A list that is longer by a version begins as it did.
LEMMA BeginsSame ==
  ASSUME NEW was \in Seq(Version), NEW list \in Seq(Version), list = was \/ Longer(list, was)
  PROVE  IsPrefix(was, list)
  <1>1. SubSeq(was, 1, Len(was)) = was /\ Len(was) \in Nat
    BY SubSeqFull
  <1>2. CASE list = was
    BY <1>1, <1>2 DEF IsPrefix
  <1>3. ASSUME NEW e \in Version, list = Append(was, e) PROVE IsPrefix(was, list)
    <2>1. Len(list) = Len(was) + 1 /\ \A i \in 1..Len(was) : list[i] = was[i]
      <3>1. /\ Len(Append(was, e)) = Len(was) + 1
            /\ \A i \in 1..Len(was) : Append(was, e)[i] = was[i]
        OBVIOUS
      <3> QED BY <1>3, <3>1
    <2>2. \A i \in 1..Len(was) : list[i] \in Version
      BY <2>1
    <2> DEFINE part == SubSeq(list, 1, Len(was))
    <2>3. /\ part \in Seq(Version) /\ Len(part) = Len(was)
          /\ \A i \in 1..Len(was) : part[i] = list[1 + i - 1]
      BY <1>1, <2>2, SubSeqProperties, Z3
    <2> HIDE DEF part
    <2>4. \A i \in 1..Len(was) : part[i] = was[i]
      BY <1>1, <2>1, <2>3
    <2>5. part = was
      BY <2>3, <2>4, SeqEqual
    <2> QED BY <1>1, <2>1, <2>5 DEF IsPrefix, part
  <1> QED BY <1>2, <1>3 DEF Longer

\* Request r goes on from x to y; what it is about stays.
Moves(r, x, y) ==
  x = requests[r] /\ requests' = [requests EXCEPT ![r] = y] /\ StageFits(x) /\ x # Rest /\ y # Rest
SameWork(x, y) ==
  /\ y.kind = x.kind /\ y.data = x.data /\ y.list = x.list
  /\ y.origin = x.origin /\ y.alone = x.alone /\ y.was = x.was

LEMMA NextStage ==
  ASSUME FolderForm, NEW r \in Requests, ~At(r, "rest"), NEW stage \in Stages,
         Put(r, [requests[r] EXCEPT !.at = stage])
  PROVE  \E x, y \in Request : Moves(r, x, y) /\ SameWork(x, y) /\ y.at = stage
  <1> DEFINE y == [requests[r] EXCEPT !.at = stage]
  <1>1. requests[r] \in Request /\ StageFits(requests[r])
    BY Busy
  <1>2. /\ y \in Request /\ y.at = stage /\ y.kind = requests[r].kind /\ y.data = requests[r].data
        /\ y.list = requests[r].list /\ y.origin = requests[r].origin
        /\ y.alone = requests[r].alone /\ y.was = requests[r].was
    BY <1>1 DEF Request
  <1>3. requests' = [requests EXCEPT ![r] = y]
    BY DEF Put
  <1> HIDE DEF y
  <1>4. requests[r] # Rest /\ y # Rest
    <2>1. requests[r].at # "rest" /\ y.at # "rest"
      BY <1>1, <1>2 DEF Request, Stages
    <2>2. Rest.at = "rest"
      BY DEF Rest
    <2> QED BY <2>1, <2>2
  <1> QED BY <1>1, <1>2, <1>3, <1>4 DEF Moves, SameWork

\* A request that gives up, or whose step fails.
LEMMA GivesUpForm ==
  ASSUME FolderForm, NEW r \in Requests, GivesUp(r)
  PROVE  /\ unsure' = TRUE /\ requests' = [q \in Requests |-> requests'[q]]
         /\ \A q \in Requests : requests'[q] = Rest \/
              (requests'[q] \in Request /\ StageFits(requests'[q]) /\ requests'[q].alone = FALSE)
  <1>1. unsure' = TRUE /\ requests' = [NoneAlone EXCEPT ![r] = Rest]
    BY DEF GivesUp, Trouble
  <1>2. NoneAlone = [q \in Requests |-> NoneAlone[q]]
    BY NoneAloneForm
  <1> HIDE DEF NoneAlone
  <1>3. \A q \in Requests : requests'[q] = IF q = r THEN Rest ELSE NoneAlone[q]
    BY <1>1, <1>2
  <1>4. requests' = [q \in Requests |-> requests'[q]]
    BY <1>1, <1>2
  <1> QED BY <1>1, <1>3, <1>4, NoneAloneForm

LEMMA FailsForm ==
  ASSUME FolderForm, NEW r \in Requests, requests[r] # Rest, NEW stage \in Stages, Fails(r, stage),
         \/ stage = "finish"
         \/ stage \in {"origin", "open meta"} /\ requests[r].kind \in {"save", "upload"}
                      /\ (stage = "origin" => requests[r].kind = "save")
  PROVE  /\ unsure' = TRUE /\ requests' = [q \in Requests |-> requests'[q]]
         /\ \A q \in Requests : requests'[q] = Rest \/
              (requests'[q] \in Request /\ StageFits(requests'[q]) /\ requests'[q].alone = FALSE)
  <1> DEFINE x == [NoneAlone[r] EXCEPT !.at = stage]
  <1>1. unsure' = TRUE /\ requests' = [NoneAlone EXCEPT ![r].at = stage]
    BY DEF Fails, Trouble
  <1>2. /\ NoneAlone = [q \in Requests |-> NoneAlone[q]]
        /\ NoneAlone[r] \in Request /\ NoneAlone[r].alone = FALSE /\ NoneAlone[r].kind = requests[r].kind
    BY NoneAloneForm
  <1> HIDE DEF NoneAlone
  <1>3. x \in Request /\ x.at = stage /\ x.alone = FALSE /\ x.kind = requests[r].kind
    BY <1>2 DEF Request
  <1>4. requests' = [NoneAlone EXCEPT ![r] = x]
    BY <1>1, <1>2
  <1> HIDE DEF x
  <1>5. StageFits(x)
    BY <1>3 DEF StageFits
  <1>6. \A q \in Requests : requests'[q] = IF q = r THEN x ELSE NoneAlone[q]
    BY <1>2, <1>4
  <1>7. requests' = [q \in Requests |-> requests'[q]]
    BY <1>2, <1>4
  <1> QED BY <1>1, <1>3, <1>5, <1>6, <1>7, NoneAloneForm


LEMMA GivesUpKeeps ==
  ASSUME FolderInv, NEW r \in Requests, GivesUp(r), FilesForm'
  PROVE  FolderInv'
  BY GivesUpForm, TroubleOf DEF FolderInv, FolderForm, Fits

LEMMA FailsKeeps ==
  ASSUME FolderInv, NEW r \in Requests, ~At(r, "rest"), NEW stage \in Stages, Fails(r, stage),
         \/ stage = "finish"
         \/ stage \in {"origin", "open meta"} /\ requests[r].kind \in {"save", "upload"}
                      /\ (stage = "origin" => requests[r].kind = "save"),
         FilesForm'
  PROVE  FolderInv'
  BY FailsForm, TroubleOf, Busy DEF FolderInv, FolderForm, Fits

LEMMA UnreadForm ==
  ASSUME FilesForm, NEW state, history' = Unread(state), UNCHANGED <<file, meta, unsure>>
  PROVE  FilesForm' /\ history'.state = state /\ history'.list = <<>>
  <1>1. history'.state = state /\ history'.list = <<>>
        /\ history' = [state |-> history'.state, list |-> history'.list]
    BY DEF Unread
  <1>2. <<>> \in Seq(Version) /\ Numbered(<<>>)
    BY DEF Numbered
  <1> QED BY <1>1, <1>2 DEF FilesForm

LEMMA AfterHistoryStages ==
  ASSUME NEW r \in Requests, requests[r] \in Request
  PROVE  /\ AfterHistory(r) \in {"origin", "open meta", "finish"} /\ AfterHistory(r) \in Stages
         /\ AfterHistory(r) = "origin" => requests[r].kind = "save"
         /\ AfterHistory(r) = "open meta" => requests[r].kind = "upload"
         /\ AfterHistory(r) = "finish" => requests[r].kind = "delete"
  BY DEF AfterHistory, Request, Stages

LEMMA AfterHistoryFails ==
  ASSUME FolderInv, NEW r \in Requests, ~At(r, "rest"), Fails(r, AfterHistory(r)), FilesForm'
  PROVE  FolderInv'
  <1>1. FolderForm
    BY DEF FolderInv
  <1>2. requests[r] \in Request
    BY <1>1, Busy
  <1> QED BY <1>2, AfterHistoryStages, FailsKeeps

LEMMA OpenFileKeeps == ASSUME FolderInv, NEW r \in Requests, OpenFile(r) PROVE FolderInv'
  <1>1. FolderForm /\ At(r, "open") /\ UNCHANGED <<history, meta>>
    BY DEF OpenFile, FolderInv
  <1>2. CASE Fine(r, "fill") /\ Changed(Empty) /\ writers' = writers \cup {r}
    <2>1. FilesForm'
      BY <1>1, <1>2 DEF FolderForm, FilesForm, Fine, Changed, FileTexts
    <2>2. PICK x, y \in Request : Moves(r, x, y) /\ SameWork(x, y) /\ y.at = "fill"
      BY <1>1, <1>2, NextStage DEF Fine, At, Stages
    <2>3. x.at = "open" /\ Fits(y)
      BY <1>1, <2>2 DEF At, StageFits, Fits, Moves, SameWork
    <2>4. Done(x, r) => Done(y, r)'
      BY <1>1, <1>2, <2>2, <2>3 DEF Done, Changed, Origin, SameWork
    <2> QED BY <1>2, <2>1, <2>2, <2>3, <2>4, StepOf DEF Fine, Moves, SameWork
  <1>3. CASE GivesUp(r) /\ Unchanged
    <2>1. FilesForm'
      BY <1>1, <1>3 DEF FolderForm, FilesForm, GivesUp, Trouble, Unchanged
    <2> QED BY <1>3, <2>1, GivesUpKeeps
  <1> QED BY <1>2, <1>3 DEF OpenFile

\* A write that only one request has open leaves what it wrote.
LEMMA FillFileKeeps == ASSUME FolderInv, NEW r \in Requests, FillFile(r) PROVE FolderInv'
  <1>1. FolderForm /\ At(r, "fill") /\ UNCHANGED <<history, meta>> /\ ~At(r, "rest")
    BY DEF FillFile, FolderInv, At
  <1>2. CASE Fine(r, "list") /\ (IF r \notin writers THEN Unchanged
              ELSE \/ Changed(requests[r].data)
                   \/ file # Empty /\ file # requests[r].data /\ Changed(Mixed))
    <2>2. PICK x, y \in Request : Moves(r, x, y) /\ SameWork(x, y) /\ y.at = "list"
      BY <1>1, <1>2, NextStage DEF Fine, Stages
    <2>3. x.at = "fill" /\ Fits(y) /\ x = requests[r] /\ x.kind # "delete"
      BY <1>1, <2>2 DEF At, StageFits, Fits, Moves, SameWork
    <2>1. FilesForm'
      BY <1>1, <1>2, <2>3 DEF FolderForm, FilesForm, Fine, Changed, Unchanged, FileTexts, Request
    <2>4. Done(x, r) => Done(y, r)'
      BY <1>1, <1>2, <2>2, <2>3 DEF Done, Changed, Origin, SameWork, Written
    <2> QED BY <1>2, <2>1, <2>2, <2>3, <2>4, StepOf DEF Fine, Moves, SameWork
  <1>3. CASE GivesUp(r) /\ Unchanged
    <2>1. FilesForm'
      BY <1>1, <1>3 DEF FolderForm, FilesForm, GivesUp, Trouble, Unchanged
    <2> QED BY <1>3, <2>1, GivesUpKeeps
  <1> QED BY <1>2, <1>3 DEF FillFile

LEMMA RemoveFileKeeps == ASSUME FolderInv, NEW r \in Requests, RemoveFile(r) PROVE FolderInv'
  <1>1. FolderForm /\ At(r, "remove") /\ UNCHANGED <<history, meta>> /\ ~At(r, "rest")
    BY DEF RemoveFile, FolderInv, At
  <1>2. CASE file = Absent /\ Put(r, Rest) /\ Unchanged /\ UNCHANGED <<troubles, unsure, writers>>
    <2>1. FilesForm'
      BY <1>1, <1>2 DEF FolderForm, FilesForm, Unchanged
    <2>2. PICK x, y : x = requests[r] /\ y = Rest
      OBVIOUS
    <2>3. x # Rest /\ Fits(y) /\ requests' = [requests EXCEPT ![r] = y]
      BY <1>1, <1>2, <2>2, Busy DEF Put, Fits
    <2>4. Done(x, r) => (unsure = FALSE => Tells')
      BY <1>1, <1>2, <2>2 DEF Done, Unchanged, Tells, At
    <2>5. unsure' = unsure
      BY <1>2
    <2>6. y = Rest \/ y.alone = x.alone
      BY <2>2
    <2>7. x.alone = TRUE /\ Done(x, r) /\ y # Rest => Done(y, r)'
      BY <2>2
    <2>8. x.alone = TRUE /\ Done(x, r) /\ y = Rest /\ unsure = FALSE => Tells'
      BY <2>4
    <2>9. x = requests[r]
      BY <2>2
    <2> QED BY <2>1, <2>3, <2>5, <2>6, <2>7, <2>8, <2>9, StepOf
  <1>3. CASE file # Absent /\ Fine(r, "list") /\ Changed(Absent) /\ writers' = {}
    <2>1. FilesForm'
      BY <1>1, <1>3 DEF FolderForm, FilesForm, Fine, Changed, FileTexts
    <2>2. PICK x, y \in Request : Moves(r, x, y) /\ SameWork(x, y) /\ y.at = "list"
      BY <1>1, <1>3, NextStage DEF Fine, Stages
    <2>3. x.at = "remove" /\ Fits(y) /\ x.kind = "delete"
      BY <1>1, <2>2 DEF At, StageFits, Fits, Moves, SameWork
    <2>4. Done(x, r) => Done(y, r)'
      BY <1>1, <1>3, <2>2, <2>3 DEF Done, Changed, Origin, SameWork, Written
    <2> QED BY <1>3, <2>1, <2>2, <2>3, <2>4, StepOf DEF Fine, Moves, SameWork
  <1>4. CASE GivesUp(r) /\ Unchanged
    <2>1. FilesForm'
      BY <1>1, <1>4 DEF FolderForm, FilesForm, GivesUp, Trouble, Unchanged
    <2> QED BY <1>4, <2>1, GivesUpKeeps
  <1> QED BY <1>2, <1>3, <1>4 DEF RemoveFile

\* A request that notes something as it goes on.
LEMMA LookKeeps == ASSUME FolderInv, NEW r \in Requests, Look(r) PROVE FolderInv'
  <1>1. FolderForm /\ At(r, "look") /\ UNCHANGED <<file, writers, history, meta, unsure>> /\ ~At(r, "rest")
    BY DEF Look, FolderInv, At, files
  <1>2. FilesForm'
    BY <1>1 DEF FolderForm, FilesForm
  <1>3. requests[r] \in Request /\ StageFits(requests[r]) /\ file \in FileTexts /\ requests[r] # Rest
    BY <1>1, Busy DEF FolderForm, FilesForm
  <1>4. PICK x, y \in Request :
          /\ x = requests[r] /\ requests' = [requests EXCEPT ![r] = y] /\ y.at = "remove" /\ y.data = file
          /\ y.kind = x.kind /\ y.origin = x.origin /\ y.alone = x.alone /\ y.was = x.was
    <2> DEFINE y == [requests[r] EXCEPT !.at = "remove", !.data = file]
    <2>1. requests' = [requests EXCEPT ![r] = y]
      BY DEF Look, Put
    <2>2. y \in Request /\ y.at = "remove" /\ y.data = file /\ y.kind = requests[r].kind
          /\ y.origin = requests[r].origin /\ y.alone = requests[r].alone /\ y.was = requests[r].was
      BY <1>3 DEF Request, Stages
    <2> HIDE DEF y
    <2> QED BY <1>3, <2>1, <2>2
  <1>5. x.at = "look" /\ Fits(y)
    BY <1>1, <1>3, <1>4 DEF At, StageFits, Fits
  <1>6. y # Rest
    <2>1. Rest.at = "rest" /\ y.at # "rest"
      BY <1>4 DEF Rest
    <2> QED BY <2>1
  <1>7. Done(x, r) => Done(y, r)'
    BY <1>1, <1>4, <1>5 DEF Done, Tells, Origin
  <1> QED BY <1>1, <1>2, <1>3, <1>4, <1>5, <1>6, <1>7, StepOf

LEMMA ReadOriginKeeps == ASSUME FolderInv, NEW r \in Requests, ReadOrigin(r) PROVE FolderInv'
  <1>1. FolderForm /\ At(r, "origin") /\ UNCHANGED <<file, writers, history, meta, unsure>> /\ ~At(r, "rest")
    BY DEF ReadOrigin, FolderInv, At, files
  <1>2. FilesForm'
    BY <1>1 DEF FolderForm, FilesForm
  <1>3. requests[r] \in Request /\ StageFits(requests[r]) /\ Origin \in Origins /\ requests[r] # Rest
    BY <1>1, Busy DEF FolderForm, FilesForm, Origin, Origins
  <1>4. PICK x, y \in Request :
          /\ x = requests[r] /\ requests' = [requests EXCEPT ![r] = y] /\ y.at = "open meta" /\ y.origin = Origin
          /\ y.kind = x.kind /\ y.data = x.data /\ y.alone = x.alone /\ y.was = x.was
    <2> DEFINE y == [requests[r] EXCEPT !.at = "open meta", !.origin = Origin]
    <2>1. requests' = [requests EXCEPT ![r] = y]
      BY DEF ReadOrigin, Put
    <2>2. y \in Request /\ y.at = "open meta" /\ y.origin = Origin /\ y.kind = requests[r].kind
          /\ y.data = requests[r].data /\ y.alone = requests[r].alone /\ y.was = requests[r].was
      BY <1>3 DEF Request, Stages
    <2> HIDE DEF y
    <2> QED BY <1>3, <2>1, <2>2
  <1>5. x.at = "origin" /\ x.kind = "save" /\ Fits(y)
    BY <1>1, <1>3, <1>4 DEF At, StageFits, Fits
  <1>6. y # Rest
    <2>1. Rest.at = "rest" /\ y.at # "rest"
      BY <1>4 DEF Rest
    <2> QED BY <2>1
  <1>7. Done(x, r) => Done(y, r)'
    BY <1>1, <1>4, <1>5 DEF Done, EndsWith, Written
  <1> QED BY <1>1, <1>2, <1>3, <1>4, <1>5, <1>6, <1>7, StepOf

LEMMA ReadHistoryKeeps == ASSUME FolderInv, NEW r \in Requests, ReadHistory(r) PROVE FolderInv'
  <1>1. FolderForm /\ At(r, "list") /\ UNCHANGED <<file, writers, history, meta, unsure>> /\ ~At(r, "rest")
    BY DEF ReadHistory, FolderInv, At, files
  <1>2. FilesForm'
    BY <1>1 DEF FolderForm, FilesForm
  <1>3. requests[r] \in Request /\ requests[r] # Rest
    BY <1>1, Busy
  <1>4. CASE SameVersion(r)
    <2>1. AfterHistory(r) \in {"origin", "open meta", "finish"} /\ AfterHistory(r) \in Stages
          /\ (AfterHistory(r) = "origin" => requests[r].kind = "save")
          /\ (AfterHistory(r) = "open meta" => requests[r].kind = "upload")
          /\ (AfterHistory(r) = "finish" => requests[r].kind = "delete")
      BY <1>3, AfterHistoryStages
    <2>2. PICK x, y \in Request : Moves(r, x, y) /\ SameWork(x, y) /\ y.at = AfterHistory(r)
      <3>1. Put(r, [requests[r] EXCEPT !.at = AfterHistory(r)])
        BY <1>4 DEF ReadHistory
      <3> QED BY <1>1, <2>1, <3>1, NextStage
    <2>3. x.at = "list" /\ Fits(y) /\ EndsWith(history.list, x) /\ history.state = "list"
      BY <1>1, <1>4, <2>1, <2>2 DEF At, StageFits, Fits, Moves, SameWork, SameVersion, EndsWith,
         FolderForm, FilesForm
    <2>4. Done(x, r) => Done(y, r)'
      BY <1>1, <2>1, <2>2, <2>3 DEF Done, SameWork, Moves, Written, EndsWith, Origin
    <2> QED BY <1>1, <1>2, <2>2, <2>3, <2>4, StepOf DEF Moves, SameWork
  <1>5. CASE ~SameVersion(r)
    <2> DEFINE list == WithVersion(r)
    <2>1. list \in Seq(Version) /\ Numbered(list) /\ list # <<>>
          /\ EndsWith(list, requests[r]) /\ Longer(list, history.list)
      BY <1>1, <1>3, NextVersion
    <2>2. requests' = [requests EXCEPT ![r] = [requests[r] EXCEPT !.at = "open history", !.list = list]]
      BY <1>5 DEF ReadHistory, Put
    <2> HIDE DEF list
    <2>3. PICK x, y \in Request :
          /\ x = requests[r] /\ requests' = [requests EXCEPT ![r] = y] /\ y.at = "open history" /\ y.list = list
          /\ y.kind = x.kind /\ y.data = x.data /\ y.origin = x.origin /\ y.alone = x.alone /\ y.was = x.was
      <3> DEFINE y == [requests[r] EXCEPT !.at = "open history", !.list = list]
      <3>1. y \in Request /\ y.at = "open history" /\ y.list = list /\ y.kind = requests[r].kind
            /\ y.origin = requests[r].origin /\ y.data = requests[r].data
            /\ y.alone = requests[r].alone /\ y.was = requests[r].was
        BY <1>3, <2>1 DEF Request, Stages
      <3> QED BY <1>3, <2>2, <3>1
    <2>4. x.at = "list" /\ Fits(y)
      BY <1>1, <2>1, <2>3 DEF At, StageFits, Fits
    <2>5. y # Rest
      <3>1. Rest.at = "rest" /\ y.at # "rest"
        BY <2>3 DEF Rest
      <3> QED BY <3>1
    <2>6. EndsWith(y.list, y)
      BY <2>1, <2>3 DEF EndsWith
    <2>7. Done(x, r) => Done(y, r)'
      BY <1>1, <2>1, <2>3, <2>4, <2>6 DEF Done, Written, Origin
    <2> QED BY <1>1, <1>2, <1>3, <2>3, <2>4, <2>5, <2>7, StepOf
  <1> QED BY <1>4, <1>5

LEMMA OpenHistoryKeeps == ASSUME FolderInv, NEW r \in Requests, OpenHistory(r) PROVE FolderInv'
  <1>1. FolderForm /\ At(r, "open history") /\ UNCHANGED <<file, writers, meta>> /\ ~At(r, "rest")
    BY DEF OpenHistory, FolderInv, At
  <1>2. CASE Fine(r, "fill history") /\ history' = Unread(Empty)
    <2>1. FilesForm'
      BY <1>1, <1>2, UnreadForm DEF FolderForm, Fine
    <2>2. PICK x, y \in Request : Moves(r, x, y) /\ SameWork(x, y) /\ y.at = "fill history"
      BY <1>1, <1>2, NextStage DEF Fine, Stages
    <2>3. x.at = "open history" /\ Fits(y)
      BY <1>1, <2>2 DEF At, StageFits, Fits, Moves, SameWork
    <2>4. Done(x, r) => Done(y, r)'
      BY <1>1, <1>2, <2>2, <2>3 DEF Done, Origin, SameWork, Written, EndsWith, Unread
    <2> QED BY <1>2, <2>1, <2>2, <2>3, <2>4, StepOf DEF Fine, Moves, SameWork
  <1>3. CASE Fails(r, AfterHistory(r)) /\ UNCHANGED history
    <2>1. FilesForm'
      BY <1>1, <1>3 DEF FolderForm, FilesForm, Fails, Trouble
    <2> QED BY <1>1, <1>3, <2>1, AfterHistoryFails
  <1> QED BY <1>2, <1>3 DEF OpenHistory

LEMMA FillHistoryKeeps == ASSUME FolderInv, NEW r \in Requests, FillHistory(r) PROVE FolderInv'
  <1>1. FolderForm /\ At(r, "fill history") /\ UNCHANGED <<file, writers, meta>> /\ ~At(r, "rest")
    BY DEF FillHistory, FolderInv, At
  <1>2. requests[r] \in Request /\ Numbered(requests[r].list) /\ requests[r].list # <<>>
    BY <1>1, Busy DEF StageFits, At
  <1>3. CASE /\ Fine(r, AfterHistory(r))
             /\ \/ Len(history.list) <= Len(requests[r].list) /\ history.state # Mixed
                   /\ history' = [state |-> "list", list |-> requests[r].list]
                \/ history.state # Empty /\ history.list # requests[r].list
                   /\ history' = Unread(Mixed)
    <2>1. FilesForm'
      <3>1. CASE history' = [state |-> "list", list |-> requests[r].list]
        BY <1>1, <1>2, <1>3, <3>1 DEF FolderForm, FilesForm, Fine, Request
      <3>2. CASE history' = Unread(Mixed)
        BY <1>1, <1>3, <3>2, UnreadForm DEF FolderForm, Fine
      <3> QED BY <1>3, <3>1, <3>2
    <2>2. PICK x, y \in Request : Moves(r, x, y) /\ SameWork(x, y) /\ y.at = AfterHistory(r)
      BY <1>1, <1>2, <1>3, AfterHistoryStages, NextStage DEF Fine
    <2>3. x.at = "fill history" /\ Fits(y) /\ x = requests[r]
          /\ y.at \in {"origin", "open meta", "finish"} /\ (y.at = "origin" => x.kind = "save")
          /\ (y.at = "open meta" => x.kind = "upload") /\ (y.at = "finish" => x.kind = "delete")
      BY <1>1, <1>2, <2>2, AfterHistoryStages DEF At, StageFits, Fits, Moves, SameWork
    <2>4. ASSUME Done(x, r) PROVE Done(y, r)'
      <3>1. history.state = Empty /\ EndsWith(x.list, x) /\ Longer(x.list, x.was[1]) /\ Written(x)
        <4>1. history = Unread(Empty) /\ Unread(Empty).state = Empty
          BY <2>3, <2>4 DEF Done, Unread
        <4> QED BY <2>3, <2>4, <4>1 DEF Done
      <3>2. history' = [state |-> "list", list |-> x.list]
        BY <1>3, <2>3, <3>1
      <3>3. history'.state = "list" /\ history'.list = x.list
        BY <3>2
      <3> QED BY <1>1, <2>2, <2>3, <2>4, <3>1, <3>3 DEF Done, Origin, SameWork, Written, EndsWith
    <2> QED BY <1>3, <2>1, <2>2, <2>3, <2>4, StepOf DEF Fine, Moves, SameWork
  <1>4. CASE Fails(r, AfterHistory(r)) /\ UNCHANGED history
    <2>1. FilesForm'
      BY <1>1, <1>4 DEF FolderForm, FilesForm, Fails, Trouble
    <2> QED BY <1>1, <1>4, <2>1, AfterHistoryFails
  <1> QED BY <1>3, <1>4 DEF FillHistory

LEMMA OpenMetaKeeps == ASSUME FolderInv, NEW r \in Requests, OpenMeta(r) PROVE FolderInv'
  <1>1. FolderForm /\ At(r, "open meta") /\ UNCHANGED <<file, writers, history>> /\ ~At(r, "rest")
    BY DEF OpenMeta, FolderInv, At
  <1>2. CASE Fine(r, "fill meta") /\ meta' = Empty
    <2>1. FilesForm'
      BY <1>1, <1>2 DEF FolderForm, FilesForm, Fine
    <2>2. PICK x, y \in Request : Moves(r, x, y) /\ SameWork(x, y) /\ y.at = "fill meta"
      BY <1>1, <1>2, NextStage DEF Fine, Stages
    <2>3. x.at = "open meta" /\ Fits(y)
      BY <1>1, <2>2 DEF At, StageFits, Fits, Moves, SameWork
    <2>4. Done(x, r) => Done(y, r)'
      BY <1>1, <1>2, <2>2, <2>3 DEF Done, SameWork, Written, EndsWith
    <2> QED BY <1>2, <2>1, <2>2, <2>3, <2>4, StepOf DEF Fine, Moves, SameWork
  <1>3. CASE Fails(r, "finish") /\ UNCHANGED meta
    <2>1. FilesForm'
      BY <1>1, <1>3 DEF FolderForm, FilesForm, Fails, Trouble
    <2> QED BY <1>1, <1>3, <2>1, FailsKeeps DEF Stages
  <1> QED BY <1>2, <1>3 DEF OpenMeta

LEMMA FillMetaKeeps == ASSUME FolderInv, NEW r \in Requests, FillMeta(r) PROVE FolderInv'
  <1>1. FolderForm /\ At(r, "fill meta") /\ UNCHANGED <<file, writers, history>> /\ ~At(r, "rest")
    BY DEF FillMeta, FolderInv, At
  <1>2. CASE Fine(r, "finish") /\ meta' = requests[r].origin
    <2>2. PICK x, y \in Request : Moves(r, x, y) /\ SameWork(x, y) /\ y.at = "finish"
      BY <1>1, <1>2, NextStage DEF Fine, Stages
    <2>3. x.at = "fill meta" /\ Fits(y) /\ x = requests[r] /\ meta' \in Origins
      BY <1>1, <1>2, <2>2 DEF At, StageFits, Fits, Moves, SameWork, Request
    <2>1. FilesForm'
      BY <1>1, <1>2, <2>3 DEF FolderForm, FilesForm, Fine
    <2>4. Done(x, r) => Done(y, r)'
      BY <1>1, <1>2, <2>2, <2>3 DEF Done, SameWork, Written, EndsWith
    <2> QED BY <1>2, <2>1, <2>2, <2>3, <2>4, StepOf DEF Fine, Moves, SameWork
  <1>3. CASE Fails(r, "finish") /\ UNCHANGED meta
    <2>1. FilesForm'
      BY <1>1, <1>3 DEF FolderForm, FilesForm, Fails, Trouble
    <2> QED BY <1>1, <1>3, <2>1, FailsKeeps DEF Stages
  <1> QED BY <1>2, <1>3 DEF FillMeta

\* A request that ran alone leaves a history that tells what the folder holds.
LEMMA FinishKeeps == ASSUME FolderInv, NEW r \in Requests, Finish(r) PROVE FolderInv'
  <1>1. /\ FolderForm /\ At(r, "finish") /\ ~At(r, "rest")
        /\ UNCHANGED <<file, writers, history, meta>>
    BY DEF Finish, FolderInv, At, files
  <1>2. PICK x, y : x = requests[r] /\ y = Rest
    OBVIOUS
  <1>3. x \in Request /\ x # Rest /\ Fits(y) /\ requests' = [requests EXCEPT ![r] = y] /\ x.at = "finish"
    BY <1>1, <1>2, Busy DEF Finish, Put, Fits, At
  <1>4. /\ requests' = [q \in Requests |-> requests'[q]] /\ requests'[r] = Rest
        /\ \A q \in Requests : q # r => requests'[q] = requests[q]
    BY <1>1, <1>2, <1>3 DEF FolderForm
  <1>5. ASSUME unsure' \in BOOLEAN PROVE FilesForm' /\ FolderForm'
    BY <1>1, <1>4, <1>5 DEF FolderForm, FilesForm, Fits
  <1>6. CASE unsure' = (unsure /\ ~x.alone) /\ x.alone = TRUE
    <2>1. unsure' = FALSE
      BY <1>6
    <2>2. Done(x, r) /\ \A other \in Requests : other # r => requests[other] = Rest
      BY <1>2, <1>3, <1>6 DEF FolderInv, Alone
    <2>3. Written(x) /\ EndsWith(history.list, x)
      BY <1>3, <2>2 DEF Done
    <2>4. Tells
      BY <2>3 DEF Written, EndsWith, Tells
    <2>5. Tells'
      BY <1>1, <2>4 DEF Tells
    <2>6. \A q \in Requests : requests'[q] = Rest
      BY <1>4, <2>2
    <2>7. FolderForm'
      BY <1>5, <2>1
    <2> QED BY <2>5, <2>6, <2>7 DEF FolderInv
  <1>7. CASE unsure' = (unsure /\ ~x.alone) /\ x.alone = FALSE
    <2>1. unsure' = unsure /\ FilesForm'
      BY <1>1, <1>5, <1>7 DEF FolderForm, FilesForm
    <2>2. y = Rest \/ y.alone = x.alone
      BY <1>2
    <2>3. x = requests[r]
      BY <1>2
    <2> QED BY <1>3, <1>7, <2>1, <2>2, <2>3, StepOf
  <1>8. CASE Trouble
    <2>1. unsure' = TRUE /\ FolderForm'
      BY <1>5, <1>8 DEF Trouble
    <2>2. ASSUME NEW q \in Requests, requests'[q] # Rest, requests'[q].alone = TRUE PROVE Alone(q)'
      <3>1. q # r /\ Alone(q)
        BY <1>4, <2>2 DEF FolderInv
      <3> QED BY <1>2, <1>3, <3>1 DEF Alone
    <2> QED BY <2>1, <2>2 DEF FolderInv
  <1>9. x.alone \in BOOLEAN
    BY <1>3 DEF Request
  <1> QED BY <1>2, <1>6, <1>7, <1>8, <1>9 DEF Finish

\* What the monitor does is no matter to the requests.
LEMMA MonitorKeeps ==
  ASSUME FolderInv, UNCHANGED <<files, requests>>, unsure' = unsure \/ unsure' = TRUE
  PROVE  FolderInv'
  <1>1. UNCHANGED <<file, writers, history, meta, requests>>
    BY DEF files
  <1>2. FolderForm'
    BY <1>1 DEF FolderInv, FolderForm, FilesForm
  <1>3. ASSUME NEW q \in Requests, requests'[q] # Rest, requests'[q].alone = TRUE PROVE Alone(q)'
    <2>1. PICK x : x = requests[q]
      OBVIOUS
    <2>2. Alone(q)
      BY <1>1, <1>3 DEF FolderInv
    <2>3. Done(x, q)'
      BY <1>1, <2>1, <2>2 DEF Alone, Done, Tells, Written, EndsWith, Origin
    <2>4. Done(requests[q], q)'
      BY <1>1, <2>1, <2>3 DEF Done, Written, EndsWith
    <2> QED BY <1>1, <2>2, <2>4 DEF Alone
  <1>4. unsure' = FALSE /\ Quiet' => Tells'
    BY <1>1 DEF FolderInv, Quiet, At, Tells
  <1>5. unsure' = FALSE => \A q \in Requests : requests'[q] # Rest => requests'[q].alone = TRUE
    BY <1>1 DEF FolderInv
  <1> QED BY <1>2, <1>3, <1>4, <1>5 DEF FolderInv

LEMMA OutsideKeeps == ASSUME FolderInv, NEW text \in Contents \cup {Absent}, Outside(text) PROVE FolderInv'
  <1>1. FolderForm
    BY DEF FolderInv
  <1>2. file' = text /\ UNCHANGED <<history, meta>> /\ unsure' = TRUE /\ requests' = NoneAlone
    BY DEF Outside, Changed, Trouble
  <1>3. FilesForm'
    BY <1>1, <1>2 DEF FolderForm, FilesForm, FileTexts
  <1>4. FolderForm' /\ \A r \in Requests : requests'[r] = Rest \/ requests'[r].alone = FALSE
    BY <1>1, <1>2, <1>3, NoneAloneForm DEF FolderForm, Fits
  <1> QED BY <1>2, <1>4, TroubleOf

LEMMA RestartKeeps == ASSUME FolderInv, RestartServer PROVE FolderInv'
  <1>1. FolderForm
    BY DEF FolderInv
  <1>2. UNCHANGED <<file, history, meta>> /\ unsure' = TRUE /\ requests' = [r \in Requests |-> Rest]
    BY DEF RestartServer, Trouble
  <1>3. FilesForm'
    BY <1>1, <1>2 DEF FolderForm, FilesForm
  <1>4. requests' = [r \in Requests |-> requests'[r]] /\ \A r \in Requests : requests'[r] = Rest
    BY <1>2
  <1> QED BY <1>2, <1>3, <1>4, TroubleOf DEF FolderForm, Fits

\* A request that begins when no other is under way runs alone.
LEMMA BeginKeeps ==
  ASSUME FolderInv, NEW r \in Requests, NEW does \in {"save", "upload", "delete"},
         NEW data \in Contents \cup {Absent}, Begin(r, does, data)
  PROVE  FolderInv'
  <1> DEFINE y == [at |-> IF does = "delete" THEN "look" ELSE "open", kind |-> does, data |-> data,
                   list |-> <<>>, origin |-> Local, alone |-> Quiet, was |-> <<history.list, Origin>>]
  <1>1. FolderForm /\ UNCHANGED <<file, writers, history, meta>> /\ unsure' = (unsure \/ ~Quiet)
        /\ requests' = [NoneAlone EXCEPT ![r] = y]
    BY DEF Begin, FolderInv, files
  <1>2. history.list \in Seq(Version) /\ Origin \in Origins /\ Quiet \in BOOLEAN /\ unsure \in BOOLEAN
    BY <1>1 DEF FolderForm, FilesForm, Origin, Origins, Quiet
  <1>3. /\ y \in Request /\ y.at = (IF does = "delete" THEN "look" ELSE "open") /\ y.kind = does
        /\ y.alone = Quiet /\ y.was[1] = history.list /\ y.was[2] = Origin
    BY <1>2 DEF Request, Stages, FileTexts, Origins
  <1>4. NoneAlone = [q \in Requests |-> NoneAlone[q]]
    BY <1>1, NoneAloneForm
  <1>5. PICK x : x = y
    OBVIOUS
  <1>6. requests' = [q \in Requests |-> requests'[q]]
        /\ \A q \in Requests : requests'[q] = IF q = r THEN x ELSE NoneAlone[q]
    BY <1>1, <1>4, <1>5
  <1> HIDE DEF y, NoneAlone
  <1>7. Fits(x) /\ \A q \in Requests : Fits(NoneAlone[q])
    BY <1>1, <1>3, <1>5, NoneAloneForm DEF Fits, StageFits
  <1>8. FolderForm'
    BY <1>1, <1>2, <1>6, <1>7 DEF FolderForm, FilesForm
  <1>9. CASE ~Quiet
    <2>1. unsure' = TRUE /\ x.alone = FALSE
      BY <1>1, <1>2, <1>3, <1>5, <1>9
    <2> QED BY <1>1, <1>6, <1>8, <2>1, NoneAloneForm, TroubleOf
  <1>10. CASE Quiet
    <2>1. unsure' = unsure /\ x.alone = TRUE
      BY <1>1, <1>2, <1>3, <1>5, <1>10
    <2>2. \A q \in Requests : q # r => requests'[q] = Rest
      <3>1. \A q \in Requests : NoneAlone[q] = Rest
        BY <1>10 DEF NoneAlone, Quiet
      <3> QED BY <1>6, <3>1
    <2>3. Done(x, r)'
      <3>1. unsure = FALSE => Tells
        BY <1>10 DEF FolderInv
      <3>2. unsure' = FALSE => Tells'
        BY <1>1, <2>1, <3>1 DEF Tells
      <3>3. x.at \in {"look", "open"} /\ x.was[1] = history.list /\ x.was[2] = Origin
        BY <1>3, <1>5
      <3> QED BY <1>1, <3>2, <3>3 DEF Done, Origin
    <2>4. requests'[r] = x
      BY <1>6
    <2>5. Alone(r)'
      <3>1. Done(requests[r], r)'
        BY <2>3, <2>4 DEF Done, Written, EndsWith
      <3> QED BY <2>2, <3>1 DEF Alone
    <2>6. ~Quiet'
      <3>1. ~At(r, "rest")'
        BY <1>3, <1>5, <2>4 DEF At
      <3> QED BY <3>1 DEF Quiet
    <2> QED BY <1>8, <2>1, <2>2, <2>4, <2>5, <2>6 DEF FolderInv
  <1> QED BY <1>9, <1>10

LEMMA FolderStep == FolderInv /\ [FolderNext]_folderVars => FolderInv'
  <1> SUFFICES ASSUME FolderInv, [FolderNext]_folderVars PROVE FolderInv'
    OBVIOUS
  <1>1. CASE UNCHANGED folderVars
    BY <1>1, MonitorKeeps DEF folderVars
  <1>2. CASE Notice
    BY <1>2, MonitorKeeps DEF Notice, counts
  <1>3. CASE CapturePath
    BY <1>3, MonitorKeeps DEF CapturePath, Trouble
  <1>4. CASE RestartServer
    BY <1>4, RestartKeeps
  <1>5. ASSUME NEW text \in Contents \cup {Absent}, Outside(text) PROVE FolderInv'
    BY <1>5, OutsideKeeps
  <1>6. ASSUME NEW r \in Requests, NEW does \in {"save", "upload"}, NEW data \in Contents, Begin(r, does, data)
        PROVE  FolderInv'
    BY <1>6, BeginKeeps
  <1>7. ASSUME NEW r \in Requests, Begin(r, "delete", Absent) PROVE FolderInv'
    BY <1>7, BeginKeeps
  <1>8. ASSUME NEW r \in Requests,
               OpenFile(r) \/ FillFile(r) \/ Look(r) \/ RemoveFile(r) \/ ReadHistory(r) \/ OpenHistory(r)
        PROVE  FolderInv'
    BY <1>8, OpenFileKeeps, FillFileKeeps, LookKeeps, RemoveFileKeeps, ReadHistoryKeeps, OpenHistoryKeeps
  <1>9. ASSUME NEW r \in Requests,
               FillHistory(r) \/ ReadOrigin(r) \/ OpenMeta(r) \/ FillMeta(r) \/ Finish(r)
        PROVE  FolderInv'
    BY <1>9, FillHistoryKeeps, ReadOriginKeeps, OpenMetaKeeps, FillMetaKeeps, FinishKeeps
  <1> QED BY <1>1, <1>2, <1>3, <1>4, <1>5, <1>6, <1>7, <1>8, <1>9 DEF FolderNext

\* server/files.rs: as long as requests run one at a time the history keeps every
\* version, the origin stays, and the last version is what the folder holds.
THEOREM HistoriesAreKept == FolderSpec => []HistoryKept
  <1>1. FolderInit => FolderInv
    <2> SUFFICES ASSUME FolderInit PROVE FolderInv
      OBVIOUS
    <2>1. history = Unread(Absent) /\ history.list = <<>> /\ history.state = Absent
          /\ history = [state |-> history.state, list |-> history.list]
      BY DEF FolderInit, Unread
    <2>2. <<>> \in Seq(Version) /\ Numbered(<<>>)
      BY DEF Numbered
    <2>3. FilesForm
      BY <2>1, <2>2 DEF FolderInit, FilesForm, FileTexts
    <2>4. requests = [r \in Requests |-> requests[r]] /\ \A r \in Requests : requests[r] = Rest
      BY DEF FolderInit
    <2>5. Tells
      BY <2>1 DEF FolderInit, Tells
    <2> QED BY <2>3, <2>4, <2>5 DEF FolderInv, FolderForm, Fits
  <1>2. FolderInv => HistoryKept
    <2> SUFFICES ASSUME FolderInv PROVE HistoryKept
      OBVIOUS
    <2>1. HistoryTellsFile
      BY DEF FolderInv, FolderForm, FilesForm, Tells, HistoryTellsFile
    <2>2. ASSUME NEW r \in Requests, At(r, "finish"), requests[r].alone
          PROVE  /\ history.state = "list" /\ IsPrefix(requests[r].was[1], history.list)
                 /\ \A i \in DOMAIN history.list : history.list[i].version = i
                 /\ requests[r].kind = "save" => meta = requests[r].was[2]
      <3>1. requests[r] \in Request /\ requests[r] # Rest
        BY <2>2, Busy DEF FolderInv, At
      <3>2. requests[r].alone = TRUE
        BY <2>2, <3>1 DEF Request
      <3>3. Done(requests[r], r)
        BY <3>1, <3>2 DEF FolderInv, Alone
      <3>4. /\ history.state = "list"
            /\ history.list = requests[r].was[1] \/ Longer(history.list, requests[r].was[1])
            /\ requests[r].kind = "save" => meta = requests[r].was[2]
        BY <2>2, <3>3 DEF Done, At
      <3>5. requests[r].was[1] \in Seq(Version)
        BY <3>1 DEF Request
      <3>6. history.list \in Seq(Version) /\ Numbered(history.list)
        BY DEF FolderInv, FolderForm, FilesForm
      <3> QED BY <3>4, <3>5, <3>6, BeginsSame DEF Numbered
    <2>3. LoneRequestKeeps
      BY <2>2 DEF LoneRequestKeeps
    <2> QED BY <2>1, <2>3 DEF HistoryKept
  <1> QED BY <1>1, <1>2, FolderStep, PTL DEF FolderSpec

-----------------------------------------------------------------------------
(* Screenshots.                                                             *)

\* The first event of a screenshot that began in a calm is handled at once; the
\* task it makes reads the file after the last write of it, or fails or is lost.
ShotInv ==
  /\ clock \in Nat /\ events \in Nat /\ prompt.at \in Nat
  /\ saved = [shot |-> saved.shot, writes |-> saved.writes, whole |-> saved.whole] /\ saved.writes \in Nat
  /\ prompt = [at |-> prompt.at, calm |-> prompt.calm] /\ recent \in Int
  /\ saved.whole => saved.writes > 0
  /\ prompt.calm =>
       \/ saved.shot \in lostShots
       \/ events > 0 /\ clock = prompt.at /\ clock - recent >= Window
       \/ prompt.at + Delay \in tasks
       \/ clock >= prompt.at + Delay /\ (saved.whole => saved \in shots)

LEMMA ShotStep == ShotInv /\ [ShotNext]_shotVars => ShotInv'
  <1> SUFFICES ASSUME ShotInv, [ShotNext]_shotVars PROVE ShotInv'
    OBVIOUS
  <1> USE ShotAssumption
  <1>1. CASE UNCHANGED shotVars
    BY <1>1 DEF ShotInv, shotVars
  <1>2. CASE HandleEvent
    BY <1>2 DEF HandleEvent, ShotInv
  <1>3. CASE CaptureShot
    BY <1>3 DEF CaptureShot, Readable, ShotInv
  <1>4. CASE ShotTick
    BY <1>4 DEF ShotTick, ShotInv
  <1>5. CASE RemoveShot
    <2>1. saved' = [shot |-> saved.shot, writes |-> 0, whole |-> FALSE]
      <3> DEFINE first == [saved EXCEPT !.writes = 0]
      <3>1. first = [shot |-> saved.shot, writes |-> 0, whole |-> saved.whole]
        BY DEF ShotInv
      <3>2. saved' = [first EXCEPT !.whole = FALSE]
        BY <1>5 DEF RemoveShot
      <3> HIDE DEF first
      <3> QED BY <3>1, <3>2
    <2>2. saved'.writes = 0 /\ ~saved'.whole /\ saved'.shot = saved.shot
      BY <2>1
    <2>3. UNCHANGED <<clock, events, recent, tasks, shots, prompt, lostShots>>
      BY <1>5 DEF RemoveShot
    <2> QED BY <2>1, <2>2, <2>3 DEF ShotInv
  <1>6. ASSUME NEW whole \in BOOLEAN, BeginShot(whole) PROVE ShotInv'
    <2> DEFINE calm == watching /\ events = 0 /\ clock - recent >= Window
    <2>1. /\ saved' = [shot |-> saved.shot + 1, writes |-> 1, whole |-> whole]
          /\ prompt' = [at |-> clock, calm |-> calm]
          /\ events' \in {events, events + 1} /\ (watching => events' = events + 1)
          /\ UNCHANGED <<clock, recent>>
      BY <1>6 DEF BeginShot, Told
    <2> HIDE DEF calm
    <2>2. saved'.writes = 1 /\ saved'.shot = saved.shot + 1 /\ prompt'.at = clock
      BY <2>1
    <2>3. prompt'.calm <=> calm
      BY <2>1
    <2>4. saved' = [shot |-> saved'.shot, writes |-> saved'.writes, whole |-> saved'.whole]
      BY <2>1
    <2>5. prompt' = [at |-> prompt'.at, calm |-> prompt'.calm]
      BY <2>1
    <2> QED BY <2>1, <2>2, <2>3, <2>4, <2>5 DEF ShotInv, calm
  <1>7. ASSUME NEW whole \in BOOLEAN, WriteMore(whole) PROVE ShotInv'
    <2> DEFINE calm == prompt.calm /\ clock - prompt.at < Delay
    <2>1. saved' = [shot |-> saved.shot, writes |-> saved.writes + 1, whole |-> whole]
      <3> DEFINE first == [saved EXCEPT !.writes = saved.writes + 1]
      <3>1. first = [shot |-> saved.shot, writes |-> saved.writes + 1, whole |-> saved.whole]
        BY DEF ShotInv
      <3>2. saved' = [first EXCEPT !.whole = whole]
        BY <1>7 DEF WriteMore
      <3> HIDE DEF first
      <3> QED BY <3>1, <3>2
    <2>2. prompt' = [prompt EXCEPT !.calm = calm]
      BY <1>7 DEF WriteMore
    <2> HIDE DEF calm
    <2>3. prompt' = [at |-> prompt.at, calm |-> calm]
      BY <2>2 DEF ShotInv
    <2>4. events' \in {events, events + 1} /\ UNCHANGED <<clock, recent, tasks, shots, lostShots>>
      BY <1>7 DEF WriteMore, Told
    <2>5. saved'.writes = saved.writes + 1 /\ saved'.shot = saved.shot /\ prompt'.at = prompt.at
      BY <2>1, <2>3
    <2>6. prompt'.calm <=> calm
      BY <2>3
    <2>7. saved' = [shot |-> saved'.shot, writes |-> saved'.writes, whole |-> saved'.whole]
      BY <2>1
    <2>8. prompt' = [at |-> prompt'.at, calm |-> prompt'.calm]
      BY <2>3
    <2> QED BY <2>4, <2>5, <2>6, <2>7, <2>8 DEF ShotInv, calm
  <1>8. CASE CaptureFails
    BY <1>8 DEF CaptureFails, Slip, ShotInv
  <1>9. CASE StopWatch
    BY <1>9 DEF StopWatch, Slip, ShotInv
  <1>10. CASE StartWatch
    BY <1>10 DEF StartWatch, ShotInv
  <1> QED BY <1>1, <1>2, <1>3, <1>4, <1>5, <1>6, <1>7, <1>8, <1>9, <1>10 DEF ShotNext

\* screenshot.rs: a screenshot that is complete within Delay, and began when nothing
\* had made a task for as long as Window, is captured whole, unless a task that read
\* its file failed or the service stopped before such a task was done.
THEOREM ShotsAreWhole == ShotSpec => []WholeShotCaptured
  <1>1. ShotInit => ShotInv
    BY ShotAssumption DEF ShotInit, ShotInv
  <1>2. ShotInv => WholeShotCaptured
    BY DEF ShotInv, WholeShotCaptured
  <1> QED BY <1>1, <1>2, ShotStep, PTL DEF ShotSpec

-----------------------------------------------------------------------------
(* The captures taken in, edited and listed.                                *)

Capture == [text : Texts, kind : Kinds \cup {"text", "webpage"},
          source : {"ShareMenu", "PeerSync", "Manual", "DragDrop", "AppApi"},
          at : Nat, previous : Texts \cup {NoText}]

\* A version is in the index, older unless its content was captured again.
LeadsBack(x) ==
  x.previous = NoText \/ /\ x.previous \in DOMAIN records
                         /\ x.previous \in again \/ records[x.previous].at < x.at
Known(x) == x \in Capture /\ x.at <= count /\ LeadsBack(x)

\* What a request has in hand.
Jobs == {Free} \cup [at : {"put", "append"}, entry : Capture]
Storing(h) == Does(h, "put")

\* The log tells of a capture, or is about to, or a failed write kept it from it.
LogTells(x) ==
  \/ x \in log \/ x \in untold
  \/ \E h \in Handlers : Does(h, "append") /\ work[h].entry = x

\* What is in the index and what waits to be stored are captures of different times.
IndexInv ==
  /\ DOMAIN records \subseteq Texts /\ IsFiniteSet(DOMAIN records)
  /\ \A t \in DOMAIN records : Known(records[t]) /\ records[t].text = t
  /\ \A t, u \in DOMAIN records : records[t].at = records[u].at => t = u
  /\ \A h \in Handlers : Storing(h) =>
       /\ Known(work[h].entry) /\ \A t \in DOMAIN records : records[t].at # work[h].entry.at
       /\ \A g \in Handlers : Storing(g) /\ work[g].entry.at = work[h].entry.at => h = g

\* No capture is in the index that the log does not tell of sooner or later, unless
\* a write failed; an unterminated line holds only what such a write left.
LogInv ==
  /\ log \subseteq Capture /\ IsFiniteSet(log) /\ log \cap open \subseteq untold
  /\ \A t \in DOMAIN records : LogTells(records[t])

EntriesInv == count \in Nat /\ work \in [Handlers -> Jobs] /\ IndexInv /\ LogInv

\* What a request that is not free has in hand.
LEMMA JobForm ==
  ASSUME NEW j \in Jobs
  PROVE  (j # Free <=> j.at \in {"put", "append"}) /\ (j # Free => j.entry \in Capture)
  BY DEF Jobs, Free

\* What the next stage of a request has in hand.
LEMMA NextJob ==
  ASSUME NEW j \in Jobs, j # Free
  PROVE  LET k == [j EXCEPT !.at = "append"]
         IN k \in Jobs /\ k # Free /\ k.at = "append" /\ k.entry = j.entry
  BY DEF Jobs, Free

\* A new capture has the form of one.
LEMMA NewCapture ==
  ASSUME count \in Nat, NEW text \in Texts, NEW form \in Kinds \cup {"text", "webpage"},
         NEW origin \in {"ShareMenu", "PeerSync", "Manual", "DragDrop", "AppApi"},
         NEW previous \in Texts \cup {NoText}
  PROVE  LET x == New(text, form, origin, previous)
         IN x \in Capture /\ x.at = count + 1 /\ x.previous = previous
  BY DEF New, Capture

\* Where a capture comes from.
LEMMA Sources ==
  ASSUME NEW sender, NEW default \in {"Manual", "DragDrop"}
  PROVE  SourceOf(sender, default) \in {"ShareMenu", "PeerSync", "Manual", "DragDrop", "AppApi"}
  <1>1. CASE sender.kind = "android"
    BY <1>1 DEF SourceOf
  <1>2. CASE sender.kind = ""
    BY <1>2 DEF SourceOf
  <1>3. CASE sender.kind \notin {"", "android"}
    BY <1>3 DEF SourceOf
  <1> QED BY <1>1, <1>2, <1>3

\* The index stays as it is, and requests only leave the store.
LEMMA SameIndex ==
  ASSUME IndexInv, count \in Nat, count' \in Nat, count' >= count, UNCHANGED <<records, again>>,
         \A h \in Handlers : Storing(h)' => Storing(h) /\ work'[h] = work[h]
  PROVE  IndexInv'
  <1>1. ASSUME NEW x, Known(x) PROVE Known(x)'
    <2>1. x \in Capture /\ x.at \in Nat /\ x.at <= count /\ LeadsBack(x)
      BY <1>1 DEF Known, Capture
    <2>2. LeadsBack(x)'
      BY <2>1 DEF LeadsBack
    <2>3. x.at <= count'
      BY <2>1
    <2> QED BY <2>1, <2>2, <2>3 DEF Known
  <1>2. ASSUME NEW t \in DOMAIN records' PROVE Known(records[t])' /\ records'[t].text = t
    <2>1. PICK r : r = records[t]
      OBVIOUS
    <2>2. Known(r)' /\ r.text = t
      BY <1>1, <2>1 DEF IndexInv
    <2>3. records'[t] = r
      BY <2>1
    <2> QED BY <2>2, <2>3 DEF Known, LeadsBack
  <1>3. ASSUME NEW h \in Handlers, Storing(h)'
        PROVE  /\ Known(work[h].entry)' /\ \A t \in DOMAIN records' : records'[t].at # work'[h].entry.at
               /\ \A g \in Handlers : Storing(g)' /\ work'[g].entry.at = work'[h].entry.at => h = g
    <2>1. PICK x : x = work[h].entry
      OBVIOUS
    <2>2. Storing(h) /\ work'[h].entry = x
      BY <1>3, <2>1
    <2>3. Known(x) /\ \A t \in DOMAIN records : records[t].at # x.at
      BY <2>1, <2>2 DEF IndexInv
    <2>4. Known(work[h].entry)'
      BY <1>1, <2>2, <2>3 DEF Known, LeadsBack
    <2>5. \A g \in Handlers : Storing(g)' /\ work'[g].entry.at = x.at => h = g
      BY <2>1, <2>2 DEF IndexInv
    <2> QED BY <2>2, <2>3, <2>4, <2>5
  <1> QED BY <1>2, <1>3 DEF IndexInv

\* The index takes in what a request has waiting, and the request leaves the store.
LEMMA TakenIn ==
  ASSUME IndexInv, count \in Nat, count' = count, NEW e \in Handlers, Storing(e),
         NEW x, x = work[e].entry, Indexes(x),
         ~Storing(e)', \A h \in Handlers : h # e => work'[h] = work[h]
  PROVE  /\ IndexInv'
         /\ \A t \in DOMAIN records' : records'[t] = x \/ (t \in DOMAIN records /\ records'[t] = records[t])
  <1>1. /\ DOMAIN records' = DOMAIN records \cup {x.text}
        /\ records'[x.text] = x
        /\ \A t \in DOMAIN records : t # x.text => records'[t] = records[t]
    BY DEF Indexes
  <1>2. Known(x) /\ x \in Capture /\ x.at \in Nat /\ x.text \in Texts
    BY DEF IndexInv, Known, Capture
  <1>3. ASSUME NEW y \in Capture, LeadsBack(y) PROVE LeadsBack(y)'
    <2>1. CASE y.previous = NoText
      BY <2>1 DEF LeadsBack
    <2>2. CASE y.previous \in DOMAIN records
      <3>1. again \subseteq again' /\ (y.previous = x.text => y.previous \in again')
        BY <2>2 DEF Indexes
      <3>2. y.previous \in again \/ records[y.previous].at < y.at \/ y.previous = NoText
        BY <1>3 DEF LeadsBack
      <3>3. y.previous \in DOMAIN records'
        BY <1>1, <2>2
      <3> QED BY <1>1, <2>2, <3>1, <3>2, <3>3 DEF LeadsBack
    <2> QED BY <1>3, <2>1, <2>2 DEF LeadsBack
  <1>4. ASSUME NEW y, Known(y) PROVE Known(y)'
    BY <1>3, <1>4 DEF Known
  <1>5. DOMAIN records' \subseteq Texts /\ IsFiniteSet(DOMAIN records')
    <2>1. DOMAIN records \subseteq Texts /\ IsFiniteSet(DOMAIN records)
      BY DEF IndexInv
    <2>2. IsFiniteSet(DOMAIN records \cup {x.text})
      BY <2>1, FS_AddElement
    <2> QED BY <1>1, <1>2, <2>1, <2>2
  <1>6. ASSUME NEW t \in DOMAIN records' PROVE Known(records[t])' /\ records'[t].text = t
    <2>1. CASE t = x.text
      <3>1. Known(x)' /\ records'[t] = x
        BY <1>1, <1>2, <1>4, <2>1
      <3> QED BY <2>1, <3>1 DEF Known, LeadsBack
    <2>2. CASE t # x.text
      <3>1. PICK r : r = records[t]
        OBVIOUS
      <3>2. t \in DOMAIN records /\ records'[t] = r
        BY <1>1, <2>2, <3>1
      <3>3. Known(r) /\ r.text = t
        BY <3>1, <3>2 DEF IndexInv
      <3> QED BY <1>4, <3>2, <3>3 DEF Known, LeadsBack
    <2> QED BY <2>1, <2>2
  <1>7. \A t \in DOMAIN records : records[t].at # x.at
    BY DEF IndexInv
  <1>8. \A t, u \in DOMAIN records' : records'[t].at = records'[u].at => t = u
    BY <1>1, <1>7 DEF IndexInv
  <1>9. ASSUME NEW h \in Handlers, Storing(h)'
        PROVE  /\ Known(work[h].entry)' /\ \A t \in DOMAIN records' : records'[t].at # work'[h].entry.at
               /\ \A g \in Handlers : Storing(g)' /\ work'[g].entry.at = work'[h].entry.at => h = g
    <2>1. PICK y : y = work[h].entry
      OBVIOUS
    <2>2. h # e /\ work'[h] = work[h] /\ Storing(h)
      BY <1>9 DEF Storing, Does
    <2>3. Known(y) /\ y.at # x.at /\ (\A t \in DOMAIN records : records[t].at # y.at)
      BY <2>1, <2>2 DEF IndexInv
    <2>4. Known(work[h].entry)'
      BY <1>4, <2>1, <2>2, <2>3 DEF Known, LeadsBack
    <2>5. \A t \in DOMAIN records' : records'[t].at # y.at
      BY <1>1, <2>3
    <2>6. \A g \in Handlers : Storing(g)' => Storing(g) /\ work'[g] = work[g]
      BY DEF Storing, Does
    <2>7. \A g \in Handlers : Storing(g)' /\ work'[g].entry.at = y.at => h = g
      BY <2>1, <2>2, <2>6 DEF IndexInv
    <2> QED BY <2>1, <2>2, <2>4, <2>5, <2>7
  <1>10. IndexInv'
    BY <1>5, <1>6, <1>8, <1>9 DEF IndexInv
  <1>11. ASSUME NEW t \in DOMAIN records'
         PROVE  records'[t] = x \/ (t \in DOMAIN records /\ records'[t] = records[t])
    BY <1>1
  <1> QED BY <1>10, <1>11

\* A capture begun now waits for its turn.
LEMMA Waits ==
  ASSUME EntriesInv, NEW e \in Handlers, NEW x \in Capture, x.at = count + 1, LeadsBack(x), TakeIn(e, x)
  PROVE  EntriesInv'
  <1> DEFINE j == [at |-> "put", entry |-> x]
  <1>1. /\ work[e] = Free /\ count' = count + 1 /\ count \in Nat /\ count' \in Nat
        /\ UNCHANGED <<records, log, open, again, untold>>
    BY DEF TakeIn, EntriesInv
  <1>2. j \in Jobs /\ j # Free /\ j.at = "put" /\ j.entry = x
    BY DEF Jobs, Free
  <1>3. work' = [work EXCEPT ![e] = j]
    BY DEF TakeIn
  <1> HIDE DEF j
  <1>4. work' \in [Handlers -> Jobs] /\ work'[e] = j /\ \A h \in Handlers : h # e => work'[h] = work[h]
    BY <1>2, <1>3 DEF EntriesInv
  <1>5. ASSUME NEW y, Known(y) PROVE Known(y)' /\ y.at # x.at
    <2>1. y \in Capture /\ y.at \in Nat /\ y.at <= count /\ LeadsBack(y)
      BY <1>5 DEF Known, Capture
    <2>2. LeadsBack(y)'
      BY <1>1, <2>1 DEF LeadsBack
    <2>3. y.at <= count' /\ y.at # x.at
      BY <1>1, <2>1
    <2> QED BY <2>1, <2>2, <2>3 DEF Known
  <1>6. Known(x)'
    BY <1>1 DEF Known, LeadsBack, Capture
  <1>7. ASSUME NEW t \in DOMAIN records'
        PROVE  Known(records[t])' /\ records'[t].text = t /\ records'[t].at # x.at
    <2>1. PICK r : r = records[t]
      OBVIOUS
    <2>2. Known(r) /\ r.text = t
      BY <1>1, <2>1 DEF EntriesInv, IndexInv
    <2>3. records'[t] = r
      BY <1>1, <2>1
    <2> QED BY <1>5, <2>2, <2>3 DEF Known, LeadsBack
  <1>8. \A h \in Handlers : Storing(h)' => h = e \/ Storing(h)
    BY <1>4 DEF Storing, Does
  <1>9. ASSUME NEW h \in Handlers, Storing(h)'
        PROVE  /\ Known(work[h].entry)' /\ \A t \in DOMAIN records' : records'[t].at # work'[h].entry.at
               /\ \A g \in Handlers : Storing(g)' /\ work'[g].entry.at = work'[h].entry.at => h = g
    <2>1. \A g \in Handlers : g # e /\ Storing(g)' =>
            work'[g] = work[g] /\ Storing(g) /\ Known(work[g].entry) /\ work[g].entry.at # x.at
      BY <1>4, <1>5, <1>8 DEF EntriesInv, IndexInv
    <2>2. CASE h = e
      <3>1. work'[h].entry = x
        BY <1>2, <1>4, <2>2
      <3>2. Known(work[h].entry)'
        BY <1>6, <3>1 DEF Known, LeadsBack
      <3> QED BY <1>7, <2>1, <2>2, <3>1, <3>2
    <2>3. CASE h # e
      <3>1. PICK y : y = work[h].entry
        OBVIOUS
      <3>2. work'[h].entry = y /\ Storing(h) /\ Known(y) /\ y.at # x.at
        BY <1>9, <2>1, <2>3, <3>1
      <3>3. Known(work[h].entry)'
        BY <1>5, <3>2 DEF Known, LeadsBack
      <3>4. \A t \in DOMAIN records' : records'[t].at # y.at
        BY <1>1, <3>1, <3>2 DEF EntriesInv, IndexInv
      <3>5. \A g \in Handlers : Storing(g)' /\ work'[g].entry.at = y.at => h = g
        <4> SUFFICES ASSUME NEW g \in Handlers, Storing(g)', work'[g].entry.at = y.at PROVE h = g
          OBVIOUS
        <4>1. g # e
          BY <1>2, <1>4, <3>2
        <4>2. Storing(g) /\ work[g].entry.at = y.at
          BY <2>1, <4>1
        <4> QED BY <3>1, <3>2, <4>2 DEF EntriesInv, IndexInv
      <3> QED BY <3>2, <3>3, <3>4, <3>5
    <2> QED BY <2>2, <2>3
  <1>10. IndexInv'
    BY <1>1, <1>7, <1>9 DEF EntriesInv, IndexInv
  <1>11. \A y : LogTells(y) => LogTells(y)'
    <2>1. \A h \in Handlers : Does(h, "append") => h # e /\ work'[h] = work[h]
      BY <1>1, <1>4 DEF Does
    <2> QED BY <1>1, <2>1 DEF LogTells, Does
  <1>12. LogInv'
    BY <1>1, <1>11 DEF EntriesInv, LogInv, LogTells
  <1> QED BY <1>1, <1>4, <1>10, <1>12 DEF EntriesInv

\* A capture of something new.
LEMMA WaitsAnew ==
  ASSUME EntriesInv, NEW e \in Handlers, NEW text \in Texts, NEW form \in Kinds \cup {"text", "webpage"},
         NEW origin \in {"ShareMenu", "PeerSync", "Manual", "DragDrop", "AppApi"},
         TakeIn(e, New(text, form, origin, NoText))
  PROVE  EntriesInv'
  <1>1. PICK x : x = New(text, form, origin, NoText)
    OBVIOUS
  <1>2. x \in Capture /\ x.at = count + 1 /\ x.previous = NoText
    BY <1>1, NewCapture DEF EntriesInv
  <1>3. LeadsBack(x) /\ TakeIn(e, x)
    BY <1>1, <1>2 DEF LeadsBack
  <1> QED BY <1>2, <1>3, Waits

\* What the log tells of goes on being so.
LEMMA TellsStill ==
  ASSUME LogInv, log \subseteq log' \/ log' = log \ open, untold \subseteq untold',
         \A h \in Handlers : Does(h, "append") =>
           \/ Does(h, "append")' /\ work'[h] = work[h]
           \/ work[h].entry \in log' \cup untold',
         NEW x, LogTells(x)
  PROVE  LogTells(x)'
  <1>1. x \in log => x \in log' \/ x \in untold'
    BY DEF LogInv
  <1>2. x \in untold => x \in untold'
    OBVIOUS
  <1>3. ASSUME NEW h \in Handlers, Does(h, "append"), work[h].entry = x
        PROVE  LogTells(x)'
    BY <1>3 DEF LogTells
  <1> QED BY <1>1, <1>2, <1>3 DEF LogTells

\* Every step keeps index and log in order.
LEMMA EntriesStep ==
  ASSUME EntriesInv, [EntriesNext]_entryVars PROVE EntriesInv'
  <1>0. count \in Nat /\ work \in [Handlers -> Jobs] /\ IndexInv /\ LogInv
    BY DEF EntriesInv
  <1>1. CASE UNCHANGED entryVars
    <2>1. UNCHANGED <<records, log, open, work, count, errors, again, untold>>
      BY <1>1 DEF entryVars
    <2>2. \A h \in Handlers : (Storing(h)' <=> Storing(h)) /\ work'[h] = work[h]
                             /\ (Does(h, "append")' <=> Does(h, "append"))
      BY <2>1 DEF Storing, Does
    <2>3. IndexInv'
      BY <1>0, <2>1, <2>2, SameIndex
    <2>4. LogInv'
      BY <1>0, <2>1, <2>2 DEF LogInv, LogTells
    <2> QED BY <1>0, <2>1, <2>3, <2>4 DEF EntriesInv
  <1>2. ASSUME NEW h \in Handlers, NEW text \in Texts, NEW sender \in Senders, CaptureText(h, text, sender)
        PROVE  EntriesInv'
    BY <1>2, Sources, WaitsAnew DEF CaptureText
  <1>3. ASSUME NEW h \in Handlers, NEW text \in Texts, CaptureUrl(h, text) PROVE EntriesInv'
    BY <1>3, WaitsAnew DEF CaptureUrl
  <1>4. ASSUME NEW h \in Handlers, NEW text \in Texts, NEW sender \in Senders, NEW form \in Kinds,
               CaptureDrop(h, text, form, sender)
        PROVE  EntriesInv'
    BY <1>4, Sources, WaitsAnew DEF CaptureDrop
  <1>5. ASSUME NEW h \in Handlers, NEW from \in Texts, NEW text \in Texts, Edit(h, from, text)
        PROVE  EntriesInv'
    <2>1. PICK form : form = records[from].kind
      OBVIOUS
    <2>2. from \in DOMAIN records /\ TakeIn(h, New(text, form, "Manual", from))
      BY <1>5, <2>1 DEF Edit
    <2>3. Known(records[from]) /\ form \in Kinds \cup {"text", "webpage"} /\ records[from].at <= count
          /\ records[from].at \in Nat
      BY <1>0, <2>1, <2>2 DEF IndexInv, Known, Capture
    <2>4. PICK x : x = New(text, form, "Manual", from)
      OBVIOUS
    <2>5. x \in Capture /\ x.at = count + 1 /\ x.previous = from
      <3>1. "Manual" \in {"ShareMenu", "PeerSync", "Manual", "DragDrop", "AppApi"} /\ from \in Texts \cup {NoText}
        OBVIOUS
      <3>2. PICK sort \in Kinds \cup {"text", "webpage"} : sort = form
        BY <2>3
      <3>3. LET new == New(text, sort, "Manual", from)
            IN new \in Capture /\ new.at = count + 1 /\ new.previous = from
        BY <1>0, <3>1, NewCapture, Zenon
      <3> QED BY <2>4, <3>2, <3>3, Zenon
    <2>6. LeadsBack(x)
      BY <1>0, <2>2, <2>3, <2>5 DEF LeadsBack
    <2>7. TakeIn(h, x)
      BY <2>2, <2>4
    <2> QED BY <2>5, <2>6, <2>7, Waits
  <1>6. ASSUME NEW e \in Handlers, Does(e, "put"), Store(e) \/ StoreFails(e) PROVE EntriesInv'
    <2>1. PICK x, j : x = work[e].entry /\ j = work[e]
      OBVIOUS
    <2>2. j \in Jobs /\ j # Free /\ x \in Capture
      BY <1>0, <1>6, <2>1, JobForm DEF Does
    <2>3. PICK k \in Jobs : /\ work' = [work EXCEPT ![e] = k]
                            /\ Store(e) => k # Free /\ k.at = "append" /\ k.entry = x
                            /\ k.at # "put"
      <3>1. CASE Store(e)
        <4>1. work' = [work EXCEPT ![e] = [j EXCEPT !.at = "append"]]
          BY <2>1, <3>1 DEF Store
        <4>2. PICK k : k = [j EXCEPT !.at = "append"]
          OBVIOUS
        <4>3. k \in Jobs /\ k # Free /\ k.at = "append" /\ k.entry = x
          BY <2>1, <2>2, <4>2, NextJob
        <4> QED BY <4>1, <4>2, <4>3
      <3>2. CASE ~Store(e)
        <4>1. work' = [work EXCEPT ![e] = Free]
          BY <1>6, <3>2 DEF StoreFails
        <4>2. Free \in Jobs /\ Free.at # "put"
          BY DEF Jobs, Free
        <4> QED BY <3>2, <4>1, <4>2
      <3> QED BY <3>1, <3>2
    <2>4. work' \in [Handlers -> Jobs] /\ work'[e] = k /\ \A h \in Handlers : h # e => work'[h] = work[h]
      BY <1>0, <2>3
    <2>5. UNCHANGED <<log, open, count>> /\ untold \subseteq untold'
      BY <1>6 DEF Store, StoreFails
    <2>6. ~Storing(e)'
      BY <2>3, <2>4 DEF Storing, Does
    <2>7. \A h \in Handlers : Does(h, "append") => Does(h, "append")' /\ work'[h] = work[h]
      BY <1>6, <2>4 DEF Does
    <2>8. \A y : LogTells(y) => LogTells(y)'
      BY <1>0, <2>5, <2>7, TellsStill
    <2>9. CASE UNCHANGED <<records, again>>
      <3>1. IndexInv'
        <4>1. \A h \in Handlers : Storing(h)' => Storing(h) /\ work'[h] = work[h]
          BY <2>4, <2>6 DEF Storing, Does
        <4> QED BY <1>0, <2>5, <2>9, <4>1, SameIndex
      <3>2. LogInv'
        BY <1>0, <2>5, <2>8, <2>9 DEF LogInv, LogTells
      <3> QED BY <1>0, <2>4, <2>5, <3>1, <3>2 DEF EntriesInv
    <2>10. CASE Indexes(x) /\ (Store(e) \/ x \in untold')
      <3>1. /\ IndexInv'
            /\ \A t \in DOMAIN records' : records'[t] = x \/ (t \in DOMAIN records /\ records'[t] = records[t])
        BY <1>0, <1>6, <2>1, <2>4, <2>5, <2>6, <2>10, TakenIn DEF Storing
      <3>2. LogTells(x)'
        <4>1. Store(e) => Does(e, "append")' /\ work'[e].entry = x
          BY <2>3, <2>4 DEF Does
        <4> QED BY <2>10, <4>1 DEF LogTells
      <3>3. ASSUME NEW t \in DOMAIN records' PROVE LogTells(records[t])'
        <4>1. PICK r : r = records'[t]
          OBVIOUS
        <4>2. LogTells(r)'
          BY <1>0, <2>8, <3>1, <3>2, <4>1 DEF LogInv
        <4> QED BY <4>1, <4>2 DEF LogTells
      <3>4. LogInv'
        BY <1>0, <2>5, <3>3 DEF LogInv
      <3> QED BY <1>0, <2>4, <2>5, <3>1, <3>4 DEF EntriesInv
    <2> QED BY <1>6, <2>1, <2>9, <2>10 DEF Store, StoreFails
  <1>7. ASSUME NEW e \in Handlers, Does(e, "append"), Log(e) \/ LogFails(e) PROVE EntriesInv'
    <2>1. PICK x : x = work[e].entry
      OBVIOUS
    <2>2. x \in Capture
      BY <1>0, <1>7, <2>1, JobForm DEF Does
    <2>3. work' = [work EXCEPT ![e] = Free] /\ UNCHANGED <<records, count, again>>
      BY <1>7 DEF Log, LogFails
    <2>4. work' \in [Handlers -> Jobs] /\ work'[e] = Free /\ \A h \in Handlers : h # e => work'[h] = work[h]
      BY <1>0, <2>3 DEF Jobs
    <2>5. /\ untold \subseteq untold' /\ x \in log' \cup untold'
          /\ log' = log \/ log' = log \cup {x} \/ log' = log \ open
          /\ log' \cap open' \subseteq untold'
      <3>1. CASE Log(e)
        BY <2>1, <3>1 DEF Log
      <3>2. CASE LogFails(e)
        <4>1. untold' = untold \cup {x}
          BY <2>1, <3>2 DEF LogFails
        <4>2. \/ UNCHANGED <<log, open>>
              \/ open' = {Part} /\ (UNCHANGED log \/ log' = log \ open)
              \/ open' = {x} /\ log' = log \cup {x}
          BY <2>1, <3>2 DEF LogFails
        <4>3. Part \notin Capture
          BY DEF Part, Capture
        <4>4. Part \notin log
          BY <1>0, <4>3 DEF LogInv
        <4>5. log \cap open \subseteq untold
          BY <1>0 DEF LogInv
        <4> QED BY <4>1, <4>2, <4>4, <4>5
      <3> QED BY <1>7, <3>1, <3>2
    <2>6. \A h \in Handlers : Does(h, "append") =>
            \/ Does(h, "append")' /\ work'[h] = work[h]
            \/ work[h].entry \in log' \cup untold'
      BY <2>1, <2>4, <2>5 DEF Does
    <2>7. \A y : LogTells(y) => LogTells(y)'
      BY <1>0, <2>5, <2>6, TellsStill
    <2>8. \A h \in Handlers : Storing(h)' => Storing(h) /\ work'[h] = work[h]
      BY <2>4 DEF Storing, Does
    <2>9. IndexInv'
      BY <1>0, <2>3, <2>8, SameIndex
    <2>10. log' \subseteq Capture /\ IsFiniteSet(log')
      <3>1. IsFiniteSet(log) /\ IsFiniteSet(log \cup {x}) /\ IsFiniteSet(log \ open)
        BY <1>0, FS_AddElement, FS_Difference DEF LogInv
      <3> QED BY <1>0, <2>2, <2>5, <3>1 DEF LogInv
    <2>11. \A t \in DOMAIN records' : LogTells(records[t])'
      BY <1>0, <2>3, <2>7 DEF LogInv, LogTells
    <2>12. LogInv'
      BY <2>5, <2>10, <2>11 DEF LogInv
    <2> QED BY <1>0, <2>3, <2>4, <2>9, <2>12 DEF EntriesInv
  <1> QED BY <1>1, <1>2, <1>3, <1>4, <1>5, <1>6, <1>7 DEF EntriesNext, Store, StoreFails, Log, LogFails

\* In every state the captures in the index and those that wait to be stored are of
\* different times, and each leads back to another of the index; the log tells all the
\* index has, but for what a request has still to log and what a failed write kept
\* from it (ingest.rs, entries.rs edit_entry and CaptureEngine::capture).
THEOREM EntriesInvAlways == EntriesSpec => []EntriesInv
  <1>1. EntriesInit => EntriesInv
    <2> SUFFICES ASSUME EntriesInit PROVE EntriesInv
      OBVIOUS
    <2>1. DOMAIN records = {} /\ log = {} /\ open = {} /\ count = 0
      BY DEF EntriesInit
    <2>2. work \in [Handlers -> Jobs] /\ \A h \in Handlers : work[h] = Free
      BY DEF EntriesInit, Jobs
    <2>3. \A h \in Handlers : ~Storing(h)
      BY <2>2 DEF Storing, Does
    <2>4. IndexInv /\ LogInv
      BY <2>1, <2>3, FS_EmptySet DEF IndexInv, LogInv
    <2> QED BY <2>1, <2>2, <2>4 DEF EntriesInv
  <1> QED BY <1>1, EntriesStep, PTL DEF EntriesSpec

\* A set of numbers that is not empty has a least one.
LEMMA LeastNumber ==
  ASSUME NEW S, S \subseteq Nat, S # {}
  PROVE  \E n \in S : \A k \in S : n <= k
  <1>1. IsWellFoundedOn(OpToRel(<, Nat), Nat)
    BY NatLessThanWellFounded
  <1>2. \E n \in S : \A k \in S : ~(<<k, n>> \in OpToRel(<, Nat))
    BY <1>1, WFMin
  <1>3. \A k \in S, n \in S : k < n => <<k, n>> \in OpToRel(<, Nat)
    BY DEF OpToRel
  <1>4. \A k \in S, n \in S : k < n \/ n <= k
    OBVIOUS
  <1> QED BY <1>2, <1>3, <1>4, Zenon

\* entries.rs edit_entry: the versions of a capture lead back to what was captured
\* and no edit, or to a content captured more than once.
THEOREM VersionsLeadBack == EntriesSpec => []EditsLeadBack
  <1>1. EntriesInv => EditsLeadBack
    <2> SUFFICES ASSUME EntriesInv PROVE EditsLeadBack
      OBVIOUS
    <2>1. \A t \in DOMAIN records : LeadsBack(records[t]) /\ records[t].at \in Nat
      BY DEF EntriesInv, IndexInv, Known, Capture
    <2>2. ASSUME NEW circle \in SUBSET DOMAIN records, circle # {}, circle \cap again = {},
                 \A t \in circle : records[t].previous \in circle
          PROVE  FALSE
      <3> DEFINE times == {records[t].at : t \in circle}
      <3>1. times \subseteq Nat /\ times # {}
        BY <2>1, <2>2
      <3>2. PICK n \in times : \A k \in times : n <= k
        BY <3>1, LeastNumber
      <3>3. PICK t \in circle : n = records[t].at
        BY <3>2
      <3>4. records[records[t].previous].at \in times /\ records[t].previous \in circle
        BY <2>2, <3>3
      <3>5. ~(records[records[t].previous].at < records[t].at)
        BY <3>1, <3>2, <3>3, <3>4
      <3>6. records[t].previous # NoText
        BY <2>2, <3>4, EntriesAssumption DEF EntriesInv, IndexInv
      <3> QED BY <2>1, <2>2, <3>3, <3>4, <3>5, <3>6 DEF LeadsBack
    <2> QED BY <2>1, <2>2 DEF EditsLeadBack, LeadsBack
  <1> QED BY <1>1, EntriesInvAlways, PTL


\* Finitely many captures of different times.
Timed(S) ==
  IsFiniteSet(S) /\ S \subseteq Capture /\ \A a, b \in S : a.at = b.at => a = b

After(S, e) == {o \in S : o.at > e.at}

\* What a set holds after a capture, and less after a later one.
LEMMA AfterLess ==
  ASSUME NEW S, Timed(S), NEW a \in S
  PROVE  /\ IsFiniteSet(After(S, a)) /\ Cardinality(After(S, a)) \in 0..(Cardinality(S) - 1)
         /\ \A b \in S : b.at < a.at => Cardinality(After(S, a)) < Cardinality(After(S, b))
  <1>1. \A e \in S : After(S, e) \subseteq S /\ e \notin After(S, e) /\ e.at \in Nat
    BY DEF Timed, After, Capture
  <1>2. \A e \in S : IsFiniteSet(After(S, e)) /\ Cardinality(After(S, e)) \in Nat
    BY <1>1, FS_Subset, FS_CardinalityType DEF Timed
  <1>3. Cardinality(S) \in Nat /\ Cardinality(After(S, a)) < Cardinality(S)
    <2>1. Cardinality(After(S, a)) <= Cardinality(S) /\ Cardinality(After(S, a)) # Cardinality(S)
      BY <1>1, FS_Subset DEF Timed
    <2> QED BY <1>2, <2>1, FS_CardinalityType DEF Timed
  <1>4. ASSUME NEW b \in S, b.at < a.at
        PROVE  Cardinality(After(S, a)) < Cardinality(After(S, b))
    <2>1. After(S, a) \subseteq After(S, b) /\ a \in After(S, b)
      BY <1>1, <1>4 DEF After
    <2>2. /\ Cardinality(After(S, a)) <= Cardinality(After(S, b))
          /\ Cardinality(After(S, a)) # Cardinality(After(S, b))
      BY <1>1, <1>2, <2>1, FS_Subset
    <2> QED BY <1>2, <2>2
  <1> QED BY <1>2, <1>3, <1>4

\* The first so many of a set are so many, if it has more.
LEMMA FirstAreSo ==
  ASSUME NEW S, Timed(S), NEW limit \in Nat, NEW e \in S \ FirstOf(S, limit)
  PROVE  Cardinality({o \in FirstOf(S, limit) : o.at > e.at}) = limit
  <1> DEFINE n == Cardinality(S)
             places == 0..(n - 1)
             Place(x) == Cardinality(After(S, x))
             place == [x \in S |-> Place(x)]
             F == FirstOf(S, limit)
             firsts == 0..(limit - 1)
             spot == [x \in F |-> Place(x)]
  <1>1. \A x \in S : Place(x) \in places
    BY AfterLess
  <1>2. n \in Nat
    BY FS_CardinalityType DEF Timed
  <1>3. \A x, y \in S : Place(x) = Place(y) => x = y
    <2> SUFFICES ASSUME NEW x \in S, NEW y \in S, Place(x) = Place(y), x # y PROVE FALSE
      OBVIOUS
    <2>1. x.at < y.at \/ y.at < x.at
      BY DEF Timed, Capture
    <2>2. Place(x) \in Nat /\ Place(y) \in Nat
      BY <1>1, <1>2
    <2> QED BY <2>1, <2>2, AfterLess
  <1>4. F = {x \in S : Place(x) < limit}
    BY DEF FirstOf, After
  <1>5. Place(e) >= limit /\ limit <= n /\ e \in S
    <2>1. e \in S /\ Place(e) \in places /\ ~(Place(e) < limit)
      BY <1>1, <1>4
    <2> HIDE DEF Place
    <2> QED BY <1>2, <2>1
  <1>6. \A x \in F : x.at > e.at
    <2> SUFFICES ASSUME NEW x \in F, ~(x.at > e.at) PROVE FALSE
      OBVIOUS
    <2>1. x \in S /\ Place(x) < limit /\ Place(x) \in Nat /\ Place(e) \in Nat
      BY <1>1, <1>2, <1>4, <1>5
    <2>2. Place(x) # Place(e) /\ ~(Place(e) < Place(x))
      BY <1>5, <2>1
    <2>3. x # e
      BY <2>2
    <2>4. x.at < e.at
      BY <1>5, <2>1, <2>3 DEF Timed, Capture
    <2> QED BY <1>5, <2>1, <2>2, <2>4, AfterLess
  <1> HIDE DEF Place
  <1>7. place \in Surjection(S, places)
    <2>1. place \in Injection(S, places)
      BY <1>1, <1>3 DEF Injection, IsInjective
    <2>2. IsFiniteSet(places) /\ Cardinality(places) = n
      <3>1. 0 \in Int /\ n - 1 \in Int /\ n \in Nat
        BY <1>2
      <3> HIDE DEF n
      <3>2. Cardinality(0..(n - 1)) = IF 0 > n - 1 THEN 0 ELSE (n - 1) - 0 + 1
        BY <3>1, FS_Interval
      <3>3. IsFiniteSet(places)
        BY <3>1, FS_Interval
      <3> QED BY <3>1, <3>2, <3>3
    <2> QED BY <2>1, <2>2, FS_Injection
  <1>8. spot \in Bijection(F, firsts)
    <2>1. \A x \in F : x \in S /\ Place(x) \in firsts
      BY <1>1, <1>2, <1>4
    <2>2. \A i \in firsts : \E x \in F : Place(x) = i
      <3> SUFFICES ASSUME NEW i \in firsts PROVE \E x \in F : Place(x) = i
        OBVIOUS
      <3>1. i \in places /\ i < limit
        BY <1>2, <1>5
      <3>2. \E x \in S : Place(x) = i
        BY <1>7, <3>1 DEF Surjection
      <3> QED BY <1>4, <3>1, <3>2
    <2> QED BY <1>3, <2>1, <2>2 DEF Bijection, Injection, Surjection, IsInjective
  <1>9. Cardinality(F) = limit
    <2>1. IsFiniteSet(firsts) /\ Cardinality(firsts) = limit
      BY FS_Interval
    <2>2. IsFiniteSet(F)
      <3>1. F \subseteq S
        BY <1>4
      <3> QED BY <3>1, FS_Subset DEF Timed
    <2>3. ExistsBijection(F, firsts)
      BY <1>8 DEF ExistsBijection
    <2> QED BY <2>1, <2>2, <2>3, FS_Bijection
  <1>10. {o \in F : o.at > e.at} = F
    BY <1>6
  <1> QED BY <1>9, <1>10

\* entries.rs list_entries and list_events: the list of captures holds as many as
\* match, up to the limit, and while the log tells no more than the limit each of
\* them is told by an event listed, unless its event is still to be logged, its write
\* failed, or its event continued a line that a failed write had left.
THEOREM ListsAreComplete == EntriesSpec => []ListsComplete
  <1>1. EntriesInv => ListsComplete
    <2> SUFFICES ASSUME EntriesInv, NEW filter \in DOMAIN Filters,
                        NEW origin \in {"any", "Manual", "PeerSync"}, NEW limit \in Limits
                 PROVE  LET entries == ListEntries(filter, origin, limit)
                            matching == Matching(Indexed, filter, origin)
                        IN /\ \A e \in matching \ entries : Cardinality({o \in entries : o.at > e.at}) = limit
                           /\ Cardinality(log) <= limit => \A e \in entries :
                                \/ e \in ListEvents(filter, origin, limit) \/ e \in untold
                                \/ \E h \in Handlers : Does(h, "append") /\ work[h].entry = e
      BY DEF ListsComplete
    <2> DEFINE M == Matching(Indexed, filter, origin)
    <2>1. M \subseteq Indexed /\ ListEntries(filter, origin, limit) = FirstOf(M, limit)
          /\ FirstOf(M, limit) \subseteq M
      BY DEF Matching, ListEntries, FirstOf
    <2>2. Timed(M) /\ limit \in Nat
      <3>1. IsFiniteSet(Indexed)
        <4> DEFINE all == [t \in DOMAIN records |-> records[t]]
        <4>1. IsFiniteSet(DOMAIN records)
          BY DEF EntriesInv, IndexInv
        <4>2. all \in Surjection(DOMAIN records, Indexed)
          BY DEF Surjection, Indexed
        <4> HIDE DEF all
        <4> QED BY <4>1, <4>2, FS_Surjection
      <3>2. IsFiniteSet(M)
        BY <2>1, <3>1, FS_Subset
      <3>3. \A x \in Indexed : \E t \in DOMAIN records : x = records[t] /\ x \in Capture
        BY DEF EntriesInv, IndexInv, Known, Indexed
      <3>4. \A a, b \in M : a.at = b.at => a = b
        BY <2>1, <3>3 DEF EntriesInv, IndexInv
      <3> QED BY <2>1, <3>2, <3>3, <3>4, EntriesAssumption DEF Timed
    <2>3. \A e \in M \ FirstOf(M, limit) : Cardinality({o \in FirstOf(M, limit) : o.at > e.at}) = limit
      BY <2>2, FirstAreSo
    <2>4. ASSUME Cardinality(log) <= limit, NEW e \in M, e \in log PROVE e \in ListEvents(filter, origin, limit)
      <3>1. log \subseteq Capture /\ IsFiniteSet(log)
        BY DEF EntriesInv, LogInv
      <3>2. \A a \in log : Cardinality({o \in log : o.at > a.at}) < limit
        <4> SUFFICES ASSUME NEW a \in log PROVE Cardinality({o \in log : o.at > a.at}) < limit
          OBVIOUS
        <4> DEFINE later == {o \in log : o.at > a.at}
        <4>1. later \subseteq log /\ a \notin later
          BY <3>1 DEF Capture
        <4> HIDE DEF later
        <4>2. IsFiniteSet(later) /\ Cardinality(later) <= Cardinality(log) /\ Cardinality(later) # Cardinality(log)
          BY <3>1, <4>1, FS_Subset
        <4>3. Cardinality(later) \in Nat /\ Cardinality(log) \in Nat
          BY <3>1, <4>2, FS_CardinalityType
        <4>4. Cardinality(later) < limit
          BY <2>2, <2>4, <4>2, <4>3
        <4> QED BY <4>4 DEF later
      <3>3. FirstOf(log, limit) = log
        BY <3>2 DEF FirstOf
      <3> QED BY <2>4, <3>3 DEF ListEvents, Matching
    <2>5. \A e \in M : LogTells(e)
      BY <2>1 DEF EntriesInv, LogInv, Indexed
    <2> QED BY <2>1, <2>3, <2>4, <2>5 DEF LogTells
  <1> QED BY <1>1, EntriesInvAlways, PTL

===============================================================================
