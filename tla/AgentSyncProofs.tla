--------------------------- MODULE AgentSyncProofs ---------------------------
(***************************************************************************)
(* Proofs about AgentSync, for all devices, connections, contents and      *)
(* bounds: a record of a file never overtakes the offer of its content.    *)
(* As long as no connection breaks, no device restarts, no write fails and *)
(* no envelope is ignored, a connection stays up once it is made, and the  *)
(* invariant follows each content along it.                                *)
(***************************************************************************)
EXTENDS AgentSync, FiniteSetTheorems, SequenceTheorems, TLAPS

-----------------------------------------------------------------------------
(* The invariant.                                                           *)

\* Nothing has gone wrong yet.
Clean == ~collided /\ faults = 0

\* The messages side s has yet to send, and those on their way to it.
ToSend(s) == Range(todo[s])
Arriving(s) == {env.msg : env \in Range(wire[s])}

Envelope == [msg : Message, by : Devices, at : Nat]
Ingested(c) == Msg("FileIngest", {c})

SyncTypes ==
  /\ store \in [Devices -> SUBSET Cids] /\ seen \in [Devices -> SUBSET Cids]
  /\ records \in [Devices -> SUBSET Cids] /\ ms \in [Devices -> Nat]
  /\ announcing \in [Devices -> {<<>>} \cup {Announcements(c) : c \in Cids}
                                       \cup {<<Ingested(c)>> : c \in Cids}]
  /\ left \in [Devices -> SUBSET Dials] /\ entry \in [Devices -> SUBSET Dials]
  /\ link \subseteq Dials
  /\ wire \in [Side -> Seq(Envelope)] /\ todo \in [Side -> Seq(Message)]

\* The peers map of a device has the connections it is part of; one of them is left
\* to be told only during an announcement.  What a device has seen it has stored.
EntriesAreLinks ==
  \A d \in Devices :
    /\ entry[d] = {p \in link : d \in {p[1], p[2]}}
    /\ left[d] \subseteq entry[d] /\ (announcing[d] = <<>> => left[d] = {})
    /\ seen[d] \subseteq store[d]

\* A message from one device to another offers what the first has, and asks for
\* what the second has.
Honest(m, from, to) ==
  /\ m.kind = "Have" => m.cids \subseteq store[from]
  /\ m.kind = "Want" => m.cids \subseteq store[to]

MessagesAreHonest ==
  \A s \in Side :
    /\ \A m \in ToSend(s) : m.kind # "FileIngest" /\ Honest(m, s[2], Other(s[1], s[2]))
    /\ \A m \in Arriving(s) : Honest(m, Other(s[1], s[2]), s[2])

\* Message kind about content c is yet to be sent by side s, or arriving from it.
OnItsWay(s, kind, c) ==
  \E m \in ToSend(s) \cup Arriving(<<s[1], Other(s[1], s[2])>>) : m.kind = kind /\ c \in m.cids

\* Side s will offer everything it has: a Hello is on its way to it.
Asked(s) ==
  \/ Hello \in ToSend(<<s[1], Other(s[1], s[2])>>)
  \/ \E m \in Arriving(s) : m.kind = "Hello"

\* Device d has content c of the other end of its connection p, or one of the
\* messages that lead there is on its way.
Offered(p, d, c) ==
  LET e == Other(p, d) IN
  /\ p \in link /\ c \in store[e]
  /\ \/ c \in store[d]
     \/ OnItsWay(<<p, d>>, "Want", c)
     \/ Asked(<<p, e>>)
     \/ OnItsWay(<<p, e>>, "Have", c) \/ OnItsWay(<<p, e>>, "Data", c)

\* The connections of device e on which content c was offered, while c is announced.
AnnouncedIsOffered ==
  \A e \in Devices : \A c \in Cids :
    announcing[e] \in {Announcements(c), <<Ingested(c)>>} =>
      /\ c \in store[e]
      /\ \A p \in link : e \in {p[1], p[2]} =>
           \/ announcing[e] = Announcements(c) /\ p \in left[e]
           \/ Offered(p, Other(p, e), c)

\* A record on its way is of a content that was offered before.
IngestedIsOffered ==
  \A s \in Side : \A m \in Arriving(s) :
    m.kind = "FileIngest" => \A c \in m.cids : Offered(s[1], s[2], c)

RecordedIsOffered ==
  \A d \in Devices : \A c \in records[d] :
    \E s \in Side : s[2] = d /\ Offered(s[1], d, c)

SyncInv ==
  /\ SyncTypes /\ EntriesAreLinks /\ MessagesAreHonest
  /\ AnnouncedIsOffered /\ IngestedIsOffered /\ RecordedIsOffered

-----------------------------------------------------------------------------
(* Sequences of messages.                                                   *)

\* The elements of a sequence, of its front and of its rest.
LEMMA Elements ==
  ASSUME NEW S, NEW q \in Seq(S)
  PROVE  /\ Range(q) \subseteq S
         /\ \A x \in S : Append(q, x) \in Seq(S) /\ Range(Append(q, x)) = Range(q) \cup {x}
         /\ q # <<>> => /\ Head(q) \in Range(q) /\ Tail(q) \in Seq(S)
                        /\ Range(q) = {Head(q)} \cup Range(Tail(q))
  <1>1. Range(q) \subseteq S
    BY DEF Range
  <1>2. ASSUME NEW x \in S
        PROVE  Append(q, x) \in Seq(S) /\ Range(Append(q, x)) = Range(q) \cup {x}
    <2>1. /\ Append(q, x) \in Seq(S) /\ Len(Append(q, x)) = Len(q) + 1 /\ Len(q) \in Nat
          /\ \A i \in 1..Len(q) : Append(q, x)[i] = q[i]
          /\ Append(q, x)[Len(q) + 1] = x
      BY AppendProperties, LenProperties
    <2>2. DOMAIN Append(q, x) = 1..(Len(q) + 1) /\ DOMAIN q = 1..Len(q)
      BY <2>1, LenProperties
    <2> QED BY <2>1, <2>2 DEF Range
  <1>3. ASSUME q # <<>>
        PROVE  /\ Head(q) \in Range(q) /\ Tail(q) \in Seq(S)
               /\ Range(q) = {Head(q)} \cup Range(Tail(q))
    <2>1. Len(q) \in Nat \ {0} /\ DOMAIN q = 1..Len(q) /\ Head(q) = q[1]
      BY <1>3, LenProperties, EmptySeq
    <2>2. /\ Tail(q) \in Seq(S) /\ Len(Tail(q)) = Len(q) - 1
          /\ \A i \in 1..Len(Tail(q)) : Tail(q)[i] = q[i + 1]
      BY <1>3, HeadTailProperties
    <2>3. DOMAIN Tail(q) = 1..(Len(q) - 1)
      BY <2>2, LenProperties
    <2>4. ASSUME NEW i \in 1..Len(q), i # 1
          PROVE  i - 1 \in 1..(Len(q) - 1) /\ Tail(q)[i - 1] = q[i]
      <3>1. i - 1 \in 1..(Len(q) - 1) /\ (i - 1) + 1 = i
        BY <2>1, <2>4
      <3>2. Tail(q)[i - 1] = q[(i - 1) + 1]
        BY <2>2, <3>1
      <3> QED BY <3>1, <3>2
    <2>5. Range(Tail(q)) \subseteq Range(q)
      <3> SUFFICES ASSUME NEW i \in 1..(Len(q) - 1) PROVE Tail(q)[i] \in Range(q)
        BY <2>3 DEF Range
      <3>1. i + 1 \in 1..Len(q) /\ Tail(q)[i] = q[i + 1]
        BY <2>1, <2>2
      <3> QED BY <2>1, <3>1 DEF Range
    <2>6. Range(q) \subseteq {Head(q)} \cup Range(Tail(q))
      <3> SUFFICES ASSUME NEW i \in 1..Len(q) PROVE q[i] \in {Head(q)} \cup Range(Tail(q))
        BY <2>1 DEF Range
      <3> QED BY <2>1, <2>3, <2>4 DEF Range
    <2>7. Head(q) \in Range(q)
      BY <2>1 DEF Range
    <2> QED BY <2>2, <2>5, <2>6, <2>7
  <1> QED BY <1>1, <1>2, <1>3

\* A sequence with nothing in it is empty.
LEMMA NoElements == Range(<<>>) = {}
  BY DEF Range

\* SetToSeq enumerates a finite set.
LEMMA Enumerated ==
  ASSUME NEW S, IsFiniteSet(S)
  PROVE  /\ Cardinality(S) \in Nat
         /\ SetToSeq(S) \in [1..Cardinality(S) -> S]
         /\ \A x \in S : \E n \in 1..Cardinality(S) : SetToSeq(S)[n] = x
  <1> DEFINE I == 1..Cardinality(S)
  <1>1. Cardinality(S) \in Nat /\ ExistsBijection(I, S)
    BY FS_CardinalityType
  <1>2. PICK f : f \in Bijection(I, S)
    BY <1>1 DEF ExistsBijection
  <1>3. f \in [I -> S] /\ IsInjective(f)
    BY <1>2 DEF Bijection, Injection
  <1>4. SetToSeq(S) \in [I -> S] /\ IsInjective(SetToSeq(S))
    <2> HIDE DEF I
    <2> QED BY <1>3 DEF SetToSeq, I
  <1>5. SetToSeq(S) \in Injection(I, S)
    BY <1>4 DEF Injection
  <1>6. Cardinality(I) = Cardinality(S)
    BY <1>1, FS_Interval
  <1>7. SetToSeq(S) \in Surjection(I, S)
    BY <1>5, <1>6, FS_Injection
  <1> QED BY <1>1, <1>4, <1>7 DEF Surjection

-----------------------------------------------------------------------------
(* Connections and messages.                                                *)

\* A connection has two sides, of different devices.
LEMMA Sides ==
  /\ \A s \in Side : s[1] \in Dials /\ s[2] \in {s[1][1], s[1][2]} /\ s = <<s[1], s[2]>>
  /\ \A p \in Dials : \A d \in {p[1], p[2]} :
       /\ d \in Devices /\ <<p, d>> \in Side
       /\ Other(p, d) \in {p[1], p[2]} /\ Other(p, d) \in Devices /\ Other(p, d) # d
       /\ <<p, Other(p, d)>> \in Side /\ Other(p, Other(p, d)) = d
  <1>1. \A p \in Dials : p[1] \in Devices /\ p[2] \in Devices /\ p[1] # p[2]
    BY AgentAssumption
  <1>2. \A s \in Side : s[1] \in Dials /\ s[2] \in {s[1][1], s[1][2]} /\ s = <<s[1], s[2]>>
    BY DEF Side
  <1>3. ASSUME NEW p \in Dials, NEW d \in {p[1], p[2]}
        PROVE  /\ d \in Devices /\ <<p, d>> \in Side
               /\ Other(p, d) \in {p[1], p[2]} /\ Other(p, d) \in Devices /\ Other(p, d) # d
               /\ <<p, Other(p, d)>> \in Side /\ Other(p, Other(p, d)) = d
    BY <1>1 DEF Side, Other
  <1> QED BY <1>2, <1>3

\* What the devices send are messages.
LEMMA Messages ==
  /\ Hello \in Message /\ Hello.kind = "Hello" /\ Hello.cids = {}
  /\ \A kind \in {"Hello", "Have", "Want", "Data", "FileIngest"}, cids \in SUBSET Cids :
       Msg(kind, cids) \in Message /\ Msg(kind, cids).kind = kind /\ Msg(kind, cids).cids = cids
  /\ \A m \in Message : /\ m.cids \subseteq Cids
                        /\ m.kind \in {"Hello", "Have", "Want", "Data", "FileIngest"}
  BY DEF Hello, Message, Msg

\* A message sent on a connection that is up is on its way to the other side.
LEMMA Sending ==
  ASSUME SyncTypes, NEW p \in Dials, NEW d \in {p[1], p[2]}, NEW m \in Message, NEW at \in Nat,
         SendOn(p, d, m, at)
  PROVE  /\ ms' \in [Devices -> Nat] /\ wire' \in [Side -> Seq(Envelope)]
         /\ \A s \in Side : Arriving(s)' = IF p \in link /\ s = <<p, Other(p, d)>>
                                           THEN Arriving(s) \cup {m} ELSE Arriving(s)
  <1> DEFINE r == <<p, Other(p, d)>>
             env == Signed(d, m, at)
  <1>1. r \in Side /\ d \in Devices
    BY Sides
  <1>2. env \in Envelope /\ env.msg = m
    BY <1>1 DEF Signed, Envelope
  <1>3. ms' \in [Devices -> Nat]
    BY DEF SendOn, SyncTypes
  <1>4. CASE p \notin link
    BY <1>3, <1>4 DEF SendOn, SyncTypes, Arriving
  <1>5. CASE p \in link
    <2> HIDE DEF r, env
    <2>1. wire' = [wire EXCEPT ![r] = Append(wire[r], env)]
      BY <1>5 DEF SendOn, r, env
    <2>2. wire[r] \in Seq(Envelope)
      BY <1>1 DEF SyncTypes
    <2>3. Append(wire[r], env) \in Seq(Envelope) /\ Range(Append(wire[r], env)) = Range(wire[r]) \cup {env}
      BY <1>2, <2>2, Elements
    <2>4. wire' \in [Side -> Seq(Envelope)]
      BY <1>1, <2>1, <2>3 DEF SyncTypes
    <2>5. Arriving(r)' = Arriving(r) \cup {m}
      <3>1. wire'[r] = Append(wire[r], env)
        BY <1>1, <2>1 DEF SyncTypes
      <3> QED BY <1>2, <2>3, <3>1 DEF Arriving
    <2>6. \A s \in Side : s # r => Arriving(s)' = Arriving(s)
      BY <1>1, <2>1 DEF SyncTypes, Arriving
    <2> QED BY <1>3, <1>5, <2>4, <2>5, <2>6 DEF r
  <1> QED BY <1>4, <1>5

\* A message that is read is no longer on its way; nothing else changes there.
LEMMA Reading ==
  ASSUME SyncTypes, NEW s \in Side, wire[s] # <<>>, wire' = [wire EXCEPT ![s] = Tail(@)]
  PROVE  LET m == Head(wire[s]).msg IN
         /\ wire' \in [Side -> Seq(Envelope)] /\ m \in Message
         /\ Arriving(s) = {m} \cup Arriving(s)'
         /\ \A r \in Side : r # s => Arriving(r)' = Arriving(r)
  <1>1. wire[s] \in Seq(Envelope)
    BY DEF SyncTypes
  <1>2. /\ Head(wire[s]) \in Range(wire[s]) /\ Tail(wire[s]) \in Seq(Envelope)
        /\ Range(wire[s]) = {Head(wire[s])} \cup Range(Tail(wire[s]))
        /\ Range(wire[s]) \subseteq Envelope
    BY <1>1, Elements
  <1>3. Head(wire[s]).msg \in Message
    BY <1>2 DEF Envelope
  <1>4. wire' \in [Side -> Seq(Envelope)] /\ wire'[s] = Tail(wire[s])
    BY <1>2 DEF SyncTypes
  <1>5. Arriving(s) = {Head(wire[s]).msg} \cup Arriving(s)'
    BY <1>2, <1>4 DEF Arriving
  <1>6. \A r \in Side : r # s => Arriving(r)' = Arriving(r)
    BY DEF SyncTypes, Arriving
  <1> QED BY <1>3, <1>4, <1>5, <1>6

\* What a device answers to a message.
LEMMA Answering ==
  ASSUME SyncTypes, NEW d \in Devices, NEW m \in Message
  PROVE  /\ Answers(d, m) \in Seq(Message)
         /\ \A a \in Range(Answers(d, m)) :
              \/ m.kind = "Hello" /\ a = Msg("Have", store[d])
              \/ m.kind = "Have" /\ \E c \in Missing(d, m.cids) : a = Msg("Want", {c})
              \/ m.kind = "Want" /\ a = Msg("Data", m.cids)
         /\ m.kind = "Hello" => Msg("Have", store[d]) \in Range(Answers(d, m))
         /\ m.kind = "Have" => \A c \in Missing(d, m.cids) : Msg("Want", {c}) \in Range(Answers(d, m))
         /\ m.kind = "Want" /\ m.cids \subseteq store[d] => Msg("Data", m.cids) \in Range(Answers(d, m))
  <1>1. store[d] \subseteq Cids /\ m.cids \subseteq Cids
    BY Messages DEF SyncTypes
  <1>2. ASSUME NEW a \in Message
        PROVE  <<a>> \in Seq(Message) /\ Range(<<a>>) = {a}
    <2>1. \A i \in DOMAIN <<a>> : i = 1
      OBVIOUS
    <2> QED BY <2>1 DEF Range
  <1>3. <<>> \in Seq(Message) /\ Range(<<>>) = {}
    BY NoElements
  <1>4. CASE m.kind = "Hello"
    <2>1. Answers(d, m) = <<Msg("Have", store[d])>>
      BY <1>4 DEF Answers
    <2>2. Msg("Have", store[d]) \in Message
      BY <1>1, Messages
    <2> QED BY <1>2, <1>4, <2>1, <2>2
  <1>5. CASE m.kind = "Have"
    <2> DEFINE S == Missing(d, m.cids)
               asked == [n \in 1..Cardinality(S) |-> Msg("Want", {SetToSeq(S)[n]})]
    <2>1. Answers(d, m) = asked
      BY <1>5 DEF Answers
    <2>2. S \subseteq Cids /\ IsFiniteSet(S)
      <3>1. S \subseteq Cids
        BY <1>1 DEF Missing
      <3> QED BY <3>1, AgentAssumption, FS_Subset
    <2> HIDE DEF S
    <2>3. /\ Cardinality(S) \in Nat /\ SetToSeq(S) \in [1..Cardinality(S) -> S]
          /\ \A c \in S : \E n \in 1..Cardinality(S) : SetToSeq(S)[n] = c
      BY <2>2, Enumerated
    <2>4. \A c \in S : Msg("Want", {c}) \in Message
      BY <2>2, Messages
    <2>5. \A n \in 1..Cardinality(S) : SetToSeq(S)[n] \in S /\ asked[n] = Msg("Want", {SetToSeq(S)[n]})
      BY <2>3
    <2>6. asked \in Seq(Message)
      <3>1. \A n \in 1..Cardinality(S) : Msg("Want", {SetToSeq(S)[n]}) \in Message
        BY <2>4, <2>5
      <3>2. asked \in [1..Cardinality(S) -> Message]
        BY <3>1
      <3> HIDE DEF asked
      <3> QED BY <2>3, <3>2
    <2>7. DOMAIN asked = 1..Cardinality(S)
      OBVIOUS
    <2> HIDE DEF asked
    <2>8. \A a \in Range(asked) : \E c \in S : a = Msg("Want", {c})
      BY <2>5, <2>7 DEF Range
    <2>9. \A c \in S : Msg("Want", {c}) \in Range(asked)
      <3> SUFFICES ASSUME NEW c \in S PROVE Msg("Want", {c}) \in Range(asked)
        OBVIOUS
      <3>1. PICK n \in 1..Cardinality(S) : SetToSeq(S)[n] = c
        BY <2>3
      <3> QED BY <2>5, <2>7, <3>1 DEF Range
    <2> QED BY <1>5, <2>1, <2>6, <2>8, <2>9 DEF S
  <1>6. CASE m.kind = "Want" /\ m.cids \subseteq store[d]
    <2>1. Answers(d, m) = <<Msg("Data", m.cids)>>
      BY <1>6 DEF Answers
    <2>2. Msg("Data", m.cids) \in Message
      BY <1>1, Messages
    <2> QED BY <1>2, <1>6, <2>1, <2>2
  <1>7. CASE m.kind \notin {"Hello", "Have"} /\ ~(m.kind = "Want" /\ m.cids \subseteq store[d])
    <2>1. Answers(d, m) = <<>>
      BY <1>7 DEF Answers
    <2> QED BY <1>3, <1>7, <2>1
  <1> QED BY <1>4, <1>5, <1>6, <1>7

-----------------------------------------------------------------------------
(* What a step that takes nothing away keeps.                               *)

\* The announcements of a content are told apart, and by their content.
LEMMA Announced ==
  ASSUME NEW c \in Cids
  PROVE  /\ Announcements(c) # <<>> /\ Len(Announcements(c)) = 2
         /\ Head(Announcements(c)) = Msg("Have", {c}) /\ Tail(Announcements(c)) = <<Ingested(c)>>
         /\ <<Ingested(c)>> # <<>> /\ Len(<<Ingested(c)>>) = 1
         /\ Head(<<Ingested(c)>>) = Ingested(c) /\ Tail(<<Ingested(c)>>) = <<>>
         /\ Ingested(c) \in Message /\ Ingested(c).kind = "FileIngest" /\ Ingested(c).cids = {c}
         /\ \A b \in Cids : /\ Announcements(c) # <<Ingested(b)>>
                            /\ Announcements(c) = Announcements(b) => b = c
                            /\ <<Ingested(c)>> = <<Ingested(b)>> => b = c
  <1>1. /\ Ingested(c) \in Message /\ Ingested(c).kind = "FileIngest" /\ Ingested(c).cids = {c}
        /\ \A b \in Cids : Ingested(b).cids = {b}
    BY Messages DEF Ingested
  <1>2. Announcements(c) = <<Msg("Have", {c}), Ingested(c)>>
    BY DEF Announcements, Ingested
  <1>3. /\ Announcements(c) # <<>> /\ Len(Announcements(c)) = 2
        /\ Head(Announcements(c)) = Msg("Have", {c}) /\ Tail(Announcements(c)) = <<Ingested(c)>>
    BY <1>2
  <1>4. /\ <<Ingested(c)>> # <<>> /\ Len(<<Ingested(c)>>) = 1
        /\ Head(<<Ingested(c)>>) = Ingested(c) /\ Tail(<<Ingested(c)>>) = <<>>
    OBVIOUS
  <1>5. ASSUME NEW b \in Cids
        PROVE  /\ Announcements(c) # <<Ingested(b)>>
               /\ Announcements(c) = Announcements(b) => b = c
               /\ <<Ingested(c)>> = <<Ingested(b)>> => b = c
    <2>1. Len(<<Ingested(b)>>) = 1
      OBVIOUS
    <2>2. ASSUME <<Ingested(c)>> = <<Ingested(b)>> PROVE b = c
      <3>1. Ingested(c) = Ingested(b)
        BY <2>2
      <3>2. {c} = {b}
        BY <1>1, <3>1
      <3> QED BY <3>2
    <2>3. ASSUME Announcements(c) = Announcements(b) PROVE b = c
      <3>1. Announcements(b) = <<Msg("Have", {b}), Ingested(b)>>
        BY DEF Announcements, Ingested
      <3>2. Tail(Announcements(b)) = <<Ingested(b)>>
        BY <3>1
      <3> QED BY <1>3, <2>2, <2>3, <3>2
    <2> QED BY <1>3, <2>1, <2>2, <2>3
  <1> QED BY <1>1, <1>3, <1>4, <1>5

\* Nothing is lost in this step: contents are kept, connections stay up, and messages
\* at most move on.
Grows ==
  /\ link \subseteq link' /\ \A d \in Devices : store[d] \subseteq store'[d]
  /\ \A p \in link : \A d \in {p[1], p[2]} :
       /\ Arriving(<<p, d>>) \subseteq Arriving(<<p, d>>)'
       /\ ToSend(<<p, d>>) \subseteq ToSend(<<p, d>>)' \cup Arriving(<<p, Other(p, d)>>)'

\* A message that leads to a content stays on its way in such a step.
LEMMA OfferKept ==
  ASSUME SyncTypes, Grows, NEW p \in link, NEW d \in {p[1], p[2]}, NEW c, Offered(p, d, c)
  PROVE  Offered(p, d, c)'
  <1> DEFINE e == Other(p, d)
  <1>1. p \in Dials
    BY DEF SyncTypes
  <1>2. d \in Devices /\ e \in Devices /\ e \in {p[1], p[2]} /\ Other(p, e) = d
    BY <1>1, Sides
  <1> HIDE DEF e
  <1>3. p \in link' /\ store[e] \subseteq store'[e] /\ store[d] \subseteq store'[d]
    BY <1>2 DEF Grows
  <1>4. /\ Arriving(<<p, d>>) \subseteq Arriving(<<p, d>>)'
        /\ Arriving(<<p, e>>) \subseteq Arriving(<<p, e>>)'
        /\ ToSend(<<p, d>>) \subseteq ToSend(<<p, d>>)' \cup Arriving(<<p, e>>)'
        /\ ToSend(<<p, e>>) \subseteq ToSend(<<p, e>>)' \cup Arriving(<<p, d>>)'
    <2>1. Other(p, d) = e
      BY DEF e
    <2> QED BY <1>2, <2>1 DEF Grows
  <1>5. \A kind : /\ OnItsWay(<<p, d>>, kind, c) => OnItsWay(<<p, d>>, kind, c)'
                  /\ OnItsWay(<<p, e>>, kind, c) => OnItsWay(<<p, e>>, kind, c)'
    BY <1>2, <1>4 DEF OnItsWay, e
  <1>6. Asked(<<p, e>>) => Asked(<<p, e>>)'
    BY <1>2, <1>4, Messages DEF Asked
  <1> QED BY <1>3, <1>5, <1>6 DEF Offered, e

\* What was honest stays so while contents are kept.
LEMMA HonestyKept ==
  ASSUME \A d \in Devices : store[d] \subseteq store'[d],
         NEW m, NEW from \in Devices, NEW to \in Devices, Honest(m, from, to)
  PROVE  Honest(m, from, to)'
  BY DEF Honest

\* Records stay behind their offers if those on their way are new only where the
\* content is offered.
LEMMA RecordsKept ==
  ASSUME SyncTypes, Grows, records' = records, IngestedIsOffered, RecordedIsOffered,
         \A s \in Side : \A m \in Arriving(s)' :
           m \in Arriving(s) \/ (m.kind = "FileIngest" => \A c \in m.cids : Offered(s[1], s[2], c))
  PROVE  IngestedIsOffered' /\ RecordedIsOffered'
  <1>1. ASSUME NEW s \in Side, NEW c, Offered(s[1], s[2], c)
        PROVE  Offered(s[1], s[2], c)'
    <2>1. s[1] \in link
      BY <1>1 DEF Offered
    <2>2. s[2] \in {s[1][1], s[1][2]}
      BY Sides
    <2> QED BY <1>1, <2>1, <2>2, OfferKept
  <1>2. IngestedIsOffered'
    BY <1>1 DEF IngestedIsOffered
  <1>3. RecordedIsOffered'
    BY <1>1 DEF RecordedIsOffered
  <1> QED BY <1>2, <1>3

-----------------------------------------------------------------------------
(* The main loop and new connections.                                       *)

\* At first there is nothing to offer and no connection.
LEMMA InitSync == Init => SyncInv
  <1> SUFFICES ASSUME Init PROVE SyncInv
    OBVIOUS
  <1>1. \A s \in Side : ToSend(s) = {} /\ Arriving(s) = {}
    BY NoElements DEF Init, ToSend, Arriving
  <1>2. SyncTypes
    BY AgentAssumption DEF Init, SyncTypes
  <1>3. EntriesAreLinks
    BY AgentAssumption DEF Init, EntriesAreLinks
  <1>4. MessagesAreHonest /\ IngestedIsOffered /\ RecordedIsOffered
    BY <1>1 DEF Init, MessagesAreHonest, IngestedIsOffered, RecordedIsOffered
  <1>5. AnnouncedIsOffered
    BY Announced DEF Init, AnnouncedIsOffered
  <1> QED BY <1>2, <1>3, <1>4, <1>5 DEF SyncInv

\* A new file: its content is there before it is announced on any connection.
LEMMA IngestKeeps ==
  ASSUME SyncInv, NEW d \in Devices, NEW c \in Cids, Ingest(d, c)
  PROVE  SyncInv'
  <1>1. /\ announcing[d] = <<>>
        /\ store' = [store EXCEPT ![d] = store[d] \cup {c}]
        /\ announcing' = [announcing EXCEPT ![d] = Announcements(c)]
        /\ left' = [left EXCEPT ![d] = entry[d]]
        /\ UNCHANGED <<seen, records, ms, entry, link, wire, todo>>
    BY DEF Ingest, linkVars
  <1>2. SyncTypes
    BY DEF SyncInv
  <1>3. \A s \in Side : ToSend(s)' = ToSend(s) /\ Arriving(s)' = Arriving(s)
    BY <1>1 DEF ToSend, Arriving
  <1>4. /\ \A a \in Devices : store[a] \subseteq store'[a]
        /\ store'[d] = store[d] \cup {c} /\ announcing'[d] = Announcements(c)
        /\ left'[d] = entry[d]
        /\ \A a \in Devices : a # d => announcing'[a] = announcing[a] /\ left'[a] = left[a]
    BY <1>1, <1>2 DEF SyncTypes
  <1>5. Grows
    <2>1. \A p \in link : \A a \in {p[1], p[2]} : <<p, a>> \in Side
      BY <1>2, Sides DEF SyncTypes
    <2> QED BY <1>1, <1>3, <1>4, <2>1 DEF Grows
  <1>6. SyncTypes'
    BY <1>1, <1>2 DEF SyncTypes
  <1>7. EntriesAreLinks'
    <2>1. EntriesAreLinks
      BY DEF SyncInv
    <2>2. Announcements(c) # <<>>
      BY Announced
    <2> QED BY <1>1, <1>4, <2>1, <2>2 DEF EntriesAreLinks
  <1>8. MessagesAreHonest'
    <2>1. MessagesAreHonest
      BY DEF SyncInv
    <2>2. \A s \in Side : s[2] \in Devices /\ Other(s[1], s[2]) \in Devices
      BY Sides
    <2> QED BY <1>3, <1>4, <2>1, <2>2, HonestyKept DEF MessagesAreHonest
  <1>9. AnnouncedIsOffered'
    <2> SUFFICES ASSUME NEW e \in Devices, NEW b \in Cids,
                        announcing'[e] \in {Announcements(b), <<Ingested(b)>>}
                 PROVE  /\ b \in store'[e]
                        /\ \A p \in link' : e \in {p[1], p[2]} =>
                             \/ announcing'[e] = Announcements(b) /\ p \in left'[e]
                             \/ Offered(p, Other(p, e), b)'
      BY DEF AnnouncedIsOffered
    <2>1. CASE e = d
      <3>1. b = c /\ announcing'[e] = Announcements(b)
        BY <1>4, <2>1, Announced
      <3>2. \A p \in link : e \in {p[1], p[2]} => p \in left'[e]
        BY <1>4, <2>1 DEF SyncInv, EntriesAreLinks
      <3> QED BY <1>1, <1>4, <2>1, <3>1, <3>2
    <2>2. CASE e # d
      <3>1. announcing'[e] = announcing[e] /\ left'[e] = left[e] /\ link' = link
        BY <1>1, <1>4, <2>2
      <3>2. /\ b \in store[e]
            /\ \A p \in link : e \in {p[1], p[2]} =>
                 \/ announcing[e] = Announcements(b) /\ p \in left[e]
                 \/ Offered(p, Other(p, e), b)
        BY <3>1 DEF SyncInv, AnnouncedIsOffered
      <3>3. \A p \in link : e \in {p[1], p[2]} =>
              (Offered(p, Other(p, e), b) => Offered(p, Other(p, e), b)')
        BY <1>2, <1>5, OfferKept, Sides DEF SyncTypes
      <3> QED BY <1>4, <3>1, <3>2, <3>3
    <2> QED BY <2>1, <2>2
  <1>10. IngestedIsOffered' /\ RecordedIsOffered'
    <2>1. IngestedIsOffered /\ RecordedIsOffered
      BY DEF SyncInv
    <2> QED BY <1>1, <1>2, <1>3, <1>5, <2>1, RecordsKept
  <1> QED BY <1>6, <1>7, <1>8, <1>9, <1>10 DEF SyncInv

\* An announcement goes out on a connection: the offer first, and the record only
\* where the offer went.
LEMMA AnnounceToKeeps ==
  ASSUME SyncInv, NEW d \in Devices, NEW p \in left[d], NEW at \in Nat, AnnounceTo(d, p, at)
  PROVE  SyncInv'
  <1> DEFINE e == Other(p, d)
             m == Head(announcing[d])
  <1>1. SyncTypes /\ EntriesAreLinks
    BY DEF SyncInv
  <1>2. p \in link /\ p \in Dials /\ d \in {p[1], p[2]}
    BY <1>1 DEF SyncTypes, EntriesAreLinks
  <1>3. e \in {p[1], p[2]} /\ e \in Devices /\ <<p, e>> \in Side /\ Other(p, e) = d /\ e # d
    BY <1>2, Sides
  <1>4. /\ SendOn(p, d, m, at) /\ left' = [left EXCEPT ![d] = left[d] \ {p}]
        /\ UNCHANGED <<store, seen, records, announcing, entry, link, todo>>
    BY DEF AnnounceTo, stateVars
  <1>5. PICK c \in Cids : announcing[d] \in {Announcements(c), <<Ingested(c)>>}
    <2>1. announcing[d] # <<>>
      BY <1>1 DEF EntriesAreLinks
    <2> QED BY <1>1, <2>1 DEF SyncTypes
  <1>6. /\ m \in Message /\ m.cids = {c} /\ c \in store[d]
        /\ announcing[d] = Announcements(c) => m.kind = "Have"
        /\ announcing[d] = <<Ingested(c)>> => m.kind = "FileIngest"
    <2>1. c \in store[d]
      BY <1>5 DEF SyncInv, AnnouncedIsOffered
    <2>2. Msg("Have", {c}) \in Message /\ Msg("Have", {c}).kind = "Have" /\ Msg("Have", {c}).cids = {c}
      BY Messages
    <2> QED BY <1>5, <2>1, <2>2, Announced
  <1> HIDE DEF m, e
  <1>7. /\ ms' \in [Devices -> Nat] /\ wire' \in [Side -> Seq(Envelope)]
        /\ \A s \in Side : Arriving(s)' = IF s = <<p, e>> THEN Arriving(s) \cup {m} ELSE Arriving(s)
        /\ \A s \in Side : ToSend(s)' = ToSend(s)
    <2>1. \A s \in Side : ToSend(s)' = ToSend(s)
      BY <1>4 DEF ToSend
    <2> QED BY <1>1, <1>2, <1>4, <1>6, <2>1, Sending DEF e
  <1>8. Grows
    <2>1. \A q \in link : \A a \in {q[1], q[2]} : <<q, a>> \in Side
      BY <1>1, Sides DEF SyncTypes
    <2> QED BY <1>4, <1>7, <2>1 DEF Grows
  <1>9. /\ left'[d] = left[d] \ {p}
        /\ \A a \in Devices : a # d => left'[a] = left[a]
    BY <1>1, <1>4 DEF SyncTypes
  <1>10. SyncTypes'
    BY <1>1, <1>4, <1>7 DEF SyncTypes
  <1>11. EntriesAreLinks'
    BY <1>1, <1>4, <1>9 DEF EntriesAreLinks
  <1>12. MessagesAreHonest'
    <2>1. MessagesAreHonest
      BY DEF SyncInv
    <2>2. Honest(m, d, e)
      BY <1>5, <1>6 DEF Honest
    <2>3. \A s \in Side : /\ \A n \in ToSend(s)' : n.kind # "FileIngest" /\ Honest(n, s[2], Other(s[1], s[2]))
                          /\ \A n \in Arriving(s)' : Honest(n, Other(s[1], s[2]), s[2])
      <3> SUFFICES ASSUME NEW s \in Side
                   PROVE  /\ \A n \in ToSend(s)' : n.kind # "FileIngest" /\ Honest(n, s[2], Other(s[1], s[2]))
                          /\ \A n \in Arriving(s)' : Honest(n, Other(s[1], s[2]), s[2])
        OBVIOUS
      <3>1. /\ \A n \in ToSend(s)' : n.kind # "FileIngest" /\ Honest(n, s[2], Other(s[1], s[2]))
            /\ \A n \in Arriving(s) : Honest(n, Other(s[1], s[2]), s[2])
        BY <1>7, <2>1 DEF MessagesAreHonest
      <3>2. s = <<p, e>> => s[1] = p /\ s[2] = e /\ Other(s[1], s[2]) = d
        BY <1>3
      <3> QED BY <1>7, <2>2, <3>1, <3>2
    <2> QED BY <1>4, <2>3 DEF MessagesAreHonest, Honest
  <1>13. AnnouncedIsOffered'
    <2> SUFFICES ASSUME NEW a \in Devices, NEW b \in Cids,
                        announcing'[a] \in {Announcements(b), <<Ingested(b)>>}
                 PROVE  /\ b \in store'[a]
                        /\ \A q \in link' : a \in {q[1], q[2]} =>
                             \/ announcing'[a] = Announcements(b) /\ q \in left'[a]
                             \/ Offered(q, Other(q, a), b)'
      BY DEF AnnouncedIsOffered
    <2>1. /\ b \in store[a]
          /\ \A q \in link : a \in {q[1], q[2]} =>
               \/ announcing[a] = Announcements(b) /\ q \in left[a]
               \/ Offered(q, Other(q, a), b)
      BY <1>4 DEF SyncInv, AnnouncedIsOffered
    <2>2. \A q \in link : a \in {q[1], q[2]} =>
            (Offered(q, Other(q, a), b) => Offered(q, Other(q, a), b)')
      BY <1>1, <1>8, OfferKept, Sides DEF SyncTypes
    <2>3. CASE a = d /\ announcing[d] = Announcements(c)
      <3>1. b = c
        BY <1>4, <2>3, Announced
      <3>2. OnItsWay(<<p, d>>, "Have", c)'
        BY <1>3, <1>6, <1>7, <2>3 DEF OnItsWay, e
      <3>3. Offered(p, e, c)'
        BY <1>2, <1>3, <1>4, <1>6, <3>2 DEF Offered
      <3> QED BY <1>4, <1>9, <2>1, <2>2, <2>3, <3>1, <3>3 DEF e
    <2>4. CASE ~(a = d /\ announcing[d] = Announcements(c))
      <3>1. a = d => announcing[a] # Announcements(b)
        BY <1>5, <2>4, Announced
      <3> QED BY <1>4, <1>9, <2>1, <2>2, <3>1
    <2> QED BY <2>3, <2>4
  <1>14. IngestedIsOffered' /\ RecordedIsOffered'
    <2>1. IngestedIsOffered /\ RecordedIsOffered
      BY DEF SyncInv
    <2>2. m.kind = "FileIngest" => Offered(p, e, c)
      <3> SUFFICES ASSUME m.kind = "FileIngest" PROVE Offered(p, e, c)
        OBVIOUS
      <3>1. announcing[d] = <<Ingested(c)>> /\ announcing[d] # Announcements(c)
        BY <1>5, <1>6, Announced
      <3> QED BY <1>2, <3>1 DEF SyncInv, AnnouncedIsOffered, e
    <2>3. \A s \in Side : \A n \in Arriving(s)' :
            n \in Arriving(s) \/ (n.kind = "FileIngest" => \A b \in n.cids : Offered(s[1], s[2], b))
      BY <1>6, <1>7, <2>2
    <2> QED BY <1>1, <1>4, <1>8, <2>1, <2>3, RecordsKept
  <1> QED BY <1>10, <1>11, <1>12, <1>13, <1>14 DEF SyncInv

\* The loop goes on to the next announcement once every connection has had this one.
LEMMA AnnounceNextKeeps ==
  ASSUME SyncInv, NEW d \in Devices, AnnounceNext(d)
  PROVE  SyncInv'
  <1>1. /\ announcing[d] # <<>> /\ left[d] = {}
        /\ announcing' = [announcing EXCEPT ![d] = Tail(announcing[d])]
        /\ left' = [left EXCEPT ![d] = IF Len(announcing[d]) = 1 THEN {} ELSE entry[d]]
        /\ UNCHANGED <<store, seen, records, ms, entry, link, wire, todo>>
    BY DEF AnnounceNext, stateVars, linkVars
  <1>2. SyncTypes /\ EntriesAreLinks
    BY DEF SyncInv
  <1>3. PICK c \in Cids : announcing[d] \in {Announcements(c), <<Ingested(c)>>}
    <2>1. announcing[d] \in {<<>>} \cup {Announcements(c) : c \in Cids} \cup {<<Ingested(c)>> : c \in Cids}
      BY <1>2 DEF SyncTypes
    <2> QED BY <1>1, <2>1
  <1>4. /\ announcing'[d] = Tail(announcing[d])
        /\ left'[d] = IF Len(announcing[d]) = 1 THEN {} ELSE entry[d]
        /\ \A a \in Devices : a # d => announcing'[a] = announcing[a] /\ left'[a] = left[a]
    BY <1>1, <1>2 DEF SyncTypes
  <1>5. \/ announcing[d] = Announcements(c) /\ announcing'[d] = <<Ingested(c)>> /\ left'[d] = entry[d]
        \/ announcing[d] = <<Ingested(c)>> /\ announcing'[d] = <<>> /\ left'[d] = {}
    <2>1. CASE announcing[d] = Announcements(c)
      <3>1. Len(announcing[d]) = 2 /\ Tail(announcing[d]) = <<Ingested(c)>>
        BY <2>1, Announced
      <3>2. left'[d] = entry[d]
        BY <1>4, <3>1
      <3> QED BY <1>4, <2>1, <3>1, <3>2
    <2>2. CASE announcing[d] = <<Ingested(c)>>
      BY <1>4, <2>2, Announced
    <2> QED BY <1>3, <2>1, <2>2
  <1>6. \A s \in Side : ToSend(s)' = ToSend(s) /\ Arriving(s)' = Arriving(s)
    BY <1>1 DEF ToSend, Arriving
  <1>7. Grows
    <2>1. \A p \in link : \A a \in {p[1], p[2]} : <<p, a>> \in Side
      BY <1>2, Sides DEF SyncTypes
    <2> QED BY <1>1, <1>6, <2>1 DEF Grows
  <1>8. SyncTypes'
    <2>1. announcing'[d] \in {<<>>} \cup {Announcements(b) : b \in Cids} \cup {<<Ingested(b)>> : b \in Cids}
      BY <1>5
    <2>2. announcing' \in [Devices -> {<<>>} \cup {Announcements(b) : b \in Cids}
                                             \cup {<<Ingested(b)>> : b \in Cids}]
      BY <1>1, <1>2, <1>4, <2>1 DEF SyncTypes
    <2>3. left' \in [Devices -> SUBSET Dials]
      BY <1>1, <1>2 DEF SyncTypes
    <2> QED BY <1>1, <1>2, <2>2, <2>3 DEF SyncTypes
  <1>9. EntriesAreLinks'
    BY <1>1, <1>2, <1>4, <1>5, Announced DEF EntriesAreLinks
  <1>10. MessagesAreHonest'
    BY <1>1, <1>6 DEF SyncInv, MessagesAreHonest, Honest
  <1>11. AnnouncedIsOffered'
    <2> SUFFICES ASSUME NEW a \in Devices, NEW b \in Cids,
                        announcing'[a] \in {Announcements(b), <<Ingested(b)>>}
                 PROVE  /\ b \in store'[a]
                        /\ \A q \in link' : a \in {q[1], q[2]} =>
                             \/ announcing'[a] = Announcements(b) /\ q \in left'[a]
                             \/ Offered(q, Other(q, a), b)'
      BY DEF AnnouncedIsOffered
    <2>1. \A q \in link : a \in {q[1], q[2]} =>
            (Offered(q, Other(q, a), b) => Offered(q, Other(q, a), b)')
      BY <1>2, <1>7, OfferKept, Sides DEF SyncTypes
    <2>2. CASE a = d
      <3>1. b = c /\ announcing[d] = Announcements(c)
        BY <1>5, <2>2, Announced
      <3>2. /\ c \in store[d]
            /\ \A q \in link : d \in {q[1], q[2]} => Offered(q, Other(q, d), c)
        BY <1>1, <3>1 DEF SyncInv, AnnouncedIsOffered
      <3> QED BY <1>1, <2>1, <2>2, <3>1, <3>2
    <2>3. CASE a # d
      <3>1. /\ b \in store[a]
            /\ \A q \in link : a \in {q[1], q[2]} =>
                 \/ announcing[a] = Announcements(b) /\ q \in left[a]
                 \/ Offered(q, Other(q, a), b)
        BY <1>4, <2>3 DEF SyncInv, AnnouncedIsOffered
      <3> QED BY <1>1, <1>4, <2>1, <2>3, <3>1
    <2> QED BY <2>2, <2>3
  <1>12. IngestedIsOffered' /\ RecordedIsOffered'
    <2>1. IngestedIsOffered /\ RecordedIsOffered
      BY DEF SyncInv
    <2> QED BY <1>1, <1>2, <1>6, <1>7, <2>1, RecordsKept
  <1> QED BY <1>8, <1>9, <1>10, <1>11, <1>12 DEF SyncInv

\* A new connection: both sides are asked for what they have.
LEMMA ConnectKeeps ==
  ASSUME SyncInv, NEW p \in Dials, Connect(p)
  PROVE  SyncInv'
  <1>1. /\ left[p[1]] = {} /\ left[p[2]] = {} /\ p \notin link /\ link' = link \cup {p}
        /\ entry' = [d \in Devices |-> IF d \in {p[1], p[2]} THEN entry[d] \cup {p} ELSE entry[d]]
        /\ todo' = [s \in Side |-> IF s[1] = p THEN <<Hello>> ELSE todo[s]]
        /\ UNCHANGED <<store, seen, records, ms, announcing, left, wire>>
    BY DEF Connect, stateVars, mainVars
  <1>2. SyncTypes /\ EntriesAreLinks
    BY DEF SyncInv
  <1>3. <<Hello>> \in Seq(Message) /\ Range(<<Hello>>) = {Hello}
    <2>1. \A i \in DOMAIN <<Hello>> : i = 1
      OBVIOUS
    <2>2. Range(<<Hello>>) = {Hello}
      BY <2>1 DEF Range
    <2> QED BY <2>2, Messages
  <1>4. \A s \in Side : /\ Arriving(s)' = Arriving(s)
                        /\ ToSend(s)' = IF s[1] = p THEN {Hello} ELSE ToSend(s)
    BY <1>1, <1>3 DEF ToSend, Arriving
  <1>5. Grows
    <2>1. \A q \in link : \A a \in {q[1], q[2]} : <<q, a>> \in Side /\ q # p
      BY <1>1, <1>2, Sides DEF SyncTypes
    <2> QED BY <1>1, <1>4, <2>1 DEF Grows
  <1>6. SyncTypes'
    <2>1. todo' \in [Side -> Seq(Message)]
      BY <1>1, <1>2, <1>3 DEF SyncTypes
    <2>2. entry' \in [Devices -> SUBSET Dials] /\ link' \subseteq Dials
      BY <1>1, <1>2 DEF SyncTypes
    <2> QED BY <1>1, <1>2, <2>1, <2>2 DEF SyncTypes
  <1>7. EntriesAreLinks'
    <2>1. \A d \in Devices : entry'[d] = IF d \in {p[1], p[2]} THEN entry[d] \cup {p} ELSE entry[d]
      BY <1>1
    <2> QED BY <1>1, <1>2, <2>1 DEF EntriesAreLinks
  <1>8. MessagesAreHonest'
    <2>1. Hello.kind = "Hello"
      BY Messages
    <2> QED BY <1>1, <1>4, <2>1 DEF SyncInv, MessagesAreHonest, Honest
  <1>9. AnnouncedIsOffered'
    <2> SUFFICES ASSUME NEW a \in Devices, NEW b \in Cids,
                        announcing[a] \in {Announcements(b), <<Ingested(b)>>}
                 PROVE  /\ b \in store[a]
                        /\ \A q \in link' : a \in {q[1], q[2]} =>
                             \/ announcing[a] = Announcements(b) /\ q \in left[a]
                             \/ Offered(q, Other(q, a), b)'
      BY <1>1 DEF AnnouncedIsOffered
    <2>1. /\ b \in store[a]
          /\ \A q \in link : a \in {q[1], q[2]} =>
               \/ announcing[a] = Announcements(b) /\ q \in left[a]
               \/ Offered(q, Other(q, a), b)
      BY DEF SyncInv, AnnouncedIsOffered
    <2>2. \A q \in link : a \in {q[1], q[2]} =>
            (Offered(q, Other(q, a), b) => Offered(q, Other(q, a), b)')
      BY <1>2, <1>5, OfferKept, Sides DEF SyncTypes
    <2>3. a \in {p[1], p[2]} => Offered(p, Other(p, a), b)'
      <3> SUFFICES ASSUME a \in {p[1], p[2]} PROVE Offered(p, Other(p, a), b)'
        OBVIOUS
      <3>1. Other(p, Other(p, a)) = a /\ <<p, Other(p, a)>> \in Side
        BY Sides
      <3>2. Hello \in ToSend(<<p, Other(p, a)>>)'
        BY <1>4, <3>1
      <3>3. Asked(<<p, a>>)'
        BY <3>2 DEF Asked
      <3> QED BY <1>1, <2>1, <3>1, <3>3 DEF Offered
    <2> QED BY <1>1, <2>1, <2>2, <2>3
  <1>10. IngestedIsOffered' /\ RecordedIsOffered'
    <2>1. IngestedIsOffered /\ RecordedIsOffered
      BY DEF SyncInv
    <2> QED BY <1>1, <1>2, <1>4, <1>5, <2>1, RecordsKept
  <1> QED BY <1>6, <1>7, <1>8, <1>9, <1>10 DEF SyncInv

-----------------------------------------------------------------------------
(* The handlers.                                                            *)

\* An answer is sent: it moves from the side's list to the connection.
LEMMA SendTodoKeeps ==
  ASSUME SyncInv, NEW p \in Dials, NEW d \in {p[1], p[2]}, NEW at \in Nat, SendTodo(p, d, at)
  PROVE  SyncInv'
  <1> DEFINE e == Other(p, d)
             m == Head(todo[<<p, d>>])
  <1>1. SyncTypes /\ EntriesAreLinks /\ MessagesAreHonest
    BY DEF SyncInv
  <1>2. /\ <<p, d>> \in Side /\ d \in Devices /\ e \in {p[1], p[2]} /\ e \in Devices
        /\ <<p, e>> \in Side /\ Other(p, e) = d /\ e # d
    BY Sides
  <1>3. /\ SendOn(p, d, m, at) /\ todo[<<p, d>>] # <<>>
        /\ todo' = [todo EXCEPT ![<<p, d>>] = Tail(todo[<<p, d>>])]
        /\ UNCHANGED <<store, seen, records, announcing, left, entry, link>>
    BY DEF SendTodo, stateVars, mainVars
  <1>4. /\ m \in Message /\ m \in ToSend(<<p, d>>) /\ Tail(todo[<<p, d>>]) \in Seq(Message)
        /\ ToSend(<<p, d>>) = {m} \cup Range(Tail(todo[<<p, d>>]))
    <2>1. todo[<<p, d>>] \in Seq(Message)
      BY <1>1, <1>2 DEF SyncTypes
    <2>2. /\ Head(todo[<<p, d>>]) \in Range(todo[<<p, d>>])
          /\ Tail(todo[<<p, d>>]) \in Seq(Message) /\ Range(todo[<<p, d>>]) \subseteq Message
          /\ Range(todo[<<p, d>>]) = {Head(todo[<<p, d>>])} \cup Range(Tail(todo[<<p, d>>]))
      BY <1>3, <2>1, Elements
    <2> QED BY <2>2 DEF ToSend
  <1>5. m.kind # "FileIngest" /\ Honest(m, d, e)
    BY <1>1, <1>2, <1>4 DEF MessagesAreHonest
  <1> HIDE DEF m, e
  <1>6. /\ ms' \in [Devices -> Nat] /\ wire' \in [Side -> Seq(Envelope)]
        /\ \A s \in Side : Arriving(s)' = IF p \in link /\ s = <<p, e>>
                                          THEN Arriving(s) \cup {m} ELSE Arriving(s)
    BY <1>1, <1>3, <1>4, Sending DEF e
  <1>7. /\ todo' \in [Side -> Seq(Message)]
        /\ ToSend(<<p, d>>) = {m} \cup ToSend(<<p, d>>)'
        /\ \A s \in Side : s # <<p, d>> => ToSend(s)' = ToSend(s)
    <2>1. todo' \in [Side -> Seq(Message)] /\ todo'[<<p, d>>] = Tail(todo[<<p, d>>])
      BY <1>1, <1>2, <1>3, <1>4 DEF SyncTypes
    <2>2. \A s \in Side : s # <<p, d>> => todo'[s] = todo[s]
      BY <1>1, <1>3 DEF SyncTypes
    <2> QED BY <1>4, <2>1, <2>2 DEF ToSend
  <1>8. Grows
    <2> SUFFICES ASSUME NEW q \in link, NEW a \in {q[1], q[2]}
                 PROVE  /\ Arriving(<<q, a>>) \subseteq Arriving(<<q, a>>)'
                        /\ ToSend(<<q, a>>) \subseteq ToSend(<<q, a>>)' \cup Arriving(<<q, Other(q, a)>>)'
      BY <1>3 DEF Grows
    <2>1. <<q, a>> \in Side
      BY <1>1, Sides DEF SyncTypes
    <2>2. Arriving(<<q, a>>) \subseteq Arriving(<<q, a>>)'
      BY <1>6, <2>1
    <2>3. CASE <<q, a>> = <<p, d>>
      <3>1. q = p /\ a = d /\ p \in link
        BY <2>3
      <3>2. m \in Arriving(<<q, Other(q, a)>>)'
        BY <1>2, <1>6, <3>1 DEF e
      <3> QED BY <1>7, <2>2, <3>1, <3>2
    <2>4. CASE <<q, a>> # <<p, d>>
      BY <1>7, <2>1, <2>2, <2>4
    <2> QED BY <2>3, <2>4
  <1>9. SyncTypes'
    BY <1>1, <1>3, <1>6, <1>7 DEF SyncTypes
  <1>10. EntriesAreLinks'
    BY <1>1, <1>3 DEF EntriesAreLinks
  <1>11. MessagesAreHonest'
    <2> SUFFICES ASSUME NEW s \in Side
                 PROVE  /\ \A n \in ToSend(s)' : n.kind # "FileIngest" /\ Honest(n, s[2], Other(s[1], s[2]))
                        /\ \A n \in Arriving(s)' : Honest(n, Other(s[1], s[2]), s[2])
      BY <1>3 DEF MessagesAreHonest, Honest
    <2>1. /\ \A n \in ToSend(s) : n.kind # "FileIngest" /\ Honest(n, s[2], Other(s[1], s[2]))
          /\ \A n \in Arriving(s) : Honest(n, Other(s[1], s[2]), s[2])
      BY <1>1 DEF MessagesAreHonest
    <2>2. ToSend(s)' \subseteq ToSend(s)
      BY <1>7
    <2>3. s = <<p, e>> => s[1] = p /\ s[2] = e /\ Other(s[1], s[2]) = d
      BY <1>2
    <2> QED BY <1>5, <1>6, <2>1, <2>2, <2>3
  <1>12. AnnouncedIsOffered'
    <2> SUFFICES ASSUME NEW a \in Devices, NEW b \in Cids,
                        announcing[a] \in {Announcements(b), <<Ingested(b)>>}
                 PROVE  /\ b \in store[a]
                        /\ \A q \in link : a \in {q[1], q[2]} =>
                             \/ announcing[a] = Announcements(b) /\ q \in left[a]
                             \/ Offered(q, Other(q, a), b)'
      BY <1>3 DEF AnnouncedIsOffered
    <2>1. /\ b \in store[a]
          /\ \A q \in link : a \in {q[1], q[2]} =>
               \/ announcing[a] = Announcements(b) /\ q \in left[a]
               \/ Offered(q, Other(q, a), b)
      BY DEF SyncInv, AnnouncedIsOffered
    <2>2. \A q \in link : a \in {q[1], q[2]} =>
            (Offered(q, Other(q, a), b) => Offered(q, Other(q, a), b)')
      BY <1>1, <1>8, OfferKept, Sides DEF SyncTypes
    <2> QED BY <2>1, <2>2
  <1>13. IngestedIsOffered' /\ RecordedIsOffered'
    <2>1. IngestedIsOffered /\ RecordedIsOffered
      BY DEF SyncInv
    <2>2. \A s \in Side : \A n \in Arriving(s)' : n \in Arriving(s) \/ n.kind # "FileIngest"
      BY <1>5, <1>6
    <2> QED BY <1>1, <1>3, <1>8, <2>1, <2>2, RecordsKept
  <1> QED BY <1>9, <1>10, <1>11, <1>12, <1>13 DEF SyncInv

\* Side d of connection p reads message m, and nothing fails.
Reads(p, d, m) ==
  /\ ToSend(<<p, d>>) = {} /\ m \in Message /\ Arriving(<<p, d>>) = {m} \cup Arriving(<<p, d>>)'
  /\ ToSend(<<p, d>>)' = Range(Answers(d, m))
  /\ \A s \in Side : s # <<p, d>> => Arriving(s)' = Arriving(s) /\ ToSend(s)' = ToSend(s)
  /\ store'[d] = IF m.kind = "Data" THEN store[d] \cup m.cids ELSE store[d]
  /\ \A a \in Devices : a # d => store'[a] = store[a]
  /\ link' = link

\* The reader of a message goes on towards the contents it is offered: an offer is
\* answered with a request, and what comes is stored.
LEMMA ReaderOffered ==
  ASSUME SyncInv, NEW p \in Dials, NEW d \in {p[1], p[2]}, NEW m, Reads(p, d, m),
         NEW c, Offered(p, d, c)
  PROVE  Offered(p, d, c)'
  <1> DEFINE e == Other(p, d)
  <1>1. /\ <<p, d>> \in Side /\ d \in Devices /\ e \in {p[1], p[2]} /\ e \in Devices
        /\ <<p, e>> \in Side /\ Other(p, e) = d /\ e # d
    BY Sides
  <1>2. /\ Arriving(<<p, e>>)' = Arriving(<<p, e>>) /\ ToSend(<<p, e>>)' = ToSend(<<p, e>>)
        /\ store'[e] = store[e] /\ store[d] \subseteq store'[d] /\ link' = link
    BY <1>1 DEF Reads
  <1>3. Other(p, d) = e
    OBVIOUS
  <1> HIDE DEF e
  <1>4. p \in link /\ c \in store[e]
    BY <1>3 DEF Offered
  <1>5. CASE c \in store[d]
    BY <1>2, <1>3, <1>4, <1>5 DEF Offered
  <1>6. CASE OnItsWay(<<p, d>>, "Want", c)
    <2>1. OnItsWay(<<p, d>>, "Want", c)'
      BY <1>2, <1>3, <1>6 DEF OnItsWay, Reads
    <2> QED BY <1>2, <1>3, <1>4, <2>1 DEF Offered
  <1>7. CASE Asked(<<p, e>>)
    <2>1. Asked(<<p, e>>)'
      BY <1>1, <1>2, <1>7 DEF Asked, Reads
    <2> QED BY <1>2, <1>3, <1>4, <2>1 DEF Offered
  <1>8. ASSUME NEW kind \in {"Have", "Data"}, OnItsWay(<<p, e>>, kind, c), c \notin store[d]
        PROVE  Offered(p, d, c)'
    <2>1. PICK n \in ToSend(<<p, e>>) \cup Arriving(<<p, d>>) : n.kind = kind /\ c \in n.cids
      BY <1>1, <1>8 DEF OnItsWay
    <2>2. CASE n \in ToSend(<<p, e>>) \cup Arriving(<<p, d>>)'
      <3>1. OnItsWay(<<p, e>>, kind, c)'
        BY <1>1, <1>2, <2>1, <2>2 DEF OnItsWay
      <3> QED BY <1>2, <1>3, <1>4, <3>1 DEF Offered
    <2>3. CASE n = m /\ kind = "Data"
      <3>1. c \in store'[d]
        BY <2>1, <2>3 DEF Reads
      <3> QED BY <1>2, <1>3, <1>4, <3>1 DEF Offered
    <2>4. CASE n = m /\ kind = "Have"
      <3>1. c \in Missing(d, m.cids)
        BY <1>1, <1>8, <2>1, <2>4 DEF Missing, SyncInv, EntriesAreLinks
      <3>2. Msg("Want", {c}) \in ToSend(<<p, d>>)'
        <4>1. SyncTypes /\ m \in Message
          BY DEF SyncInv, Reads
        <4>2. Msg("Want", {c}) \in Range(Answers(d, m))
          BY <1>1, <2>1, <2>4, <3>1, <4>1, Answering
        <4> QED BY <4>2 DEF Reads
      <3>3. Msg("Want", {c}).kind = "Want" /\ Msg("Want", {c}).cids = {c}
        BY DEF Msg
      <3>4. OnItsWay(<<p, d>>, "Want", c)'
        BY <3>2, <3>3 DEF OnItsWay
      <3> QED BY <1>2, <1>3, <1>4, <3>4 DEF Offered
    <2>5. n \in ToSend(<<p, e>>) \cup Arriving(<<p, d>>)' \/ n = m
      BY <2>1 DEF Reads
    <2> QED BY <1>8, <2>2, <2>3, <2>4, <2>5
  <1> QED BY <1>3, <1>5, <1>6, <1>7, <1>8 DEF Offered

\* The other side of a connection whose message is read is answered: with what it
\* asked for, or with an offer of everything there is.
LEMMA OtherOffered ==
  ASSUME SyncInv, NEW p \in Dials, NEW d \in {p[1], p[2]}, NEW m, Reads(p, d, m),
         NEW c, Offered(p, Other(p, d), c)
  PROVE  Offered(p, Other(p, d), c)'
  <1> DEFINE e == Other(p, d)
  <1>1. /\ <<p, d>> \in Side /\ d \in Devices /\ e \in {p[1], p[2]} /\ e \in Devices
        /\ <<p, e>> \in Side /\ Other(p, e) = d /\ e # d
    BY Sides
  <1>2. /\ Arriving(<<p, e>>)' = Arriving(<<p, e>>) /\ ToSend(<<p, e>>)' = ToSend(<<p, e>>)
        /\ store'[e] = store[e] /\ store[d] \subseteq store'[d] /\ link' = link
    BY <1>1 DEF Reads
  <1>3. Other(p, d) = e
    OBVIOUS
  <1> HIDE DEF e
  <1>4. /\ p \in link /\ c \in store[d]
        /\ \/ c \in store[e] \/ OnItsWay(<<p, e>>, "Want", c) \/ Asked(<<p, d>>)
           \/ OnItsWay(<<p, d>>, "Have", c) \/ OnItsWay(<<p, d>>, "Data", c)
    BY <1>1, <1>3 DEF Offered
  <1>5. SyncTypes /\ m \in Message
    BY DEF SyncInv, Reads
  <1>6. SUFFICES \/ c \in store'[e] \/ OnItsWay(<<p, e>>, "Want", c)' \/ Asked(<<p, d>>)'
                 \/ OnItsWay(<<p, d>>, "Have", c)' \/ OnItsWay(<<p, d>>, "Data", c)'
    BY <1>1, <1>2, <1>3, <1>4 DEF Offered
  <1>7. CASE OnItsWay(<<p, e>>, "Want", c)
    <2>1. PICK n \in ToSend(<<p, e>>) \cup Arriving(<<p, d>>) : n.kind = "Want" /\ c \in n.cids
      BY <1>1, <1>7 DEF OnItsWay
    <2>2. CASE n \in ToSend(<<p, e>>) \cup Arriving(<<p, d>>)'
      BY <1>1, <1>2, <2>1, <2>2 DEF OnItsWay
    <2>3. CASE n = m
      <3>1. m.cids \subseteq store[d]
        BY <1>1, <2>1, <2>3 DEF SyncInv, MessagesAreHonest, Honest, Reads
      <3>2. Msg("Data", m.cids) \in ToSend(<<p, d>>)'
        <4>1. Msg("Data", m.cids) \in Range(Answers(d, m))
          BY <1>1, <1>5, <2>1, <2>3, <3>1, Answering
        <4> QED BY <4>1 DEF Reads
      <3>3. Msg("Data", m.cids).kind = "Data" /\ c \in Msg("Data", m.cids).cids
        BY <2>1, <2>3 DEF Msg
      <3> QED BY <3>2, <3>3 DEF OnItsWay
    <2> QED BY <2>1, <2>2, <2>3 DEF Reads
  <1>8. CASE Asked(<<p, d>>)
    <2>1. CASE Hello \in ToSend(<<p, e>>)
      BY <1>2, <1>3, <2>1 DEF Asked
    <2>2. CASE \E n \in Arriving(<<p, d>>)' : n.kind = "Hello"
      BY <2>2 DEF Asked
    <2>3. CASE m.kind = "Hello"
      <3>1. Msg("Have", store[d]) \in ToSend(<<p, d>>)'
        <4>1. Msg("Have", store[d]) \in Range(Answers(d, m))
          BY <1>1, <1>5, <2>3, Answering
        <4> QED BY <4>1 DEF Reads
      <3>2. Msg("Have", store[d]).kind = "Have" /\ c \in Msg("Have", store[d]).cids
        BY <1>4 DEF Msg
      <3> QED BY <3>1, <3>2 DEF OnItsWay
    <2> QED BY <1>3, <1>8, <2>1, <2>2, <2>3 DEF Asked, Reads
  <1>9. ASSUME NEW kind \in {"Have", "Data"}, OnItsWay(<<p, d>>, kind, c)
        PROVE  OnItsWay(<<p, d>>, kind, c)'
    BY <1>2, <1>3, <1>9 DEF OnItsWay, Reads
  <1> QED BY <1>2, <1>4, <1>7, <1>8, <1>9

\* A message is read and handled, and what it brings is stored.
LEMMA ReceiveKeeps ==
  ASSUME SyncInv, NEW p \in Dials, NEW d \in {p[1], p[2]}, Receive(p, d, TRUE)
  PROVE  SyncInv'
  <1> DEFINE s == <<p, d>>
             e == Other(p, d)
  <1>1. SyncTypes /\ EntriesAreLinks /\ MessagesAreHonest
    BY DEF SyncInv
  <1>2. /\ s \in Side /\ d \in Devices /\ e \in {p[1], p[2]} /\ e \in Devices
        /\ <<p, e>> \in Side /\ Other(p, e) = d /\ e # d
    BY Sides
  <1>m. PICK m : m = Head(wire[s]).msg
    OBVIOUS
  <1>3. /\ todo[s] = <<>> /\ wire[s] # <<>> /\ wire' = [wire EXCEPT ![s] = Tail(@)]
        /\ todo' = [todo EXCEPT ![s] = Answers(d, m)]
        /\ store' = IF m.kind = "Data" THEN [store EXCEPT ![d] = store[d] \cup m.cids] ELSE store
        /\ seen' = [seen EXCEPT ![d] = seen[d] \cup Learned(m)]
        /\ records' = IF m.kind = "FileIngest"
                      THEN [records EXCEPT ![d] = records[d] \cup m.cids] ELSE records
        /\ UNCHANGED <<ms, announcing, left, entry, link>>
    BY <1>m DEF Receive, mainVars
  <1>4. /\ wire' \in [Side -> Seq(Envelope)] /\ m \in Message
        /\ Arriving(s) = {m} \cup Arriving(s)'
        /\ \A r \in Side : r # s => Arriving(r)' = Arriving(r)
    <2> HIDE DEF s
    <2> QED BY <1>1, <1>2, <1>3, <1>m, Reading
  <1>5. /\ Answers(d, m) \in Seq(Message) /\ m.cids \subseteq Cids
        /\ \A a \in Range(Answers(d, m)) :
             \/ m.kind = "Hello" /\ a = Msg("Have", store[d])
             \/ m.kind = "Have" /\ \E c \in Missing(d, m.cids) : a = Msg("Want", {c})
             \/ m.kind = "Want" /\ a = Msg("Data", m.cids)
    <2>1. m.cids \subseteq Cids
      BY <1>4, Messages
    <2> QED BY <1>1, <1>2, <1>4, <2>1, Answering
  <1> HIDE DEF s, e
  <1>6. /\ todo' \in [Side -> Seq(Message)] /\ ToSend(s) = {} /\ ToSend(s)' = Range(Answers(d, m))
        /\ \A r \in Side : r # s => ToSend(r)' = ToSend(r)
    <2>1. todo' \in [Side -> Seq(Message)] /\ todo'[s] = Answers(d, m)
      BY <1>1, <1>2, <1>3, <1>5 DEF SyncTypes
    <2>2. \A r \in Side : r # s => todo'[r] = todo[r]
      BY <1>1, <1>3 DEF SyncTypes
    <2> QED BY <1>3, <2>1, <2>2, NoElements DEF ToSend
  <1>7. /\ store'[d] = IF m.kind = "Data" THEN store[d] \cup m.cids ELSE store[d]
        /\ \A a \in Devices : a # d => store'[a] = store[a]
        /\ \A a \in Devices : store[a] \subseteq store'[a]
    BY <1>1, <1>2, <1>3 DEF SyncTypes
  <1>8. Reads(p, d, m)
    BY <1>3, <1>4, <1>6, <1>7 DEF Reads, s
  <1>9. ASSUME NEW q \in link, NEW a \in {q[1], q[2]}, NEW c, Offered(q, a, c)
        PROVE  Offered(q, a, c)'
    <2>1. q \in Dials
      BY <1>1 DEF SyncTypes
    <2>2. CASE q = p
      <3>1. a = d \/ a = e
        BY <2>2 DEF e, Other
      <3> QED BY <1>8, <1>9, <2>2, <3>1, ReaderOffered, OtherOffered DEF e
    <2>3. CASE q # p
      <3>1. /\ <<q, a>> \in Side /\ <<q, Other(q, a)>> \in Side /\ Other(q, Other(q, a)) = a
            /\ a \in Devices /\ Other(q, a) \in Devices
        BY <2>1, Sides
      <3>2. <<q, a>> # s /\ <<q, Other(q, a)>> # s
        BY <2>3 DEF s
      <3>3. /\ ToSend(<<q, a>>)' = ToSend(<<q, a>>) /\ Arriving(<<q, a>>)' = Arriving(<<q, a>>)
            /\ ToSend(<<q, Other(q, a)>>)' = ToSend(<<q, Other(q, a)>>)
            /\ Arriving(<<q, Other(q, a)>>)' = Arriving(<<q, Other(q, a)>>)
        BY <1>4, <1>6, <3>1, <3>2
      <3>4. \A kind : /\ OnItsWay(<<q, a>>, kind, c) => OnItsWay(<<q, a>>, kind, c)'
                      /\ OnItsWay(<<q, Other(q, a)>>, kind, c) => OnItsWay(<<q, Other(q, a)>>, kind, c)'
        BY <3>1, <3>3 DEF OnItsWay
      <3>5. Asked(<<q, Other(q, a)>>) => Asked(<<q, Other(q, a)>>)'
        BY <3>1, <3>3 DEF Asked
      <3> QED BY <1>3, <1>7, <1>9, <3>1, <3>4, <3>5 DEF Offered
    <2> QED BY <2>2, <2>3
  <1>10. SyncTypes'
    <2>1. store' \in [Devices -> SUBSET Cids] /\ records' \in [Devices -> SUBSET Cids]
      BY <1>1, <1>3, <1>5 DEF SyncTypes
    <2>2. seen' \in [Devices -> SUBSET Cids]
      BY <1>1, <1>3, <1>5 DEF SyncTypes, Learned
    <2> QED BY <1>1, <1>3, <1>4, <1>6, <2>1, <2>2 DEF SyncTypes
  <1>11. EntriesAreLinks'
    <2>1. \A a \in Devices : seen'[a] = IF a = d THEN seen[a] \cup Learned(m) ELSE seen[a]
      BY <1>1, <1>3 DEF SyncTypes
    <2>2. \A a \in Devices : seen'[a] \subseteq store'[a]
      <3> SUFFICES ASSUME NEW a \in Devices PROVE seen'[a] \subseteq store'[a]
        OBVIOUS
      <3>1. seen[a] \subseteq store[a] /\ store[a] \subseteq store'[a]
        BY <1>1, <1>7 DEF EntriesAreLinks
      <3>2. a = d => Learned(m) \subseteq store'[a]
        BY <1>7 DEF Learned
      <3> QED BY <2>1, <3>1, <3>2
    <2> QED BY <1>1, <1>3, <2>2 DEF EntriesAreLinks
  <1>12. MessagesAreHonest'
    <2> SUFFICES ASSUME NEW r \in Side
                 PROVE  /\ \A n \in ToSend(r)' : n.kind # "FileIngest" /\ Honest(n, r[2], Other(r[1], r[2]))'
                        /\ \A n \in Arriving(r)' : Honest(n, Other(r[1], r[2]), r[2])'
      BY DEF MessagesAreHonest
    <2>1. r[2] \in Devices /\ Other(r[1], r[2]) \in Devices
      BY Sides
    <2>2. /\ \A n \in ToSend(r) : n.kind # "FileIngest" /\ Honest(n, r[2], Other(r[1], r[2]))'
          /\ \A n \in Arriving(r) : Honest(n, Other(r[1], r[2]), r[2])'
      BY <1>1, <1>7, <2>1, HonestyKept DEF MessagesAreHonest
    <2>3. Arriving(r)' \subseteq Arriving(r)
      BY <1>4
    <2>4. CASE r # s
      BY <1>6, <2>2, <2>3, <2>4
    <2>5. CASE r = s
      <3>1. r[1] = p /\ r[2] = d /\ Other(r[1], r[2]) = e
        BY <2>5 DEF s, e
      <3>2. m.kind = "Have" => m.cids \subseteq store'[e]
        <4>1. Honest(m, e, d)'
          BY <1>4, <2>2, <2>5, <3>1
        <4> QED BY <4>1 DEF Honest
      <3>3. ASSUME NEW n \in Range(Answers(d, m)) PROVE n.kind # "FileIngest" /\ Honest(n, d, e)'
        <4>1. CASE m.kind = "Hello" /\ n = Msg("Have", store[d])
          BY <1>2, <1>7, <4>1 DEF Msg, Honest
        <4>2. ASSUME m.kind = "Have", NEW c \in Missing(d, m.cids), n = Msg("Want", {c})
              PROVE  n.kind # "FileIngest" /\ Honest(n, d, e)'
          BY <3>2, <4>2 DEF Msg, Honest, Missing
        <4>3. CASE m.kind = "Want" /\ n = Msg("Data", m.cids)
          BY <4>3 DEF Msg, Honest
        <4> QED BY <1>5, <4>1, <4>2, <4>3
      <3> QED BY <1>6, <2>2, <2>3, <2>5, <3>1, <3>3
    <2> QED BY <2>4, <2>5
  <1>13. AnnouncedIsOffered'
    <2> SUFFICES ASSUME NEW a \in Devices, NEW b \in Cids,
                        announcing[a] \in {Announcements(b), <<Ingested(b)>>}
                 PROVE  /\ b \in store'[a]
                        /\ \A q \in link : a \in {q[1], q[2]} =>
                             \/ announcing[a] = Announcements(b) /\ q \in left[a]
                             \/ Offered(q, Other(q, a), b)'
      BY <1>3 DEF AnnouncedIsOffered
    <2>1. /\ b \in store[a]
          /\ \A q \in link : a \in {q[1], q[2]} =>
               \/ announcing[a] = Announcements(b) /\ q \in left[a]
               \/ Offered(q, Other(q, a), b)
      BY DEF SyncInv, AnnouncedIsOffered
    <2>2. \A q \in link : a \in {q[1], q[2]} => Other(q, a) \in {q[1], q[2]}
      BY DEF Other
    <2> QED BY <1>7, <1>9, <2>1, <2>2
  <1>14. \A r \in Side : \A c : Offered(r[1], r[2], c) => Offered(r[1], r[2], c)'
    <2>1. \A r \in Side : r[2] \in {r[1][1], r[1][2]}
      BY Sides
    <2>2. \A r \in Side : \A c : Offered(r[1], r[2], c) => r[1] \in link
      BY DEF Offered
    <2> QED BY <1>9, <2>1, <2>2
  <1>15. IngestedIsOffered'
    <2>1. \A r \in Side : Arriving(r)' \subseteq Arriving(r)
      BY <1>4
    <2> QED BY <1>14, <2>1 DEF SyncInv, IngestedIsOffered
  <1>16. RecordedIsOffered'
    <2> SUFFICES ASSUME NEW a \in Devices, NEW c \in records'[a]
                 PROVE  \E r \in Side : r[2] = a /\ Offered(r[1], a, c)'
      BY DEF RecordedIsOffered
    <2>1. CASE c \in records[a]
      BY <1>14, <2>1 DEF SyncInv, RecordedIsOffered
    <2>2. CASE c \notin records[a]
      <3>1. a = d /\ m.kind = "FileIngest" /\ c \in m.cids
        BY <1>1, <1>3, <2>2 DEF SyncTypes
      <3>2. Offered(s[1], s[2], c)
        BY <1>2, <1>4, <3>1 DEF SyncInv, IngestedIsOffered
      <3>3. s[2] = a
        BY <3>1 DEF s
      <3> QED BY <1>2, <1>14, <3>2, <3>3
    <2> QED BY <2>1, <2>2
  <1> QED BY <1>10, <1>11, <1>12, <1>13, <1>15, <1>16 DEF SyncInv

-----------------------------------------------------------------------------
(* The theorem.                                                             *)

\* The invariant holds as long as nothing has gone wrong.
SafeSync ==
  /\ faults \in Nat /\ collided \in BOOLEAN
  /\ Clean => SyncInv

\* Every step keeps it: one that breaks something ends what it promises.
LEMMA NextSync == SafeSync /\ [Next]_vars => SafeSync'
  <1> SUFFICES ASSUME SafeSync, [Next]_vars PROVE SafeSync'
    OBVIOUS
  <1>1. ASSUME NEW d \in Devices, NEW p \in left[d], NEW at \in Millisecond(d), AnnounceTo(d, p, at)
        PROVE  SafeSync'
    <2>1. UNCHANGED <<faults, collided>>
      BY <1>1 DEF AnnounceTo
    <2>2. ASSUME SyncInv PROVE SyncInv'
      <3>1. at \in Nat
        BY <1>1, <2>2 DEF SyncInv, SyncTypes, Millisecond
      <3> QED BY <1>1, <2>2, <3>1, AnnounceToKeeps
    <2> QED BY <2>1, <2>2 DEF SafeSync, Clean
  <1>2. ASSUME NEW d \in Devices, AnnounceNext(d) PROVE SafeSync'
    <2>1. UNCHANGED <<faults, collided>>
      BY <1>2 DEF AnnounceNext
    <2> QED BY <1>2, <2>1, AnnounceNextKeeps DEF SafeSync, Clean
  <1>3. ASSUME NEW d \in Devices, NEW c \in Cids, Ingest(d, c) PROVE SafeSync'
    <2>1. UNCHANGED <<faults, collided>>
      BY <1>3 DEF Ingest
    <2> QED BY <1>3, <2>1, IngestKeeps DEF SafeSync, Clean
  <1>4. ASSUME NEW s \in Side, NEW at \in Millisecond(s[2]), SendTodo(s[1], s[2], at)
        PROVE  SafeSync'
    <2>1. UNCHANGED <<faults, collided>>
      BY <1>4 DEF SendTodo
    <2>2. s[1] \in Dials /\ s[2] \in {s[1][1], s[1][2]} /\ s[2] \in Devices
      BY Sides
    <2>3. ASSUME SyncInv PROVE SyncInv'
      <3>1. at \in Nat
        BY <1>4, <2>2, <2>3 DEF SyncInv, SyncTypes, Millisecond
      <3> QED BY <1>4, <2>2, <2>3, <3>1, SendTodoKeeps
    <2> QED BY <2>1, <2>3 DEF SafeSync, Clean
  <1>5. ASSUME NEW s \in Side, Receive(s[1], s[2], TRUE) PROVE SafeSync'
    <2>1. UNCHANGED <<faults, collided>>
      BY <1>5 DEF Receive
    <2>2. s[1] \in Dials /\ s[2] \in {s[1][1], s[1][2]}
      BY Sides
    <2> QED BY <1>5, <2>1, <2>2, ReceiveKeeps DEF SafeSync, Clean
  <1>6. ASSUME NEW s \in Side, Receive(s[1], s[2], FALSE) PROVE SafeSync'
    BY <1>6 DEF Receive, SafeSync, Clean
  <1>7. ASSUME NEW s \in Side, Ignore(s[1], s[2]) PROVE SafeSync'
    BY <1>7 DEF Ignore, SafeSync, Clean
  <1>8. ASSUME NEW p \in Dials, Connect(p) PROVE SafeSync'
    <2>1. UNCHANGED <<faults, collided>>
      BY <1>8 DEF Connect
    <2> QED BY <1>8, <2>1, ConnectKeeps DEF SafeSync, Clean
  <1>9. ASSUME NEW p \in Dials, NEW kept, Break(p, kept) PROVE SafeSync'
    BY <1>9 DEF Break, SafeSync, Clean
  <1>10. ASSUME NEW d \in Devices, NEW torn \in BOOLEAN, Restart(d, torn) PROVE SafeSync'
    BY <1>10 DEF Restart, SafeSync, Clean
  <1>11. CASE UNCHANGED vars
    <2>1. UNCHANGED <<store, seen, records, announcing, left, ms, entry, link, wire, todo, faults, collided>>
      BY <1>11 DEF vars, stateVars, mainVars, linkVars
    <2>2. /\ SyncTypes' = SyncTypes /\ EntriesAreLinks' = EntriesAreLinks
          /\ MessagesAreHonest' = MessagesAreHonest
      BY <2>1 DEF SyncTypes, EntriesAreLinks, MessagesAreHonest, Honest, ToSend, Arriving
    <2>3. \A p, d, c : Offered(p, d, c)' = Offered(p, d, c)
      BY <2>1 DEF Offered, OnItsWay, Asked, ToSend, Arriving
    <2>4. \A s : Arriving(s)' = Arriving(s)
      BY <2>1 DEF Arriving
    <2>5. /\ AnnouncedIsOffered' = AnnouncedIsOffered /\ IngestedIsOffered' = IngestedIsOffered
          /\ RecordedIsOffered' = RecordedIsOffered
      BY <2>1, <2>3, <2>4 DEF AnnouncedIsOffered, IngestedIsOffered, RecordedIsOffered
    <2> QED BY <2>1, <2>2, <2>5 DEF SafeSync, Clean, SyncInv
  <1>12. CASE \E d \in Devices : Main(d) \/ \E c \in Cids : Ingest(d, c)
    BY <1>1, <1>2, <1>3, <1>12 DEF Main
  <1>13. CASE \E s \in Side : Handle(s) \/ Receive(s[1], s[2], FALSE)
    BY <1>4, <1>5, <1>6, <1>7, <1>13 DEF Handle
  <1> QED BY <1>8, <1>9, <1>10, <1>11, <1>12, <1>13 DEF Next

\* The record of a file never arrives before the offer of its content (the order of
\* announce and announce_file_ingest, of the answers and of a connection): a device
\* that has the record has the content, is being offered it or has asked for it.
THEOREM RecordsFollowOffers == Spec => []RecordedContentComing
  <1>1. Init => SafeSync
    <2> SUFFICES ASSUME Init PROVE SafeSync
      OBVIOUS
    <2>1. faults \in Nat /\ collided \in BOOLEAN
      BY DEF Init
    <2> QED BY <2>1, InitSync DEF SafeSync
  <1>2. SafeSync => RecordedContentComing
    <2> SUFFICES ASSUME SyncInv, NEW d \in Devices, NEW c \in records[d] \ store[d]
                 PROVE  \E s \in Side :
                          LET r == <<s[1], Other(s[1], d)>> IN
                          s[2] = d /\ (Coming(s, "Want", c) \/ OfferPending(r)
                                       \/ \E kind \in {"Have", "Data"} : Coming(r, kind, c))
      BY DEF SafeSync, Clean, RecordedContentComing
    <2>1. PICK s \in Side : s[2] = d /\ Offered(s[1], d, c)
      BY DEF SyncInv, RecordedIsOffered
    <2> DEFINE r == <<s[1], Other(s[1], d)>>
    <2>2. /\ r \in Side /\ s = <<s[1], d>> /\ Other(s[1], Other(s[1], d)) = d
      <3>1. s[1] \in Dials /\ s[2] \in {s[1][1], s[1][2]} /\ s = <<s[1], s[2]>>
        BY Sides, Zenon
      <3>2. d = s[2] /\ d \in {s[1][1], s[1][2]}
        BY <2>1, <3>1, Zenon
      <3>3. <<s[1], Other(s[1], d)>> \in Side /\ Other(s[1], Other(s[1], d)) = d
        BY <3>1, <3>2, Sides, Zenon
      <3> QED BY <3>1, <3>2, <3>3, Zenon
    <2>3. \A t : \A kind : OnItsWay(t, kind, c) <=> Coming(t, kind, c)
      BY DEF OnItsWay, Coming, ToSend, Arriving
    <2>4. Asked(r) <=> OfferPending(r)
      BY DEF Asked, OfferPending, ToSend, Arriving
    <2>5. OnItsWay(s, "Want", c) \/ Asked(r) \/ OnItsWay(r, "Have", c) \/ OnItsWay(r, "Data", c)
      BY <2>1, <2>2 DEF Offered
    <2> QED BY <2>1, <2>3, <2>4, <2>5
  <1> QED BY <1>1, <1>2, NextSync, PTL DEF Spec
=============================================================================
