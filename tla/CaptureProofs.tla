---------------------------- MODULE CaptureProofs ----------------------------
(***************************************************************************)
(* Proofs about CaptureEngine, for every set of tasks and contents and     *)
(* every bound, about ProcessCapture, for every set of processes and       *)
(* windows, and about Queries, for every request, plan and planner's text. *)
(***************************************************************************)
EXTENDS CaptureEngine, ProcessCapture, Queries, FiniteSetTheorems, NaturalsInduction,
        WellFoundedInduction, TLAPS

-----------------------------------------------------------------------------
(* Lines and texts.                                                         *)

\* The texts that a step writes are lines.
LEMMA TextType == /\ \A e \in Entry : EventText(e) \in Line
                  /\ PartialText \in Line
  BY DEF EventText, PartialText, Line

\* An unterminated last line is continued by what is written.
Continued(line, text) == [events |-> line.events \o text.events,
                          garbled |-> line.garbled \/ text.garbled]

\* A continued line is a line.
LEMMA ContinuedType == ASSUME NEW line \in Line, NEW text \in Line PROVE Continued(line, text) \in Line
  <1>1. line.events \in Seq(Entry) /\ text.events \in Seq(Entry)
    BY DEF Line
  <1>2. line.events \o text.events \in Seq(Entry)
    BY <1>1
  <1>3. (line.garbled \/ text.garbled) \in BOOLEAN
    OBVIOUS
  <1> QED BY <1>2, <1>3, Zenon DEF Line, Continued

\* The other lines stay.
LEMMA WrittenLast ==
  ASSUME NEW lines \in Seq(Line), lines # <<>>, NEW text \in Line
  PROVE  LET w == Written(lines, TRUE, text) IN
         /\ w \in Seq(Line) /\ Len(w) = Len(lines)
         /\ \A n \in 1..Len(lines) :
              w[n] = IF n = Len(lines) THEN Continued(lines[n], text) ELSE lines[n]
  <1> DEFINE new == Continued(lines[Len(lines)], text)
             w == Written(lines, TRUE, text)
  <1>1. Len(lines) \in Nat \ {0} /\ DOMAIN lines = 1..Len(lines) /\ lines \in [1..Len(lines) -> Line]
    OBVIOUS
  <1>2. new \in Line
    BY <1>1, ContinuedType
  <1>3. w = [lines EXCEPT ![Len(lines)] = new]
    BY DEF Written, Continued
  <1> HIDE DEF new, w
  <1>4. w \in [1..Len(lines) -> Line]
    BY <1>1, <1>2, <1>3
  <1>5. w \in Seq(Line) /\ Len(w) = Len(lines)
    BY <1>1, <1>4
  <1>6. \A n \in 1..Len(lines) : w[n] = IF n = Len(lines) THEN new ELSE lines[n]
    BY <1>1, <1>3
  <1> QED BY <1>5, <1>6 DEF new, w

\* A terminated last line is followed by it.
LEMMA WrittenNew ==
  ASSUME NEW lines \in Seq(Line), NEW text \in Line
  PROVE  LET w == Written(lines, FALSE, text) IN
         /\ w \in Seq(Line) /\ Len(w) = Len(lines) + 1 /\ w[Len(lines) + 1] = text
         /\ \A n \in 1..Len(lines) : w[n] = lines[n]
  BY DEF Written

\* What a write leaves is a list of lines, and not an empty one.
LEMMA WrittenType ==
  ASSUME NEW lines \in Seq(Line), NEW text \in Line, NEW continued \in BOOLEAN,
         continued => lines # <<>>
  PROVE  Written(lines, continued, text) \in Seq(Line) /\ Written(lines, continued, text) # <<>>
  <1>1. CASE continued = TRUE
    <2> DEFINE w == Written(lines, TRUE, text)
    <2>1. lines # <<>>
      BY <1>1, Zenon
    <2>2. w \in Seq(Line) /\ Len(w) = Len(lines)
      BY <2>1, WrittenLast
    <2> HIDE DEF w
    <2>3. w # <<>>
      BY <2>1, <2>2
    <2> QED BY <1>1, <2>2, <2>3, Zenon DEF w
  <1>2. CASE continued = FALSE
    <2> DEFINE w == Written(lines, FALSE, text)
    <2>1. w \in Seq(Line) /\ Len(w) = Len(lines) + 1
      BY WrittenNew
    <2> HIDE DEF w
    <2>2. w # <<>>
      BY <2>1
    <2> QED BY <1>2, <2>1, <2>2, Zenon DEF w
  <1> QED BY <1>1, <1>2, Zenon

\* The values of a sequence.
Values(s) == {s[n] : n \in DOMAIN s}

\* A concatenation has the values of both parts.
LEMMA ConcatValues ==
  ASSUME NEW S, NEW s \in Seq(S), NEW t \in Seq(S)
  PROVE  Values(s \o t) = Values(s) \cup Values(t)
  <1> DEFINE w == s \o t
  <1>1. /\ Len(s) \in Nat /\ Len(t) \in Nat /\ DOMAIN w = 1..(Len(s) + Len(t))
        /\ DOMAIN s = 1..Len(s) /\ DOMAIN t = 1..Len(t)
    OBVIOUS
  <1>2. /\ \A n \in 1..Len(s) : w[n] = s[n]
        /\ \A n \in 1..Len(t) : w[Len(s) + n] = t[n]
    OBVIOUS
  <1> HIDE DEF w
  <1>3. ASSUME NEW n \in DOMAIN w PROVE w[n] \in Values(s) \cup Values(t)
    <2>1. CASE n <= Len(s)
      <3>1. n \in DOMAIN s /\ w[n] = s[n]
        BY <2>1, <1>1, <1>2
      <3> QED BY <3>1 DEF Values
    <2>2. CASE ~(n <= Len(s))
      <3>1. n - Len(s) \in DOMAIN t /\ n = Len(s) + (n - Len(s))
        BY <2>2, <1>1
      <3>2. w[n] = t[n - Len(s)]
        BY <3>1, <1>1, <1>2
      <3> QED BY <3>1, <3>2 DEF Values
    <2> QED BY <2>1, <2>2
  <1>4. ASSUME NEW n \in DOMAIN s PROVE s[n] \in Values(w)
    <2>1. n \in DOMAIN w /\ s[n] = w[n]
      BY <1>1, <1>2
    <2> QED BY <2>1 DEF Values
  <1>5. ASSUME NEW n \in DOMAIN t PROVE t[n] \in Values(w)
    <2>1. Len(s) + n \in DOMAIN w /\ t[n] = w[Len(s) + n]
      BY <1>1, <1>2
    <2> QED BY <2>1 DEF Values
  <1>6. Values(w) = Values(s) \cup Values(t)
    BY <1>3, <1>4, <1>5 DEF Values
  <1> QED BY <1>6 DEF w

\* The events of a list of lines.
EventsOf(lines) == UNION {Values(lines[n].events) : n \in DOMAIN lines}

\* Writing a text adds its events to those of the log and takes none away.
LEMMA WrittenNewEvents ==
  ASSUME NEW lines \in Seq(Line), NEW text \in Line
  PROVE  EventsOf(Written(lines, FALSE, text)) = EventsOf(lines) \cup Values(text.events)
  <1> DEFINE w == Written(lines, FALSE, text)
  <1>1. /\ w \in Seq(Line) /\ Len(w) = Len(lines) + 1 /\ w[Len(lines) + 1] = text
        /\ \A n \in 1..Len(lines) : w[n] = lines[n]
    BY WrittenNew
  <1> HIDE DEF w
  <1>2. DOMAIN w = 1..Len(w) /\ DOMAIN lines = 1..Len(lines) /\ Len(lines) \in Nat
    BY <1>1
  <1>3. DOMAIN w = DOMAIN lines \cup {Len(lines) + 1}
    BY <1>1, <1>2
  <1>4. EventsOf(w) = EventsOf(lines) \cup Values(text.events)
    BY <1>1, <1>2, <1>3 DEF EventsOf
  <1> QED BY <1>4 DEF w

\* The same for a write that continues an unterminated line.
LEMMA WrittenLastEvents ==
  ASSUME NEW lines \in Seq(Line), lines # <<>>, NEW text \in Line
  PROVE  EventsOf(Written(lines, TRUE, text)) = EventsOf(lines) \cup Values(text.events)
  <1> DEFINE w == Written(lines, TRUE, text)
             last == lines[Len(lines)]
  <1>1. /\ w \in Seq(Line) /\ Len(w) = Len(lines)
        /\ \A n \in 1..Len(lines) :
             w[n] = IF n = Len(lines) THEN Continued(lines[n], text) ELSE lines[n]
    BY WrittenLast
  <1> HIDE DEF w
  <1>2. Len(lines) \in DOMAIN lines /\ DOMAIN lines = 1..Len(lines) /\ DOMAIN w = DOMAIN lines
    BY <1>1
  <1>3. last.events \in Seq(Entry) /\ text.events \in Seq(Entry)
    <2>1. last \in Line
      BY <1>2
    <2> QED BY <2>1 DEF Line
  <1>4. Values(w[Len(lines)].events) = Values(last.events) \cup Values(text.events)
    <2>1. w[Len(lines)].events = last.events \o text.events
      <3>1. w[Len(lines)] = Continued(last, text)
        BY <1>1, <1>2
      <3>2. Continued(last, text).events = last.events \o text.events
        BY DEF Continued
      <3> HIDE DEF last
      <3> QED BY <3>1, <3>2
    <2> QED BY <2>1, <1>3, ConcatValues
  <1>5. ASSUME NEW n \in DOMAIN lines, n # Len(lines)
        PROVE  Values(w[n].events) = Values(lines[n].events)
    BY <1>5, <1>1, <1>2
  <1>6. EventsOf(w) = EventsOf(lines) \cup Values(text.events)
    BY <1>2, <1>4, <1>5 DEF EventsOf
  <1> QED BY <1>6 DEF w

-----------------------------------------------------------------------------
(* Type correctness.                                                        *)

\* The last line is unterminated only if there is one.
TypeInv == TypeOK /\ (open => log # <<>>)

\* The initial state is type correct and its log, which is empty, not open.
LEMMA TypeInit == Init => TypeInv
  <1> SUFFICES ASSUME Init PROVE TypeInv
    OBVIOUS
  <1>1. Entry # {}
    <2>1. PICK c \in Cids : TRUE
      BY CaptureAssumption
    <2>2. [cid |-> c, at |-> 1] \in Entry
      BY <2>1, CaptureAssumption DEF Entry
    <2> QED BY <2>2
  <1>2. (CHOOSE e \in Entry : TRUE) \in Entry
    BY <1>1
  <1>3. entry \in [Tasks -> Entry]
    BY <1>2 DEF Init
  <1>4. now \in 1..MaxTime
    BY CaptureAssumption DEF Init
  <1>5. /\ pc \in [Tasks -> {"idle", "put", "append", "send"}]
        /\ files \in [Cids -> {"absent", "torn", "whole"}]
    BY DEF Init
  <1>6. /\ started \in Nat /\ faults \in Nat /\ memory \subseteq Cids /\ records \subseteq Entry
        /\ index.ok \in BOOLEAN /\ index.recs \subseteq Entry
        /\ sent \subseteq Entry /\ acked \subseteq Entry
    BY DEF Init
  <1>7. log \in Seq(Line) /\ open = FALSE
    BY DEF Init
  <1> QED BY <1>3, <1>4, <1>5, <1>6, <1>7 DEF TypeInv, TypeOK

\* Writing the index keeps records what they are.
LEMMA UpsertType ==
  ASSUME NEW recs \in SUBSET Entry, NEW e \in Entry
  PROVE  /\ Upsert(recs, e) \subseteq Entry
         /\ CidsOf(Upsert(recs, e)) = CidsOf(recs) \cup {e.cid}
  BY DEF Upsert, CidsOf

\* Every step of a capture, every fault and a restart keep the types.
LEMMA TypeStep == TypeInv /\ [Next]_vars => TypeInv'
  <1> SUFFICES ASSUME TypeInv, [Next]_vars PROVE TypeInv'
    OBVIOUS
  <1> USE DEF TypeInv, TypeOK, storeVars, logVars
  <1>1. CASE Tick
    BY <1>1, CaptureAssumption DEF Tick
  <1>2. ASSUME NEW t \in Tasks, NEW c \in Cids, Start(t, c) PROVE TypeInv'
    <2>1. [cid |-> c, at |-> now] \in Entry
      BY DEF Entry
    <2> QED BY <1>2, <2>1 DEF Start
  <1>3. ASSUME NEW t \in Tasks, Put(t) PROVE TypeInv'
    <2>1. entry[t] \in Entry /\ entry[t].cid \in Cids
      BY DEF Entry
    <2>2. records' \subseteq Entry
      BY <1>3, <2>1, UpsertType DEF Put
    <2>3. files' \in [Cids -> {"absent", "torn", "whole"}]
      BY <1>3, <2>1 DEF Put, FileAfterPut
    <2> QED BY <1>3, <2>1, <2>2, <2>3 DEF Put
  <1>4. ASSUME NEW t \in Tasks, AppendEvent(t) PROVE TypeInv'
    <2>1. EventText(entry[t]) \in Line
      BY TextType
    <2>2. log' \in Seq(Line)
      BY <1>4, <2>1, WrittenType DEF AppendEvent
    <2> QED BY <1>4, <2>2 DEF AppendEvent
  <1>5. ASSUME NEW t \in Tasks, Send(t) PROVE TypeInv'
    BY <1>5 DEF Send
  <1>6. ASSUME NEW t \in Tasks, WrapFails(t) PROVE TypeInv'
    BY <1>6 DEF WrapFails
  <1>7. ASSUME NEW t \in Tasks, NEW torn \in BOOLEAN, PutBlobFails(t, torn) PROVE TypeInv'
    <2>1. entry[t].cid \in Cids
      BY DEF Entry
    <2>2. files' \in [Cids -> {"absent", "torn", "whole"}]
      BY <1>7, <2>1 DEF PutBlobFails
    <2> QED BY <1>7, <2>2 DEF PutBlobFails
  <1>8. ASSUME NEW t \in Tasks, NEW torn \in BOOLEAN, PutIndexFails(t, torn) PROVE TypeInv'
    <2>1. entry[t] \in Entry /\ entry[t].cid \in Cids
      BY DEF Entry
    <2>2. records' \subseteq Entry
      BY <1>8, <2>1, UpsertType DEF PutIndexFails
    <2>3. files' \in [Cids -> {"absent", "torn", "whole"}]
      BY <1>8, <2>1 DEF PutIndexFails, FileAfterPut
    <2>4. index'.ok \in BOOLEAN /\ index'.recs \subseteq Entry
      BY <1>8 DEF PutIndexFails
    <2>5. /\ now' \in 1..MaxTime /\ started' \in Nat /\ faults' \in Nat
          /\ pc' \in [Tasks -> {"idle", "put", "append", "send"}]
          /\ entry' \in [Tasks -> Entry] /\ memory' \subseteq Cids
      BY <1>8, <2>1 DEF PutIndexFails
    <2>6. UNCHANGED <<log, open, sent, acked>>
      BY <1>8 DEF PutIndexFails
    <2> QED BY <2>2, <2>3, <2>4, <2>5, <2>6
  <1>9. ASSUME NEW t \in Tasks,
               NEW text \in {<<>>, <<PartialText>>, <<EventText(entry[t])>>},
               AppendFails(t, text)
        PROVE  TypeInv'
    <2>1. CASE text = <<>>
      BY <1>9, <2>1 DEF AppendFails
    <2>2. CASE text # <<>>
      <3>1. text[1] \in Line
        BY <2>2, TextType
      <3>2. log' \in Seq(Line) /\ log' # <<>>
        BY <1>9, <2>2, <3>1, WrittenType DEF AppendFails
      <3> QED BY <1>9, <2>2, <3>2 DEF AppendFails
    <2> QED BY <2>1, <2>2
  <1>10. ASSUME NEW c \in Cids, Get(c) PROVE TypeInv'
    BY <1>10 DEF Get
  <1>11. CASE Restart
    BY <1>11 DEF Restart, ReadIndex
  <1>12. CASE UNCHANGED vars
    BY <1>12 DEF vars
  <1> QED BY <1>1, <1>2, <1>3, <1>4, <1>5, <1>6, <1>7, <1>8, <1>9, <1>10, <1>11, <1>12
          DEF Next, Step, Fault

\* The state of the pipeline keeps its types.
THEOREM TypeCorrect == Spec => []TypeOK
  <1>1. Spec => []TypeInv
    BY TypeInit, TypeStep, PTL DEF Spec
  <1>2. TypeInv => TypeOK
    BY DEF TypeInv
  <1> QED BY <1>1, <1>2, PTL

-----------------------------------------------------------------------------
(* What a step writes to the log.                                           *)

\* The log holds entries.
LEMMA LoggedType == TypeInv => Logged \subseteq Entry
  <1> SUFFICES ASSUME TypeInv, NEW e \in Logged PROVE e \in Entry
    OBVIOUS
  <1>1. PICK n \in DOMAIN log : e \in {log[n].events[m] : m \in DOMAIN log[n].events}
    BY DEF Logged
  <1>2. PICK m \in DOMAIN log[n].events : e = log[n].events[m]
    BY <1>1
  <1>3. log[n] \in Line
    BY <1>1 DEF TypeInv, TypeOK
  <1>4. log[n].events \in Seq(Entry)
    BY <1>3 DEF Line
  <1> QED BY <1>2, <1>4

\* The log after text was written at its end.
LEMMA LogWritten ==
  ASSUME TypeInv, NEW text \in Line, log' = Written(log, open, text)
  PROVE  Logged' = Logged \cup Values(text.events)
  <1>1. log \in Seq(Line)
    BY DEF TypeInv, TypeOK
  <1>2. EventsOf(log') = EventsOf(log) \cup Values(text.events)
    <2>1. CASE open = TRUE
      <3>1. log # <<>>
        BY <2>1, Zenon DEF TypeInv
      <3>2. EventsOf(Written(log, TRUE, text)) = EventsOf(log) \cup Values(text.events)
        BY <1>1, <3>1, WrittenLastEvents
      <3> QED BY <2>1, <3>2, Zenon
    <2>2. CASE open = FALSE
      <3>1. EventsOf(Written(log, FALSE, text)) = EventsOf(log) \cup Values(text.events)
        BY <1>1, WrittenNewEvents
      <3> QED BY <2>2, <3>1, Zenon
    <2> QED BY <2>1, <2>2, Zenon DEF TypeInv, TypeOK
  <1>3. Logged = EventsOf(log) /\ Logged' = EventsOf(log')
    BY DEF Logged, EventsOf, Values
  <1> QED BY <1>2, <1>3

\* A text holds no event but the one that is written.
LEMMA TextEvents ==
  /\ \A e \in Entry : Values(EventText(e).events) = {e}
  /\ Values(PartialText.events) = {}
  BY DEF Values, EventText, PartialText

\* Of what AppendEvent and AppendFails write, only the task's own entry is logged.
LEMMA AppendLogged ==
  ASSUME TypeInv, NEW t \in Tasks
  PROVE  /\ AppendEvent(t) => Logged' = Logged \cup {entry[t]}
         /\ \A text \in {<<>>, <<PartialText>>, <<EventText(entry[t])>>} :
              AppendFails(t, text) => /\ Logged \subseteq Logged'
                                      /\ Logged' \subseteq Logged \cup {entry[t]}
  <1>1. entry[t] \in Entry
    BY DEF TypeInv, TypeOK
  <1>2. EventText(entry[t]) \in Line /\ PartialText \in Line
    BY <1>1, TextType
  <1>3. ASSUME AppendEvent(t) PROVE Logged' = Logged \cup {entry[t]}
    <2>1. log' = Written(log, open, EventText(entry[t]))
      BY <1>3 DEF AppendEvent
    <2> QED BY <1>1, <1>2, <2>1, LogWritten, TextEvents
  <1>4. ASSUME NEW text \in {<<>>, <<PartialText>>, <<EventText(entry[t])>>}, AppendFails(t, text)
        PROVE  Logged \subseteq Logged' /\ Logged' \subseteq Logged \cup {entry[t]}
    <2>1. CASE text = <<>>
      <3>1. log' = log
        BY <1>4, <2>1 DEF AppendFails
      <3> QED BY <3>1 DEF Logged
    <2>2. CASE text = <<PartialText>>
      <3>1. log' = Written(log, open, PartialText)
        BY <1>4, <2>2 DEF AppendFails
      <3> QED BY <1>2, <3>1, LogWritten, TextEvents
    <2>3. CASE text = <<EventText(entry[t])>>
      <3>1. log' = Written(log, open, EventText(entry[t]))
        BY <1>4, <2>3 DEF AppendFails
      <3> QED BY <1>1, <1>2, <3>1, LogWritten, TextEvents
    <2> QED BY <2>1, <2>2, <2>3
  <1> QED BY <1>3, <1>4

-----------------------------------------------------------------------------
(* The order store, log, broadcast.                                         *)

\* A task that has stored its entry has a file for it, and one that is about to
\* broadcast it has logged it.
OrderInv ==
  /\ LoggedAfterStored /\ SentAfterLogged
  /\ \A t \in Tasks : pc[t] \in {"append", "send"} => files[entry[t].cid] # "absent"
  /\ \A t \in Tasks : pc[t] = "send" => entry[t] \in Logged

\* Nothing is under way, logged or broadcast at first.
LEMMA OrderInit == Init => OrderInv
  <1> SUFFICES ASSUME Init PROVE OrderInv
    OBVIOUS
  <1>1. Logged = {} /\ sent = {} /\ \A t \in Tasks : pc[t] = "idle"
    BY DEF Init, Logged
  <1> QED BY <1>1 DEF OrderInv, LoggedAfterStored, SentAfterLogged

\* No step makes a file absent, so what matters is what the step adds.
LEMMA OrderStep == TypeInv /\ OrderInv /\ [Next]_vars => OrderInv'
  <1> SUFFICES ASSUME TypeInv, OrderInv, [Next]_vars PROVE OrderInv'
    OBVIOUS
  <1> USE DEF storeVars, logVars
  <1>0. /\ files \in [Cids -> {"absent", "torn", "whole"}] /\ entry \in [Tasks -> Entry]
        /\ pc \in [Tasks -> {"idle", "put", "append", "send"}]
        /\ \A e \in Entry : e.cid \in Cids
    BY DEF TypeInv, TypeOK, Entry
  <1>a. ASSUME UNCHANGED <<files, entry, log, sent>>, \A t \in Tasks : pc'[t] \in {pc[t], "idle", "put"}
        PROVE  OrderInv'
    BY <1>a, <1>0 DEF OrderInv, LoggedAfterStored, SentAfterLogged, Logged
  <1>b. ASSUME UNCHANGED <<entry, log, sent>>, NEW t \in Tasks,
               \A c \in Cids : files[c] # "absent" => files'[c] # "absent",
               pc' = [pc EXCEPT ![t] = "idle"]
                 \/ (pc' = [pc EXCEPT ![t] = "append"] /\ files'[entry[t].cid] # "absent")
        PROVE  OrderInv'
    <2>1. Logged' = Logged
      BY <1>b DEF Logged
    <2>2. Logged \subseteq Entry
      BY LoggedType
    <2> QED BY <1>b, <1>0, <2>1, <2>2 DEF OrderInv, LoggedAfterStored, SentAfterLogged
  <1>1. CASE Tick
    BY <1>1, <1>a DEF Tick
  <1>2. ASSUME NEW t \in Tasks, NEW c \in Cids, Start(t, c) PROVE OrderInv'
    <2>1. \A u \in Tasks \ {t} : entry'[u] = entry[u] /\ pc'[u] = pc[u]
      BY <1>2, <1>0 DEF Start
    <2>2. pc'[t] = "put"
      BY <1>2, <1>0 DEF Start
    <2>3. Logged' = Logged /\ sent' = sent /\ files' = files
      BY <1>2 DEF Start, Logged
    <2> QED BY <2>1, <2>2, <2>3 DEF OrderInv, LoggedAfterStored, SentAfterLogged
  <1>3. ASSUME NEW t \in Tasks, Put(t) PROVE OrderInv'
    <2>1. entry[t].cid \in Cids
      BY <1>0
    <2>2. /\ \A c \in Cids : files[c] # "absent" => files'[c] # "absent"
          /\ files'[entry[t].cid] # "absent"
      BY <1>3, <1>0, <2>1 DEF Put, FileAfterPut
    <2> QED BY <1>3, <2>2, <1>b DEF Put
  <1>4. ASSUME NEW t \in Tasks, AppendEvent(t) PROVE OrderInv'
    <2>1. Logged' = Logged \cup {entry[t]}
      BY <1>4, AppendLogged
    <2>2. pc[t] = "append" /\ pc'[t] = "send" /\ \A u \in Tasks \ {t} : pc'[u] = pc[u]
      BY <1>4, <1>0 DEF AppendEvent
    <2>3. entry' = entry /\ files' = files /\ sent' = sent
      BY <1>4 DEF AppendEvent
    <2> QED BY <2>1, <2>2, <2>3 DEF OrderInv, LoggedAfterStored, SentAfterLogged
  <1>5. ASSUME NEW t \in Tasks, Send(t) PROVE OrderInv'
    <2>1. Logged' = Logged /\ entry' = entry /\ files' = files
      BY <1>5 DEF Send, Logged
    <2>2. pc[t] = "send" /\ sent' = sent \cup {entry[t]}
      BY <1>5 DEF Send
    <2>3. pc'[t] = "idle" /\ \A u \in Tasks \ {t} : pc'[u] = pc[u]
      BY <1>5, <1>0 DEF Send
    <2> QED BY <2>1, <2>2, <2>3 DEF OrderInv, LoggedAfterStored, SentAfterLogged
  <1>6. ASSUME NEW t \in Tasks, WrapFails(t) PROVE OrderInv'
    BY <1>6, <1>0, <1>a DEF WrapFails
  <1>7. ASSUME NEW t \in Tasks, NEW torn \in BOOLEAN, PutBlobFails(t, torn) PROVE OrderInv'
    <2>1. \A c \in Cids : files[c] # "absent" => files'[c] # "absent"
      BY <1>7, <1>0 DEF PutBlobFails
    <2> QED BY <1>7, <2>1, <1>b DEF PutBlobFails
  <1>8. ASSUME NEW t \in Tasks, NEW torn \in BOOLEAN, PutIndexFails(t, torn) PROVE OrderInv'
    <2>1. \A c \in Cids : files[c] # "absent" => files'[c] # "absent"
      BY <1>8, <1>0 DEF PutIndexFails, FileAfterPut
    <2> QED BY <1>8, <2>1, <1>b DEF PutIndexFails
  <1>9. ASSUME NEW t \in Tasks,
               NEW text \in {<<>>, <<PartialText>>, <<EventText(entry[t])>>},
               AppendFails(t, text)
        PROVE  OrderInv'
    <2>1. Logged \subseteq Logged' /\ Logged' \subseteq Logged \cup {entry[t]}
      BY <1>9, AppendLogged
    <2>2. pc[t] = "append" /\ pc'[t] = "idle" /\ \A u \in Tasks \ {t} : pc'[u] = pc[u]
      BY <1>9, <1>0 DEF AppendFails
    <2>3. entry' = entry /\ files' = files /\ sent' = sent
      BY <1>9 DEF AppendFails
    <2> QED BY <2>1, <2>2, <2>3 DEF OrderInv, LoggedAfterStored, SentAfterLogged
  <1>10. ASSUME NEW c \in Cids, Get(c) PROVE OrderInv'
    BY <1>10, <1>a DEF Get
  <1>11. CASE Restart
    BY <1>11, <1>a DEF Restart
  <1>12. CASE UNCHANGED vars
    BY <1>12, <1>a DEF vars
  <1> QED BY <1>1, <1>2, <1>3, <1>4, <1>5, <1>6, <1>7, <1>8, <1>9, <1>10, <1>11, <1>12
          DEF Next, Step, Fault

\* The order of store, log and broadcast holds at every moment.
LEMMA OrderAlways == Spec => []OrderInv
  BY TypeInit, TypeStep, OrderInit, OrderStep, PTL DEF Spec

\* Whatever the event log holds, even in a line that no longer parses, has a blob
\* file: the event is appended after the store write, however tasks interleave
\* and whatever fails.
THEOREM LogFollowsStore == Spec => []LoggedAfterStored
  <1>1. OrderInv => LoggedAfterStored
    BY DEF OrderInv
  <1> QED BY <1>1, OrderAlways, PTL

\* Live subscribers see only captures that reached the event log.
THEOREM BroadcastFollowsLog == Spec => []SentAfterLogged
  <1>1. OrderInv => SentAfterLogged
    BY DEF OrderInv
  <1> QED BY <1>1, OrderAlways, PTL

-----------------------------------------------------------------------------
(* The index.                                                               *)

\* Only Put, a failed write of the index and a restart change index or memory.
LEMMA IndexStep == TypeInv /\ IndexKnownInMemory /\ [Next]_vars => IndexKnownInMemory'
  <1> SUFFICES ASSUME TypeInv, IndexKnownInMemory, [Next]_vars PROVE IndexKnownInMemory'
    OBVIOUS
  <1> USE DEF storeVars, logVars
  <1>1. CASE UNCHANGED <<records, index>>
    BY <1>1 DEF IndexKnownInMemory, CidsOf
  <1>2. ASSUME NEW t \in Tasks, Put(t) PROVE IndexKnownInMemory'
    <2>1. index'.recs = records'
      BY <1>2 DEF Put
    <2> QED BY <2>1 DEF IndexKnownInMemory, CidsOf
  <1>3. ASSUME NEW t \in Tasks, NEW torn \in BOOLEAN, PutIndexFails(t, torn)
        PROVE  IndexKnownInMemory'
    <2>1. records \in SUBSET Entry /\ entry[t] \in Entry
      BY DEF TypeInv, TypeOK
    <2>2. CidsOf(records) \subseteq CidsOf(records')
      BY <1>3, <2>1, UpsertType DEF PutIndexFails, CidsOf
    <2>3. CASE torn = TRUE
      <3>1. index' = [ok |-> FALSE, recs |-> {}]
        BY <1>3, <2>3, Zenon DEF PutIndexFails
      <3> QED BY <3>1 DEF IndexKnownInMemory
    <2>4. CASE torn = FALSE
      <3>1. index' = index
        BY <1>3, <2>4, Zenon DEF PutIndexFails
      <3> QED BY <2>2, <3>1 DEF IndexKnownInMemory, CidsOf
    <2> QED BY <2>3, <2>4, Zenon
  <1>4. CASE Restart
    BY <1>4 DEF Restart, ReadIndex, IndexKnownInMemory, CidsOf
  <1> QED BY <1>1, <1>2, <1>3, <1>4
          DEF Next, Step, Fault, Tick, Start, AppendEvent, Send, WrapFails, PutBlobFails,
              AppendFails, Get, vars

\* The index file never names a content that the running process has forgotten,
\* so no later write of the index drops one.
THEOREM IndexNeverAhead == Spec => []IndexKnownInMemory
  <1>1. Init => IndexKnownInMemory
    BY DEF Init, IndexKnownInMemory, CidsOf
  <1> QED BY <1>1, TypeInit, TypeStep, IndexStep, PTL DEF Spec

-----------------------------------------------------------------------------
(* The log only grows.                                                      *)

\* A write changes at most the last line, and that only if it is unterminated.
LEMMA WriteKeepsLines ==
  ASSUME TypeInv, NEW text \in Line, log' = Written(log, open, text)
  PROVE  \A n \in 1..(IF open THEN Len(log) - 1 ELSE Len(log)) :
           n \in DOMAIN log' /\ log'[n] = log[n]
  <1>1. log \in Seq(Line)
    BY DEF TypeInv, TypeOK
  <1>2. CASE open = TRUE
    <2> DEFINE w == Written(log, TRUE, text)
    <2>1. log # <<>> /\ log' = w
      BY <1>2, Zenon DEF TypeInv
    <2>2. /\ w \in Seq(Line) /\ Len(w) = Len(log)
          /\ \A n \in 1..Len(log) :
               w[n] = IF n = Len(log) THEN Continued(log[n], text) ELSE log[n]
      BY <1>1, <2>1, WrittenLast
    <2> HIDE DEF w
    <2>3. DOMAIN w = 1..Len(log) /\ Len(log) \in Nat
      BY <1>1, <2>2
    <2>4. \A n \in 1..(Len(log) - 1) : n \in DOMAIN w /\ w[n] = log[n]
      <3> SUFFICES ASSUME NEW n \in 1..(Len(log) - 1) PROVE n \in DOMAIN w /\ w[n] = log[n]
        OBVIOUS
      <3>1. n \in 1..Len(log) /\ n # Len(log) /\ n \in DOMAIN w
        BY <2>3
      <3>2. w[n] = IF n = Len(log) THEN Continued(log[n], text) ELSE log[n]
        BY <2>2, <3>1
      <3> QED BY <3>1, <3>2
    <2> QED BY <1>2, <2>1, <2>4, Zenon
  <1>3. CASE open = FALSE
    <2> DEFINE w == Written(log, FALSE, text)
    <2>1. log' = w
      BY <1>3, Zenon
    <2>2. /\ w \in Seq(Line) /\ Len(w) = Len(log) + 1
          /\ \A n \in 1..Len(log) : w[n] = log[n]
      BY <1>1, WrittenNew
    <2> HIDE DEF w
    <2>3. DOMAIN w = 1..Len(w) /\ Len(log) \in Nat
      BY <1>1, <2>2
    <2>4. \A n \in 1..Len(log) : n \in DOMAIN w /\ w[n] = log[n]
      BY <2>2, <2>3
    <2> QED BY <1>3, <2>1, <2>4, Zenon
  <1> QED BY <1>2, <1>3, Zenon DEF TypeInv, TypeOK

\* No step changes a line of the event log that has its newline.
THEOREM LogOnlyGrows == Spec => TerminatedLinesStay
  <1> DEFINE Stay == \A n \in 1..(IF open THEN Len(log) - 1 ELSE Len(log)) :
                       n \in DOMAIN log' /\ log'[n] = log[n]
  <1>1. TypeInv /\ [Next]_vars => [Stay]_vars
    <2> SUFFICES ASSUME TypeInv, Next PROVE Stay
      OBVIOUS
    <2>1. CASE log' = log
      <3>1. log \in Seq(Line)
        BY DEF TypeInv, TypeOK
      <3>2. \A n \in 1..Len(log) : n \in DOMAIN log /\ n \in 1..Len(log)
        BY <3>1
      <3>3. \A n \in 1..(Len(log) - 1) : n \in 1..Len(log)
        BY <3>1
      <3>4. open = TRUE \/ open = FALSE
        BY DEF TypeInv, TypeOK
      <3> QED BY <2>1, <3>2, <3>3, <3>4, Zenon
    <2>2. ASSUME NEW t \in Tasks, AppendEvent(t) PROVE Stay
      <3>1. EventText(entry[t]) \in Line
        BY TextType DEF TypeInv, TypeOK
      <3> QED BY <2>2, <3>1, WriteKeepsLines, Zenon DEF AppendEvent
    <2>3. ASSUME NEW t \in Tasks,
                 NEW text \in {<<>>, <<PartialText>>, <<EventText(entry[t])>>},
                 AppendFails(t, text), text # <<>>
          PROVE  Stay
      <3>1. text[1] \in Line
        BY <2>3, TextType DEF TypeInv, TypeOK
      <3>2. log' = Written(log, open, text[1])
        BY <2>3 DEF AppendFails
      <3> QED BY <3>1, <3>2, WriteKeepsLines, Zenon
    <2> HIDE DEF Stay
    <2> QED BY <2>1, <2>2, <2>3
            DEF Next, Step, Fault, Tick, Start, Put, Send, WrapFails, PutBlobFails, PutIndexFails,
                AppendFails, Get, Restart, storeVars, logVars
  <1> QED BY <1>1, TypeInit, TypeStep, PTL DEF Spec, TerminatedLinesStay

-----------------------------------------------------------------------------
(* Nothing is lost without a fault.                                         *)

\* As long as nothing failed, files are whole, the index file is the index, the
\* log ends with a newline, and a task has done what its place in capture says.
CleanInv ==
  faults = 0 =>
    /\ open = FALSE
    /\ \A c \in Cids : files[c] \in {"absent", "whole"}
    /\ index.recs = records
    /\ \A t \in Tasks : pc[t] \in {"append", "send"} =>
         files[entry[t].cid] = "whole" /\ entry[t].cid \in CidsOf(records)
    /\ \A t \in Tasks : pc[t] = "send" => entry[t] \in Readable
    /\ \A e \in acked :
         files[e.cid] = "whole" /\ e.cid \in CidsOf(records) /\ e \in Readable

\* A new line with one event is readable, and what was readable stays so.
LEMMA AppendReadable ==
  ASSUME TypeInv, open = FALSE, NEW e \in Entry, log' = Written(log, FALSE, EventText(e))
  PROVE  Readable \cup {e} \subseteq Readable'
  <1> DEFINE text == EventText(e)
             w == Written(log, FALSE, text)
  <1>1. log \in Seq(Line) /\ text \in Line /\ log' = w
    BY TextType DEF TypeInv, TypeOK
  <1>2. text.garbled = FALSE /\ Len(text.events) = 1 /\ text.events[1] = e
    BY DEF EventText
  <1> HIDE DEF text
  <1>3. /\ w \in Seq(Line) /\ Len(w) = Len(log) + 1 /\ w[Len(log) + 1] = text
        /\ \A n \in 1..Len(log) : w[n] = log[n]
    BY <1>1, WrittenNew
  <1> HIDE DEF w
  <1>4. DOMAIN log = 1..Len(log) /\ Len(log) \in Nat /\ DOMAIN w = 1..Len(w)
    BY <1>1, <1>3
  <1>5. Len(log) + 1 \in DOMAIN w /\ \A n \in DOMAIN log : n \in DOMAIN w /\ w[n] = log[n]
    BY <1>3, <1>4
  <1>6. e \in Readable'
    BY <1>1, <1>2, <1>3, <1>5, Zenon DEF Readable
  <1>7. Readable \subseteq Readable'
    <2> SUFFICES ASSUME NEW x \in Readable PROVE x \in Readable'
      OBVIOUS
    <2>1. PICK n \in DOMAIN log : ~log[n].garbled /\ Len(log[n].events) = 1 /\ x = log[n].events[1]
      BY Zenon DEF Readable
    <2>2. n \in DOMAIN log' /\ log'[n] = log[n]
      BY <1>1, <1>5, Zenon
    <2>3. n \in DOMAIN log' /\ ~log'[n].garbled /\ Len(log'[n].events) = 1 /\ x = log'[n].events[1]
      BY <2>1, <2>2, Zenon
    <2> QED BY <2>3, Zenon DEF Readable
  <1> QED BY <1>6, <1>7

\* Nothing is stored, logged or acknowledged at first.
LEMMA CleanInit == Init => CleanInv
  BY DEF Init, CleanInv

\* Every step of a capture keeps CleanInv; a fault ends its premise.
LEMMA CleanStep == TypeInv /\ CleanInv /\ [Next]_vars => CleanInv'
  <1> SUFFICES ASSUME TypeInv, CleanInv, [Next]_vars, faults' = 0
               PROVE  CleanInv'
    BY DEF CleanInv
  <1> USE DEF storeVars, logVars
  <1>0. /\ files \in [Cids -> {"absent", "torn", "whole"}] /\ entry \in [Tasks -> Entry]
        /\ pc \in [Tasks -> {"idle", "put", "append", "send"}]
        /\ records \in SUBSET Entry /\ acked \subseteq Entry /\ faults \in Nat
        /\ \A e \in Entry : e.cid \in Cids
    BY DEF TypeInv, TypeOK, Entry
  <1>1. CASE UNCHANGED <<faults, pc, entry, files, records, index, log, open, acked>>
    BY <1>1 DEF CleanInv, Readable
  <1>2. ASSUME NEW t \in Tasks, NEW c \in Cids, Start(t, c) PROVE CleanInv'
    <2>1. \A u \in Tasks \ {t} : entry'[u] = entry[u] /\ pc'[u] = pc[u]
      BY <1>2, <1>0 DEF Start
    <2>2. pc'[t] = "put"
      BY <1>2, <1>0 DEF Start
    <2>3. UNCHANGED <<faults, files, records, index, open, acked>> /\ Readable' = Readable
      BY <1>2 DEF Start, Readable
    <2> QED BY <2>1, <2>2, <2>3 DEF CleanInv
  <1>3. ASSUME NEW t \in Tasks, Put(t) PROVE CleanInv'
    <2> DEFINE c == entry[t].cid
    <2>1. c \in Cids
      BY <1>0
    <2>2. CidsOf(records') = CidsOf(records) \cup {c}
      BY <1>3, <1>0, UpsertType DEF Put, CidsOf
    <2>3. faults = 0
      BY <1>3 DEF Put
    <2>4. /\ files'[c] = "whole"
          /\ \A d \in Cids : files'[d] = files[d] \/ d = c
      BY <1>3, <1>0, <2>1, <2>3 DEF Put, FileAfterPut, CleanInv
    <2>5. index'.recs = records' /\ UNCHANGED <<entry, open, acked>>
      BY <1>3 DEF Put
    <2>6. pc'[t] = "append" /\ \A u \in Tasks \ {t} : pc'[u] = pc[u]
      BY <1>3, <1>0 DEF Put
    <2>7. Readable' = Readable
      BY <1>3 DEF Put, Readable
    <2>8. \A d \in Cids : files[d] = "whole" => files'[d] = "whole"
      BY <2>4
    <2> QED BY <1>0, <2>1, <2>2, <2>3, <2>4, <2>5, <2>6, <2>7, <2>8 DEF CleanInv
  <1>4. ASSUME NEW t \in Tasks, AppendEvent(t) PROVE CleanInv'
    <2>1. faults = 0 /\ open = FALSE
      BY <1>4 DEF AppendEvent, CleanInv
    <2>2. Readable \cup {entry[t]} \subseteq Readable'
      <3>1. log' = Written(log, FALSE, EventText(entry[t]))
        BY <1>4, <2>1, Zenon DEF AppendEvent
      <3> QED BY <1>0, <2>1, <3>1, AppendReadable
    <2>3. pc[t] = "append" /\ pc'[t] = "send" /\ \A u \in Tasks \ {t} : pc'[u] = pc[u]
      BY <1>4, <1>0 DEF AppendEvent
    <2>4. UNCHANGED <<faults, entry, files, records, index, acked>> /\ open' = FALSE
      BY <1>4 DEF AppendEvent
    <2> QED BY <2>1, <2>2, <2>3, <2>4 DEF CleanInv
  <1>5. ASSUME NEW t \in Tasks, Send(t) PROVE CleanInv'
    <2>1. UNCHANGED <<faults, entry, files, records, index, open>> /\ Readable' = Readable
      BY <1>5 DEF Send, Readable
    <2>2. pc[t] = "send" /\ acked' = acked \cup {entry[t]}
      BY <1>5 DEF Send
    <2>3. pc'[t] = "idle" /\ \A u \in Tasks \ {t} : pc'[u] = pc[u]
      BY <1>5, <1>0 DEF Send
    <2> QED BY <2>1, <2>2, <2>3 DEF CleanInv
  <1>6. ASSUME faults' = faults + 1 PROVE FALSE
    BY <1>6, <1>0
  <1> QED BY <1>1, <1>2, <1>3, <1>4, <1>5, <1>6
          DEF Next, Step, Fault, Tick, WrapFails, PutBlobFails, PutIndexFails, AppendFails, Get,
              Restart, vars

\* However the tasks interleave, a capture that returned Ok is stored, indexed and
\* in the readable timeline as long as no write failed and nothing restarted.
THEOREM NothingLost == Spec => []NothingLostWithoutFault
  <1>1. CleanInv => NothingLostWithoutFault
    BY DEF CleanInv, NothingLostWithoutFault
  <1> QED BY <1>1, TypeInit, TypeStep, CleanInit, CleanStep, PTL DEF Spec

-----------------------------------------------------------------------------
(* Captures of processes.                                                   *)

Processes == [number : Nat \ {0}, program : Programs]

\* Process p runs under no other pid than this one, and will never again if it has
\* exited: every process has a number of its own.
Sits(p, pid) ==
  /\ pid \in Pids /\ p \in Processes /\ p.number <= launched
  /\ \A q \in Pids : table[q] = p => q = pid

TableInv ==
  /\ launched \in Nat /\ table \in [Pids -> {NoProcess} \cup Processes]
  /\ \A pid \in Pids : Running(pid) => Sits(table[pid], pid)

ListInv ==
  \A shown \in listing :
    /\ Sits(shown.process, shown.pid)
    /\ shown.options = Options(shown.process, shown.pid)

\* What is left of the steps of an application state, of another option, and of a
\* full capture before its windows.
StateTodos == {<<"metadata", "shoot", "title", "state">>, <<"shoot", "title", "state">>,
               <<"title", "state">>, <<"state">>}
OptionTodos == {<<"shoot", "title">>, <<"title">>, <<"metadata">>, <<"vm">>, <<"pause", "vm">>,
                <<"browser">>, <<"list">>, <<"app">>}
AllTodos == {<<"inventory", "app", "windows">>, <<"app", "windows">>, <<"windows">>, <<>>}

IsWork(w) ==
  w = [field \in {"at", "pid", "chosen", "option", "todo", "read", "shot", "queue", "taken"} |-> w[field]]

\* What was read about the process of request w is about the chosen one, or that
\* one has exited; and it was read before the steps that need it.
ReadInv(w) ==
  /\ \A p \in {w.read, w.shot} : p = NoProcess \/ p = w.chosen \/ ~Runs(w.chosen)
  /\ w.todo \in {<<"title">>, <<"title", "state">>} => w.shot # NoProcess
  /\ w.todo \in StateTodos /\ w.todo # <<"metadata", "shoot", "title", "state">> => w.read # NoProcess

\* The options that have a step for VMs, and those that have one for browsers.
OptionWork(w) ==
  /\ w.at = "option" /\ Sits(w.chosen, w.pid) /\ w.option \in Options(w.chosen, w.pid)
  /\ w.todo \in StateTodos \cup OptionTodos
  /\ w.todo \in {<<"vm">>, <<"pause", "vm">>} => w.option[1] \in {"snapshot_", "migrate_", "pause_"}
  /\ w.todo = <<"browser">> => w.option[1] \in {"browser_tab", "browser_pages"}
  /\ ReadInv(w)

AllWork(w) ==
  /\ w.at = "all" /\ \A window \in w.queue : Sits(window.process, window.pid)
  /\ \/ w.pid = 0 /\ w.chosen = NoProcess /\ w.read = NoProcess /\ w.shot = NoProcess /\ w.todo \in AllTodos
     \/ Sits(w.chosen, w.pid) /\ w.todo \in StateTodos /\ ReadInv(w)
     \/ w.pid # 0 /\ w.todo = <<>> /\ w.read = NoProcess /\ w.shot = NoProcess

WorkOk(w) == w = Rest \/ (IsWork(w) /\ (OptionWork(w) \/ AllWork(w)))
WorkInv == WorkOk(work)

ProcessInv == TableInv /\ ListInv /\ WorkInv /\ CapturesAsOffered

-----------------------------------------------------------------------------
(* Options and steps.                                                       *)

\* A set of numbers that is not empty has a least one.
LEMMA Least ==
  ASSUME NEW I, I \subseteq Nat, I # {}
  PROVE  Min(I) \in I
  <1>1. IsWellFoundedOn(OpToRel(<, Nat), Nat)
    BY NatLessThanWellFounded
  <1>2. \E n \in I : \A k \in I : ~(<<k, n>> \in OpToRel(<, Nat))
    BY <1>1, WFMin
  <1>3. \A k \in I, n \in I : k < n => <<k, n>> \in OpToRel(<, Nat)
    BY DEF OpToRel
  <1>4. \A k \in I, n \in I : k < n \/ n <= k
    OBVIOUS
  <1>5. \E n \in I : \A k \in I : n <= k
    BY <1>2, <1>3, <1>4, Zenon
  <1> QED BY <1>5 DEF Min

\* The rule found for a process is one whose words its name contains.
LEMMA RuleNames ==
  ASSUME NEW p, Rule(p) > 0
  PROVE  Rule(p) \in 1..8 /\ Named(p, Rules[Rule(p)].words)
  <1> DEFINE I == {i \in 1..Len(Rules) : Named(p, Rules[i].words)}
  <1>1. Rule(p) = IF I # {} THEN Min(I) ELSE 0
    BY DEF Rule, SelectInSeq
  <1>2. Len(Rules) = 8
    BY DEF Rules
  <1>3. I \subseteq 1..8 /\ I \subseteq Nat
    BY <1>2
  <1>4. I # {}
    BY <1>1
  <1> HIDE DEF I
  <1>5. Rule(p) \in I
    BY <1>1, <1>3, <1>4, Least
  <1> QED BY <1>3, <1>5 DEF I

Verbs == {"screenshot", "metadata", "metadata_", "obsidian_vault", "app_state_", "snapshot_",
          "migrate_", "pause_", "browser_tab", "browser_pages", "browser_bookmarks",
          "terminal_state", "claude_conversation", "vscode_workspace", "vscode_current_file"}
VmVerbs == {"snapshot_", "migrate_", "pause_"}
BrowserVerbs == {"browser_tab", "browser_pages"}

\* What the rules offer.
LEMMA RuleOffers ==
  ASSUME NEW i \in 1..8
  PROVE  /\ Rules[i].offers \subseteq Verbs \ VmVerbs
         /\ Rules[i].offers \cap BrowserVerbs # {} => Rules[i].words \in {{"chrome"}, {"edge"}, {"firefox"}}
  <1>1. i = 1 \/ i = 2 \/ i = 3 \/ i = 4 \/ i = 5 \/ i = 6 \/ i = 7 \/ i = 8
    OBVIOUS
  <1>2. CASE i \in {3, 4, 5}
    <2>1. /\ Rules[3] = [words |-> {"chrome"}, offers |-> ChromiumOptions]
          /\ Rules[4] = [words |-> {"edge"}, offers |-> BrowserOptions]
          /\ Rules[5] = [words |-> {"firefox"}, offers |-> BrowserOptions]
      BY DEF Rules
    <2>2. ChromiumOptions \subseteq Verbs \ VmVerbs /\ BrowserOptions \subseteq Verbs \ VmVerbs
      BY DEF BrowserOptions, ChromiumOptions, Verbs, VmVerbs
    <2> QED BY <1>2, <2>1, <2>2
  <1>3. CASE i \in {1, 2, 6, 7, 8}
    <2>1. /\ Rules[1].offers = {"claude_conversation", "screenshot"}
          /\ Rules[2].offers = {"vscode_workspace", "vscode_current_file", "screenshot"}
          /\ Rules[6].offers = {"terminal_state", "screenshot"}
          /\ Rules[7].offers = {"screenshot", "metadata"}
          /\ Rules[8].offers = {"obsidian_vault", "screenshot"}
      BY DEF Rules
    <2>2. Rules[i].offers \subseteq {"claude_conversation", "screenshot", "vscode_workspace",
                                     "vscode_current_file", "terminal_state", "metadata", "obsidian_vault"}
      BY <1>3, <2>1
    <2> QED BY <2>2 DEF Verbs, VmVerbs, BrowserVerbs
  <1> QED BY <1>1, <1>2, <1>3

\* The service has steps for every verb; those of VMs and browsers have steps no
\* other has.
LEMMA VerbSteps ==
  ASSUME NEW verb \in Verbs
  PROVE  /\ Steps(verb) # <<>> /\ Steps(verb) \in StateTodos \cup OptionTodos
         /\ Steps(verb) \notin {<<"title">>, <<"title", "state">>, <<"shoot", "title", "state">>, <<"state">>}
         /\ Steps(verb) \in {<<"vm">>, <<"pause", "vm">>} => verb \in VmVerbs
         /\ Steps(verb) = <<"browser">> => verb \in BrowserVerbs
  <1>1. CASE verb \in {"screenshot", "metadata", "metadata_", "obsidian_vault", "app_state_"}
    BY <1>1 DEF Steps, StateTodos, OptionTodos
  <1>2. CASE verb \in VmVerbs
    BY <1>2 DEF Steps, StateTodos, OptionTodos, VmVerbs
  <1>3. CASE verb \in BrowserVerbs
    BY <1>3 DEF Steps, StateTodos, OptionTodos, BrowserVerbs
  <1>4. CASE verb \in {"browser_bookmarks", "terminal_state", "claude_conversation",
                       "vscode_workspace", "vscode_current_file"}
    BY <1>4 DEF Steps, StateTodos, OptionTodos
  <1> QED BY <1>1, <1>2, <1>3, <1>4 DEF Verbs, VmVerbs, BrowserVerbs

\* What a process offers has a verb of the service; a VM alone offers what is done
\* to VMs, by an id that is not in the manifest, and a browser alone its pages.
LEMMA Offered ==
  ASSUME NEW p, NEW pid, NEW option \in Options(p, pid)
  PROVE  /\ option[1] \in Verbs
         /\ option[1] \in VmVerbs => IsVm(p) /\ option[2] = VmId(pid)
         /\ option[1] \in BrowserVerbs =>
              Named(p, {"chrome"}) \/ Named(p, {"edge"}) \/ Named(p, {"firefox"})
  <1>1. CASE IsVm(p)
    <2>1. option \in {"migrate_", "snapshot_", "pause_"} \X {VmId(pid)}
      BY <1>1 DEF Options, VmOptions
    <2> QED BY <1>1, <2>1 DEF Verbs, BrowserVerbs
  <1>2. CASE ~IsVm(p)
    <2> DEFINE own == IF Rule(p) > 0 THEN Rules[Rule(p)].offers \X {<<>>} ELSE UnknownOptions(pid)
    <2>1. option = <<"app_state_", <<pid>>>> \/ option = <<"metadata", <<>>>> \/ option \in own
      BY <1>2 DEF Options
    <2>2. CASE option = <<"app_state_", <<pid>>>> \/ option = <<"metadata", <<>>>>
      BY <2>2 DEF Verbs, VmVerbs, BrowserVerbs
    <2>3. CASE option \in own /\ Rule(p) > 0
      <3>1. option[1] \in Rules[Rule(p)].offers
        BY <2>3
      <3>2. Rule(p) \in 1..8 /\ Named(p, Rules[Rule(p)].words)
        BY <2>3, RuleNames
      <3>3. Rules[Rule(p)].offers \subseteq Verbs \ VmVerbs
        BY <3>2, RuleOffers
      <3>4. option[1] \in BrowserVerbs => Rules[Rule(p)].words \in {{"chrome"}, {"edge"}, {"firefox"}}
        BY <3>1, <3>2, RuleOffers
      <3> QED BY <3>1, <3>2, <3>3, <3>4
    <2>4. CASE option \in own /\ ~(Rule(p) > 0)
      BY <2>4 DEF UnknownOptions, Verbs, VmVerbs, BrowserVerbs
    <2> QED BY <2>1, <2>2, <2>3, <2>4
  <1> QED BY <1>1, <1>2

\* The step that comes first, and what is left after it.
LEMMA Todos ==
  ASSUME NEW todo \in StateTodos \cup OptionTodos \cup AllTodos, todo # <<>>
  PROVE  /\ Head(todo) = "metadata" =>
              \/ todo = <<"metadata">> /\ Tail(todo) = <<>>
              \/ /\ todo = <<"metadata", "shoot", "title", "state">>
                 /\ Tail(todo) = <<"shoot", "title", "state">> /\ Tail(todo) # <<>>
         /\ Head(todo) = "shoot" => \/ todo = <<"shoot", "title">> /\ Tail(todo) = <<"title">>
                                    \/ todo = <<"shoot", "title", "state">> /\ Tail(todo) = <<"title", "state">>
         /\ Head(todo) = "title" => \/ todo = <<"title">> /\ Tail(todo) = <<>>
                                    \/ /\ todo = <<"title", "state">> /\ Tail(todo) = <<"state">>
                                       /\ Tail(todo) # <<>>
         /\ Head(todo) = "state" => todo = <<"state">> /\ Tail(todo) = <<>>
         /\ Head(todo) = "vm" => todo = <<"vm">> /\ Tail(todo) = <<>>
         /\ Head(todo) = "pause" => todo = <<"pause", "vm">> /\ Tail(todo) = <<"vm">>
         /\ Head(todo) = "browser" => todo = <<"browser">>
         /\ Head(todo) = "list" => todo = <<"list">>
         /\ Head(todo) = "app" => \/ todo = <<"app">>
                                  \/ todo = <<"app", "windows">> /\ Tail(todo) = <<"windows">>
         /\ Head(todo) = "inventory" => /\ todo = <<"inventory", "app", "windows">>
                                        /\ Tail(todo) = <<"app", "windows">>
         /\ Head(todo) = "windows" => todo = <<"windows">> /\ Tail(todo) = <<>>
         /\ todo \in AllTodos => Tail(todo) \in AllTodos
  <1>1. CASE todo = <<"metadata", "shoot", "title", "state">>
    <2>1. Head(todo) = "metadata" /\ Tail(todo) = <<"shoot", "title", "state">>
      BY <1>1
    <2> QED BY <1>1, <2>1 DEF AllTodos
  <1>2. CASE todo = <<"shoot", "title", "state">>
    <2>1. Head(todo) = "shoot" /\ Tail(todo) = <<"title", "state">>
      BY <1>2
    <2> QED BY <1>2, <2>1 DEF AllTodos
  <1>3. CASE todo = <<"title", "state">>
    <2>1. Head(todo) = "title" /\ Tail(todo) = <<"state">>
      BY <1>3
    <2> QED BY <1>3, <2>1 DEF AllTodos
  <1>4. CASE todo = <<"state">>
    <2>1. Head(todo) = "state" /\ Tail(todo) = <<>>
      BY <1>4
    <2> QED BY <1>4, <2>1 DEF AllTodos
  <1>5. CASE todo = <<"shoot", "title">>
    <2>1. Head(todo) = "shoot" /\ Tail(todo) = <<"title">>
      BY <1>5
    <2> QED BY <1>5, <2>1 DEF AllTodos
  <1>6. CASE todo = <<"title">>
    <2>1. Head(todo) = "title" /\ Tail(todo) = <<>>
      BY <1>6
    <2> QED BY <1>6, <2>1 DEF AllTodos
  <1>7. CASE todo = <<"metadata">>
    <2>1. Head(todo) = "metadata" /\ Tail(todo) = <<>>
      BY <1>7
    <2> QED BY <1>7, <2>1 DEF AllTodos
  <1>8. CASE todo = <<"vm">>
    <2>1. Head(todo) = "vm" /\ Tail(todo) = <<>>
      BY <1>8
    <2> QED BY <1>8, <2>1 DEF AllTodos
  <1>9. CASE todo = <<"pause", "vm">>
    <2>1. Head(todo) = "pause" /\ Tail(todo) = <<"vm">>
      BY <1>9
    <2> QED BY <1>9, <2>1 DEF AllTodos
  <1>10. CASE todo = <<"browser">>
    <2>1. Head(todo) = "browser" /\ Tail(todo) = <<>>
      BY <1>10
    <2> QED BY <1>10, <2>1 DEF AllTodos
  <1>11. CASE todo = <<"list">>
    <2>1. Head(todo) = "list" /\ Tail(todo) = <<>>
      BY <1>11
    <2> QED BY <1>11, <2>1 DEF AllTodos
  <1>12. CASE todo = <<"app">>
    <2>1. Head(todo) = "app" /\ Tail(todo) = <<>>
      BY <1>12
    <2> QED BY <1>12, <2>1 DEF AllTodos
  <1>13. CASE todo = <<"inventory", "app", "windows">>
    <2>1. Head(todo) = "inventory" /\ Tail(todo) = <<"app", "windows">>
      BY <1>13
    <2> QED BY <1>13, <2>1 DEF AllTodos
  <1>14. CASE todo = <<"app", "windows">>
    <2>1. Head(todo) = "app" /\ Tail(todo) = <<"windows">>
      BY <1>14
    <2> QED BY <1>14, <2>1 DEF AllTodos
  <1>15. CASE todo = <<"windows">>
    <2>1. Head(todo) = "windows" /\ Tail(todo) = <<>>
      BY <1>15
    <2> QED BY <1>15, <2>1 DEF AllTodos
  <1> QED
    BY <1>1, <1>2, <1>3, <1>4, <1>5, <1>6, <1>7, <1>8, <1>9, <1>10, <1>11, <1>12, <1>13, <1>14, <1>15
    DEF StateTodos, OptionTodos, AllTodos


-----------------------------------------------------------------------------
(* The system, the console and new requests.                                *)

\* The process of no pid is none of the processes.
LEMMA NoProcessNone == NoProcess \notin Processes /\ \A p \in Processes : p.number # 0
  BY DEF NoProcess, Processes

\* While processes start and exit, one that has a pid keeps it to its end, and one
\* that has exited stays so.
LEMMA SitsKept ==
  ASSUME TableInv,
         \/ \E pid \in Pids, program \in Programs : Starts(pid, program)
         \/ \E pid \in Pids : Exits(pid)
  PROVE  /\ TableInv'
         /\ \A p, pid : Sits(p, pid) => Sits(p, pid)' /\ (~Runs(p) => ~Runs(p)')
  <1>1. CASE \E pid \in Pids, program \in Programs : Starts(pid, program)
    <2>1. PICK pid \in Pids, program \in Programs : Starts(pid, program)
      BY <1>1
    <2> DEFINE new == [number |-> launched', program |-> program]
    <2>2. /\ launched \in Nat /\ launched' = launched + 1 /\ table' = [table EXCEPT ![pid] = new]
          /\ table \in [Pids -> {NoProcess} \cup Processes]
      BY <2>1 DEF Starts, TableInv
    <2>3. new \in Processes /\ new.number = launched + 1
      BY <2>2 DEF Processes
    <2> HIDE DEF new
    <2>4. /\ table'[pid] = new /\ \A q \in Pids : q # pid => table'[q] = table[q]
          /\ table' \in [Pids -> {NoProcess} \cup Processes]
      BY <2>2, <2>3
    <2>5. \A p : p \in Processes /\ p.number <= launched => p # new /\ p.number <= launched'
      BY <2>2, <2>3 DEF Processes
    <2>6. \A p, r : Sits(p, r) => Sits(p, r)' /\ (~Runs(p) => ~Runs(p)')
      BY <2>4, <2>5 DEF Sits, Runs
    <2>7. ASSUME NEW q \in Pids, Running(q)' PROVE Sits(table[q], q)'
      <3>1. CASE q = pid
        <4>1. \A r \in Pids : r # pid => table'[r] # new
          <5> SUFFICES ASSUME NEW r \in Pids, r # pid, table[r] = new PROVE FALSE
            BY <2>4
          <5>1. Running(r)
            BY <2>3, NoProcessNone DEF Running
          <5> QED BY <2>5, <5>1 DEF TableInv, Sits
        <4> QED BY <2>2, <2>3, <2>4, <3>1, <4>1 DEF Sits
      <3>2. CASE q # pid
        <4>1. table'[q] = table[q] /\ Running(q)
          BY <2>4, <2>7, <3>2 DEF Running
        <4>2. Sits(table[q], q)
          BY <4>1 DEF TableInv
        <4> QED BY <2>6, <4>1, <4>2 DEF Sits
      <3> QED BY <3>1, <3>2
    <2> QED BY <2>2, <2>4, <2>6, <2>7 DEF TableInv
  <1>2. CASE \E pid \in Pids : Exits(pid)
    <2>1. PICK pid \in Pids : Exits(pid)
      BY <1>2
    <2>2. /\ launched' = launched /\ table' = [table EXCEPT ![pid] = NoProcess]
          /\ table \in [Pids -> {NoProcess} \cup Processes] /\ launched \in Nat
      BY <2>1 DEF Exits, TableInv
    <2>3. /\ table'[pid] = NoProcess /\ \A q \in Pids : q # pid => table'[q] = table[q]
          /\ table' \in [Pids -> {NoProcess} \cup Processes]
      BY <2>2
    <2>4. \A p, r : Sits(p, r) => Sits(p, r)' /\ (~Runs(p) => ~Runs(p)')
      BY <2>2, <2>3, NoProcessNone DEF Sits, Runs
    <2>5. ASSUME NEW q \in Pids, Running(q)' PROVE Sits(table[q], q)'
      <3>1. table'[q] = table[q] /\ Running(q)
        BY <2>3, <2>5 DEF Running
      <3>2. Sits(table[q], q)
        BY <3>1 DEF TableInv
      <3> QED BY <2>4, <3>1, <3>2 DEF Sits
    <2> QED BY <2>2, <2>3, <2>4, <2>5 DEF TableInv
  <1> QED BY <1>1, <1>2

\* A request that is in order stays so while processes start and exit.
LEMMA WorkKept ==
  ASSUME NEW w, WorkOk(w),
         \A p, pid : Sits(p, pid) => Sits(p, pid)' /\ (~Runs(p) => ~Runs(p)')
  PROVE  WorkOk(w)'
  <1>1. CASE w = Rest
    BY <1>1 DEF WorkOk
  <1>2. ASSUME Sits(w.chosen, w.pid), ReadInv(w) PROVE ReadInv(w)'
    BY <1>2 DEF ReadInv
  <1>3. CASE IsWork(w) /\ OptionWork(w)
    BY <1>2, <1>3 DEF WorkOk, OptionWork, IsWork
  <1>4. CASE IsWork(w) /\ AllWork(w)
    BY <1>2, <1>4 DEF WorkOk, AllWork, IsWork
  <1> QED BY <1>1, <1>3, <1>4 DEF WorkOk

\* The table changes and nothing else.
LEMMA SystemKeeps ==
  ASSUME ProcessInv,
         \/ \E pid \in Pids, program \in Programs : Starts(pid, program)
         \/ \E pid \in Pids : Exits(pid)
  PROVE  ProcessInv'
  <1>1. UNCHANGED <<listing, work, made, refusals>>
    BY DEF Starts, Exits
  <1>2. /\ TableInv'
        /\ \A p, pid : Sits(p, pid) => Sits(p, pid)' /\ (~Runs(p) => ~Runs(p)')
    BY SitsKept DEF ProcessInv
  <1>3. ListInv'
    BY <1>1, <1>2 DEF ProcessInv, ListInv
  <1>4. WorkInv'
    <2>1. WorkOk(work)
      BY DEF ProcessInv, WorkInv
    <2>2. \A w : WorkOk(w) => WorkOk(w)'
      BY <1>2, WorkKept
    <2>3. \A w : work' = w /\ WorkOk(w)' => WorkInv'
      BY DEF WorkInv
    <2> QED BY <1>1, <2>1, <2>2, <2>3
  <1>5. CapturesAsOffered'
    BY <1>1 DEF ProcessInv, CapturesAsOffered, OfferedOptionsWork, RecordsDescribeChosen
  <1> QED BY <1>2, <1>3, <1>4, <1>5 DEF ProcessInv

\* With the table unchanged, what was in order for this state is for the next.
LEMMA StillOk ==
  ASSUME UNCHANGED <<table, launched>>
  PROVE  /\ TableInv => TableInv'
         /\ UNCHANGED listing /\ ListInv => ListInv'
         /\ WorkOk(work') => WorkInv'
  <1>1. \A p, pid : Sits(p, pid)' = Sits(p, pid) /\ Runs(p)' = Runs(p)
    BY DEF Sits, Runs
  <1>2. TableInv => TableInv'
    BY DEF TableInv, Sits, Running
  <1>3. UNCHANGED listing /\ ListInv => ListInv'
    BY <1>1 DEF ListInv
  <1>4. \A w : WorkOk(w) => WorkOk(w)'
    BY <1>1, WorkKept
  <1>5. \A w : work' = w /\ WorkOk(w)' => WorkInv'
    BY DEF WorkInv
  <1> QED BY <1>2, <1>3, <1>4, <1>5

\* The console shows processes under their pids, with their options.
LEMMA ListKeeps ==
  ASSUME ProcessInv, List
  PROVE  ProcessInv'
  <1>1. /\ UNCHANGED <<table, launched, work, made, refusals>>
        /\ listing' = {[pid |-> pid, process |-> table[pid], options |-> Options(table[pid], pid)] :
                        pid \in {q \in Pids : Running(q) /\ ~IsSystem(table[q])}}
    BY DEF List
  <1>2. ListInv'
    <2> SUFFICES ASSUME NEW shown \in listing'
                 PROVE  /\ Sits(shown.process, shown.pid)'
                        /\ shown.options = Options(shown.process, shown.pid)
      BY DEF ListInv
    <2>1. PICK pid \in Pids : /\ Running(pid)
                              /\ shown = [pid |-> pid, process |-> table[pid],
                                          options |-> Options(table[pid], pid)]
      BY <1>1
    <2>2. Sits(table[pid], pid)
      BY <2>1 DEF ProcessInv, TableInv
    <2> QED BY <1>1, <2>1, <2>2 DEF Sits
  <1>3. TableInv' /\ WorkInv'
    BY <1>1, StillOk DEF ProcessInv, WorkInv
  <1>4. CapturesAsOffered'
    BY <1>1 DEF ProcessInv, CapturesAsOffered, OfferedOptionsWork, RecordsDescribeChosen
  <1> QED BY <1>2, <1>3, <1>4 DEF ProcessInv

\* A request for an option of the listing: the service has steps for it.
LEMMA ChooseKeeps ==
  ASSUME ProcessInv, NEW shown \in listing, NEW option \in shown.options, Choose(shown, option)
  PROVE  ProcessInv'
  <1>1. Sits(shown.process, shown.pid) /\ option \in Options(shown.process, shown.pid)
    BY DEF ProcessInv, ListInv
  <1>2. option[1] \in Verbs
    BY <1>1, Offered
  <1>3. /\ Steps(option[1]) # <<>> /\ Steps(option[1]) \in StateTodos \cup OptionTodos
        /\ Steps(option[1]) \notin {<<"title">>, <<"title", "state">>, <<"shoot", "title", "state">>, <<"state">>}
        /\ Steps(option[1]) \in {<<"vm">>, <<"pause", "vm">>} => option[1] \in VmVerbs
        /\ Steps(option[1]) = <<"browser">> => option[1] \in BrowserVerbs
    BY <1>2, VerbSteps
  <1> DEFINE todo == Steps(option[1])
             w == [at |-> "option", pid |-> shown.pid, chosen |-> shown.process, option |-> option,
                   todo |-> todo, read |-> NoProcess, shot |-> NoProcess, queue |-> {}, taken |-> 0]
  <1>4. work' = w /\ UNCHANGED <<table, launched, listing, made, refusals>>
    BY <1>3 DEF Choose
  <1>5. WorkOk(work')
    <2> HIDE DEF todo
    <2>1. /\ w.at = "option" /\ w.pid = shown.pid /\ w.chosen = shown.process /\ w.option = option
          /\ w.todo = todo /\ w.read = NoProcess /\ w.shot = NoProcess /\ IsWork(w)
      BY DEF IsWork
    <2> HIDE DEF w
    <2>2. ReadInv(w)
      BY <1>3, <2>1 DEF ReadInv, todo, StateTodos
    <2>3. OptionWork(w)
      BY <1>1, <1>3, <2>1, <2>2 DEF OptionWork, todo, VmVerbs, BrowserVerbs
    <2> QED BY <1>4, <2>1, <2>3 DEF WorkOk
  <1>6. TableInv' /\ ListInv' /\ WorkInv'
    BY <1>4, <1>5, StillOk DEF ProcessInv
  <1>7. CapturesAsOffered'
    BY <1>4 DEF ProcessInv, CapturesAsOffered, OfferedOptionsWork, RecordsDescribeChosen
  <1> QED BY <1>6, <1>7 DEF ProcessInv

\* A full capture begins with its inventory.
LEMMA CaptureAllKeeps ==
  ASSUME ProcessInv, CaptureAll
  PROVE  ProcessInv'
  <1> DEFINE w == [at |-> "all", pid |-> 0, chosen |-> NoProcess, option |-> <<"all", <<>>>>,
                   todo |-> <<"inventory", "app", "windows">>, read |-> NoProcess,
                   shot |-> NoProcess, queue |-> {}, taken |-> 0]
  <1>1. work' = w /\ UNCHANGED <<table, launched, listing, made, refusals>>
    BY DEF CaptureAll
  <1>2. WorkOk(work')
    BY <1>1 DEF WorkOk, IsWork, AllWork, AllTodos
  <1>3. TableInv' /\ ListInv' /\ WorkInv'
    BY <1>1, <1>2, StillOk DEF ProcessInv
  <1>4. CapturesAsOffered'
    BY <1>1 DEF ProcessInv, CapturesAsOffered, OfferedOptionsWork, RecordsDescribeChosen
  <1> QED BY <1>3, <1>4 DEF ProcessInv

-----------------------------------------------------------------------------
(* The steps of a request.                                                  *)

\* The process under the pid of a request is the chosen one, if that still runs.
LEMMA NowChosen ==
  ASSUME TableInv, NEW p, NEW pid, Sits(p, pid)
  PROVE  /\ p # NoProcess /\ pid \in Pids /\ pid # 0
         /\ Runs(p) => table[pid] = p
         /\ table[pid] = p => Runs(p)
  BY NoProcessNone, ProcessAssumption DEF Sits, Runs

\* A request with steps left is one for an option, a full capture before its
\* windows, or one at a window.
LEMMA Parts ==
  ASSUME NEW w, WorkOk(w), w # Rest, w.todo # <<>>
  PROVE  /\ IsWork(w) /\ w.todo \in StateTodos \cup OptionTodos \cup AllTodos
         /\ \/ OptionWork(w) /\ w.at # "all"
            \/ AllWork(w) /\ w.pid = 0 /\ w.todo \in AllTodos /\ w.at # "option" /\ w.chosen = NoProcess
            \/ AllWork(w) /\ w.pid # 0 /\ Sits(w.chosen, w.pid) /\ w.todo \in StateTodos /\ ReadInv(w)
               /\ w.at # "option"
  <1>1. IsWork(w) /\ (OptionWork(w) \/ AllWork(w))
    BY DEF WorkOk
  <1>2. CASE OptionWork(w)
    BY <1>1, <1>2 DEF OptionWork
  <1>3. CASE AllWork(w)
    <2>1. CASE w.pid = 0 /\ w.chosen = NoProcess /\ w.todo \in AllTodos
      BY <1>1, <1>3, <2>1 DEF AllWork
    <2>2. CASE Sits(w.chosen, w.pid) /\ w.todo \in StateTodos /\ ReadInv(w)
      <3>1. w.pid # 0
        BY <2>2, ProcessAssumption DEF Sits
      <3> QED BY <1>1, <1>3, <2>2, <3>1 DEF AllWork
    <2> QED BY <1>3, <2>1, <2>2 DEF AllWork
  <1> QED BY <1>1, <1>2, <1>3

\* No step that has anything left to do is the end of a list of steps.
LEMMA TodosNotEmpty == <<>> \notin StateTodos \cup OptionTodos
  BY DEF StateTodos, OptionTodos

\* After a step a request is at rest or goes on with a part that is in order.
LEMMA NextPartOk ==
  ASSUME NEW w, WorkOk(w), w # Rest, w.todo # <<>>
  PROVE  WorkOk(NextPart(w))
  <1>1. IsWork(w) /\ w.todo \in StateTodos \cup OptionTodos \cup AllTodos
    BY Parts
  <1>2. CASE w.at = "option"
    BY <1>2 DEF NextPart, WorkOk
  <1>3. CASE AllWork(w) /\ w.pid = 0 /\ w.todo \in AllTodos /\ w.at # "option" /\ w.chosen = NoProcess
    <2> DEFINE v == NextPart(w)
    <2>1. v = [w EXCEPT !.todo = Tail(w.todo)]
      BY <1>3 DEF NextPart
    <2>2. /\ IsWork(v) /\ v.at = w.at /\ v.pid = w.pid /\ v.chosen = w.chosen
          /\ v.todo = Tail(w.todo) /\ v.read = w.read /\ v.shot = w.shot /\ v.queue = w.queue
      BY <1>1, <2>1 DEF IsWork
    <2>3. Tail(w.todo) \in AllTodos
      BY <1>1, <1>3, Todos
    <2>4. w.read = NoProcess /\ w.shot = NoProcess
      BY <1>3, ProcessAssumption DEF AllWork, Sits
    <2> HIDE DEF v
    <2>5. AllWork(v)
      BY <1>3, <2>2, <2>3, <2>4 DEF AllWork
    <2> QED BY <2>2, <2>5 DEF WorkOk, v
  <1>4. CASE AllWork(w) /\ w.pid # 0 /\ w.at # "option"
    <2> DEFINE v == NextPart(w)
    <2>1. v = [w EXCEPT !.todo = <<>>, !.read = NoProcess, !.shot = NoProcess]
      BY <1>4 DEF NextPart
    <2>2. /\ IsWork(v) /\ v.at = w.at /\ v.pid = w.pid /\ v.chosen = w.chosen
          /\ v.todo = <<>> /\ v.read = NoProcess /\ v.shot = NoProcess /\ v.queue = w.queue
      BY <1>1, <2>1 DEF IsWork
    <2> HIDE DEF v
    <2>5. AllWork(v)
      BY <1>4, <2>2 DEF AllWork
    <2> QED BY <2>2, <2>5 DEF WorkOk, v
  <1> QED BY <1>2, <1>3, <1>4, Parts DEF OptionWork

\* A step that changes neither the table nor the listing.
LEMMA Goes ==
  ASSUME ProcessInv, UNCHANGED <<table, launched, listing, made, refusals>>, WorkOk(work')
  PROVE  ProcessInv'
  <1>1. TableInv' /\ ListInv' /\ WorkInv'
    BY StillOk DEF ProcessInv
  <1>2. CapturesAsOffered'
    BY DEF ProcessInv, CapturesAsOffered, OfferedOptionsWork, RecordsDescribeChosen
  <1> QED BY <1>1, <1>2 DEF ProcessInv

\* A step that keeps a record of the chosen process, or of one that has exited.
LEMMA Keeps ==
  ASSUME ProcessInv, NEW record, NEW next, Keep(record, next), WorkOk(next),
         ~record.gone => /\ record.of \subseteq {record.chosen}
                         /\ record.what = "pages" => Named(record.chosen, {record.browser})
  PROVE  ProcessInv'
  <1>1. /\ UNCHANGED <<table, launched, listing, refusals>> /\ work' = next
        /\ made' = made \cup {record}
    BY DEF Keep
  <1>2. TableInv' /\ ListInv' /\ WorkInv'
    BY <1>1, StillOk DEF ProcessInv
  <1>3. CapturesAsOffered'
    BY <1>1 DEF ProcessInv, CapturesAsOffered, OfferedOptionsWork, RecordsDescribeChosen
  <1> QED BY <1>2, <1>3 DEF ProcessInv

\* A step that answers with an error.
LEMMA Refuses ==
  ASSUME ProcessInv, work # Rest, work.todo # <<>>, NEW why, Refuse(why),
         work.at # "all" =>
           \/ why = "process not found" /\ ~Runs(work.chosen)
           \/ why = "no window" /\ (~Runs(work.chosen) \/ ~work.chosen.program.window)
           \/ why = "unknown VM" /\ IsVm(work.chosen)
  PROVE  ProcessInv'
  <1> DEFINE refusal == [option |-> work.option, process |-> work.chosen, why |-> why,
                         gone |-> ~Runs(work.chosen)]
  <1>1. /\ UNCHANGED <<table, launched, listing, made>> /\ work' = NextPart(work)
        /\ refusals' = IF work.at = "all" THEN refusals ELSE refusals \cup {refusal}
    BY DEF Refuse
  <1>2. TableInv' /\ ListInv' /\ WorkInv'
    BY <1>1, StillOk, NextPartOk DEF ProcessInv, WorkInv
  <1>3. /\ refusal.process = work.chosen /\ refusal.why = why /\ refusal.gone = ~Runs(work.chosen)
    OBVIOUS
  <1> HIDE DEF refusal
  <1>4. OfferedOptionsWork'
    BY <1>1, <1>3 DEF ProcessInv, CapturesAsOffered, OfferedOptionsWork
  <1>5. RecordsDescribeChosen'
    BY <1>1 DEF ProcessInv, CapturesAsOffered, RecordsDescribeChosen
  <1> QED BY <1>2, <1>4, <1>5 DEF ProcessInv, CapturesAsOffered

\* Where the steps of a part begin.
LEMMA Heads ==
  /\ \A todo \in AllTodos : todo # <<>> => Head(todo) \in {"inventory", "app", "windows"}
  /\ \A todo \in StateTodos : Head(todo) \in {"metadata", "shoot", "title", "state"}
  /\ \A todo \in OptionTodos : Head(todo) \in {"metadata", "shoot", "title", "vm", "pause", "browser", "list", "app"}
  BY DEF AllTodos, StateTodos, OptionTodos

\* The lists of steps of several parts.
LEMMA Shapes ==
  /\ <<"shoot", "title", "state">> \in StateTodos /\ <<"title", "state">> \in StateTodos
  /\ <<"state">> \in StateTodos /\ <<"title">> \in OptionTodos /\ <<"vm">> \in OptionTodos
  /\ <<"metadata", "shoot", "title", "state">> \in StateTodos
  /\ <<"title", "state">> # <<"title">> /\ <<"shoot", "title", "state">> \notin {<<"title">>, <<"title", "state">>}
  /\ <<"state">> \notin {<<"title">>, <<"title", "state">>}
  /\ <<"title">> \notin StateTodos /\ <<"vm">> \notin StateTodos /\ <<"shoot", "title">> \notin StateTodos
  /\ <<"state">> # <<"metadata", "shoot", "title", "state">>
  /\ <<"title", "state">> # <<"metadata", "shoot", "title", "state">>
  /\ <<"shoot", "title", "state">> # <<"metadata", "shoot", "title", "state">>
  /\ \A todo \in StateTodos : todo \notin {<<"vm">>, <<"pause", "vm">>, <<"browser">>}
  /\ <<"title">> \notin {<<"vm">>, <<"pause", "vm">>, <<"browser">>}
  /\ <<"vm">> \notin {<<"browser">>, <<"title">>, <<"title", "state">>}
  BY DEF StateTodos, OptionTodos

\* The inventory of all processes is about none of them.
LEMMA InventoryKeeps ==
  ASSUME ProcessInv, Inventory
  PROVE  ProcessInv'
  <1>1. WorkOk(work) /\ work # Rest /\ work.todo # <<>> /\ Head(work.todo) = "inventory"
    BY DEF ProcessInv, WorkInv, Inventory, Doing
  <1>2. work.pid = 0 /\ work.at # "option"
    BY <1>1, Parts, Heads DEF OptionWork
  <1>3. Advance = NextPart(work)
    BY <1>2 DEF Advance, NextPart
  <1>4. WorkOk(Advance)
    BY <1>1, <1>3, NextPartOk
  <1> DEFINE record == RecordOf("inventory", {})
  <1>5. record.of = {} /\ record.what = "inventory" /\ Keep(record, Advance)
    BY DEF RecordOf, Inventory
  <1> HIDE DEF record
  <1> QED BY <1>4, <1>5, Keeps

\* The windows are those of processes that run.
LEMMA ListWindowsKeeps ==
  ASSUME ProcessInv, ListWindows
  PROVE  ProcessInv'
  <1>1. WorkOk(work) /\ work # Rest /\ work.todo # <<>> /\ Head(work.todo) = "windows"
    BY DEF ProcessInv, WorkInv, ListWindows, Doing
  <1>2. IsWork(work) /\ AllWork(work) /\ work.pid = 0 /\ work.todo \in AllTodos /\ work.chosen = NoProcess
    BY <1>1, Parts, Heads DEF OptionWork
  <1>3. work.read = NoProcess /\ work.shot = NoProcess
    BY <1>2, ProcessAssumption DEF AllWork, Sits
  <1>4. \A window \in Windows : Sits(window.process, window.pid)
    BY DEF Windows, ProcessInv, TableInv
  <1>5. Tail(work.todo) \in AllTodos
    BY <1>1, <1>2, Todos
  <1> DEFINE v == [Advance EXCEPT !.queue = Windows]
  <1>6. /\ IsWork(v) /\ v.at = work.at /\ v.pid = 0 /\ v.chosen = NoProcess /\ v.todo = Tail(work.todo)
        /\ v.read = NoProcess /\ v.shot = NoProcess /\ v.queue = Windows
    BY <1>2, <1>3 DEF IsWork, Advance
  <1>7. work' = v /\ UNCHANGED <<table, launched, listing, made, refusals>>
    BY DEF ListWindows
  <1> HIDE DEF v
  <1>8. WorkOk(v)
    BY <1>2, <1>4, <1>5, <1>6 DEF WorkOk, AllWork
  <1> QED BY <1>7, <1>8, Goes

\* The next window: what was read about the one before is forgotten.
LEMMA NextWindowKeeps ==
  ASSUME ProcessInv, NextWindow
  PROVE  ProcessInv'
  <1>1. /\ WorkOk(work) /\ work # Rest /\ work.at = "all" /\ work.todo = <<>>
        /\ UNCHANGED <<table, launched, listing, made, refusals>>
    BY DEF ProcessInv, WorkInv, NextWindow
  <1>2. IsWork(work) /\ AllWork(work) /\ work.read = NoProcess /\ work.shot = NoProcess
    BY <1>1, TodosNotEmpty DEF WorkOk, OptionWork, AllWork
  <1>3. WorkOk(work')
    <2>1. CASE work' = Rest
      BY <2>1 DEF WorkOk
    <2>2. ASSUME NEW window \in work.queue,
                 LET rest == [work EXCEPT !.queue = @ \ {window}] IN
                   work' = IF Named(table[window.pid], {"explorer.exe"}) THEN rest
                           ELSE [rest EXCEPT !.pid = window.pid, !.chosen = window.process,
                                             !.todo = Steps("app_state_")]
          PROVE  WorkOk(work')
      <3> DEFINE left == work.queue \ {window}
                 rest == [work EXCEPT !.queue = left]
                 v == [rest EXCEPT !.pid = window.pid, !.chosen = window.process,
                                   !.todo = Steps("app_state_")]
      <3>1. Sits(window.process, window.pid) /\ \A other \in left : Sits(other.process, other.pid)
        BY <1>2 DEF AllWork
      <3>2. /\ IsWork(rest) /\ rest.at = "all" /\ rest.pid = work.pid /\ rest.chosen = work.chosen
            /\ rest.todo = <<>> /\ rest.read = NoProcess /\ rest.shot = NoProcess /\ rest.queue = left
        BY <1>1, <1>2 DEF IsWork
      <3>3. work' = rest \/ work' = v
        BY <2>2
      <3> HIDE DEF rest
      <3>4. /\ IsWork(v) /\ v.at = "all" /\ v.pid = window.pid /\ v.chosen = window.process
            /\ v.todo = Steps("app_state_") /\ v.read = NoProcess /\ v.shot = NoProcess /\ v.queue = left
        BY <3>2 DEF IsWork
      <3>5. Steps("app_state_") = <<"metadata", "shoot", "title", "state">>
        BY DEF Steps
      <3> HIDE DEF v, left
      <3>6. CASE work' = rest
        <4>1. AllWork(rest)
          BY <1>1, <1>2, <3>1, <3>2, TodosNotEmpty DEF AllWork, AllTodos
        <4> QED BY <3>2, <3>6, <4>1 DEF WorkOk
      <3>7. CASE work' = v
        <4>1. ReadInv(v)
          BY <3>4, <3>5, Shapes DEF ReadInv
        <4>2. AllWork(v)
          BY <3>1, <3>4, <3>5, <4>1, Shapes DEF AllWork
        <4> QED BY <3>4, <3>7, <4>2 DEF WorkOk
      <3> QED BY <3>3, <3>6, <3>7
    <2> QED BY <2>1, <2>2 DEF NextWindow
  <1> QED BY <1>1, <1>3, Goes

\* The process read is the chosen one, or that has exited.
LEMMA ReadMetadataKeeps ==
  ASSUME ProcessInv, ReadMetadata
  PROVE  ProcessInv'
  <1>1. WorkOk(work) /\ work # Rest /\ work.todo # <<>> /\ Head(work.todo) = "metadata" /\ TableInv
    BY DEF ProcessInv, WorkInv, ReadMetadata, Doing
  <1>2. /\ IsWork(work) /\ Sits(work.chosen, work.pid) /\ ReadInv(work)
        /\ work.todo \in StateTodos \cup OptionTodos
        /\ OptionWork(work) \/ (AllWork(work) /\ work.todo \in StateTodos)
    BY <1>1, Parts, Heads DEF OptionWork
  <1>3. work.chosen # NoProcess /\ work.pid \in Pids /\ (Runs(work.chosen) => Now = work.chosen)
    BY <1>1, <1>2, NowChosen DEF Now
  <1>4. CASE ~Running(work.pid)
    <2>1. Refuse("process not found")
      BY <1>4 DEF ReadMetadata
    <2>2. ~Runs(work.chosen)
      BY <1>3, <1>4 DEF Running, Now
    <2> QED BY <1>1, <2>1, <2>2, Refuses
  <1>5. CASE Running(work.pid) /\ Tail(work.todo) = <<>>
    <2> DEFINE record == RecordOf("metadata", {Now})
    <2>1. Keep(record, NextPart(work))
      BY <1>5 DEF ReadMetadata
    <2>2. record.of = {Now} /\ record.what = "metadata" /\ record.chosen = work.chosen
          /\ record.gone = ~Runs(work.chosen)
      BY DEF RecordOf
    <2> HIDE DEF record
    <2>3. WorkOk(NextPart(work))
      BY <1>1, NextPartOk
    <2> QED BY <1>3, <2>1, <2>2, <2>3, Keeps
  <1>6. CASE Running(work.pid) /\ Tail(work.todo) # <<>>
    <2> DEFINE v == [Advance EXCEPT !.read = Now, !.shot = NoProcess]
    <2>1. work' = v /\ UNCHANGED <<table, launched, listing, made, refusals>>
      BY <1>6 DEF ReadMetadata
    <2>2. Tail(work.todo) = <<"shoot", "title", "state">>
      BY <1>1, <1>2, <1>6, Todos
    <2>3. /\ IsWork(v) /\ v.at = work.at /\ v.pid = work.pid /\ v.chosen = work.chosen
          /\ v.option = work.option /\ v.todo = Tail(work.todo) /\ v.read = Now /\ v.shot = NoProcess
          /\ v.queue = work.queue
      BY <1>2 DEF IsWork, Advance
    <2> HIDE DEF v
    <2>4. Now # NoProcess
      BY <1>6 DEF Running, Now
    <2>5. ReadInv(v)
      BY <1>3, <2>2, <2>3, <2>4, Shapes DEF ReadInv
    <2>6. OptionWork(v) \/ AllWork(v)
      BY <1>2, <2>2, <2>3, <2>5, Shapes DEF OptionWork, AllWork
    <2>7. WorkOk(v)
      BY <2>3, <2>6 DEF WorkOk
    <2> QED BY <2>1, <2>7, Goes
  <1> QED BY <1>4, <1>5, <1>6

\* So is the process whose window is shot; an application state goes on without.
LEMMA ShootKeeps ==
  ASSUME ProcessInv, Shoot
  PROVE  ProcessInv'
  <1>1. WorkOk(work) /\ work # Rest /\ work.todo # <<>> /\ Head(work.todo) = "shoot" /\ TableInv
    BY DEF ProcessInv, WorkInv, Shoot, Doing
  <1>2. /\ IsWork(work) /\ Sits(work.chosen, work.pid) /\ ReadInv(work)
        /\ work.todo \in StateTodos \cup OptionTodos
        /\ OptionWork(work) \/ (AllWork(work) /\ work.pid # 0 /\ work.todo \in StateTodos)
    BY <1>1, Parts, Heads DEF OptionWork
  <1>3. work.chosen # NoProcess /\ work.pid \in Pids /\ (Runs(work.chosen) => Now = work.chosen)
    BY <1>1, <1>2, NowChosen DEF Now
  <1>4. \/ work.todo = <<"shoot", "title">> /\ Tail(work.todo) = <<"title">>
        \/ /\ work.todo = <<"shoot", "title", "state">> /\ Tail(work.todo) = <<"title", "state">>
           /\ work.read # NoProcess
    BY <1>1, <1>2, Todos, Shapes DEF ReadInv
  <1>5. CASE Running(work.pid) /\ table[work.pid].program.window
    <2> DEFINE v == [Advance EXCEPT !.shot = Now]
    <2>1. work' = v /\ UNCHANGED <<table, launched, listing, made, refusals>>
      BY <1>5 DEF Shoot
    <2>2. /\ IsWork(v) /\ v.at = work.at /\ v.pid = work.pid /\ v.chosen = work.chosen
          /\ v.option = work.option /\ v.todo = Tail(work.todo) /\ v.read = work.read /\ v.shot = Now
          /\ v.queue = work.queue
      BY <1>2 DEF IsWork, Advance
    <2> HIDE DEF v
    <2>3. Now # NoProcess
      BY <1>5 DEF Running, Now
    <2>4. ReadInv(v)
      BY <1>2, <1>3, <1>4, <2>2, <2>3, Shapes DEF ReadInv
    <2>5. OptionWork(v) \/ AllWork(v)
      BY <1>2, <1>4, <2>2, <2>4, Shapes DEF OptionWork, AllWork
    <2> QED BY <2>1, <2>2, <2>5, Goes DEF WorkOk
  <1>6. CASE ~(Running(work.pid) /\ table[work.pid].program.window) /\ work.read # NoProcess
    <2> DEFINE v == [work EXCEPT !.todo = <<"state">>]
    <2>1. work' = v /\ UNCHANGED <<table, launched, listing, made, refusals>>
      BY <1>6 DEF Shoot
    <2>2. /\ IsWork(v) /\ v.at = work.at /\ v.pid = work.pid /\ v.chosen = work.chosen
          /\ v.option = work.option /\ v.todo = <<"state">> /\ v.read = work.read /\ v.shot = work.shot
          /\ v.queue = work.queue
      BY <1>2 DEF IsWork
    <2> HIDE DEF v
    <2>3. ReadInv(v)
      BY <1>2, <1>6, <2>2, Shapes DEF ReadInv
    <2>4. OptionWork(v) \/ AllWork(v)
      BY <1>2, <2>2, <2>3, Shapes DEF OptionWork, AllWork
    <2> QED BY <2>1, <2>2, <2>4, Goes DEF WorkOk
  <1>7. CASE ~(Running(work.pid) /\ table[work.pid].program.window) /\ work.read = NoProcess
    <2>1. Refuse("no window")
      BY <1>7 DEF Shoot
    <2>2. ~Runs(work.chosen) \/ ~work.chosen.program.window
      BY <1>3, <1>7 DEF Running, Now
    <2> QED BY <1>1, <2>1, <2>2, Refuses
  <1> QED BY <1>5, <1>6, <1>7

\* A picture has the name of the process it is of, or that has exited.
LEMMA TitleKeeps ==
  ASSUME ProcessInv, Title
  PROVE  ProcessInv'
  <1>1. WorkOk(work) /\ work # Rest /\ work.todo # <<>> /\ Head(work.todo) = "title" /\ TableInv
    BY DEF ProcessInv, WorkInv, Title, Doing
  <1>2. /\ IsWork(work) /\ Sits(work.chosen, work.pid) /\ ReadInv(work)
        /\ work.todo \in StateTodos \cup OptionTodos
        /\ OptionWork(work) \/ (AllWork(work) /\ work.pid # 0 /\ work.todo \in StateTodos)
    BY <1>1, Parts, Heads DEF OptionWork
  <1>3. Runs(work.chosen) => Now = work.chosen
    BY <1>1, <1>2, NowChosen DEF Now
  <1>4. /\ work.shot # NoProcess
        /\ \/ Tail(work.todo) = <<>>
           \/ Tail(work.todo) = <<"state">> /\ Tail(work.todo) # <<>> /\ work.todo = <<"title", "state">>
    BY <1>1, <1>2, Todos DEF ReadInv
  <1> DEFINE record == RecordOf("screenshot", {work.shot} \cup ({Now} \ {NoProcess}))
             next == IF Tail(work.todo) = <<>> THEN NextPart(work) ELSE Advance
  <1>5. Keep(record, next)
    BY DEF Title
  <1>6. ~record.gone => record.of \subseteq {record.chosen} /\ record.what # "pages"
    BY <1>2, <1>3, <1>4 DEF RecordOf, ReadInv
  <1>7. WorkOk(next)
    <2>1. CASE Tail(work.todo) = <<>>
      BY <1>1, <2>1, NextPartOk
    <2>2. CASE Tail(work.todo) = <<"state">> /\ Tail(work.todo) # <<>> /\ work.todo = <<"title", "state">>
      <3> DEFINE v == Advance
      <3>1. /\ IsWork(v) /\ v.at = work.at /\ v.pid = work.pid /\ v.chosen = work.chosen
            /\ v.option = work.option /\ v.todo = Tail(work.todo) /\ v.read = work.read
            /\ v.shot = work.shot /\ v.queue = work.queue
        BY <1>2 DEF IsWork, Advance
      <3> HIDE DEF v
      <3>2. ReadInv(v)
        BY <1>2, <2>2, <3>1, Shapes DEF ReadInv
      <3>3. OptionWork(v) \/ AllWork(v)
        BY <1>2, <2>2, <3>1, <3>2, Shapes DEF OptionWork, AllWork
      <3>4. WorkOk(v)
        BY <3>1, <3>3 DEF WorkOk
      <3> QED BY <2>2, <3>4 DEF v
    <2> QED BY <1>4, <2>1, <2>2
  <1> HIDE DEF record, next
  <1> QED BY <1>5, <1>6, <1>7, Keeps

\* An application state is of the process that was read and shot.
LEMMA RecordStateKeeps ==
  ASSUME ProcessInv, RecordState
  PROVE  ProcessInv'
  <1>1. WorkOk(work) /\ work # Rest /\ work.todo # <<>> /\ Head(work.todo) = "state" /\ TableInv
    BY DEF ProcessInv, WorkInv, RecordState, Doing
  <1>2. /\ IsWork(work) /\ Sits(work.chosen, work.pid) /\ ReadInv(work)
        /\ work.todo \in StateTodos \cup OptionTodos
        /\ OptionWork(work) \/ (AllWork(work) /\ work.pid # 0 /\ work.todo \in StateTodos)
    BY <1>1, Parts, Heads DEF OptionWork
  <1>3. work.todo = <<"state">> /\ work.read # NoProcess
    BY <1>1, <1>2, Todos, Shapes DEF ReadInv
  <1> DEFINE record == RecordOf("app_state", {work.read} \cup ({work.shot} \ {NoProcess}))
             v == [work EXCEPT !.taken = @ + 1]
  <1>4. Keep(record, NextPart(v))
    BY DEF RecordState
  <1>5. ~record.gone => record.of \subseteq {record.chosen} /\ record.what # "pages"
    BY <1>2, <1>3 DEF RecordOf, ReadInv
  <1>6. /\ IsWork(v) /\ v.at = work.at /\ v.pid = work.pid /\ v.chosen = work.chosen
        /\ v.option = work.option /\ v.todo = work.todo /\ v.read = work.read
        /\ v.shot = work.shot /\ v.queue = work.queue
    BY <1>2 DEF IsWork
  <1> HIDE DEF record, v
  <1>7. ReadInv(v)
    BY <1>2, <1>6 DEF ReadInv
  <1>8. OptionWork(v) \/ AllWork(v)
    BY <1>2, <1>6, <1>7 DEF OptionWork, AllWork
  <1>9. v # Rest
    BY <1>2, <1>6 DEF OptionWork, AllWork, Rest
  <1>10. WorkOk(NextPart(v))
    BY <1>1, <1>6, <1>8, <1>9, NextPartOk DEF WorkOk
  <1> QED BY <1>4, <1>5, <1>10, Keeps

\* Pages are those of the browser the chosen process is, or that has exited.
LEMMA ReadBrowserKeeps ==
  ASSUME ProcessInv, ReadBrowser
  PROVE  ProcessInv'
  <1>1. WorkOk(work) /\ work # Rest /\ work.todo # <<>> /\ Head(work.todo) = "browser" /\ TableInv
    BY DEF ProcessInv, WorkInv, ReadBrowser, Doing
  <1>2. OptionWork(work) /\ Sits(work.chosen, work.pid) /\ work.option \in Options(work.chosen, work.pid)
    BY <1>1, Parts, Heads DEF OptionWork
  <1>3. work.todo = <<"browser">>
    BY <1>1, <1>2, Parts, Todos
  <1>4. Named(work.chosen, {"chrome"}) \/ Named(work.chosen, {"edge"}) \/ Named(work.chosen, {"firefox"})
    BY <1>2, <1>3, Offered DEF OptionWork, BrowserVerbs
  <1>5. Runs(work.chosen) => Now = work.chosen
    BY <1>1, <1>2, NowChosen DEF Now
  <1>6. Runs(work.chosen) => Named(work.chosen, {BrowserOf(Now)})
    BY <1>4, <1>5 DEF BrowserOf, Named
  <1> DEFINE record == [RecordOf("pages", {}) EXCEPT !.browser = BrowserOf(Now)]
  <1>7. Keep(record, Rest)
    BY DEF ReadBrowser
  <1>8. /\ record.of = {} /\ record.browser = BrowserOf(Now) /\ record.chosen = work.chosen
        /\ record.gone = ~Runs(work.chosen)
    BY DEF RecordOf
  <1> HIDE DEF record
  <1> QED BY <1>6, <1>7, <1>8, Keeps DEF WorkOk

\* What an application tells is about no process.
LEMMA ReadAppKeeps ==
  ASSUME ProcessInv, ReadApp \/ ReadList
  PROVE  ProcessInv'
  <1>1. WorkOk(work) /\ work # Rest /\ work.todo # <<>>
    BY DEF ProcessInv, WorkInv, ReadApp, ReadList, Doing
  <1>2. WorkOk(NextPart(work)) /\ WorkOk(Rest)
    BY <1>1, NextPartOk DEF WorkOk
  <1>3. Keep(RecordOf("application", {}), NextPart(work)) \/ Keep(RecordOf("list", {}), Rest)
    BY DEF ReadApp, ReadList
  <1>4. /\ RecordOf("application", {}).of = {} /\ RecordOf("application", {}).what = "application"
        /\ RecordOf("list", {}).of = {} /\ RecordOf("list", {}).what = "list"
    BY DEF RecordOf
  <1> QED BY <1>2, <1>3, <1>4, Keeps

\* The id a running VM is offered by is in no manifest, so it is refused.
LEMMA VmKeeps ==
  ASSUME ProcessInv, Pause \/ SnapshotVm
  PROVE  ProcessInv'
  <1>1. WorkOk(work) /\ work # Rest /\ work.todo # <<>> /\ Head(work.todo) \in {"pause", "vm"}
    BY DEF ProcessInv, WorkInv, Pause, SnapshotVm, Doing
  <1>2. OptionWork(work) /\ work.option \in Options(work.chosen, work.pid)
    BY <1>1, Parts, Heads DEF OptionWork
  <1>3. work.todo \in {<<"vm">>, <<"pause", "vm">>}
    BY <1>1, <1>2, Parts, Todos
  <1>4. IsVm(work.chosen) /\ work.option[2] = VmId(work.pid)
    BY <1>2, <1>3, Offered DEF OptionWork, VmVerbs
  <1>5. work.option[2] \notin ManifestVms
    BY <1>4, ProcessAssumption DEF VmId
  <1>6. Refuse("unknown VM")
    BY <1>5 DEF Pause, SnapshotVm
  <1> QED BY <1>1, <1>4, <1>6, Refuses

\* A step that fails ends the request or its part; an application state is kept
\* with what has been read.
LEMMA FailsKeeps ==
  ASSUME ProcessInv, Fails
  PROVE  ProcessInv'
  <1>1. /\ WorkOk(work) /\ work # Rest /\ work.todo # <<>>
        /\ UNCHANGED <<table, launched, listing, made, refusals>>
    BY DEF ProcessInv, WorkInv, Fails
  <1>2. CASE work' = NextPart(work)
    BY <1>1, <1>2, NextPartOk, Goes
  <1>3. CASE work.read # NoProcess /\ work' = [work EXCEPT !.todo = <<"state">>, !.shot = NoProcess]
    <2>1. /\ IsWork(work) /\ Sits(work.chosen, work.pid) /\ ReadInv(work)
          /\ OptionWork(work) \/ (AllWork(work) /\ work.pid # 0 /\ work.todo \in StateTodos)
      BY <1>1, <1>3, Parts, ProcessAssumption DEF OptionWork, AllWork, Sits
    <2> DEFINE v == [work EXCEPT !.todo = <<"state">>, !.shot = NoProcess]
    <2>2. /\ IsWork(v) /\ v.at = work.at /\ v.pid = work.pid /\ v.chosen = work.chosen
          /\ v.option = work.option /\ v.todo = <<"state">> /\ v.read = work.read /\ v.shot = NoProcess
          /\ v.queue = work.queue
      BY <2>1 DEF IsWork
    <2>3. work' = v
      BY <1>3
    <2> HIDE DEF v
    <2>4. ReadInv(v)
      BY <1>3, <2>1, <2>2, Shapes DEF ReadInv
    <2>5. OptionWork(v) \/ AllWork(v)
      BY <2>1, <2>2, <2>4, Shapes DEF OptionWork, AllWork
    <2> QED BY <1>1, <2>2, <2>3, <2>5, Goes DEF WorkOk
  <1> QED BY <1>2, <1>3 DEF Fails

-----------------------------------------------------------------------------
\* What the console offers for a process is carried out, and on that process, for
\* every number of processes, requests and windows (CapturesAsOffered).
THEOREM OptionsDoAsOffered == ProcessSpec => []CapturesAsOffered
  <1>1. ProcessInit => ProcessInv
    <2> SUFFICES ASSUME ProcessInit PROVE ProcessInv
      OBVIOUS
    <2>1. TableInv
      BY DEF ProcessInit, TableInv, Running
    <2> QED BY <2>1 DEF ProcessInit, ProcessInv, ListInv, WorkInv, WorkOk, CapturesAsOffered,
                        OfferedOptionsWork, RecordsDescribeChosen
  <1>2. ProcessInv /\ [ProcessNext]_processVars => ProcessInv'
    <2> SUFFICES ASSUME ProcessInv, [ProcessNext]_processVars PROVE ProcessInv'
      OBVIOUS
    <2>1. CASE UNCHANGED processVars
      BY <2>1, Goes DEF processVars, ProcessInv, WorkInv
    <2>2. CASE \/ \E pid \in Pids, program \in Programs : Starts(pid, program)
               \/ \E pid \in Pids : Exits(pid)
      BY <2>2, SystemKeeps
    <2>3. CASE \E shown \in listing : \E option \in shown.options : Choose(shown, option)
      BY <2>3, ChooseKeeps
    <2>4. CASE List \/ CaptureAll
      BY <2>4, ListKeeps, CaptureAllKeeps
    <2>5. CASE Inventory \/ ListWindows \/ NextWindow
      BY <2>5, InventoryKeeps, ListWindowsKeeps, NextWindowKeeps
    <2>6. CASE ReadMetadata \/ Shoot \/ Title \/ RecordState
      BY <2>6, ReadMetadataKeeps, ShootKeeps, TitleKeeps, RecordStateKeeps
    <2>7. CASE ReadBrowser \/ ReadApp \/ ReadList
      BY <2>7, ReadBrowserKeeps, ReadAppKeeps
    <2>8. CASE Pause \/ SnapshotVm \/ Fails
      BY <2>8, VmKeeps, FailsKeeps
    <2> QED BY <2>1, <2>2, <2>3, <2>4, <2>5, <2>6, <2>7, <2>8 DEF ProcessNext
  <1>3. ProcessInv => CapturesAsOffered
    BY DEF ProcessInv
  <1> QED BY <1>1, <1>2, <1>3, PTL DEF ProcessSpec

-----------------------------------------------------------------------------
(* The answers to questions.                                                *)

Earlier(places, i) == {j \in places : j < i}

\* Fewer places come before an earlier place.
LEMMA EarlierLess ==
  ASSUME NEW S, S \subseteq Nat, IsFiniteSet(S), NEW b \in S
  PROVE  /\ IsFiniteSet(Earlier(S, b)) /\ Cardinality(Earlier(S, b)) \in 0..(Cardinality(S) - 1)
         /\ \A a \in S : a < b => Cardinality(Earlier(S, a)) < Cardinality(Earlier(S, b))
  <1>1. \A e \in S : Earlier(S, e) \subseteq S /\ e \notin Earlier(S, e) /\ e \in Nat
    BY DEF Earlier
  <1>2. \A e \in S : IsFiniteSet(Earlier(S, e)) /\ Cardinality(Earlier(S, e)) \in Nat
    BY <1>1, FS_Subset, FS_CardinalityType
  <1>3. Cardinality(S) \in Nat /\ Cardinality(Earlier(S, b)) < Cardinality(S)
    <2>1. Cardinality(Earlier(S, b)) <= Cardinality(S) /\ Cardinality(Earlier(S, b)) # Cardinality(S)
      BY <1>1, FS_Subset
    <2> QED BY <1>2, <2>1, FS_CardinalityType
  <1>4. ASSUME NEW a \in S, a < b
        PROVE  Cardinality(Earlier(S, a)) < Cardinality(Earlier(S, b))
    <2>1. Earlier(S, a) \subseteq Earlier(S, b) /\ a \in Earlier(S, b)
      <3>1. a \in Nat /\ b \in Nat
        OBVIOUS
      <3>2. \A j \in Earlier(S, a) : j \in S /\ j \in Nat /\ j < a
        BY DEF Earlier
      <3>3. \A j \in Earlier(S, a) : j < b
        BY <1>4, <3>1, <3>2
      <3> QED BY <1>1, <1>4, <3>2, <3>3 DEF Earlier
    <2>2. /\ Cardinality(Earlier(S, a)) <= Cardinality(Earlier(S, b))
          /\ Cardinality(Earlier(S, a)) # Cardinality(Earlier(S, b))
      BY <1>1, <1>2, <2>1, FS_Subset
    <2> QED BY <1>2, <2>2
  <1> QED BY <1>2, <1>3, <1>4

\* Taking keeps the first places, all of them or so many.
LEMMA Taken ==
  ASSUME NEW S, S \subseteq Nat, IsFiniteSet(S), NEW limit \in Nat
  PROVE  LET T == Take(S, limit)
         IN /\ T \subseteq S /\ \A i \in T, j \in S \ T : i < j
            /\ T = S \/ Cardinality(T) = limit
  <1> DEFINE n == Cardinality(S)
             spots == 0..(n - 1)
             Spot(x) == Cardinality(Earlier(S, x))
             spot == [x \in S |-> Spot(x)]
             T == Take(S, limit)
             firsts == 0..(limit - 1)
             first == [x \in T |-> Spot(x)]
  <1>1. \A x \in S : Spot(x) \in spots
    BY EarlierLess
  <1>2. n \in Nat
    BY FS_CardinalityType
  <1>3. \A x, y \in S : Spot(x) = Spot(y) => x = y
    <2> SUFFICES ASSUME NEW x \in S, NEW y \in S, Spot(x) = Spot(y), x # y PROVE FALSE
      OBVIOUS
    <2>1. x < y \/ y < x
      OBVIOUS
    <2>2. Spot(x) \in Nat /\ Spot(y) \in Nat
      BY <1>1, <1>2
    <2>3. CASE x < y
      <3>1. Spot(x) < Spot(y)
        BY <2>3, EarlierLess
      <3> HIDE DEF Spot
      <3> QED BY <2>2, <3>1
    <2>4. CASE y < x
      <3>1. Spot(y) < Spot(x)
        BY <2>4, EarlierLess
      <3> HIDE DEF Spot
      <3> QED BY <2>2, <3>1
    <2> QED BY <2>1, <2>3, <2>4
  <1>4. T = {x \in S : Spot(x) < limit}
    BY DEF Take, Earlier
  <1>5. ASSUME NEW i \in T, NEW j \in S \ T PROVE i < j
    <2>1. i \in S /\ Spot(i) < limit /\ ~(Spot(j) < limit)
      BY <1>4
    <2>2. Spot(i) \in Nat /\ Spot(j) \in Nat
      BY <1>1, <1>2, <2>1
    <2>3. i # j /\ ~(Spot(j) < Spot(i))
      BY <2>1, <2>2
    <2>4. ~(j < i) /\ i \in Nat /\ j \in Nat
      BY <2>1, <2>3, EarlierLess
    <2> QED BY <2>3, <2>4
  <1>6. ASSUME NEW e \in S \ T PROVE Cardinality(T) = limit
    <2>1. Spot(e) >= limit /\ limit <= n
      <3>1. Spot(e) \in spots /\ ~(Spot(e) < limit)
        BY <1>1, <1>4, <1>6
      <3> HIDE DEF Spot
      <3> QED BY <1>2, <3>1
    <2> HIDE DEF Spot
    <2>2. spot \in Surjection(S, spots)
      <3>1. spot \in Injection(S, spots)
        BY <1>1, <1>3 DEF Injection, IsInjective
      <3>2. IsFiniteSet(spots) /\ Cardinality(spots) = n
        <4>1. 0 \in Int /\ n - 1 \in Int /\ n \in Nat
          BY <1>2
        <4> HIDE DEF n
        <4>2. Cardinality(0..(n - 1)) = IF 0 > n - 1 THEN 0 ELSE (n - 1) - 0 + 1
          BY <4>1, FS_Interval
        <4>3. IsFiniteSet(spots)
          BY <4>1, FS_Interval
        <4> QED BY <4>1, <4>2, <4>3
      <3> QED BY <3>1, <3>2, FS_Injection
    <2>3. first \in Bijection(T, firsts)
      <3>1. \A x \in T : x \in S /\ Spot(x) \in firsts
        <4> SUFFICES ASSUME NEW x \in T PROVE x \in S /\ Spot(x) \in firsts
          OBVIOUS
        <4>1. x \in S /\ Spot(x) < limit /\ Spot(x) \in spots
          BY <1>1, <1>4
        <4> HIDE DEF T
        <4> QED BY <1>2, <4>1
      <3>2. \A i \in firsts : \E x \in T : Spot(x) = i
        <4> SUFFICES ASSUME NEW i \in firsts PROVE \E x \in T : Spot(x) = i
          OBVIOUS
        <4>1. i \in spots /\ i < limit
          BY <1>2, <2>1
        <4>2. \E x \in S : Spot(x) = i
          BY <2>2, <4>1 DEF Surjection
        <4> QED BY <1>4, <4>1, <4>2
      <3> QED BY <1>3, <3>1, <3>2 DEF Bijection, Injection, Surjection, IsInjective
    <2>4. IsFiniteSet(firsts) /\ Cardinality(firsts) = limit
      BY FS_Interval
    <2>5. IsFiniteSet(T)
      <3>1. T \subseteq S
        BY <1>4
      <3> QED BY <3>1, FS_Subset
    <2>6. ExistsBijection(T, firsts)
      BY <2>3 DEF ExistsBijection
    <2> QED BY <2>4, <2>5, <2>6, FS_Bijection
  <1>7. T \subseteq S
    BY <1>4
  <1> HIDE DEF T
  <1> QED BY <1>5, <1>6, <1>7 DEF T

\* Two times on one day.
LEMMA SameDay ==
  ASSUME NEW d \in Nat \ {0}, NEW t \in Nat, NEW a \in Nat, a <= t
  PROVE  a >= t - (t % d) <=> a \div d = t \div d
  <1> DEFINE q == t \div d
             p == a \div d
  <1>1. q \in Nat /\ p \in Nat /\ t % d \in 0..(d - 1) /\ a % d \in 0..(d - 1)
    OBVIOUS
  <1>2. t = d * q + (t % d) /\ a = d * p + (a % d)
    OBVIOUS
  <1> HIDE DEF p, q
  <1>3. CASE p = q
    BY <1>1, <1>2, <1>3 DEF p, q
  <1>4. CASE p < q
    <2>1. d * (p + 1) <= d * q /\ d * (p + 1) = d * p + d /\ d * p \in Nat /\ d * q \in Nat
      BY <1>1, <1>4
    <2> QED BY <1>1, <1>2, <1>4, <2>1 DEF p, q
  <1>5. CASE p > q
    <2>1. d * (q + 1) <= d * p /\ d * (q + 1) = d * q + d /\ d * p \in Nat /\ d * q \in Nat
      BY <1>1, <1>5
    <2> QED BY <1>1, <1>2, <1>5, <2>1 DEF p, q
  <1> QED BY <1>1, <1>3, <1>4, <1>5

Recorded == [kind : RecordKinds, words : SUBSET Words, at : Nat]

\* The captures have times, none of them to come.
RecordsOk ==
  /\ time \in Nat /\ Len(captures) \in Nat /\ DOMAIN captures = 1..Len(captures)
  /\ captures \in Seq(Recorded)
  /\ \A i \in DOMAIN captures : captures[i].at <= time

\* A limit is a number of captures.
LEMMA ClampOk == ASSUME NEW limit \in Int PROVE Clamp(limit) \in Nat
  BY QueryAssumption DEF Clamp

\* What a search answers.
LEMMA Searched ==
  ASSUME RecordsOk, NEW S, S \subseteq DOMAIN captures, NEW limit \in Int
  PROVE  LET T == Take(S, Clamp(limit))
         IN /\ T \subseteq S /\ \A i \in T, j \in S \ T : i < j
            /\ T = S \/ (Cardinality(T) = Clamp(limit) /\ Cardinality(S) > Clamp(limit))
  <1> DEFINE n == Clamp(limit)
             T == Take(S, n)
  <1>1. n \in Nat /\ S \subseteq Nat /\ S \subseteq 1..Len(captures) /\ Len(captures) \in Nat
    <2>1. n \in Nat
      BY ClampOk
    <2> HIDE DEF n
    <2> QED BY <2>1 DEF RecordsOk
  <1> HIDE DEF n
  <1>2. IsFiniteSet(1..Len(captures)) /\ Cardinality(1..Len(captures)) = Len(captures)
    <2> DEFINE l == Len(captures)
    <2>1. 1 \in Int /\ l \in Int /\ l \in Nat
      BY <1>1
    <2> HIDE DEF l
    <2>2. IsFiniteSet(1..l) /\ Cardinality(1..l) = IF 1 > l THEN 0 ELSE l - 1 + 1
      BY <2>1, FS_Interval
    <2> QED BY <2>1, <2>2 DEF l
  <1>3. IsFiniteSet(S) /\ Cardinality(S) <= Len(captures)
    BY <1>1, <1>2, FS_Subset
  <1>4. T \subseteq S /\ (\A i \in T, j \in S \ T : i < j) /\ (T = S \/ Cardinality(T) = n)
    BY <1>1, <1>3, Taken
  <1>5. ASSUME T # S PROVE Cardinality(S) > n
    <2>1. Cardinality(T) = n /\ Cardinality(T) <= Cardinality(S) /\ Cardinality(T) # Cardinality(S)
      BY <1>3, <1>4, <1>5, FS_Subset
    <2>2. Cardinality(S) \in Nat
      BY <1>3, FS_CardinalityType
    <2> QED BY <1>1, <1>3, <2>1, <2>2
  <1> HIDE DEF T
  <1>6. T \subseteq S /\ (\A i \in T, j \in S \ T : i < j) /\ (T = S \/ (Cardinality(T) = n /\ Cardinality(S) > n))
    BY <1>4, <1>5
  <1> QED BY <1>6 DEF n, T

\* query.rs: what a question is answered with.
LEMMA Answered == RecordsOk => AnswersFit
  <1> SUFFICES ASSUME RecordsOk, NEW request \in Requests, NEW plan \in Plans \cup {Nothing}
               PROVE  LET answer == Answer(request, plan)
                          sought == {i \in DOMAIN captures : Sought(captures[i], request, plan)}
                          fitting == {i \in DOMAIN captures : Fits(captures[i], request, plan)}
                          limit == Clamp(IF Followed(plan) /\ plan.limit # -1 THEN plan.limit ELSE request.limit)
                      IN /\ answer \subseteq fitting /\ \A i \in answer, j \in fitting \ answer : i < j
                         /\ answer = fitting \/ Cardinality(answer) = limit
                            \/ (Ranged(plan) /\ Cardinality(sought) > limit)
    BY DEF AnswersFit
  <1> DEFINE sought == {i \in DOMAIN captures : Sought(captures[i], request, plan)}
             fitting == {i \in DOMAIN captures : Fits(captures[i], request, plan)}
  <1>1. request.limit \in Int /\ (plan # Nothing => plan.limit \in Int)
    BY QueryAssumption
  <1>2. CASE ~Followed(plan)
    <2>1. Answer(request, plan) = RunQuery(request)
      BY <1>2 DEF Answer, Followed
    <2>5. fitting = sought
      BY <1>2 DEF Fits, Ranged
    <2>6. (IF Followed(plan) /\ plan.limit # -1 THEN plan.limit ELSE request.limit) = request.limit
      BY <1>2
    <2>2. CASE request.question = "today"
      <3> DEFINE S == {i \in DOMAIN captures : captures[i].at >= time - (time % DayLength) /\ captures[i].at <= time}
      <3>1. RunQuery(request) = Take(S, Clamp(request.limit))
        BY <2>2 DEF RunQuery, Today
      <3>2. \A i \in DOMAIN captures : captures[i].at \in Nat /\ captures[i].at <= time
        <4>1. \A i \in DOMAIN captures : captures[i] \in Recorded
          BY DEF RecordsOk
        <4> QED BY <4>1 DEF RecordsOk, Recorded
      <3>3. \A i \in DOMAIN captures : captures[i].at >= time - (time % DayLength)
                                      <=> captures[i].at \div DayLength = time \div DayLength
        BY <3>2, SameDay, QueryAssumption DEF RecordsOk
      <3>4. sought = S
        BY <1>2, <2>2, <3>2, <3>3 DEF Sought
      <3> HIDE DEF S, sought, fitting
      <3>5. S \subseteq DOMAIN captures
        BY DEF S
      <3>6. LET T == Take(S, Clamp(request.limit))
            IN T \subseteq S /\ (\A i \in T, j \in S \ T : i < j) /\ (T = S \/ Cardinality(T) = Clamp(request.limit))
        BY <1>1, <3>5, Searched
      <3>7. fitting = S /\ Answer(request, plan) = Take(S, Clamp(request.limit))
        BY <2>1, <2>5, <3>1, <3>4
      <3> QED BY <2>6, <3>6, <3>7 DEF fitting
    <2>3. CASE request.question # "today"
      <3> DEFINE S == {i \in DOMAIN captures : Matches(captures[i], request.text, request.kind)}
      <3>1. RunQuery(request) = Take(S, Clamp(request.limit))
        BY <2>3 DEF RunQuery
      <3>2. sought = S
        BY <1>2, <2>3 DEF Sought
      <3> HIDE DEF S, sought, fitting
      <3>3. S \subseteq DOMAIN captures
        BY DEF S
      <3>6. LET T == Take(S, Clamp(request.limit))
            IN T \subseteq S /\ (\A i \in T, j \in S \ T : i < j) /\ (T = S \/ Cardinality(T) = Clamp(request.limit))
        BY <1>1, <3>3, Searched
      <3>7. fitting = S /\ Answer(request, plan) = Take(S, Clamp(request.limit))
        BY <2>1, <2>5, <3>1, <3>2
      <3> QED BY <2>6, <3>6, <3>7 DEF fitting
    <2> QED BY <2>2, <2>3
  <1>3. CASE Followed(plan)
    <2> DEFINE text == IF plan.text = "none" THEN request.text ELSE plan.text
               kind == IF plan.kind = "none" THEN request.kind ELSE plan.kind
               limit == IF plan.limit = -1 THEN request.limit ELSE plan.limit
               S == {i \in DOMAIN captures : Matches(captures[i], text, kind)}
               B == Take(S, Clamp(limit))
               ok(i) == plan.range = Nothing \/ InRange(captures[i], plan.range)
               sifted == [question |-> "none", text |-> text, kind |-> kind, limit |-> limit]
    <2>1. Answer(request, plan) = {i \in B : ok(i)}
      <3>1. Answer(request, plan) = RunStructured([text |-> text, kind |-> kind, limit |-> limit, range |-> plan.range])
        BY <1>3 DEF Answer, Followed
      <3>2. RunQuery(sifted) = B
        BY DEF RunQuery
      <3> QED BY <3>1, <3>2 DEF RunStructured
    <2>2. sought = S
      BY <1>3 DEF Sought
    <2>3. fitting = {i \in S : ok(i)}
      BY <1>3, <2>2 DEF Fits, Ranged
    <2>4. limit \in Int /\ S \subseteq DOMAIN captures
      BY <1>1, <1>3 DEF Followed
    <2>5. (Followed(plan) /\ plan.limit # -1 => limit = plan.limit) /\ (plan.limit = -1 => limit = request.limit)
      OBVIOUS
    <2>6. plan.range = Nothing => \A i : ok(i)
      OBVIOUS
    <2>7. plan.range # Nothing => Ranged(plan)
      BY <1>3 DEF Ranged
    <2> HIDE DEF S, ok, fitting, sought, limit
    <2>8. /\ B \subseteq S /\ \A i \in B, j \in S \ B : i < j
          /\ B = S \/ (Cardinality(B) = Clamp(limit) /\ Cardinality(S) > Clamp(limit))
      BY <2>4, Searched
    <2> HIDE DEF B
    <2>9. CASE B = S
      BY <2>1, <2>3, <2>9 DEF fitting
    <2>10. CASE B # S /\ plan.range = Nothing
      <3>1. {i \in B : ok(i)} = B /\ fitting = S
        BY <2>3, <2>6, <2>10
      <3> QED BY <1>3, <2>1, <2>5, <2>8, <2>10, <3>1 DEF fitting
    <2>11. CASE B # S /\ plan.range # Nothing
      <3>1. Cardinality(sought) > Clamp(limit) /\ Ranged(plan)
        BY <2>2, <2>7, <2>8, <2>11
      <3> QED BY <1>3, <2>1, <2>3, <2>5, <2>8, <3>1 DEF fitting, sought
    <2> QED BY <2>9, <2>10, <2>11
  <1> QED BY <1>2, <1>3

-----------------------------------------------------------------------------
(* The plan cut out of the planner's text.                                  *)

\* A set of numbers that is not empty has a least one.
LEMMA LeastNumber ==
  ASSUME NEW S, S \subseteq Nat, S # {}
  PROVE  \E n \in S : \A k \in S : n <= k
  <1>1. IsWellFoundedOn(OpToRel(<, Nat), Nat)
    BY NatLessThanWellFounded
  <1>2. \E n \in S : \A k \in S : ~(<<k, n>> \in OpToRel(<, Nat))
    BY <1>1, WFMin
  <1>3. \A k \in S, n \in S : k < n => <<k, n>> \in OpToRel(<, Nat)
    BY DEF OpToRel
  <1>4. \A k \in S, n \in S : k < n \/ n <= k
    OBVIOUS
  <1> QED BY <1>2, <1>3, <1>4, Zenon

\* A set that has the first number, and with each the next, has them all.
LEMMA NumberInduction ==
  ASSUME NEW first \in Nat, NEW last \in Nat, NEW S, first \in S,
         \A n \in first..last : n \in S /\ n < last => n + 1 \in S
  PROVE  \A n \in first..last : n \in S
  <1> DEFINE bad == {n \in first..last : n \notin S}
  <1>1. CASE bad = {}
    BY <1>1
  <1>2. CASE bad # {}
    <2>1. bad \subseteq Nat
      OBVIOUS
    <2>2. PICK n \in bad : \A k \in bad : n <= k
      BY <1>2, <2>1, LeastNumber
    <2>3. n \in first..last /\ n \notin S /\ n # first
      BY <2>2
    <2>4. n - 1 \in first..last /\ n - 1 \notin bad /\ n - 1 < last
      BY <2>2, <2>3
    <2> QED BY <2>3, <2>4
  <1> QED BY <1>1, <1>2

\* The scan of a text, character by character.
LEMMA ScanStates ==
  ASSUME NEW text, Len(text) \in Nat
  PROVE  /\ Scans(text)[0] = Unscanned
         /\ \A n \in 1..Len(text) : Scans(text)[n] = Scanned(Scans(text)[n - 1], text[n], n)
  <1> DEFINE IsRun(f, n) == f = [k \in 0..n |-> IF k = 0 THEN Unscanned ELSE Scanned(f[k - 1], text[k], k)]
             S == {n \in Nat : \E f : IsRun(f, n)}
  <1>0. Len(text) \in Nat
    OBVIOUS
  <1>1. 0 \in S
    <2>1. IsRun([k \in 0..0 |-> Unscanned], 0)
      OBVIOUS
    <2> QED BY <2>1
  <1>2. ASSUME NEW n \in S PROVE n + 1 \in S
    <2>1. PICK f : IsRun(f, n)
      OBVIOUS
    <2> DEFINE next == Scanned(f[n], text[n + 1], n + 1)
               g == [k \in 0..(n + 1) |-> IF k <= n THEN f[k] ELSE next]
    <2>2. \A k \in 0..n : f[k] = IF k = 0 THEN Unscanned ELSE Scanned(f[k - 1], text[k], k)
      BY <2>1
    <2>3. \A k \in 0..(n + 1) : g[k] = IF k = 0 THEN Unscanned ELSE Scanned(g[k - 1], text[k], k)
      <3> SUFFICES ASSUME NEW k \in 0..(n + 1) PROVE g[k] = IF k = 0 THEN Unscanned ELSE Scanned(g[k - 1], text[k], k)
        OBVIOUS
      <3>1. CASE k <= n
        <4>1. g[k] = f[k] /\ (k # 0 => g[k - 1] = f[k - 1])
          BY <3>1
        <4> QED BY <2>2, <3>1, <4>1
      <3>2. CASE k = n + 1
        <4>1. g[k] = next /\ g[k - 1] = f[n] /\ k # 0
          BY <3>2
        <4>2. next = Scanned(f[n], text[k], k)
          BY <3>2
        <4> HIDE DEF next, g
        <4> QED BY <4>1, <4>2
      <3> QED BY <3>1, <3>2
    <2> HIDE DEF next
    <2>4. IsRun(g, n + 1)
      <3>1. g = [k \in 0..(n + 1) |-> g[k]]
        OBVIOUS
      <3> HIDE DEF g
      <3> QED BY <2>3, <3>1
    <2> HIDE DEF IsRun, g
    <2> QED BY <2>4
  <1>3. Len(text) \in S
    <2>1. \A n \in 0..Len(text) : n \in S
      <3> HIDE DEF S
      <3> QED BY <1>0, <1>1, <1>2, NumberInduction
    <2> QED BY <1>0, <2>1
  <1>4. IsRun(Scans(text), Len(text))
    <2>1. Scans(text) = CHOOSE f : IsRun(f, Len(text))
      BY DEF Scans
    <2>2. \E f : IsRun(f, Len(text))
      BY <1>3
    <2> HIDE DEF IsRun
    <2> QED BY <2>1, <2>2
  <1> QED BY <1>0, <1>4

\* More text does not change what was scanned.
LEMMA ScanPrefix ==
  ASSUME NEW text \in Seq(Characters), NEW more \in Seq(Characters)
  PROVE  \A n \in 0..Len(text) : Scans(text \o more)[n] = Scans(text)[n]
  <1> DEFINE all == text \o more
             S == {n \in 0..Len(text) : Scans(all)[n] = Scans(text)[n]}
  <1>1. Len(text) \in Nat /\ Len(all) \in Nat /\ Len(all) >= Len(text)
    <2>1. Len(all) = Len(text) + Len(more) /\ Len(text) \in Nat /\ Len(more) \in Nat
      OBVIOUS
    <2> HIDE DEF all
    <2> QED BY <2>1
  <1>2. \A n \in 1..Len(text) : all[n] = text[n]
    OBVIOUS
  <1> HIDE DEF all
  <1>3. 0 \in S
    BY <1>1, ScanStates
  <1>4. ASSUME NEW n \in 0..Len(text), n \in S, n < Len(text) PROVE n + 1 \in S
    <2>1. n + 1 \in 1..Len(text) /\ n + 1 \in 1..Len(all) /\ (n + 1) - 1 = n
      BY <1>1, <1>4
    <2>2. Scans(all)[n + 1] = Scanned(Scans(all)[n], all[n + 1], n + 1)
      BY <1>1, <2>1, ScanStates
    <2>3. Scans(text)[n + 1] = Scanned(Scans(text)[n], text[n + 1], n + 1)
      BY <1>1, <2>1, ScanStates
    <2>4. Scans(all)[n] = Scans(text)[n] /\ all[n + 1] = text[n + 1]
      BY <1>2, <1>4, <2>1
    <2> QED BY <2>1, <2>2, <2>3, <2>4
  <1>5. \A n \in 0..Len(text) : n \in S
    <2> HIDE DEF S
    <2> QED BY <1>1, <1>3, <1>4, NumberInduction
  <1> QED BY <1>5 DEF all

\* One more character.
LEMMA ScanNext ==
  ASSUME NEW text \in Seq(Characters), NEW c \in Characters
  PROVE  /\ text \o <<c>> \in Seq(Characters) /\ Len(text \o <<c>>) = Len(text) + 1
         /\ Scans(text \o <<c>>)[Len(text) + 1] = Scanned(Scans(text)[Len(text)], c, Len(text) + 1)
  <1> DEFINE all == text \o <<c>>
  <1>1. all \in Seq(Characters) /\ Len(all) = Len(text) + 1 /\ Len(text) \in Nat /\ all[Len(text) + 1] = c
    OBVIOUS
  <1>2. Scans(all)[Len(text)] = Scans(text)[Len(text)]
    <2>1. <<c>> \in Seq(Characters) /\ Len(text) \in 0..Len(text)
      BY <1>1
    <2> QED BY <2>1, ScanPrefix
  <1> HIDE DEF all
  <1>3. Len(text) + 1 \in 1..Len(all) /\ Len(all) \in Nat /\ (Len(text) + 1) - 1 = Len(text)
    BY <1>1
  <1>4. Scans(all)[Len(text) + 1] = Scanned(Scans(all)[Len(text)], all[Len(text) + 1], Len(text) + 1)
    BY <1>3, ScanStates
  <1> QED BY <1>1, <1>2, <1>4 DEF all

\* The state of a scan, changed.
LEMMA ScanFields ==
  ASSUME NEW a, NEW b, NEW d, NEW x, NEW y, NEW z, NEW w
  PROVE  LET R(p, q, t, u, v) == [start |-> p, end |-> q, depth |-> t, string |-> u, escaped |-> v]
             r == R(a, b, d, x, y)
         IN /\ [r EXCEPT !.string = z] = R(a, b, d, z, y)
            /\ [r EXCEPT !.depth = z] = R(a, b, z, x, y)
            /\ [r EXCEPT !.end = z] = R(a, z, d, x, y)
            /\ [r EXCEPT !.escaped = z] = R(a, b, d, x, z)
            /\ [r EXCEPT !.depth = z, !.end = w] = R(a, w, z, x, y)
            /\ [r EXCEPT !.escaped = z, !.string = w] = R(a, b, d, w, z)
            /\ [r EXCEPT !.start = z, !.depth = w] = R(z, b, w, x, y)
            /\ r.start = a /\ r.end = b /\ r.depth = d
  <1> DEFINE R(p, q, t, u, v) == [start |-> p, end |-> q, depth |-> t, string |-> u, escaped |-> v]
             r == R(a, b, d, x, y)
  <1>1. [r EXCEPT !.string = z] = R(a, b, d, z, y) /\ [R(a, b, d, x, z) EXCEPT !.string = w] = R(a, b, d, w, z)
    OBVIOUS
  <1>2. [r EXCEPT !.depth = z] = R(a, b, z, x, y) /\ [R(z, b, d, x, y) EXCEPT !.depth = w] = R(z, b, w, x, y)
    OBVIOUS
  <1>3. [r EXCEPT !.end = z] = R(a, z, d, x, y) /\ [R(a, b, z, x, y) EXCEPT !.end = w] = R(a, w, z, x, y)
    OBVIOUS
  <1>4. [r EXCEPT !.escaped = z] = R(a, b, d, x, z) /\ [r EXCEPT !.start = z] = R(z, b, d, x, y)
    OBVIOUS
  <1>5. [r EXCEPT !.depth = z, !.end = w] = [[r EXCEPT !.depth = z] EXCEPT !.end = w]
    OBVIOUS
  <1>6. [r EXCEPT !.escaped = z, !.string = w] = [[r EXCEPT !.escaped = z] EXCEPT !.string = w]
    OBVIOUS
  <1>7. [r EXCEPT !.start = z, !.depth = w] = [[r EXCEPT !.start = z] EXCEPT !.depth = w]
    OBVIOUS
  <1>8. r.start = a /\ r.end = b /\ r.depth = d
    OBVIOUS
  <1> QED BY <1>1, <1>2, <1>3, <1>4, <1>5, <1>6, <1>7, <1>8

\* The scan in an object, n braces deep, in a string of it and behind a backslash.
InObject(from, n) == [start |-> from, end |-> 0, depth |-> n, string |-> FALSE, escaped |-> FALSE]
InText(from, n) == [start |-> from, end |-> 0, depth |-> n, string |-> TRUE, escaped |-> FALSE]
Escaping(from, n) == [start |-> from, end |-> 0, depth |-> n, string |-> TRUE, escaped |-> TRUE]
Found(from, i) == [start |-> from, end |-> i, depth |-> 0, string |-> FALSE, escaped |-> FALSE]

\* What a character does in an object.
LEMMA Outside ==
  ASSUME NEW from \in Nat \ {0}, NEW n \in Nat \ {0}, NEW i \in Nat
  PROVE  LET s == InObject(from, n)
         IN /\ Scanned(s, "quote", i) = InText(from, n)
            /\ Scanned(s, "open", i) = InObject(from, n + 1)
            /\ n > 1 => Scanned(s, "close", i) = InObject(from, n - 1)
            /\ n = 1 => Scanned(s, "close", i) = Found(from, i)
  <1> DEFINE s == InObject(from, n)
  <1>0. PICK no, yes : no = FALSE /\ yes = TRUE
    OBVIOUS
  <1>1. s = [start |-> from, end |-> 0, depth |-> n, string |-> no, escaped |-> no]
    BY <1>0 DEF InObject
  <1>2. s.start = from /\ s.end = 0 /\ s.depth = n /\ s.string = no
    BY <1>1
  <1>3. s.start > 0 /\ ~(s.end > 0) /\ ~(s.start = 0 /\ s.end = 0) /\ ~s.string
    BY <1>0, <1>2
  <1> HIDE DEF s
  <1>4. ASSUME NEW c
        PROVE  Scanned(s, c, i) =
                 CASE c = "quote" -> [s EXCEPT !.string = TRUE]
                   [] c = "open" -> [s EXCEPT !.depth = @ + 1]
                   [] c = "close" -> [s EXCEPT !.depth = IF @ = 0 THEN 0 ELSE @ - 1,
                                           !.end = IF s.depth <= 1 THEN i ELSE 0]
                   [] OTHER -> s
    BY <1>2, <1>3 DEF Scanned
  <1>5. Scanned(s, "quote", i) = InText(from, n)
    <2>1. Scanned(s, "quote", i) = [s EXCEPT !.string = TRUE]
      BY <1>4
    <2>2. Scanned(s, "quote", i) = [s EXCEPT !.string = yes]
      BY <1>0, <2>1
    <2>3. InText(from, n) = [start |-> from, end |-> 0, depth |-> n, string |-> yes, escaped |-> no]
      BY <1>0 DEF InText
    <2> QED BY <1>1, <2>2, <2>3, ScanFields
  <1>6. Scanned(s, "open", i) = InObject(from, n + 1)
    <2>1. Scanned(s, "open", i) = [s EXCEPT !.depth = n + 1]
      BY <1>2, <1>4
    <2>2. InObject(from, n + 1) = [start |-> from, end |-> 0, depth |-> n + 1, string |-> no, escaped |-> no]
      BY <1>0 DEF InObject
    <2> QED BY <1>1, <2>1, <2>2, ScanFields
  <1>7. PICK less, end : less = n - 1 /\ end = IF n <= 1 THEN i ELSE 0
    OBVIOUS
  <1>10. Scanned(s, "close", i) = [s EXCEPT !.depth = less, !.end = end]
    BY <1>2, <1>4, <1>7
  <1>11. Scanned(s, "close", i) = [start |-> from, end |-> end, depth |-> less, string |-> no, escaped |-> no]
    BY <1>1, <1>10, ScanFields
  <1>8. ASSUME n > 1 PROVE Scanned(s, "close", i) = InObject(from, n - 1)
    <2>1. end = 0 /\ less = n - 1
      BY <1>7, <1>8
    <2> QED BY <1>0, <1>11, <2>1 DEF InObject
  <1>9. ASSUME n = 1 PROVE Scanned(s, "close", i) = Found(from, i)
    <2>1. end = i /\ less = 0
      BY <1>7, <1>9
    <2> QED BY <1>0, <1>11, <2>1 DEF Found
  <1> QED BY <1>5, <1>6, <1>8, <1>9 DEF s

\* What a character does in a string of an object.
LEMMA Within ==
  ASSUME NEW from \in Nat \ {0}, NEW n \in Nat, NEW i, NEW c
  PROVE  /\ Scanned(Escaping(from, n), c, i) = InText(from, n)
         /\ Scanned(InText(from, n), c, i) =
              IF c = "quote" THEN InObject(from, n)
              ELSE IF c = "backslash" THEN Escaping(from, n) ELSE InText(from, n)
  <1>0. PICK no, yes : no = FALSE /\ yes = TRUE
    OBVIOUS
  <1>1. InText(from, n) = [start |-> from, end |-> 0, depth |-> n, string |-> yes, escaped |-> no]
    BY <1>0 DEF InText
  <1>2. Escaping(from, n) = [start |-> from, end |-> 0, depth |-> n, string |-> yes, escaped |-> yes]
    BY <1>0 DEF Escaping
  <1>3. InObject(from, n) = [start |-> from, end |-> 0, depth |-> n, string |-> no, escaped |-> no]
    BY <1>0 DEF InObject
  <1>4. ASSUME NEW s, s.start = from, s.end = 0, s.string = yes
        PROVE  Scanned(s, c, i) = InString(s, c)
    <2>1. s.start > 0 /\ ~(s.end > 0) /\ ~(s.start = 0 /\ s.end = 0) /\ s.string
      BY <1>0, <1>4
    <2> QED BY <1>4, <2>1 DEF Scanned
  <1>5. Scanned(Escaping(from, n), c, i) = InText(from, n)
    <2> DEFINE s == Escaping(from, n)
    <2>0. s = [start |-> from, end |-> 0, depth |-> n, string |-> yes, escaped |-> yes]
      BY <1>2
    <2>1. s.start = from /\ s.end = 0 /\ s.string = yes /\ s.escaped = yes
      BY <2>0
    <2> HIDE DEF s
    <2>2. Scanned(s, c, i) = InString(s, c)
      BY <1>4, <2>1
    <2>3. InString(s, c) = [s EXCEPT !.escaped = FALSE]
      BY <1>0, <2>1 DEF InString
    <2>4. InString(s, c) = [s EXCEPT !.escaped = no]
      BY <1>0, <2>3
    <2>5. [s EXCEPT !.escaped = no] = [start |-> from, end |-> 0, depth |-> n, string |-> yes, escaped |-> no]
      BY <2>0
    <2> QED BY <1>1, <2>2, <2>4, <2>5 DEF s
  <1>6. Scanned(InText(from, n), c, i) =
              IF c = "quote" THEN InObject(from, n)
              ELSE IF c = "backslash" THEN Escaping(from, n) ELSE InText(from, n)
    <2> DEFINE s == InText(from, n)
    <2>0. s = [start |-> from, end |-> 0, depth |-> n, string |-> yes, escaped |-> no]
      BY <1>1
    <2>1. s.start = from /\ s.end = 0 /\ s.string = yes /\ s.escaped = no
      BY <2>0
    <2> HIDE DEF s
    <2>2. Scanned(s, c, i) = InString(s, c)
      BY <1>4, <2>1
    <2>3. InString(s, c) = [s EXCEPT !.escaped = (c = "backslash"), !.string = (c # "quote")]
      BY <1>0, <2>1 DEF InString
    <2>4. PICK e, q : e = (c = "backslash") /\ q = (c # "quote")
      OBVIOUS
    <2>5. InString(s, c) = [s EXCEPT !.escaped = e, !.string = q]
      BY <2>3, <2>4
    <2>6. InString(s, c) = [start |-> from, end |-> 0, depth |-> n, string |-> q, escaped |-> e]
      BY <2>0, <2>5, ScanFields
    <2>7. CASE c = "quote"
      <3>1. q = no /\ e = no
        BY <1>0, <2>4, <2>7
      <3> QED BY <1>3, <2>2, <2>6, <2>7, <3>1 DEF s
    <2>8. CASE c = "backslash"
      <3>1. q = yes /\ e = yes
        BY <1>0, <2>4, <2>8
      <3> QED BY <1>2, <2>2, <2>6, <2>8, <3>1 DEF s
    <2>9. CASE c # "quote" /\ c # "backslash"
      <3>1. q = yes /\ e = no
        BY <1>0, <2>4, <2>9
      <3> QED BY <1>1, <2>2, <2>6, <2>9, <3>1 DEF s
    <2> QED BY <2>7, <2>8, <2>9
  <1> QED BY <1>5, <1>6

\* Two sequences, one after the other.
LEMMA Joined ==
  ASSUME NEW S, NEW s \in Seq(S), NEW t \in Seq(S)
  PROVE  /\ s \o t \in Seq(S) /\ Len(s \o t) = Len(s) + Len(t)
         /\ \A i \in 1..Len(t) : (s \o t)[Len(s) + i] = t[i]
  OBVIOUS

\* A string is passed over, whatever it holds.
LEMMA StringPassed ==
  ASSUME NEW text \in Seq(Characters), NEW s \in Seq(Characters), IsJsonString(s),
         NEW from \in Nat \ {0}, NEW n \in Nat \ {0}, Scans(text)[Len(text)] = InObject(from, n)
  PROVE  LET all == text \o (<<"quote">> \o s \o <<"quote">>)
         IN all \in Seq(Characters) /\ Scans(all)[Len(all)] = InObject(from, n)
  <1> DEFINE l == Len(text)
             quoted == <<"quote">> \o s \o <<"quote">>
             all == text \o quoted
  <1>1. PICK escaped \in SUBSET DOMAIN s :
          /\ \A i \in DOMAIN s : i \in escaped <=> i > 1 /\ s[i - 1] = "backslash" /\ i - 1 \notin escaped
          /\ \A i \in DOMAIN s : s[i] = "quote" => i \in escaped
          /\ s # <<>> => ~(s[Len(s)] = "backslash" /\ Len(s) \notin escaped)
    BY DEF IsJsonString
  <1> DEFINE Escapes(i) == i > 0 /\ s[i] = "backslash" /\ i \notin escaped
             Inside(i) == IF Escapes(i) THEN Escaping(from, n) ELSE InText(from, n)
             S == {i \in 0..Len(s) : Scans(all)[l + 1 + i] = Inside(i)}
  <1>2. l \in Nat /\ Len(s) \in Nat /\ DOMAIN s = 1..Len(s)
    OBVIOUS
  <1>3. quoted \in Seq(Characters) /\ Len(quoted) = Len(s) + 2 /\ quoted[1] = "quote"
        /\ quoted[Len(s) + 2] = "quote" /\ \A i \in 1..Len(s) : quoted[i + 1] = s[i]
    <2>1. <<"quote">> \in Seq(Characters)
      <3>1. "quote" \in Characters
        BY DEF Characters
      <3> QED BY <3>1
    <2> QED BY <1>2, <2>1
  <1> HIDE DEF quoted
  <1>4. all \in Seq(Characters) /\ Len(all) = l + Len(s) + 2 /\ \A i \in 1..(Len(s) + 2) : all[l + i] = quoted[i]
    <2>1. all \in Seq(Characters) /\ Len(all) = Len(text) + Len(quoted)
          /\ \A i \in 1..Len(quoted) : all[Len(text) + i] = quoted[i]
      <3>1. text \in Seq(Characters) /\ quoted \in Seq(Characters)
        BY <1>3
      <3> QED BY <3>1, Joined
    <2>2. Len(quoted) = Len(s) + 2 /\ Len(text) + (Len(s) + 2) = l + Len(s) + 2
      BY <1>2, <1>3
    <2> HIDE DEF all
    <2> QED BY <2>1, <2>2, Zenon
  <1>5. Scans(all)[l] = InObject(from, n)
    BY <1>2, <1>3, ScanPrefix
  <1> HIDE DEF all
  <1>6. \A i \in 1..(Len(s) + 2) : Scans(all)[l + i] = Scanned(Scans(all)[l + i - 1], quoted[i], l + i)
    <2> SUFFICES ASSUME NEW i \in 1..(Len(s) + 2)
                 PROVE  Scans(all)[l + i] = Scanned(Scans(all)[l + i - 1], quoted[i], l + i)
      OBVIOUS
    <2>1. l + i \in 1..Len(all) /\ Len(all) \in Nat
      BY <1>2, <1>4
    <2>2. Scans(all)[l + i] = Scanned(Scans(all)[(l + i) - 1], all[l + i], l + i)
      BY <2>1, ScanStates
    <2> QED BY <1>4, <2>2
  <1> HIDE DEF l
  <1>7. 0 \in S
    <2>1. Scans(all)[l + 1] = Scanned(Scans(all)[l], "quote", l + 1)
      <3>1. 1 \in 1..(Len(s) + 2) /\ l + 1 - 1 = l
        BY <1>2
      <3> QED BY <1>3, <1>6, <3>1
    <2>2. Scanned(InObject(from, n), "quote", l + 1) = InText(from, n)
      <3>1. l + 1 \in Nat
        BY <1>2
      <3> QED BY <3>1, Outside
    <2>3. Inside(0) = InText(from, n) /\ l + 1 + 0 = l + 1 /\ 0 \in 0..Len(s)
      BY <1>2
    <2> QED BY <1>5, <2>1, <2>2, <2>3
  <1>8. ASSUME NEW i \in 0..Len(s), i \in S, i < Len(s) PROVE i + 1 \in S
    <2>1. i + 1 \in 1..Len(s) /\ i + 2 \in 1..(Len(s) + 2) /\ l + (i + 2) - 1 = l + 1 + i
          /\ l + 1 + (i + 1) = l + (i + 2) /\ i + 1 \in 0..Len(s) /\ (i + 1) + 1 = i + 2
      BY <1>2, <1>8
    <2>2. Scans(all)[l + 1 + (i + 1)] = Scanned(Inside(i), s[i + 1], l + 1 + (i + 1))
      <3>1. Scans(all)[l + (i + 2)] = Scanned(Scans(all)[l + (i + 2) - 1], quoted[i + 2], l + (i + 2))
        BY <1>6, <2>1
      <3>2. Scans(all)[l + 1 + i] = Inside(i) /\ quoted[i + 2] = s[i + 1]
        BY <1>3, <1>8, <2>1
      <3> QED BY <2>1, <3>1, <3>2
    <2>3. i + 1 \in escaped <=> Escapes(i)
      <3>1. (i + 1) - 1 = i /\ (i + 1 > 1 <=> i > 0) /\ i + 1 \in DOMAIN s
        BY <1>2, <2>1
      <3> QED BY <1>1, <3>1
    <2>4. Escapes(i + 1) <=> s[i + 1] = "backslash" /\ i + 1 \notin escaped
      BY <2>1
    <2>5. s[i + 1] = "quote" => i + 1 \in escaped
      BY <1>1, <1>2, <2>1
    <2> DEFINE k == l + 1 + (i + 1)
               c == s[i + 1]
    <2>7. Scanned(Inside(i), c, k) = Inside(i + 1)
      <3>1. CASE Escapes(i)
        <4>1. ~Escapes(i + 1) /\ Inside(i) = Escaping(from, n)
          BY <2>3, <2>4, <3>1
        <4>2. Inside(i + 1) = InText(from, n)
          BY <4>1
        <4> HIDE DEF Inside, c, k
        <4> QED BY <4>1, <4>2, Within
      <3>2. CASE ~Escapes(i)
        <4>1. Escapes(i + 1) <=> c = "backslash"
          BY <2>3, <2>4, <3>2
        <4>2. c # "quote" /\ Inside(i) = InText(from, n)
          BY <2>3, <2>5, <3>2
        <4>3. Inside(i + 1) = IF c = "backslash" THEN Escaping(from, n) ELSE InText(from, n)
          BY <4>1
        <4> HIDE DEF Inside, c, k
        <4> QED BY <4>2, <4>3, Within
      <3> QED BY <3>1, <3>2
    <2> HIDE DEF Inside
    <2> QED BY <2>1, <2>2, <2>7
  <1>9. \A i \in 0..Len(s) : i \in S
    <2> HIDE DEF S
    <2> QED BY <1>2, <1>7, <1>8, NumberInduction
  <1>10. Scans(all)[l + 1 + Len(s)] = InText(from, n)
    <2>1. Scans(all)[l + 1 + Len(s)] = Inside(Len(s))
      BY <1>2, <1>9
    <2>2. ~Escapes(Len(s))
      <3>1. CASE s = <<>>
        <4>1. Len(s) = 0
          BY <3>1
        <4> QED BY <4>1
      <3>2. CASE s # <<>>
        BY <1>1, <3>2
      <3> QED BY <3>1, <3>2
    <2> QED BY <2>1, <2>2
  <1>11. Scans(all)[l + (Len(s) + 2)] = Scanned(InText(from, n), "quote", l + (Len(s) + 2))
    <2>1. Len(s) + 2 \in 1..(Len(s) + 2) /\ l + (Len(s) + 2) - 1 = l + 1 + Len(s)
      BY <1>2
    <2> QED BY <1>3, <1>6, <1>10, <2>1
  <1>12. \A k : Scanned(InText(from, n), "quote", k) = InObject(from, n)
    BY Within
  <1>13. Len(all) = l + (Len(s) + 2)
    BY <1>2, <1>4 DEF l
  <1> QED BY <1>4, <1>11, <1>12, <1>13 DEF all, quoted

\* What a character does before the object, and behind it.
LEMMA Around ==
  ASSUME NEW i \in Nat \ {0}, NEW from \in Nat \ {0}, NEW to \in Nat \ {0}, NEW c
  PROVE  /\ Scanned(Unscanned, "open", i) = InObject(i, 1)
         /\ c # "open" => Scanned(Unscanned, c, i) = Unscanned
         /\ Scanned(Found(from, to), c, i) = Found(from, to)
  <1>0. PICK no : no = FALSE
    OBVIOUS
  <1>1. Unscanned = [start |-> 0, end |-> 0, depth |-> 0, string |-> no, escaped |-> no]
    BY <1>0 DEF Unscanned
  <1>2. Unscanned.start = 0 /\ Unscanned.end = 0
    BY <1>1
  <1>3. ASSUME NEW d PROVE Scanned(Unscanned, d, i) = IF d = "open" THEN [Unscanned EXCEPT !.start = i, !.depth = 1] ELSE Unscanned
    <2>1. ~(Unscanned.end > 0) /\ Unscanned.start = 0 /\ Unscanned.end = 0 /\ ~(Unscanned.start > 0)
      BY <1>2
    <2> QED BY <2>1 DEF Scanned
  <1>4. Scanned(Unscanned, "open", i) = InObject(i, 1)
    <2>1. Scanned(Unscanned, "open", i) = [Unscanned EXCEPT !.start = i, !.depth = 1]
      BY <1>3
    <2>2. InObject(i, 1) = [start |-> i, end |-> 0, depth |-> 1, string |-> no, escaped |-> no]
      BY <1>0 DEF InObject
    <2> QED BY <1>1, <2>1, <2>2, ScanFields
  <1>5. c # "open" => Scanned(Unscanned, c, i) = Unscanned
    BY <1>3
  <1>6. Scanned(Found(from, to), c, i) = Found(from, to)
    <2>1. Found(from, to) = [start |-> from, end |-> to, depth |-> 0, string |-> no, escaped |-> no]
      BY <1>0 DEF Found
    <2>2. Found(from, to).start = from /\ Found(from, to).end = to /\ to > 0 /\ from > 0
      BY <2>1
    <2>3. Found(from, to).end > 0 /\ ~(Found(from, to).start = 0) /\ ~(Found(from, to).end = 0)
      BY <2>2
    <2> QED BY <2>3 DEF Scanned
  <1> QED BY <1>4, <1>5, <1>6

\* Nothing is open yet, the object is open, or it was cut out.
NoBrace(text, n) == \A i \in 1..n : text[i] # "open"
Before(text, d, b, o) ==
  d = 0 /\ b = 0 /\ o = Nothing /\ Scans(text)[Len(text)] = Unscanned /\ NoBrace(text, Len(text))
During(text, d, b, o) ==
  d # 0 /\ o = Nothing /\ b \in 1..Len(text) /\ Scans(text)[Len(text)] = InObject(b, d)
CutFrom(text, o, from, to) == Scans(text)[Len(text)] = Found(from, to) /\ o = SubSeq(text, from, to)
Behind(text, d, b, o) ==
  d = 0 /\ b \in 1..Len(text) /\ o # Nothing /\ (\E to \in 1..Len(text) : CutFrom(text, o, b, to))
Cut(text, d, b, o) ==
  text \in Seq(Characters) /\ d \in Nat /\ (Before(text, d, b, o) \/ During(text, d, b, o) \/ Behind(text, d, b, o))

\* A brace before the object.
StrayIn(text, b) == \E i \in 1..Len(text) : text[i] = "open" /\ (b = 0 \/ i < b)
\* Where the planner is.
Plain(text, d, b, o) ==
  /\ text \in Seq(Characters) /\ d \in Nat /\ b \in Nat /\ b <= Len(text)
  /\ b = 0 => d = 0 /\ o = Nothing
  /\ d = 0 /\ b # 0 => o # Nothing
  /\ d # 0 => o = Nothing
Planned(text, d, b, o) == Plain(text, d, b, o) /\ (StrayIn(text, b) \/ Cut(text, d, b, o))

\* What the planner adds: a character, a string of its object.
Longer(text, c) == text \o <<c>>
Quoted(s) == <<"quote">> \o s \o <<"quote">>
WithOpen(text) == Longer(text, "open")
WithClose(text) == Longer(text, "close")
WithString(text, s) == text \o Quoted(s)

\* What was written stays.
LEMMA Appended ==
  ASSUME NEW text \in Seq(Characters), NEW chars \in Seq(Characters), NEW all, all = text \o chars
  PROVE  /\ all \in Seq(Characters) /\ Len(text) \in Nat /\ Len(all) \in Nat
         /\ Len(all) = Len(text) + Len(chars) /\ Len(chars) \in Nat
         /\ (\A i \in 1..Len(text) : all[i] = text[i] /\ i \in 1..Len(all))
         /\ (\A from, to \in 1..Len(text) : SubSeq(all, from, to) = SubSeq(text, from, to))
  <1>1. all \in Seq(Characters) /\ Len(text) \in Nat /\ Len(all) \in Nat
        /\ Len(all) = Len(text) + Len(chars) /\ Len(chars) \in Nat
    OBVIOUS
  <1>2. \A i \in 1..Len(text) : all[i] = text[i]
    OBVIOUS
  <1>3. \A i \in 1..Len(text) : i \in 1..Len(all)
    BY <1>1
  <1>4. ASSUME NEW from \in 1..Len(text), NEW to \in 1..Len(text)
        PROVE  SubSeq(all, from, to) = SubSeq(text, from, to)
    <2>1. from \in Nat /\ to \in Nat
      BY <1>1
    <2>2. Len(SubSeq(all, from, to)) = Len(SubSeq(text, from, to))
      BY <1>1, <2>1
    <2>3. \A i \in 1..Len(SubSeq(text, from, to)) : SubSeq(all, from, to)[i] = SubSeq(text, from, to)[i]
      BY <1>1, <1>2, <1>3, <2>1
    <2>4. SubSeq(all, from, to) \in Seq(Characters) /\ SubSeq(text, from, to) \in Seq(Characters)
      BY <1>1, <1>3, <2>1
    <2> QED BY <2>2, <2>3, <2>4
  <1> QED BY <1>1, <1>2, <1>3, <1>4

\* One character more.
OneLonger(text, c, all) ==
  /\ all \in Seq(Characters) /\ Len(text) \in Nat /\ Len(all) = Len(text) + 1 /\ all[Len(all)] = c
  /\ Scans(all)[Len(all)] = Scanned(Scans(text)[Len(text)], c, Len(all))
  /\ (\A i \in 1..Len(text) : all[i] = text[i] /\ i \in 1..Len(all))
  /\ (\A from, to \in 1..Len(text) : SubSeq(all, from, to) = SubSeq(text, from, to))
LEMMA OneMore ==
  ASSUME NEW text \in Seq(Characters), NEW c \in Characters, NEW all, all = Longer(text, c)
  PROVE  OneLonger(text, c, all)
  <1>0. all = text \o <<c>>
    BY DEF Longer
  <1>1. <<c>> \in Seq(Characters) /\ Len(<<c>>) = 1 /\ <<c>>[1] = c
    OBVIOUS
  <1>2. all \in Seq(Characters) /\ Len(text) \in Nat /\ Len(all) = Len(text) + 1
        /\ (\A i \in 1..Len(text) : all[i] = text[i] /\ i \in 1..Len(all))
        /\ (\A from, to \in 1..Len(text) : SubSeq(all, from, to) = SubSeq(text, from, to))
    BY <1>0, <1>1, Appended
  <1>3. all[Len(all)] = c
    <2>1. all[Len(text) + 1] = c
      BY <1>0, <1>1, <1>2
    <2> QED BY <1>2, <2>1
  <1>4. Scans(all)[Len(all)] = Scanned(Scans(text)[Len(text)], c, Len(all))
    BY <1>0, <1>2, ScanNext
  <1> QED BY <1>2, <1>3, <1>4 DEF OneLonger

\* A brace before the object stays one.
LEMMA StaysStray ==
  ASSUME NEW text \in Seq(Characters), NEW chars \in Seq(Characters), NEW all, all = text \o chars,
         NEW b \in Nat, NEW e \in Nat, StrayIn(text, b), e = b \/ (b = 0 /\ e = Len(all) /\ chars # <<>>)
  PROVE  StrayIn(all, e)
  <1>1. Len(text) \in Nat /\ Len(all) = Len(text) + Len(chars) /\ Len(chars) \in Nat
        /\ (\A i \in 1..Len(text) : all[i] = text[i] /\ i \in 1..Len(all))
    BY Appended
  <1>2. PICK i \in 1..Len(text) : text[i] = "open" /\ (b = 0 \/ i < b)
    BY DEF StrayIn
  <1>3. i \in 1..Len(all) /\ all[i] = "open"
    BY <1>1, <1>2
  <1>4. CASE e = b
    BY <1>2, <1>3, <1>4 DEF StrayIn
  <1>5. CASE e = Len(all) /\ chars # <<>>
    <2>1. Len(chars) # 0
      BY <1>5
    <2>2. i < e
      BY <1>1, <1>5, <2>1
    <2> QED BY <1>3, <2>2 DEF StrayIn
  <1> QED BY <1>4, <1>5

\* A character of prose.
LEMMA ProseCut ==
  ASSUME NEW text, NEW b, NEW o, Planned(text, 0, b, o), NEW c \in Characters, NEW all, all = Longer(text, c)
  PROVE  Planned(all, 0, b, o)
  <1>0. text \in Seq(Characters) /\ b \in Nat /\ Plain(text, 0, b, o)
    BY DEF Planned, Plain
  <1>1. OneLonger(text, c, all)
    BY <1>0, OneMore
  <1>2. all \in Seq(Characters) /\ Len(text) \in Nat /\ Len(all) = Len(text) + 1 /\ all[Len(all)] = c
        /\ Scans(all)[Len(all)] = Scanned(Scans(text)[Len(text)], c, Len(all))
        /\ (\A i \in 1..Len(text) : all[i] = text[i] /\ i \in 1..Len(all))
        /\ (\A from, to \in 1..Len(text) : SubSeq(all, from, to) = SubSeq(text, from, to))
    BY <1>1 DEF OneLonger
  <1>3. Len(all) \in Nat \ {0} /\ 1 \in Nat \ {0} /\ Len(all) \in 1..Len(all)
    BY <1>2
  <1>4. Plain(all, 0, b, o)
    BY <1>0, <1>2 DEF Plain
  <1>5. CASE StrayIn(text, b)
    <2>1. <<c>> \in Seq(Characters) /\ all = text \o <<c>>
      BY DEF Longer
    <2> QED BY <1>0, <1>4, <1>5, <2>1, StaysStray DEF Planned
  <1>6. CASE Before(text, 0, b, o) /\ c = "open"
    <2>1. b = 0
      BY <1>6 DEF Before
    <2>2. StrayIn(all, b)
      BY <1>2, <1>3, <1>6, <2>1 DEF StrayIn
    <2> QED BY <1>4, <2>2 DEF Planned
  <1>7. CASE Before(text, 0, b, o) /\ c # "open"
    <2>1. Scans(all)[Len(all)] = Unscanned
      <3>1. Scans(text)[Len(text)] = Unscanned
        BY <1>7 DEF Before
      <3>2. Scanned(Unscanned, c, Len(all)) = Unscanned
        BY <1>3, <1>7, Around
      <3> QED BY <1>2, <3>1, <3>2
    <2>2. ASSUME NEW i \in 1..Len(all) PROVE all[i] # "open"
      <3>1. i \in 1..Len(text) \/ i = Len(all)
        BY <1>2
      <3> QED BY <1>2, <1>7, <3>1 DEF Before, NoBrace
    <2>3. NoBrace(all, Len(all))
      BY <2>2 DEF NoBrace
    <2>4. Before(all, 0, b, o)
      BY <1>7, <2>1, <2>3 DEF Before
    <2> QED BY <1>2, <1>4, <2>4 DEF Planned, Cut
  <1>8. CASE Behind(text, 0, b, o)
    <2>1. PICK to \in 1..Len(text) : CutFrom(text, o, b, to)
      BY <1>8 DEF Behind
    <2>2. b \in 1..Len(text)
      BY <1>8 DEF Behind
    <2>3. b \in Nat \ {0} /\ to \in Nat \ {0} /\ b \in 1..Len(all) /\ to \in 1..Len(all)
      BY <1>2, <2>2
    <2>4. Scans(text)[Len(text)] = Found(b, to) /\ o = SubSeq(text, b, to)
      BY <2>1 DEF CutFrom
    <2>5. Scanned(Found(b, to), c, Len(all)) = Found(b, to)
      BY <1>3, <2>3, Around
    <2>6. SubSeq(all, b, to) = SubSeq(text, b, to)
      BY <1>2, <2>2
    <2>7. CutFrom(all, o, b, to)
      BY <1>2, <2>4, <2>5, <2>6 DEF CutFrom
    <2>8. Behind(all, 0, b, o)
      BY <1>8, <2>3, <2>7 DEF Behind
    <2> QED BY <1>2, <1>4, <2>8 DEF Planned, Cut
  <1>9. StrayIn(text, b) \/ Before(text, 0, b, o) \/ Behind(text, 0, b, o)
    BY DEF Planned, Cut, During
  <1> QED BY <1>5, <1>6, <1>7, <1>8, <1>9

\* An opening brace of the object.
LEMMA OpenCut ==
  ASSUME NEW text, NEW d, NEW b, Planned(text, d, b, Nothing), NEW all, all = WithOpen(text),
         NEW e, e = IF d = 0 THEN Len(all) ELSE b
  PROVE  Planned(all, d + 1, e, Nothing)
  <1>0. text \in Seq(Characters) /\ d \in Nat /\ b \in Nat /\ "open" \in Characters
        /\ (d = 0 => b = 0) /\ (d # 0 => b # 0) /\ b <= Len(text)
    BY DEF Planned, Plain, Characters
  <1>1. d + 1 \in Nat /\ d + 1 # 0
    BY <1>0
  <1>2. all \in Seq(Characters) /\ Len(text) \in Nat /\ Len(all) = Len(text) + 1 /\ all[Len(all)] = "open"
        /\ Scans(all)[Len(all)] = Scanned(Scans(text)[Len(text)], "open", Len(all))
        /\ (\A i \in 1..Len(text) : all[i] = text[i] /\ i \in 1..Len(all))
    <2>1. PICK c \in Characters : c = "open"
      BY <1>0
    <2>2. all = Longer(text, c)
      BY <2>1 DEF WithOpen
    <2>3. OneLonger(text, c, all)
      BY <1>0, <2>2, OneMore
    <2> QED BY <2>1, <2>3 DEF OneLonger
  <1>3. Len(all) \in Nat \ {0} /\ 1 \in Nat \ {0} /\ Len(all) \in 1..Len(all) /\ e \in Nat /\ e # 0 /\ e <= Len(all)
    BY <1>0, <1>2
  <1>4. Plain(all, d + 1, e, Nothing)
    BY <1>1, <1>2, <1>3 DEF Plain
  <1>5. CASE StrayIn(text, b)
    <2>1. PICK c \in Characters : c = "open"
      BY <1>0
    <2>2. <<c>> \in Seq(Characters) /\ all = text \o <<c>> /\ <<c>> # <<>>
      BY <2>1 DEF WithOpen, Longer
    <2>3. e = b \/ (b = 0 /\ e = Len(all))
      BY <1>0
    <2>4. StrayIn(all, e)
      BY <1>0, <1>3, <1>5, <2>2, <2>3, StaysStray
    <2> QED BY <1>4, <2>4 DEF Planned
  <1>6. CASE Before(text, d, b, Nothing)
    <2>1. Scans(all)[Len(all)] = InObject(Len(all), 1)
      <3>1. Scans(text)[Len(text)] = Unscanned
        BY <1>6 DEF Before
      <3>2. Scanned(Unscanned, "open", Len(all)) = InObject(Len(all), 1)
        BY <1>3, Around
      <3> QED BY <1>2, <3>1, <3>2
    <2>2. d + 1 = 1 /\ e = Len(all)
      BY <1>6 DEF Before
    <2>3. During(all, d + 1, e, Nothing)
      BY <1>1, <1>3, <2>1, <2>2 DEF During
    <2> QED BY <1>1, <1>2, <1>4, <2>3 DEF Planned, Cut
  <1>7. CASE During(text, d, b, Nothing)
    <2>1. b \in Nat \ {0} /\ d \in Nat \ {0} /\ b \in 1..Len(all) /\ e = b
      BY <1>0, <1>2, <1>7 DEF During
    <2>2. Scanned(InObject(b, d), "open", Len(all)) = InObject(b, d + 1)
      BY <1>3, <2>1, Outside
    <2>3. Scans(text)[Len(text)] = InObject(b, d)
      BY <1>7 DEF During
    <2>4. During(all, d + 1, e, Nothing)
      BY <1>1, <1>2, <2>1, <2>2, <2>3 DEF During
    <2> QED BY <1>1, <1>2, <1>4, <2>4 DEF Planned, Cut
  <1> QED BY <1>5, <1>6, <1>7 DEF Planned, Cut, Behind

\* A string of the object.
LEMMA StringCut ==
  ASSUME NEW text, NEW d, NEW b, NEW o, Planned(text, d, b, o), d # 0, NEW s \in Strings,
         NEW all, all = WithString(text, s)
  PROVE  Planned(all, d, b, o)
  <1>1. text \in Seq(Characters) /\ Len(text) \in Nat /\ d \in Nat \ {0} /\ b \in Nat /\ Plain(text, d, b, o)
    BY DEF Planned, Plain
  <1>2. s \in Seq(Characters) /\ IsJsonString(s)
    BY QueryAssumption
  <1>3. Quoted(s) \in Seq(Characters)
    <2>1. "quote" \in Characters
      BY DEF Characters
    <2>2. PICK q : q = "quote"
      OBVIOUS
    <2>3. Quoted(s) = <<q>> \o s \o <<q>> /\ q \in Characters
      BY <2>1, <2>2 DEF Quoted
    <2> QED BY <1>2, <2>3
  <1>4. all = text \o Quoted(s)
    BY DEF WithString
  <1>5. all \in Seq(Characters) /\ (\A i \in 1..Len(text) : all[i] = text[i] /\ i \in 1..Len(all))
    BY <1>1, <1>3, <1>4, Appended
  <1>6. Plain(all, d, b, o)
    BY <1>1, <1>5 DEF Plain
  <1>7. CASE StrayIn(text, b)
    <2>1. StrayIn(all, b)
      BY <1>1, <1>3, <1>4, <1>7, StaysStray
    <2> QED BY <1>6, <2>1 DEF Planned
  <1>8. CASE During(text, d, b, o)
    <2>1. Scans(text)[Len(text)] = InObject(b, d) /\ b \in 1..Len(text) /\ o = Nothing
      BY <1>8 DEF During
    <2>2. b \in Nat \ {0} /\ b \in 1..Len(all)
      BY <1>1, <1>5, <2>1
    <2>3. Scans(all)[Len(all)] = InObject(b, d)
      BY <1>1, <1>2, <2>1, <2>2, StringPassed DEF WithString, Quoted
    <2>4. During(all, d, b, o)
      BY <1>1, <2>1, <2>2, <2>3 DEF During
    <2> QED BY <1>1, <1>5, <1>6, <2>4 DEF Planned, Cut
  <1> QED BY <1>7, <1>8 DEF Planned, Cut, Before, Behind

\* A closing brace.
LEMMA CloseCut ==
  ASSUME NEW text, NEW d, NEW b, NEW o, Planned(text, d, b, o), d # 0, NEW all, all = WithClose(text), NEW p,
         p = IF d = 1 THEN SubSeq(all, b, Len(all)) ELSE o
  PROVE  Planned(all, d - 1, b, p)
  <1>1. text \in Seq(Characters) /\ "close" \in Characters /\ d \in Nat \ {0} /\ d - 1 \in Nat /\ b \in Nat \ {0}
        /\ b <= Len(text) /\ o = Nothing
    BY DEF Planned, Plain, Characters
  <1>2. all \in Seq(Characters) /\ Len(text) \in Nat /\ Len(all) = Len(text) + 1
        /\ Scans(all)[Len(all)] = Scanned(Scans(text)[Len(text)], "close", Len(all))
        /\ (\A i \in 1..Len(text) : all[i] = text[i] /\ i \in 1..Len(all))
    <2>1. PICK c \in Characters : c = "close"
      BY <1>1
    <2>2. all = Longer(text, c)
      BY <2>1 DEF WithClose
    <2>3. OneLonger(text, c, all)
      BY <1>1, <2>2, OneMore
    <2> QED BY <2>1, <2>3 DEF OneLonger
  <1>3. Len(all) \in Nat \ {0} /\ Len(all) \in 1..Len(all) /\ Len(all) \in Nat
    BY <1>2
  <1>0. Plain(all, d - 1, b, p)
    <2>1. CASE d = 1
      <3>1. p = SubSeq(all, b, Len(all))
        BY <2>1
      <3>2. \A n \in Nat \ {0}, to \in Nat : n <= to => to - n + 1 \in Nat \ {0}
        OBVIOUS
      <3>3. b <= Len(all)
        BY <1>1, <1>2
      <3>4. Len(SubSeq(all, b, Len(all))) = IF b <= Len(all) THEN Len(all) - b + 1 ELSE 0
        BY <1>1, <1>2, <1>3
      <3>5. Len(p) # 0
        BY <1>1, <1>3, <3>1, <3>2, <3>3, <3>4
      <3>6. Len(<<>>) = 0
        OBVIOUS
      <3>7. p # Nothing
        BY <3>5, <3>6 DEF Nothing
      <3> QED BY <1>1, <1>2, <2>1, <3>3, <3>7 DEF Plain
    <2>2. CASE d # 1
      <3>1. d - 1 # 0 /\ p = Nothing
        BY <1>1, <2>2
      <3>2. b <= Len(all)
        BY <1>1, <1>2
      <3> QED BY <1>1, <1>2, <3>1, <3>2 DEF Plain
    <2> QED BY <2>1, <2>2
  <1>4. CASE StrayIn(text, b)
    <2>1. PICK c \in Characters : c = "close"
      BY <1>1
    <2>2. <<c>> \in Seq(Characters) /\ all = text \o <<c>>
      BY <2>1 DEF WithClose, Longer
    <2>3. StrayIn(all, b)
      BY <1>1, <1>4, <2>2, StaysStray
    <2> QED BY <1>0, <2>3 DEF Planned
  <1>5. CASE During(text, d, b, o)
    <2>1. b \in Nat \ {0} /\ b \in 1..Len(all) /\ o = Nothing
      BY <1>2, <1>5 DEF During
    <2>2. Scans(all)[Len(all)] = Scanned(InObject(b, d), "close", Len(all))
      BY <1>2, <1>5 DEF During
    <2>3. CASE d = 1
      <3>1. p = SubSeq(all, b, Len(all)) /\ d - 1 = 0
        BY <2>3
      <3>2. Scans(all)[Len(all)] = Found(b, Len(all))
        BY <1>1, <1>3, <2>1, <2>2, <2>3, Outside
      <3>3. p # Nothing
        BY <1>0, <2>1, <3>1 DEF Plain
      <3>4. CutFrom(all, p, b, Len(all))
        BY <3>1, <3>2 DEF CutFrom
      <3>5. Behind(all, d - 1, b, p)
        BY <1>3, <2>1, <3>1, <3>3, <3>4 DEF Behind
      <3> QED BY <1>0, <1>1, <1>2, <3>5 DEF Planned, Cut
    <2>4. CASE d # 1
      <3>1. d > 1 /\ d - 1 # 0 /\ p = Nothing
        BY <1>1, <2>1, <2>4
      <3>2. Scans(all)[Len(all)] = InObject(b, d - 1)
        <4>1. Scanned(InObject(b, d), "close", Len(all)) = InObject(b, d - 1)
          BY <1>1, <1>3, <2>1, <3>1, Outside
        <4> QED BY <2>2, <4>1
      <3>3. During(all, d - 1, b, p)
        BY <2>1, <3>1, <3>2 DEF During
      <3> QED BY <1>0, <1>1, <1>2, <3>3 DEF Planned, Cut
    <2> QED BY <2>3, <2>4
  <1> QED BY <1>4, <1>5 DEF Planned, Cut, Before, Behind

\* What the scan knows of the planner's text.
CutInv == Planned(reply, depth, begun, object)

\* Every step of the planner keeps what the scan knows.
LEMMA CutStep ==
  ASSUME CutInv, Planning PROVE CutInv'
  <1>0. PICK all, e, g, p : all = reply' /\ e = depth' /\ g = begun' /\ p = object'
    OBVIOUS
  <1>1. PICK text, d, b, o : text = reply /\ d = depth /\ b = begun /\ o = object
    OBVIOUS
  <1>2. Planned(text, d, b, o) /\ (CutInv' <=> Planned(all, e, g, p))
    BY <1>0, <1>1 DEF CutInv
  <1>9. text \in Seq(Characters) /\ d \in Nat
    BY <1>2 DEF Planned, Plain
  <1>3. CASE Prose
    <2>1. PICK c \in Characters : Write(<<c>>) /\ UNCHANGED <<depth, begun, object>>
      BY <1>3 DEF Prose
    <2>2. d = 0 /\ e = d /\ g = b /\ p = o /\ all = Longer(text, c)
      BY <1>0, <1>1, <1>3, <2>1 DEF Prose, Write, Longer
    <2> QED BY <1>2, <2>2, ProseCut
  <1>4. CASE OpenBrace
    <2>1. all = WithOpen(text) /\ e = d + 1 /\ o = Nothing /\ p = Nothing
      BY <1>0, <1>1, <1>4 DEF OpenBrace, Write, WithOpen, Longer
    <2>2. g = IF d = 0 THEN Len(all) ELSE b
      BY <1>0, <1>1, <1>4 DEF OpenBrace
    <2> QED BY <1>2, <2>1, <2>2, OpenCut
  <1>5. ASSUME NEW s \in Strings, QuoteString(s) PROVE CutInv'
    <2>1. all = WithString(text, s) /\ e = d /\ g = b /\ p = o
      BY <1>0, <1>1, <1>5 DEF QuoteString, Write, WithString, Quoted
    <2>2. d # 0
      BY <1>1, <1>5 DEF QuoteString
    <2> QED BY <1>2, <2>1, <2>2, StringCut
  <1>6. CASE CloseBrace
    <2>1. all = WithClose(text) /\ e = d - 1 /\ g = b
      BY <1>0, <1>1, <1>6 DEF CloseBrace, Write, WithClose, Longer
    <2>2. d # 0
      BY <1>1, <1>6 DEF CloseBrace
    <2>3. p = IF d = 1 THEN SubSeq(all, b, Len(all)) ELSE o
      BY <1>0, <1>1, <1>6 DEF CloseBrace
    <2> QED BY <1>2, <2>1, <2>2, <2>3, CloseCut
  <1> QED BY <1>3, <1>4, <1>5, <1>6 DEF Planning

\* What the scan knows is the plan.
LEMMA CutWhole == CutInv => PlanCutWhole
  <1> SUFFICES ASSUME CutInv, ~Stray PROVE ExtractFirst(reply) = object
    BY DEF PlanCutWhole
  <1> DEFINE s == Scans(reply)[Len(reply)]
  <1>0. ExtractFirst(reply) = IF s.end = 0 THEN Nothing ELSE SubSeq(reply, s.start, s.end)
    BY DEF ExtractFirst
  <1>1. PICK no : no = FALSE
    OBVIOUS
  <1>9. reply \in Seq(Characters) /\ Len(reply) \in Nat /\ DOMAIN reply = 1..Len(reply)
    BY DEF CutInv, Planned, Plain
  <1>8. Cut(reply, depth, begun, object)
    <2>1. ~StrayIn(reply, begun)
      BY <1>9 DEF Stray, StrayIn
    <2> QED BY <2>1 DEF CutInv, Planned
  <1>2. CASE Before(reply, depth, begun, object)
    <2>1. s = [start |-> 0, end |-> 0, depth |-> 0, string |-> no, escaped |-> no]
      BY <1>1, <1>2 DEF Before, Unscanned
    <2> HIDE DEF s
    <2>2. s.end = 0
      BY <2>1
    <2> QED BY <1>0, <1>2, <2>2 DEF Before
  <1>3. CASE During(reply, depth, begun, object)
    <2>1. s = InObject(begun, depth)
      BY <1>3 DEF During
    <2>2. s = [start |-> begun, end |-> 0, depth |-> depth, string |-> no, escaped |-> no]
      BY <1>1, <2>1 DEF InObject
    <2> HIDE DEF s
    <2>3. s.end = 0
      BY <2>2
    <2> QED BY <1>0, <1>3, <2>3 DEF During
  <1>4. CASE Behind(reply, depth, begun, object)
    <2>1. PICK to \in 1..Len(reply) : s = Found(begun, to) /\ object = SubSeq(reply, begun, to)
      BY <1>4 DEF Behind, CutFrom
    <2>2. s = [start |-> begun, end |-> to, depth |-> 0, string |-> no, escaped |-> no]
      BY <1>1, <2>1 DEF Found
    <2> HIDE DEF s
    <2>3. s.start = begun /\ s.end = to
      BY <2>2
    <2>4. to # 0
      BY <1>9
    <2> QED BY <1>0, <2>1, <2>3, <2>4
  <1> QED BY <1>2, <1>3, <1>4, <1>8 DEF Cut

\* query.rs: an answer holds what the question asks for, the newest and up to its
\* limit (of the captures found before a plan's time range is applied), and the plan
\* is cut whole out of a text in which no brace opens before it.
THEOREM QuestionsAreAnswered == QuerySpec => []QuestionsAnswered
  <1>1. QueryInit => RecordsOk /\ CutInv
    <2> SUFFICES ASSUME QueryInit PROVE RecordsOk /\ CutInv
      OBVIOUS
    <2>1. RecordsOk
      BY DEF QueryInit, RecordsOk
    <2>2. reply = <<>> /\ depth = 0 /\ begun = 0 /\ object = Nothing
      BY DEF QueryInit
    <2>3. Len(<<>>) = 0 /\ <<>> \in Seq(Characters) /\ 0 \in Nat
      OBVIOUS
    <2>4. Scans(<<>>)[Len(<<>>)] = Unscanned
      BY <2>3, ScanStates
    <2>5. NoBrace(<<>>, Len(<<>>))
      BY <2>3 DEF NoBrace
    <2>6. Planned(<<>>, 0, 0, Nothing)
      BY <2>3, <2>4, <2>5 DEF Planned, Plain, Cut, Before
    <2> QED BY <2>1, <2>2, <2>6 DEF CutInv
  <1>2. RecordsOk /\ CutInv /\ [Capturing \/ Planning]_queryVars => RecordsOk' /\ CutInv'
    <2> SUFFICES ASSUME RecordsOk, CutInv, [Capturing \/ Planning]_queryVars PROVE RecordsOk' /\ CutInv'
      OBVIOUS
    <2>1. ASSUME UNCHANGED <<reply, depth, begun, object>> PROVE CutInv'
      BY <2>1 DEF CutInv
    <2>2. ASSUME UNCHANGED <<time, captures>> PROVE RecordsOk'
      BY <2>2 DEF RecordsOk
    <2>3. CASE UNCHANGED queryVars
      BY <2>1, <2>2, <2>3 DEF queryVars
    <2>4. CASE QueryTick
      <3>1. RecordsOk'
        <4>1. time \in Nat /\ time' = time + 1 /\ captures' = captures /\ captures \in Seq(Recorded)
          BY <2>4 DEF QueryTick, RecordsOk
        <4>2. \A i \in DOMAIN captures : captures[i].at \in Nat
          <5>1. \A r \in Recorded : r.at \in Nat
            BY DEF Recorded
          <5> HIDE DEF Recorded
          <5> QED BY <4>1, <5>1
        <4> QED BY <4>1, <4>2 DEF RecordsOk
      <3> QED BY <2>1, <2>4, <3>1 DEF QueryTick
    <2>5. ASSUME NEW kind \in RecordKinds, NEW words \in SUBSET Words, Record(kind, words)
          PROVE  RecordsOk' /\ CutInv'
      <3>1. PICK r : r = [kind |-> kind, words |-> words, at |-> time]
        OBVIOUS
      <3>2. captures' = <<r>> \o captures /\ time' = time
        BY <2>5, <3>1 DEF Record
      <3>3. r \in Recorded /\ r.at = time /\ time \in Nat /\ captures \in Seq(Recorded)
        BY <3>1 DEF Recorded, RecordsOk
      <3>4. PICK old, new : old = captures /\ new = captures'
        OBVIOUS
      <3>5. new \in Seq(Recorded) /\ Len(new) = Len(old) + 1 /\ Len(old) \in Nat /\ new[1] = r
            /\ (\A i \in 2..Len(new) : new[i] = old[i - 1])
        <4>1. new = <<r>> \o old /\ old \in Seq(Recorded)
          BY <3>2, <3>3, <3>4
        <4> QED BY <3>3, <4>1
      <3>6. \A i \in DOMAIN new : new[i].at <= time
        <4>1. DOMAIN new = 1..Len(new) /\ DOMAIN old = 1..Len(old)
          BY <3>3, <3>4, <3>5
        <4>2. \A i \in DOMAIN old : old[i].at <= time
          BY <3>4 DEF RecordsOk
        <4>3. ASSUME NEW i \in 2..Len(new) PROVE new[i].at <= time
          <5>1. i - 1 \in 1..Len(old)
            BY <3>5
          <5> QED BY <3>5, <4>1, <4>2, <5>1
        <4>4. \A i \in 1..Len(new) : i = 1 \/ i \in 2..Len(new)
          BY <3>5
        <4>5. new[1].at <= time
          BY <3>3, <3>5
        <4> QED BY <4>1, <4>3, <4>4, <4>5
      <3>7. RecordsOk'
        BY <3>2, <3>3, <3>4, <3>5, <3>6 DEF RecordsOk
      <3> QED BY <2>1, <2>5, <3>7 DEF Record
    <2>6. CASE Planning
      <3>1. UNCHANGED <<time, captures>>
        BY <2>6 DEF Planning, Prose, OpenBrace, CloseBrace, QuoteString, Write
      <3> QED BY <2>2, <2>6, <3>1, CutStep
    <2> QED BY <2>3, <2>4, <2>5, <2>6 DEF Capturing
  <1>3. RecordsOk /\ CutInv => QuestionsAnswered
    BY Answered, CutWhole DEF QuestionsAnswered
  <1> QED BY <1>1, <1>2, <1>3, PTL DEF QuerySpec

=============================================================================
