------------------------------ MODULE PhoneProofs ------------------------------
(***************************************************************************)
(* Proofs about the two users of the desktop's code inbox.  The browser    *)
(* extension: FillsRight holds of FillSpec.  The Android app:              *)
(* NewestCodeOffered and SmsDelivered hold of PhoneSpec.                   *)
(***************************************************************************)
EXTENDS Phone, CodeFill, FiniteSetTheorems, SequenceTheorems, TLAPS

-----------------------------------------------------------------------------
(* The browser extension: what it fills in, it fills in once.               *)

Keys == (Int \X Int) \cup (Sites \X Int)

Asking == [at : {"ask"}, kind : Kinds, tab : Tabs, site : Sites, since : Nat,
           key : Keys \cup {NoKey}, noted : Nat]
Marking == [at : {"mark"}, kind : Kinds, tab : Tabs, key : Keys, fill : Nat]
Fills == [kind : Kinds, tab : Tabs, key : Keys, noted : Nat, since : Nat, page : Sites,
          until : Nat, stops : Nat]

FillForm ==
  /\ now \in Nat /\ latest.row \in Nat /\ latest.expires \in Nat
  /\ active \in Tabs /\ page \in [Tabs -> Sites] /\ session \in Nat
  /\ attempts \in [Attempts -> {Rest} \cup Asking \cup Marking]
  /\ filled \in [Kinds -> [Tabs -> Keys \cup {NoKey}]]
  /\ loads \in Nat /\ stops \in Nat
  /\ fills \in Seq(Fills) /\ marks \in Seq(Nat)

\* The second of two fills of a key has an excuse: when its attempt looked, the
\* first was not noted, or another key had been noted after it.
Excused(done, known, i, kind, tab, key, noted) ==
  \/ \A m \in 1..noted : known[m] # i
  \/ \E n \in 1..noted : /\ done[known[n]].kind = kind /\ done[known[n]].tab = tab
                         /\ done[known[n]].key # key
                         /\ \E m \in 1..n - 1 : known[m] = i

\* The worker remembers a noted fill until it stops or notes another key there.
FilledInv ==
  /\ \A i \in DOMAIN fills : fills[i].stops <= stops
  /\ \A m \in DOMAIN marks :
       /\ marks[m] \in DOMAIN fills
       /\ LET f == fills[marks[m]]
          IN f.stops = stops =>
               \/ filled[f.kind][f.tab] = f.key
               \/ \E n \in DOMAIN marks :
                    /\ n > m /\ fills[marks[n]].kind = f.kind /\ fills[marks[n]].tab = f.tab
                    /\ fills[marks[n]].key # f.key

\* What an attempt knows when it fills, and what it has to note.
AskInv ==
  \A a \in Attempts : attempts[a].at = "ask" =>
    /\ attempts[a].since <= loads
    /\ attempts[a].site = page[attempts[a].tab] \/ attempts[a].since < loads
    /\ attempts[a].key # NoKey =>
         /\ attempts[a].noted <= Len(marks)
         /\ attempts[a].kind = "credential" => attempts[a].key[1] = attempts[a].site
         /\ \A i \in DOMAIN fills :
              /\ fills[i].kind = attempts[a].kind /\ fills[i].tab = attempts[a].tab
              /\ fills[i].key = attempts[a].key /\ fills[i].stops = stops
              => Excused(fills, marks, i, attempts[a].kind, attempts[a].tab, attempts[a].key,
                         attempts[a].noted)
MarkingInv ==
  \A a \in Attempts : attempts[a].at = "mark" =>
    /\ attempts[a].fill \in DOMAIN fills
    /\ fills[attempts[a].fill].kind = attempts[a].kind
    /\ fills[attempts[a].fill].tab = attempts[a].tab
    /\ fills[attempts[a].fill].key = attempts[a].key

FilledTwice ==
  \A j \in DOMAIN fills :
    /\ fills[j].noted <= Len(marks)
    /\ \A i \in 1..j - 1 :
         /\ fills[i].kind = fills[j].kind /\ fills[i].tab = fills[j].tab
         /\ fills[i].key = fills[j].key /\ fills[i].stops = fills[j].stops
         => Excused(fills, marks, i, fills[j].kind, fills[j].tab, fills[j].key, fills[j].noted)

FillInv ==
  FillForm /\ FilledInv /\ AskInv /\ MarkingInv /\ FilledTwice /\ CredentialOnItsSite

-----------------------------------------------------------------------------
LEMMA FillStarts == InboxInit /\ FillInit => FillInv
  <1> SUFFICES ASSUME InboxInit, FillInit PROVE FillInv
    OBVIOUS
  <1> USE DEF InboxInit, FillInit
  <1>1. Rest.at = "rest"
    BY DEF Rest
  <1>2. FillForm
    BY DEF FillForm, NoCode
  <1>3. FilledInv /\ FilledTwice /\ CredentialOnItsSite
    BY DEF FilledInv, FilledTwice, CredentialOnItsSite
  <1>4. AskInv /\ MarkingInv
    BY <1>1 DEF AskInv, MarkingInv
  <1> QED BY <1>2, <1>3, <1>4 DEF FillInv

\* Facts every step uses.
LEMMA FillFacts ==
  ASSUME FillForm
  PROVE  /\ DOMAIN fills = 1..Len(fills) /\ Len(fills) \in Nat
         /\ DOMAIN marks = 1..Len(marks) /\ Len(marks) \in Nat
         /\ \A i \in DOMAIN fills : fills[i] \in Fills
         /\ \A m \in DOMAIN marks : marks[m] \in Nat
         /\ \A a \in Attempts :
              /\ attempts[a] \in {Rest} \cup Asking \cup Marking
              /\ attempts[a].at = "ask" => attempts[a] \in Asking
              /\ attempts[a].at = "mark" => attempts[a] \in Marking
              /\ attempts[a].at = "rest" => attempts[a] = Rest
  <1>1. \A x \in Asking : x.at = "ask"
    BY DEF Asking
  <1>2. \A x \in Marking : x.at = "mark"
    BY DEF Marking
  <1>3. Rest.at = "rest"
    BY DEF Rest
  <1> QED BY <1>1, <1>2, <1>3 DEF FillForm

\* An attempt that has an answer.
LEMMA AnswerForm ==
  ASSUME NEW s \in Asking, NEW key \in Keys, NEW noted \in Nat
  PROVE  /\ [s EXCEPT !.key = key, !.noted = noted] \in Asking
         /\ [s EXCEPT !.key = key, !.noted = noted] =
              [at |-> "ask", kind |-> s.kind, tab |-> s.tab, site |-> s.site,
               since |-> s.since, key |-> key, noted |-> noted]
  <1> DEFINE z == [s EXCEPT !.key = key]
  <1>1. z = [at |-> "ask", kind |-> s.kind, tab |-> s.tab, site |-> s.site,
             since |-> s.since, key |-> key, noted |-> s.noted]
    BY DEF Asking
  <1>2. [s EXCEPT !.key = key, !.noted = noted] = [z EXCEPT !.noted = noted]
    BY DEF Asking
  <1> HIDE DEF z
  <1>3. [z EXCEPT !.noted = noted] =
          [at |-> "ask", kind |-> s.kind, tab |-> s.tab, site |-> s.site,
           since |-> s.since, key |-> key, noted |-> noted]
    BY <1>1
  <1> QED BY <1>2, <1>3 DEF Asking

\* A step that leaves the worker, its fills and the pages alone.
LEMMA FillAside ==
  ASSUME FillInv, FillForm', UNCHANGED <<browser, worker, stops, seen>>
  PROVE  FillInv'
  <1> USE DEF browser, worker, seen
  <1>1. FilledInv' /\ FilledTwice' /\ CredentialOnItsSite'
    BY DEF FillInv, FilledInv, FilledTwice, CredentialOnItsSite, Excused
  <1>2. AskInv' /\ MarkingInv'
    BY DEF FillInv, AskInv, MarkingInv, Excused
  <1> QED BY <1>1, <1>2 DEF FillInv

LEMMA FillOutside ==
  ASSUME FillInv, InboxAssumption, FillAssumption,
         \/ \E row \in Messages : Arrives(row)
         \/ UnlockVault
         \/ InboxTick /\ UNCHANGED fillVars
  PROVE  FillInv'
  <1> USE DEF FillInv
  <1>1. ASSUME NEW row \in Messages, Arrives(row) PROVE FillInv'
    <2>1. latest' = [row |-> row, run |-> CodeOf(row), expires |-> now + Ttl] /\ row \in Nat
      BY <1>1, InboxAssumption DEF Arrives, Recorded, Messages
    <2>2. FillForm'
      BY <1>1, <2>1, InboxAssumption DEF FillForm, Arrives, fillVars, browser, worker, vault, seen
    <2> QED BY <1>1, <2>2, FillAside DEF Arrives, fillVars, browser, worker, seen
  <1>2. CASE UnlockVault
    <2>1. FillForm'
      BY <1>2, FillAssumption DEF FillForm, UnlockVault, inboxVars, browser, worker, seen
    <2> QED BY <1>2, <2>1, FillAside DEF UnlockVault, browser, worker, seen
  <1>3. CASE InboxTick /\ UNCHANGED fillVars
    <2>1. FillForm'
      BY <1>3 DEF FillForm, InboxTick, fillVars, browser, worker, vault, seen
    <2> QED BY <1>3, <2>1, FillAside DEF fillVars, browser, worker, seen
  <1> QED BY <1>1, <1>2, <1>3

LEMMA FillUnloaded ==
  ASSUME FillInv, RestartDesktop \/ StopWorker
  PROVE  FillInv'
  <1> USE DEF FillInv, browser, worker, seen
  <1>1. UNCHANGED <<browser, seen>> /\ stops' = stops + 1
    BY DEF RestartDesktop, StopWorker
  <1>2. FillForm'
    <2>1. CASE RestartDesktop
      BY <2>1 DEF FillForm, RestartDesktop, NoCode
    <2>2. CASE StopWorker
      BY <2>2 DEF FillForm, StopWorker, inboxVars, vault
    <2> QED BY <2>1, <2>2
  <1>3. \A i \in DOMAIN fills : fills[i].stops < stops'
    <2> SUFFICES ASSUME NEW i \in DOMAIN fills PROVE fills[i].stops < stops'
      OBVIOUS
    <2>1. fills[i].stops <= stops
      BY DEF FillInv, FilledInv
    <2>2. fills \in Seq(Fills) /\ stops \in Nat
      BY DEF FillInv, FillForm
    <2>3. fills[i] \in Fills
      BY <2>2
    <2>4. PICK before \in Nat : before = fills[i].stops
      BY <2>3 DEF Fills
    <2> QED BY <1>1, <2>1, <2>2, <2>4
  <1>4. \A i \in DOMAIN fills : fills[i].stops # stops'
    BY <1>1, <1>3, FillFacts DEF FillForm, Fills
  <1>5. FilledInv'
    BY <1>1, <1>3, <1>4, FillFacts DEF FilledInv, FillForm, Fills
  <1>6. FilledTwice' /\ CredentialOnItsSite'
    BY <1>1 DEF FilledTwice, CredentialOnItsSite, Excused
  <1>7. AskInv' /\ MarkingInv'
    <2>1. CASE RestartDesktop
      BY <1>1, <1>4, <2>1 DEF AskInv, MarkingInv, RestartDesktop
    <2>2. CASE StopWorker
      <3>1. \A a \in Attempts : attempts'[a] = Rest /\ Rest.at = "rest"
        BY <2>2 DEF StopWorker, Rest
      <3> QED BY <3>1 DEF AskInv, MarkingInv
    <2> QED BY <2>1, <2>2
  <1> QED BY <1>2, <1>5, <1>6, <1>7

LEMMA FillBrowses ==
  ASSUME FillInv, \E tab \in Tabs : Activate(tab) \/ \E site \in Sites : Load(tab, site)
  PROVE  FillInv'
  <1> USE DEF FillInv, worker, seen
  <1>1. UNCHANGED <<inboxVars, worker, vault, stops, seen>> /\ loads' = loads + 1
    BY DEF Activate, Load
  <1>2. FillForm'
    BY <1>1 DEF FillForm, Activate, Load, inboxVars, vault
  <1>3. FilledInv' /\ FilledTwice' /\ CredentialOnItsSite'
    <2>1. UNCHANGED <<fills, marks, filled, stops>>
      BY <1>1
    <2>2. FilledInv'
      BY <2>1 DEF FilledInv
    <2>3. FilledTwice'
      BY <2>1 DEF FilledTwice, Excused
    <2>4. CredentialOnItsSite'
      BY <2>1 DEF CredentialOnItsSite
    <2> QED BY <2>2, <2>3, <2>4
  <1>4. \A a \in Attempts : attempts[a].at = "ask" => attempts[a].since \in Nat
    BY FillFacts DEF Asking
  <1>5. loads \in Nat
    BY DEF FillForm
  <1>6. AskInv' /\ MarkingInv'
    BY <1>1, <1>4, <1>5 DEF AskInv, MarkingInv, Excused
  <1> QED BY <1>2, <1>3, <1>6

LEMMA FillBegins ==
  ASSUME FillInv, NEW a \in Attempts, NEW kind \in Kinds, NEW tab \in Tabs, BeginFill(a, kind, tab)
  PROVE  FillInv'
  <1> USE DEF FillInv, worker, seen, browser
  <1> DEFINE s == [at |-> "ask", kind |-> kind, tab |-> tab, site |-> page[tab], since |-> loads,
                   key |-> NoKey, noted |-> 0]
  <1>1. attempts' = [attempts EXCEPT ![a] = s]
        /\ UNCHANGED <<inboxVars, browser, filled, vault, stops, seen>>
    BY DEF BeginFill, Proceed
  <1>2. s \in Asking
    BY DEF FillForm, Asking
  <1>3. FillForm'
    BY <1>1, <1>2 DEF FillForm, inboxVars, vault
  <1>4. FilledInv' /\ FilledTwice' /\ CredentialOnItsSite'
    BY <1>1 DEF FilledInv, FilledTwice, CredentialOnItsSite, Excused
  <1>5. \A b \in Attempts : attempts'[b] = IF b = a THEN s ELSE attempts[b]
    BY <1>1 DEF FillForm
  <1>6. s.at = "ask" /\ s.key = NoKey /\ s.since = loads /\ s.site = page[s.tab]
    OBVIOUS
  <1> HIDE DEF s
  <1>7. AskInv' /\ MarkingInv'
    <2>1. MarkingInv'
      BY <1>1, <1>5, <1>6 DEF MarkingInv
    <2>2. \A b \in Attempts : attempts'[b].at = "ask" /\ attempts'[b].key # NoKey =>
            b # a /\ attempts'[b] = attempts[b]
      BY <1>5, <1>6
    <2>3. \A b \in Attempts : attempts'[b].at = "ask" =>
            /\ attempts'[b].since <= loads
            /\ attempts'[b].site = page[attempts'[b].tab] \/ attempts'[b].since < loads
      BY <1>5, <1>6 DEF AskInv, FillForm
    <2>4. AskInv'
      BY <1>1, <2>2, <2>3 DEF AskInv, Excused
    <2> QED BY <2>1, <2>4
  <1> QED BY <1>3, <1>4, <1>7

\* A key the worker does not remember for the tab is one whose earlier fills there
\* have an excuse.
LEMMA FillExcused ==
  ASSUME FillInv, NEW kind \in Kinds, NEW tab \in Tabs, NEW key, filled[kind][tab] # key,
         NEW i \in DOMAIN fills, fills[i].kind = kind, fills[i].tab = tab, fills[i].key = key,
         fills[i].stops = stops
  PROVE  Excused(fills, marks, i, kind, tab, key, Len(marks))
  <1> SUFFICES ASSUME NEW m \in 1..Len(marks), marks[m] = i
               PROVE  \E n \in 1..Len(marks) :
                        /\ fills[marks[n]].kind = kind /\ fills[marks[n]].tab = tab
                        /\ fills[marks[n]].key # key
                        /\ \E k \in 1..n - 1 : marks[k] = i
    BY DEF Excused
  <1>1. m \in DOMAIN marks /\ DOMAIN marks = 1..Len(marks) /\ Len(marks) \in Nat
    BY FillFacts DEF FillInv
  <1>2. PICK n \in DOMAIN marks :
          /\ n > m /\ fills[marks[n]].kind = kind /\ fills[marks[n]].tab = tab
          /\ fills[marks[n]].key # key
    BY <1>1 DEF FillInv, FilledInv
  <1>3. n \in 1..Len(marks) /\ m \in 1..n - 1
    BY <1>1, <1>2
  <1> QED BY <1>2, <1>3

LEMMA FillAnswered ==
  ASSUME FillInv, NEW a \in Attempts, Stage(a, "ask"), NEW key \in Keys,
         attempts[a].kind = "credential" => key[1] = attempts[a].site,
         Proceed(a, Unfilled(a, key)) \/ Proceed(a, Rest), FillForm',
         UNCHANGED <<browser, filled, stops, seen>>
  PROVE  FillInv'
  <1> USE DEF FillInv, seen, browser
  <1> DEFINE s == attempts[a]
             z == [at |-> "ask", kind |-> s.kind, tab |-> s.tab, site |-> s.site,
                   since |-> s.since, key |-> key, noted |-> Len(marks)]
  <1>1. s \in Asking /\ Len(marks) \in Nat
    BY FillFacts DEF Stage
  <1>2. [s EXCEPT !.key = key, !.noted = Len(marks)] = z
    BY <1>1, AnswerForm
  <1>3. \/ attempts' = [attempts EXCEPT ![a] = Rest]
        \/ filled[s.kind][s.tab] # key /\ attempts' = [attempts EXCEPT ![a] = z]
    BY <1>2 DEF Proceed, Unfilled
  <1>4. PICK y : /\ attempts' = [attempts EXCEPT ![a] = y]
                 /\ y = Rest \/ (filled[s.kind][s.tab] # key /\ y = z)
    BY <1>3
  <1>5. FilledInv' /\ FilledTwice' /\ CredentialOnItsSite'
    BY DEF FilledInv, FilledTwice, CredentialOnItsSite, Excused
  <1>6. \A b \in Attempts : attempts'[b] = IF b = a THEN y ELSE attempts[b]
    BY <1>4 DEF FillForm
  <1>7. Rest.at = "rest"
    BY DEF Rest
  <1>8. z.at = "ask" /\ z.kind = s.kind /\ z.tab = s.tab /\ z.site = s.site /\ z.since = s.since
        /\ z.key = key /\ z.noted = Len(marks)
    OBVIOUS
  <1>9. s.kind \in Kinds /\ s.tab \in Tabs
    BY <1>1 DEF Asking
  <1>10. filled[s.kind][s.tab] # key =>
           \A i \in DOMAIN fills :
             fills[i].kind = s.kind /\ fills[i].tab = s.tab /\ fills[i].key = key
             /\ fills[i].stops = stops
             => Excused(fills, marks, i, s.kind, s.tab, key, Len(marks))
    BY <1>9, FillExcused
  <1>11. s.since <= loads /\ (s.site = page[s.tab] \/ s.since < loads)
    BY DEF AskInv, Stage
  <1>12. s.kind = "credential" => key[1] = s.site
    OBVIOUS
  <1> HIDE DEF z, s
  <1>13. ASSUME NEW b \in Attempts, attempts'[b].at = "ask" PROVE
           /\ attempts'[b].since <= loads
           /\ attempts'[b].site = page[attempts'[b].tab] \/ attempts'[b].since < loads
           /\ attempts'[b].key # NoKey =>
             /\ attempts'[b].noted <= Len(marks)
             /\ attempts'[b].kind = "credential" => attempts'[b].key[1] = attempts'[b].site
             /\ \A i \in DOMAIN fills :
              /\ fills[i].kind = attempts'[b].kind /\ fills[i].tab = attempts'[b].tab
              /\ fills[i].key = attempts'[b].key /\ fills[i].stops = stops
              => Excused(fills, marks, i, attempts'[b].kind, attempts'[b].tab, attempts'[b].key,
                         attempts'[b].noted)
    <2>1. CASE b = a
      <3>1. y = z /\ attempts'[b] = z /\ filled[s.kind][s.tab] # key
        BY <1>4, <1>6, <1>7, <1>13, <2>1
      <3> QED BY <1>1, <1>8, <1>10, <1>11, <1>12, <3>1
    <2>2. CASE b # a
      <3>1. attempts'[b] = attempts[b]
        BY <1>6, <2>2
      <3> QED BY <3>1, <1>13 DEF AskInv
    <2> QED BY <2>1, <2>2
  <1>14. AskInv'
    BY <1>13 DEF AskInv, Excused
  <1>15. MarkingInv'
    BY <1>4, <1>6, <1>7, <1>8 DEF MarkingInv
  <1> QED BY <1>5, <1>14, <1>15

LEMMA FillAsks ==
  ASSUME FillInv, NEW a \in Attempts, AskCode(a) \/ AskCredential(a)
  PROVE  FillInv'
  <1> USE DEF FillInv, seen, browser
  <1> DEFINE s == attempts[a]
  <1>1. Stage(a, "ask") /\ UNCHANGED <<inboxVars, browser, filled, open, stops, seen>>
    BY DEF AskCode, AskCredential, vault
  <1>2. s \in Asking /\ s.kind \in Kinds /\ s.tab \in Tabs /\ s.site \in Sites /\ Len(marks) \in Nat
    BY <1>1, FillFacts DEF Stage, Asking
  <1>3. PICK key \in Keys : /\ s.kind = "credential" => key[1] = s.site
                            /\ Proceed(a, Unfilled(a, key)) \/ Proceed(a, Rest)
    <2>1. CASE AskCode(a)
      <3>1. Offered = latest \/ Offered = NoCode
        BY DEF Offered
      <3>2. CodeKey(Offered) \in Keys
        BY <3>1 DEF CodeKey, Keys, NoCode, FillForm
      <3>3. s.kind # "credential"
        BY <2>1 DEF AskCode
      <3> QED BY <2>1, <3>2, <3>3 DEF AskCode
    <2>2. CASE AskCredential(a)
      <3>1. CredentialKey(s.site) \in Keys /\ CredentialKey(s.site)[1] = s.site
        BY <1>2 DEF CredentialKey, Keys, FillForm
      <3> QED BY <2>2, <3>1 DEF AskCredential
    <2> QED BY <2>1, <2>2
  <1>4. Unfilled(a, key) \in {Rest} \cup Asking
    BY <1>2, AnswerForm DEF Unfilled
  <1>5. session' \in Nat
    BY DEF AskCode, AskCredential, vault, FillForm
  <1>6. FillForm'
    BY <1>1, <1>3, <1>4, <1>5 DEF FillForm, Proceed, inboxVars
  <1> QED BY <1>1, <1>3, <1>6, FillAnswered

LEMMA FillNotes ==
  ASSUME FillInv, NEW a \in Attempts, Mark(a)
  PROVE  FillInv'
  <1> USE DEF FillInv, browser
  <1> DEFINE s == attempts[a]
  <1>1. s \in Marking /\ s.kind \in Kinds /\ s.tab \in Tabs /\ s.key \in Keys /\ s.fill \in Nat
    BY FillFacts DEF Mark, Stage, Marking
  <1>2. /\ attempts' = [attempts EXCEPT ![a] = Rest]
        /\ filled' = [filled EXCEPT ![s.kind][s.tab] = s.key] /\ marks' = Append(marks, s.fill)
        /\ UNCHANGED <<inboxVars, browser, vault, stops, fills>>
    BY DEF Mark, Proceed
  <1>3. /\ s.fill \in DOMAIN fills /\ fills[s.fill].kind = s.kind /\ fills[s.fill].tab = s.tab
        /\ fills[s.fill].key = s.key
    BY DEF MarkingInv, Mark, Stage
  <1>4. \A b \in Attempts : attempts'[b] = IF b = a THEN Rest ELSE attempts[b]
    BY <1>2 DEF FillForm
  <1>5. Rest.at = "rest"
    BY DEF Rest
  <1>6. /\ Len(marks) \in Nat /\ DOMAIN marks = 1..Len(marks)
        /\ Len(marks') = Len(marks) + 1 /\ DOMAIN marks' = 1..(Len(marks) + 1)
        /\ \A m \in 1..Len(marks) : marks'[m] = marks[m]
        /\ marks'[Len(marks) + 1] = s.fill
    BY <1>1, <1>2 DEF FillForm
  <1>7. \A k \in Kinds : \A t \in Tabs :
          filled'[k][t] = IF k = s.kind /\ t = s.tab THEN s.key ELSE filled[k][t]
    BY <1>1, <1>2 DEF FillForm
  <1>8. FillForm'
    BY <1>1, <1>2 DEF FillForm, inboxVars, vault
  <1>9. UNCHANGED <<fills, stops, page, loads>>
    BY <1>2
  <1>10. \A i \in DOMAIN fills : fills[i].kind \in Kinds /\ fills[i].tab \in Tabs
    BY FillFacts DEF Fills
  <1> HIDE DEF s
  <1>11. FilledInv'
    <2>1. \A i \in DOMAIN fills' : fills'[i].stops <= stops'
      BY <1>9 DEF FilledInv
    <2>2. ASSUME NEW m \in 1..Len(marks), NEW f, f = fills[marks[m]], f.stops = stops
          PROVE  /\ marks[m] \in DOMAIN fills
                 /\ \/ filled'[f.kind][f.tab] = f.key
                    \/ \E n \in 1..(Len(marks) + 1) :
                        /\ n > m /\ fills[marks'[n]].kind = f.kind /\ fills[marks'[n]].tab = f.tab
                        /\ fills[marks'[n]].key # f.key
      <3>1. /\ marks[m] \in DOMAIN fills
            /\ \/ filled[f.kind][f.tab] = f.key
               \/ \E n \in DOMAIN marks :
                    /\ n > m /\ fills[marks[n]].kind = f.kind /\ fills[marks[n]].tab = f.tab
                    /\ fills[marks[n]].key # f.key
        BY <1>6, <2>2 DEF FilledInv
      <3>2. f.kind \in Kinds /\ f.tab \in Tabs
        BY <1>10, <2>2, <3>1
      <3>3. CASE f.kind = s.kind /\ f.tab = s.tab
        BY <1>3, <1>6, <1>7, <3>1, <3>3, <3>2
      <3>4. CASE ~(f.kind = s.kind /\ f.tab = s.tab)
        <4>1. filled'[f.kind][f.tab] = filled[f.kind][f.tab]
          BY <1>7, <3>2, <3>4
        <4> QED BY <1>6, <3>1, <4>1
      <3> QED BY <3>3, <3>4
    <2>3. filled'[s.kind][s.tab] = s.key
      BY <1>1, <1>7
    <2>4. \A m \in 1..Len(marks) : marks[m] \in DOMAIN fills
      BY <1>6 DEF FilledInv
    <2>5. ASSUME NEW m \in DOMAIN marks' PROVE
            /\ marks'[m] \in DOMAIN fills'
            /\ fills'[marks'[m]].stops = stops' =>
               \/ filled'[fills'[marks'[m]].kind][fills'[marks'[m]].tab] = fills'[marks'[m]].key
               \/ \E n \in DOMAIN marks' :
                    /\ n > m /\ fills'[marks'[n]].kind = fills'[marks'[m]].kind
                    /\ fills'[marks'[n]].tab = fills'[marks'[m]].tab
                    /\ fills'[marks'[n]].key # fills'[marks'[m]].key
      <3>1. CASE m \in 1..Len(marks)
        <4>1. marks'[m] = marks[m]
          BY <1>6, <3>1
        <4> QED BY <1>6, <1>9, <2>2, <2>4, <3>1, <4>1
      <3>2. CASE m = Len(marks) + 1
        BY <1>3, <1>6, <1>9, <2>3, <3>2
      <3> QED BY <1>6, <3>1, <3>2
    <2> QED BY <2>1, <2>5 DEF FilledInv
  <1>12. \A i, k, t, key :
          \A noted \in Int : noted <= Len(marks) /\ Excused(fills, marks, i, k, t, key, noted)
           => Excused(fills', marks', i, k, t, key, noted)
    BY <1>6, <1>9 DEF Excused
  <1>13. FilledTwice'
    <2>1. \A j \in DOMAIN fills : fills[j].noted \in Int
      BY FillFacts DEF Fills
    <2> QED BY <1>6, <1>9, <1>12, <2>1 DEF FilledTwice
  <1>14. CredentialOnItsSite'
    BY <1>9 DEF CredentialOnItsSite
  <1>15. AskInv'
    <2>1. \A b \in Attempts : attempts[b].at = "ask" => attempts[b].noted \in Int
      BY FillFacts DEF Asking
    <2>2. \A b \in Attempts : attempts'[b].at = "ask" => attempts'[b] = attempts[b]
      BY <1>4, <1>5
    <2> QED BY <1>6, <1>9, <1>12, <2>1, <2>2 DEF AskInv
  <1>16. MarkingInv'
    <2>1. \A b \in Attempts : attempts'[b].at = "mark" => attempts'[b] = attempts[b]
      BY <1>4, <1>5
    <2> QED BY <1>9, <2>1 DEF MarkingInv
  <1> QED BY <1>8, <1>11, <1>13, <1>14, <1>15, <1>16

LEMMA FillFills ==
  ASSUME FillInv, NEW a \in Attempts, FillPage(a)
  PROVE  FillInv'
  <1> USE DEF FillInv, browser
  <1> DEFINE s == attempts[a]
             new == [kind |-> s.kind, tab |-> s.tab, key |-> s.key, noted |-> s.noted,
                     since |-> s.since, page |-> page[s.tab], until |-> loads, stops |-> stops]
             z == [at |-> "mark", kind |-> s.kind, tab |-> s.tab, key |-> s.key,
                   fill |-> Len(fills) + 1]
  <1>1. s \in Asking /\ s.at = "ask" /\ s.kind \in Kinds /\ s.tab \in Tabs /\ s.key \in Keys
        /\ s.noted \in Nat /\ s.since \in Nat /\ s.key # NoKey
    BY FillFacts DEF FillPage, Stage, Answered, Asking
  <1>2. UNCHANGED <<inboxVars, browser, filled, vault, stops, marks>>
    BY DEF FillPage
  <1>3. Rest.at = "rest"
    BY DEF Rest
  <1>4. CASE attempts' = [attempts EXCEPT ![a] = Rest] /\ fills' = fills
    <2>1. FillForm'
      BY <1>2, <1>4 DEF FillForm, inboxVars, vault
    <2>2. UNCHANGED <<fills, stops, page, loads, marks, filled>>
      BY <1>2, <1>4
    <2>3. \A b \in Attempts : attempts'[b].at = "ask" \/ attempts'[b].at = "mark"
            => attempts'[b] = attempts[b]
      BY <1>3, <1>4 DEF FillForm
    <2>4. FilledInv'
      BY <2>2 DEF FilledInv
    <2>5. FilledTwice'
      BY <2>2 DEF FilledTwice, Excused
    <2>6. CredentialOnItsSite'
      BY <2>2 DEF CredentialOnItsSite
    <2>7. AskInv'
      BY <2>2, <2>3 DEF AskInv, Excused
    <2>8. MarkingInv'
      BY <2>2, <2>3 DEF MarkingInv
    <2> QED BY <2>1, <2>4, <2>5, <2>6, <2>7, <2>8
  <1>5. CASE attempts' = [attempts EXCEPT ![a] = z] /\ fills' = Append(fills, new)
    <2>1. new \in Fills
      BY <1>1 DEF FillForm, Fills
    <2>2. /\ Len(fills) \in Nat /\ DOMAIN fills = 1..Len(fills)
          /\ DOMAIN fills' = 1..(Len(fills) + 1) /\ Len(fills') = Len(fills) + 1
          /\ \A i \in 1..Len(fills) : fills'[i] = fills[i]
          /\ fills'[Len(fills) + 1] = new
      BY <1>5, <2>1 DEF FillForm
    <2>3. z \in Marking
      BY <1>1, <2>2 DEF Marking
    <2>4. FillForm'
      BY <1>2, <1>5, <2>1, <2>3 DEF FillForm, inboxVars, vault
    <2>5. UNCHANGED <<stops, page, loads, marks, filled>>
      BY <1>2
    <2>6. z.at = "mark" /\ z.kind = s.kind /\ z.tab = s.tab /\ z.key = s.key /\ z.fill = Len(fills) + 1
      OBVIOUS
    <2>7. new.kind = s.kind /\ new.tab = s.tab /\ new.key = s.key /\ new.stops = stops
          /\ new.noted = s.noted /\ new.since = s.since /\ new.page = page[s.tab] /\ new.until = loads
      OBVIOUS
    <2> HIDE DEF new, z
    <2>8. \A b \in Attempts : attempts'[b] = IF b = a THEN z ELSE attempts[b]
      BY <1>5 DEF FillForm
    <2>9. Len(marks) \in Nat /\ DOMAIN marks = 1..Len(marks)
          /\ \A m \in 1..Len(marks) : marks[m] \in 1..Len(fills)
      BY <2>2, FillFacts DEF FilledInv
    <2>10. \A i, k, t, key :
            \A noted \in Int : noted <= Len(marks) /\ Excused(fills, marks, i, k, t, key, noted)
             => Excused(fills', marks', i, k, t, key, noted)
      <3>1. marks' = marks
        BY <2>5
      <3>2. \A n \in 1..Len(marks) : fills'[marks[n]] = fills[marks[n]]
        BY <2>2, <2>9
      <3> SUFFICES ASSUME NEW i, NEW k, NEW t, NEW key, NEW noted \in Int, noted <= Len(marks),
                          Excused(fills, marks, i, k, t, key, noted)
                   PROVE  Excused(fills', marks, i, k, t, key, noted)
        BY <3>1
      <3>3. CASE \A m \in 1..noted : marks[m] # i
        BY <3>3, Zenon DEF Excused
      <3>4. CASE ~(\A m \in 1..noted : marks[m] # i)
        <4>1. PICK n \in 1..noted : /\ fills[marks[n]].kind = k /\ fills[marks[n]].tab = t
                                    /\ fills[marks[n]].key # key
                                    /\ \E m \in 1..n - 1 : marks[m] = i
          BY <3>4, Zenon DEF Excused
        <4>2. n \in 1..Len(marks)
          BY <2>9
        <4>3. fills'[marks[n]] = fills[marks[n]]
          BY <3>2, <4>2, Zenon
        <4>4. /\ fills'[marks[n]].kind = k /\ fills'[marks[n]].tab = t
              /\ fills'[marks[n]].key # key
              /\ \E m \in 1..n - 1 : marks[m] = i
          BY <4>1, <4>3, Zenon
        <4> QED BY <4>4, Zenon DEF Excused
      <3> QED BY <3>3, <3>4, Zenon
    <2>11. \A k, t, key : \A noted \in Int : noted <= Len(marks)
             => Excused(fills', marks', Len(fills) + 1, k, t, key, noted)
      BY <2>2, <2>5, <2>9 DEF Excused
    <2>12. FilledInv'
      <3>1. \A i \in DOMAIN fills' : fills'[i].stops <= stops'
        BY <2>2, <2>5, <2>7 DEF FilledInv, FillForm
      <3>2. ASSUME NEW m \in DOMAIN marks' PROVE
              /\ marks'[m] \in DOMAIN fills'
              /\ fills'[marks'[m]].stops = stops' =>
                 \/ filled'[fills'[marks'[m]].kind][fills'[marks'[m]].tab] = fills'[marks'[m]].key
                 \/ \E n \in DOMAIN marks' :
                      /\ n > m /\ fills'[marks'[n]].kind = fills'[marks'[m]].kind
                      /\ fills'[marks'[n]].tab = fills'[marks'[m]].tab
                      /\ fills'[marks'[n]].key # fills'[marks'[m]].key
        <4>1. \A n \in DOMAIN marks : fills'[marks[n]] = fills[marks[n]]
          BY <2>2, <2>9
        <4>2. marks[m] \in DOMAIN fills'
          BY <2>2, <2>5, <2>9, <3>2
        <4> QED BY <2>5, <3>2, <4>1, <4>2 DEF FilledInv
      <3> QED BY <3>1, <3>2 DEF FilledInv
    <2>13. FilledTwice'
      <3>1. \A j \in DOMAIN fills : fills[j].noted \in Int
        BY FillFacts DEF Fills
      <3>2. s.noted <= Len(marks)
            /\ \A i \in DOMAIN fills : fills[i].kind = s.kind /\ fills[i].tab = s.tab
                 /\ fills[i].key = s.key /\ fills[i].stops = stops
                 => Excused(fills, marks, i, s.kind, s.tab, s.key, s.noted)
        BY <1>1 DEF AskInv
      <3>3. ASSUME NEW j \in 1..Len(fills)
            PROVE  /\ fills'[j].noted <= Len(marks')
                   /\ \A i \in 1..j - 1 :
                        /\ fills'[i].kind = fills'[j].kind /\ fills'[i].tab = fills'[j].tab
                        /\ fills'[i].key = fills'[j].key /\ fills'[i].stops = fills'[j].stops
                        => Excused(fills', marks', i, fills'[j].kind, fills'[j].tab, fills'[j].key,
                                   fills'[j].noted)
        <4>1. fills'[j] = fills[j] /\ \A i \in 1..j - 1 : fills'[i] = fills[i]
          BY <2>2
        <4>2. fills[j].noted <= Len(marks) /\ fills[j].noted \in Int
          BY <2>2, <3>1 DEF FilledTwice
        <4>3. \A i \in 1..j - 1 :
                /\ fills[i].kind = fills[j].kind /\ fills[i].tab = fills[j].tab
                /\ fills[i].key = fills[j].key /\ fills[i].stops = fills[j].stops
                => Excused(fills, marks, i, fills[j].kind, fills[j].tab, fills[j].key, fills[j].noted)
          BY <2>2 DEF FilledTwice
        <4>4. \A i \in 1..j - 1 :
                Excused(fills, marks, i, fills[j].kind, fills[j].tab, fills[j].key, fills[j].noted)
                => Excused(fills', marks', i, fills'[j].kind, fills'[j].tab, fills'[j].key, fills'[j].noted)
          BY <2>10, <4>1, <4>2
        <4> QED BY <2>5, <4>1, <4>2, <4>3, <4>4
      <3>4. \A i \in 1..Len(fills) :
              /\ fills'[i].kind = new.kind /\ fills'[i].tab = new.tab
              /\ fills'[i].key = new.key /\ fills'[i].stops = new.stops
              => Excused(fills', marks', i, new.kind, new.tab, new.key, new.noted)
        BY <1>1, <2>2, <2>7, <2>10, <3>2
      <3>5. \A j \in 1..(Len(fills) + 1) : j \in 1..Len(fills) \/ j = Len(fills) + 1
        BY <2>2
      <3>6. \A i \in 1..(Len(fills) + 1) - 1 : i \in 1..Len(fills)
        BY <2>2
      <3>7. \A j \in DOMAIN fills' :
              /\ fills'[j].noted <= Len(marks')
              /\ \A i \in 1..j - 1 :
                   /\ fills'[i].kind = fills'[j].kind /\ fills'[i].tab = fills'[j].tab
                   /\ fills'[i].key = fills'[j].key /\ fills'[i].stops = fills'[j].stops
                   => Excused(fills', marks', i, fills'[j].kind, fills'[j].tab, fills'[j].key,
                              fills'[j].noted)
        <4>1. \A j \in 1..Len(fills) : fills'[j] = fills[j]
          BY <2>2
        <4> QED BY <2>2, <2>5, <2>7, <3>2, <3>3, <3>4, <3>5, <3>6, <4>1
      <3> QED BY <3>7 DEF FilledTwice
    <2>14. CredentialOnItsSite'
      <3>1. s.kind = "credential" => s.key[1] = page[s.tab] \/ loads > s.since
        <4>1. s.since <= loads /\ (s.site = page[s.tab] \/ s.since < loads)
              /\ (s.kind = "credential" => s.key[1] = s.site)
          BY <1>1 DEF AskInv
        <4> QED BY <1>1, <4>1 DEF FillForm
      <3>2. \A i \in DOMAIN fills' :
              fills'[i] = new \/ (i \in DOMAIN fills /\ fills'[i] = fills[i])
        BY <2>2
      <3> QED BY <2>7, <3>1, <3>2 DEF CredentialOnItsSite
    <2>15. AskInv'
      <3>1. \A b \in Attempts : attempts[b].at = "ask" => attempts[b].noted \in Int
        BY FillFacts DEF Asking
      <3>2. \A b \in Attempts : attempts'[b].at = "ask" => attempts'[b] = attempts[b]
        BY <2>6, <2>8
      <3>3. \A i \in DOMAIN fills' : (i \in DOMAIN fills /\ fills'[i] = fills[i]) \/ i = Len(fills) + 1
        BY <2>2
      <3> QED BY <2>5, <2>10, <2>11, <3>1, <3>2, <3>3 DEF AskInv
    <2>16. MarkingInv'
      <3>1. \A b \in Attempts : attempts'[b].at = "mark" =>
              attempts'[b] = attempts[b] \/ (b = a /\ attempts'[b] = z)
        BY <2>8
      <3>2. \A i \in DOMAIN fills : i \in DOMAIN fills' /\ fills'[i] = fills[i]
        BY <2>2
      <3>3. Len(fills) + 1 \in DOMAIN fills'
        BY <2>2
      <3>4. \A b \in Attempts : b # a => attempts'[b] = attempts[b]
        BY <2>8
      <3> QED BY <2>2, <2>6, <2>7, <2>8, <3>1, <3>2, <3>3, <3>4 DEF MarkingInv
    <2> QED BY <2>4, <2>12, <2>13, <2>14, <2>15, <2>16
  <1>6. Len(fills') = Len(fills) + 1 \/ fills' # Append(fills, new)
    <2>1. new \in Fills
      BY <1>1 DEF FillForm, Fills
    <2> QED BY <2>1 DEF FillForm
  <1> QED BY <1>4, <1>5, <1>6 DEF FillPage, Proceed

LEMMA FillKeeps ==
  ASSUME FillInv, InboxAssumption, FillAssumption, [FillNext]_<<inboxVars, fillVars>>
  PROVE  FillInv'
  <1>1. CASE UNCHANGED <<inboxVars, fillVars>>
    <2>1. FillForm'
      BY <1>1 DEF FillInv, FillForm, inboxVars, fillVars, browser, worker, vault, seen
    <2> QED BY <1>1, <2>1, FillAside DEF fillVars
  <1> QED BY <1>1, FillOutside, FillUnloaded, FillBrowses, FillBegins, FillAsks, FillFills, FillNotes
          DEF FillNext

\* Over every way its events, answers and restarts interleave, the extension fills
\* a key into a tab twice only with one of the three excuses, and a credential
\* only into a page of its site or after another page was loaded.
THEOREM FilledRight == FillSpec => []FillsRight
  <1>1. FillInv => FillsRight
    <2> SUFFICES ASSUME FillInv PROVE FilledOnce
      BY DEF FillsRight, FillInv
    <2>1. ASSUME NEW j \in DOMAIN fills, NEW i \in 1..j - 1,
                 fills[i].kind = fills[j].kind, fills[i].tab = fills[j].tab,
                 fills[i].key = fills[j].key, fills[i].stops = fills[j].stops
          PROVE  LET known == SubSeq(marks, 1, fills[j].noted)
                 IN \/ i \notin ToSet(known)
                    \/ \E n \in DOMAIN known :
                         /\ fills[known[n]].kind = fills[j].kind
                         /\ fills[known[n]].tab = fills[j].tab
                         /\ fills[known[n]].key # fills[j].key
                         /\ \E m \in 1..n - 1 : known[m] = i
      <3> DEFINE noted == fills[j].noted
                 known == SubSeq(marks, 1, noted)
      <3>1. noted <= Len(marks) /\ noted \in Nat
            /\ Excused(fills, marks, i, fills[j].kind, fills[j].tab, fills[j].key, noted)
        BY <2>1, FillFacts DEF FillInv, FilledTwice, Fills
      <3>2. DOMAIN known = 1..noted /\ \A m \in 1..noted : known[m] = marks[m]
        BY <3>1 DEF FillInv, FillForm
      <3> HIDE DEF known, noted
      <3>3. CASE \A m \in 1..noted : marks[m] # i
        <4>1. i \notin ToSet(known)
          BY <3>2, <3>3 DEF ToSet
        <4> QED BY <4>1 DEF known, noted
      <3>4. CASE \E n \in 1..noted : /\ fills[marks[n]].kind = fills[j].kind
                                     /\ fills[marks[n]].tab = fills[j].tab
                                     /\ fills[marks[n]].key # fills[j].key
                                     /\ \E m \in 1..n - 1 : marks[m] = i
        <4>1. PICK n \in 1..noted : /\ fills[marks[n]].kind = fills[j].kind
                                    /\ fills[marks[n]].tab = fills[j].tab
                                    /\ fills[marks[n]].key # fills[j].key
                                    /\ \E m \in 1..n - 1 : marks[m] = i
          BY <3>4
        <4>2. PICK m \in 1..n - 1 : marks[m] = i
          BY <4>1
        <4>3. m \in 1..noted /\ known[m] = i /\ known[n] = marks[n]
          BY <3>1, <3>2, <4>2
        <4>4. \E n1 \in DOMAIN known :
                         /\ fills[known[n1]].kind = fills[j].kind
                         /\ fills[known[n1]].tab = fills[j].tab
                         /\ fills[known[n1]].key # fills[j].key
                         /\ \E m1 \in 1..n1 - 1 : known[m1] = i
          BY <3>2, <4>1, <4>2, <4>3
        <4> QED BY <4>4 DEF known, noted
      <3>5. QED BY <3>1, <3>3, <3>4 DEF Excused, known, noted
    <2>2. ASSUME NEW j \in DOMAIN fills, NEW i \in 1..j - 1
          PROVE  LET Same(k) == fills[k].kind = fills[j].kind /\ fills[k].tab = fills[j].tab
                     known == SubSeq(marks, 1, fills[j].noted)
                 IN Same(i) /\ fills[i].key = fills[j].key /\ fills[i].stops = fills[j].stops =>
                      \/ i \notin ToSet(known)
                      \/ \E n \in DOMAIN known : /\ Same(known[n]) /\ fills[known[n]].key # fills[j].key
                                                 /\ \E m \in 1..n - 1 : known[m] = i
      BY <2>1
    <2> QED BY <2>2, Zenon DEF FilledOnce
  <1> QED BY <1>1, FillStarts, FillKeeps, InboxAssumption, FillAssumption, PTL DEF FillSpec

-----------------------------------------------------------------------------
(* The Android app.                                                         *)

Stages == {"take", "insert", "hello", "discover", "check", "post", "inbox", "broken"}
          \cup TrimSteps \cup {"size"}
Ends == ToSet(Guesses) \cup RelayBox \cup [host : Hosts \cup {"phone"}, service : {"ui", "relay"}]

\* Task x at another stage.
TaskOf(x, at, urls, chose, steady) ==
  [at |-> at, todo |-> x.todo, share |-> x.share, urls |-> urls, chose |-> chose, steady |-> steady]

IsTask(x) ==
  /\ x = TaskOf(x, x.at, x.urls, x.chose, x.steady)
  /\ x.at \in Stages /\ x.todo # <<>> /\ x.share \in BOOLEAN /\ x.steady \in BOOLEAN
  /\ x.todo \in Seq(IF x.share = TRUE THEN Items \ Messages ELSE Messages)
  /\ x.urls \in Seq(Ends) /\ (x.at = "insert" => x.share = FALSE)

Keeps == [Threads -> Seq(Messages)]

PhoneForm ==
  /\ now \in Nat /\ dates \in Seq(Nat) /\ Len(dates) <= Len(Runs) /\ troubles \in Nat
  /\ desktop = [host |-> desktop.host, up |-> desktop.up, urls |-> desktop.urls]
  /\ desktop.host \in Hosts /\ desktop.up \in BOOLEAN /\ desktop.urls \subseteq Ends
  /\ endpoint \in Ends
  /\ captured \in Seq(Messages) /\ keep \in Keeps /\ takes \in Seq(Nat)
  /\ stored \in [Items -> Nat] /\ codes \subseteq Messages /\ disorder \in BOOLEAN
  /\ threads = [t \in Threads |-> threads[t]]
  /\ \A t \in Threads : threads[t] = Idle \/ IsTask(threads[t])

LEMMA TaskBusy == \A x : IsTask(x) => x # Idle
  <1> SUFFICES ASSUME NEW x, IsTask(x) PROVE x # Idle
    OBVIOUS
  <1>1. x.at # "idle" /\ Idle.at = "idle"
    BY DEF IsTask, Stages, Idle, TrimSteps
  <1> QED BY <1>1

\* A task with its mark set.
LEMMA TaskSteady ==
  ASSUME NEW x, IsTask(x), NEW steady
  PROVE  [x EXCEPT !.steady = steady] = TaskOf(x, x.at, x.urls, x.chose, steady)
  <1>1. x = [at |-> x.at, todo |-> x.todo, share |-> x.share, urls |-> x.urls, chose |-> x.chose,
             steady |-> x.steady]
    BY DEF IsTask, TaskOf
  <1> QED BY <1>1 DEF TaskOf

\* A task that goes on with the same item.
LEMMA TaskGoesOn ==
  ASSUME NEW x, IsTask(x), NEW at \in Stages, NEW urls \in Seq(Ends), NEW chose,
         NEW steady \in BOOLEAN, at = "insert" => x.share = FALSE
  PROVE  /\ IsTask(TaskOf(x, at, urls, chose, steady))
         /\ [x EXCEPT !.at = at] = TaskOf(x, at, x.urls, x.chose, x.steady)
         /\ [x EXCEPT !.urls = urls] = TaskOf(x, x.at, urls, x.chose, x.steady)
         /\ [x EXCEPT !.steady = steady] = TaskOf(x, x.at, x.urls, x.chose, steady)
         /\ [x EXCEPT !.at = at, !.urls = urls] = TaskOf(x, at, urls, x.chose, x.steady)
         /\ [x EXCEPT !.at = at, !.chose = chose] = TaskOf(x, at, x.urls, chose, x.steady)
  <1>1. IsTask(TaskOf(x, at, urls, chose, steady))
    BY DEF IsTask, TaskOf
  <1>2. x = [at |-> x.at, todo |-> x.todo, share |-> x.share, urls |-> x.urls, chose |-> x.chose,
             steady |-> x.steady]
    BY DEF IsTask, TaskOf
  <1>3. [x EXCEPT !.at = at] = TaskOf(x, at, x.urls, x.chose, x.steady)
    BY <1>2 DEF TaskOf
  <1>4. [x EXCEPT !.urls = urls] = TaskOf(x, x.at, urls, x.chose, x.steady)
    BY <1>2 DEF TaskOf
  <1>5. [x EXCEPT !.steady = steady] = TaskOf(x, x.at, x.urls, x.chose, steady)
    BY <1>2 DEF TaskOf
  <1>6. PICK z : z = [x EXCEPT !.at = at]
    OBVIOUS
  <1>7. z = [at |-> at, todo |-> x.todo, share |-> x.share, urls |-> x.urls, chose |-> x.chose,
             steady |-> x.steady]
    BY <1>3, <1>6 DEF TaskOf
  <1>8. [x EXCEPT !.at = at, !.urls = urls] = [z EXCEPT !.urls = urls]
    BY <1>2, <1>6
  <1>9. [x EXCEPT !.at = at, !.chose = chose] = [z EXCEPT !.chose = chose]
    BY <1>2, <1>6
  <1>10. [z EXCEPT !.urls = urls] = TaskOf(x, at, urls, x.chose, x.steady)
    BY <1>7 DEF TaskOf
  <1>11. [z EXCEPT !.chose = chose] = TaskOf(x, at, x.urls, chose, x.steady)
    BY <1>7 DEF TaskOf
  <1> QED BY <1>1, <1>3, <1>4, <1>5, <1>8, <1>9, <1>10, <1>11

LEMMA NewTask ==
  ASSUME NEW share \in BOOLEAN, NEW steady \in BOOLEAN, NEW todo, todo # <<>>,
         todo \in Seq(IF share = TRUE THEN Items \ Messages ELSE Messages)
  PROVE  LET x == Task(todo, share)
         IN /\ IsTask([x EXCEPT !.steady = steady]) /\ IsTask(x)
            /\ [x EXCEPT !.steady = steady] =
                 [at |-> "take", todo |-> todo, share |-> share, urls |-> <<>>, chose |-> "none",
                  steady |-> steady]
  <1> DEFINE x == Task(todo, share)
  <1>1. <<>> \in Seq(Ends)
    OBVIOUS
  <1>2. IsTask(x) /\ x.todo = todo /\ x.share = share
    BY <1>1 DEF Task, IsTask, TaskOf, Stages
  <1>3. [x EXCEPT !.steady = steady] =
          [at |-> "take", todo |-> todo, share |-> share, urls |-> <<>>, chose |-> "none",
           steady |-> steady]
    BY DEF Task
  <1>4. IsTask([x EXCEPT !.steady = steady])
    BY <1>1, <1>3 DEF IsTask, TaskOf, Stages
  <1> QED BY <1>2, <1>3, <1>4

\* A thread that has done with an item: it goes on to the next one, or ends.
Followed(x, y) ==
  \/ y = Idle
  \/ /\ IsTask(y) /\ y.at = "take" /\ y.todo = Tail(x.todo) /\ y.share = x.share
     /\ y.chose = "none" /\ Tail(x.todo) # <<>>

\* Thread t has got task y, the others keep theirs.
Moved(t, y) ==
  /\ threads' = [threads EXCEPT ![t] = y] /\ threads'[t] = y
  /\ \A u \in Threads \ {t} : threads'[u] = threads[u]
  /\ threads' = [u \in Threads |-> threads'[u]]

LEMMA SetMoves ==
  ASSUME PhoneForm, NEW t \in Threads, NEW y, threads' = [threads EXCEPT ![t] = y]
  PROVE  /\ Moved(t, y)
         /\ (y = Idle \/ IsTask(y)) => \A u \in Threads : threads'[u] = Idle \/ IsTask(threads'[u])
  BY DEF PhoneForm, Moved

LEMMA BusyTask ==
  ASSUME PhoneForm, NEW t \in Threads, Busy(t)
  PROVE  /\ IsTask(threads[t]) /\ Item(t) \in Items
         /\ Item(t) \in IF threads[t].share = TRUE THEN Items \ Messages ELSE Messages
  <1>1. IsTask(threads[t])
    BY DEF PhoneForm, Busy
  <1>2. \A S : \A q \in Seq(S) : q # <<>> => Head(q) \in S
    OBVIOUS
  <1> QED BY <1>1, <1>2 DEF IsTask, Item, Items

LEMMA OnwardMoves ==
  ASSUME PhoneForm, NEW t \in Threads, Busy(t), Onward(t)
  PROVE  \E y : /\ Moved(t, y) /\ Followed(threads[t], y)
                /\ \A u \in Threads : threads'[u] = Idle \/ IsTask(threads'[u])
  <1> DEFINE x == threads[t]
             rest == Task(Tail(x.todo), x.share)
             y == IF rest.todo = <<>> THEN Idle ELSE [rest EXCEPT !.steady = x.steady]
  <1>1. threads' = [threads EXCEPT ![t] = y]
    BY DEF Onward
  <1>2. rest.todo = Tail(x.todo)
    BY DEF Task
  <1>3. IsTask(x)
    BY BusyTask
  <1>4. CASE Tail(x.todo) = <<>>
    <2>1. y = Idle
      BY <1>2, <1>4
    <2> QED BY <1>1, <2>1, SetMoves DEF Followed
  <1>5. CASE Tail(x.todo) # <<>>
    <2> DEFINE S == IF x.share = TRUE THEN Items \ Messages ELSE Messages
               z == [rest EXCEPT !.steady = x.steady]
    <2>1. x.todo \in Seq(S) /\ x.todo # <<>> /\ x.share \in BOOLEAN /\ x.steady \in BOOLEAN
      BY <1>3 DEF IsTask
    <2>2. Tail(x.todo) \in Seq(S)
      <3> HIDE DEF S
      <3> QED BY <2>1
    <2>3. y = z
      BY <1>2, <1>5
    <2>4. IsTask(z) /\ z = [at |-> "take", todo |-> Tail(x.todo), share |-> x.share, urls |-> <<>>,
                            chose |-> "none", steady |-> x.steady]
      BY <1>5, <2>1, <2>2, NewTask
    <2>5. Followed(x, z)
      <3> HIDE DEF z
      <3> QED BY <1>5, <2>4 DEF Followed
    <2> QED BY <1>1, <2>3, <2>4, <2>5, SetMoves
  <1> QED BY <1>4, <1>5

\* Behind a text message the thread looks at the size of the set of rows.
DoneWith(x, y) ==
  \/ Followed(x, y)
  \/ /\ IsTask(y) /\ y.at = "size" /\ y.todo = x.todo /\ y.share = x.share
     /\ y.chose = x.chose /\ y.steady = x.steady

LEMMA DoneMoves ==
  ASSUME PhoneForm, NEW t \in Threads, Busy(t), Done(t)
  PROVE  \E y : Moved(t, y) /\ DoneWith(threads[t], y)
  <1> DEFINE x == threads[t]
             y == TaskOf(x, "size", x.urls, x.chose, x.steady)
  <1>1. CASE Onward(t)
    BY <1>1, OnwardMoves DEF DoneWith
  <1>2. CASE Set(t, [x EXCEPT !.at = "size"])
    <2>1. IsTask(x) /\ x.urls \in Seq(Ends) /\ x.steady \in BOOLEAN
      BY BusyTask DEF IsTask
    <2>2. "size" \in Stages /\ "size" # "insert"
      BY DEF Stages
    <2>3. [x EXCEPT !.at = "size"] = y /\ IsTask(y)
      BY <2>1, <2>2, TaskGoesOn
    <2>4. y.at = "size" /\ y.todo = x.todo /\ y.share = x.share /\ y.chose = x.chose /\ y.steady = x.steady
      BY DEF TaskOf
    <2> HIDE DEF y
    <2>5. Moved(t, y)
      BY <1>2, <2>3, SetMoves DEF Set
    <2> QED BY <2>3, <2>4, <2>5 DEF DoneWith
  <1> QED BY <1>1, <1>2 DEF Done

LEMMA UnsteadyForm ==
  ASSUME PhoneForm
  PROVE  /\ Unsteady = [t \in Threads |-> Unsteady[t]]
         /\ \A t \in Threads :
              /\ threads[t] = Idle => Unsteady[t] = Idle
              /\ threads[t] # Idle =>
                   /\ Unsteady[t] = TaskOf(threads[t], threads[t].at, threads[t].urls,
                                           threads[t].chose, FALSE)
                   /\ IsTask(threads[t]) /\ IsTask(Unsteady[t])
  <1>1. Unsteady = [t \in Threads |-> Unsteady[t]]
    BY DEF Unsteady
  <1>2. ASSUME NEW t \in Threads, threads[t] # Idle
        PROVE  /\ Unsteady[t] = TaskOf(threads[t], threads[t].at, threads[t].urls,
                                       threads[t].chose, FALSE)
               /\ IsTask(threads[t]) /\ IsTask(Unsteady[t])
    <2> DEFINE x == threads[t]
    <2>1. IsTask(x)
      BY <1>2 DEF PhoneForm
    <2>2. x.at \in Stages /\ x.urls \in Seq(Ends) /\ (x.at = "insert" => x.share = FALSE)
      BY <2>1 DEF IsTask
    <2>3. [x EXCEPT !.steady = FALSE] = TaskOf(x, x.at, x.urls, x.chose, FALSE)
          /\ IsTask(TaskOf(x, x.at, x.urls, x.chose, FALSE))
      BY <2>1, <2>2, TaskGoesOn
    <2>4. Unsteady[t] = [x EXCEPT !.steady = FALSE]
      BY <1>2 DEF Unsteady, Busy
    <2> QED BY <2>1, <2>3, <2>4
  <1>3. \A t \in Threads : threads[t] = Idle => Unsteady[t] = Idle
    BY DEF Unsteady, Busy
  <1> QED BY <1>1, <1>2, <1>3

-----------------------------------------------------------------------------
(* What a step may do to the items in the threads' hands.                   *)

Sending == {"hello", "discover", "check", "post"}
Carrying == Sending \cup {"inbox", "broken"}

SameItem(x, y) ==
  \/ x = Idle /\ y = Idle
  \/ /\ IsTask(x) /\ IsTask(y) /\ y.todo = x.todo /\ y.share = x.share
     /\ y.at = "inbox" => x.at = "inbox"
     /\ x.at = y.at \/ (x.at \notin TrimSteps /\ y.at \notin TrimSteps)
     /\ \/ x.share = TRUE
        \/ (x.at \in Carrying <=> y.at \in Carrying) /\ (x.at \in Sending <=> y.at \in Sending)

\* No item changes hands.
Quiet ==
  /\ \A u \in Threads : SameItem(threads[u], threads'[u])
  /\ UNCHANGED <<captured, keep, stored, lost, takes, raced, disorder>>
  /\ UNCHANGED <<latest, codes>> \/ (latest' = NoCode /\ codes' = {})

Others(t) == \A u \in Threads \ {t} : threads'[u] = threads[u]

\* A thread has done with an item: left out, stored, shared, or given up.
Leaves(t) ==
  /\ Busy(t) /\ DoneWith(threads[t], threads'[t]) /\ Others(t)
  /\ UNCHANGED <<captured, keep, stored, takes, raced, disorder>> /\ lost \subseteq lost'
  /\ \/ threads[t].share = TRUE
     \/ threads[t].at \in {"take", "inbox"}
     \/ \E l \in lost' : l.item = Item(t)
  /\ threads[t].at \notin TrimSteps \cup {"insert", "size"}
  /\ \/ UNCHANGED <<latest, codes>>
     \/ /\ threads[t].at = "inbox" /\ threads[t].share = FALSE
        /\ latest'.row = Item(t) /\ codes' = codes \cup {Item(t)}

Begins(t) ==
  /\ threads[t] = Idle /\ IsTask(threads'[t]) /\ threads'[t].at = "take" /\ Others(t)
  /\ UNCHANGED <<latest, captured, keep, stored, lost, takes, raced, codes>>
  /\ disorder' = FALSE =>
       /\ disorder = FALSE
       /\ threads'[t].share = FALSE =>
            /\ Len(threads'[t].todo) <= 1 /\ \A row \in codes : row <= Head(threads'[t].todo)
            /\ \A u \in Threads : threads[u] # Idle => threads[u].share = TRUE

Inserts(t) ==
  /\ Busy(t) /\ threads[t].at = "insert" /\ threads[t].share = FALSE
  /\ IsTask(threads'[t]) /\ threads'[t].at = "hello" /\ threads'[t].share = FALSE
  /\ threads'[t].todo = threads[t].todo /\ Others(t)
  /\ captured' = IF Item(t) \in ToSet(captured) THEN captured ELSE Append(captured, Item(t))
  /\ takes' = IF Overlaps(t) THEN takes \o <<0, Item(t), 0>> ELSE Append(takes, Item(t))
  /\ raced' = IF Item(t) \in ToSet(captured) THEN raced \cup {Item(t)} ELSE raced
  /\ UNCHANGED <<latest, keep, stored, lost, disorder, codes>>

Stores(t) ==
  /\ Busy(t) /\ threads[t].at = "post"
  /\ IsTask(threads'[t]) /\ threads'[t].at = "inbox" /\ threads'[t].share = threads[t].share
  /\ threads'[t].todo = threads[t].todo /\ Others(t)
  /\ stored' = [stored EXCEPT ![Item(t)] = @ + 1]
  /\ UNCHANGED <<latest, captured, keep, lost, takes, raced, disorder, codes>>

\* Thread t trims the set of rows.
Stays(t, at) ==
  /\ IsTask(threads'[t]) /\ threads'[t].at = at
  /\ threads'[t].todo = threads[t].todo /\ threads'[t].share = threads[t].share
Trims(t) ==
  /\ Busy(t) /\ Others(t) /\ UNCHANGED <<latest, stored, lost, raced, disorder, codes>>
  /\ \/ /\ threads[t].at = "size" /\ UNCHANGED <<captured, keep, takes>>
        /\ Followed(threads[t], threads'[t]) \/ Stays(t, "list")
     \/ /\ threads[t].at = "list" /\ Stays(t, "clear") /\ Uses(t)
        /\ keep' = [keep EXCEPT ![t] = Newest(captured)] /\ UNCHANGED captured
     \/ /\ threads[t].at = "clear" /\ Stays(t, "readd") /\ Uses(t)
        /\ captured' = <<>> /\ UNCHANGED keep
     \/ /\ threads[t].at = "readd" /\ Uses(t)
        /\ \/ Len(keep[t]) <= 1 /\ Followed(threads[t], threads'[t])
           \/ ~(Len(keep[t]) <= 1) /\ Stays(t, "readd")
        /\ captured' = IF keep[t] = <<>> \/ Head(keep[t]) \in ToSet(captured) THEN captured
                       ELSE Append(captured, Head(keep[t]))
        /\ keep' = [keep EXCEPT ![t] = SubSeq(keep[t], 2, Len(keep[t]))]

Restarts ==
  /\ keep' = [u \in Threads |-> <<>>]
  /\ captured' = <<>> /\ takes' = Append(takes, 0) /\ disorder' = TRUE /\ lost \subseteq lost'
  /\ \A u \in Threads : threads'[u] # Idle => IsTask(threads'[u]) /\ threads'[u].at = "take"
  /\ UNCHANGED <<latest, stored, raced, codes>>

PhoneShape ==
  \/ Quiet \/ Restarts
  \/ \E t \in Threads : Leaves(t) \/ Begins(t) \/ Inserts(t) \/ Stores(t) \/ Trims(t)

\* Only when the desktop was down or moved, a call failed, or a relay was saved is
\* a message given up; discovery connects to a relay only without the desktop.
SteadyTask(x, host, up, answer) ==
  x # Idle =>
    /\ x.at = "broken" => x.steady = FALSE
    /\ x.steady = TRUE /\ up = TRUE =>
         /\ x.chose # "relay"
         /\ x.at = "check" => x.urls # <<>> /\ Head(x.urls) = Endpoint(host, "ui")
         /\ x.at = "post" => answer # "none"
SteadyInv ==
  /\ \A t \in Threads : SteadyTask(threads[t], desktop.host, desktop.up, Answers(endpoint))
  /\ \A l \in lost : l.why \notin {"none", "desktop"}

PhoneOk == PhoneForm /\ SteadyInv

LEMMA UnsteadyFits ==
  ASSUME PhoneForm, NEW t \in Threads
  PROVE  /\ SameItem(threads[t], Unsteady[t])
         /\ SteadyInv => \A host, up, answer : SteadyTask(Unsteady[t], host, up, answer)
  <1>1. CASE threads[t] = Idle
    BY <1>1, UnsteadyForm DEF SameItem, SteadyTask
  <1>2. CASE threads[t] # Idle
    <2>1. /\ Unsteady[t] = TaskOf(threads[t], threads[t].at, threads[t].urls, threads[t].chose, FALSE)
          /\ IsTask(threads[t]) /\ IsTask(Unsteady[t])
      BY <1>2, UnsteadyForm
    <2>2. /\ Unsteady[t].at = threads[t].at /\ Unsteady[t].todo = threads[t].todo
          /\ Unsteady[t].share = threads[t].share /\ Unsteady[t].steady = FALSE
      BY <2>1 DEF TaskOf
    <2>3. SameItem(threads[t], Unsteady[t])
      BY <2>1, <2>2 DEF SameItem
    <2>4. \A host, up, answer : SteadyTask(Unsteady[t], host, up, answer)
      BY <2>2 DEF SteadyTask
    <2> QED BY <2>3, <2>4
  <1> QED BY <1>1, <1>2

LEMMA AllUnsteady ==
  ASSUME PhoneOk, threads' = Unsteady, UNCHANGED <<now, dates, captured, keep, stored, takes, codes, disorder>>,
         UNCHANGED lost, troubles' \in Nat, endpoint' \in Ends,
         desktop' = [host |-> desktop'.host, up |-> desktop'.up, urls |-> desktop'.urls],
         desktop'.host \in Hosts, desktop'.up \in BOOLEAN, desktop'.urls \subseteq Ends
  PROVE  PhoneOk' /\ \A u \in Threads : SameItem(threads[u], threads'[u])
  <1> USE DEF PhoneOk
  <1>1. PhoneForm'
    BY UnsteadyForm DEF PhoneForm
  <1>2. SteadyInv'
    BY UnsteadyFits DEF SteadyInv
  <1> QED BY <1>1, <1>2, UnsteadyFits

LEMMA StepMove ==
  ASSUME PhoneOk, NEW h \in Hosts, Move(h)
  PROVE  PhoneOk' /\ PhoneShape
  <1>1. /\ desktop' = [host |-> h, up |-> desktop.up, urls |-> desktop.urls]
        /\ threads' = Unsteady /\ troubles' \in Nat /\ endpoint' \in Ends
        /\ UNCHANGED <<now, latest, dates, captured, keep, stored, lost, takes, raced, codes, disorder>>
    <2>1. /\ desktop = [host |-> desktop.host, up |-> desktop.up, urls |-> desktop.urls]
          /\ troubles \in Nat /\ endpoint \in Ends
      BY DEF PhoneOk, PhoneForm
    <2>2. desktop' = [desktop EXCEPT !.host = h] /\ threads' = Unsteady /\ troubles' = troubles + 1
      BY DEF Move, Trouble
    <2>3. desktop' = [host |-> h, up |-> desktop.up, urls |-> desktop.urls]
      BY <2>1, <2>2
    <2>4. UNCHANGED <<inboxVars, dates, endpoint, captured, keep, past>>
      BY DEF Move, memory
    <2>5. UNCHANGED <<now, latest, dates, endpoint, captured, keep, stored, lost, takes, raced, codes, disorder>>
      BY <2>4 DEF inboxVars, past, memory
    <2>6. troubles' \in Nat
      BY <2>1, <2>2
    <2> QED BY <2>1, <2>2, <2>3, <2>5, <2>6
  <1>2. /\ desktop'.host \in Hosts /\ desktop'.up \in BOOLEAN /\ desktop'.urls \subseteq Ends
        /\ desktop' = [host |-> desktop'.host, up |-> desktop'.up, urls |-> desktop'.urls]
    BY <1>1 DEF PhoneOk, PhoneForm
  <1>3. PhoneOk' /\ \A u \in Threads : SameItem(threads[u], threads'[u])
    BY <1>1, <1>2, AllUnsteady
  <1> QED BY <1>1, <1>3 DEF PhoneShape, Quiet

LEMMA EndsFacts ==
  /\ Unset \in Ends
  /\ \A h \in Hosts : Endpoint(h, "ui") \in Ends /\ Endpoint(h, "relay") \in Ends
  /\ \A h \in Hosts : ConnectUrls(h) \subseteq Ends
  BY DEF Ends, Unset, Endpoint, ConnectUrls

LEMMA DesktopLists ==
  ASSUME NEW z, NEW urls, z = [host |-> z.host, up |-> z.up, urls |-> z.urls], z.up = TRUE
  PROVE  [z EXCEPT !.urls = urls] = [host |-> z.host, up |-> TRUE, urls |-> urls]
  <1>1. [z EXCEPT !.urls = urls] = [host |-> z.host, up |-> z.up, urls |-> urls]
    OBVIOUS
  <1> QED BY <1>1

LEMMA StepStart ==
  ASSUME PhoneOk, Start
  PROVE  PhoneOk' /\ PhoneShape
  <1>1. [desktop EXCEPT !.up = TRUE, !.urls = ConnectUrls(desktop.host)]
          = [host |-> desktop.host, up |-> TRUE, urls |-> ConnectUrls(desktop.host)]
    <2>1. desktop = [host |-> desktop.host, up |-> desktop.up, urls |-> desktop.urls]
      BY DEF PhoneOk, PhoneForm
    <2>2. PICK z : z = [desktop EXCEPT !.up = TRUE]
      OBVIOUS
    <2>3. z = [host |-> desktop.host, up |-> TRUE, urls |-> desktop.urls]
      BY <2>1, <2>2
    <2>4. [desktop EXCEPT !.up = TRUE, !.urls = ConnectUrls(desktop.host)]
            = [z EXCEPT !.urls = ConnectUrls(desktop.host)]
      BY <2>1, <2>2
    <2>5. z.host = desktop.host /\ z.up = TRUE /\ z = [host |-> z.host, up |-> z.up, urls |-> z.urls]
      BY <2>3
    <2>6. [z EXCEPT !.urls = ConnectUrls(desktop.host)]
            = [host |-> z.host, up |-> TRUE, urls |-> ConnectUrls(desktop.host)]
      BY <2>5, DesktopLists
    <2> QED BY <2>4, <2>5, <2>6
  <1>2. /\ desktop' = [host |-> desktop.host, up |-> TRUE, urls |-> ConnectUrls(desktop.host)]
        /\ threads' = Unsteady /\ troubles' \in Nat /\ endpoint' \in Ends
        /\ UNCHANGED <<now, latest, dates, captured, keep, stored, lost, takes, raced, codes, disorder>>
    BY <1>1 DEF Start, PhoneOk, PhoneForm, inboxVars, past, tally, memory
  <1>3. /\ desktop'.host \in Hosts /\ desktop'.up \in BOOLEAN /\ desktop'.urls \subseteq Ends
        /\ desktop' = [host |-> desktop'.host, up |-> desktop'.up, urls |-> desktop'.urls]
    BY <1>2, EndsFacts DEF PhoneOk, PhoneForm
  <1>4. PhoneOk' /\ \A u \in Threads : SameItem(threads[u], threads'[u])
    BY <1>2, <1>3, AllUnsteady
  <1> QED BY <1>2, <1>4 DEF PhoneShape, Quiet

LEMMA StepSaveAndCheck ==
  ASSUME PhoneOk, NEW url \in desktop.urls, SaveAndCheck(url)
  PROVE  PhoneOk' /\ PhoneShape
  <1>1. /\ UNCHANGED desktop /\ threads' = Unsteady /\ troubles' \in Nat /\ endpoint' \in Ends
        /\ UNCHANGED <<now, latest, dates, captured, keep, stored, lost, takes, raced, codes, disorder>>
    BY DEF SaveAndCheck, Trouble, PhoneOk, PhoneForm, inboxVars, past, world, memory
  <1>2. PhoneOk' /\ \A u \in Threads : SameItem(threads[u], threads'[u])
    <2>1. /\ desktop'.host \in Hosts /\ desktop'.up \in BOOLEAN /\ desktop'.urls \subseteq Ends
          /\ desktop' = [host |-> desktop'.host, up |-> desktop'.up, urls |-> desktop'.urls]
      BY <1>1 DEF PhoneOk, PhoneForm
    <2> QED BY <1>1, <2>1, AllUnsteady
  <1> QED BY <1>1, <1>2 DEF PhoneShape, Quiet

LEMMA StepReceive ==
  ASSUME PhoneOk, Receive \/ (InboxTick /\ UNCHANGED phoneVars) \/ UNCHANGED <<inboxVars, phoneVars>>,
         InboxAssumption
  PROVE  PhoneOk' /\ PhoneShape
  <1>1. /\ UNCHANGED <<desktop, endpoint, captured, keep, threads, stored, lost, takes, raced, disorder, codes>>
        /\ UNCHANGED <<latest, troubles>>
    BY DEF Receive, InboxTick, phoneVars, inboxVars, world, tally, past, memory
  <1>2. now' \in Nat /\ dates' \in Seq(Nat) /\ Len(dates') <= Len(Runs)
    <2>1. CASE Receive
      BY <2>1, InboxAssumption DEF Receive, PhoneOk, PhoneForm, inboxVars, memory
    <2>2. CASE InboxTick /\ UNCHANGED phoneVars
      BY <2>2 DEF InboxTick, phoneVars, world, PhoneOk, PhoneForm, memory
    <2>3. CASE UNCHANGED <<inboxVars, phoneVars>>
      BY <2>3 DEF inboxVars, phoneVars, world, PhoneOk, PhoneForm, memory
    <2> QED BY <2>1, <2>2, <2>3
  <1>3. PhoneForm'
    BY <1>1, <1>2 DEF PhoneOk, PhoneForm
  <1>4. SteadyInv'
    BY <1>1 DEF PhoneOk, SteadyInv, Answers
  <1>5. \A u \in Threads : SameItem(threads[u], threads'[u])
    BY <1>1 DEF PhoneOk, PhoneForm, SameItem
  <1> QED BY <1>1, <1>3, <1>4, <1>5 DEF PhoneOk, PhoneShape, Quiet

-----------------------------------------------------------------------------
(* The steps of one thread.                                                 *)

\* A step of thread t that leaves the desktop alone.
LEMMA ThreadForm ==
  ASSUME PhoneOk, NEW t \in Threads, NEW y, Moved(t, y), y = Idle \/ IsTask(y),
         UNCHANGED <<now, dates, desktop>>, troubles' \in Nat, endpoint' \in Ends,
         captured' \in Seq(Messages), keep' \in Keeps, takes' \in Seq(Nat), stored' \in [Items -> Nat],
         codes' \subseteq Messages, disorder' \in BOOLEAN,
         SteadyTask(y, desktop.host, desktop.up, Answers(endpoint)'),
         \A l \in lost' : l \in lost \/ l.why \notin {"none", "desktop"},
         endpoint' = endpoint \/ Answers(endpoint)' # "none"
  PROVE  PhoneOk'
  <1> USE DEF PhoneOk
  <1>1. PhoneForm'
    BY DEF PhoneForm, Moved
  <1>2. \A u \in Threads : SteadyTask(threads'[u], desktop.host, desktop.up, Answers(endpoint)')
    <2>1. ASSUME NEW u \in Threads \ {t}
          PROVE  SteadyTask(threads[u], desktop.host, desktop.up, Answers(endpoint)')
      <3>1. CASE Answers(endpoint)' # "none"
        BY <3>1 DEF SteadyInv, SteadyTask
      <3>2. CASE endpoint' = endpoint
        BY <3>2 DEF SteadyInv, Answers
      <3> QED BY <3>1, <3>2
    <2> QED BY <2>1 DEF Moved
  <1>3. SteadyInv'
    BY <1>2 DEF SteadyInv
  <1> QED BY <1>1, <1>3

LEMMA SameThread ==
  ASSUME PhoneForm, NEW t \in Threads, NEW y, Moved(t, y), SameItem(threads[t], y)
  PROVE  \A u \in Threads : SameItem(threads[u], threads'[u])
  <1>1. \A u \in Threads : SameItem(threads[u], threads[u])
    BY DEF PhoneForm, SameItem
  <1> QED BY <1>1 DEF Moved

LEMMA StepTake ==
  ASSUME PhoneOk, NEW t \in Threads, Take(t)
  PROVE  PhoneOk' /\ PhoneShape
  <1> USE DEF PhoneOk
  <1> DEFINE x == threads[t]
  <1>1. /\ Busy(t) /\ x.at = "take"
        /\ UNCHANGED <<now, latest, desktop, dates, endpoint, captured, keep, troubles, stored, lost, takes,
                       raced, disorder, codes>>
    BY DEF Take, At, inboxVars, world, tally, past, memory
  <1>2. /\ IsTask(x) /\ x.share \in BOOLEAN /\ x.urls \in Seq(Ends) /\ x.steady \in BOOLEAN
        /\ SteadyTask(x, desktop.host, desktop.up, Answers(endpoint))
    BY <1>1, BusyTask DEF IsTask, SteadyInv
  <1>3. Answers(endpoint)' = Answers(endpoint)
    BY <1>1 DEF Answers
  <1>4. \A l \in lost' : l \in lost
    BY <1>1
  <1>5. /\ captured' \in Seq(Messages) /\ keep' \in Keeps /\ takes' \in Seq(Nat) /\ stored' \in [Items -> Nat]
        /\ codes' \subseteq Messages /\ disorder' \in BOOLEAN /\ troubles' \in Nat /\ endpoint' \in Ends
    BY <1>1 DEF PhoneForm
  <1>6. ASSUME NEW at \in {"hello", "insert"}, Set(t, [x EXCEPT !.at = at]),
               at = "hello" <=> x.share = TRUE
        PROVE  PhoneOk' /\ PhoneShape
    <2> DEFINE y == TaskOf(x, at, x.urls, x.chose, x.steady)
    <2>1. at \in Stages /\ (at = "insert" => x.share = FALSE)
      BY <1>2, <1>6 DEF Stages
    <2>2. [x EXCEPT !.at = at] = y
      BY <1>2, <2>1, TaskGoesOn
    <2>3. /\ IsTask(y) /\ y.at = at /\ y.urls = x.urls /\ y.chose = x.chose /\ y.steady = x.steady
          /\ y.todo = x.todo /\ y.share = x.share
      BY <1>2, <2>1, TaskGoesOn DEF TaskOf
    <2> HIDE DEF y
    <2>4. Moved(t, y)
      BY <1>6, <2>2, SetMoves DEF Set
    <2>5. SteadyTask(y, desktop.host, desktop.up, Answers(endpoint)')
      BY <1>1, <1>2, <1>3, <2>3, TaskBusy DEF SteadyTask, Busy
    <2>6. PhoneOk'
      BY <1>1, <1>4, <1>5, <2>3, <2>4, <2>5, ThreadForm
    <2>7. SameItem(x, y)
      BY <1>1, <1>2, <1>6, <2>3 DEF SameItem, Carrying, Sending, TrimSteps
    <2>8. Quiet
      BY <1>1, <2>4, <2>7, SameThread DEF Quiet
    <2> QED BY <2>6, <2>8 DEF PhoneShape
  <1>7. CASE Onward(t)
    <2>1. PICK y : /\ Moved(t, y) /\ Followed(x, y)
                   /\ \A u \in Threads : threads'[u] = Idle \/ IsTask(threads'[u])
      BY <1>1, <1>7, OnwardMoves
    <2>2. y = Idle \/ IsTask(y)
      BY <2>1 DEF Followed
    <2>3. SteadyTask(y, desktop.host, desktop.up, Answers(endpoint)')
      BY <2>1 DEF SteadyTask, Followed
    <2>4. PhoneOk'
      BY <1>1, <1>4, <1>5, <2>1, <2>2, <2>3, ThreadForm
    <2>5. Leaves(t)
      BY <1>1, <2>1 DEF Leaves, Moved, Others, DoneWith, TrimSteps
    <2> QED BY <2>4, <2>5 DEF PhoneShape
  <1>8. \/ x.share = TRUE /\ Set(t, [x EXCEPT !.at = "hello"])
        \/ Onward(t)
        \/ x.share = FALSE /\ Set(t, [x EXCEPT !.at = "insert"])
    BY <1>2 DEF Take
  <1> QED BY <1>6, <1>7, <1>8

\* Thread t goes on with its item: at another stage, steady unless something failed.
Goes(t, y, at, urls, chose) ==
  /\ Moved(t, y) /\ IsTask(y) /\ y.at = at /\ y.urls = urls /\ y.chose = chose
  /\ y.todo = threads[t].todo /\ y.share = threads[t].share
  /\ y.steady = TRUE => threads[t].steady = TRUE

LEMMA GoGoes ==
  ASSUME PhoneForm, NEW t \in Threads, Busy(t), NEW at \in Stages, NEW urls \in Seq(Ends), NEW chose,
         at = "insert" => threads[t].share = FALSE,
         NEW z, z = TaskOf(threads[t], at, urls, chose, threads[t].steady)
  PROVE  /\ Set(t, z) => \E y : Goes(t, y, at, urls, chose)
         /\ Go(t, z) => \E y : /\ Goes(t, y, at, urls, chose)
                               /\ y.steady = TRUE => troubles' = troubles
  <1> DEFINE x == threads[t]
  <1>1. IsTask(x) /\ x.steady \in BOOLEAN
    BY BusyTask DEF IsTask
  <1>2. /\ IsTask(z) /\ z.at = at /\ z.urls = urls /\ z.chose = chose /\ z.steady = x.steady
        /\ z.todo = x.todo /\ z.share = x.share
    BY <1>1, TaskGoesOn DEF TaskOf
  <1>3. ASSUME Set(t, z) PROVE Goes(t, z, at, urls, chose)
    BY <1>2, <1>3, SetMoves DEF Set, Goes
  <1>4. ASSUME Go(t, z) PROVE \E y : /\ Goes(t, y, at, urls, chose)
                                     /\ y.steady = TRUE => troubles' = troubles
    <2>1. PICK steady \in BOOLEAN : steady = (z.steady /\ troubles' = troubles)
      BY <1>1, <1>2
    <2>2. Set(t, [z EXCEPT !.steady = steady])
      BY <1>4, <2>1 DEF Go
    <2>3. z.urls \in Seq(Ends) /\ z.at \in Stages /\ (z.at = "insert" => z.share = FALSE)
      BY <1>2
    <2> DEFINE y == TaskOf(z, z.at, z.urls, z.chose, steady)
    <2>4. IsTask(y) /\ [z EXCEPT !.steady = steady] = y
      <3>1. IsTask(z) /\ z.at \in Stages /\ z.urls \in Seq(Ends) /\ (z.at = "insert" => z.share = FALSE)
        BY <1>2, <2>3
      <3>2. IsTask(y)
        BY <3>1, TaskGoesOn, Zenon
      <3>3. [z EXCEPT !.steady = steady] = y
        BY <3>1, TaskSteady, Zenon
      <3> QED BY <3>2, <3>3
    <2>5. /\ y.at = at /\ y.urls = urls /\ y.chose = chose /\ y.steady = steady
          /\ y.todo = x.todo /\ y.share = x.share
      BY <1>2 DEF TaskOf
    <2> HIDE DEF y
    <2>6. Moved(t, y)
      BY <2>2, <2>4, SetMoves DEF Set
    <2>7. steady = TRUE => x.steady = TRUE /\ troubles' = troubles
      BY <1>1, <1>2, <2>1
    <2>8. Goes(t, y, at, urls, chose)
      BY <2>4, <2>5, <2>6, <2>7 DEF Goes
    <2> QED BY <2>5, <2>7, <2>8
  <1> QED BY <1>3, <1>4

LEMMA GoesSame ==
  ASSUME PhoneForm, NEW t \in Threads, NEW y, NEW at, NEW urls, NEW chose, Busy(t),
         Goes(t, y, at, urls, chose), threads[t].at \in Carrying, at \in Carrying,
         threads[t].at \in Sending <=> at \in Sending, at # "inbox"
  PROVE  \A u \in Threads : SameItem(threads[u], threads'[u])
  <1>1. SameItem(threads[t], y)
    BY BusyTask DEF SameItem, Goes, Carrying, Sending, TrimSteps
  <1> QED BY <1>1, SameThread DEF Goes

LEMMA TroubleType ==
  ASSUME PhoneForm, Trouble \/ NoFault
  PROVE  troubles' \in Nat /\ (Trouble => troubles' # troubles)
  BY DEF PhoneForm, Trouble, NoFault

\* A step of a thread that ends its item.
LEMMA ThreadLeaves ==
  ASSUME PhoneOk, NEW t \in Threads, Busy(t), Done(t), UNCHANGED <<now, dates, desktop>>,
         Trouble \/ NoFault, endpoint' = endpoint,
         captured' \in Seq(Messages), keep' \in Keeps, takes' \in Seq(Nat), stored' \in [Items -> Nat],
         codes' \subseteq Messages, disorder' \in BOOLEAN,
         \A l \in lost' : l \in lost \/ l.why \notin {"none", "desktop"}
  PROVE  PhoneOk' /\ DoneWith(threads[t], threads'[t]) /\ Others(t)
  <1> USE DEF PhoneOk
  <1>1. PICK y : Moved(t, y) /\ DoneWith(threads[t], y)
    BY DoneMoves
  <1>2. y = Idle \/ IsTask(y)
    BY <1>1 DEF DoneWith, Followed
  <1>3. SteadyTask(threads[t], desktop.host, desktop.up, Answers(endpoint))
    BY DEF SteadyInv
  <1>4. SteadyTask(y, desktop.host, desktop.up, Answers(endpoint)')
    <2>1. CASE Followed(threads[t], y)
      BY <2>1 DEF SteadyTask, Followed
    <2>2. CASE y.at = "size" /\ y.chose = threads[t].chose /\ y.steady = threads[t].steady
      BY <1>3, <2>2 DEF SteadyTask, Busy
    <2> QED BY <1>1, <2>1, <2>2 DEF DoneWith
  <1>5. troubles' \in Nat /\ endpoint' \in Ends
    BY TroubleType DEF PhoneForm
  <1>6. PhoneOk'
    BY <1>1, <1>2, <1>4, <1>5, ThreadForm
  <1> QED BY <1>1, <1>6 DEF Moved, Others

LEMMA StepInsert ==
  ASSUME PhoneOk, NEW t \in Threads, Insert(t), InboxAssumption
  PROVE  PhoneOk' /\ PhoneShape
  <1> USE DEF PhoneOk
  <1> DEFINE x == threads[t]
  <1>1. /\ Busy(t) /\ x.at = "insert" /\ Set(t, [x EXCEPT !.at = "hello"])
        /\ captured' = (IF Item(t) \in ToSet(captured) THEN captured ELSE Append(captured, Item(t)))
        /\ takes' = (IF Overlaps(t) THEN takes \o <<0, Item(t), 0>> ELSE Append(takes, Item(t)))
        /\ raced' = (IF Item(t) \in ToSet(captured) THEN raced \cup {Item(t)} ELSE raced)
        /\ UNCHANGED <<now, latest, desktop, dates, endpoint, troubles, stored, lost, disorder, codes, keep>>
    BY DEF Insert, At, inboxVars, world, tally, memory
  <1>2. /\ IsTask(x) /\ x.share = FALSE /\ Item(t) \in Messages
        /\ x.urls \in Seq(Ends) /\ x.steady \in BOOLEAN
        /\ SteadyTask(x, desktop.host, desktop.up, Answers(endpoint))
    BY <1>1, BusyTask DEF IsTask, SteadyInv
  <1>3. "hello" \in Stages /\ "hello" # "insert"
    BY DEF Stages
  <1>4. [x EXCEPT !.at = "hello"] = TaskOf(x, "hello", x.urls, x.chose, x.steady)
    BY <1>2, <1>3, TaskGoesOn
  <1>5. PICK y : Goes(t, y, "hello", x.urls, x.chose)
    BY <1>1, <1>2, <1>3, <1>4, GoGoes
  <1>6. SteadyTask(y, desktop.host, desktop.up, Answers(endpoint)')
    BY <1>1, <1>2, <1>5 DEF SteadyTask, Goes, Busy
  <1>7. Messages \subseteq Nat
    BY InboxAssumption DEF Messages
  <1>8. /\ captured' \in Seq(Messages) /\ keep' \in Keeps /\ takes' \in Seq(Nat) /\ stored' \in [Items -> Nat]
        /\ codes' \subseteq Messages /\ disorder' \in BOOLEAN /\ troubles' \in Nat /\ endpoint' \in Ends
    <2>1. captured' \in Seq(Messages)
      BY <1>1, <1>2 DEF PhoneForm
    <2>2. takes \in Seq(Nat) /\ Item(t) \in Nat
      BY <1>2, <1>7 DEF PhoneForm
    <2>3. Append(takes, Item(t)) \in Seq(Nat) /\ takes \o <<0, Item(t), 0>> \in Seq(Nat)
      BY <2>2
    <2> QED BY <1>1, <2>1, <2>3 DEF PhoneForm
  <1>9. Moved(t, y) /\ IsTask(y)
    BY <1>5 DEF Goes
  <1>10. \A l \in lost' : l \in lost
    BY <1>1
  <1>11. PhoneOk'
    BY <1>1, <1>6, <1>8, <1>9, <1>10, ThreadForm
  <1>12. Inserts(t)
    BY <1>1, <1>2, <1>5 DEF Inserts, Goes, Moved, Others
  <1> QED BY <1>11, <1>12 DEF PhoneShape

LEMMA GivenUp ==
  ASSUME PhoneOk, NEW t \in Threads, Busy(t), GiveUp(t),
         /\ threads[t].steady = TRUE /\ troubles' = troubles /\ desktop.up = TRUE
         => Answers(endpoint) \notin {"none", "desktop"}
  PROVE  /\ Done(t) /\ lost \subseteq lost'
         /\ \A l \in lost' : l \in lost \/ l.why \notin {"none", "desktop"}
         /\ threads[t].share = TRUE \/ \E l \in lost' : l.item = Item(t)
  <1> DEFINE x == threads[t]
             why == IF ~x.steady THEN "desktop or endpoint changed"
                    ELSE IF troubles' # troubles THEN "call failed"
                    ELSE IF ~desktop.up THEN "desktop down"
                    ELSE Answers(endpoint)
             new == [item |-> Item(t), why |-> why]
  <1>1. x.steady \in BOOLEAN /\ x.share \in BOOLEAN /\ desktop.up \in BOOLEAN
    BY BusyTask DEF PhoneOk, PhoneForm, IsTask
  <1>2. Done(t) /\ lost' = IF x.share THEN lost ELSE lost \cup {new}
    BY DEF GiveUp
  <1>3. why \notin {"none", "desktop"}
    BY <1>1
  <1>4. new.item = Item(t) /\ new.why = why
    OBVIOUS
  <1> HIDE DEF new, why
  <1> QED BY <1>1, <1>2, <1>3, <1>4

LEMMA Answering ==
  /\ \A e : Answers(e) \in {"none", "relay", "desktop"}
  /\ desktop.up = TRUE => Answers(Endpoint(desktop.host, "ui")) = "desktop"
  BY DEF Answers, Endpoint

LEMMA StepHello ==
  ASSUME PhoneOk, NEW t \in Threads, Hello(t)
  PROVE  PhoneOk' /\ PhoneShape
  <1> USE DEF PhoneOk
  <1> DEFINE x == threads[t]
  <1>1. /\ Busy(t) /\ x.at = "hello"
        /\ UNCHANGED <<now, latest, desktop, dates, endpoint, captured, keep, stored, lost, takes, raced,
                       disorder, codes>>
    BY DEF Hello, At, inboxVars, world, past, memory
  <1>2. /\ IsTask(x) /\ x.urls \in Seq(Ends) /\ x.steady \in BOOLEAN
        /\ SteadyTask(x, desktop.host, desktop.up, Answers(endpoint))
    BY <1>1, BusyTask DEF IsTask, SteadyInv
  <1>3. PICK at \in {"post", "discover"} :
          /\ Go(t, [x EXCEPT !.at = at]) /\ (Trouble \/ NoFault)
          /\ at = "post" => Answers(endpoint) # "none"
    BY DEF Hello
  <1>4. at \in Stages /\ at # "insert"
    BY DEF Stages
  <1>5. [x EXCEPT !.at = at] = TaskOf(x, at, x.urls, x.chose, x.steady)
    BY <1>2, <1>4, TaskGoesOn
  <1>6. PICK y : Goes(t, y, at, x.urls, x.chose)
    BY <1>1, <1>2, <1>3, <1>4, <1>5, GoGoes
  <1>7. Answers(endpoint)' = Answers(endpoint)
    BY <1>1 DEF Answers
  <1>8. SteadyTask(y, desktop.host, desktop.up, Answers(endpoint)')
    BY <1>1, <1>2, <1>3, <1>6, <1>7 DEF SteadyTask, Goes, Busy
  <1>9. /\ captured' \in Seq(Messages) /\ keep' \in Keeps /\ takes' \in Seq(Nat) /\ stored' \in [Items -> Nat]
        /\ codes' \subseteq Messages /\ disorder' \in BOOLEAN /\ troubles' \in Nat /\ endpoint' \in Ends
    BY <1>1, <1>3, TroubleType DEF PhoneForm
  <1>10. Moved(t, y) /\ IsTask(y) /\ \A l \in lost' : l \in lost
    BY <1>1, <1>6 DEF Goes
  <1>11. PhoneOk'
    BY <1>1, <1>8, <1>9, <1>10, ThreadForm
  <1>12. Quiet
    BY <1>1, <1>6, GoesSame DEF Quiet, Sending, Carrying
  <1> QED BY <1>11, <1>12 DEF PhoneShape

LEMMA CandidateUrls ==
  ASSUME PhoneForm
  PROVE  /\ Candidates \in Seq(Ends) /\ Discovered \o Candidates \in Seq(Ends)
         /\ desktop.up = TRUE => /\ Discovered \o Candidates # <<>>
                                 /\ Head(Discovered \o Candidates) = Endpoint(desktop.host, "ui")
  <1>1. Guesses \in Seq(Ends)
    BY PhoneAssumption DEF Ends
  <1>2. endpoint \in Ends /\ Endpoint(desktop.host, "ui") \in Ends
        /\ Endpoint(desktop.host, "relay") \in Ends
    BY EndsFacts DEF PhoneForm
  <1>3. Candidates \in Seq(Ends)
    BY <1>1, <1>2 DEF Candidates
  <1> DEFINE e == Endpoint(desktop.host, "ui")
             r == Endpoint(desktop.host, "relay")
             rest == IF EmbeddedRelay THEN <<r>> ELSE <<>>
             all == Discovered \o Candidates
  <1>4. CASE desktop.up = TRUE
    <2>1. Discovered = <<e>> \o rest
      BY <1>4 DEF Discovered
    <2>2. rest \in Seq(Ends) /\ <<e>> \in Seq(Ends)
      BY <1>2
    <2>3. Discovered \in Seq(Ends) /\ Len(Discovered) >= 1 /\ Discovered[1] = e
      <3> HIDE DEF e, rest
      <3> QED BY <2>1, <2>2
    <2>4. all \in Seq(Ends) /\ Len(all) >= 1 /\ all[1] = e
      <3> HIDE DEF e
      <3> QED BY <1>3, <2>3
    <2>5. all # <<>> /\ Head(all) = e
      <3> HIDE DEF e, all
      <3> QED BY <2>4
    <2> QED BY <1>3, <2>4, <2>5
  <1>5. CASE desktop.up # TRUE
    <2>1. Discovered = <<>>
      BY <1>5 DEF Discovered, PhoneForm
    <2> QED BY <1>3, <1>5, <2>1, ConcatEmptySeq
  <1> QED BY <1>4, <1>5

LEMMA StepDiscover ==
  ASSUME PhoneOk, NEW t \in Threads, Discover(t)
  PROVE  PhoneOk' /\ PhoneShape
  <1> USE DEF PhoneOk
  <1> DEFINE x == threads[t]
  <1>1. /\ Busy(t) /\ x.at = "discover"
        /\ UNCHANGED <<now, latest, desktop, dates, endpoint, captured, keep, stored, lost, takes, raced,
                       disorder, codes>>
    BY DEF Discover, At, inboxVars, world, past, memory
  <1>2. /\ IsTask(x) /\ x.urls \in Seq(Ends) /\ x.steady \in BOOLEAN
        /\ SteadyTask(x, desktop.host, desktop.up, Answers(endpoint))
    BY <1>1, BusyTask DEF IsTask, SteadyInv
  <1>3. PICK urls \in Seq(Ends) :
          /\ Go(t, [x EXCEPT !.at = "check", !.urls = urls]) /\ (Trouble \/ NoFault)
          /\ desktop.up = TRUE /\ troubles' = troubles =>
               urls # <<>> /\ Head(urls) = Endpoint(desktop.host, "ui")
    <2>1. CASE NoFault /\ Go(t, [x EXCEPT !.at = "check", !.urls = Discovered \o Candidates])
      BY <2>1, CandidateUrls
    <2>2. CASE Trouble /\ Go(t, [x EXCEPT !.at = "check", !.urls = Candidates])
      BY <2>2, CandidateUrls, TroubleType
    <2> QED BY <2>1, <2>2 DEF Discover
  <1>4. "check" \in Stages /\ "check" # "insert"
    BY DEF Stages
  <1>5. [x EXCEPT !.at = "check", !.urls = urls] = TaskOf(x, "check", urls, x.chose, x.steady)
    BY <1>2, <1>4, TaskGoesOn
  <1>6. PICK y : Goes(t, y, "check", urls, x.chose) /\ (y.steady = TRUE => troubles' = troubles)
    BY <1>1, <1>2, <1>3, <1>4, <1>5, GoGoes
  <1>7. Answers(endpoint)' = Answers(endpoint)
    BY <1>1 DEF Answers
  <1>8. SteadyTask(y, desktop.host, desktop.up, Answers(endpoint)')
    BY <1>1, <1>2, <1>3, <1>6, <1>7 DEF SteadyTask, Goes, Busy
  <1>9. /\ captured' \in Seq(Messages) /\ keep' \in Keeps /\ takes' \in Seq(Nat) /\ stored' \in [Items -> Nat]
        /\ codes' \subseteq Messages /\ disorder' \in BOOLEAN /\ troubles' \in Nat /\ endpoint' \in Ends
    BY <1>1, <1>3, TroubleType DEF PhoneForm
  <1>10. Moved(t, y) /\ IsTask(y) /\ \A l \in lost' : l \in lost
    BY <1>1, <1>6 DEF Goes
  <1>11. PhoneOk'
    BY <1>1, <1>8, <1>9, <1>10, ThreadForm
  <1>12. Quiet
    BY <1>1, <1>6, GoesSame DEF Quiet, Sending, Carrying
  <1> QED BY <1>11, <1>12 DEF PhoneShape

LEMMA StepCheck ==
  ASSUME PhoneOk, NEW t \in Threads, Check(t)
  PROVE  PhoneOk' /\ PhoneShape
  <1> USE DEF PhoneOk
  <1> DEFINE x == threads[t]
             url == Head(x.urls)
  <1>1. /\ Busy(t) /\ x.at = "check"
        /\ UNCHANGED <<now, latest, desktop, dates, captured, keep, stored, takes, raced, disorder, codes>>
    BY DEF Check, At, inboxVars, world, memory
  <1>2. /\ IsTask(x) /\ x.urls \in Seq(Ends) /\ x.steady \in BOOLEAN
        /\ SteadyTask(x, desktop.host, desktop.up, Answers(endpoint))
    BY <1>1, BusyTask DEF IsTask, SteadyInv
  <1>3. /\ captured' \in Seq(Messages) /\ keep' \in Keeps /\ takes' \in Seq(Nat) /\ stored' \in [Items -> Nat]
        /\ codes' \subseteq Messages /\ disorder' \in BOOLEAN
    BY <1>1 DEF PhoneForm
  <1>4. CASE NoFault /\ GiveUp(t) /\ endpoint' = endpoint /\ x.urls = <<>>
    <2>1. ~(x.steady = TRUE /\ desktop.up = TRUE)
      BY <1>1, <1>2, <1>4 DEF SteadyTask, Busy
    <2>2. /\ Done(t) /\ lost \subseteq lost'
          /\ \A l \in lost' : l \in lost \/ l.why \notin {"none", "desktop"}
          /\ x.share = TRUE \/ \E l \in lost' : l.item = Item(t)
      BY <1>1, <1>4, <2>1, GivenUp
    <2>3. PhoneOk' /\ DoneWith(x, threads'[t]) /\ Others(t)
      BY <1>1, <1>3, <1>4, <2>2, ThreadLeaves
    <2>4. Leaves(t)
      BY <1>1, <2>2, <2>3 DEF Leaves, TrimSteps
    <2> QED BY <2>3, <2>4 DEF PhoneShape
  <1>5. CASE /\ x.urls # <<>> /\ Answers(url) # "none" /\ NoFault
             /\ endpoint' = url /\ UNCHANGED lost
             /\ Set(t, [x EXCEPT !.at = "post", !.chose = Answers(url)])
    <2>1. "post" \in Stages /\ "post" # "insert"
      BY DEF Stages
    <2>2. [x EXCEPT !.at = "post", !.chose = Answers(url)]
            = TaskOf(x, "post", x.urls, Answers(url), x.steady)
      <3>1. PICK chose : chose = Answers(url)
        OBVIOUS
      <3>2. [x EXCEPT !.at = "post", !.chose = chose] = TaskOf(x, "post", x.urls, chose, x.steady)
        BY <1>2, <2>1, TaskGoesOn
      <3> QED BY <3>1, <3>2
    <2>3. PICK y : Goes(t, y, "post", x.urls, Answers(url))
      BY <1>1, <1>2, <1>5, <2>1, <2>2, GoGoes
    <2>4. url \in Ends
      BY <1>2, <1>5
    <2>5. Answers(endpoint)' = Answers(url)
      BY <1>1, <1>5 DEF Answers
    <2>6. SteadyTask(y, desktop.host, desktop.up, Answers(endpoint)')
      BY <1>1, <1>2, <1>5, <2>3, <2>5, Answering DEF SteadyTask, Goes, Busy
    <2>7. Moved(t, y) /\ IsTask(y) /\ (\A l \in lost' : l \in lost) /\ troubles' \in Nat
      BY <1>5, <2>3, TroubleType DEF Goes
    <2>8. PhoneOk'
      BY <1>1, <1>3, <1>5, <2>4, <2>5, <2>6, <2>7, ThreadForm
    <2>9. Quiet
      BY <1>1, <1>5, <2>3, GoesSame DEF Quiet, Sending, Carrying
    <2> QED BY <2>8, <2>9 DEF PhoneShape
  <1>6. CASE /\ x.urls # <<>> /\ IF Answers(url) # "none" THEN Trouble ELSE NoFault
             /\ Go(t, [x EXCEPT !.urls = Tail(x.urls)]) /\ UNCHANGED <<endpoint, lost>>
    <2>1. "check" \in Stages /\ "check" # "insert" /\ Tail(x.urls) \in Seq(Ends)
      BY <1>2, <1>6 DEF Stages
    <2>2. [x EXCEPT !.urls = Tail(x.urls)] = TaskOf(x, "check", Tail(x.urls), x.chose, x.steady)
      <3>1. IsTask(x) /\ x.at = "check" /\ x.steady \in BOOLEAN
        BY <1>1, <1>2
      <3>2. "check" = "insert" => x.share = FALSE
        OBVIOUS
      <3>3. [x EXCEPT !.urls = Tail(x.urls)] = TaskOf(x, x.at, Tail(x.urls), x.chose, x.steady)
        BY <2>1, <3>1, <3>2, TaskGoesOn, Zenon
      <3> QED BY <3>1, <3>3, Zenon
    <2>3. PICK y : Goes(t, y, "check", Tail(x.urls), x.chose) /\ (y.steady = TRUE => troubles' = troubles)
      BY <1>1, <1>2, <1>6, <2>1, <2>2, GoGoes
    <2>4. Answers(endpoint)' = Answers(endpoint)
      BY <1>1, <1>6 DEF Answers
    <2>5. ~(y.steady = TRUE /\ desktop.up = TRUE)
      BY <1>1, <1>2, <1>6, <2>3, Answering, TroubleType DEF SteadyTask, Busy, Goes
    <2>6. SteadyTask(y, desktop.host, desktop.up, Answers(endpoint)')
      BY <2>3, <2>5 DEF SteadyTask, Goes
    <2>7. /\ Moved(t, y) /\ IsTask(y) /\ (\A l \in lost' : l \in lost) /\ troubles' \in Nat
          /\ endpoint' \in Ends
      BY <1>6, <2>3, TroubleType DEF Goes, PhoneForm
    <2>8. PhoneOk'
      BY <1>1, <1>3, <1>6, <2>6, <2>7, ThreadForm
    <2>9. Quiet
      BY <1>1, <1>6, <2>3, GoesSame DEF Quiet, Sending, Carrying
    <2> QED BY <2>8, <2>9 DEF PhoneShape
  <1> QED BY <1>4, <1>5, <1>6 DEF Check

LEMMA StepPost ==
  ASSUME PhoneOk, NEW t \in Threads, Post(t)
  PROVE  PhoneOk' /\ PhoneShape
  <1> USE DEF PhoneOk
  <1> DEFINE x == threads[t]
             by == Answers(endpoint)
  <1>1. /\ Busy(t) /\ x.at = "post"
        /\ UNCHANGED <<now, latest, desktop, dates, endpoint, captured, keep, takes, raced, disorder, codes>>
    BY DEF Post, At, inboxVars, world, memory
  <1>2. /\ IsTask(x) /\ x.urls \in Seq(Ends) /\ x.steady \in BOOLEAN /\ x.share \in BOOLEAN
        /\ Item(t) \in Items /\ SteadyTask(x, desktop.host, desktop.up, Answers(endpoint))
    BY <1>1, BusyTask DEF IsTask, SteadyInv
  <1>3. by' = by /\ by \in {"none", "relay", "desktop"}
    BY <1>1, Answering DEF Answers
  <1>4. takes' \in Seq(Nat) /\ codes' \subseteq Messages /\ disorder' \in BOOLEAN
    BY <1>1 DEF PhoneForm
  <1>5. CASE /\ by = "desktop" /\ NoFault /\ stored' = [stored EXCEPT ![Item(t)] = @ + 1]
             /\ Set(t, [x EXCEPT !.at = "inbox"]) /\ UNCHANGED lost
    <2>1. "inbox" \in Stages /\ "inbox" # "insert"
      BY DEF Stages
    <2>2. [x EXCEPT !.at = "inbox"] = TaskOf(x, "inbox", x.urls, x.chose, x.steady)
      BY <1>2, <2>1, TaskGoesOn
    <2>3. PICK y : Goes(t, y, "inbox", x.urls, x.chose)
      BY <1>1, <1>2, <1>5, <2>1, <2>2, GoGoes
    <2>4. SteadyTask(y, desktop.host, desktop.up, Answers(endpoint)')
      BY <1>1, <1>2, <2>3 DEF SteadyTask, Goes, Busy
    <2>5. /\ Moved(t, y) /\ IsTask(y) /\ (\A l \in lost' : l \in lost) /\ troubles' \in Nat
          /\ endpoint' \in Ends /\ captured' \in Seq(Messages) /\ keep' \in Keeps /\ stored' \in [Items -> Nat]
      BY <1>1, <1>2, <1>5, <2>3, TroubleType DEF Goes, PhoneForm
    <2>6. PhoneOk'
      BY <1>1, <1>4, <2>4, <2>5, ThreadForm
    <2>7. Stores(t)
      BY <1>1, <1>5, <2>3 DEF Stores, Goes, Moved, Others
    <2> QED BY <2>6, <2>7 DEF PhoneShape
  <1>6. CASE by = "relay" /\ x.share /\ NoFault /\ Done(t) /\ UNCHANGED <<stored, lost>>
    <2>1. captured' \in Seq(Messages) /\ keep' \in Keeps /\ stored' \in [Items -> Nat] /\ \A l \in lost' : l \in lost
      BY <1>1, <1>6 DEF PhoneForm
    <2>2. PhoneOk' /\ DoneWith(x, threads'[t]) /\ Others(t)
      BY <1>1, <1>4, <1>6, <2>1, ThreadLeaves
    <2>3. Leaves(t)
      BY <1>1, <1>2, <1>6, <2>2 DEF Leaves, TrimSteps
    <2> QED BY <2>2, <2>3 DEF PhoneShape
  <1>7. CASE /\ GiveUp(t) /\ UNCHANGED stored
             /\ \/ by = "none" /\ NoFault
                \/ by = "relay" /\ ~x.share /\ NoFault
                \/ Trouble
    <2>1. x.steady = TRUE /\ troubles' = troubles /\ desktop.up = TRUE => by \notin {"none", "desktop"}
      BY <1>1, <1>2, <1>7, TroubleType DEF SteadyTask, Busy
    <2>2. /\ Done(t) /\ lost \subseteq lost'
          /\ \A l \in lost' : l \in lost \/ l.why \notin {"none", "desktop"}
          /\ x.share = TRUE \/ \E l \in lost' : l.item = Item(t)
      BY <1>1, <1>7, <2>1, GivenUp
    <2>3. captured' = captured /\ captured' \in Seq(Messages) /\ keep' \in Keeps
      BY <1>1 DEF PhoneForm
    <2>4. stored' \in [Items -> Nat] /\ (Trouble \/ NoFault)
      BY <1>7 DEF PhoneForm
    <2>5. PhoneOk' /\ DoneWith(x, threads'[t]) /\ Others(t)
      BY <1>1, <1>4, <2>2, <2>3, <2>4, ThreadLeaves
    <2>6. Leaves(t)
      BY <1>1, <1>7, <2>2, <2>3, <2>5 DEF Leaves, TrimSteps
    <2> QED BY <2>5, <2>6 DEF PhoneShape
  <1> QED BY <1>5, <1>6, <1>7 DEF Post

LEMMA StepInbox ==
  ASSUME PhoneOk, NEW t \in Threads, Inbox(t)
  PROVE  PhoneOk' /\ PhoneShape
  <1> USE DEF PhoneOk
  <1> DEFINE x == threads[t]
  <1>1. /\ Busy(t) /\ x.at = "inbox"
        /\ UNCHANGED <<now, desktop, dates, endpoint, captured, keep, stored, takes, raced, disorder>>
    BY DEF Inbox, At, world, memory
  <1>2. /\ IsTask(x) /\ x.share \in BOOLEAN /\ (x.share = FALSE => Item(t) \in Messages)
    BY <1>1, BusyTask DEF IsTask
  <1>3. \/ UNCHANGED <<latest, codes>>
        \/ /\ x.share = FALSE /\ latest'.row = Item(t) /\ codes' = codes \cup {Item(t)}
    <2>1. CASE x.share = TRUE
      BY <2>1 DEF Inbox
    <2>2. CASE x.share = FALSE /\ CodeOf(Item(t)) = 0
      BY <2>2 DEF Inbox, Recorded
    <2>3. CASE x.share = FALSE /\ CodeOf(Item(t)) # 0
      <3>1. codes' = codes \cup {Item(t)}
        BY <2>3 DEF Inbox
      <3>2. latest' = Recorded(Item(t), dates[Item(t)])
        BY <2>3 DEF Inbox
      <3>3. latest'.row = Item(t)
        BY <2>3, <3>2 DEF Recorded
      <3> QED BY <2>3, <3>1, <3>3
    <2> QED BY <1>2, <2>1, <2>2, <2>3
  <1>4. captured' = captured /\ captured' \in Seq(Messages) /\ keep' \in Keeps
    BY <1>1 DEF PhoneForm
  <1>5. /\ Done(t) /\ lost \subseteq lost' /\ (Trouble \/ NoFault)
        /\ \A l \in lost' : l \in lost \/ l.why \notin {"none", "desktop"}
    <2>1. CASE NoFault /\ Done(t) /\ UNCHANGED lost
      BY <2>1
    <2>2. CASE Trouble /\ GiveUp(t)
      BY <1>1, <2>2, GivenUp, TroubleType
    <2> QED BY <2>1, <2>2 DEF Inbox
  <1>6. /\ takes' \in Seq(Nat) /\ codes' \subseteq Messages /\ disorder' \in BOOLEAN
        /\ stored' \in [Items -> Nat]
    BY <1>1, <1>2, <1>3 DEF PhoneForm
  <1>7. PhoneOk' /\ DoneWith(x, threads'[t]) /\ Others(t)
    BY <1>1, <1>4, <1>5, <1>6, ThreadLeaves
  <1>8. Leaves(t)
    BY <1>1, <1>3, <1>4, <1>5, <1>7 DEF Leaves, TrimSteps
  <1> QED BY <1>7, <1>8 DEF PhoneShape

LEMMA StepBroken ==
  ASSUME PhoneOk, NEW t \in Threads, Broken(t)
  PROVE  PhoneOk' /\ PhoneShape
  <1> USE DEF PhoneOk
  <1> DEFINE x == threads[t]
  <1>1. /\ Busy(t) /\ x.at = "broken" /\ NoFault /\ GiveUp(t)
        /\ UNCHANGED <<now, latest, desktop, dates, endpoint, captured, keep, stored, takes, raced, disorder, codes>>
    BY DEF Broken, At, inboxVars, world, memory
  <1>2. x.steady = FALSE
    BY <1>1 DEF SteadyInv, SteadyTask, Busy
  <1>3. /\ Done(t) /\ lost \subseteq lost'
        /\ \A l \in lost' : l \in lost \/ l.why \notin {"none", "desktop"}
        /\ x.share = TRUE \/ \E l \in lost' : l.item = Item(t)
    BY <1>1, <1>2, GivenUp
  <1>4. captured' = captured /\ captured' \in Seq(Messages) /\ keep' \in Keeps
    BY <1>1 DEF PhoneForm
  <1>5. /\ takes' \in Seq(Nat) /\ codes' \subseteq Messages /\ disorder' \in BOOLEAN
        /\ stored' \in [Items -> Nat]
    BY <1>1 DEF PhoneForm
  <1>6. PhoneOk' /\ DoneWith(x, threads'[t]) /\ Others(t)
    BY <1>1, <1>3, <1>4, <1>5, ThreadLeaves
  <1>7. Leaves(t)
    BY <1>1, <1>3, <1>4, <1>6 DEF Leaves, TrimSteps
  <1> QED BY <1>6, <1>7 DEF PhoneShape

\* A step of a trim: the thread stays with its item or has done with it.
LEMMA TrimMoves ==
  ASSUME PhoneForm, NEW t \in Threads, Busy(t)
  PROVE  /\ \A at \in TrimSteps : Set(t, [threads[t] EXCEPT !.at = at])
              => \E y : Goes(t, y, at, threads[t].urls, threads[t].chose)
         /\ Onward(t) => \E y : Moved(t, y) /\ Followed(threads[t], y)
  <1>1. ASSUME NEW at \in TrimSteps, Set(t, [threads[t] EXCEPT !.at = at])
        PROVE  \E y : Goes(t, y, at, threads[t].urls, threads[t].chose)
    <2>1. at \in Stages /\ at # "insert"
      BY DEF Stages, TrimSteps
    <2>2. IsTask(threads[t]) /\ threads[t].urls \in Seq(Ends) /\ threads[t].steady \in BOOLEAN
      BY BusyTask DEF IsTask
    <2>3. [threads[t] EXCEPT !.at = at]
            = TaskOf(threads[t], at, threads[t].urls, threads[t].chose, threads[t].steady)
      BY <2>1, <2>2, TaskGoesOn
    <2> QED BY <1>1, <2>1, <2>2, <2>3, GoGoes
  <1>2. Onward(t) => \E y : Moved(t, y) /\ Followed(threads[t], y)
    BY OnwardMoves
  <1> QED BY <1>1, <1>2

\* What a step of a trim leaves alone, and what is to be shown of it.
LEMMA TrimForm ==
  ASSUME PhoneOk, NEW t \in Threads, Busy(t), threads[t].at \in TrimSteps \cup {"size"},
         UNCHANGED <<now, latest, desktop, dates, endpoint, troubles, stored, lost, raced, disorder, codes>>,
         captured' \in Seq(Messages), keep' \in Keeps, takes' = takes \/ Uses(t),
         \/ Onward(t) \/ threads' = threads
         \/ \E at \in TrimSteps : Set(t, [threads[t] EXCEPT !.at = at])
  PROVE  /\ PhoneOk' /\ Others(t)
         /\ Onward(t) => Followed(threads[t], threads'[t])
         /\ \A at \in TrimSteps : Set(t, [threads[t] EXCEPT !.at = at]) => Stays(t, at)
         /\ threads' = threads => Stays(t, threads[t].at)
  <1> USE DEF PhoneOk
  <1> DEFINE x == threads[t]
             Shows(y) == /\ PhoneOk' /\ Others(t) /\ threads'[t] = y
  <1>1. takes' \in Seq(Nat) /\ stored' \in [Items -> Nat] /\ codes' \subseteq Messages /\ disorder' \in BOOLEAN
        /\ troubles' \in Nat /\ endpoint' \in Ends /\ \A l \in lost' : l \in lost
    <2>1. takes \in Seq(Nat) /\ Append(takes, 0) \in Seq(Nat)
      BY DEF PhoneForm
    <2> QED BY <2>1 DEF PhoneForm, Uses
  <1>2. Answers(endpoint)' = Answers(endpoint)
    BY DEF Answers
  <1>3. SteadyTask(x, desktop.host, desktop.up, Answers(endpoint)) /\ IsTask(x)
    BY BusyTask DEF SteadyInv
  <1>4. ASSUME NEW y, Moved(t, y), y = Idle \/ IsTask(y),
               SteadyTask(y, desktop.host, desktop.up, Answers(endpoint)')
        PROVE  Shows(y)
    <2>1. PhoneOk'
      BY <1>1, <1>4, ThreadForm
    <2> QED BY <1>4, <2>1 DEF Moved, Others
  <1>5. ASSUME Onward(t) PROVE \E y : Followed(x, y) /\ Shows(y)
    <2>1. PICK y : Moved(t, y) /\ Followed(x, y)
      BY <1>5, TrimMoves
    <2>2. (y = Idle \/ IsTask(y)) /\ SteadyTask(y, desktop.host, desktop.up, Answers(endpoint)')
      BY <2>1 DEF Followed, SteadyTask
    <2> QED BY <1>4, <2>1, <2>2
  <1>6. ASSUME NEW at \in TrimSteps, Set(t, [x EXCEPT !.at = at])
        PROVE  \E y : /\ Shows(y) /\ IsTask(y) /\ y.at = at
                      /\ y.todo = x.todo /\ y.share = x.share
    <2>1. PICK y : Goes(t, y, at, x.urls, x.chose)
      BY <1>6, TrimMoves
    <2>2. Moved(t, y) /\ IsTask(y) /\ y.at = at /\ y.todo = x.todo /\ y.share = x.share /\ y.chose = x.chose
          /\ (y.steady = TRUE => x.steady = TRUE)
      BY <2>1 DEF Goes
    <2>3. SteadyTask(y, desktop.host, desktop.up, Answers(endpoint)')
      BY <1>3, <2>2, TaskBusy DEF SteadyTask, TrimSteps
    <2> QED BY <1>4, <2>2, <2>3
  <1>7. ASSUME threads' = threads PROVE Shows(x)
    <2>1. Moved(t, x)
      BY <1>7 DEF Moved, PhoneForm
    <2> QED BY <1>2, <1>3, <1>4, <2>1
  <1>8. PhoneOk' /\ Others(t)
    BY <1>5, <1>6, <1>7
  <1>9. Onward(t) => Followed(x, threads'[t])
    BY <1>5
  <1>10. ASSUME NEW at \in TrimSteps, Set(t, [x EXCEPT !.at = at]) PROVE Stays(t, at)
    BY <1>6, <1>10 DEF Stays
  <1>11. threads' = threads => Stays(t, x.at)
    BY <1>3 DEF Stays
  <1> QED BY <1>8, <1>9, <1>10, <1>11

LEMMA NewestRows ==
  ASSUME NEW S, NEW all \in Seq(S)
  PROVE  LET n == IF KeptRows < Len(all) THEN KeptRows ELSE Len(all)
         IN /\ n \in Nat /\ n <= Len(all) /\ n <= KeptRows /\ (n < Len(all) => n = KeptRows)
            /\ Newest(all) \in Seq(S) /\ DOMAIN Newest(all) = 1..n
            /\ \A i \in 1..n : Newest(all)[i] = all[Len(all) - n + i]
  <1> DEFINE n == IF KeptRows < Len(all) THEN KeptRows ELSE Len(all)
  <1>1. Len(all) \in Nat /\ KeptRows \in Nat
    BY PhoneAssumption
  <1>2. n \in Nat /\ n <= Len(all) /\ n <= KeptRows /\ (n < Len(all) => n = KeptRows)
    BY <1>1
  <1>3. Newest(all) = SubSeq(all, Len(all) - n + 1, Len(all))
    BY DEF Newest
  <1> HIDE DEF n
  <1>4. /\ Newest(all) \in Seq(S) /\ DOMAIN Newest(all) = 1..n
        /\ \A i \in 1..n : Newest(all)[i] = all[Len(all) - n + i]
    BY <1>1, <1>2, <1>3
  <1> QED BY <1>2, <1>4 DEF n

LEMMA StepTrim ==
  ASSUME PhoneOk, NEW t \in Threads, Size(t) \/ List(t) \/ Clear(t) \/ AddAgain(t)
  PROVE  PhoneOk' /\ PhoneShape
  <1> USE DEF PhoneOk
  <1>1. UNCHANGED <<now, latest, desktop, dates, endpoint, troubles, stored, lost, raced, disorder, codes>>
    BY DEF Size, List, Clear, AddAgain, untouched, inboxVars, world, tally
  <1>2. captured \in Seq(Messages) /\ keep \in Keeps /\ keep[t] \in Seq(Messages)
        /\ keep = [u \in Threads |-> keep[u]]
    BY DEF PhoneForm, Keeps
  <1>3. "list" \in TrimSteps /\ "clear" \in TrimSteps /\ "readd" \in TrimSteps
    BY DEF TrimSteps
  <1>4. CASE Size(t)
    <2>1. /\ Busy(t) /\ threads[t].at = "size" /\ UNCHANGED <<captured, keep, takes>>
          /\ Onward(t) \/ Set(t, [threads[t] EXCEPT !.at = "list"])
      BY <1>4 DEF Size, At, memory
    <2>2. PhoneOk' /\ Others(t) /\ (Followed(threads[t], threads'[t]) \/ Stays(t, "list"))
      BY <1>1, <1>2, <1>3, <2>1, TrimForm
    <2>3. Trims(t)
      BY <1>1, <2>1, <2>2 DEF Trims
    <2> QED BY <2>2, <2>3 DEF PhoneShape
  <1>5. CASE List(t)
    <2>1. /\ Busy(t) /\ threads[t].at = "list" /\ UNCHANGED captured /\ Uses(t)
          /\ keep' = [keep EXCEPT ![t] = Newest(captured)]
          /\ Set(t, [threads[t] EXCEPT !.at = "clear"])
      BY <1>5 DEF List, At
    <2>2. keep' \in Keeps /\ captured' \in Seq(Messages)
      <3>1. Newest(captured) \in Seq(Messages)
        BY <1>2, NewestRows
      <3> QED BY <1>2, <2>1, <3>1 DEF Keeps
    <2>3. PhoneOk' /\ Others(t) /\ Stays(t, "clear")
      BY <1>1, <1>3, <2>1, <2>2, TrimForm
    <2>4. Trims(t)
      BY <1>1, <2>1, <2>3 DEF Trims
    <2> QED BY <2>3, <2>4 DEF PhoneShape
  <1>6. CASE Clear(t)
    <2>1. /\ Busy(t) /\ threads[t].at = "clear" /\ captured' = <<>> /\ UNCHANGED keep /\ Uses(t)
          /\ Set(t, [threads[t] EXCEPT !.at = "readd"])
      BY <1>6 DEF Clear, At
    <2>2. keep' \in Keeps /\ captured' \in Seq(Messages)
      BY <1>2, <2>1
    <2>3. PhoneOk' /\ Others(t) /\ Stays(t, "readd")
      BY <1>1, <1>3, <2>1, <2>2, TrimForm
    <2>4. Trims(t)
      BY <1>1, <2>1, <2>3 DEF Trims
    <2> QED BY <2>3, <2>4 DEF PhoneShape
  <1>7. CASE AddAgain(t)
    <2> DEFINE rest == SubSeq(keep[t], 2, Len(keep[t]))
    <2>1. /\ Busy(t) /\ threads[t].at = "readd" /\ Uses(t)
          /\ captured' = (IF keep[t] = <<>> \/ Head(keep[t]) \in ToSet(captured) THEN captured
                          ELSE Append(captured, Head(keep[t])))
          /\ keep' = [keep EXCEPT ![t] = rest]
          /\ \/ Len(keep[t]) <= 1 /\ Onward(t)
             \/ ~(Len(keep[t]) <= 1) /\ threads' = threads
      BY <1>7 DEF AddAgain, At
    <2>2. rest \in Seq(Messages) /\ (keep[t] # <<>> => Head(keep[t]) \in Messages)
      BY <1>2
    <2> HIDE DEF rest
    <2>3. keep' \in Keeps /\ captured' \in Seq(Messages)
      BY <1>2, <2>1, <2>2 DEF Keeps
    <2>4. /\ PhoneOk' /\ Others(t)
          /\ \/ Len(keep[t]) <= 1 /\ Followed(threads[t], threads'[t])
             \/ ~(Len(keep[t]) <= 1) /\ Stays(t, "readd")
      BY <1>1, <1>3, <2>1, <2>3, TrimForm
    <2>5. Trims(t)
      BY <1>1, <2>1, <2>4 DEF Trims, rest
    <2> QED BY <2>4, <2>5 DEF PhoneShape
  <1> QED BY <1>4, <1>5, <1>6, <1>7

LEMMA StepStop ==
  ASSUME PhoneOk, Stop
  PROVE  PhoneOk' /\ PhoneShape
  <1> USE DEF PhoneOk
  <1>1. /\ desktop' = [host |-> desktop.host, up |-> FALSE, urls |-> desktop.urls]
        /\ latest' = NoCode /\ codes' = {} /\ troubles' \in Nat
        /\ threads' = [t \in Threads |-> IF At(t, "inbox") THEN [Unsteady[t] EXCEPT !.at = "broken"]
                                         ELSE Unsteady[t]]
        /\ UNCHANGED <<now, dates, endpoint, captured, keep, stored, lost, takes, raced, disorder>>
    <2>1. PICK no : no = FALSE
      OBVIOUS
    <2>2. [desktop EXCEPT !.up = no] = [host |-> desktop.host, up |-> no, urls |-> desktop.urls]
      BY DEF PhoneForm
    <2>3. [desktop EXCEPT !.up = FALSE] = [host |-> desktop.host, up |-> FALSE, urls |-> desktop.urls]
      BY <2>1, <2>2
    <2> QED BY <2>3 DEF Stop, Trouble, PhoneForm, memory
  <1>2. ASSUME NEW t \in Threads
        PROVE  /\ threads'[t] = Idle \/ IsTask(threads'[t])
               /\ SameItem(threads[t], threads'[t])
               /\ SteadyTask(threads'[t], desktop'.host, desktop'.up, Answers(endpoint)')
    <2>1. CASE ~At(t, "inbox")
      <3>1. threads'[t] = Unsteady[t]
        BY <1>1, <2>1
      <3> QED BY <3>1, UnsteadyForm, UnsteadyFits
    <2>2. CASE At(t, "inbox")
      <3> DEFINE x == threads[t]
                 u == Unsteady[t]
      <3>1. x # Idle /\ x.at = "inbox"
        BY <2>2 DEF At, Busy
      <3>2. u = TaskOf(x, "inbox", x.urls, x.chose, FALSE) /\ IsTask(x) /\ IsTask(u)
        BY <3>1, UnsteadyForm
      <3>3. /\ u.urls \in Seq(Ends) /\ u.steady = FALSE /\ u.todo = x.todo /\ u.share = x.share
        BY <3>2 DEF TaskOf, IsTask
      <3>4. "broken" \in Stages /\ "broken" # "insert"
        BY DEF Stages
      <3> DEFINE y == TaskOf(u, "broken", u.urls, u.chose, u.steady)
      <3>5. u.steady \in BOOLEAN
        BY <3>3
      <3>6. IsTask(y) /\ [u EXCEPT !.at = "broken"] = y
        BY <3>2, <3>3, <3>4, <3>5, TaskGoesOn
      <3>7. y.at = "broken" /\ y.steady = FALSE /\ y.todo = x.todo /\ y.share = x.share
        BY <3>3 DEF TaskOf
      <3>8. threads'[t] = y
        BY <1>1, <2>2, <3>6
      <3> HIDE DEF y, u
      <3>9. SameItem(x, y)
        BY <3>1, <3>2, <3>6, <3>7 DEF SameItem, Carrying, Sending, TrimSteps
      <3>10. SteadyTask(y, desktop'.host, desktop'.up, Answers(endpoint)')
        BY <3>7 DEF SteadyTask
      <3> QED BY <3>6, <3>8, <3>9, <3>10
    <2> QED BY <2>1, <2>2
  <1>3. threads' = [t \in Threads |-> threads'[t]]
    BY <1>1
  <1>4. PhoneForm'
    BY <1>1, <1>2, <1>3 DEF PhoneForm
  <1>5. SteadyInv'
    BY <1>1, <1>2 DEF SteadyInv
  <1>6. Quiet
    BY <1>1, <1>2 DEF Quiet
  <1> QED BY <1>4, <1>5, <1>6 DEF PhoneShape

LEMMA ReadTask ==
  ASSUME PhoneForm, InboxAssumption, NEW limit \in Nat \ {0}, dates # <<>>
  PROVE  ReadSms(limit) \in Seq(Messages) /\ ReadSms(limit) # <<>>
  <1> DEFINE n == IF limit < Len(dates) THEN limit ELSE Len(dates)
  <1>1. Len(dates) \in Nat /\ Len(dates) >= 1 /\ Len(dates) <= Len(Runs) /\ Messages = 1..Len(Runs)
        /\ Len(Runs) \in Nat
    BY DEF PhoneForm, InboxAssumption, Messages
  <1>2. n \in Nat /\ n >= 1 /\ n <= Len(dates)
    BY <1>1
  <1> HIDE DEF n
  <1>3. \A i \in 1..n : Len(dates) - i + 1 \in Messages
    BY <1>1, <1>2
  <1>4. ReadSms(limit) = [i \in 1..n |-> Len(dates) - i + 1]
    BY DEF ReadSms, n
  <1>5. ReadSms(limit) \in Seq(Messages) /\ Len(ReadSms(limit)) = n
    BY <1>2, <1>3, <1>4
  <1> QED BY <1>2, <1>5

LEMMA BeginsTask ==
  ASSUME PhoneOk, NEW t \in Threads, NEW share \in BOOLEAN, NEW todo, todo # <<>>,
         todo \in Seq(IF share = TRUE THEN Items \ Messages ELSE Messages),
         Begin(t, Task(todo, share))
  PROVE  PhoneOk' /\ PhoneShape
  <1> USE DEF PhoneOk
  <1> DEFINE y == Task(todo, share)
  <1>1. IsTask(y)
    BY NewTask
  <1>2. /\ y.at = "take" /\ y.todo = todo /\ y.share = share /\ y.chose = "none"
    BY DEF Task
  <1>3. /\ ~Busy(t) /\ Set(t, y)
        /\ disorder' = (disorder \/ (~y.share /\
                   (\/ Len(y.todo) > 1 \/ \E row \in codes : row > Head(y.todo)
                    \/ \E u \in Threads : Busy(u) /\ ~threads[u].share)))
        /\ UNCHANGED <<now, latest, desktop, dates, endpoint, captured, keep, troubles, stored, lost, takes,
                       raced, codes>>
    BY DEF Begin, inboxVars, world, memory
  <1> HIDE DEF y
  <1>4. Moved(t, y)
    BY <1>3, SetMoves DEF Set
  <1>5. SteadyTask(y, desktop.host, desktop.up, Answers(endpoint)')
    BY <1>2 DEF SteadyTask
  <1>6. /\ captured' \in Seq(Messages) /\ keep' \in Keeps /\ takes' \in Seq(Nat) /\ stored' \in [Items -> Nat]
        /\ codes' \subseteq Messages /\ disorder' \in BOOLEAN /\ troubles' \in Nat /\ endpoint' \in Ends
        /\ \A l \in lost' : l \in lost
    BY <1>3 DEF PhoneForm
  <1>7. PhoneOk'
    BY <1>1, <1>3, <1>4, <1>5, <1>6, ThreadForm
  <1>8. ASSUME disorder' = FALSE
        PROVE  /\ disorder = FALSE
               /\ y.share = FALSE =>
                    /\ Len(y.todo) <= 1 /\ \A row \in codes : row <= Head(y.todo)
                    /\ \A u \in Threads : threads[u] # Idle => threads[u].share = TRUE
    <2>1. disorder = FALSE
      BY <1>3, <1>8 DEF PhoneForm
    <2>2. ASSUME share = FALSE
          PROVE  /\ Len(todo) <= 1 /\ \A row \in codes : row <= Head(todo)
                 /\ \A u \in Threads : threads[u] # Idle => threads[u].share = TRUE
      <3>1. /\ ~(Len(todo) > 1) /\ ~(\E row \in codes : row > Head(todo))
            /\ ~(\E u \in Threads : Busy(u) /\ ~threads[u].share)
        BY <1>2, <1>3, <1>8, <2>2
      <3>2. \A u \in Threads : threads[u] # Idle => threads[u].share \in BOOLEAN
        BY DEF PhoneForm, IsTask
      <3>3. \A u \in Threads : threads[u] # Idle => threads[u].share = TRUE
        BY <3>1, <3>2 DEF Busy
      <3>4. todo \in Seq(Messages) /\ Head(todo) \in Messages
        BY <2>2
      <3>5. codes \subseteq Int /\ Head(todo) \in Int
        <4>1. Messages \subseteq Int
          BY InboxAssumption DEF Messages, InboxAssumption
        <4> QED BY <3>4, <4>1 DEF PhoneForm
      <3>6. Len(todo) \in Nat
        BY <3>4
      <3> QED BY <3>1, <3>3, <3>5, <3>6
    <2> QED BY <1>2, <2>1, <2>2
  <1>9. Begins(t)
    BY <1>1, <1>2, <1>3, <1>4, <1>8 DEF Begins, Moved, Others, Busy
  <1> QED BY <1>7, <1>9 DEF PhoneShape

LEMMA StepBegin ==
  ASSUME PhoneOk, InboxAssumption, NEW t \in Threads, Change(t) \/ \E items \in Shares : Share(t, items)
  PROVE  PhoneOk' /\ PhoneShape
  <1>1. ASSUME NEW row \in DOMAIN dates, Begin(t, Task(<<row>>, FALSE)) PROVE PhoneOk' /\ PhoneShape
    <2>1. row \in Messages
      BY <1>1, InboxAssumption DEF InboxAssumption, Messages, PhoneOk, PhoneForm
    <2>2. <<row>> \in Seq(IF FALSE = TRUE THEN Items \ Messages ELSE Messages) /\ <<row>> # <<>>
      BY <2>1
    <2> QED BY <1>1, <2>2, BeginsTask
  <1>2. ASSUME dates # <<>>, Begin(t, Task(ReadSms(Changed), FALSE)) PROVE PhoneOk' /\ PhoneShape
    <2>1. ReadSms(Changed) \in Seq(Messages) /\ ReadSms(Changed) # <<>>
      BY <1>2, ReadTask, PhoneAssumption DEF PhoneOk
    <2>2. ReadSms(Changed) \in Seq(IF FALSE = TRUE THEN Items \ Messages ELSE Messages)
      BY <2>1
    <2> QED BY <1>2, <2>1, <2>2, BeginsTask
  <1>3. ASSUME NEW items \in Shares, Begin(t, Task(items, TRUE)) PROVE PhoneOk' /\ PhoneShape
    <2>1. items # <<>> /\ items \in Seq(ToSet(items)) /\ ToSet(items) \cap Messages = {}
      BY PhoneAssumption DEF Messages
    <2>2. ToSet(items) \subseteq Items \ Messages
      BY <2>1 DEF Items
    <2>3. items \in Seq(Items \ Messages)
      BY <2>1, <2>2, SeqMonotonic
    <2>4. items \in Seq(IF TRUE = TRUE THEN Items \ Messages ELSE Messages)
      BY <2>3
    <2> QED BY <1>3, <2>1, <2>4, BeginsTask
  <1> QED BY <1>1, <1>2, <1>3 DEF Change, Share

LEMMA StepRestart ==
  ASSUME PhoneOk, InboxAssumption, NEW t \in Threads, RestartApp(t)
  PROVE  PhoneOk' /\ PhoneShape
  <1> USE DEF PhoneOk
  <1> DEFINE y == Task(ReadSms(Recent), FALSE)
  <1>1. /\ captured' = <<>> /\ takes' = Append(takes, 0) /\ disorder' = TRUE /\ troubles' \in Nat
        /\ lost' = lost \cup {[item |-> Item(u), why |-> "ended"] :
                                u \in {v \in Threads : Busy(v) /\ ~Ended(v)}}
        /\ threads' = [u \in Threads |-> IF u = t /\ dates # <<>> THEN y ELSE Idle]
        /\ UNCHANGED <<now, latest, desktop, dates, endpoint, stored, raced, codes>>
        /\ keep' = [u \in Threads |-> <<>>]
    BY DEF RestartApp, Trouble, PhoneForm, inboxVars, world, memory
  <1>2. dates # <<>> => IsTask(y)
    <2>1. dates # <<>> => ReadSms(Recent) \in Seq(Messages) /\ ReadSms(Recent) # <<>>
      BY ReadTask, PhoneAssumption
    <2>2. dates # <<>> => ReadSms(Recent) \in Seq(IF FALSE = TRUE THEN Items \ Messages ELSE Messages)
      BY <2>1
    <2> QED BY <2>1, <2>2, NewTask
  <1>3. y.at = "take" /\ y.chose = "none"
    BY DEF Task
  <1> HIDE DEF y
  <1>4. \A u \in Threads : /\ threads'[u] = Idle \/ IsTask(threads'[u])
                           /\ threads'[u] = Idle \/ (threads'[u].at = "take" /\ threads'[u].chose = "none")
    BY <1>1, <1>2, <1>3
  <1>5. \A l \in lost' : l \in lost \/ l.why = "ended"
    BY <1>1
  <1>6. threads' = [u \in Threads |-> threads'[u]]
    BY <1>1
  <1>7. captured' \in Seq(Messages) /\ keep' \in Keeps /\ takes' \in Seq(Nat)
    <2>1. <<>> \in Seq(Messages)
      OBVIOUS
    <2> QED BY <1>1, <2>1 DEF PhoneForm, Keeps
  <1>8. PhoneForm'
    BY <1>1, <1>4, <1>6, <1>7 DEF PhoneForm
  <1>9. SteadyInv'
    BY <1>4, <1>5 DEF SteadyInv, SteadyTask
  <1>10. Restarts
    BY <1>1, <1>4 DEF Restarts
  <1> QED BY <1>8, <1>9, <1>10 DEF PhoneShape

LEMMA PhoneStarts ==
  ASSUME InboxInit, PhoneInit, InboxAssumption
  PROVE  PhoneOk
  <1> USE DEF InboxInit, PhoneInit
  <1>1. PICK h \in Hosts : desktop = [host |-> h, up |-> TRUE, urls |-> ConnectUrls(h)]
    OBVIOUS
  <1>2. /\ desktop = [host |-> desktop.host, up |-> desktop.up, urls |-> desktop.urls]
        /\ desktop.host \in Hosts /\ desktop.up \in BOOLEAN /\ desktop.urls \subseteq Ends
    BY <1>1, EndsFacts
  <1>3. Len(Runs) \in Nat /\ Len(dates) = 0 /\ dates \in Seq(Nat)
    BY DEF InboxAssumption
  <1>4. /\ captured \in Seq(Messages) /\ keep \in Keeps /\ takes \in Seq(Nat) /\ stored \in [Items -> Nat]
        /\ threads = [t \in Threads |-> threads[t]] /\ \A t \in Threads : threads[t] = Idle
    <2>1. <<>> \in Seq(Messages)
      OBVIOUS
    <2> QED BY <2>1 DEF Keeps
  <1>5. PhoneForm
    <2>1. now \in Nat /\ troubles \in Nat /\ codes \subseteq Messages /\ disorder \in BOOLEAN
      OBVIOUS
    <2>2. endpoint \in Ends
      BY EndsFacts
    <2>3. Len(dates) <= Len(Runs)
      BY <1>3
    <2> QED BY <1>2, <1>3, <1>4, <2>1, <2>2, <2>3 DEF PhoneForm
  <1>6. SteadyInv
    BY DEF SteadyInv, SteadyTask
  <1> QED BY <1>5, <1>6 DEF PhoneOk

LEMMA PhoneSteps ==
  ASSUME PhoneOk, InboxAssumption,
         [PhoneNext \/ (InboxTick /\ UNCHANGED phoneVars)]_<<inboxVars, phoneVars>>
  PROVE  PhoneOk' /\ PhoneShape
  <1>1. \/ Stop \/ Start \/ Receive \/ (\E h \in Hosts : Move(h))
        \/ (\E url \in desktop.urls : SaveAndCheck(url))
        \/ (InboxTick /\ UNCHANGED phoneVars) \/ UNCHANGED <<inboxVars, phoneVars>>
        \/ \E t \in Threads :
             \/ RestartApp(t) \/ Change(t) \/ (\E items \in Shares : Share(t, items))
             \/ Take(t) \/ Insert(t) \/ Hello(t) \/ Discover(t) \/ Check(t) \/ Post(t) \/ Inbox(t)
             \/ Broken(t) \/ (Size(t) \/ List(t) \/ Clear(t) \/ AddAgain(t))
    BY DEF PhoneNext
  <1>2. CASE Stop \/ Start \/ (\E h \in Hosts : Move(h)) \/ (\E url \in desktop.urls : SaveAndCheck(url))
    BY <1>2, StepStop, StepStart, StepMove, StepSaveAndCheck
  <1>3. CASE Receive \/ (InboxTick /\ UNCHANGED phoneVars) \/ UNCHANGED <<inboxVars, phoneVars>>
    BY <1>3, StepReceive
  <1>4. ASSUME NEW t \in Threads, RestartApp(t) PROVE PhoneOk' /\ PhoneShape
    BY <1>4, StepRestart
  <1>5. ASSUME NEW t \in Threads, Change(t) \/ \E items \in Shares : Share(t, items)
        PROVE  PhoneOk' /\ PhoneShape
    BY <1>5, StepBegin
  <1>6. ASSUME NEW t \in Threads,
               Take(t) \/ Insert(t) \/ Hello(t) \/ Discover(t) \/ Check(t) \/ Post(t) \/ Inbox(t) \/ Broken(t)
        PROVE  PhoneOk' /\ PhoneShape
    BY <1>6, StepTake, StepInsert, StepHello, StepDiscover, StepCheck, StepPost, StepInbox, StepBroken
  <1>7. ASSUME NEW t \in Threads, Size(t) \/ List(t) \/ Clear(t) \/ AddAgain(t)
        PROVE  PhoneOk' /\ PhoneShape
    BY <1>7, StepTrim
  <1> QED BY <1>1, <1>2, <1>3, <1>4, <1>5, <1>6, <1>7

-----------------------------------------------------------------------------
(* The newest code.                                                         *)

Messenger(x) == x # Idle /\ x.share = FALSE

\* As long as nothing brought the messages out of order, at most one thread has a
\* message, one only, and it is no older than the codes the desktop has recorded.
OneMessenger == \A t, u \in Threads : Messenger(threads[t]) /\ Messenger(threads[u]) => t = u
MessengerFits(x, rows) == Messenger(x) => Len(x.todo) = 1 /\ \A row \in rows : row <= Head(x.todo)
OrderInv ==
  disorder = FALSE =>
    /\ OneMessenger /\ \A t \in Threads : MessengerFits(threads[t], codes)
    /\ latest # NoCode => \A row \in codes : row <= latest.row

LEMMA OneItem ==
  ASSUME NEW S, NEW q \in Seq(S), Len(q) <= 1, q # <<>>
  PROVE  Len(q) = 1 /\ Tail(q) = <<>>
  <1>1. Len(q) = 1
    <2>1. Len(q) \in Nat \ {0}
      BY EmptySeq
    <2> QED BY <2>1
  <1>2. Tail(q) \in Seq(S) /\ Len(Tail(q)) = 0
    BY <1>1, HeadTailProperties
  <1> QED BY <1>1, <1>2, EmptySeq

\* A step after which the messengers are among those of before, with their items.
LEMMA MessengersStay ==
  ASSUME OrderInv, disorder = FALSE,
         \A u \in Threads : Messenger(threads'[u]) =>
            Messenger(threads[u]) /\ threads'[u].todo = threads[u].todo,
         UNCHANGED <<latest, codes>> \/ (latest' = NoCode /\ codes' = {})
  PROVE  OrderInv'
  <1>1. OneMessenger'
    BY DEF OrderInv, OneMessenger
  <1>2. \A t \in Threads : MessengerFits(threads'[t], codes')
    BY DEF OrderInv, MessengerFits
  <1>3. latest' # NoCode => \A row \in codes' : row <= latest'.row
    BY DEF OrderInv
  <1> QED BY <1>1, <1>2, <1>3 DEF OrderInv

LEMMA OrderKept ==
  ASSUME PhoneOk, PhoneOk', OrderInv, PhoneShape, InboxAssumption
  PROVE  OrderInv'
  <1> USE DEF PhoneOk
  <1> SUFFICES ASSUME disorder' = FALSE PROVE OrderInv'
    BY DEF OrderInv
  <1>1. ~Restarts
    BY DEF Restarts
  <1>2. CASE Quiet
    <2>1. \A u \in Threads : Messenger(threads'[u]) =>
            Messenger(threads[u]) /\ threads'[u].todo = threads[u].todo
      BY <1>2, TaskBusy DEF Quiet, SameItem, Messenger
    <2>2. disorder = FALSE /\ (UNCHANGED <<latest, codes>> \/ (latest' = NoCode /\ codes' = {}))
      BY <1>2 DEF Quiet
    <2> QED BY <2>1, <2>2, MessengersStay
  <1>3. ASSUME NEW t \in Threads, Leaves(t) \/ Trims(t) PROVE OrderInv'
    <2>1. disorder = FALSE /\ IsTask(threads[t]) /\ threads[t] # Idle
          /\ \A u \in Threads \ {t} : threads'[u] = threads[u]
      BY <1>3, BusyTask DEF Leaves, Trims, Others, Busy
    <2>2. \/ Followed(threads[t], threads'[t])
          \/ IsTask(threads'[t]) /\ threads'[t].todo = threads[t].todo /\ threads'[t].share = threads[t].share
      BY <1>3 DEF Leaves, Trims, DoneWith, Stays
    <2>3. Followed(threads[t], threads'[t]) => ~Messenger(threads'[t])
      <3> SUFFICES ASSUME Followed(threads[t], threads'[t]) PROVE ~Messenger(threads'[t])
        OBVIOUS
      <3>1. CASE Messenger(threads[t])
        <4>1. Len(threads[t].todo) = 1
          BY <2>1, <3>1 DEF OrderInv, MessengerFits
        <4>2. threads[t].todo \in Seq(Messages) /\ threads[t].todo # <<>>
          BY <2>1, <3>1 DEF IsTask, Messenger
        <4>3. Tail(threads[t].todo) = <<>>
          <5>1. Len(threads[t].todo) <= 1
            BY <4>1
          <5> QED BY <4>2, <5>1, OneItem
        <4> QED BY <4>3 DEF Followed, Messenger
      <3>2. CASE ~Messenger(threads[t])
        BY <2>1, <3>2 DEF Followed, IsTask, Messenger
      <3> QED BY <3>1, <3>2
    <2>4. \A u \in Threads : Messenger(threads'[u]) =>
            Messenger(threads[u]) /\ threads'[u].todo = threads[u].todo
      BY <2>1, <2>2, <2>3 DEF Messenger
    <2>5. CASE UNCHANGED <<latest, codes>>
      BY <2>1, <2>4, <2>5, MessengersStay
    <2>6. CASE /\ threads[t].at = "inbox" /\ threads[t].share = FALSE
               /\ latest'.row = Item(t) /\ codes' = codes \cup {Item(t)}
      <3>1. Messenger(threads[t]) /\ \A row \in codes : row <= Item(t)
        BY <2>1, <2>6 DEF OrderInv, Item, Messenger, MessengerFits
      <3>2. Item(t) \in Int
        <4>1. Item(t) \in Messages
          BY <2>1, <2>6, BusyTask DEF Busy
        <4>2. Messages \subseteq Int
          BY DEF InboxAssumption, Messages
        <4> QED BY <4>1, <4>2
      <3>3. codes \subseteq Int
        BY DEF InboxAssumption, Messages, PhoneForm
      <3>4. \A row \in codes' : row <= Item(t)
        BY <2>6, <3>1, <3>2, <3>3
      <3>5. \A u \in Threads : Messenger(threads'[u]) => u = t
        BY <2>1, <2>4, <3>1 DEF OrderInv, OneMessenger
      <3>6. \A u \in Threads : MessengerFits(threads'[u], codes')
        <4>1. Messenger(threads'[t]) => Len(threads'[t].todo) = 1 /\ Head(threads'[t].todo) = Item(t)
          BY <2>1, <2>4 DEF OrderInv, MessengerFits, Item
        <4> QED BY <3>4, <3>5, <4>1 DEF MessengerFits
      <3>7. latest' # NoCode => \A row \in codes' : row <= latest'.row
        BY <2>6, <3>4
      <3> QED BY <3>5, <3>6, <3>7 DEF OrderInv, OneMessenger
    <2> QED BY <1>3, <2>5, <2>6 DEF Leaves, Trims
  <1>4. ASSUME NEW t \in Threads, Begins(t) PROVE OrderInv'
    <2> DEFINE y == threads'[t]
    <2>1. /\ disorder = FALSE /\ IsTask(y) /\ threads[t] = Idle /\ UNCHANGED <<latest, codes>>
          /\ \A u \in Threads \ {t} : threads'[u] = threads[u]
          /\ y.share = FALSE =>
               /\ Len(y.todo) <= 1 /\ \A row \in codes : row <= Head(y.todo)
               /\ \A u \in Threads : threads[u] # Idle => threads[u].share = TRUE
      BY <1>4 DEF Begins, Others
    <2>2. MessengerFits(y, codes)
      <3> SUFFICES ASSUME y.share = FALSE PROVE Len(y.todo) = 1 /\ \A row \in codes : row <= Head(y.todo)
        BY DEF MessengerFits, Messenger
      <3>1. y.todo \in Seq(Messages) /\ y.todo # <<>>
        BY <2>1 DEF IsTask
      <3> QED BY <2>1, <3>1, OneItem
    <2> HIDE DEF y
    <2>3. \A u \in Threads : threads'[u] = IF u = t THEN y ELSE threads[u]
      BY <2>1 DEF y
    <2>4. Messenger(y) => \A u \in Threads : ~Messenger(threads[u])
      BY <2>1 DEF Messenger
    <2>5. OneMessenger'
      BY <2>1, <2>3, <2>4 DEF OrderInv, OneMessenger
    <2>6. \A u \in Threads : MessengerFits(threads'[u], codes')
      BY <2>1, <2>2, <2>3 DEF OrderInv
    <2> QED BY <2>1, <2>5, <2>6 DEF OrderInv
  <1>5. ASSUME NEW t \in Threads, Inserts(t) \/ Stores(t) PROVE OrderInv'
    <2>1. /\ disorder = FALSE /\ UNCHANGED <<latest, codes>> /\ threads[t] # Idle
          /\ \A u \in Threads \ {t} : threads'[u] = threads[u]
          /\ threads'[t].todo = threads[t].todo /\ threads'[t].share = threads[t].share
      BY <1>5 DEF Inserts, Stores, Others, Busy
    <2>2. \A u \in Threads : Messenger(threads'[u]) =>
            Messenger(threads[u]) /\ threads'[u].todo = threads[u].todo
      BY <2>1 DEF Messenger
    <2> QED BY <2>1, <2>2, MessengersStay
  <1> QED BY <1>1, <1>2, <1>3, <1>4, <1>5 DEF PhoneShape

\* Whatever the threads of the app, the network and the desktop do, the code the
\* desktop offers is the newest it has recorded, unless one of the named causes
\* brought the messages out of order.
THEOREM NewestOffered == PhoneSpec => []NewestCodeOffered
  <1>1. InboxInit /\ PhoneInit => PhoneOk /\ OrderInv
    <2> SUFFICES ASSUME InboxInit, PhoneInit PROVE PhoneOk /\ OrderInv
      OBVIOUS
    <2>1. OrderInv
      BY DEF OrderInv, InboxInit, PhoneInit, OneMessenger, MessengerFits, Messenger
    <2> QED BY <2>1, PhoneStarts, InboxAssumption
  <1>2. PhoneOk /\ OrderInv
        /\ [PhoneNext \/ (InboxTick /\ UNCHANGED phoneVars)]_<<inboxVars, phoneVars>>
        => (PhoneOk /\ OrderInv)'
    BY PhoneSteps, OrderKept, InboxAssumption
  <1>3. PhoneOk /\ OrderInv => NewestCodeOffered
    <2> SUFFICES ASSUME PhoneOk, OrderInv, ~disorder, NEW row \in codes, Offered # NoCode
                 PROVE  Offered.row >= row
      BY DEF NewestCodeOffered
    <2>1. disorder = FALSE /\ Offered = latest /\ latest # NoCode
      BY DEF PhoneOk, PhoneForm, Offered
    <2>2. row <= latest.row
      BY <2>1 DEF OrderInv
    <2> QED BY <2>1, <2>2
  <1> QED BY <1>1, <1>2, <1>3, PTL DEF PhoneSpec

-----------------------------------------------------------------------------
(* Every message taken up is stored, in a thread's hands, or given up.      *)

Carried(x, row) == Messenger(x) /\ Head(x.todo) = row /\ x.at \in Carrying
AllRows == ToSet(captured) \cup UNION {ToSet(keep[t]) : t \in Threads}
AccountInv ==
  /\ \A row \in AllRows :
       \/ stored[row] > 0
       \/ \E t \in Threads : Carried(threads[t], row)
       \/ \E l \in lost : l.item = row
  /\ \A t \in Threads : Messenger(threads[t]) /\ threads[t].at = "inbox" => stored[Head(threads[t].todo)] > 0

LEMMA AppendedRows ==
  ASSUME NEW S, NEW q \in Seq(S), NEW n \in S
  PROVE  ToSet(Append(q, n)) = ToSet(q) \cup {n}
  <1> DEFINE z == Append(q, n)
  <1>1. /\ DOMAIN z = 1..(Len(q) + 1) /\ DOMAIN q = 1..Len(q) /\ Len(q) \in Nat
        /\ \A i \in 1..Len(q) : z[i] = q[i]
        /\ z[Len(q) + 1] = n
    OBVIOUS
  <1> HIDE DEF z
  <1>2. \A i : i \in DOMAIN z <=> i \in DOMAIN q \/ i = Len(q) + 1
    BY <1>1
  <1>3. \A i \in DOMAIN z : z[i] \in ToSet(q) \cup {n}
    BY <1>1, <1>2 DEF ToSet
  <1>4. \A i \in DOMAIN q : q[i] \in ToSet(z)
    BY <1>1, <1>2 DEF ToSet
  <1>5. n \in ToSet(z)
    BY <1>1, <1>2 DEF ToSet
  <1>6. ToSet(z) \subseteq ToSet(q) \cup {n}
    BY <1>3 DEF ToSet
  <1>7. ToSet(q) \subseteq ToSet(z)
    BY <1>4 DEF ToSet
  <1> QED BY <1>5, <1>6, <1>7 DEF z

LEMMA RowsSame == UNCHANGED <<captured, keep>> => AllRows' = AllRows
  BY DEF AllRows

\* A trim adds no row that was not remembered.
LEMMA TrimmedRows ==
  ASSUME PhoneForm, NEW t \in Threads, Trims(t)
  PROVE  AllRows' \subseteq AllRows
  <1>1. captured \in Seq(Messages) /\ keep \in Keeps /\ keep[t] \in Seq(Messages)
    BY DEF PhoneForm, Keeps
  <1>2. \A u \in Threads : ToSet(keep[u]) \subseteq AllRows
    BY DEF AllRows
  <1>3. ToSet(captured) \subseteq AllRows
    BY DEF AllRows
  <1>4. CASE UNCHANGED <<captured, keep>>
    BY <1>4, RowsSame
  <1>5. ASSUME NEW z \in Seq(Messages), keep' = [keep EXCEPT ![t] = z], ToSet(z) \subseteq AllRows,
               ToSet(captured') \subseteq AllRows
        PROVE  AllRows' \subseteq AllRows
    <2>1. \A u \in Threads : keep'[u] = IF u = t THEN z ELSE keep[u]
      BY <1>1, <1>5 DEF Keeps
    <2>2. \A u \in Threads : ToSet(keep'[u]) \subseteq AllRows
      BY <1>2, <1>5, <2>1
    <2> QED BY <1>5, <2>2 DEF AllRows
  <1>6. CASE keep' = [keep EXCEPT ![t] = Newest(captured)] /\ UNCHANGED captured
    <2>1. Newest(captured) \in Seq(Messages) /\ ToSet(Newest(captured)) \subseteq ToSet(captured)
      <3> DEFINE c == Len(captured)
                 n == IF KeptRows < c THEN KeptRows ELSE c
      <3>1. /\ n \in Nat /\ n <= c
            /\ Newest(captured) \in Seq(Messages) /\ DOMAIN Newest(captured) = 1..n
            /\ \A i \in 1..n : Newest(captured)[i] = captured[c - n + i]
        BY <1>1, NewestRows
      <3>2. DOMAIN captured = 1..c /\ c \in Nat
        BY <1>1
      <3> HIDE DEF n, c
      <3>3. \A i \in 1..n : c - n + i \in DOMAIN captured
        BY <3>1, <3>2
      <3> QED BY <3>1, <3>3 DEF ToSet
    <2> QED BY <1>3, <1>5, <1>6, <2>1
  <1>7. CASE captured' = <<>> /\ UNCHANGED keep
    <2>1. ToSet(captured') = {}
      BY <1>7 DEF ToSet
    <2> QED BY <1>7, <2>1 DEF AllRows
  <1>8. CASE /\ captured' = IF keep[t] = <<>> \/ Head(keep[t]) \in ToSet(captured) THEN captured
                            ELSE Append(captured, Head(keep[t]))
             /\ keep' = [keep EXCEPT ![t] = SubSeq(keep[t], 2, Len(keep[t]))]
    <2> DEFINE k == keep[t]
               z == SubSeq(k, 2, Len(k))
    <2>1. z \in Seq(Messages) /\ ToSet(z) \subseteq ToSet(k) /\ (k # <<>> => Head(k) \in ToSet(k))
      <3>1. k \in Seq(Messages) /\ DOMAIN k = 1..Len(k) /\ Len(k) \in Nat
        BY <1>1
      <3> HIDE DEF k
      <3>2. z \in Seq(Messages) /\ \A i \in DOMAIN z : i + 1 \in DOMAIN k /\ z[i] = k[i + 1]
        BY <3>1
      <3>3. k # <<>> => 1 \in DOMAIN k /\ Head(k) = k[1]
        BY <3>1
      <3> HIDE DEF z
      <3> QED BY <3>2, <3>3 DEF ToSet
    <2>2. ToSet(captured') \subseteq ToSet(captured) \cup ToSet(k)
      <3>1. CASE captured' = captured
        BY <3>1
      <3>2. CASE k # <<>> /\ captured' = Append(captured, Head(k))
        BY <1>1, <2>1, <3>2, AppendedRows
      <3> QED BY <1>8, <3>1, <3>2
    <2> HIDE DEF z
    <2> QED BY <1>2, <1>3, <1>5, <1>8, <2>1, <2>2 DEF z
  <1> QED BY <1>4, <1>6, <1>7, <1>8 DEF Trims

LEMMA AccountKept ==
  ASSUME PhoneOk, PhoneOk', AccountInv, PhoneShape, InboxAssumption
  PROVE  AccountInv'
  <1> USE DEF PhoneOk
  <1>1. CASE Quiet
    <2>1. /\ UNCHANGED <<captured, keep, stored, lost>>
          /\ \A t \in Threads : Messenger(threads'[t]) =>
               /\ Messenger(threads[t]) /\ threads'[t].todo = threads[t].todo
               /\ threads'[t].at = "inbox" => threads[t].at = "inbox"
          /\ \A t \in Threads : Messenger(threads[t]) /\ threads[t].at \in Carrying =>
               Messenger(threads'[t]) /\ threads'[t].at \in Carrying /\ threads'[t].todo = threads[t].todo
      BY <1>1, TaskBusy DEF Quiet, SameItem, Messenger
    <2> QED BY <2>1, RowsSame DEF AccountInv, Carried
  <1>2. CASE Restarts
    <2>1. AllRows' = {}
      BY <1>2 DEF Restarts, ToSet, AllRows
    <2>2. \A t \in Threads : Messenger(threads'[t]) => threads'[t].at # "inbox"
      BY <1>2 DEF Restarts, Messenger
    <2> QED BY <2>1, <2>2 DEF AccountInv
  <1>3. ASSUME NEW t \in Threads, Leaves(t) PROVE AccountInv'
    <2>1. AllRows' = AllRows
      BY <1>3, RowsSame DEF Leaves
    <2>2. /\ UNCHANGED stored /\ lost \subseteq lost'
          /\ \A u \in Threads \ {t} : threads'[u] = threads[u]
          /\ Messenger(threads'[t]) => threads'[t].at \in {"take", "size"}
      BY <1>3 DEF Leaves, Others, Followed, DoneWith, Messenger
    <2>3. ASSUME NEW row \in AllRows', Carried(threads[t], row)
          PROVE  stored[row] > 0 \/ \E l \in lost' : l.item = row
      <3>1. threads[t].share = FALSE /\ Item(t) = row /\ threads[t].at \in Carrying /\ Messenger(threads[t])
        BY <2>3 DEF Carried, Messenger, Item
      <3>2. threads[t].at # "take"
        BY <3>1 DEF Carrying, Sending
      <3>3. threads[t].at = "inbox" \/ \E l \in lost' : l.item = Item(t)
        BY <1>3, <3>1, <3>2 DEF Leaves
      <3>4. threads[t].at = "inbox" => stored[row] > 0
        BY <3>1 DEF AccountInv, Item
      <3> QED BY <3>1, <3>3, <3>4
    <2>4. \A row \in AllRows' :
            \/ stored'[row] > 0
            \/ \E u \in Threads : Carried(threads'[u], row)
            \/ \E l \in lost' : l.item = row
      BY <2>1, <2>2, <2>3 DEF AccountInv
    <2> QED BY <2>2, <2>4 DEF AccountInv
  <1>4. ASSUME NEW t \in Threads, Begins(t) PROVE AccountInv'
    <2>1. /\ UNCHANGED <<captured, keep, stored, lost>> /\ threads[t] = Idle /\ threads'[t].at = "take"
          /\ \A u \in Threads \ {t} : threads'[u] = threads[u]
      BY <1>4 DEF Begins, Others
    <2> QED BY <2>1, RowsSame DEF AccountInv, Carried, Messenger
  <1>5. ASSUME NEW t \in Threads, Inserts(t) PROVE AccountInv'
    <2>1. /\ UNCHANGED <<stored, lost>> /\ threads'[t].at = "hello" /\ Messenger(threads'[t])
          /\ threads[t].at = "insert" /\ threads'[t].todo = threads[t].todo
          /\ \A u \in Threads \ {t} : threads'[u] = threads[u]
      BY <1>5, TaskBusy DEF Inserts, Others, Messenger
    <2>2. AllRows' \subseteq AllRows \cup {Item(t)}
      <3>1. captured \in Seq(Messages) /\ Item(t) \in Messages
        BY <1>5, BusyTask DEF Inserts, PhoneForm
      <3>2. ToSet(captured') \subseteq ToSet(captured) \cup {Item(t)}
        BY <1>5, <3>1, AppendedRows DEF Inserts
      <3>3. keep' = keep
        BY <1>5 DEF Inserts
      <3> QED BY <3>2, <3>3 DEF AllRows
    <2>3. Carried(threads'[t], Item(t))
      BY <2>1 DEF Carried, Item, Carrying, Sending
    <2>4. threads[t].at \notin Carrying
      BY <2>1 DEF Carrying, Sending
    <2> QED BY <2>1, <2>2, <2>3, <2>4 DEF AccountInv, Carried
  <1>6. ASSUME NEW t \in Threads, Stores(t) PROVE AccountInv'
    <2>1. /\ UNCHANGED <<captured, keep, lost>> /\ threads'[t].at = "inbox" /\ threads[t].at = "post"
          /\ threads'[t].todo = threads[t].todo /\ threads'[t].share = threads[t].share
          /\ threads'[t] # Idle /\ threads[t] # Idle
          /\ \A u \in Threads \ {t} : threads'[u] = threads[u]
      BY <1>6, TaskBusy DEF Stores, Others, Busy
    <2>2. Item(t) \in Items /\ stored \in [Items -> Nat]
      BY <1>6, BusyTask DEF Stores, PhoneForm
    <2>3. /\ stored'[Item(t)] > 0
          /\ \A row \in Items : stored[row] > 0 => stored'[row] > 0
      BY <1>6, <2>2 DEF Stores
    <2>4. AllRows \subseteq Items /\ AllRows' = AllRows
      <3>1. captured \in Seq(Messages) /\ \A u \in Threads : keep[u] \in Seq(Messages)
        BY DEF PhoneForm, Keeps
      <3>2. \A q \in Seq(Messages) : ToSet(q) \subseteq Items
        BY DEF ToSet, Items
      <3>3. AllRows \subseteq Items
        BY <3>1, <3>2 DEF AllRows
      <3> QED BY <2>1, <3>3, RowsSame
    <2>5. \A u \in Threads : Messenger(threads[u]) => Head(threads[u].todo) \in Items
      BY BusyTask DEF Messenger, Busy, Item
    <2>6. \A row : Carried(threads[t], row) => row = Item(t)
      BY DEF Carried, Item
    <2>7. \A row \in AllRows :
            stored'[row] > 0 \/ (\E u \in Threads : Carried(threads'[u], row)) \/ \E l \in lost : l.item = row
      BY <2>1, <2>3, <2>4, <2>6 DEF AccountInv
    <2>8. \A u \in Threads : Messenger(threads'[u]) /\ threads'[u].at = "inbox"
            => stored'[Head(threads'[u].todo)] > 0
      <3>1. ASSUME NEW u \in Threads \ {t}, Messenger(threads'[u]), threads'[u].at = "inbox"
            PROVE  stored'[Head(threads'[u].todo)] > 0
        BY <2>1, <2>3, <2>5, <3>1 DEF AccountInv
      <3>2. stored'[Head(threads'[t].todo)] > 0
        BY <2>1, <2>3 DEF Item
      <3> QED BY <3>1, <3>2
    <2> QED BY <2>1, <2>4, <2>7, <2>8 DEF AccountInv
  <1>7. ASSUME NEW t \in Threads, Trims(t) PROVE AccountInv'
    <2>1. AllRows' \subseteq AllRows
      BY <1>7, TrimmedRows
    <2>2. /\ UNCHANGED <<stored, lost>> /\ \A u \in Threads \ {t} : threads'[u] = threads[u]
          /\ threads[t].at \notin Carrying
          /\ Messenger(threads'[t]) => threads'[t].at # "inbox"
      BY <1>7 DEF Trims, Others, Followed, Stays, Messenger, Carrying, Sending
    <2>3. \A row : Carried(threads[t], row) => FALSE
      BY <2>2 DEF Carried
    <2>4. \A row : \A u \in Threads : Carried(threads[u], row) => Carried(threads'[u], row)
      BY <2>2, <2>3
    <2> QED BY <2>1, <2>2, <2>4 DEF AccountInv
  <1> QED BY <1>1, <1>2, <1>3, <1>4, <1>5, <1>6, <1>7 DEF PhoneShape

Senders(row) ==
  {t \in Threads : Messenger(threads[t]) /\ Head(threads[t].todo) = row /\ threads[t].at \in Sending}
TakesOf(row) == {i \in DOMAIN takes : takes[i] = row}
CountInv == \A row \in Messages : stored[row] + Cardinality(Senders(row)) <= Cardinality(TakesOf(row))

LEMMA CountForm ==
  ASSUME PhoneForm
  PROVE  \A row \in Messages :
           /\ IsFiniteSet(Senders(row)) /\ Cardinality(Senders(row)) \in Nat
           /\ IsFiniteSet(TakesOf(row)) /\ Cardinality(TakesOf(row)) \in Nat
           /\ stored[row] \in Nat /\ row \in Items
  <1> SUFFICES ASSUME NEW row \in Messages
               PROVE  /\ IsFiniteSet(Senders(row)) /\ Cardinality(Senders(row)) \in Nat
                      /\ IsFiniteSet(TakesOf(row)) /\ Cardinality(TakesOf(row)) \in Nat
                      /\ stored[row] \in Nat /\ row \in Items
    OBVIOUS
  <1>1. IsFiniteSet(Threads) /\ Senders(row) \subseteq Threads
    BY PhoneAssumption DEF Senders
  <1>2. IsFiniteSet(1..Len(takes)) /\ DOMAIN takes = 1..Len(takes)
    <2>1. Len(takes) \in Nat /\ DOMAIN takes = 1..Len(takes)
      BY DEF PhoneForm
    <2>2. Len(takes) \in Int /\ 1 \in Int
      BY <2>1
    <2> QED BY <2>1, <2>2, FS_Interval
  <1>3. TakesOf(row) \subseteq 1..Len(takes)
    BY <1>2 DEF TakesOf
  <1>4. IsFiniteSet(Senders(row)) /\ IsFiniteSet(TakesOf(row))
    BY <1>1, <1>2, <1>3, FS_Subset
  <1>5. row \in Items /\ stored[row] \in Nat
    BY DEF Items, PhoneForm
  <1> QED BY <1>4, <1>5, FS_CardinalityType

\* No more senders, nothing stored or taken up.
LEMMA CountSame ==
  ASSUME PhoneForm, CountInv, UNCHANGED stored, PhoneForm',
         \A row \in Messages : Senders(row)' \subseteq Senders(row) /\ TakesOf(row)' = TakesOf(row)
  PROVE  CountInv'
  <1> SUFFICES ASSUME NEW row \in Messages
               PROVE  stored'[row] + Cardinality(Senders(row)') <= Cardinality(TakesOf(row)')
    BY DEF CountInv
  <1>1. /\ IsFiniteSet(Senders(row)) /\ Cardinality(Senders(row)) \in Nat
        /\ Cardinality(TakesOf(row)) \in Nat /\ stored[row] \in Nat
    BY CountForm
  <1>2. Cardinality(Senders(row)') <= Cardinality(Senders(row)) /\ Cardinality(Senders(row)') \in Nat
    <2>1. Senders(row)' \subseteq Senders(row)
      OBVIOUS
    <2> QED BY <1>1, <2>1, FS_Subset, FS_CardinalityType
  <1>3. stored[row] + Cardinality(Senders(row)) <= Cardinality(TakesOf(row))
    BY DEF CountInv
  <1> QED BY <1>1, <1>2, <1>3

LEMMA TakesGrow ==
  ASSUME PhoneForm, NEW n, takes' = Append(takes, n), n \in Nat
  PROVE  /\ \A row : row # n => TakesOf(row)' = TakesOf(row)
         /\ Len(takes) + 1 \notin TakesOf(n) /\ TakesOf(n)' = TakesOf(n) \cup {Len(takes) + 1}
  <1>1. /\ DOMAIN takes = 1..Len(takes) /\ Len(takes) \in Nat /\ DOMAIN takes' = 1..(Len(takes) + 1)
        /\ \A i \in 1..Len(takes) : takes'[i] = takes[i]
        /\ takes'[Len(takes) + 1] = n
    BY DEF PhoneForm
  <1>2. \A i : i \in DOMAIN takes' <=> i \in DOMAIN takes \/ i = Len(takes) + 1
    BY <1>1
  <1>3. Len(takes) + 1 \notin DOMAIN takes
    BY <1>1
  <1> HIDE DEF PhoneForm
  <1> QED BY <1>1, <1>2, <1>3 DEF TakesOf

\* The rows taken up, with a row and two marks more.
LEMMA MarkedForm ==
  ASSUME PhoneForm, NEW n \in Nat, takes' = takes \o <<0, n, 0>>
  PROVE  /\ Len(takes) \in Nat /\ Len(takes') = Len(takes) + 3
         /\ DOMAIN takes = 1..Len(takes) /\ DOMAIN takes' = 1..(Len(takes) + 3)
         /\ \A i \in 1..Len(takes) : takes'[i] = takes[i]
         /\ takes'[Len(takes) + 1] = 0 /\ takes'[Len(takes) + 2] = n /\ takes'[Len(takes) + 3] = 0
  <1> DEFINE z == <<0, n, 0>>
  <1>1. takes \in Seq(Nat) /\ z \in Seq(Nat) /\ Len(z) = 3 /\ z[1] = 0 /\ z[2] = n /\ z[3] = 0
    BY DEF PhoneForm
  <1> HIDE DEF z
  <1>2. takes' = takes \o z
    BY DEF z
  <1> QED BY <1>1, <1>2

LEMMA TakesMarked ==
  ASSUME PhoneForm, NEW n \in Nat, n # 0, takes' = takes \o <<0, n, 0>>
  PROVE  /\ \A row : row # n /\ row # 0 => TakesOf(row)' = TakesOf(row)
         /\ Len(takes) + 2 \notin TakesOf(n) /\ TakesOf(n)' = TakesOf(n) \cup {Len(takes) + 2}
  <1> DEFINE m == Len(takes)
  <1>1. /\ m \in Nat /\ DOMAIN takes = 1..m /\ DOMAIN takes' = 1..(m + 3)
        /\ \A i \in 1..m : takes'[i] = takes[i]
        /\ takes'[m + 1] = 0 /\ takes'[m + 2] = n /\ takes'[m + 3] = 0
    BY MarkedForm
  <1> HIDE DEF m
  <1>2. \A i : i \in DOMAIN takes' <=> i \in DOMAIN takes \/ i = m + 1 \/ i = m + 2 \/ i = m + 3
    BY <1>1
  <1>3. m + 2 \notin DOMAIN takes
    BY <1>1
  <1>4. \A i \in DOMAIN takes : takes'[i] = takes[i]
    BY <1>1
  <1>5. \A row : row # n /\ row # 0 => TakesOf(row)' = TakesOf(row)
    BY <1>1, <1>2, <1>4 DEF TakesOf
  <1>6. TakesOf(n)' = TakesOf(n) \cup {m + 2}
    BY <1>1, <1>2, <1>4 DEF TakesOf
  <1>7. m + 2 \notin TakesOf(n)
    BY <1>3 DEF TakesOf
  <1> QED BY <1>5, <1>6, <1>7 DEF m

LEMMA CountKept ==
  ASSUME PhoneOk, PhoneOk', CountInv, PhoneShape, InboxAssumption
  PROVE  CountInv'
  <1> USE DEF PhoneOk
  <1>1. CASE Quiet
    <2>1. /\ UNCHANGED <<stored, takes>>
          /\ \A t \in Threads : Messenger(threads'[t]) /\ threads'[t].at \in Sending =>
               /\ Messenger(threads[t]) /\ threads'[t].todo = threads[t].todo
               /\ threads[t].at \in Sending
      BY <1>1, TaskBusy DEF Quiet, SameItem, Messenger
    <2>2. \A row \in Messages : Senders(row)' \subseteq Senders(row) /\ TakesOf(row)' = TakesOf(row)
      BY <2>1 DEF Senders, TakesOf
    <2> QED BY <2>1, <2>2, CountSame
  <1>2. CASE Restarts
    <2>1. UNCHANGED stored /\ takes' = Append(takes, 0)
          /\ \A t \in Threads : Messenger(threads'[t]) => threads'[t].at = "take"
      BY <1>2 DEF Restarts, Messenger
    <2>2. \A row \in Messages : row # 0
      BY DEF InboxAssumption, Messages
    <2>3. \A row \in Messages : TakesOf(row)' = TakesOf(row)
      BY <2>1, <2>2, TakesGrow
    <2>4. \A row \in Messages : Senders(row)' \subseteq Senders(row)
      BY <2>1 DEF Senders, Sending
    <2> QED BY <2>1, <2>3, <2>4, CountSame
  <1>3. ASSUME NEW t \in Threads, Leaves(t) \/ Begins(t) PROVE CountInv'
    <2>1. /\ UNCHANGED <<stored, takes>>
          /\ \A u \in Threads \ {t} : threads'[u] = threads[u]
          /\ Messenger(threads'[t]) => threads'[t].at \in {"take", "size"}
      BY <1>3 DEF Leaves, Begins, Others, Followed, DoneWith, Messenger
    <2>2. \A row \in Messages : Senders(row)' \subseteq Senders(row) /\ TakesOf(row)' = TakesOf(row)
      BY <2>1 DEF Senders, TakesOf, Sending
    <2> QED BY <2>1, <2>2, CountSame
  <1>4. ASSUME NEW t \in Threads, Inserts(t) PROVE CountInv'
    <2>0. PICK n : n = Item(t)
      OBVIOUS
    <2>1. /\ UNCHANGED stored /\ n \in Messages /\ n \in Nat
          /\ threads[t].at = "insert" /\ threads'[t].todo = threads[t].todo
          /\ \A u \in Threads \ {t} : threads'[u] = threads[u]
      <3>1. n \in Messages
        BY <1>4, <2>0, BusyTask DEF Inserts
      <3>2. n \in Nat
        BY <3>1 DEF InboxAssumption, Messages
      <3> QED BY <1>4, <2>0, <3>1, <3>2 DEF Inserts, Others
    <2>2. Head(threads'[t].todo) = n
      BY <2>0, <2>1 DEF Item
    <2>3. t \notin Senders(n) /\ Senders(n)' \subseteq Senders(n) \cup {t}
      BY <2>1 DEF Senders, Sending
    <2>5. /\ \A row \in Messages : row # n => TakesOf(row)' = TakesOf(row)
          /\ \E k : k \notin TakesOf(n) /\ TakesOf(n)' = TakesOf(n) \cup {k}
      <3>1. \A row \in Messages : row # 0
        BY DEF InboxAssumption, Messages
      <3>2. takes' = Append(takes, n) \/ takes' = takes \o <<0, n, 0>>
        BY <1>4, <2>0 DEF Inserts
      <3> QED BY <2>1, <3>1, <3>2, TakesGrow, TakesMarked
    <2>4. \A row \in Messages : row # n
            => Senders(row)' \subseteq Senders(row) /\ TakesOf(row)' = TakesOf(row)
      BY <2>1, <2>2, <2>5 DEF Senders
    <2>6. /\ IsFiniteSet(Senders(n)) /\ Cardinality(Senders(n)) \in Nat
          /\ IsFiniteSet(TakesOf(n)) /\ Cardinality(TakesOf(n)) \in Nat /\ stored[n] \in Nat
      BY <2>1, CountForm
    <2>7. Cardinality(TakesOf(n)') = Cardinality(TakesOf(n)) + 1
      BY <2>5, <2>6, FS_AddElement
    <2>8. Cardinality(Senders(n) \cup {t}) = Cardinality(Senders(n)) + 1 /\ IsFiniteSet(Senders(n) \cup {t})
      BY <2>3, <2>6, FS_AddElement
    <2>9. Cardinality(Senders(n)') <= Cardinality(Senders(n)) + 1 /\ Cardinality(Senders(n)') \in Nat
      BY <2>3, <2>8, FS_Subset, FS_CardinalityType
    <2>10. stored[n] + Cardinality(Senders(n)) <= Cardinality(TakesOf(n))
      BY <2>1 DEF CountInv
    <2>11. stored'[n] + Cardinality(Senders(n)') <= Cardinality(TakesOf(n)')
      BY <2>1, <2>6, <2>7, <2>9, <2>10
    <2>12. ASSUME NEW row \in Messages, row # n
           PROVE  stored'[row] + Cardinality(Senders(row)') <= Cardinality(TakesOf(row)')
      <3>1. /\ IsFiniteSet(Senders(row)) /\ Cardinality(Senders(row)) \in Nat
            /\ Cardinality(TakesOf(row)) \in Nat /\ stored[row] \in Nat
        BY CountForm
      <3>2. Senders(row)' \subseteq Senders(row) /\ TakesOf(row)' = TakesOf(row)
        BY <2>4, <2>12
      <3>3. Cardinality(Senders(row)') <= Cardinality(Senders(row)) /\ Cardinality(Senders(row)') \in Nat
        BY <3>1, <3>2, FS_Subset, FS_CardinalityType
      <3>4. stored[row] + Cardinality(Senders(row)) <= Cardinality(TakesOf(row))
        BY DEF CountInv
      <3> QED BY <2>1, <3>1, <3>2, <3>3, <3>4
    <2> QED BY <2>11, <2>12 DEF CountInv
  <1>5. ASSUME NEW t \in Threads, Stores(t) PROVE CountInv'
    <2>0. PICK n : n = Item(t)
      OBVIOUS
    <2>1. /\ UNCHANGED takes /\ stored' = [stored EXCEPT ![n] = @ + 1] /\ n \in Items
          /\ stored \in [Items -> Nat]
          /\ threads[t].at = "post" /\ threads'[t].at = "inbox" /\ threads[t] # Idle
          /\ threads'[t].todo = threads[t].todo /\ Head(threads[t].todo) = n
          /\ threads[t].share = FALSE \/ n \notin Messages
          /\ \A u \in Threads \ {t} : threads'[u] = threads[u]
      <3>1. n \in Items /\ (threads[t].share = FALSE \/ n \notin Messages)
        BY <1>5, <2>0, BusyTask DEF Stores, IsTask
      <3>2. Head(threads[t].todo) = n
        BY <2>0 DEF Item
      <3> QED BY <1>5, <2>0, <3>1, <3>2 DEF Stores, Others, Busy, PhoneForm
    <2>2. \A row : TakesOf(row)' = TakesOf(row)
      BY <2>1 DEF TakesOf
    <2>3. \A row : Senders(row)' \subseteq Senders(row)
      BY <2>1 DEF Senders, Sending
    <2>4. t \notin Senders(n)'
      BY <2>1 DEF Senders, Sending
    <2>5. n \in Messages => t \in Senders(n)
      BY <2>1 DEF Senders, Sending, Messenger
    <2>6. ASSUME NEW row \in Messages
          PROVE  stored'[row] + Cardinality(Senders(row)') <= Cardinality(TakesOf(row)')
      <3>1. /\ IsFiniteSet(Senders(row)) /\ Cardinality(Senders(row)) \in Nat
            /\ Cardinality(TakesOf(row)) \in Nat /\ stored[row] \in Nat /\ row \in Items
        BY CountForm
      <3>2. Cardinality(Senders(row)') <= Cardinality(Senders(row)) /\ Cardinality(Senders(row)') \in Nat
        BY <2>3, <3>1, FS_Subset, FS_CardinalityType
      <3>3. stored[row] + Cardinality(Senders(row)) <= Cardinality(TakesOf(row))
        BY DEF CountInv
      <3>4. CASE row # n
        <4>1. stored'[row] = stored[row]
          BY <2>1, <3>1, <3>4
        <4> QED BY <2>2, <3>1, <3>2, <3>3, <4>1
      <3>5. CASE row = n
        <4>1. t \in Senders(row) /\ Senders(row)' \subseteq Senders(row) \ {t}
          BY <2>3, <2>4, <2>5, <3>5
        <4>2. Cardinality(Senders(row) \ {t}) = Cardinality(Senders(row)) - 1
              /\ IsFiniteSet(Senders(row) \ {t})
          BY <3>1, <4>1, FS_RemoveElement
        <4>3. Cardinality(Senders(row)') <= Cardinality(Senders(row)) - 1
          BY <4>1, <4>2, FS_Subset
        <4>4. stored'[row] = stored[row] + 1
          BY <2>1, <3>1, <3>5
        <4> QED BY <2>2, <3>1, <3>2, <3>3, <4>3, <4>4
      <3> QED BY <3>4, <3>5
    <2> QED BY <2>6 DEF CountInv
  <1>6. ASSUME NEW t \in Threads, Trims(t) PROVE CountInv'
    <2>1. /\ UNCHANGED stored /\ \A u \in Threads \ {t} : threads'[u] = threads[u]
          /\ Messenger(threads'[t]) => threads'[t].at \notin Sending
      BY <1>6 DEF Trims, Others, Followed, Stays, Messenger, Sending
    <2>2. takes' = takes \/ takes' = Append(takes, 0)
      BY <1>6 DEF Trims, Uses
    <2>3. \A row \in Messages : row # 0
      BY DEF InboxAssumption, Messages
    <2>4. \A row \in Messages : TakesOf(row)' = TakesOf(row)
      <3>1. CASE takes' = takes
        BY <3>1 DEF TakesOf
      <3>2. CASE takes' = Append(takes, 0)
        BY <2>3, <3>2, TakesGrow
      <3> QED BY <2>2, <3>1, <3>2
    <2>5. \A row \in Messages : Senders(row)' \subseteq Senders(row)
      BY <2>1 DEF Senders
    <2> QED BY <2>1, <2>4, <2>5, CountSame
  <1> QED BY <1>1, <1>2, <1>3, <1>4, <1>5, <1>6 DEF PhoneShape

-----------------------------------------------------------------------------
(* A message is taken up twice only if it was forgotten.                    *)

\* The other rows taken up after take i, up to take j; 0 is a restart, or a use of
\* the set of rows during a trim.
Since(ts, i, j) == {ts[k] : k \in i + 1..j} \ {ts[i]}
Forgotten(ts, rs, i, j) ==
  ts[i] \in rs \/ 0 \in Since(ts, i, j) \/ Cardinality(Since(ts, i, j)) >= KeptRows

\* Row n is remembered, and every row remembered behind it is in set later.
Remembered(rows, n, later) ==
  \E p \in DOMAIN rows : rows[p] = n /\ \A q \in DOMAIN rows : q > p => rows[q] \in later

NoRepeat(q) == \A p, r \in DOMAIN q : q[p] = q[r] => p = r

\* Row n is in the set, or on the way back into it from the one thread that trims.
Safe(n, later) ==
  /\ (\A t \in Threads : threads[t].at # "readd") => Remembered(captured, n, later)
  /\ \A t \in Threads : threads[t].at = "clear" => Remembered(keep[t], n, later)
  /\ \A t \in Threads : threads[t].at = "readd" =>
       Remembered(captured \o keep[t], n, later) /\ NoRepeat(captured \o keep[t])

RowsOnce == NoRepeat(captured) /\ \A t \in Threads : NoRepeat(keep[t])
TakenTwice ==
  \A j \in DOMAIN takes : \A i \in 1..j - 1 : takes[i] # 0 /\ takes[i] = takes[j]
          => Forgotten(takes, raced, i, j - 1)
TakenOnce ==
  \A i \in DOMAIN takes : takes[i] # 0 =>
    Forgotten(takes, raced, i, Len(takes)) \/ Safe(takes[i], Since(takes, i, Len(takes)))
TwiceInv == RowsOnce /\ TakenTwice /\ TakenOnce

LEMMA SinceFinite ==
  ASSUME NEW ts, NEW i \in Int, NEW j \in Int
  PROVE  IsFiniteSet(Since(ts, i, j)) /\ Cardinality(Since(ts, i, j)) \in Nat
  <1> DEFINE S == i + 1..j
             T == {ts[k] : k \in S}
             f == [k \in S |-> ts[k]]
  <1>1. IsFiniteSet(S)
    <2>1. i + 1 \in Int
      OBVIOUS
    <2> QED BY <2>1, FS_Interval
  <1>2. f \in Surjection(S, T)
    <2> HIDE DEF S
    <2> QED BY DEF Surjection
  <1> HIDE DEF S, T, f
  <1>3. IsFiniteSet(T)
    BY <1>1, <1>2, FS_Surjection
  <1>4. Since(ts, i, j) \subseteq T
    BY DEF Since, T, S
  <1> QED BY <1>3, <1>4, FS_Subset, FS_CardinalityType

LEMMA ForgottenLonger ==
  ASSUME NEW rs, NEW i \in Nat, NEW j \in Nat, NEW k \in Nat, i <= j, j <= k,
         \A n \in i..j : takes'[n] = takes[n], rs \subseteq raced'
  PROVE  /\ Since(takes, i, j) \subseteq Since(takes', i, k)
         /\ Forgotten(takes, rs, i, j) => Forgotten(takes', raced', i, k)
  <1>1. takes'[i] = takes[i] /\ \A n \in i + 1..j : takes'[n] = takes[n] /\ n \in i + 1..k
    OBVIOUS
  <1>2. Since(takes, i, j) \subseteq Since(takes', i, k)
    BY <1>1 DEF Since
  <1>3. /\ IsFiniteSet(Since(takes', i, k)) /\ Cardinality(Since(takes', i, k)) \in Nat
        /\ Cardinality(Since(takes, i, j)) \in Nat
    BY SinceFinite
  <1>4. Cardinality(Since(takes, i, j)) <= Cardinality(Since(takes', i, k))
    BY <1>2, <1>3, FS_Subset
  <1>5. KeptRows \in Nat
    BY PhoneAssumption
  <1>6. Cardinality(Since(takes, i, j)) >= KeptRows => Cardinality(Since(takes', i, k)) >= KeptRows
    BY <1>3, <1>4, <1>5
  <1> QED BY <1>1, <1>2, <1>6 DEF Forgotten

LEMMA TakesForm ==
  ASSUME PhoneForm
  PROVE  /\ DOMAIN takes = 1..Len(takes) /\ Len(takes) \in Nat
         /\ DOMAIN captured = 1..Len(captured) /\ Len(captured) \in Nat
         /\ \A n \in Nat : takes' = Append(takes, n) =>
              /\ Len(takes') = Len(takes) + 1 /\ DOMAIN takes' = 1..(Len(takes) + 1)
              /\ \A i \in 1..Len(takes) : takes'[i] = takes[i]
              /\ takes'[Len(takes) + 1] = n
  BY DEF PhoneForm

\* What was taken up twice before stays explained.
LEMMA TwiceOld ==
  ASSUME PhoneForm, TakenTwice, NEW n \in Nat, takes' = Append(takes, n), raced \subseteq raced',
         \A i \in 1..Len(takes) : takes[i] # 0 /\ takes[i] = n => Forgotten(takes, raced', i, Len(takes))
  PROVE  TakenTwice'
  <1> DEFINE m == Len(takes)
  <1>1. /\ DOMAIN takes = 1..m /\ m \in Nat /\ DOMAIN takes' = 1..(m + 1)
        /\ \A i \in 1..m : takes'[i] = takes[i]
        /\ takes'[m + 1] = n
    BY TakesForm
  <1> HIDE DEF m
  <1> SUFFICES ASSUME NEW j \in DOMAIN takes', NEW i \in 1..j - 1, takes'[i] # 0, takes'[i] = takes'[j]
               PROVE  Forgotten(takes', raced', i, j - 1)
    BY DEF TakenTwice
  <1>2. i \in Nat /\ j \in Nat /\ j - 1 \in Nat /\ i <= j - 1 /\ j - 1 <= m /\ i \in 1..m
        /\ (j = m + 1 \/ j \in 1..m) /\ takes'[i] = takes[i]
    BY <1>1
  <1>3. \A k \in i..j - 1 : takes'[k] = takes[k]
    BY <1>1, <1>2
  <1>4. PICK k \in Nat : /\ k = j - 1 /\ i <= k /\ k <= k
                         /\ \A q \in i..k : takes'[q] = takes[q]
    BY <1>2, <1>3
  <1>5. CASE j = m + 1
    <2>1. takes[i] # 0 /\ takes[i] = n
      BY <1>1, <1>2, <1>5
    <2>2. Forgotten(takes, raced', i, m)
      BY <1>2, <2>1 DEF m
    <2>3. k = m
      BY <1>1, <1>5, <1>4
    <2>4. Forgotten(takes, raced', i, k)
      BY <2>2, <2>3
    <2>5. Forgotten(takes', raced', i, k)
      BY <1>2, <1>4, <2>4, ForgottenLonger
    <2> QED BY <1>4, <2>5
  <1>6. CASE j \in 1..m
    <2>1. Forgotten(takes, raced, i, j - 1)
      BY <1>1, <1>2, <1>6 DEF TakenTwice
    <2>2. Forgotten(takes, raced, i, k)
      BY <1>4, <2>1
    <2>3. Forgotten(takes', raced', i, k)
      BY <1>2, <1>4, <2>2, ForgottenLonger
    <2> QED BY <1>4, <2>3
  <1> QED BY <1>2, <1>5, <1>6

\* The set and the threads that trim it are as before.
LEMMA TwiceSame ==
  ASSUME TwiceInv, UNCHANGED <<captured, keep, takes, raced>>,
         \A u \in Threads : /\ threads'[u].at = "clear" <=> threads[u].at = "clear"
                            /\ threads'[u].at = "readd" <=> threads[u].at = "readd"
  PROVE  TwiceInv'
  <1>1. \A n, later : Safe(n, later) => Safe(n, later)'
    BY DEF Safe
  <1>2. TakenOnce'
    BY <1>1 DEF TwiceInv, TakenOnce
  <1> QED BY <1>2 DEF TwiceInv, RowsOnce, TakenTwice

\* After a mark everything taken up before may be taken up again.
LEMMA TwiceMarked ==
  ASSUME PhoneForm, TwiceInv, takes' = Append(takes, 0), raced' = raced, RowsOnce'
  PROVE  TwiceInv'
  <1> DEFINE m == Len(takes)
  <1>1. /\ DOMAIN takes = 1..m /\ m \in Nat /\ DOMAIN takes' = 1..(m + 1) /\ Len(takes') = m + 1
        /\ \A i \in 1..m : takes'[i] = takes[i]
        /\ takes'[m + 1] = 0
    BY TakesForm
  <1>2. TakenTwice'
    BY TwiceOld DEF TwiceInv
  <1> HIDE DEF m
  <1>3. ASSUME NEW i \in 1..m, takes'[i] # 0 PROVE Forgotten(takes', raced', i, m + 1)
    <2>1. m + 1 \in i + 1..m + 1
      BY <1>1
    <2>2. 0 \in Since(takes', i, m + 1)
      BY <1>1, <1>3, <2>1 DEF Since
    <2> QED BY <2>2 DEF Forgotten
  <1>4. TakenOnce'
    BY <1>1, <1>3 DEF TakenOnce
  <1> QED BY <1>2, <1>4 DEF TwiceInv

LEMMA NewestSafe ==
  ASSUME NEW S, NEW all \in Seq(S), NoRepeat(all)
  PROVE  /\ NoRepeat(Newest(all))
         /\ \A n, later : IsFiniteSet(later) /\ Remembered(all, n, later)
              => Remembered(Newest(all), n, later) \/ Cardinality(later) >= KeptRows
  <1> DEFINE c == Len(all)
             d == IF KeptRows < c THEN KeptRows ELSE c
             new == Newest(all)
  <1>1. DOMAIN all = 1..c /\ c \in Nat /\ KeptRows \in Nat
    BY PhoneAssumption
  <1>2. /\ d \in Nat /\ d <= c /\ (d < c => d = KeptRows) /\ DOMAIN new = 1..d
        /\ \A i \in 1..d : new[i] = all[c - d + i]
    BY NewestRows
  <1> HIDE DEF c, d, new
  <1>3. c - d \in Nat /\ \A i \in 1..d : c - d + i \in 1..c
    BY <1>1, <1>2
  <1>4. ASSUME NEW q \in 1..d, NEW r \in 1..d, all[c - d + q] = all[c - d + r]
        PROVE  q = r
    <2>1. c - d + q = c - d + r
      BY <1>1, <1>3, <1>4 DEF NoRepeat
    <2> QED BY <1>3, <2>1
  <1>5. NoRepeat(new)
    BY <1>2, <1>4 DEF NoRepeat
  <1>6. ASSUME NEW n, NEW later, IsFiniteSet(later), Remembered(all, n, later)
        PROVE  Remembered(new, n, later) \/ Cardinality(later) >= KeptRows
    <2>1. PICK p \in 1..c : all[p] = n /\ \A q \in 1..c : q > p => all[q] \in later
      BY <1>1, <1>6 DEF Remembered
    <2>2. CASE p > c - d
      <3>1. p - (c - d) \in 1..d /\ c - d + (p - (c - d)) = p
        BY <1>1, <1>2, <2>2
      <3>2. new[p - (c - d)] = n
        BY <1>2, <2>1, <3>1
      <3>3. \A q \in 1..d : q > p - (c - d) => new[q] \in later
        BY <1>1, <1>2, <1>3, <2>1, <2>2
      <3> QED BY <1>2, <3>1, <3>2, <3>3 DEF Remembered
    <2>3. CASE p <= c - d
      <3> DEFINE f == [q \in 1..d |-> all[c - d + q]]
      <3>1. \A q \in 1..d : all[c - d + q] \in later
        <4>1. \A q \in 1..d : c - d + q > p
          BY <1>1, <1>2, <1>3, <2>3
        <4> QED BY <1>3, <2>1, <4>1
      <3>2. f \in Injection(1..d, later)
        BY <1>4, <3>1 DEF Injection, IsInjective
      <3>3. Cardinality(1..d) <= Cardinality(later) /\ Cardinality(later) \in Nat
        <4> HIDE DEF f
        <4> QED BY <1>6, <3>2, FS_Injection, FS_CardinalityType
      <3>4. Cardinality(1..d) = d
        <4>1. 1 \in Int /\ d \in Int
          BY <1>2
        <4>2. Cardinality(1..d) = IF 1 > d THEN 0 ELSE d - 1 + 1
          BY <4>1, FS_Interval
        <4> QED BY <1>2, <4>2
      <3>5. d = KeptRows
        BY <1>1, <1>2, <2>1, <2>3
      <3> QED BY <1>1, <3>3, <3>4, <3>5
    <2> QED BY <1>1, <1>2, <2>2, <2>3
  <1> QED BY <1>5, <1>6 DEF new

\* The first of the rows to add back moves to the end of the set.
LEMMA HeadMoves ==
  ASSUME NEW S, NEW q \in Seq(S), NEW k \in Seq(S), k # <<>>
  PROVE  LET rest == SubSeq(k, 2, Len(k))
         IN /\ Append(q, Head(k)) \o rest = q \o k /\ (Len(k) <= 1 => Append(q, Head(k)) = q \o k)
            /\ NoRepeat(q \o k) => Head(k) \notin ToSet(q)
            /\ NoRepeat(k) => NoRepeat(rest)
            /\ NoRepeat(q) /\ Head(k) \notin ToSet(q) => NoRepeat(Append(q, Head(k)))
  <1> DEFINE rest == SubSeq(k, 2, Len(k))
             h == Head(k)
             z == Append(q, h)
             m == Len(q)
             n == Len(k)
  <1>1. m \in Nat /\ n \in Nat /\ n >= 1 /\ DOMAIN q = 1..m /\ DOMAIN k = 1..n /\ h \in S /\ h = k[1]
    BY EmptySeq
  <1>2. /\ z \in Seq(S) /\ Len(z) = m + 1 /\ DOMAIN z = 1..(m + 1) /\ z[m + 1] = h
        /\ \A i \in 1..m : z[i] = q[i]
    BY <1>1
  <1>3. /\ rest \in Seq(S) /\ Len(rest) = n - 1 /\ DOMAIN rest = 1..(n - 1)
        /\ \A i \in 1..(n - 1) : rest[i] = k[i + 1]
    BY <1>1
  <1>4. /\ q \o k \in Seq(S) /\ Len(q \o k) = m + n
        /\ \A i \in 1..m : (q \o k)[i] = q[i]
        /\ \A i \in 1..n : (q \o k)[m + i] = k[i]
        /\ DOMAIN (q \o k) = 1..(m + n)
    BY <1>1
  <1> HIDE DEF z, rest, h
  <1>5. /\ z \o rest \in Seq(S) /\ Len(z \o rest) = m + n
        /\ \A i \in 1..(m + 1) : (z \o rest)[i] = z[i]
        /\ \A i \in 1..(n - 1) : (z \o rest)[m + 1 + i] = rest[i]
    <2>1. PICK a \in Seq(S), b \in Seq(S) : a = z /\ b = rest
      BY <1>2, <1>3
    <2>2. /\ a \o b \in Seq(S) /\ Len(a \o b) = Len(a) + Len(b)
          /\ \A i \in 1..Len(a) : (a \o b)[i] = a[i]
          /\ \A i \in 1..Len(b) : (a \o b)[Len(a) + i] = b[i]
      OBVIOUS
    <2>3. Len(a) = m + 1 /\ Len(b) = n - 1
      BY <1>2, <1>3, <2>1
    <2>4. m + 1 + (n - 1) = m + n
      BY <1>1
    <2> QED BY <2>1, <2>2, <2>3, <2>4
  <1> HIDE DEF m, n
  <1>6. ASSUME NEW i \in 1..(m + n) PROVE (z \o rest)[i] = (q \o k)[i]
    <2>1. CASE i <= m
      BY <1>1, <1>2, <1>4, <1>5, <2>1
    <2>2. CASE i = m + 1
      <3>1. (z \o rest)[m + 1] = h
        BY <1>1, <1>2, <1>5, m + 1 \in 1..(m + 1)
      <3>2. (q \o k)[m + 1] = k[1]
        BY <1>1, <1>4
      <3> QED BY <1>1, <2>2, <3>1, <3>2
    <2>3. CASE i > m + 1
      <3>1. PICK j \in 1..(n - 1) : i = m + 1 + j /\ j + 1 \in 1..n /\ i = m + (j + 1)
        <4>1. i - m - 1 \in 1..(n - 1) /\ i = m + 1 + (i - m - 1) /\ (i - m - 1) + 1 \in 1..n
              /\ i = m + ((i - m - 1) + 1)
          BY <1>1, <2>3
        <4> QED BY <4>1
      <3>2. (z \o rest)[m + 1 + j] = k[j + 1]
        BY <1>3, <1>5, <3>1
      <3>3. (q \o k)[m + (j + 1)] = k[j + 1]
        BY <1>4, <3>1
      <3> QED BY <3>1, <3>2, <3>3
    <2>4. i <= m \/ i = m + 1 \/ i > m + 1
      BY <1>1
    <2> QED BY <2>1, <2>2, <2>3, <2>4
  <1>7. z \o rest = q \o k
    BY <1>4, <1>5, <1>6, SeqEqual
  <1>8. n <= 1 => z = q \o k
    <2> SUFFICES ASSUME n <= 1 PROVE z = q \o k
      OBVIOUS
    <2>1. rest \in Seq(S) /\ Len(rest) = 0
      BY <1>1, <1>3
    <2>2. rest = <<>>
      BY <2>1, EmptySeq
    <2>3. z \o <<>> = z
      BY <1>2, ConcatEmptySeq
    <2> QED BY <1>7, <2>2, <2>3
  <1>9. ASSUME NoRepeat(q \o k), h \in ToSet(q) PROVE FALSE
    <2>1. PICK i \in 1..m : q[i] = h
      BY <1>1, <1>9 DEF ToSet
    <2>2. (q \o k)[i] = h /\ (q \o k)[m + 1] = h
      BY <1>1, <1>4, <2>1
    <2>3. i \in 1..(m + n) /\ m + 1 \in 1..(m + n) /\ i # m + 1
      BY <1>1
    <2> QED BY <1>4, <1>9, <2>2, <2>3 DEF NoRepeat
  <1>10. ASSUME NoRepeat(k) PROVE NoRepeat(rest)
    <2> SUFFICES ASSUME NEW i \in 1..(n - 1), NEW j \in 1..(n - 1), rest[i] = rest[j] PROVE i = j
      BY <1>3 DEF NoRepeat
    <2>1. i + 1 \in DOMAIN k /\ j + 1 \in DOMAIN k
      BY <1>1
    <2>2. i + 1 = j + 1
      BY <1>3, <1>10, <2>1 DEF NoRepeat
    <2> QED BY <1>1, <2>2
  <1>11. ASSUME NoRepeat(q), h \notin ToSet(q) PROVE NoRepeat(z)
    <2>1. \A i \in 1..m : q[i] # h
      BY <1>1, <1>11 DEF ToSet
    <2>2. \A i \in 1..(m + 1) : i \in 1..m \/ i = m + 1
      BY <1>1
    <2> QED BY <1>1, <1>2, <1>11, <2>1, <2>2 DEF NoRepeat
  <1> QED BY <1>7, <1>8, <1>9, <1>10, <1>11 DEF z, h, n, rest

LEMMA TrimsAlone ==
  ASSUME NEW t \in Threads, Uses(t)
  PROVE  \/ takes' = Append(takes, 0)
         \/ takes' = takes /\ \A u \in Threads \ {t} : threads[u].at \notin TrimSteps
  <1>1. Idle.at \notin TrimSteps
    BY DEF Idle, TrimSteps
  <1>2. ~Overlaps(t) => \A u \in Threads \ {t} : threads[u].at \notin TrimSteps
    BY <1>1 DEF Overlaps, Busy
  <1> QED BY <1>2 DEF Uses

LEMMA TrimmedOnce ==
  ASSUME PhoneForm, RowsOnce, NEW t \in Threads, Trims(t)
  PROVE  RowsOnce'
  <1>1. captured \in Seq(Messages) /\ keep \in Keeps /\ keep[t] \in Seq(Messages)
    BY DEF PhoneForm, Keeps
  <1>2. NoRepeat(<<>>)
    BY DEF NoRepeat
  <1>3. CASE UNCHANGED <<captured, keep>>
    BY <1>3 DEF RowsOnce
  <1>4. CASE keep' = [keep EXCEPT ![t] = Newest(captured)] /\ UNCHANGED captured
    <2>1. NoRepeat(Newest(captured))
      BY <1>1, NewestSafe DEF RowsOnce
    <2>2. \A u \in Threads : keep'[u] = IF u = t THEN Newest(captured) ELSE keep[u]
      BY <1>1, <1>4 DEF Keeps
    <2> QED BY <1>4, <2>1, <2>2 DEF RowsOnce
  <1>5. CASE captured' = <<>> /\ UNCHANGED keep
    BY <1>2, <1>5 DEF RowsOnce
  <1>6. CASE /\ captured' = IF keep[t] = <<>> \/ Head(keep[t]) \in ToSet(captured) THEN captured
                            ELSE Append(captured, Head(keep[t]))
             /\ keep' = [keep EXCEPT ![t] = SubSeq(keep[t], 2, Len(keep[t]))]
    <2>1. PICK k : k = keep[t]
      OBVIOUS
    <2>2. k \in Seq(Messages) /\ NoRepeat(k)
      BY <1>1, <2>1 DEF RowsOnce
    <2>3. k = <<>> => SubSeq(k, 2, Len(k)) = <<>>
      OBVIOUS
    <2>4. NoRepeat(SubSeq(k, 2, Len(k)))
      BY <1>1, <1>2, <2>2, <2>3, HeadMoves
    <2>5. NoRepeat(captured')
      BY <1>1, <1>6, <2>1, <2>2, HeadMoves DEF RowsOnce
    <2>6. \A u \in Threads : keep'[u] = IF u = t THEN SubSeq(k, 2, Len(k)) ELSE keep[u]
      BY <1>1, <1>6, <2>1 DEF Keeps
    <2> QED BY <2>4, <2>5, <2>6 DEF RowsOnce
  <1> QED BY <1>3, <1>4, <1>5, <1>6 DEF Trims

\* A step of a trim that no other thread's trim overlaps.
LEMMA TrimmedSafe ==
  ASSUME PhoneForm, RowsOnce, NEW t \in Threads, Trims(t), threads[t].at \in TrimSteps,
         \A u \in Threads \ {t} : threads[u].at \notin TrimSteps,
         NEW n, NEW later, IsFiniteSet(later), Safe(n, later)
  PROVE  Safe(n, later)' \/ Cardinality(later) >= KeptRows
  <1>1. captured \in Seq(Messages) /\ keep \in Keeps /\ keep[t] \in Seq(Messages)
    BY DEF PhoneForm, Keeps
  <1>2. \A u \in Threads : threads'[u].at \in TrimSteps => u = t
    BY DEF Trims, Others
  <1>3. \A u \in Threads : threads'[u].at = "clear" \/ threads'[u].at = "readd" => u = t
    BY <1>2 DEF TrimSteps
  <1>4. \A u \in Threads : threads[u].at = "clear" \/ threads[u].at = "readd" => u = t
    BY DEF TrimSteps
  <1>5. ASSUME threads[t].at = "list", threads'[t].at = "clear", UNCHANGED captured,
               keep' = [keep EXCEPT ![t] = Newest(captured)]
        PROVE  Safe(n, later)' \/ Cardinality(later) >= KeptRows
    <2>1. Remembered(captured, n, later)
      BY <1>4, <1>5 DEF Safe
    <2>2. Remembered(Newest(captured), n, later) \/ Cardinality(later) >= KeptRows
      BY <1>1, <2>1, NewestSafe DEF RowsOnce
    <2>3. keep'[t] = Newest(captured)
      BY <1>1, <1>5 DEF Keeps
    <2> QED BY <1>3, <1>5, <2>1, <2>2, <2>3 DEF Safe
  <1>6. ASSUME threads[t].at = "clear", threads'[t].at = "readd", captured' = <<>>, UNCHANGED keep
        PROVE  Safe(n, later)'
    <2>1. Remembered(keep[t], n, later) /\ NoRepeat(keep[t])
      BY <1>6 DEF Safe, RowsOnce
    <2>2. captured' \o keep'[t] = keep[t]
      BY <1>1, <1>6, ConcatEmptySeq
    <2> QED BY <1>3, <1>6, <2>1, <2>2 DEF Safe
  <1>7. ASSUME threads[t].at = "readd",
               \/ Len(keep[t]) <= 1 /\ threads'[t].at \notin TrimSteps
               \/ ~(Len(keep[t]) <= 1) /\ threads'[t].at = "readd",
               captured' = IF keep[t] = <<>> \/ Head(keep[t]) \in ToSet(captured) THEN captured
                           ELSE Append(captured, Head(keep[t])),
               keep' = [keep EXCEPT ![t] = SubSeq(keep[t], 2, Len(keep[t]))]
        PROVE  Safe(n, later)'
    <2>1. PICK k : k = keep[t]
      OBVIOUS
    <2>2. Remembered(captured \o k, n, later) /\ NoRepeat(captured \o k) /\ k \in Seq(Messages)
      BY <1>1, <1>7, <2>1 DEF Safe
    <2>3. keep'[t] = SubSeq(k, 2, Len(k))
      BY <1>1, <1>7, <2>1 DEF Keeps
    <2>4. CASE k = <<>>
      <3>1. captured \o k = captured /\ captured' = captured /\ Len(k) <= 1
        BY <1>1, <1>7, <2>1, <2>4, ConcatEmptySeq
      <3>2. threads'[t].at \notin TrimSteps
        BY <1>7, <2>1, <3>1
      <3>3. \A u \in Threads : threads'[u].at # "clear" /\ threads'[u].at # "readd"
        BY <1>3, <3>2 DEF TrimSteps
      <3>4. Remembered(captured', n, later)
        BY <2>2, <3>1
      <3> QED BY <3>3, <3>4 DEF Safe
    <2>5. CASE k # <<>>
      <3>1. /\ captured' = Append(captured, Head(k)) /\ captured' \o keep'[t] = captured \o k
            /\ Len(k) <= 1 => captured' = captured \o k
        <4>1. PICK c, r : c = captured /\ r = SubSeq(k, 2, Len(k))
          OBVIOUS
        <4>2. /\ Append(c, Head(k)) \o r = c \o k /\ (Len(k) <= 1 => Append(c, Head(k)) = c \o k)
              /\ Head(k) \notin ToSet(c)
          BY <1>1, <2>2, <2>5, <4>1, HeadMoves
        <4>3. captured' = Append(c, Head(k))
          BY <1>7, <2>1, <2>5, <4>1, <4>2
        <4> QED BY <2>3, <4>1, <4>2, <4>3
      <3>2. CASE threads'[t].at = "readd"
        BY <1>3, <2>2, <3>1, <3>2 DEF Safe
      <3>3. CASE Len(k) <= 1 /\ threads'[t].at \notin TrimSteps
        <4>1. \A u \in Threads : threads'[u].at # "clear" /\ threads'[u].at # "readd"
          BY <1>3, <3>3 DEF TrimSteps
        <4> QED BY <2>2, <3>1, <3>3, <4>1 DEF Safe
      <3> QED BY <1>7, <2>1, <3>2, <3>3
    <2> QED BY <2>4, <2>5
  <1>8. Followed(threads[t], threads'[t]) => threads'[t].at \notin TrimSteps
    BY DEF Followed, Idle, TrimSteps
  <1> QED BY <1>5, <1>6, <1>7, <1>8 DEF Trims, Stays, TrimSteps

LEMMA TwiceTrimmed ==
  ASSUME PhoneForm, TwiceInv, NEW t \in Threads, Trims(t)
  PROVE  TwiceInv'
  <1>1. raced' = raced /\ RowsOnce'
    BY TrimmedOnce DEF Trims, TwiceInv
  <1>2. CASE threads[t].at = "size"
    <2>1. UNCHANGED <<captured, keep, takes, raced>>
      BY <1>2 DEF Trims
    <2>2. threads'[t].at \notin {"clear", "readd"}
      BY <1>2 DEF Trims, Followed, Stays, Idle
    <2> QED BY <1>2, <2>1, <2>2, TwiceSame DEF Trims, Others
  <1>3. CASE threads[t].at # "size"
    <2>1. Uses(t) /\ threads[t].at \in TrimSteps
      BY <1>3 DEF Trims, TrimSteps
    <2>2. CASE takes' = Append(takes, 0)
      BY <1>1, <2>2, TwiceMarked
    <2>3. CASE takes' = takes /\ \A u \in Threads \ {t} : threads[u].at \notin TrimSteps
      <3>1. ASSUME NEW i \in DOMAIN takes, takes[i] # 0
            PROVE  \/ Forgotten(takes, raced, i, Len(takes))
                   \/ Safe(takes[i], Since(takes, i, Len(takes)))'
        <4> DEFINE later == Since(takes, i, Len(takes))
        <4>1. IsFiniteSet(later)
          <5>1. i \in Int /\ Len(takes) \in Int
            <6>1. DOMAIN takes = 1..Len(takes) /\ Len(takes) \in Nat
              BY TakesForm
            <6> QED BY <6>1
          <5> QED BY <5>1, SinceFinite
        <4>2. CASE Forgotten(takes, raced, i, Len(takes))
          BY <4>2
        <4>3. CASE Safe(takes[i], later)
          <5>1. PICK n, set : n = takes[i] /\ set = later
            OBVIOUS
          <5>2. Safe(n, set)' \/ Cardinality(set) >= KeptRows
            BY <2>1, <2>3, <4>1, <4>3, <5>1, TrimmedSafe DEF TwiceInv
          <5>3. Cardinality(later) >= KeptRows => Forgotten(takes, raced, i, Len(takes))
            BY DEF Forgotten
          <5>4. n = takes'[i] /\ set = Since(takes, i, Len(takes))'
            BY <2>3, <5>1
          <5> QED BY <5>1, <5>2, <5>3, <5>4
        <4> QED BY <3>1, <4>2, <4>3 DEF TwiceInv, TakenOnce
      <3>2. TakenOnce'
        BY <1>1, <2>3, <3>1 DEF TakenOnce
      <3>3. TakenTwice'
        BY <1>1, <2>3 DEF TwiceInv, TakenTwice
      <3> QED BY <1>1, <3>2, <3>3 DEF TwiceInv
    <2> QED BY <2>1, <2>2, <2>3, TrimsAlone
  <1> QED BY <1>2, <1>3

LEMMA TwiceRestarted ==
  ASSUME PhoneForm, TwiceInv, Restarts
  PROVE  TwiceInv'
  <1>1. captured' = <<>> /\ takes' = Append(takes, 0) /\ raced' = raced /\ \A u \in Threads : keep'[u] = <<>>
    BY DEF Restarts
  <1>2. RowsOnce'
    BY <1>1 DEF RowsOnce, NoRepeat
  <1> QED BY <1>1, <1>2, TwiceMarked

LEMMA InsertedOnce ==
  ASSUME PhoneForm, RowsOnce, NEW t \in Threads, Inserts(t)
  PROVE  RowsOnce'
  <1>1. captured \in Seq(Messages) /\ Item(t) \in Messages /\ keep' = keep
    BY BusyTask DEF Inserts, PhoneForm
  <1>2. PICK n : n = Item(t)
    OBVIOUS
  <1>3. CASE captured' = captured
    BY <1>1, <1>3 DEF RowsOnce
  <1>4. CASE n \notin ToSet(captured) /\ captured' = Append(captured, n)
    <2>1. <<n>> \in Seq(Messages) /\ <<n>> # <<>> /\ Head(<<n>>) = n
      BY <1>1, <1>2
    <2>2. NoRepeat(Append(captured, n))
      BY <1>1, <1>4, <2>1, HeadMoves DEF RowsOnce
    <2> QED BY <1>1, <1>4, <2>2 DEF RowsOnce
  <1> QED BY <1>2, <1>3, <1>4 DEF Inserts

LEMMA TwiceInserted ==
  ASSUME PhoneForm, TwiceInv, InboxAssumption, NEW t \in Threads, Inserts(t), ~Overlaps(t)
  PROVE  TwiceInv'
  <1> DEFINE m == Len(takes)
             c == Len(captured)
  <1>B. \A u \in Threads : threads[u].at \notin {"clear", "readd"} /\ threads'[u].at \notin {"clear", "readd"}
    <2>1. Idle.at \notin TrimSteps
      BY DEF Idle, TrimSteps
    <2>2. \A u \in Threads \ {t} : threads[u].at \notin TrimSteps
      BY <2>1 DEF Overlaps, Busy
    <2> QED BY <2>2 DEF Inserts, Others, TrimSteps
  <1>A. (\A n, later : Safe(n, later) => Remembered(captured, n, later))
         /\ \A n, later : Safe(n, later)' <=> Remembered(captured', n, later)
    BY <1>B DEF Safe
  <1>1. PICK n : n = Item(t)
    OBVIOUS
  <1>2. n \in Messages /\ n \in Nat /\ n # 0
    <2>1. n \in Messages
      BY <1>1, BusyTask DEF Inserts
    <2> QED BY <2>1 DEF InboxAssumption, Messages
  <1>3. /\ takes' = Append(takes, n)
        /\ n \in ToSet(captured) => captured' = captured /\ n \in raced'
        /\ n \notin ToSet(captured) => captured' = Append(captured, n)
        /\ raced \subseteq raced'
    BY <1>1 DEF Inserts
  <1>4. /\ DOMAIN takes = 1..m /\ m \in Nat /\ DOMAIN takes' = 1..(m + 1) /\ Len(takes') = m + 1
        /\ \A i \in 1..m : takes'[i] = takes[i]
        /\ takes'[m + 1] = n
    BY <1>2, <1>3, TakesForm
  <1>5. /\ DOMAIN captured = 1..c /\ c \in Nat
        /\ \A q \in 1..(c + 1) : q \in 1..c \/ q = c + 1
    <2>1. DOMAIN captured = 1..c /\ c \in Nat
      BY TakesForm
    <2> QED BY <2>1
  <1>6. n \notin ToSet(captured) =>
          /\ DOMAIN captured' = 1..(c + 1)
          /\ \A q \in 1..c : captured'[q] = captured[q]
          /\ captured'[c + 1] = n
    <2>1. captured \in Seq(Messages)
      BY DEF PhoneForm
    <2>2. LET z == Append(captured, n)
          IN /\ DOMAIN z = 1..(c + 1) /\ z[c + 1] = n
             /\ \A q \in 1..c : z[q] = captured[q]
      BY <1>2, <2>1
    <2> QED BY <1>3, <2>2
  <1>7. \A q \in 1..c : captured[q] \in ToSet(captured)
    BY <1>5 DEF ToSet
  <1>8. RowsOnce'
    BY InsertedOnce DEF TwiceInv
  <1>9. ASSUME NEW i \in 1..m, takes[i] # 0, takes[i] = n PROVE Forgotten(takes, raced', i, m)
    <2>1. CASE n \in ToSet(captured)
      BY <1>3, <1>9, <2>1 DEF Forgotten
    <2>2. CASE n \notin ToSet(captured)
      <3>1. ~Remembered(captured, takes[i], Since(takes, i, m))
        BY <1>5, <1>7, <1>9, <2>2 DEF Remembered
      <3>2. Forgotten(takes, raced, i, m)
        BY <1>A, <1>4, <1>9, <3>1 DEF TwiceInv, TakenOnce
      <3> QED BY <1>3, <3>2 DEF Forgotten
    <2> QED BY <2>1, <2>2
  <1>10. TakenTwice'
    BY <1>2, <1>3, <1>9, TwiceOld DEF TwiceInv
  <1>11. ASSUME NEW i \in 1..m, takes'[i] # 0
         PROVE  \/ Forgotten(takes', raced', i, m + 1)
                \/ Remembered(captured', takes'[i], Since(takes', i, m + 1))
    <2>1. PICK k \in Nat, l \in Nat : /\ k = m /\ l = m + 1 /\ k <= l /\ i <= k /\ i \in Nat
                                      /\ \A q \in i..k : takes'[q] = takes[q]
      <3> HIDE DEF m
      <3>1. m \in Nat /\ m + 1 \in Nat /\ m <= m + 1 /\ i <= m /\ i \in Nat /\ \A q \in i..m : q \in 1..m
        BY <1>4
      <3>2. \A q \in i..m : takes'[q] = takes[q]
        BY <1>4, <3>1
      <3> QED BY <3>1, <3>2
    <2>2. /\ Since(takes, i, k) \subseteq Since(takes', i, l)
          /\ Forgotten(takes, raced, i, k) => Forgotten(takes', raced', i, l)
      BY <1>3, <2>1, ForgottenLonger
    <2>3. takes[i] = takes'[i] /\ takes[i] # 0 /\ i \in DOMAIN takes
      BY <1>4, <1>11
    <2>4. CASE Forgotten(takes, raced, i, k)
      BY <2>1, <2>2, <2>4
    <2>5. CASE Remembered(captured, takes[i], Since(takes, i, k))
      <3>1. PICK p \in 1..c : captured[p] = takes[i] /\ \A q \in 1..c : q > p
              => captured[q] \in Since(takes, i, k)
        BY <1>5, <2>5 DEF Remembered
      <3>2. CASE n \in ToSet(captured)
        BY <1>3, <1>5, <2>1, <2>2, <2>3, <3>1, <3>2 DEF Remembered
      <3>3. CASE n \notin ToSet(captured)
        <4>1. n # takes[i]
          BY <1>7, <3>1, <3>3
        <4>2. n \in Since(takes', i, l)
          <5>1. l \in i + 1..l /\ takes'[l] = n
            BY <1>4, <2>1
          <5> QED BY <2>3, <4>1, <5>1 DEF Since
        <4>3. \A q \in DOMAIN captured' : q \in 1..c \/ q = c + 1
          <5>1. DOMAIN captured' = 1..(c + 1)
            BY <1>6, <3>3
          <5> QED BY <1>5, <5>1
        <4>4. \A q \in DOMAIN captured' : q > p => captured'[q] \in Since(takes', i, l)
          BY <1>6, <2>2, <3>1, <3>3, <4>2, <4>3
        <4>5. p \in DOMAIN captured' /\ captured'[p] = takes'[i]
          BY <1>5, <1>6, <2>3, <3>1, <3>3
        <4> QED BY <2>1, <4>4, <4>5 DEF Remembered
      <3> QED BY <3>2, <3>3
    <2> QED BY <1>A, <1>4, <2>1, <2>3, <2>4, <2>5 DEF TwiceInv, TakenOnce
  <1>12. \/ Forgotten(takes', raced', m + 1, m + 1)
         \/ Remembered(captured', takes'[m + 1], Since(takes', m + 1, m + 1))
    <2>1. CASE n \in ToSet(captured)
      BY <1>3, <1>4, <2>1 DEF Forgotten
    <2>2. CASE n \notin ToSet(captured)
      <3>1. c + 1 \in DOMAIN captured' /\ captured'[c + 1] = n /\ ~(\E q \in DOMAIN captured' : q > c + 1)
        BY <1>5, <1>6, <2>2
      <3> QED BY <1>4, <3>1 DEF Remembered
    <2> QED BY <2>1, <2>2
  <1>13. TakenOnce'
    <2>1. \A i \in DOMAIN takes' : i \in 1..m \/ i = m + 1
      BY <1>4
    <2> HIDE DEF m
    <2> QED BY <1>A, <1>4, <1>11, <1>12, <2>1 DEF TakenOnce
  <1> QED BY <1>8, <1>10, <1>13 DEF TwiceInv

\* A row taken up while another thread trims the set.
LEMMA TwiceOverlapped ==
  ASSUME PhoneForm, TwiceInv, InboxAssumption, NEW t \in Threads, Inserts(t), Overlaps(t)
  PROVE  TwiceInv'
  <1>1. PICK n : n = Item(t)
    OBVIOUS
  <1>2. n \in Nat
    <2>1. n \in Messages
      BY <1>1, BusyTask DEF Inserts
    <2> QED BY <2>1 DEF InboxAssumption, Messages
  <1>3. takes' = takes \o <<0, n, 0>> /\ raced \subseteq raced'
    BY <1>1 DEF Inserts
  <1> DEFINE m == Len(takes)
  <1>4. /\ m \in Nat /\ DOMAIN takes = 1..m /\ DOMAIN takes' = 1..(m + 3) /\ Len(takes') = m + 3
        /\ \A i \in 1..m : takes'[i] = takes[i]
        /\ takes'[m + 1] = 0 /\ takes'[m + 2] = n /\ takes'[m + 3] = 0
    BY <1>2, <1>3, MarkedForm
  <1> HIDE DEF m
  <1>5. ASSUME NEW i \in Nat, NEW k \in {m + 1, m + 3}, NEW j \in Nat, i < k, k <= j, takes'[i] # 0
        PROVE  Forgotten(takes', raced', i, j)
    <2>1. takes'[k] = 0 /\ k \in i + 1..j
      <3>1. takes'[k] = 0
        BY <1>4
      <3>2. k \in Nat
        BY <1>4
      <3>3. k \in i + 1..j
        BY <1>5, <3>2
      <3> QED BY <3>1, <3>3
    <2>2. 0 \in Since(takes', i, j)
      BY <1>5, <2>1 DEF Since
    <2> QED BY <2>2 DEF Forgotten
  <1>6. TakenTwice'
    <2> SUFFICES ASSUME NEW j \in DOMAIN takes', NEW i \in 1..j - 1, takes'[i] # 0, takes'[i] = takes'[j]
                 PROVE  Forgotten(takes', raced', i, j - 1)
      BY DEF TakenTwice
    <2>0. j \in 1..(m + 3)
      BY <1>4
    <2>1. i \in Nat /\ j \in Nat /\ j - 1 \in Nat /\ i <= j - 1 /\ (j \in 1..m \/ j = m + 1 \/ j = m + 2 \/ j = m + 3)
      <3>1. j \in Nat /\ (j \in 1..m \/ j = m + 1 \/ j = m + 2 \/ j = m + 3)
        <4>1. m \in Nat
          BY <1>4
        <4>2. \A p \in Nat : \A q \in 1..(p + 3) : q \in Nat /\ (q \in 1..p \/ q = p + 1 \/ q = p + 2 \/ q = p + 3)
          OBVIOUS
        <4> QED BY <2>0, <4>1, <4>2
      <3>2. i \in Nat /\ j - 1 \in Nat /\ i <= j - 1
        BY <3>1
      <3> QED BY <3>1, <3>2
    <2>2. CASE j \in 1..m
      <3>1. i \in 1..m /\ takes[i] # 0 /\ takes[i] = takes[j]
        BY <1>4, <2>1, <2>2
      <3>2. Forgotten(takes, raced, i, j - 1)
        BY <1>4, <2>2, <3>1 DEF TwiceInv, TakenTwice
      <3>3. \A q \in i..j - 1 : takes'[q] = takes[q]
        BY <1>4, <2>1, <2>2
      <3>4. PICK k \in Nat : k = j - 1 /\ i <= k /\ k <= k /\ \A q \in i..k : takes'[q] = takes[q]
        BY <2>1, <3>3
      <3>5. Forgotten(takes', raced', i, k)
        BY <1>3, <2>1, <3>2, <3>4, ForgottenLonger
      <3> QED BY <3>4, <3>5
    <2>3. CASE j = m + 1 \/ j = m + 3
      BY <1>4, <2>3
    <2>4. CASE j = m + 2
      <3>1. i < m + 1
        <4>1. i # m + 1
          BY <1>4
        <4> QED BY <1>4, <2>1, <2>4, <4>1
      <3>2. m + 1 <= j - 1
        BY <1>4, <2>4
      <3> QED BY <1>5, <2>1, <3>1, <3>2
    <2> QED BY <2>1, <2>2, <2>3, <2>4
  <1>7. TakenOnce'
    <2>1. ASSUME NEW i \in 1..(m + 3), takes'[i] # 0 PROVE Forgotten(takes', raced', i, m + 3)
      <3>1. i # m + 3
        BY <1>4, <2>1
      <3>2. i \in Nat /\ m + 3 \in Nat /\ i < m + 3 /\ m + 3 <= m + 3
        BY <1>4, <3>1
      <3> QED BY <1>5, <2>1, <3>2
    <2> QED BY <1>4, <2>1 DEF TakenOnce
  <1>8. RowsOnce'
    BY InsertedOnce DEF TwiceInv
  <1> QED BY <1>6, <1>7, <1>8 DEF TwiceInv

LEMMA TwiceKept ==
  ASSUME PhoneOk, TwiceInv, PhoneShape, InboxAssumption
  PROVE  TwiceInv'
  <1> USE DEF PhoneOk
  <1>1. CASE Quiet
    <2>1. \A u \in Threads : /\ threads'[u].at = "clear" <=> threads[u].at = "clear"
                             /\ threads'[u].at = "readd" <=> threads[u].at = "readd"
      BY <1>1 DEF Quiet, SameItem, TrimSteps
    <2> QED BY <1>1, <2>1, TwiceSame DEF Quiet
  <1>2. ASSUME NEW t \in Threads, Leaves(t) \/ Begins(t) \/ Stores(t) PROVE TwiceInv'
    <2>1. UNCHANGED <<captured, keep, takes, raced>> /\ Others(t)
      BY <1>2 DEF Leaves, Begins, Stores
    <2>2. threads[t].at \notin TrimSteps /\ threads'[t].at \notin TrimSteps
      BY <1>2 DEF Leaves, Begins, Stores, DoneWith, Followed, Idle, TrimSteps
    <2>3. \A u \in Threads : /\ threads'[u].at = "clear" <=> threads[u].at = "clear"
                             /\ threads'[u].at = "readd" <=> threads[u].at = "readd"
      BY <2>1, <2>2 DEF Others, TrimSteps
    <2> QED BY <2>1, <2>3, TwiceSame
  <1> QED BY <1>1, <1>2, TwiceRestarted, TwiceInserted, TwiceOverlapped, TwiceTrimmed DEF PhoneShape

-----------------------------------------------------------------------------
DeliveredInv == PhoneOk /\ AccountInv /\ CountInv /\ TwiceInv

\* Over every way the threads, their trims of the set of rows, the network, the
\* desktop and the restarts of the app interleave, a text message the app remembers
\* is stored, in a thread's hands or given up for a named reason; it is stored no
\* more often than it was taken up, and taken up twice only with a named cause; and
\* discovery settles on a relay only without the desktop, unless something failed.
THEOREM MessagesDelivered == PhoneSpec => []SmsDelivered
  <1>1. InboxInit /\ PhoneInit => DeliveredInv
    <2> SUFFICES ASSUME InboxInit, PhoneInit PROVE DeliveredInv
      OBVIOUS
    <2>1. PhoneOk
      BY PhoneStarts, InboxAssumption
    <2>2. AccountInv
      <3>1. AllRows = {}
        BY DEF AllRows, PhoneInit, ToSet
      <3> QED BY <3>1 DEF AccountInv, PhoneInit, Messenger
    <2>3. CountInv
      <3>1. \A row \in Messages : Senders(row) = {} /\ TakesOf(row) = {} /\ stored[row] = 0
        BY DEF PhoneInit, Senders, TakesOf, Messenger, Items
      <3>2. Cardinality({}) = 0
        BY FS_EmptySet
      <3> QED BY <3>1, <3>2 DEF CountInv
    <2>4. TwiceInv
      BY DEF PhoneInit, TwiceInv, RowsOnce, NoRepeat, TakenTwice, TakenOnce
    <2> QED BY <2>1, <2>2, <2>3, <2>4 DEF DeliveredInv
  <1>2. DeliveredInv /\ [PhoneNext \/ (InboxTick /\ UNCHANGED phoneVars)]_<<inboxVars, phoneVars>>
        => DeliveredInv'
    <2> SUFFICES ASSUME DeliveredInv,
                        [PhoneNext \/ (InboxTick /\ UNCHANGED phoneVars)]_<<inboxVars, phoneVars>>
                 PROVE  DeliveredInv'
      OBVIOUS
    <2>1. PhoneOk' /\ PhoneShape
      BY PhoneSteps, InboxAssumption DEF DeliveredInv
    <2> QED BY <2>1, AccountKept, CountKept, TwiceKept, InboxAssumption DEF DeliveredInv
  <1>3. DeliveredInv => SmsDelivered
    <2> SUFFICES ASSUME DeliveredInv PROVE SmsDelivered
      OBVIOUS
    <2>1. SmsAccounted
      <3>1. \A row \in ToSet(captured) :
              \/ stored[row] > 0
              \/ \E t \in Threads : InHands(t) /\ Item(t) = row
              \/ \E l \in lost : l.item = row
        <4>1. \A t \in Threads : \A row : Carried(threads[t], row) => InHands(t) /\ Item(t) = row
          BY DEF Carried, Messenger, InHands, Busy, Item, Carrying, Sending
        <4> QED BY <4>1 DEF DeliveredInv, AccountInv, AllRows
      <3> QED BY <3>1 DEF SmsAccounted, DeliveredInv, PhoneOk, SteadyInv
    <2>2. SmsTwiceOnlyIfForgotten
      <3>1. \A row \in Messages : stored[row] <= Cardinality({i \in DOMAIN takes : takes[i] = row})
        <4> SUFFICES ASSUME NEW row \in Messages PROVE stored[row] <= Cardinality(TakesOf(row))
          BY DEF TakesOf
        <4>1. /\ Cardinality(Senders(row)) \in Nat /\ Cardinality(TakesOf(row)) \in Nat /\ stored[row] \in Nat
          BY CountForm DEF DeliveredInv, PhoneOk
        <4>2. stored[row] + Cardinality(Senders(row)) <= Cardinality(TakesOf(row))
          BY DEF DeliveredInv, CountInv
        <4> QED BY <4>1, <4>2
      <3>2. ASSUME NEW j \in DOMAIN takes, NEW i \in 1..j - 1, takes[i] # 0, takes[i] = takes[j]
            PROVE  LET between == ToSet(SubSeq(takes, i + 1, j - 1)) \ {takes[i]}
                   IN takes[i] \in raced \/ 0 \in between \/ Cardinality(between) >= KeptRows
        <4>1. Forgotten(takes, raced, i, j - 1)
          BY <3>2 DEF DeliveredInv, TwiceInv, TakenTwice
        <4>2. ToSet(SubSeq(takes, i + 1, j - 1)) = {takes[k] : k \in i + 1..j - 1}
          <5>1. takes \in Seq(Nat) /\ DOMAIN takes = 1..Len(takes) /\ Len(takes) \in Nat
            BY DEF DeliveredInv, PhoneOk, PhoneForm
          <5>2. i \in Nat /\ j \in Nat /\ i >= 1 /\ i <= j - 1 /\ j <= Len(takes)
            BY <5>1
          <5> DEFINE s == SubSeq(takes, i + 1, j - 1)
                     n == (j - 1) - i
          <5>3. n \in Nat /\ DOMAIN s = 1..n /\ \A k \in 1..n : s[k] = takes[i + k]
            BY <5>1, <5>2
          <5>4. \A k \in 1..n : i + k \in i + 1..j - 1
            BY <5>2
          <5>5. \A k \in i + 1..j - 1 : k - i \in 1..n /\ i + (k - i) = k
            BY <5>2
          <5> HIDE DEF s, n
          <5> DEFINE R == {takes[k] : k \in i + 1..j - 1}
          <5>6. \A x \in ToSet(s) : x \in R
            BY <5>3, <5>4 DEF ToSet
          <5>7. ASSUME NEW k \in i + 1..j - 1 PROVE takes[k] \in ToSet(s)
            <6>1. k - i \in DOMAIN s /\ s[k - i] = takes[k]
              BY <5>3, <5>5
            <6> QED BY <6>1 DEF ToSet
          <5>8. ToSet(s) = R
            BY <5>6, <5>7
          <5> QED BY <5>8 DEF s
        <4> QED BY <4>1, <4>2 DEF Forgotten, Since
      <3> QED BY <3>1, <3>2 DEF SmsTwiceOnlyIfForgotten
    <2>3. DesktopPreferred
      BY DEF DeliveredInv, PhoneOk, SteadyInv, SteadyTask, DesktopPreferred, Busy
    <2> QED BY <2>1, <2>2, <2>3 DEF SmsDelivered
  <1> QED BY <1>1, <1>2, <1>3, PTL DEF PhoneSpec

=============================================================================
