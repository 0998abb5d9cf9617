-------------------------------- MODULE CodeFill --------------------------------
(***************************************************************************)
(* The browser extension (background.js, content.js).  Tab events and an   *)
(* alarm make the worker ask the desktop for the latest verification code  *)
(* and for the credential of the site of a tab, and have the page filled   *)
(* in.  The worker remembers per tab what it filled last; the browser ends *)
(* the worker when it is idle and starts it again with empty memory.       *)
(***************************************************************************)
EXTENDS CodeInbox, FiniteSets, SequencesExt

CONSTANTS
  Attempts,   \* attempts to fill that may be under way at once
  Tabs,       \* tabs
  Sites,      \* sites a tab may show, each with the fields it has
  SessionLength,  \* how long an unlocked vault stays open
  MaxEvents, MaxFills  \* bounds: changes of page or tab and restarts, fills

ASSUME FillAssumption == {SessionLength, MaxEvents, MaxFills} \subseteq Nat

VARIABLES
  active,    \* the tab in front
  page,      \* the site each tab shows
  attempts,  \* the attempts under way
  filled,    \* what the worker filled last, by kind and tab
  session,   \* the vault session the extension has stored, until when
  open,      \* the desktop still knows that session
  loads, stops,  \* page loads and restarts so far
  fills,     \* history: the fills, in order
  marks      \* history: the fills the worker has noted, in order

browser == <<active, page, loads>>
worker == <<attempts, filled>>
vault == <<session, open>>
seen == <<fills, marks>>
fillVars == <<browser, worker, vault, stops, seen>>

Kinds == {"code", "credential"}
Rest == [at |-> "rest"]
NoKey == <<>>

\* fillKey and credentialKey: what is filled, and until when it is good.
CodeKey(candidate) == <<candidate.row, candidate.expires>>
CredentialKey(site) == <<site, session>>

-----------------------------------------------------------------------------
FillInit ==
  /\ active \in Tabs /\ page \in [Tabs -> Sites]
  /\ attempts = [a \in Attempts |-> Rest] /\ filled = [k \in Kinds |-> [t \in Tabs |-> NoKey]]
  /\ session = 0 /\ open = FALSE
  /\ loads = 0 /\ stops = 0 /\ fills = <<>> /\ marks = <<>>

\* A message with a code arrives at the desktop, in whatever order.
Arrives(row) ==
  /\ latest' = Recorded(row, now) /\ latest' # latest
  /\ UNCHANGED <<now, fillVars>>

\* The desktop starts again: its inbox and its vault sessions are empty.
RestartDesktop ==
  /\ loads + stops < MaxEvents /\ stops' = stops + 1
  /\ latest' = NoCode /\ open' = FALSE
  /\ UNCHANGED <<now, browser, worker, session, seen>>

Load(tab, site) ==
  /\ loads + stops < MaxEvents /\ loads' = loads + 1
  /\ page' = [page EXCEPT ![tab] = site]
  /\ UNCHANGED <<inboxVars, active, worker, vault, stops, seen>>
Activate(tab) ==
  /\ loads + stops < MaxEvents /\ loads' = loads + 1
  /\ tab # active /\ active' = tab
  /\ UNCHANGED <<inboxVars, page, worker, vault, stops, seen>>

\* unlockVault
UnlockVault ==
  /\ session <= now
  /\ session' = now + SessionLength /\ open' = TRUE
  /\ UNCHANGED <<inboxVars, browser, worker, stops, seen>>

StopWorker ==
  /\ loads + stops < MaxEvents /\ stops' = stops + 1
  /\ attempts' = [a \in Attempts |-> Rest]
  /\ filled' = [k \in Kinds |-> [t \in Tabs |-> NoKey]]
  /\ UNCHANGED <<inboxVars, browser, vault, seen>>

-----------------------------------------------------------------------------
(* One attempt: an event, the desktop's answer, the fill, the note of it.   *)

Proceed(a, s) == attempts' = [attempts EXCEPT ![a] = s]
Stage(a, step) == attempts[a].at = step
Answered(a) == attempts[a].key # NoKey

\* Tab events and the alarm: a code is for the tab in front, a credential for
\* the tab of the event.
BeginFill(a, kind, tab) ==
  /\ Stage(a, "rest") /\ Len(fills) < MaxFills
  /\ kind = "code" => tab = active
  /\ Proceed(a, [at |-> "ask", kind |-> kind, tab |-> tab, site |-> page[tab], since |-> loads,
                 key |-> NoKey, noted |-> 0])
  /\ UNCHANGED <<inboxVars, browser, filled, vault, stops, seen>>

\* What is filled already is not filled again.
BugActiveTab(a, key) ==
  IF filled[attempts[a].kind][active] = key THEN Rest
  ELSE [attempts[a] EXCEPT !.key = key, !.noted = Len(marks)]
Unfilled(a, key) ==
  IF filled[attempts[a].kind][attempts[a].tab] = key THEN Rest
  ELSE [attempts[a] EXCEPT !.key = key, !.noted = Len(marks)]

\* latestVerificationCode: from the desktop this browser runs on.
AskCode(a) ==
  /\ Stage(a, "ask") /\ ~Answered(a) /\ attempts[a].kind = "code"
  /\ Proceed(a, IF Offered = NoCode THEN Rest ELSE Unfilled(a, CodeKey(Offered)))
  /\ UNCHANGED <<inboxVars, browser, filled, vault, stops, seen>>

BugFrontSite(a) ==
  /\ Stage(a, "ask") /\ ~Answered(a) /\ attempts[a].kind = "credential"
  /\ Proceed(a, IF session <= now \/ ~open THEN Rest ELSE Unfilled(a, CredentialKey(page[active])))
  /\ session' = IF session > now /\ ~open THEN 0 ELSE session
  /\ UNCHANGED <<inboxVars, browser, filled, open, stops, seen>>
\* credentialForTab: none without a session; one the desktop has forgotten is
\* removed.
AskCredential(a) ==
  /\ Stage(a, "ask") /\ ~Answered(a) /\ attempts[a].kind = "credential"
  /\ Proceed(a, IF session <= now \/ ~open THEN Rest ELSE Unfilled(a, CredentialKey(attempts[a].site)))
  /\ session' = IF session > now /\ ~open THEN 0 ELSE session
  /\ UNCHANGED <<inboxVars, browser, filled, open, stops, seen>>

\* fillVerificationCode and fillCredentials, in the page the tab shows by now.
FillPage(a) ==
  /\ Stage(a, "ask") /\ Answered(a)
  /\ LET s == attempts[a]
     IN IF s.kind \in page[s.tab].fields
        THEN /\ fills' = Append(fills, [kind |-> s.kind, tab |-> s.tab, key |-> s.key,
                  noted |-> s.noted, since |-> s.since, page |-> page[s.tab],
                  until |-> loads, stops |-> stops])
             /\ Proceed(a, [at |-> "mark", kind |-> s.kind, tab |-> s.tab, key |-> s.key,
                       fill |-> Len(fills')])
        ELSE Proceed(a, Rest) /\ UNCHANGED fills
  /\ UNCHANGED <<inboxVars, browser, filled, vault, stops, marks>>

Mark(a) ==
  /\ Stage(a, "mark") /\ Proceed(a, Rest)
  /\ filled' = [filled EXCEPT ![attempts[a].kind][attempts[a].tab] = attempts[a].key]
  /\ marks' = Append(marks, attempts[a].fill)
  /\ UNCHANGED <<inboxVars, browser, vault, stops, fills>>

FillNext ==
  \/ \E row \in Messages : Arrives(row)
  \/ RestartDesktop \/ UnlockVault \/ StopWorker
  \/ (InboxTick /\ UNCHANGED fillVars)
  \/ \E tab \in Tabs : Activate(tab) \/ \E site \in Sites : Load(tab, site)
  \/ \E a \in Attempts : \/ \E kind \in Kinds, tab \in Tabs : BeginFill(a, kind, tab)
                         \/ AskCode(a) \/ AskCredential(a) \/ FillPage(a) \/ Mark(a)

FillSpec == InboxInit /\ FillInit /\ [][FillNext]_<<inboxVars, fillVars>>

-----------------------------------------------------------------------------
\* A code or a credential is filled into a tab twice only if the worker stopped
\* in between, if the second attempt began before the first was noted, or if
\* another key of that kind was filled there meanwhile.
FilledOnce ==
  \A j \in DOMAIN fills : \A i \in 1..j - 1 :
    LET Same(k) == fills[k].kind = fills[j].kind /\ fills[k].tab = fills[j].tab
        known == SubSeq(marks, 1, fills[j].noted)
    IN Same(i) /\ fills[i].key = fills[j].key /\ fills[i].stops = fills[j].stops =>
         \/ i \notin ToSet(known)
         \/ \E n \in DOMAIN known : /\ Same(known[n]) /\ fills[known[n]].key # fills[j].key
                                    /\ \E m \in 1..n - 1 : known[m] = i

\* A credential goes to a page of the site it was asked for, unless another page
\* was loaded while the request was under way.
CredentialOnItsSite ==
  \A i \in DOMAIN fills : fills[i].kind = "credential" =>
    fills[i].key[1] = fills[i].page \/ fills[i].until > fills[i].since

\* What the extension fills in, it fills in once and on the page it is for.
FillsRight == FilledOnce /\ CredentialOnItsSite

=============================================================================
