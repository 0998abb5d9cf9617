--------------------------------- MODULE Phone ---------------------------------
(***************************************************************************)
(* The Android app (AeonAgent.kt, SmsWatcherService.kt, the activities)    *)
(* and the desktop it reports to.  Threads of the app take up text         *)
(* messages and shared items; each item needs an endpoint that answers a   *)
(* hello, found again by broadcast and by guessing when the saved one does *)
(* not.  The desktop changes its address, stops and starts; a relay        *)
(* answers a hello too, but takes no text messages.                        *)
(***************************************************************************)
EXTENDS CodeInbox, FiniteSets, SequencesExt

CONSTANTS
  Threads,    \* threads of the app
  Hosts,      \* addresses the desktop may have
  Guesses,    \* the endpoints the app tries by guess, in order
  EmbeddedRelay,  \* the desktop serves a relay beside its own interface
  RelayBox,   \* endpoints of a relay that runs on its own
  Shares,     \* lists of items a user shares
  Recent, Changed,    \* messages read at a start and after a change
  MaxRows, KeptRows,  \* rows remembered as taken up
  MaxTroubles, MaxBegun  \* bounds: failures and changes of address, threads begun

ASSUME PhoneAssumption ==
  /\ EmbeddedRelay \in BOOLEAN /\ KeptRows <= MaxRows /\ IsFiniteSet(Threads)
  /\ Guesses \in Seq(ToSet(Guesses))
  /\ {Recent, Changed} \subseteq Nat \ {0} /\ {MaxRows, KeptRows, MaxTroubles, MaxBegun} \subseteq Nat
  /\ \A s \in Shares : s # <<>> /\ s \in Seq(ToSet(s)) /\ ToSet(s) \cap DOMAIN Runs = {}

VARIABLES
  desktop,   \* its address, whether it runs, and the URLs it lists
  dates,     \* the text messages on the phone: when each was sent
  endpoint,  \* the saved endpoint
  captured,  \* rows remembered as taken up, in that order
  threads,   \* what each thread does
  keep,      \* the rows each thread has listed and will add to the set again
  troubles,  \* moves and stops of the desktop, failed calls and restarts so far
  begun,     \* threads begun so far
  stored,    \* history: how often the desktop stored each item
  lost,      \* history: the messages given up, and why
  takes,     \* history: the rows taken up, in order; 0 for a restart, or for a use of
             \* the set of rows while another thread trims it
  raced,     \* history: rows two threads took up at once
  disorder,  \* history: messages may have been sent out of order
  codes      \* history: messages with a code the desktop has recorded since its start

world == <<desktop, dates>>
tally == <<troubles, begun>>
past == <<stored, lost, takes, raced, disorder, codes>>
memory == <<captured, keep>>
phoneVars == <<world, endpoint, memory, threads, tally, past>>

Endpoint(host, service) == [host |-> host, service |-> service]
Unset == Endpoint("phone", "ui")  \* DEFAULT_ENDPOINT is the phone itself
Idle == [at |-> "idle"]
Busy(t) == threads[t] # Idle
Items == Messages \cup UNION {ToSet(s) : s \in Shares}

\* What answers at an endpoint: the desktop, its relay, another relay, or nothing.
Answers(e) ==
  IF desktop.up /\ e.host = desktop.host
  THEN IF e.service = "ui" THEN "desktop" ELSE IF EmbeddedRelay THEN "relay" ELSE "none"
  ELSE IF e \in RelayBox THEN "relay" ELSE "none"

\* spawn_lan_discovery and discoverLanEndpoints: the reply names the address
\* the phone's packet came to, so it is the present one.
BugRelayFirst ==
  IF ~desktop.up THEN <<>>
  ELSE (IF EmbeddedRelay THEN <<Endpoint(desktop.host, "relay")>> ELSE <<>>)
       \o <<Endpoint(desktop.host, "ui")>>
Discovered ==
  IF ~desktop.up THEN <<>>
  ELSE <<Endpoint(desktop.host, "ui")>>
       \o (IF EmbeddedRelay THEN <<Endpoint(desktop.host, "relay")>> ELSE <<>>)

\* endpointCandidates: the saved endpoint unless it is the phone itself, then guesses.
Candidates == (IF endpoint = Unset THEN <<>> ELSE <<endpoint>>) \o Guesses

\* connection_urls: what the desktop lists when it starts, and never updates.
ConnectUrls(host) ==
  {Unset, Endpoint(host, "ui")} \cup (IF EmbeddedRelay THEN {Endpoint(host, "relay")} ELSE {})
  \cup RelayBox

\* readSms: the newest messages, newest first.
ReadSms(limit) ==
  [i \in 1..(IF limit < Len(dates) THEN limit ELSE Len(dates)) |-> Len(dates) - i + 1]

-----------------------------------------------------------------------------
PhoneInit ==
  /\ \E h \in Hosts : desktop = [host |-> h, up |-> TRUE, urls |-> ConnectUrls(h)]
  /\ dates = <<>> /\ endpoint = Unset /\ captured = <<>>
  /\ threads = [t \in Threads |-> Idle] /\ keep = [t \in Threads |-> <<>>]
  /\ troubles = 0 /\ begun = 0
  /\ stored = [i \in Items |-> 0] /\ lost = {} /\ takes = <<>> /\ raced = {} /\ disorder = FALSE /\ codes = {}

Set(t, task) == threads' = [threads EXCEPT ![t] = task]
At(t, step) == Busy(t) /\ threads[t].at = step
Item(t) == Head(threads[t].todo)
Task(todo, share) ==
  [at |-> "take", todo |-> todo, share |-> share, urls |-> <<>>, chose |-> "none", steady |-> TRUE]

Trouble == troubles < MaxTroubles /\ troubles' = troubles + 1

\* The desktop gets another address, stops, or starts; its inbox starts empty.
Unsteady == [t \in Threads |-> IF Busy(t) THEN [threads[t] EXCEPT !.steady = FALSE] ELSE Idle]
Move(h) ==
  /\ Trouble
  /\ h # desktop.host /\ desktop' = [desktop EXCEPT !.host = h]
  /\ threads' = Unsteady
  /\ UNCHANGED <<inboxVars, dates, endpoint, memory, begun, past>>
Stop ==
  /\ Trouble
  /\ desktop.up /\ desktop' = [desktop EXCEPT !.up = FALSE]
  /\ latest' = NoCode /\ codes' = {}
  /\ threads' = [t \in Threads |-> IF At(t, "inbox") THEN [Unsteady[t] EXCEPT !.at = "broken"]
                                   ELSE Unsteady[t]]
  /\ UNCHANGED <<now, dates, endpoint, memory, begun, stored, lost, takes, raced, disorder>>
Start ==
  /\ ~desktop.up
  /\ desktop' = [desktop EXCEPT !.up = TRUE, !.urls = ConnectUrls(desktop.host)]
  /\ threads' = Unsteady
  /\ UNCHANGED <<inboxVars, dates, endpoint, memory, tally, past>>

\* A message is on the phone.
Receive ==
  /\ Len(dates) < Len(Runs) /\ dates' = Append(dates, now)
  /\ UNCHANGED <<inboxVars, desktop, endpoint, memory, threads, tally, past>>

Begin(t, task) ==
  /\ ~Busy(t) /\ begun < MaxBegun /\ begun' = begun + 1 /\ Set(t, task)
  /\ disorder' = (disorder \/ (~task.share /\
                   (\/ Len(task.todo) > 1 \/ \E row \in codes : row > Head(task.todo)
                    \/ \E u \in Threads : Busy(u) /\ ~threads[u].share)))
  /\ UNCHANGED <<inboxVars, world, endpoint, memory, troubles, stored, lost, takes, raced, codes>>
\* onChange, in a thread of its own: of one message, which may be an old one
\* that was only marked as read, or of messages it does not name.
Change(t) ==
  \/ \E row \in DOMAIN dates : Begin(t, Task(<<row>>, FALSE))
  \/ dates # <<>> /\ Begin(t, Task(ReadSms(Changed), FALSE))
\* ShareReceiverActivity and PhotoWatcherService
Share(t, items) == Begin(t, Task(items, TRUE))

\* The user types an URL that the desktop lists; it is saved before it is checked.
SaveAndCheck(url) ==
  /\ Trouble /\ url # endpoint /\ endpoint' = url /\ threads' = Unsteady
  /\ UNCHANGED <<inboxVars, world, memory, begun, past>>

\* The steps of a trim that use the set of rows; what a thread does after its item.
TrimSteps == {"list", "clear", "readd"}
Ended(t) == Busy(t) /\ threads[t].at \in TrimSteps \cup {"size"}

\* The system, or an exception of a thread, ends the app; the SMS service is
\* started again (START_STICKY).
RestartApp(t) ==
  /\ Trouble
  /\ captured' = <<>> /\ keep' = [u \in Threads |-> <<>>] /\ takes' = Append(takes, 0)
  /\ disorder' = TRUE
  /\ lost' = lost \cup {[item |-> Item(u), why |-> "ended"] :
                          u \in {v \in Threads : Busy(v) /\ ~Ended(v)}}
  /\ threads' = [u \in Threads |-> IF u = t /\ dates # <<>> THEN Task(ReadSms(Recent), FALSE)
                                   ELSE Idle]
  /\ UNCHANGED <<inboxVars, world, endpoint, begun, stored, raced, codes>>

-----------------------------------------------------------------------------
(* One item after the other.                                                *)

Onward(t) ==
  LET rest == Task(Tail(threads[t].todo), threads[t].share)
  IN threads' = [threads EXCEPT ![t] =
       IF rest.todo = <<>> THEN Idle ELSE [rest EXCEPT !.steady = threads[t].steady]]

\* The item is done with; behind a text message the set of rows may be trimmed.
Done(t) ==
  IF threads[t].share THEN Onward(t) ELSE Set(t, [threads[t] EXCEPT !.at = "size"])

\* Another thread is trimming the set of rows, which no lock guards.
Overlaps(t) == \E u \in Threads \ {t} : Busy(u) /\ threads[u].at \in TrimSteps

\* capture: a row that was taken up before is left out.  The set is shared by
\* the threads without a lock, so another may look before this one inserts.
Take(t) ==
  /\ At(t, "take")
  /\ IF threads[t].share THEN Set(t, [threads[t] EXCEPT !.at = "hello"])
     ELSE IF Item(t) \in ToSet(captured) THEN Onward(t)
     ELSE Set(t, [threads[t] EXCEPT !.at = "insert"])
  /\ UNCHANGED <<inboxVars, world, endpoint, memory, tally, past>>

Insert(t) ==
  /\ At(t, "insert") /\ Set(t, [threads[t] EXCEPT !.at = "hello"])
  /\ captured' = IF Item(t) \in ToSet(captured) THEN captured ELSE Append(captured, Item(t))
  /\ takes' = IF Overlaps(t) THEN takes \o <<0, Item(t), 0>> ELSE Append(takes, Item(t))
  /\ raced' = IF Item(t) \in ToSet(captured) THEN raced \cup {Item(t)} ELSE raced
  /\ UNCHANGED <<inboxVars, world, endpoint, keep, tally, stored, lost, disorder, codes>>

\* A call is lost, refused or answered too late although somebody is there.
NoFault == UNCHANGED troubles
\* The thread goes on; after a fault it is not steady any more.
Go(t, task) == Set(t, [task EXCEPT !.steady = @ /\ troubles' = troubles])

\* ensureEndpoint: a hello to the saved endpoint, or discovery.
Hello(t) ==
  /\ At(t, "hello")
  /\ \/ Answers(endpoint) # "none" /\ NoFault /\ Go(t, [threads[t] EXCEPT !.at = "post"])
     \/ /\ IF Answers(endpoint) # "none" THEN Trouble ELSE NoFault
        /\ Go(t, [threads[t] EXCEPT !.at = "discover"])
  /\ UNCHANGED <<inboxVars, world, endpoint, memory, begun, past>>

\* discoverEndpoint: what answers the broadcast first, then the candidates.
Discover(t) ==
  /\ At(t, "discover")
  /\ \/ NoFault /\ Go(t, [threads[t] EXCEPT !.at = "check", !.urls = Discovered \o Candidates])
     \/ desktop.up /\ Trouble /\ Go(t, [threads[t] EXCEPT !.at = "check", !.urls = Candidates])
  /\ UNCHANGED <<inboxVars, world, endpoint, memory, begun, past>>

\* An item is given up: the SMS service only logs it, a user is told.
GiveUp(t) ==
  /\ Done(t)
  /\ lost' = IF threads[t].share THEN lost
             ELSE lost \cup {[item |-> Item(t),
                              why |-> IF ~threads[t].steady THEN "desktop or endpoint changed"
                                      ELSE IF troubles' # troubles THEN "call failed"
                                      ELSE IF ~desktop.up THEN "desktop down"
                                      ELSE Answers(endpoint)]}

BugNotSaved(t) ==
  /\ At(t, "check")
  /\ LET urls == threads[t].urls
     IN IF urls = <<>> THEN NoFault /\ GiveUp(t) /\ UNCHANGED endpoint
        ELSE \/ /\ Answers(Head(urls)) # "none" /\ NoFault /\ UNCHANGED <<endpoint, lost>>
                /\ Set(t, [threads[t] EXCEPT !.at = "post", !.chose = Answers(Head(urls))])
             \/ /\ IF Answers(Head(urls)) # "none" THEN Trouble ELSE NoFault
                /\ Go(t, [threads[t] EXCEPT !.urls = Tail(@)]) /\ UNCHANGED <<endpoint, lost>>
  /\ UNCHANGED <<inboxVars, world, memory, begun, stored, takes, raced, disorder, codes>>
\* checkEndpoint and setEndpoint: the next URL, if it answers probe and hello.
Check(t) ==
  /\ At(t, "check")
  /\ LET urls == threads[t].urls
     IN IF urls = <<>> THEN NoFault /\ GiveUp(t) /\ UNCHANGED endpoint
        ELSE \/ /\ Answers(Head(urls)) # "none" /\ NoFault
                /\ endpoint' = Head(urls) /\ UNCHANGED lost
                /\ Set(t, [threads[t] EXCEPT !.at = "post", !.chose = Answers(Head(urls))])
             \/ /\ IF Answers(Head(urls)) # "none" THEN Trouble ELSE NoFault
                /\ Go(t, [threads[t] EXCEPT !.urls = Tail(@)]) /\ UNCHANGED <<endpoint, lost>>
  /\ UNCHANGED <<inboxVars, world, memory, begun, stored, takes, raced, disorder, codes>>

\* The item is posted to the endpoint saved by now.  A relay takes shared items
\* and has no route for text messages; the desktop captures first.
Post(t) ==
  /\ At(t, "post")
  /\ LET by == Answers(endpoint)
     IN \/ /\ by = "desktop" /\ NoFault /\ stored' = [stored EXCEPT ![Item(t)] = @ + 1]
           /\ Set(t, [threads[t] EXCEPT !.at = "inbox"]) /\ UNCHANGED lost
        \/ /\ by = "relay" /\ threads[t].share /\ NoFault
           /\ Done(t) /\ UNCHANGED <<stored, lost>>
        \/ /\ by = "none" \/ (by = "relay" /\ ~threads[t].share)
           /\ NoFault /\ GiveUp(t) /\ UNCHANGED stored
        \/ by # "none" /\ Trouble /\ GiveUp(t) /\ UNCHANGED stored
  /\ UNCHANGED <<inboxVars, world, endpoint, memory, begun, takes, raced, disorder, codes>>

\* capture_sms records the code and answers; the answer may come too late.
Inbox(t) ==
  /\ At(t, "inbox")
  /\ latest' = IF threads[t].share THEN latest ELSE Recorded(Item(t), dates[Item(t)])
  /\ codes' = IF threads[t].share \/ CodeOf(Item(t)) = 0 THEN codes ELSE codes \cup {Item(t)}
  /\ \/ NoFault /\ Done(t) /\ UNCHANGED lost
     \/ Trouble /\ GiveUp(t)
  /\ UNCHANGED <<now, world, endpoint, memory, begun, stored, takes, raced, disorder>>

\* The desktop stopped before it could answer.
Broken(t) ==
  /\ At(t, "broken") /\ NoFault /\ GiveUp(t)
  /\ UNCHANGED <<inboxVars, world, endpoint, memory, begun, stored, takes, raced, disorder, codes>>

-----------------------------------------------------------------------------
(* The oldest rows are forgotten when there are too many.  The threads read  *)
(* and write the set in between as they like.                               *)

BugKeepOldest(all) == SubSeq(all, 1, IF KeptRows < Len(all) THEN KeptRows ELSE Len(all))
\* takeLast
Newest(all) == SubSeq(all, Len(all) - (IF KeptRows < Len(all) THEN KeptRows ELSE Len(all)) + 1, Len(all))

untouched == <<inboxVars, world, endpoint, tally, stored, lost, raced, disorder, codes>>
Uses(t) == takes' = IF Overlaps(t) THEN Append(takes, 0) ELSE takes

Size(t) ==
  /\ At(t, "size")
  /\ IF Len(captured) > MaxRows THEN Set(t, [threads[t] EXCEPT !.at = "list"]) ELSE Onward(t)
  /\ UNCHANGED <<untouched, memory, takes>>
List(t) ==
  /\ At(t, "list") /\ Set(t, [threads[t] EXCEPT !.at = "clear"])
  /\ keep' = [keep EXCEPT ![t] = Newest(captured)]
  /\ Uses(t) /\ UNCHANGED <<untouched, captured>>
Clear(t) ==
  /\ At(t, "clear") /\ Set(t, [threads[t] EXCEPT !.at = "readd"])
  /\ captured' = <<>>
  /\ Uses(t) /\ UNCHANGED <<untouched, keep>>
\* addAll, one row after the other
AddAgain(t) ==
  /\ At(t, "readd")
  /\ captured' = IF keep[t] = <<>> \/ Head(keep[t]) \in ToSet(captured) THEN captured
                 ELSE Append(captured, Head(keep[t]))
  /\ keep' = [keep EXCEPT ![t] = SubSeq(@, 2, Len(@))]
  /\ IF Len(keep[t]) <= 1 THEN Onward(t) ELSE UNCHANGED threads
  /\ Uses(t) /\ UNCHANGED untouched

PhoneNext ==
  \/ Stop \/ Start \/ Receive \/ \E h \in Hosts : Move(h)
  \/ \E url \in desktop.urls : SaveAndCheck(url)
  \/ \E t \in Threads :
       \/ RestartApp(t) \/ Change(t) \/ \E items \in Shares : Share(t, items)
       \/ Take(t) \/ Insert(t) \/ Hello(t) \/ Discover(t) \/ Check(t) \/ Post(t) \/ Inbox(t)
       \/ Broken(t) \/ Size(t) \/ List(t) \/ Clear(t) \/ AddAgain(t)

PhoneSpec ==
  InboxInit /\ PhoneInit /\ [][PhoneNext \/ (InboxTick /\ UNCHANGED phoneVars)]_<<inboxVars, phoneVars>>

-----------------------------------------------------------------------------
\* A row the service remembers, so that it will not send it again, is stored, in
\* a thread's hands, or given up; and it is given up only when the desktop was
\* down or moved, a call failed, or the saved endpoint was a relay.
InHands(t) ==
  /\ Busy(t) /\ ~threads[t].share
  /\ threads[t].at \in {"hello", "discover", "check", "post", "inbox", "broken"}
SmsAccounted ==
  /\ \A row \in ToSet(captured) :
       \/ stored[row] > 0
       \/ \E t \in Threads : InHands(t) /\ Item(t) = row
       \/ \E l \in lost : l.item = row
  /\ \A l \in lost : l.why \notin {"none", "desktop"}

\* As long as nothing failed or changed, discovery settles on a relay only if the
\* desktop was down.
DesktopPreferred == \A t \in Threads :
  Busy(t) => (threads[t].steady /\ desktop.up => threads[t].chose # "relay")

\* A message is stored no more often than it was taken up, and it is taken up twice
\* only if the app restarted in between or a thread used the set of rows while
\* another trimmed it, two threads took it up at once, or so many others were
\* taken up since that it was forgotten.
SmsTwiceOnlyIfForgotten ==
  /\ \A row \in Messages : stored[row] <= Cardinality({i \in DOMAIN takes : takes[i] = row})
  /\ \A j \in DOMAIN takes : \A i \in 1..j - 1 : takes[i] # 0 /\ takes[i] = takes[j] =>
       LET between == ToSet(SubSeq(takes, i + 1, j - 1)) \ {takes[i]}
       IN takes[i] \in raced \/ 0 \in between \/ Cardinality(between) >= KeptRows

\* The desktop offers the newest code it has got, unless a batch, two threads or
\* a message sent after a newer one brought them out of order.
NewestCodeOffered ==
  ~disorder => \A row \in codes : Offered # NoCode => Offered.row >= row

\* A text message the phone has taken up reaches the desktop: none is dropped
\* silently, none is stored twice without cause, and the phone settles on a relay
\* only without the desktop.
SmsDelivered == SmsAccounted /\ SmsTwiceOnlyIfForgotten /\ DesktopPreferred

=============================================================================
