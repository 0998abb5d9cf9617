------------------------------ MODULE RelayFeed ------------------------------
(***************************************************************************)
(* What the relay promises to the desktops that poll it: one feed of       *)
(* items, delivered to every reader but the item's own device in the order *)
(* of their keys, without a gap.  A reader may miss an item only if it was *)
(* published after one with a higher key.                                  *)
(***************************************************************************)
EXTENDS Naturals

CONSTANTS
  Readers,  \* the devices that poll
  Key       \* items, identified by time, content and publishing device

VARIABLES
  published,  \* items of the feed
  delivered,  \* per reader: items it received
  missed      \* per reader: items published too late for it

feedVars == <<published, delivered, missed>>

Precedes(a, b) ==
  \/ a.at < b.at
  \/ a.at = b.at /\ a.cid < b.cid
  \/ a.at = b.at /\ a.cid = b.cid /\ a.dev < b.dev

FeedInit ==
  /\ published = {}
  /\ delivered = [r \in Readers |-> {}]
  /\ missed = [r \in Readers |-> {}]

\* Item i joins the feed; the readers of M will not get it, which is possible
\* only when a later item was published before it.
Publish(i, M) ==
  /\ i \notin published
  /\ M # {} => \E j \in published : Precedes(i, j)
  /\ published' = published \cup {i}
  /\ missed' = [r \in Readers |-> IF r \in M THEN missed[r] \cup {i} ELSE missed[r]]
  /\ UNCHANGED delivered

\* Reader r receives item i: nothing before it is still due.
Deliver(r, i) ==
  /\ i \in published /\ i.dev # r
  /\ \A j \in published :
       j.dev # r /\ Precedes(j, i) => j \in delivered[r] \cup missed[r]
  /\ delivered' = [delivered EXCEPT ![r] = @ \cup {i}]
  /\ UNCHANGED <<published, missed>>

FeedNext ==
  \/ \E i \in Key, M \in SUBSET Readers : Publish(i, M)
  \/ \E r \in Readers, i \in Key : Deliver(r, i)

FeedSpec == FeedInit /\ [][FeedNext]_feedVars
=============================================================================
