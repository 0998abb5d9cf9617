------------------------------- MODULE CodeInbox -------------------------------
(***************************************************************************)
(* The verification code the desktop offers: the code of the text message  *)
(* that arrived last, until a time after that message was sent             *)
(* (bridge.rs of aeon-sync and aeon-capture).  Text messages are numbered  *)
(* in the order the phone received them.                                   *)
(***************************************************************************)
EXTENDS Integers, Sequences

CONSTANTS
  Runs,   \* of each text message: whether it speaks of a code, and the length
          \* of each of its runs of digits
  Ttl,    \* how long a code is offered
  MaxNow  \* bound: the clock

ASSUME InboxAssumption ==
  /\ Ttl \in Nat /\ MaxNow \in Nat
  /\ Runs \in Seq([cue : BOOLEAN, lengths : Seq(Nat)])

VARIABLES
  now,     \* the clock
  latest   \* the code offered: its message and the end of its time

inboxVars == <<now, latest>>

Messages == DOMAIN Runs
NoCode == [row |-> 0, run |-> 0, expires |-> 0]

\* extract_verification_code: which run of digits is the code, or 0.
CodeOf(row) ==
  LET runs == Runs[row].lengths
      fits == {i \in DOMAIN runs : runs[i] \in 4..8}
      sixes == {i \in DOMAIN runs : runs[i] = 6}
  IN IF Runs[row].cue
     THEN IF fits = {} THEN 0 ELSE CHOOSE i \in fits : \A j \in fits : i <= j
     ELSE IF \E i \in sixes : sixes = {i} THEN CHOOSE i \in sixes : TRUE ELSE 0

BugKeepFresh(row, date) ==
  IF CodeOf(row) = 0 \/ (latest # NoCode /\ latest.expires >= now) THEN latest
  ELSE [row |-> row, run |-> CodeOf(row), expires |-> date + Ttl]
\* record_sms_code: whatever arrives last replaces what is there.
Recorded(row, date) ==
  IF CodeOf(row) = 0 THEN latest
  ELSE [row |-> row, run |-> CodeOf(row), expires |-> date + Ttl]

\* VerificationCodeInbox::latest
Offered == IF latest # NoCode /\ latest.expires >= now THEN latest ELSE NoCode

InboxInit == now = 0 /\ latest = NoCode

InboxTick == now < MaxNow /\ now' = now + 1 /\ UNCHANGED latest

=============================================================================
