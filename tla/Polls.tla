---------------------------------- MODULE Polls ----------------------------------
(***************************************************************************)
(* The monitors that look at a value again and again and capture it when   *)
(* it differs from the last: the clipboard's text or image (clipboard.rs)  *)
(* and, of os_activity.rs, the window in front and the text being typed.   *)
(* A signature of the last value is remembered, before that is captured.   *)
(***************************************************************************)
EXTENDS Integers, FiniteSets

CONSTANTS
  Samples,   \* [body, mark, plain]: a value, its signature, whether it may be stored in clear
  MaxSamples, MaxFailures  \* bounds

ASSUME PollsAssumption ==
  /\ {MaxSamples, MaxFailures} \subseteq Nat
  /\ \A v \in Samples : "no mark" \notin {v.body, v.mark}

VARIABLES
  source,    \* "clipboard text", "clipboard image", "window" or "typing"
  mark,      \* the signature of the last value, or NoMark
  kept,      \* what was captured
  sampled, failed, \* counted against their bounds
  seen,      \* history: the values that were there
  dropped    \* history: values whose capture failed

pollVars == <<source, mark, kept, sampled, failed, seen, dropped>>

NoMark == "no mark"
Redacted == "redacted"

\* redacted_for_storage
BugStoreUnknown(v) == IF v.plain = "no" THEN Redacted ELSE v.body
ForStorage(v) == IF v.plain # "yes" THEN Redacted ELSE v.body
\* into_capture_entry: the signature of a text being typed leaves its sensitivity out.
Entry(v) == [body |-> IF source = "typing" THEN ForStorage(v) ELSE v.body, mark |-> v.mark]
\* A text of the clipboard is compared whole, of an image the first 512 bytes are.
MarkOf(v) == IF source = "clipboard text" THEN v.body ELSE v.mark

PollInit ==
  /\ source \in {"clipboard text", "clipboard image", "window", "typing"}
  /\ mark = NoMark /\ kept = {} /\ sampled = 0 /\ failed = 0 /\ seen = {} /\ dropped = {}

\* One tick: a value with the last signature is passed over; a value that is
\* missing or blank changes nothing.
Compared(v) ==
  /\ sampled < MaxSamples /\ sampled' = sampled + 1 /\ seen' = seen \cup {v}
  /\ mark' = MarkOf(v) /\ UNCHANGED source
  /\ IF MarkOf(v) = mark THEN UNCHANGED <<kept, failed, dropped>>
     ELSE \/ kept' = kept \cup {Entry(v)} /\ UNCHANGED <<failed, dropped>>
          \/ failed < MaxFailures /\ failed' = failed + 1
               /\ dropped' = dropped \cup {v} /\ UNCHANGED kept

Clipboard(v) == source \in {"clipboard text", "clipboard image"} /\ Compared(v)
Foreground(v) == source = "window" /\ Compared(v)
Typing(v) == source = "typing" /\ Compared(v)

PollNext == \E v \in Samples : Clipboard(v) \/ Foreground(v) \/ Typing(v)

PollSpec == PollInit /\ [][PollNext]_pollVars

-----------------------------------------------------------------------------
\* A value is missed only when its capture failed or another has its signature;
\* what is typed is stored in clear only if some time it was typed where it is
\* known not to be sensitive.
SamplesRecorded ==
  /\ \A v \in seen : Entry(v) \in kept \/ v \in dropped
                     \/ \E other \in seen \ {v} : MarkOf(other) = MarkOf(v)
  /\ source = "typing" => \A entry \in kept : entry.body # Redacted =>
       \E v \in seen : v.body = entry.body /\ v.mark = entry.mark /\ v.plain = "yes"

=============================================================================
