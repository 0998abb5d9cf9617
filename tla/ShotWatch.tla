-------------------------------- MODULE ShotWatch --------------------------------
(***************************************************************************)
(* The watcher of the folders where screenshot tools save (screenshot.rs,  *)
(* platform/image.rs), for one file name.  An event of the file makes a    *)
(* task that reads it Delay later; events that are handled within Window   *)
(* of one that made a task are passed over.  A read or a capture that      *)
(* fails is not tried again, and a service that stops forgets its events   *)
(* and tasks.  The clock counts half seconds.                              *)
(***************************************************************************)
EXTENDS Integers

CONSTANTS
  Window,   \* for how long events are passed over: less than two seconds
  Delay,    \* after which time a task reads the file: 300 ms and 200 ms
  MaxTime, MaxShots, MaxWrites, \* bounds: the clock, screenshots, writes of one of them,
  MaxSlips  \* failures and stops of the service

ASSUME ShotAssumption == {Window, Delay, MaxTime, MaxShots, MaxWrites, MaxSlips} \subseteq Nat

VARIABLES
  clock,
  format,    \* what the tool saves: "png" or "jpg"
  saved,     \* the screenshot in the file, the writes of it so far and whether it is complete
  events,    \* events the watcher has not handled
  recent,    \* when the last event that made a task was handled, or -Window
  tasks,     \* when the file may be read, in half seconds, for each task
  shots,     \* what was captured
  watching,  \* the service runs
  slips,     \* failures and stops so far
  prompt,    \* history: the screenshot began in a calm and has taken less than Delay
  lostShots  \* history: screenshots whose task failed, or that waited when the service stopped

shotVars == <<clock, format, saved, events, recent, tasks, shots, watching, slips, prompt, lostShots>>

ShotInit ==
  /\ clock = 0 /\ format \in {"png", "jpg"} /\ saved = [shot |-> 0, writes |-> 0, whole |-> FALSE]
  /\ events = 0 /\ recent = -Window /\ tasks = {} /\ shots = {} /\ watching = TRUE /\ slips = 0
  /\ prompt = [at |-> 0, calm |-> FALSE] /\ lostShots = {}

\* The operating system tells a service that runs.
Told == events' = IF watching THEN events + 1 ELSE events

\* A tool begins a screenshot, replacing what the file held, and completes it in
\* one write or in some more.
BeginShot(whole) ==
  /\ saved.shot < MaxShots
  /\ saved' = [shot |-> saved.shot + 1, writes |-> 1, whole |-> whole]
  /\ prompt' = [at |-> clock, calm |-> watching /\ events = 0 /\ clock - recent >= Window]
  /\ Told /\ UNCHANGED <<clock, format, recent, tasks, shots, watching, slips, lostShots>>
WriteMore(whole) ==
  /\ saved.writes \in 1..MaxWrites - 1 /\ ~saved.whole
  /\ saved' = [saved EXCEPT !.writes = @ + 1, !.whole = whole]
  /\ prompt' = [prompt EXCEPT !.calm = @ /\ clock - prompt.at < Delay]
  /\ Told /\ UNCHANGED <<clock, format, recent, tasks, shots, watching, slips, lostShots>>
\* The user removes it; such an event is of no kind the watcher looks at.
RemoveShot ==
  /\ saved.writes > 0 /\ saved' = [saved EXCEPT !.writes = 0, !.whole = FALSE]
  /\ UNCHANGED <<clock, format, events, recent, tasks, shots, watching, slips, prompt, lostShots>>

\* start: a passed event does not put off the end of the window.
BugSooner ==
  /\ events > 0 /\ events' = events - 1
  /\ IF clock - recent < Window THEN UNCHANGED <<recent, tasks>>
     ELSE recent' = clock /\ tasks' = tasks \cup {clock}
  /\ UNCHANGED <<clock, format, saved, shots, watching, slips, prompt, lostShots>>
HandleEvent ==
  /\ events > 0 /\ events' = events - 1
  /\ IF clock - recent < Window THEN UNCHANGED <<recent, tasks>>
     ELSE recent' = clock /\ tasks' = tasks \cup {clock + Delay}
  /\ UNCHANGED <<clock, format, saved, shots, watching, slips, prompt, lostShots>>

\* read_image_as_png: what begins like a PNG is taken as it is; anything else
\* has to be decoded, which a part of it cannot.
Readable == saved.writes > 0 /\ (saved.whole \/ format = "png")
CaptureShot == \E due \in tasks :
  /\ due <= clock /\ tasks' = tasks \ {due}
  /\ shots' = IF Readable THEN shots \cup {saved} ELSE shots
  /\ UNCHANGED <<clock, format, saved, events, recent, watching, slips, prompt, lostShots>>
\* The file cannot be read, or engine.capture fails and leaves no record of it.
Slip == slips < MaxSlips /\ slips' = slips + 1
CaptureFails == \E due \in tasks :
  /\ due <= clock /\ saved.writes > 0 /\ Slip
  /\ tasks' = tasks \ {due} /\ lostShots' = lostShots \cup {saved.shot}
  /\ UNCHANGED <<clock, format, saved, events, recent, shots, watching, prompt>>

\* The service stops, and starts again without a look at the files that are there.
StopWatch ==
  /\ watching /\ Slip /\ watching' = FALSE
  /\ events' = 0 /\ tasks' = {} /\ recent' = -Window
  /\ lostShots' = IF events > 0 \/ tasks # {} THEN lostShots \cup {saved.shot} ELSE lostShots
  /\ UNCHANGED <<clock, format, saved, shots, prompt>>
StartWatch ==
  /\ ~watching /\ watching' = TRUE
  /\ UNCHANGED <<clock, format, saved, events, recent, tasks, shots, slips, prompt, lostShots>>

\* The watcher is ahead of the clock, tasks may be late.
ShotTick ==
  /\ clock < MaxTime /\ events = 0 /\ clock' = clock + 1
  /\ UNCHANGED <<format, saved, events, recent, tasks, shots, watching, slips, prompt, lostShots>>

ShotNext ==
  \/ HandleEvent \/ CaptureShot \/ CaptureFails \/ StopWatch \/ StartWatch \/ ShotTick \/ RemoveShot
  \/ \E whole \in BOOLEAN : BeginShot(whole) \/ WriteMore(whole)

ShotSpec == ShotInit /\ [][ShotNext]_shotVars

-----------------------------------------------------------------------------
\* A screenshot that is complete within Delay, and began when nothing had made
\* a task for as long as Window, is captured whole, unless a task that read its
\* file failed or the service stopped before such a task was done.
WholeShotCaptured ==
  events = 0 /\ tasks = {} /\ saved.whole /\ prompt.calm /\ saved.shot \notin lostShots => saved \in shots

=============================================================================
