---------------------------- MODULE ProcessCapture ----------------------------
(***************************************************************************)
(* Captures of running processes.  The console lists the processes with    *)
(* the options each offers (process.rs) and later sends one option back;   *)
(* the service finds out from the option's id what to do and reads the     *)
(* process table again, step by step (process_helpers.rs,                  *)
(* process_capture.rs).  Processes start and exit meanwhile, and the       *)
(* system gives the pid of one that has exited to another.                 *)
(***************************************************************************)
EXTENDS Integers, Sequences, FiniteSets, SequencesExt

CONSTANTS
  Pids,        \* process ids; 0 is the idle process, which shows no window
  Programs,    \* programs: the words of the name, and whether it shows a window
  ManifestVms, \* ids in the VM manifest, "vm-N"
  RelayOn,     \* the service has a relay
  MaxWindows,  \* most windows a full capture records
  MaxStarts, MaxAsked, MaxFailures  \* bounds: processes, requests, failed steps

ASSUME ProcessAssumption ==
  /\ Pids \subseteq Nat \ {0} /\ ManifestVms \subseteq {"vm"} \X Nat /\ MaxWindows \in Nat /\ RelayOn \in BOOLEAN
  /\ MaxStarts \in Nat /\ MaxAsked \in Nat /\ MaxFailures \in Nat

VARIABLES
  table,     \* the running process of each pid: its number and program
  launched,  \* processes started so far
  listing,   \* the processes and options the console shows
  work,      \* the request in progress
  asked,     \* requests so far
  failures,  \* failed steps so far
  made,      \* history: the records made
  refusals   \* history: the requests answered with an error

processVars == <<table, launched, listing, work, asked, failures, made, refusals>>

NoProcess == [number |-> 0]
Running(pid) == table[pid] # NoProcess
Runs(p) == \E pid \in Pids : table[pid] = p
Rest == [at |-> "rest"]

-----------------------------------------------------------------------------
(* What a process offers.  An option is a verb and what follows it.         *)

Named(p, words) == p # NoProcess /\ p.program.words \cap words # {}

\* browser_options, and chromium_options for Chrome and its like.
BrowserOptions == {"browser_tab", "browser_pages", "screenshot"}
ChromiumOptions == BrowserOptions \cup {"browser_bookmarks"}

Rules == <<
  [words |-> {"claude"}, offers |-> {"claude_conversation", "screenshot"}],
  [words |-> {"code.exe", "visual studio code"},
   offers |-> {"vscode_workspace", "vscode_current_file", "screenshot"}],
  [words |-> {"chrome"}, offers |-> ChromiumOptions],
  [words |-> {"edge"}, offers |-> BrowserOptions],
  [words |-> {"firefox"}, offers |-> BrowserOptions],
  [words |-> {"powershell", "wt.exe", "bash.exe"}, offers |-> {"terminal_state", "screenshot"}],
  [words |-> {"winword", "excel", "powerpnt"}, offers |-> {"screenshot", "metadata"}],
  [words |-> {"obsidian"}, offers |-> {"obsidian_vault", "screenshot"}] >>

\* known_app_options: the first rule whose words the name contains, or 0.
Rule(p) == SelectInSeq(Rules, LAMBDA r : Named(p, r.words))

IsVm(p) == Named(p, {"aeon-vm", "aeon-run"})
IsSystem(p) == Named(p, {"svchost.exe", "explorer.exe", "conhost.exe"})
VmId(pid) == <<"pid", pid>>

VmOptions(id) == {"migrate_", "snapshot_", "pause_"} \X {id}
UnknownOptions(pid) == {"screenshot", "metadata_"} \X {<<pid>>}

\* list_processes: every process but a VM offers its state and its metadata.
Options(p, pid) ==
  IF IsVm(p) THEN VmOptions(VmId(pid))
  ELSE LET own == IF Rule(p) > 0 THEN Rules[Rule(p)].offers \X {<<>>}
                  ELSE UnknownOptions(pid)
       IN {<<"app_state_", <<pid>>>>} \cup own
          \cup IF \E o \in own : o[1] \in {"metadata", "metadata_"} THEN {}
               ELSE {<<"metadata", <<>>>>}

-----------------------------------------------------------------------------
(* What an option id makes the service do: its steps, in order.             *)

BugNoDispatch(verb) ==
  CASE verb = "screenshot" -> <<"shoot", "title">>
    [] verb = "metadata" -> <<"metadata">>
    [] verb = "app_state_" -> <<"metadata", "shoot", "title", "state">>
    [] verb \in {"snapshot_", "migrate_"} -> <<"vm">>
    [] verb = "pause_" -> <<"pause", "vm">>
    [] verb \in {"browser_tab", "browser_pages"} -> <<"browser">>
    [] verb \in {"browser_bookmarks", "terminal_state"} -> <<"list">>
    [] verb \in {"claude_conversation", "vscode_workspace", "vscode_current_file"} -> <<"app">>
    [] OTHER -> <<>>
\* execute_capture_option
Steps(verb) ==
  CASE verb = "screenshot" -> <<"shoot", "title">>
    [] verb \in {"metadata", "metadata_", "obsidian_vault"} -> <<"metadata">>
    [] verb = "app_state_" -> <<"metadata", "shoot", "title", "state">>
    [] verb \in {"snapshot_", "migrate_"} -> <<"vm">>
    [] verb = "pause_" -> <<"pause", "vm">>
    [] verb \in {"browser_tab", "browser_pages"} -> <<"browser">>
    [] verb \in {"browser_bookmarks", "terminal_state"} -> <<"list">>
    [] verb \in {"claude_conversation", "vscode_workspace", "vscode_current_file"} -> <<"app">>
    [] OTHER -> <<>>

\* list_visible_windows: the processes with a window.  The system enumerates the
\* windows from the one in front to the one behind, which may be any order.
Windows == {[pid |-> pid, process |-> table[pid]] :
             pid \in {q \in Pids : Running(q) /\ table[q].program.window}}

-----------------------------------------------------------------------------
ProcessInit ==
  /\ table = [pid \in Pids |-> NoProcess]
  /\ launched = 0 /\ listing = {} /\ work = Rest /\ asked = 0 /\ failures = 0
  /\ made = {} /\ refusals = {}

\* External: the system starts and ends processes.
Starts(pid, program) ==
  /\ ~Running(pid) /\ launched < MaxStarts
  /\ launched' = launched + 1
  /\ table' = [table EXCEPT ![pid] = [number |-> launched', program |-> program]]
  /\ UNCHANGED <<listing, work, asked, failures, made, refusals>>

Exits(pid) ==
  /\ Running(pid)
  /\ table' = [table EXCEPT ![pid] = NoProcess]
  /\ UNCHANGED <<launched, listing, work, asked, failures, made, refusals>>

\* list_process_entries: the console shows the processes of this moment.
List ==
  /\ listing' = {[pid |-> pid, process |-> table[pid], options |-> Options(table[pid], pid)] :
                  pid \in {q \in Pids : Running(q) /\ ~IsSystem(table[q])}}
  /\ listing' # listing
  /\ UNCHANGED <<table, launched, work, asked, failures, made, refusals>>

\* capture_process_option: the user has chosen an option of the listing; one
\* the service has no steps for is refused.
Choose(entry, option) ==
  /\ work = Rest /\ asked < MaxAsked /\ asked' = asked + 1
  /\ work' = IF Steps(option[1]) = <<>> THEN Rest
             ELSE [at |-> "option", pid |-> entry.pid, chosen |-> entry.process,
                   option |-> option, todo |-> Steps(option[1]), read |-> NoProcess,
                   shot |-> NoProcess, queue |-> {}, taken |-> 0]
  /\ refusals' = IF Steps(option[1]) # <<>> THEN refusals
                 ELSE refusals \cup {[option |-> option, process |-> entry.process,
                                      why |-> "unknown action", gone |-> FALSE]}
  /\ UNCHANGED <<table, launched, listing, failures, made>>

\* capture_all: an inventory of all processes, the known applications, and the
\* visible windows one by one; a part that fails is left out.
CaptureAll ==
  /\ work = Rest /\ asked < MaxAsked /\ asked' = asked + 1
  /\ work' = [at |-> "all", pid |-> 0, chosen |-> NoProcess, option |-> <<"all", <<>>>>,
              todo |-> <<"inventory", "app", "windows">>, read |-> NoProcess,
              shot |-> NoProcess, queue |-> {}, taken |-> 0]
  /\ UNCHANGED <<table, launched, listing, failures, made, refusals>>

Advance == [work EXCEPT !.todo = Tail(@)]
Now == table[work.pid]
Doing(step) == work # Rest /\ work.todo # <<>> /\ Head(work.todo) = step

\* A request ends, or a full capture goes on with its next part.
NextPart(w) == IF w.at = "option" THEN Rest
               ELSE IF w.pid = 0 THEN [w EXCEPT !.todo = Tail(@)]
               ELSE [w EXCEPT !.todo = <<>>, !.read = NoProcess, !.shot = NoProcess]

Refuse(why) ==
  /\ work' = NextPart(work)
  /\ refusals' = IF work.at = "all" THEN refusals
                 ELSE refusals \cup {[option |-> work.option, process |-> work.chosen, why |-> why,
                                      gone |-> ~Runs(work.chosen)]}
  /\ UNCHANGED <<table, launched, listing, asked, failures, made>>

\* A record of the processes in of, and whether the chosen one is gone.
RecordOf(what, of) ==
  [what |-> what, of |-> of, browser |-> "none", chosen |-> work.chosen, gone |-> ~Runs(work.chosen)]

Keep(record, next) ==
  /\ made' = made \cup {record}
  /\ work' = next
  /\ UNCHANGED <<table, launched, listing, asked, failures, refusals>>

\* capture_process_inventory
Inventory == Doing("inventory") /\ Keep(RecordOf("inventory", {}), Advance)

ListWindows ==
  /\ Doing("windows")
  /\ work' = [Advance EXCEPT !.queue = Windows]
  /\ UNCHANGED <<table, launched, listing, asked, failures, made, refusals>>

\* capture_visible_app_windows: the next window, unless there are enough; what
\* only draws the desktop is passed over.
NextWindow ==
  /\ work # Rest /\ work.at = "all" /\ work.todo = <<>>
  /\ \/ (work.queue = {} \/ work.taken >= MaxWindows) /\ work' = Rest
     \/ \E window \in work.queue :
          LET rest == [work EXCEPT !.queue = @ \ {window}] IN
          /\ work.taken < MaxWindows
          /\ work' = IF Named(table[window.pid], {"explorer.exe"}) THEN rest
                     ELSE [rest EXCEPT !.pid = window.pid, !.chosen = window.process,
                                       !.todo = Steps("app_state_")]
  /\ UNCHANGED <<table, launched, listing, asked, failures, made, refusals>>

\* process_metadata: what runs under the pid now; the metadata is a record of
\* its own, or the first part of an application state.
ReadMetadata ==
  /\ Doing("metadata")
  /\ IF ~Running(work.pid) THEN Refuse("process not found")
     ELSE IF Tail(work.todo) = <<>>
     THEN Keep(RecordOf("metadata", {Now}), NextPart(work))
     ELSE /\ work' = [Advance EXCEPT !.read = Now, !.shot = NoProcess]
          /\ UNCHANGED <<table, launched, listing, asked, failures, made, refusals>>

\* capture_window_screenshot_bytes: the window of the pid now.  An application
\* state goes on without a screenshot when there is none.
Shoot ==
  /\ Doing("shoot")
  /\ IF Running(work.pid) /\ table[work.pid].program.window
     THEN /\ work' = [Advance EXCEPT !.shot = Now]
          /\ UNCHANGED <<table, launched, listing, asked, failures, made, refusals>>
     ELSE IF work.read # NoProcess
     THEN /\ work' = [work EXCEPT !.todo = <<"state">>]
          /\ UNCHANGED <<table, launched, listing, asked, failures, made, refusals>>
     ELSE Refuse("no window")

\* capture_window_screenshot records the picture under the name of the process
\* that has the pid by now, if any.
Title ==
  /\ Doing("title")
  /\ Keep(RecordOf("screenshot", {work.shot} \cup ({Now} \ {NoProcess})),
          IF Tail(work.todo) = <<>> THEN NextPart(work) ELSE Advance)

\* capture_generic_app_state: metadata and screenshot as one record.
RecordState ==
  /\ Doing("state")
  /\ Keep(RecordOf("app_state", {work.read} \cup ({work.shot} \ {NoProcess})),
          NextPart([work EXCEPT !.taken = @ + 1]))

BugOnlyEdge(p) == IF p # NoProcess /\ Named(p, {"edge"}) THEN "edge" ELSE "chrome"
\* browser_name_from_process: Chrome also when there is no such process.
BrowserOf(p) == IF p = NoProcess THEN "chrome"
                ELSE IF Named(p, {"firefox"}) THEN "firefox"
                ELSE IF Named(p, {"edge"}) THEN "edge" ELSE "chrome"

\* capture_browser_tab and capture_browser_pages_option
ReadBrowser ==
  /\ Doing("browser")
  /\ Keep([RecordOf("pages", {}) EXCEPT !.browser = BrowserOf(Now)], Rest)

\* The other applications are asked for their state by name, not by pid:
\* capture_app_entry, and capture_terminal_state_option with the bookmarks.
ReadApp == Doing("app") /\ Keep(RecordOf("application", {}), NextPart(work))
ReadList == Doing("list") /\ Keep(RecordOf("list", {}), Rest)

\* set_vm_status, before the snapshot: the VM must be in the manifest.
Pause ==
  /\ Doing("pause")
  /\ IF work.option[2] \notin ManifestVms THEN Refuse("unknown VM")
     ELSE /\ work' = Advance
          /\ UNCHANGED <<table, launched, listing, asked, failures, made, refusals>>

\* capture_vm_action
SnapshotVm ==
  /\ Doing("vm")
  /\ IF work.option[2] \notin ManifestVms THEN Refuse("unknown VM")
     ELSE IF work.option[1] = "migrate_" /\ ~RelayOn THEN Refuse("no relay")
     ELSE Keep(RecordOf("vm", {}), Rest)

\* A step fails: no state is found, or the capture engine answers an error.
Fails ==
  /\ work # Rest /\ work.todo # <<>> /\ failures < MaxFailures
  /\ failures' = failures + 1
  /\ work' = IF work.read # NoProcess /\ ~Doing("state")
             THEN [work EXCEPT !.todo = <<"state">>, !.shot = NoProcess] ELSE NextPart(work)
  /\ UNCHANGED <<table, launched, listing, asked, made, refusals>>

ProcessNext ==
  \/ \E pid \in Pids, program \in Programs : Starts(pid, program)
  \/ \E pid \in Pids : Exits(pid)
  \/ List
  \/ \E entry \in listing : \E option \in entry.options : Choose(entry, option)
  \/ CaptureAll \/ Inventory \/ ListWindows \/ NextWindow \/ ReadMetadata \/ Shoot \/ Title \/ RecordState
  \/ ReadBrowser \/ ReadApp \/ ReadList \/ Pause \/ SnapshotVm \/ Fails

ProcessSpec == ProcessInit /\ [][ProcessNext]_processVars

-----------------------------------------------------------------------------
\* Every option the console offers is one the service knows how to carry out,
\* and it refuses one without a failure only if the process has exited, it has
\* no window, or the process is a VM, whose "pid-N" is in no manifest.
OfferedOptionsWork ==
  \A r \in refusals :
    \/ r.why = "process not found" /\ r.gone
    \/ r.why = "no window" /\ (r.gone \/ ~r.process.program.window)
    \/ r.why = "unknown VM" /\ IsVm(r.process)

\* A record is about one process, the one the user saw in the list or the one
\* whose window was next, unless that process exited on the way: then the pid
\* may have been another's, and the pages those of another browser.
RecordsDescribeChosen ==
  \A r \in made : ~r.gone =>
    /\ r.of \subseteq {r.chosen}
    /\ r.what = "pages" => Named(r.chosen, {r.browser})

\* What the console offers for a process is carried out, and on that process.
CapturesAsOffered == OfferedOptionsWork /\ RecordsDescribeChosen

=============================================================================
