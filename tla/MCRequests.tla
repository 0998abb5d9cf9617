------------------------------ MODULE MCRequests ------------------------------
(* The parts of aeon-sync that answer one request at a time and share nothing: *)
(* queries, process captures and formats, each checked in behaviours of its   *)
(* own.                                                                       *)
EXTENDS Queries, ProcessCapture, Formats

VARIABLE topic

MCRecordKinds == {"Text", "Image"}
MCRequests == {[question |-> "today", text |-> "aeon", kind |-> "none", limit |-> 2],
               [question |-> "none", text |-> "aeon", kind |-> "none", limit |-> -1],
               [question |-> "none", text |-> "blank", kind |-> "Text", limit |-> 0],
               [question |-> "none", text |-> "none", kind |-> "blank", limit |-> 9]}
MCPlans == [text : {"blank", "aeon"}, kind : {"none", "Image"}, limit : {-1, 1},
            range : {<<>>, [from |-> 1, to |-> -1],
                     [from |-> 0, to |-> 1]}]
\* The inside of JSON strings: a brace, an escaped quote before a brace, and a
\* backslash at the end.
MCStrings == {<<"open">>, <<"backslash", "quote", "close">>, <<"backslash", "backslash">>}

MCPrograms == {[words |-> {"firefox"}, window |-> TRUE], [words |-> {"chrome"}, window |-> TRUE],
               [words |-> {"claude"}, window |-> TRUE], [words |-> {"aeon-vm"}, window |-> FALSE],
               [words |-> {"explorer.exe"}, window |-> TRUE], [words |-> {"other"}, window |-> TRUE]}
MCVms == {<<"vm", 1>>}

MCAnchors == {[year |-> 1970, month |-> 1, d |-> 1, number |-> 0],
              [year |-> 2000, month |-> 1, d |-> 1, number |-> 10957],
              [year |-> 2100, month |-> 1, d |-> 1, number |-> 47482]}
MCZones == {-43200, 0, 20700, 50400}

Init ==
  /\ topic \in {"queries", "plans", "processes", "formats"}
  /\ QueryInit /\ ProcessInit /\ FormatInit

Next ==
  /\ UNCHANGED topic
  /\ \/ topic = "queries" /\ day.number = 0 /\ Capturing /\ UNCHANGED <<processVars, formatVars>>
     \/ topic = "plans" /\ day.number = 0 /\ Planning /\ UNCHANGED <<processVars, formatVars>>
     \/ topic = "processes" /\ day.number = 0 /\ ProcessNext /\ UNCHANGED <<queryVars, formatVars>>
     \/ topic = "formats" /\ FormatNext /\ UNCHANGED <<queryVars, processVars>>

Spec == Init /\ [][Next]_<<topic, queryVars, processVars, formatVars>>
=============================================================================
