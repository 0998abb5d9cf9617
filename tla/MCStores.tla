-------------------------------- MODULE MCStores --------------------------------
(* What is kept in files, and what is captured from them, each in behaviours   *)
(* of its own.  The shared folder's requests are followed with a monitor that  *)
(* reads at once, three of them, and with one that takes its time, two.  Of    *)
(* three, no more than two overlap: after an overlap or a trouble the third    *)
(* begins alone.  A monitor does not look at histories and origins: with the   *)
(* slow one, what a request does to them is one piece and has no trouble.      *)
EXTENDS StoreSync, JsonStores, Polls, Entries, SharedFolder, ShotWatch, TLC
VARIABLE topic
MCSamples == {[body |-> b, mark |-> m, plain |-> p] : b \in {"x", "y"}, m \in {"m", "n"},
                                                     p \in {"yes", "no", "unknown"}}
MCFilters == [a |-> {"text"}, c |-> {"code"}, all |-> {"text", "code", "webpage"}]
MCSenders == {[kind |-> "", name |-> ""], [kind |-> "browser", name |-> "b"]}
\* The announcers, the handlers and the requests of the folder are the same two.
Symmetric == Permutations(Announcers) \cup Permutations(Cids) \cup Permutations(Contents)
Init ==
  /\ topic \in {"exchange", "file", "polls", "entries", "history", "monitor", "shots"}
  /\ StoreSyncInit /\ JsonInit /\ PollInit /\ EntriesInit /\ FolderInit /\ ShotInit
  /\ topic # "exchange" => \A d \in Devices, c \in Cids : blob[d][c] = "absent"
  /\ topic # "file" => kind = "context"
  /\ topic # "polls" => source = "window"
  /\ begun = CASE topic = "history" -> 0 [] topic = "monitor" -> 1 [] OTHER -> MaxRequests
  /\ topic # "shots" => format = "png"
Folder ==
  /\ FolderNext
  /\ topic = "history" => /\ changes > 0 => changes' < changes
                          /\ reads > 0 /\ changes = 0 => reads' < reads
                          /\ begun = 2 /\ begun' = 3 /\ unsure => Quiet
  /\ topic = "monitor" => \A r \in Requests :
       At(r, "open history") \/ At(r, "fill history") \/ At(r, "open meta") \/ At(r, "fill meta") =>
         requests'[r] # requests[r] /\ troubles' = troubles
Next ==
  /\ UNCHANGED topic
  /\ \/ topic = "exchange" /\ UNCHANGED <<jsonVars, pollVars, entryVars, folderVars, shotVars>> /\ StoreSyncNext
     \/ topic = "file" /\ UNCHANGED <<storeVars, pollVars, entryVars, folderVars, shotVars>> /\ JsonNext
     \/ topic = "polls" /\ UNCHANGED <<storeVars, jsonVars, entryVars, folderVars, shotVars>> /\ PollNext
     \/ topic = "entries" /\ UNCHANGED <<storeVars, jsonVars, pollVars, folderVars, shotVars>> /\ EntriesNext
     \/ topic \in {"history", "monitor"} /\ UNCHANGED <<storeVars, jsonVars, pollVars, entryVars, shotVars>> /\ Folder
     \/ topic = "shots" /\ UNCHANGED <<storeVars, jsonVars, pollVars, entryVars, folderVars>> /\ ShotNext
Spec == Init /\ [][Next]_<<topic, storeVars, jsonVars, pollVars, entryVars, folderVars, shotVars>>
=============================================================================
