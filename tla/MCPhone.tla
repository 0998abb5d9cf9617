-------------------------------- MODULE MCPhone --------------------------------
(* The two users of the desktop's code inbox, each in behaviours of its own:  *)
(* the phone, whose messages fill it in every order its threads allow, with   *)
(* two messages or with one and shared items, and the browser extension, for  *)
(* which messages arrive in any order, with codes or with credentials.        *)
EXTENDS Phone, CodeFill

VARIABLE topic

MCRuns == <<[cue |-> TRUE, lengths |-> <<2, 6>>], [cue |-> FALSE, lengths |-> <<6>>],
            [cue |-> FALSE, lengths |-> <<5>>]>>
MCGuesses == <<Endpoint("h2", "ui"), Endpoint("box", "relay")>>
MCBox == {Endpoint("box", "relay")}
MCShares == {<<0>>}
MCSites == {[name |-> "bank", fields |-> {"code", "credential"}],
            [name |-> "shop", fields |-> {"credential"}]}

Symmetric == Permutations(Threads) \cup Permutations(Attempts)

\* Two messages and no shared items, or both kinds but one message; the last of
\* MCRuns reaches the browser extension only.
TwoTexts == Len(dates) <= 2 /\ \A t \in Threads : Busy(t) => ~threads[t].share
TextAndShares == Len(dates) <= 1

Init ==
  /\ topic \in {"texts", "shares", "codes", "credentials"} /\ InboxInit /\ PhoneInit /\ FillInit
  /\ active = 1 /\ page[1] = page[2] /\ page[1].name = "bank"
  /\ topic # "shares" => desktop.host = "h1"
Next ==
  /\ UNCHANGED topic
  /\ \/ topic = "texts" /\ PhoneNext /\ TwoTexts' /\ UNCHANGED fillVars
     \/ topic = "shares" /\ PhoneNext /\ TextAndShares' /\ UNCHANGED fillVars
     \/ topic = "codes" /\ UNCHANGED <<phoneVars, vault>> /\ FillNext
     \/ topic = "credentials" /\ UNCHANGED <<phoneVars, latest>> /\ FillNext
Spec == Init /\ [][Next]_<<topic, inboxVars, phoneVars, fillVars>>
=============================================================================
