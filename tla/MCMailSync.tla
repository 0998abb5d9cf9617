------------------------------ MODULE MCMailSync ------------------------------
(* One mail account, one credential id and two requests at once. *)
EXTENDS MailSync, TLC

CONSTANTS h1, h2, a1, w1, w2

MCHandlers == {h1, h2}
MCAccounts == {a1}
MCPasswords == {w1, w2}
MCHosts == {"h"}
MCInputs == {[id |-> 1, kind |-> "Password", holds |-> "Password", expires |-> 0, hosts |-> {"h"}],
             [id |-> 1, kind |-> "OAuthToken", holds |-> "OAuthToken", expires |-> 1, hosts |-> {}]}
MCConfigs == {[provider |-> "Imap", ref |-> 1], [provider |-> "GmailApi", ref |-> 1]}
MCSources == {"Imap", "GmailApi"}
\* "gmail:" comes before "imap:"; among the ids of an API the newest is smallest.
MCRank == [n \in Names |-> (IF n[1] = "Imap" THEN 0 ELSE 0 - MaxMail) - n[2]]
\* The uids of a mailbox grow; hashes do not.
MCUid == [n \in Names |-> IF n[1] = "Imap" THEN n[2] ELSE 1 + MaxMail - n[2]]
MCSymmetry == Permutations(MCHandlers) \cup Permutations(MCPasswords)
=============================================================================
