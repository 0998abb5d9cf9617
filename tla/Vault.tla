-------------------------------- MODULE Vault --------------------------------
(***************************************************************************)
(* The credential vault of aeon-sync (vault.rs): entries sealed with a key *)
(* derived from a password, in memory and in vault.json, and the unlock    *)
(* sessions that hold a key for a while.  A key stands for the password it *)
(* is derived from: the salt is drawn once per file and never changes.     *)
(* Handlers hold the vault's lock for one operation; every operation that  *)
(* changes an entry writes the whole file in place.  The module has the    *)
(* operations; MailSync composes them with the handlers that use them.     *)
(***************************************************************************)
EXTENDS Integers, FiniteSets

CONSTANTS
  Ids,         \* entry ids; the vault keeps its entries sorted by id
  Passwords,   \* passwords users type
  Inputs,      \* entries users add: id, kind, kind of the secret, expiry, hosts
  Hosts,       \* hosts whose pages ask for a credential
  Ttls,        \* session lifetimes users ask for
  MaxTtl,      \* longest lifetime of a session
  Skew,        \* tokens this near their expiry are refreshed
  MaxTime,     \* bound: the clock stops here
  MaxUnlocks,  \* bound: sessions opened
  MaxSecrets,  \* bound: secrets made
  MaxFaults    \* bound: failed writes, failed calls and stops

ASSUME VaultAssumption ==
  /\ Ids \subseteq Nat /\ MaxTtl \in Nat \ {0} /\ Ttls \subseteq Nat
  /\ Skew \in Nat /\ MaxTime \in Nat /\ MaxUnlocks \in Nat /\ MaxSecrets \in Nat
  /\ MaxFaults \in Nat
  /\ \A in \in Inputs :
       /\ in.id \in Ids /\ in.expires \in Nat /\ in.hosts \subseteq Hosts
       /\ {in.kind, in.holds} \subseteq {"Password", "OAuthToken", "Totp"}

VARIABLES
  up,         \* the service runs
  now,        \* the clock
  entries,    \* the vault in memory: each id's sealed entry, or Absent
  vaultFile,  \* vault.json: absent, torn or whole, and its entries
  dirty,      \* history: the last write of vault.json failed
  sessions,   \* open sessions: key and expiry, by number
  unlocks,    \* sessions opened so far
  minted,     \* secrets made so far, by users and by the provider
  live,       \* the refresh token the provider accepts for each entry
  acked,      \* history: password and secret of the last add answered Ok
  stale,      \* history: entries overwritten by a refresh that had read another
  tokensLost, \* history: entries whose new refresh token a fault lost
  faults      \* faults so far

vaultVars == <<up, now, entries, vaultFile, dirty, sessions, unlocks, minted,
               live, acked, stale, tokensLost, faults>>

Kinds == {"Password", "OAuthToken", "Totp"}
Secret == [kind : Kinds, value : Nat, expires : Nat]
Entry == [kind : Kinds, hosts : SUBSET Hosts, key : Passwords, secret : Secret]
Absent == [kind |-> "absent"]
Unsure == [value |-> 0]  \* an add that failed may be in memory or not

-----------------------------------------------------------------------------
(* Reading the vault.                                                       *)

Present(es) == {id \in Ids : es[id] # Absent}
First(es) == CHOOSE id \in Present(es) : \A other \in Present(es) : id <= other

\* decrypt_entry_with_key: a sealed entry opens with its own key only.
Opens(entry, key) == entry # Absent /\ entry.key = key

\* unlock_key tries the password on the first entry; an empty vault takes any.
Unlockable(es, key) == Present(es) # {} => Opens(es[First(es)], key)

\* An entry of a kind, whose secret opens and has that kind.
Usable(entry, key, kind) ==
  /\ entry # Absent /\ entry.kind = kind
  /\ Opens(entry, key) /\ entry.secret.kind = kind

\* password_fill_for_url: the first entry for the host answers, or fails.
FillFor(es, host) == {id \in Present(es) : es[id].kind = "Password" /\ host \in es[id].hosts}
FillAnswer(es, key, host) ==
  LET ids == FillFor(es, host)
      id == CHOOSE i \in ids : \A other \in ids : i <= other
  IN IF ids = {} THEN "nothing"
     ELSE IF Usable(es[id], key, "Password") THEN "credential" ELSE "refused"

\* password_credential_with_key
PasswordUsable(entry, key) == Usable(entry, key, "Password")

\* oauth_access_token_state_with_key: a token about to expire needs a refresh.
TokenState(entry, key, time) ==
  IF ~Usable(entry, key, "OAuthToken") THEN "refused"
  ELSE IF entry.secret.expires > time + Skew THEN "ready" ELSE "needs_refresh"

-----------------------------------------------------------------------------
(* Writing vault.json: done, not done, or cut short.                        *)

Outcomes == {"done", "kept", "torn"}

AfterWrite(file, contents, how) ==
  CASE how = "done" -> [state |-> "whole", entries |-> contents]
    [] how = "kept" -> file
    [] how = "torn" -> [state |-> "torn", entries |-> [id \in Ids |-> Absent]]

BugWriteBefore(contents, how) ==
  /\ vaultFile' = AfterWrite(vaultFile, entries, how) /\ dirty' = (how # "done")
  /\ how = "done" \/ faults < MaxFaults
  /\ faults' = IF how = "done" THEN faults ELSE faults + 1
\* write_vault_file
WriteVault(contents, how) ==
  /\ vaultFile' = AfterWrite(vaultFile, contents, how)
  /\ dirty' = (how # "done")
  /\ how = "done" \/ faults < MaxFaults
  /\ faults' = IF how = "done" THEN faults ELSE faults + 1

-----------------------------------------------------------------------------
(* Sessions.                                                                *)

Clamped(ttl) == IF ttl < 1 THEN 1 ELSE IF ttl > MaxTtl THEN MaxTtl ELSE ttl
Unexpired(time) == {s \in sessions : s.expires > time}
SessionKey(n) == (CHOOSE s \in Unexpired(now) : s.number = n).key
IsOpen(n) == \E s \in Unexpired(now) : s.number = n

-----------------------------------------------------------------------------
VaultInit ==
  /\ up = TRUE /\ now = 0 /\ faults = 0
  /\ entries = [id \in Ids |-> Absent]
  /\ vaultFile = [state |-> "absent", entries |-> [id \in Ids |-> Absent]]
  /\ dirty = FALSE
  /\ sessions = {} /\ unlocks = 0 /\ minted = 0
  /\ live = [id \in Ids |-> 0]
  /\ acked = [id \in Ids |-> Unsure]
  /\ stale = {} /\ tokensLost = {}

Tick ==
  /\ now < MaxTime /\ now' = now + 1
  /\ UNCHANGED <<up, entries, vaultFile, dirty, sessions, unlocks, minted, live, acked,
                 stale, tokensLost, faults>>

\* add_entry: a new secret under a password; the id's old entry is replaced.
\* The password is not compared with the one of the other entries.
AddEntry(w, in, how) ==
  LET secret == [kind |-> in.holds, value |-> minted + 1, expires |-> in.expires]
  IN /\ up /\ minted < MaxSecrets
     /\ minted' = minted + 1
     /\ entries' = [entries EXCEPT ![in.id] = [kind |-> in.kind, hosts |-> in.hosts,
                                               key |-> w, secret |-> secret]]
     /\ WriteVault(entries', how)
     /\ live' = [live EXCEPT ![in.id] = IF in.holds = "OAuthToken" THEN minted' ELSE 0]
     /\ acked' = [acked EXCEPT ![in.id] =
                    IF how = "done" THEN [password |-> w, secret |-> secret] ELSE Unsure]
     /\ stale' = stale \ {in.id} /\ tokensLost' = tokensLost \ {in.id}
     /\ UNCHANGED <<up, now, sessions, unlocks>>

\* unlock_vault: a session for the key, when the first entry opens with it.
Unlock(w, ttl) ==
  /\ up /\ unlocks < MaxUnlocks /\ Unlockable(entries, w)
  /\ unlocks' = unlocks + 1
  /\ sessions' = Unexpired(now)
                 \cup {[number |-> unlocks', key |-> w, expires |-> now + Clamped(ttl)]}
  /\ UNCHANGED <<up, now, entries, vaultFile, dirty, minted, live, acked, stale,
                 tokensLost, faults>>

\* session_key, the lookup of every handler that takes a session: whatever the
\* answer, the expired sessions are gone.
LookUp == sessions' = Unexpired(now)

\* credential_fill changes nothing else; FillAnswer is what it answers.
Fill ==
  /\ up /\ LookUp /\ sessions' # sessions
  /\ UNCHANGED <<up, now, entries, vaultFile, dirty, unlocks, minted, live, acked, stale,
                 tokensLost, faults>>

\* replace_secret_with_key: re-seals an entry; only its kind is compared.
Replace(id, key, secret, how) ==
  /\ entries[id].kind = secret.kind
  /\ entries' = [entries EXCEPT ![id].key = key, ![id].secret = secret]
  /\ WriteVault(entries', how)

-----------------------------------------------------------------------------
(* A stop loses what is in memory; the service starts again only when       *)
(* vault.json is absent or parses (main expects it to).                     *)

Unsaved == {id \in Ids : dirty /\ entries[id] # vaultFile.entries[id]}

StopVault(cutOff) ==
  /\ up /\ faults < MaxFaults /\ faults' = faults + 1
  /\ up' = FALSE /\ sessions' = {}
  /\ tokensLost' = tokensLost \cup Unsaved \cup cutOff
  /\ UNCHANGED <<now, entries, vaultFile, dirty, unlocks, minted, live, acked, stale>>

BootVault ==
  /\ ~up /\ vaultFile.state # "torn"
  /\ up' = TRUE
  /\ entries' = vaultFile.entries
  /\ dirty' = FALSE
  /\ UNCHANGED <<now, vaultFile, sessions, unlocks, minted, live, acked, stale, tokensLost,
                 faults>>

-----------------------------------------------------------------------------
VaultTypeOK ==
  /\ up \in BOOLEAN /\ dirty \in BOOLEAN /\ now \in 0..MaxTime
  /\ \A id \in Ids : entries[id] \in Entry \cup {Absent}
  /\ vaultFile.state \in {"absent", "torn", "whole"}
  /\ \A s \in sessions : s.number \in 1..unlocks /\ s.key \in Passwords
                        /\ s.expires <= MaxTime + MaxTtl
  /\ stale \cup tokensLost \subseteq Ids

\* What an add answered Ok put into the vault opens with the password it was
\* added with, unless a refresh that had read an older entry wrote over it.
AckedEntriesOpen ==
  up => \A id \in Ids : acked[id] # Unsure /\ id \notin stale =>
          /\ Opens(entries[id], acked[id].password)
          /\ entries[id].secret.kind # "OAuthToken" => entries[id].secret = acked[id].secret

\* A session is refused a credential for a host only when an entry for the host
\* was last added with another password, or with a secret of another kind.
FillsAnswered ==
  up => \A s \in sessions, host \in Hosts :
          FillAnswer(entries, s.key, host) = "refused" =>
            \E id \in FillFor(entries, host) :
              \/ acked[id] = Unsure \/ id \in stale
              \/ acked[id].password # s.key \/ acked[id].secret.kind # "Password"

\* After a restart as before it, acknowledged credentials can be used.
EntriesOpen == VaultTypeOK /\ AckedEntriesOpen /\ FillsAnswered

=============================================================================
