------------------------------- MODULE MailProofs -------------------------------
(***************************************************************************)
(* Proofs about Vault and MailSync, for all accounts, entries, handlers,   *)
(* messages and bounds.                                                    *)
(***************************************************************************)
EXTENDS MailSync, Formats, FiniteSetTheorems, NaturalsInduction, WellFoundedInduction, TLAPS

-----------------------------------------------------------------------------
(* The invariants.                                                          *)

\* What a request holds while it is under way, when n secrets have been made.
IsToken(secret, n) == secret \in Secret /\ secret.kind = "OAuthToken" /\ secret.value \in 1..n
IsFetch(r) == r.at = "fetch" /\ r.account \in Accounts /\ r.provider \in Sources
IsRefresh(r, n) == r.id \in Ids /\ r.key \in Passwords /\ IsFetch(r.fetching) /\ IsToken(r.current, n)
IsTask(r, n) ==
  \/ r = Idle
  \/ /\ r.at = "credential" /\ r.account \in Accounts /\ r.key \in Passwords
     /\ r.config.ref \in Ids /\ r.config.provider \in Sources
  \/ IsFetch(r)
  \/ r.at = "refresh" /\ IsRefresh(r, n)
  \/ r.at = "refreshed" /\ IsRefresh(r, n) /\ IsToken(r.refreshed, n)
  \/ r.at = "import" /\ r.account \in Accounts /\ r.fetched \subseteq Names
  \/ /\ r = [at |-> "capture", account |-> r.account, todo |-> r.todo]
     /\ r.account \in Accounts /\ r.todo \subseteq Names /\ r.todo # {}

\* A vault's entries, whose secrets are among the first n.
IsEntry(entry, n) == entry \in Entry /\ entry.secret.value \in 1..n
AreEntries(es, n) ==
  /\ es = [id \in Ids |-> es[id]]
  /\ \A id \in Ids : es[id] = Absent \/ IsEntry(es[id], n)

VaultForm ==
  /\ VaultTypeOK /\ AreEntries(entries, minted) /\ AreEntries(vaultFile.entries, minted)
  /\ unlocks \in Nat /\ minted \in Nat /\ faults \in Nat
  /\ live \in [Ids -> 0..minted] /\ acked = [id \in Ids |-> acked[id]]

Stored(s) == s = [a \in Accounts |-> s[a]] /\ \A a \in Accounts : s[a] \in Configs \cup {NoAccount}
MailForm ==
  /\ Stored(accounts) /\ Stored(mailFile.accounts)
  /\ mailbox \in [Accounts -> SUBSET Mail]

TasksForm ==
  /\ req = [h \in Handlers |-> req[h]]
  /\ \A h \in Handlers : IsTask(req[h], minted)
  /\ up \/ \A h \in Handlers : req[h] = Idle

TypeInv == VaultForm /\ MailForm /\ TasksForm

\* An entry is as it was acknowledged, but for a refreshed token.
AsAcked(entry, ack) ==
  /\ Opens(entry, ack.password) /\ entry.secret.kind = ack.secret.kind
  /\ entry.secret.kind # "OAuthToken" => entry.secret = ack.secret

AckedInv ==
  \A id \in Ids : acked[id] # Unsure /\ id \notin stale =>
    /\ AsAcked(entries[id], acked[id])
    /\ vaultFile.state # "torn" => AsAcked(vaultFile.entries[id], acked[id])

\* Memory and file agree, until a write fails; what a stop would lose is noted.
SavedInv ==
  /\ ~dirty => vaultFile.entries = entries
  /\ \A id \in Ids : ~up /\ id \notin tokensLost => vaultFile.entries[id] = entries[id]

\* The live token is in the vault or on its way; a token that was replaced at the
\* provider is not the live one again.
TokenInv ==
  /\ \A id \in Ids :
       entries[id] # Absent /\ entries[id].secret.kind = "OAuthToken"
       /\ acked[id] # Unsure /\ id \notin stale \cup tokensLost =>
         \/ entries[id].secret.value = live[id]
         \/ \E h \in Handlers : req[h].at = "refreshed" /\ req[h].id = id
                              /\ req[h].refreshed.value = live[id]
  /\ \A h \in Handlers : req[h].at = "refreshed" =>
       \/ req[h].refreshed.value = req[h].current.value
       \/ live[req[h].id] # req[h].current.value

Capturing(h, a, m) == req[h].at = "capture" /\ req[h].account = a /\ m \in req[h].todo

CursorsForm ==
  /\ cursors = [a \in Accounts |-> cursors[a]]
  /\ mailFile.cursors = [a \in Accounts |-> mailFile.cursors[a]]
  /\ captured \in [Accounts -> [Names -> Nat]]
  /\ \A a \in Accounts : \A c \in {cursors[a], mailFile.cursors[a]} : c.seen \subseteq Names

\* Every message a cursor calls seen, in memory or in the file, is accounted for.
SeenInv ==
  \A a \in Accounts : \A m \in cursors[a].seen \cup mailFile.cursors[a].seen :
    \/ captured[a][m] > 0 \/ <<a, m>> \in lost
    \/ \E h \in Handlers : Capturing(h, a, m)

\* A cursor that has forgotten nothing holds all that was ever taken up.
OnceInv ==
  /\ ~mailDirty => mailFile.cursors = cursors
  /\ \A a \in Accounts : a \notin forgot =>
       /\ ~up => mailFile.cursors[a] = cursors[a]
       /\ \A m \in Names :
            /\ captured[a][m] \in {0, 1}
            /\ captured[a][m] = 1 => m \in cursors[a].seen
            /\ \A h \in Handlers : Capturing(h, a, m) =>
                 /\ m \in cursors[a].seen /\ captured[a][m] = 0
                 /\ \A other \in Handlers : Capturing(other, a, m) => other = h

\* A request under way names what it fetches by an API its account has used.
UsesOnly(r, apis) ==
  /\ r.at = "credential" => r.config.provider \in apis[r.account]
  /\ r.at = "fetch" => r.provider \in apis[r.account]
  /\ r.at \in {"refresh", "refreshed"} => r.fetching.provider \in apis[r.fetching.account]
  /\ r.at = "import" => r.fetched \subseteq apis[r.account] \X Mail
  /\ r.at = "capture" => r.todo \subseteq apis[r.account] \X Mail

SetTo(configs, apis) ==
  \A a \in Accounts : configs[a] # NoAccount => configs[a].provider \in apis[a]

\* Accounts, requests and captures keep to the APIs an account has used.
UsedInv ==
  /\ used \in [Accounts -> SUBSET Sources]
  /\ SetTo(accounts, used) /\ SetTo(mailFile.accounts, used)
  /\ \A a \in Accounts, via \in Sources, m \in Mail : captured[a][<<via, m>>] > 0 => via \in used[a]
  /\ \A h \in Handlers : UsesOnly(req[h], used)

-----------------------------------------------------------------------------
(* Type correctness.                                                        *)

\* Making more secrets changes nothing for what holds the first of them.
LEMMA MoreSecrets ==
  ASSUME NEW m \in Nat, NEW n \in Nat, m <= n
  PROVE  /\ \A es : AreEntries(es, m) => AreEntries(es, n)
         /\ \A r : IsTask(r, m) => IsTask(r, n)
  <1>1. \A k : k \in 1..m => k \in 1..n
    OBVIOUS
  <1>2. ASSUME NEW es, AreEntries(es, m) PROVE AreEntries(es, n)
    BY <1>1, <1>2 DEF AreEntries, IsEntry
  <1>3. \A x : IsToken(x, m) => IsToken(x, n)
    BY <1>1 DEF IsToken
  <1>4. \A r : IsRefresh(r, m) => IsRefresh(r, n)
    BY <1>3 DEF IsRefresh
  <1>5. \A r : IsTask(r, m) => IsTask(r, n)
    BY <1>3, <1>4 DEF IsTask
  <1> QED BY <1>2, <1>5

\* A request that goes on to a task leaves all requests with tasks.
LEMMA GoesOn ==
  ASSUME TasksForm, NEW h \in Handlers, NEW next, Become(h, next),
         minted \in Nat, minted' \in Nat, minted <= minted', up' = up,
         IsTask(next, minted'), up \/ next = Idle
  PROVE  TasksForm' /\ req'[h] = next /\ \A other \in Handlers : other # h => req'[other] = req[other]
  <1>1. /\ req' = [other \in Handlers |-> IF other = h THEN next ELSE req[other]]
    BY DEF Become, TasksForm
  <1>2. \A other \in Handlers : IsTask(req'[other], minted')
    BY <1>1, MoreSecrets DEF TasksForm
  <1>3. up' \/ \A other \in Handlers : req'[other] = Idle
    BY <1>1 DEF TasksForm
  <1> QED BY <1>1, <1>2, <1>3 DEF TasksForm

\* A write of entries leaves entries in the file.
LEMMA WritesEntries ==
  ASSUME VaultForm, NEW contents, NEW n, AreEntries(contents, n), AreEntries(vaultFile.entries, n),
         NEW how \in Outcomes, WriteVault(contents, how)
  PROVE  /\ AreEntries(vaultFile'.entries, n) /\ vaultFile'.state \in {"absent", "torn", "whole"}
         /\ dirty' \in BOOLEAN /\ faults' \in Nat
  <1>1. AreEntries([id \in Ids |-> Absent], n)
    BY DEF AreEntries
  <1>2. how \in {"done", "kept", "torn"}
    BY DEF Outcomes
  <1>3. dirty' \in BOOLEAN /\ faults' \in Nat
    BY DEF WriteVault, VaultForm
  <1>4. vaultFile' \in {[state |-> "whole", entries |-> contents], vaultFile,
                        [state |-> "torn", entries |-> [id \in Ids |-> Absent]]}
    BY <1>2 DEF WriteVault, AfterWrite
  <1> QED BY <1>1, <1>3, <1>4 DEF VaultForm, VaultTypeOK

LEMMA TypeInit == Init => TypeInv
  <1> SUFFICES ASSUME Init PROVE TypeInv
    OBVIOUS
  <1>1. VaultForm
    <2>1. VaultInit /\ MaxTime \in Nat
      BY VaultAssumption DEF Init
    <2>2. AreEntries(entries, minted) /\ AreEntries(vaultFile.entries, minted)
      BY <2>1 DEF VaultInit, AreEntries
    <2>3. VaultTypeOK
      <3>1. up \in BOOLEAN /\ dirty \in BOOLEAN
        BY <2>1 DEF VaultInit
      <3>2. now \in 0..MaxTime /\ stale \cup tokensLost \subseteq Ids /\ sessions = {}
        BY <2>1 DEF VaultInit
      <3>3. vaultFile.state = "absent" /\ \A id \in Ids : entries[id] = Absent
        BY <2>1 DEF VaultInit
      <3> QED BY <3>1, <3>2, <3>3 DEF VaultTypeOK
    <2>4. live \in [Ids -> 0..minted] /\ acked = [id \in Ids |-> acked[id]]
      BY <2>1 DEF VaultInit
    <2> QED BY <2>1, <2>2, <2>3, <2>4 DEF VaultInit, VaultForm
  <1>2. MailForm
    BY DEF Init, NoMail, MailForm, Stored
  <1>3. TasksForm
    BY DEF Init, TasksForm, IsTask
  <1> QED BY <1>1, <1>2, <1>3 DEF TypeInv

\* An added entry is one.
LEMMA AddKeepsForm ==
  ASSUME VaultForm, NEW w \in Passwords, NEW in \in Inputs, NEW how \in Outcomes, AddEntry(w, in, how)
  PROVE  VaultForm' /\ minted' = minted + 1 /\ up' = up
  <1> DEFINE secret == [kind |-> in.holds, value |-> minted + 1, expires |-> in.expires]
             entry == [kind |-> in.kind, hosts |-> in.hosts, key |-> w, secret |-> secret]
  <1>1. /\ minted \in Nat /\ minted' = minted + 1 /\ minted' \in Nat /\ minted + 1 \in 1..minted'
    BY DEF AddEntry, VaultForm
  <1>2. in.id \in Ids /\ secret \in Secret /\ entry \in Entry
    BY <1>1, VaultAssumption DEF Secret, Entry, Kinds
  <1>3. IsEntry(entry, minted')
    BY <1>1, <1>2 DEF IsEntry
  <1>4. AreEntries(entries, minted') /\ AreEntries(vaultFile.entries, minted')
    BY <1>1, MoreSecrets DEF VaultForm
  <1>5. entries' = [id \in Ids |-> IF id = in.id THEN entry ELSE entries[id]]
    BY DEF AddEntry, VaultForm, AreEntries
  <1>6. AreEntries(entries', minted')
    BY <1>3, <1>4, <1>5 DEF AreEntries
  <1>7. /\ AreEntries(vaultFile'.entries, minted') /\ vaultFile'.state \in {"absent", "torn", "whole"}
        /\ dirty' \in BOOLEAN /\ faults' \in Nat
    <2>1. WriteVault(entries', how)
      BY DEF AddEntry
    <2> QED BY <1>4, <1>6, <2>1, WritesEntries
  <1>8. live' \in [Ids -> 0..minted']
    <2>1. live' = [live EXCEPT ![in.id] = IF in.holds = "OAuthToken" THEN minted' ELSE 0]
      BY DEF AddEntry
    <2>2. \A id \in Ids : live[id] \in 0..minted'
      BY <1>1 DEF VaultForm
    <2>3. live \in [Ids -> 0..minted']
      BY <2>2 DEF VaultForm
    <2>4. (IF in.holds = "OAuthToken" THEN minted' ELSE 0) \in 0..minted'
      BY <1>1
    <2> QED BY <2>1, <2>3, <2>4
  <1>9. acked' = [id \in Ids |-> acked'[id]]
    BY DEF AddEntry, VaultForm
  <1>10. UNCHANGED <<up, now, sessions, unlocks>> /\ stale' \subseteq stale /\ tokensLost' \subseteq tokensLost
    BY DEF AddEntry
  <1>11. \A id \in Ids : entries'[id] \in Entry \cup {Absent}
    BY <1>6 DEF AreEntries, IsEntry
  <1> HIDE DEF secret, entry
  <1>12. VaultTypeOK'
    BY <1>7, <1>10, <1>11 DEF VaultForm, VaultTypeOK
  <1> QED BY <1>1, <1>6, <1>7, <1>8, <1>9, <1>10, <1>12 DEF VaultForm

\* Replacing a secret writes over an entry that is there.
LEMMA ReplaceIs ==
  ASSUME VaultForm, NEW id \in Ids, NEW password \in Passwords, NEW secret, IsToken(secret, minted),
         NEW how \in Outcomes, Replace(id, password, secret, how)
  PROVE  /\ IsEntry(entries[id], minted) /\ IsEntry(entries'[id], minted)
         /\ entries'[id].key = password /\ entries'[id].secret = secret
         /\ entries' = [i \in Ids |-> entries'[i]]
         /\ \A other \in Ids : other # id => entries'[other] = entries[other]
  <1> DEFINE entry == [entries[id] EXCEPT !.key = password, !.secret = secret]
  <1>1. entries[id] # Absent /\ IsEntry(entries[id], minted)
    BY DEF Replace, IsToken, Secret, Kinds, Absent, VaultForm, AreEntries
  <1>2. entries' = [entries EXCEPT ![id] = entry]
    BY DEF Replace, VaultForm, AreEntries
  <1>3. IsEntry(entry, minted) /\ entry.key = password /\ entry.secret = secret
    BY <1>1 DEF IsEntry, Entry, IsToken
  <1> HIDE DEF entry
  <1>4. entries' = [i \in Ids |-> IF i = id THEN entry ELSE entries[i]]
    BY <1>2 DEF VaultForm, AreEntries
  <1> QED BY <1>1, <1>3, <1>4

\* What it leaves are entries.
LEMMA ReplaceKeepsForm ==
  ASSUME VaultForm, NEW id \in Ids, NEW password \in Passwords, NEW secret, IsToken(secret, minted),
         NEW how \in Outcomes, Replace(id, password, secret, how), stale' \subseteq stale \cup {id},
         UNCHANGED <<up, now, sessions, unlocks, minted, live, acked, tokensLost>>
  PROVE  VaultForm'
  <1>1. AreEntries(entries', minted)
    BY ReplaceIs DEF VaultForm, AreEntries
  <1>2. /\ AreEntries(vaultFile'.entries, minted) /\ vaultFile'.state \in {"absent", "torn", "whole"}
        /\ dirty' \in BOOLEAN /\ faults' \in Nat
    BY <1>1, WritesEntries DEF Replace, VaultForm
  <1>3. \A i \in Ids : entries'[i] \in Entry \cup {Absent}
    BY <1>1 DEF AreEntries, IsEntry
  <1> QED BY <1>1, <1>2, <1>3 DEF VaultForm, VaultTypeOK

\* A step of the mail part alone keeps the vault's form.
LEMMA VaultStays ==
  ASSUME VaultForm, UNCHANGED vaultKept, faults' \in Nat
  PROVE  VaultForm'
  BY DEF VaultForm, VaultTypeOK, vaultKept, AreEntries, IsEntry

\* What a write of email-sync.json leaves there.
LEMMA Saves ==
  ASSUME NEW how \in Outcomes, Save(how), MailForm
  PROVE  \/ /\ mailFile'.accounts = accounts' /\ mailFile'.cursors = cursors'
            /\ how = "done" /\ mailDirty' = FALSE
         \/ mailFile' = mailFile /\ how # "done" /\ mailDirty' = TRUE
         \/ /\ mailFile'.accounts = NoMail.accounts /\ mailFile'.cursors = NoMail.cursors
            /\ how # "done" /\ mailDirty' = TRUE
  <1>1. CASE how = "done"
    <2>1. mailFile' = [ok |-> TRUE, accounts |-> accounts', cursors |-> cursors']
      BY <1>1 DEF Save
    <2>2. mailDirty' = FALSE
      BY <1>1 DEF Save
    <2> QED BY <1>1, <2>1, <2>2
  <1>2. CASE how = "kept"
    BY <1>2 DEF Save
  <1>3. CASE how = "torn"
    <2>1. mailFile' = [NoMail EXCEPT !.ok = FALSE]
      BY <1>3 DEF Save
    <2>2. mailFile'.accounts = NoMail.accounts /\ mailFile'.cursors = NoMail.cursors
      BY <2>1 DEF NoMail
    <2> QED BY <1>3, <2>2 DEF Save
  <1> QED BY <1>1, <1>2, <1>3 DEF Outcomes

\* It is written with accounts and cursors that are stored.
LEMMA SaveStays ==
  ASSUME VaultForm, MailForm, Stored(accounts'), NEW how \in Outcomes, Save(how)
  PROVE  faults' \in Nat /\ Stored(mailFile'.accounts)
  <1>1. faults' \in Nat
    BY DEF Save, VaultForm
  <1>2. Stored(NoMail.accounts)
    BY DEF NoMail, Stored
  <1> QED BY <1>1, <1>2, Saves DEF MailForm

\* What is fetched of a mailbox are messages.
LEMMA Messages ==
  ASSUME MailForm, NEW a \in Accounts
  PROVE  /\ IsFiniteSet(mailbox[a]) /\ Cardinality(mailbox[a]) \in 0..MaxMail
         /\ mailbox[a] # Mail => Cardinality(mailbox[a]) + 1 \in Mail
         /\ \A limit : Newest(mailbox[a], limit) \subseteq Mail
         /\ \A m \in mailbox[a] : m..Cardinality(mailbox[a]) \subseteq Mail
  <1>1. MaxMail \in Nat /\ mailbox[a] \subseteq Mail
    BY MailAssumption DEF MailForm
  <1>2. IsFiniteSet(Mail) /\ Cardinality(Mail) = MaxMail
    BY <1>1, FS_Interval DEF Mail
  <1>3. /\ IsFiniteSet(mailbox[a]) /\ Cardinality(mailbox[a]) <= MaxMail
        /\ Cardinality(mailbox[a]) = MaxMail => mailbox[a] = Mail
    BY <1>1, <1>2, FS_Subset
  <1>4. Cardinality(mailbox[a]) \in Nat
    BY <1>3, FS_CardinalityType
  <1>5. \A limit : Newest(mailbox[a], limit) \subseteq Mail
    BY <1>1 DEF Newest
  <1> QED BY <1>1, <1>3, <1>4, <1>5 DEF Mail

\* What is fetched is named.
LEMMA Fetches ==
  ASSUME MailForm, NEW r, r.account \in Accounts, r.provider \in Sources, NEW n
  PROVE  IsTask(Fetched(r, Newest(mailbox[r.account], r.limit)), n)
  <1>1. Newest(mailbox[r.account], r.limit) \subseteq Mail
    BY Messages
  <1>2. Named(r.provider, Newest(mailbox[r.account], r.limit)) \subseteq Names
    BY <1>1 DEF Named, Names
  <1> QED BY <1>2 DEF Fetched, IsTask

\* The steps of a user, of the clock and of the vault alone.
LEMMA UserStepForm ==
  ASSUME TypeInv, UserStep
  PROVE  TypeInv'
  <1> USE DEF TypeInv
  <1>1. ASSUME NEW w \in Passwords, NEW in \in Inputs, NEW how \in Outcomes, AddEntry(w, in, how),
               UNCHANGED mailVars
        PROVE  TypeInv'
    <2>1. VaultForm' /\ minted' = minted + 1 /\ up' = up
      BY <1>1, AddKeepsForm
    <2>2. \A h \in Handlers : IsTask(req'[h], minted')
      <3>1. minted \in Nat /\ minted' \in Nat /\ minted <= minted'
        BY <2>1 DEF VaultForm
      <3> QED BY <1>1, <3>1, MoreSecrets DEF TasksForm, mailVars
    <2>3. MailForm' /\ TasksForm'
      BY <1>1, <2>1, <2>2 DEF MailForm, Stored, TasksForm, mailVars
    <2> QED BY <2>1, <2>3
  <1>2. ASSUME NEW w \in Passwords, NEW ttl \in Ttls, Unlock(w, ttl), UNCHANGED mailVars
        PROVE  TypeInv'
    <2>1. Clamped(ttl) \in Nat /\ Clamped(ttl) <= MaxTtl
      BY VaultAssumption DEF Clamped
    <2>2. VaultTypeOK'
      BY <1>2, <2>1, VaultAssumption DEF Unlock, Unexpired, VaultForm, VaultTypeOK
    <2>3. VaultForm'
      BY <1>2, <2>2 DEF Unlock, VaultForm, AreEntries, IsEntry
    <2> QED BY <1>2, <2>3 DEF Unlock, MailForm, Stored, TasksForm, mailVars
  <1>3. ASSUME Fill, UNCHANGED mailVars
        PROVE  TypeInv'
    <2>1. VaultTypeOK'
      BY <1>3 DEF Fill, LookUp, Unexpired, VaultForm, VaultTypeOK
    <2>2. VaultForm'
      BY <1>3, <2>1 DEF Fill, VaultForm, AreEntries, IsEntry
    <2> QED BY <1>3, <2>2 DEF Fill, MailForm, Stored, TasksForm, mailVars
  <1>4. ASSUME NEW a \in Accounts, NEW config \in Configs, NEW how \in Outcomes,
               UpsertAccount(a, config, how)
        PROVE  TypeInv'
    <2>1. Stored(accounts')
      BY <1>4 DEF UpsertAccount, MailForm, Stored
    <2>2. faults' \in Nat /\ Stored(mailFile'.accounts)
      BY <1>4, <2>1, SaveStays DEF UpsertAccount
    <2>3. VaultForm'
      BY <1>4, <2>2, VaultStays DEF UpsertAccount
    <2> QED BY <1>4, <2>1, <2>2, <2>3 DEF UpsertAccount, MailForm, TasksForm, vaultKept
  <1>5. ASSUME NEW h \in Handlers, NEW a \in Accounts, NEW n \in 1..unlocks, NEW limit \in Limits,
               StartSync(h, a, n, limit)
        PROVE  TypeInv'
    <2>1. VaultTypeOK'
      BY <1>5 DEF StartSync, LookUp, Unexpired, VaultForm, VaultTypeOK
    <2>2. VaultForm'
      BY <1>5, <2>1 DEF StartSync, VaultForm, AreEntries, IsEntry
    <2>3. MailForm'
      BY <1>5 DEF StartSync, MailForm, Stored
    <2>4. CASE UNCHANGED req
      BY <1>5, <2>2, <2>3, <2>4 DEF StartSync, TasksForm
    <2>5. CASE /\ IsOpen(n) /\ accounts[a] # NoAccount /\ accounts[a].ref # 0
               /\ Become(h, [at |-> "credential", account |-> a, limit |-> limit,
                             config |-> accounts[a], key |-> SessionKey(n)])
      <3>1. SessionKey(n) \in Passwords
        BY <2>5 DEF SessionKey, IsOpen, Unexpired, VaultForm, VaultTypeOK
      <3>2. accounts[a].ref \in Ids /\ accounts[a].provider \in Sources
        BY <2>5, MailAssumption DEF MailForm, Stored
      <3> DEFINE next == [at |-> "credential", account |-> a, limit |-> limit,
                          config |-> accounts[a], key |-> SessionKey(n)]
      <3>3. IsTask(next, minted')
        BY <3>1, <3>2 DEF IsTask
      <3> HIDE DEF next
      <3>4. Become(h, next) /\ up /\ up' = up /\ minted \in Nat /\ minted' = minted
        BY <1>5, <2>5 DEF StartSync, VaultForm, next
      <3>5. TasksForm'
        BY <3>3, <3>4, GoesOn
      <3> QED BY <2>2, <2>3, <3>5
    <2> QED BY <1>5, <2>4, <2>5 DEF StartSync, Become
  <1>6. ASSUME NEW h \in Handlers, NEW a \in Accounts, NEW via \in Sources, NEW m \in mailbox[a],
               StartImport(h, a, via, m..Cardinality(mailbox[a]))
        PROVE  TypeInv'
    <2> DEFINE next == [at |-> "import", account |-> a, fetched |-> Named(via, m..Cardinality(mailbox[a]))]
    <2>1. VaultForm' /\ MailForm' /\ up /\ up' = up /\ minted' = minted /\ minted \in Nat
      BY <1>6 DEF StartImport, vaultVars, VaultForm, VaultTypeOK, AreEntries, IsEntry, MailForm, Stored
    <2>2. IsTask(next, minted')
      <3>1. Named(via, m..Cardinality(mailbox[a])) \subseteq Names
        BY Messages DEF Named, Names
      <3> QED BY <3>1 DEF IsTask
    <2>3. Become(h, next)
      BY <1>6 DEF StartImport, Become
    <2> HIDE DEF next
    <2>4. TasksForm'
      BY <2>1, <2>2, <2>3, GoesOn
    <2> QED BY <2>1, <2>4
  <1> QED BY <1>1, <1>2, <1>3, <1>4, <1>5, <1>6 DEF UserStep

\* A token with another value and another end is one.
LEMMA TokenWith ==
  ASSUME NEW n, NEW k, NEW secret, IsToken(secret, n), NEW value \in 1..k, NEW end \in Nat,
         1..k \subseteq Nat
  PROVE  IsToken([secret EXCEPT !.value = value, !.expires = end], k)
  <1>1. secret = [kind |-> "OAuthToken", value |-> secret.value, expires |-> secret.expires]
    BY DEF IsToken, Secret
  <1> DEFINE first == [secret EXCEPT !.value = value]
  <1>2. first = [kind |-> "OAuthToken", value |-> value, expires |-> secret.expires]
    BY <1>1
  <1> HIDE DEF first
  <1>3. [first EXCEPT !.expires = end] = [kind |-> "OAuthToken", value |-> value, expires |-> end]
    BY <1>2
  <1>4. [secret EXCEPT !.value = value, !.expires = end] = [first EXCEPT !.expires = end]
    BY DEF first
  <1> DEFINE second == [first EXCEPT !.expires = end]
  <1> HIDE DEF second
  <1>5. IsToken(second, k)
    BY <1>3 DEF IsToken, Secret, Kinds, second
  <1> QED BY <1>4, <1>5 DEF second

\* The steps of a handler.
LEMMA HandlerStepForm ==
  ASSUME TypeInv, NEW h \in Handlers, HandlerStep(h)
  PROVE  TypeInv'
  <1> USE DEF TypeInv
  <1> DEFINE r == req[h]
  <1>0. /\ IsTask(r, minted) /\ minted \in Nat /\ up \in BOOLEAN /\ (r = Idle \/ up)
        /\ Idle.at = "idle" /\ faults \in Nat
    BY DEF TasksForm, VaultForm, VaultTypeOK, Idle
  \* A handler that does nothing else goes on or ends.
  <1>1. ASSUME NEW next, Become(h, next), IsTask(next, minted), r # Idle, UNCHANGED <<vaultVars, mailKept>>
        PROVE  TypeInv'
    <2>1. VaultForm' /\ MailForm' /\ minted' = minted /\ up' = up
      BY <1>1 DEF vaultVars, mailKept, VaultForm, VaultTypeOK, AreEntries, IsEntry, MailForm, Stored
    <2>2. TasksForm'
      BY <1>0, <1>1, <2>1, GoesOn
    <2> QED BY <2>1, <2>2
  <1>2. IsTask(Idle, minted)
    BY DEF IsTask
  <1>3. ASSUME r.at = "credential" PROVE IsFetch(Fetching(r)) /\ IsTask(Fetching(r), minted)
    BY <1>0, <1>3 DEF IsTask, IsFetch, Fetching, Idle
  <1>4. CASE ReadPassword(h)
    BY <1>0, <1>1, <1>2, <1>3, <1>4 DEF ReadPassword
  <1>5. CASE ReadToken(h)
    <2> DEFINE entry == entries[r.config.ref]
               task == [at |-> "refresh", current |-> entry.secret, id |-> r.config.ref,
                        key |-> r.key, fetching |-> Fetching(r)]
    <2>1. r.at = "credential" /\ r # Idle /\ UNCHANGED <<vaultVars, mailKept>>
      BY <1>0, <1>5 DEF ReadToken
    <2>2. r.config.ref \in Ids /\ r.key \in Passwords
      BY <1>0, <2>1 DEF IsTask, IsFetch, Idle
    <2>3. TokenState(entry, r.key, now) = "needs_refresh" => IsTask(task, minted)
      <3>1. TokenState(entry, r.key, now) = "needs_refresh" => IsToken(entry.secret, minted)
        BY <2>2 DEF TokenState, Usable, VaultForm, AreEntries, IsEntry, Entry, IsToken
      <3> QED BY <1>3, <2>1, <2>2, <3>1 DEF IsTask, IsRefresh
    <2>4. \/ Become(h, Idle) \/ Become(h, Fetching(r))
          \/ TokenState(entry, r.key, now) = "needs_refresh" /\ Become(h, task)
      BY <1>5 DEF ReadToken, TokenState
    <2> HIDE DEF task, entry, r
    <2> QED BY <1>1, <1>2, <1>3, <2>1, <2>3, <2>4
  <1>6. CASE ProviderRefuses(h)
    BY <1>0, <1>1, <1>2, <1>6 DEF ProviderRefuses
  <1>7. CASE TokenRefused(h)
    <2>1. r.at = "refreshed" /\ r # Idle /\ Become(h, Idle) /\ r.id \in Ids
      BY <1>0, <1>7 DEF TokenRefused, IsTask, IsRefresh, IsFetch, Idle
    <2>2. VaultForm' /\ MailForm'
      BY <1>7, <2>1 DEF TokenRefused, mailKept, VaultForm, VaultTypeOK, AreEntries, IsEntry, MailForm, Stored
    <2>3. minted' = minted /\ up' = up
      BY <1>7 DEF TokenRefused
    <2> HIDE DEF r
    <2>4. TasksForm'
      BY <1>0, <1>2, <2>1, <2>3, GoesOn
    <2> QED BY <2>2, <2>4
  <1>8. CASE FetchImap(h)
    <2>1. r.at = "fetch" /\ r # Idle /\ r.account \in Accounts /\ r.provider \in Sources
      BY <1>0, <1>8 DEF FetchImap, IsTask, IsFetch, Idle
    <2>2. IsTask(Fetched(r, Newest(mailbox[r.account], r.limit)), minted)
      BY <2>1, Fetches
    <2> QED BY <1>1, <1>8, <2>1, <2>2 DEF FetchImap
  <1>9. CASE FetchProvider(h)
    <2>1. r.at = "fetch" /\ r # Idle /\ r.account \in Accounts /\ r.provider \in Sources
      BY <1>0, <1>9 DEF FetchProvider, IsTask, IsFetch, Idle
    <2>2. IsTask(Fetched(r, Newest(mailbox[r.account], r.limit)), minted)
      BY <2>1, Fetches
    <2> QED BY <1>1, <1>2, <1>9, <2>1, <2>2 DEF FetchProvider
  <1>10. ASSUME NEW rotates \in BOOLEAN, ProviderRefreshes(h, rotates) PROVE TypeInv'
    <2> DEFINE token == IF rotates THEN minted' ELSE 0
               next == [at |-> "refreshed", id |-> r.id, key |-> r.key, current |-> r.current,
                        fetching |-> r.fetching, refreshed |-> Applied(r.current, token)]
    <2>1. r.at = "refresh" /\ r # Idle /\ IsRefresh(r, minted)
      BY <1>0, <1>10 DEF ProviderRefreshes, IsTask, IsFetch, Idle
    <2>2. /\ minted' \in Nat /\ minted <= minted' /\ token \in 0..minted' /\ up' = up
          /\ UNCHANGED <<now, entries, vaultFile, dirty, sessions, unlocks, acked, stale, tokensLost, faults, mailKept>>
          /\ Become(h, next)
      BY <1>0, <1>10 DEF ProviderRefreshes
    <2>3. live' = [live EXCEPT ![r.id] = IF rotates THEN minted' ELSE @]
      BY <1>10 DEF ProviderRefreshes
    <2>4. live' \in [Ids -> 0..minted']
      <3>1. \A id \in Ids : live[id] \in 0..minted'
        BY <1>0, <2>2 DEF VaultForm
      <3>2. minted' \in 0..minted' /\ live = [id \in Ids |-> live[id]]
        BY <2>2 DEF VaultForm
      <3> QED BY <2>3, <3>1, <3>2
    <2>5. AreEntries(entries, minted') /\ AreEntries(vaultFile.entries, minted')
      BY <1>0, <2>2, MoreSecrets DEF VaultForm
    <2>6. VaultForm' /\ MailForm'
      BY <2>2, <2>4, <2>5 DEF mailKept, VaultForm, VaultTypeOK, MailForm, Stored
    <2>7. IsTask(next, minted')
      <3>1. IsTask([at |-> "refresh", id |-> r.id, key |-> r.key, current |-> r.current, fetching |-> r.fetching], minted)
        BY <2>1 DEF IsTask, IsRefresh
      <3>2. IsRefresh(r, minted')
        <4>1. 1..minted \subseteq 1..minted'
          BY <1>0, <2>2
        <4> QED BY <2>1, <4>1 DEF IsRefresh, IsToken
      <3>3. IsToken(Applied(r.current, token), minted')
        <4>1. now + Life \in Nat
          BY MailAssumption, VaultAssumption DEF VaultForm, VaultTypeOK
        <4>2. (IF token = 0 THEN r.current.value ELSE token) \in 1..minted'
          BY <2>2, <3>2 DEF IsRefresh, IsToken
        <4>3. IsToken(r.current, minted) /\ 1..minted' \subseteq Nat
          BY <2>1, <2>2 DEF IsRefresh
        <4> DEFINE value == IF token = 0 THEN r.current.value ELSE token
                   end == now + Life
        <4>4. value \in 1..minted' /\ end \in Nat
          BY <4>1, <4>2
        <4>5. Applied(r.current, token) = [r.current EXCEPT !.value = value, !.expires = end]
          BY DEF Applied
        <4> HIDE DEF value, end, token, r
        <4>6. IsToken([r.current EXCEPT !.value = value, !.expires = end], minted')
          BY <4>3, <4>4, TokenWith
        <4> QED BY <4>5, <4>6
      <3> QED BY <3>2, <3>3 DEF IsTask, IsRefresh
    <2> HIDE DEF next, r
    <2> QED BY <1>0, <2>1, <2>2, <2>6, <2>7, GoesOn
  <1>11. ASSUME NEW how \in Outcomes, StoreToken(h, how) PROVE TypeInv'
    <2>1. r.at = "refreshed" /\ r # Idle /\ IsRefresh(r, minted) /\ IsToken(r.refreshed, minted)
      BY <1>0, <1>11 DEF StoreToken, IsTask, IsFetch, Idle
    <2>2. r.id \in Ids /\ r.key \in Passwords /\ IsTask(r.fetching, minted)
      BY <2>1 DEF IsRefresh, IsTask
    <2>3. /\ Replace(r.id, r.key, r.refreshed, how) /\ stale' \subseteq stale \cup {r.id}
          /\ UNCHANGED <<up, now, sessions, unlocks, minted, live, acked, tokensLost, mailKept>>
          /\ Become(h, IF how = "done" THEN r.fetching ELSE Idle)
      BY <1>11 DEF StoreToken
    <2>4. VaultForm'
      BY <2>1, <2>2, <2>3, ReplaceKeepsForm
    <2>5. MailForm'
      BY <2>3 DEF mailKept, MailForm, Stored
    <2> HIDE DEF r
    <2> QED BY <1>0, <1>2, <2>1, <2>2, <2>3, <2>4, <2>5, GoesOn
  <1>12. ASSUME NEW how \in Outcomes, PrepareImport(h, how) PROVE TypeInv'
    <2> DEFINE todo == Unseen(cursors[r.account], r.fetched)
               next == IF how = "done" /\ todo # {}
                       THEN [at |-> "capture", account |-> r.account, todo |-> todo] ELSE Idle
    <2>1. r.at = "import" /\ r # Idle /\ r.account \in Accounts /\ r.fetched \subseteq Names
      BY <1>0, <1>12 DEF PrepareImport, IsTask, IsFetch, Idle
    <2>2. /\ UNCHANGED <<vaultKept, mailbox>> /\ accounts' = accounts /\ Save(how)
          /\ Become(h, next)
      BY <1>12 DEF PrepareImport
    <2>3. IsTask(next, minted)
      BY <1>2, <2>1 DEF IsTask, Unseen
    <2>4. Stored(accounts')
      BY <2>2 DEF MailForm
    <2>5. faults' \in Nat /\ Stored(mailFile'.accounts)
      BY <2>2, <2>4, SaveStays
    <2>6. VaultForm' /\ MailForm'
      BY <2>2, <2>4, <2>5, VaultStays DEF MailForm
    <2> HIDE DEF next, r
    <2> QED BY <1>0, <2>1, <2>2, <2>3, <2>6, GoesOn DEF vaultKept
  <1>13. ASSUME NEW m \in Names, Capture(h, m) PROVE TypeInv'
    <2> DEFINE next == IF r.todo = {m} THEN Idle ELSE [r EXCEPT !.todo = @ \ {m}]
    <2>1. /\ r.at = "capture" /\ r = [at |-> "capture", account |-> r.account, todo |-> r.todo]
          /\ r.account \in Accounts /\ r.todo \subseteq Names /\ m \in r.todo
      BY <1>0, <1>13 DEF Capture, IsTask, IsFetch, Idle
    <2>2. IsTask(next, minted)
      <3>1. [r EXCEPT !.todo = @ \ {m}] = [at |-> "capture", account |-> r.account, todo |-> r.todo \ {m}]
        BY <2>1
      <3>2. r.todo # {m} => r.todo \ {m} # {}
        BY <2>1
      <3> QED BY <1>2, <2>1, <3>1, <3>2 DEF IsTask
    <2>3. /\ UNCHANGED <<vaultVars, accounts, mailFile, mailbox>> /\ Become(h, next) /\ r # Idle
      BY <1>0, <1>13 DEF Capture
    <2>4. VaultForm' /\ MailForm'
      BY <2>3 DEF vaultVars, VaultForm, VaultTypeOK, AreEntries, IsEntry, MailForm, Stored
    <2> HIDE DEF next, r
    <2> QED BY <1>0, <2>2, <2>3, <2>4, GoesOn DEF vaultVars
  <1>14. CASE Ends(h)
    <2>1. CutOff(h) \subseteq Ids
      BY <1>0, <1>14 DEF CutOff, IsTask, IsRefresh, IsFetch, Idle
    <2>2. /\ r # Idle /\ Become(h, Idle) /\ faults' \in Nat /\ tokensLost' = tokensLost \cup CutOff(h)
          /\ UNCHANGED <<up, now, entries, vaultFile, dirty, sessions, unlocks, minted, live, acked,
                         stale, accounts, mailFile, mailbox>>
      BY <1>0, <1>14 DEF Ends
    <2>3. VaultForm' /\ MailForm'
      BY <2>1, <2>2 DEF VaultForm, VaultTypeOK, AreEntries, IsEntry, MailForm, Stored
    <2> HIDE DEF r
    <2> QED BY <1>0, <1>2, <2>2, <2>3, GoesOn
  <1> QED BY <1>4, <1>5, <1>6, <1>7, <1>8, <1>9, <1>10, <1>11, <1>12, <1>13, <1>14 DEF HandlerStep

\* Every step keeps the types.
LEMMA TypeStep == TypeInv /\ [Next]_vars => TypeInv'
  <1> SUFFICES ASSUME TypeInv, [Next]_vars PROVE TypeInv'
    OBVIOUS
  <1> USE DEF TypeInv
  <1>1. CASE UNCHANGED vars
    BY <1>1 DEF vars, vaultVars, mailVars, VaultForm, VaultTypeOK, AreEntries, IsEntry, MailForm, Stored,
                TasksForm
  <1>2. CASE Tick /\ UNCHANGED mailVars
    <2>1. now' \in 0..MaxTime
      BY <1>2, VaultAssumption DEF Tick, VaultForm, VaultTypeOK
    <2>2. VaultForm'
      BY <1>2, <2>1 DEF Tick, VaultForm, VaultTypeOK, AreEntries, IsEntry
    <2> QED BY <1>2, <2>2 DEF Tick, mailVars, MailForm, Stored, TasksForm
  <1>3. ASSUME NEW a \in Accounts, Arrives(a) PROVE TypeInv'
    <2>1. VaultForm' /\ TasksForm'
      BY <1>3 DEF Arrives, vaultVars, VaultForm, VaultTypeOK, AreEntries, IsEntry, TasksForm
    <2>2. /\ mailbox' = [mailbox EXCEPT ![a] = mailbox[a] \cup {Cardinality(mailbox[a]) + 1}]
          /\ Cardinality(mailbox[a]) + 1 \in Mail
      BY <1>3, Messages DEF Arrives
    <2>3. MailForm'
      BY <1>3, <2>2 DEF Arrives, MailForm, Stored
    <2> QED BY <2>1, <2>3
  <1>4. CASE UserStep
    BY <1>4, UserStepForm
  <1>5. ASSUME NEW h \in Handlers, HandlerStep(h) PROVE TypeInv'
    BY <1>5, HandlerStepForm
  <1>6. CASE Stop
    <2>1. \A h \in Handlers : CutOff(h) \subseteq Ids
      BY DEF TasksForm, CutOff, IsTask, IsRefresh, IsFetch, Idle
    <2>2. Unsaved \subseteq Ids
      BY DEF Unsaved
    <2>3. /\ faults' \in Nat /\ tokensLost' \subseteq Ids /\ up' = FALSE /\ sessions' = {}
          /\ UNCHANGED <<now, entries, vaultFile, dirty, unlocks, minted, live, acked, stale>>
      BY <1>6, <2>1, <2>2 DEF Stop, StopVault, VaultForm, VaultTypeOK
    <2>4. VaultForm'
      BY <2>3 DEF VaultForm, VaultTypeOK, AreEntries, IsEntry
    <2>5. MailForm' /\ TasksForm'
      BY <1>6, <2>3 DEF Stop, MailForm, Stored, TasksForm, IsTask
    <2> QED BY <2>4, <2>5
  <1>7. CASE Boot
    <2>1. /\ up' = TRUE /\ entries' = vaultFile.entries /\ dirty' = FALSE
          /\ UNCHANGED <<now, vaultFile, sessions, unlocks, minted, live, acked, stale, tokensLost, faults>>
      BY <1>7 DEF Boot, BootVault
    <2>2. \A id \in Ids : entries'[id] \in Entry \cup {Absent}
      BY <2>1 DEF VaultForm, AreEntries, IsEntry
    <2>3. VaultForm'
      BY <2>1, <2>2 DEF VaultForm, VaultTypeOK, AreEntries, IsEntry
    <2>4. MailForm' /\ TasksForm'
      BY <1>7, <2>1 DEF Boot, MailForm, Stored, TasksForm
    <2> QED BY <2>3, <2>4
  <1> QED BY <1>1, <1>2, <1>3, <1>4, <1>5, <1>6, <1>7 DEF Next

-----------------------------------------------------------------------------
(* What was acknowledged opens.                                             *)

\* A write in place leaves the file as it was, or with the entries given, or torn.
LEMMA WriteLeaves ==
  ASSUME NEW contents, NEW how \in Outcomes, WriteVault(contents, how)
  PROVE  \/ vaultFile'.entries = contents /\ how = "done" /\ dirty' = FALSE
         \/ vaultFile' = vaultFile /\ how # "done" /\ dirty' = TRUE
         \/ vaultFile'.state = "torn" /\ how # "done" /\ dirty' = TRUE
  <1>1. how = "done" \/ dirty' = TRUE
    BY DEF WriteVault
  <1>2. how = "done" => dirty' = FALSE
    BY DEF WriteVault
  <1>3. vaultFile' = AfterWrite(vaultFile, contents, how)
    BY DEF WriteVault
  <1> QED BY <1>1, <1>2, <1>3 DEF AfterWrite, Outcomes

\* An add that is acknowledged is in memory and in the file, one that is not is unsure.
LEMMA AddAcked ==
  ASSUME TypeInv, AckedInv, NEW w \in Passwords, NEW in \in Inputs, NEW how \in Outcomes,
         AddEntry(w, in, how)
  PROVE  AckedInv'
  <1> DEFINE secret == [kind |-> in.holds, value |-> minted + 1, expires |-> in.expires]
             entry == [kind |-> in.kind, hosts |-> in.hosts, key |-> w, secret |-> secret]
             ack == IF how = "done" THEN [password |-> w, secret |-> secret] ELSE Unsure
  <1>1. /\ entries' = [entries EXCEPT ![in.id] = entry] /\ WriteVault(entries', how)
        /\ acked' = [acked EXCEPT ![in.id] = ack] /\ stale' = stale \ {in.id}
    BY DEF AddEntry
  <1>2. in.id \in Ids
    BY VaultAssumption
  <1>3. AsAcked(entry, [password |-> w, secret |-> secret])
    BY DEF AsAcked, Opens, Absent
  <1> HIDE DEF entry, secret
  <1>4. \A id \in Ids : entries'[id] = (IF id = in.id THEN entry ELSE entries[id])
                        /\ acked'[id] = (IF id = in.id THEN ack ELSE acked[id])
    BY <1>1, <1>2 DEF TypeInv, VaultForm, AreEntries
  <1>5. ASSUME NEW id \in Ids, acked'[id] # Unsure, id \notin stale'
        PROVE  AsAcked(entries'[id], acked'[id]) /\ (vaultFile'.state # "torn" => AsAcked(vaultFile'.entries[id], acked'[id]))
    <2>1. CASE id = in.id
      <3>1. how = "done" /\ AsAcked(entries'[id], acked'[id])
        BY <1>3, <1>4, <1>5, <2>1
      <3>2. vaultFile'.entries = entries'
        BY <1>1, <3>1, WriteLeaves
      <3> QED BY <3>1, <3>2
    <2>2. CASE id # in.id
      <3>1. AsAcked(entries'[id], acked'[id]) /\ (vaultFile.state # "torn" => AsAcked(vaultFile.entries[id], acked'[id]))
        BY <1>1, <1>4, <1>5, <2>2 DEF AckedInv
      <3> QED BY <1>1, <3>1, WriteLeaves
    <2> QED BY <2>1, <2>2
  <1> QED BY <1>5 DEF AckedInv

\* A refresh that had read the entry keeps its key; one that had not makes it stale.
LEMMA StoreAcked ==
  ASSUME TypeInv, AckedInv, NEW h \in Handlers, NEW how \in Outcomes, StoreToken(h, how)
  PROVE  AckedInv'
  <1> DEFINE r == req[h]
  <1>1. r.id \in Ids /\ r.key \in Passwords /\ IsToken(r.current, minted) /\ IsToken(r.refreshed, minted)
    <2>1. r.at = "refreshed" /\ IsTask(r, minted)
      BY DEF StoreToken, TypeInv, TasksForm
    <2> QED BY <2>1 DEF IsTask, IsRefresh, IsFetch, Idle
  <1>2. /\ Replace(r.id, r.key, r.refreshed, how) /\ WriteVault(entries', how)
        /\ UNCHANGED <<up, now, sessions, unlocks, minted, live, acked, tokensLost, mailKept>>
        /\ stale' = IF entries[r.id].key = r.key /\ entries[r.id].secret = r.current
                    THEN stale ELSE stale \cup {r.id}
    BY DEF StoreToken, Replace
  <1> HIDE DEF r
  <1>3. /\ entries'[r.id].key = r.key /\ entries'[r.id].secret = r.refreshed
        /\ entries'[r.id] # Absent
        /\ \A other \in Ids : other # r.id => entries'[other] = entries[other]
    <2>1. Replace(r.id, r.key, r.refreshed, how) /\ IsToken(r.refreshed, minted) /\ VaultForm
      BY <1>1, <1>2 DEF TypeInv
    <2>2. IsEntry(entries'[r.id], minted)
      BY <1>1, <2>1, ReplaceIs
    <2>3. entries'[r.id] # Absent
      BY <2>2 DEF IsEntry, Entry, Kinds, Absent
    <2> QED BY <1>1, <2>1, <2>3, ReplaceIs
  <1>7. ASSUME NEW id \in Ids, acked'[id] # Unsure, id \notin stale'
        PROVE  AsAcked(entries'[id], acked'[id]) /\ (vaultFile'.state # "torn" => AsAcked(vaultFile'.entries[id], acked'[id]))
    <2>1. acked' = acked /\ id \notin stale
      BY <1>2, <1>7
    <2>2. AsAcked(entries[id], acked[id]) /\ (vaultFile.state # "torn" => AsAcked(vaultFile.entries[id], acked[id]))
      BY <1>7, <2>1 DEF AckedInv
    <2>3. AsAcked(entries'[id], acked[id])
      <3>1. CASE id = r.id
        <4>1. entries[id].key = r.key /\ entries[id].secret = r.current
          BY <1>2, <1>7, <3>1
        <4> QED BY <1>1, <1>3, <2>2, <3>1, <4>1 DEF AsAcked, Opens, IsToken
      <3>2. CASE id # r.id
        BY <1>3, <2>2, <3>2
      <3> QED BY <3>1, <3>2
    <2> QED BY <1>2, <2>1, <2>2, <2>3, WriteLeaves
  <1> QED BY <1>7 DEF AckedInv

LEMMA AckedStep == TypeInv /\ AckedInv /\ [Next]_vars => AckedInv'
  <1> SUFFICES ASSUME TypeInv, AckedInv, [Next]_vars PROVE AckedInv'
    OBVIOUS
  <1>1. ASSUME UNCHANGED <<entries, vaultFile, acked, stale>> PROVE AckedInv'
    BY <1>1 DEF AckedInv
  <1>2. CASE UNCHANGED vars
    BY <1>1, <1>2 DEF vars, vaultVars
  <1>3. CASE Tick
    BY <1>1, <1>3 DEF Tick
  <1>4. ASSUME NEW a \in Accounts, Arrives(a) PROVE AckedInv'
    BY <1>1, <1>4 DEF Arrives, vaultVars
  <1>5. CASE UserStep
    BY <1>1, <1>5, AddAcked DEF UserStep, Unlock, Fill, UpsertAccount, vaultKept, StartSync, StartImport,
                              vaultVars
  <1>6. ASSUME NEW h \in Handlers, HandlerStep(h) PROVE AckedInv'
    BY <1>1, <1>6, StoreAcked
       DEF HandlerStep, ReadPassword, ReadToken, ProviderRefuses, TokenRefused, FetchImap, FetchProvider,
           ProviderRefreshes, PrepareImport, Capture, Ends, vaultVars, vaultKept
  <1>7. CASE Stop
    BY <1>1, <1>7 DEF Stop, StopVault
  <1>8. CASE Boot
    <2>1. vaultFile.state # "torn" /\ entries' = vaultFile.entries /\ UNCHANGED <<vaultFile, acked, stale>>
      BY <1>8 DEF Boot, BootVault
    <2> QED BY <2>1 DEF AckedInv
  <1> QED BY <1>2, <1>3, <1>4, <1>5, <1>6, <1>7, <1>8 DEF Next

-----------------------------------------------------------------------------
(* Memory and file.                                                         *)

LEMMA SavedStep == TypeInv /\ SavedInv /\ [Next]_vars => SavedInv'
  <1> SUFFICES ASSUME TypeInv, SavedInv, [Next]_vars PROVE SavedInv'
    OBVIOUS
  <1>1. ASSUME UNCHANGED <<up, dirty, entries, vaultFile>>, tokensLost \subseteq tokensLost'
        PROVE  SavedInv'
    BY <1>1 DEF SavedInv
  \* A write is done while the service runs.
  <1>2. ASSUME NEW how \in Outcomes, WriteVault(entries', how), up, up' = up PROVE SavedInv'
    BY <1>2, WriteLeaves DEF SavedInv
  <1>3. CASE UNCHANGED vars
    BY <1>1, <1>3 DEF vars, vaultVars
  <1>4. CASE Tick
    BY <1>1, <1>4 DEF Tick
  <1>5. ASSUME NEW a \in Accounts, Arrives(a) PROVE SavedInv'
    BY <1>1, <1>5 DEF Arrives, vaultVars
  <1>6. CASE UserStep
    <2>1. ASSUME NEW w \in Passwords, NEW in \in Inputs, NEW how \in Outcomes, AddEntry(w, in, how)
          PROVE  SavedInv'
      BY <1>2, <2>1 DEF AddEntry
    <2> QED BY <1>1, <1>6, <2>1
            DEF UserStep, Unlock, Fill, UpsertAccount, vaultKept, StartSync, StartImport, vaultVars
  <1>7. ASSUME NEW h \in Handlers, HandlerStep(h) PROVE SavedInv'
    <2>1. ASSUME NEW how \in Outcomes, StoreToken(h, how) PROVE SavedInv'
      <3>1. up
        BY <2>1 DEF StoreToken, TypeInv, TasksForm, Idle
      <3> QED BY <1>2, <2>1, <3>1 DEF StoreToken, Replace
    <2> QED BY <1>1, <1>7, <2>1
            DEF HandlerStep, ReadPassword, ReadToken, ProviderRefuses, TokenRefused, FetchImap, FetchProvider,
                ProviderRefreshes, PrepareImport, Capture, Ends, vaultVars, vaultKept
  <1>8. CASE Stop
    <2>1. /\ tokensLost' = tokensLost \cup Unsaved \cup UNION {CutOff(h) : h \in Handlers}
          /\ UNCHANGED <<entries, vaultFile, dirty>>
      BY <1>8 DEF Stop, StopVault
    <2>2. \A id \in Ids : id \notin tokensLost' => vaultFile.entries[id] = entries[id]
      BY <2>1 DEF Unsaved, SavedInv
    <2> QED BY <2>1, <2>2 DEF SavedInv
  <1>9. CASE Boot
    BY <1>9 DEF Boot, BootVault, SavedInv
  <1> QED BY <1>3, <1>4, <1>5, <1>6, <1>7, <1>8, <1>9 DEF Next

-----------------------------------------------------------------------------
(* Refresh tokens.                                                          *)

\* Nothing changes for the tokens while no request takes one up or drops one unnoted.
LEMMA TokensStay ==
  ASSUME TokenInv, UNCHANGED <<entries, live, acked, stale>>, tokensLost \subseteq tokensLost',
         \A g \in Handlers : req'[g].at = "refreshed" => req'[g] = req[g],
         \A g \in Handlers : req[g].at = "refreshed" => req'[g] = req[g] \/ req[g].id \in tokensLost'
  PROVE  TokenInv'
  <1>1. ASSUME NEW id \in Ids, entries[id] # Absent, entries[id].secret.kind = "OAuthToken",
               acked[id] # Unsure, id \notin stale \cup tokensLost'
        PROVE  \/ entries[id].secret.value = live[id]
               \/ \E g \in Handlers : req'[g].at = "refreshed" /\ req'[g].id = id
                                   /\ req'[g].refreshed.value = live[id]
    BY <1>1 DEF TokenInv
  <1>2. \A g \in Handlers : req'[g].at = "refreshed" =>
          \/ req'[g].refreshed.value = req'[g].current.value
          \/ live[req'[g].id] # req'[g].current.value
    BY DEF TokenInv
  <1> QED BY <1>1, <1>2 DEF TokenInv

\* What a request with an answer of the provider holds.
LEMMA Answered ==
  ASSUME TypeInv, NEW h \in Handlers, req[h].at \in {"refresh", "refreshed"}
  PROVE  /\ req[h].id \in Ids /\ req[h].key \in Passwords /\ req[h].current.value \in 1..minted
         /\ IsFetch(req[h].fetching) /\ minted \in Nat
         /\ req[h].at = "refreshed" => IsToken(req[h].refreshed, minted)
  BY DEF TypeInv, TasksForm, VaultForm, IsTask, IsRefresh, IsFetch, IsToken, Idle

\* A fresh secret is nobody's token yet.
LEMMA AddTokens ==
  ASSUME TypeInv, TokenInv, NEW w \in Passwords, NEW in \in Inputs, NEW how \in Outcomes,
         AddEntry(w, in, how), UNCHANGED mailVars
  PROVE  TokenInv'
  <1> DEFINE secret == [kind |-> in.holds, value |-> minted + 1, expires |-> in.expires]
             entry == [kind |-> in.kind, hosts |-> in.hosts, key |-> w, secret |-> secret]
             token == IF in.holds = "OAuthToken" THEN minted + 1 ELSE 0
  <1>1. /\ entries' = [entries EXCEPT ![in.id] = entry] /\ live' = [live EXCEPT ![in.id] = token]
        /\ stale' = stale \ {in.id} /\ tokensLost' = tokensLost \ {in.id} /\ req' = req
    BY DEF AddEntry, mailVars
  <1>2. in.id \in Ids /\ minted \in Nat
    BY VaultAssumption DEF TypeInv, VaultForm
  <1>3. entry.secret.kind = in.holds /\ entry.secret.value = minted + 1
    OBVIOUS
  <1> HIDE DEF entry, secret
  <1>4. \A id \in Ids : /\ entries'[id] = (IF id = in.id THEN entry ELSE entries[id])
                        /\ live'[id] = (IF id = in.id THEN token ELSE live[id])
    BY <1>1, <1>2 DEF TypeInv, VaultForm, AreEntries
  <1>5. \A id \in Ids : id # in.id => acked'[id] = acked[id]
    BY DEF AddEntry, TypeInv, VaultForm
  <1>6. ASSUME NEW id \in Ids, entries'[id] # Absent, entries'[id].secret.kind = "OAuthToken",
               acked'[id] # Unsure, id \notin stale' \cup tokensLost'
        PROVE  \/ entries'[id].secret.value = live'[id]
               \/ \E g \in Handlers : req[g].at = "refreshed" /\ req[g].id = id
                                   /\ req[g].refreshed.value = live'[id]
    <2>1. CASE id = in.id
      BY <1>3, <1>4, <1>6, <2>1
    <2>2. CASE id # in.id
      BY <1>1, <1>4, <1>5, <1>6, <2>2 DEF TokenInv
    <2> QED BY <2>1, <2>2
  <1>7. ASSUME NEW g \in Handlers, req[g].at = "refreshed"
        PROVE  \/ req[g].refreshed.value = req[g].current.value
               \/ live'[req[g].id] # req[g].current.value
    <2>1. req[g].id \in Ids /\ req[g].current.value \in 1..minted
      BY <1>7, Answered
    <2>2. token # req[g].current.value
      BY <1>2, <2>1
    <2> QED BY <1>4, <1>7, <2>1, <2>2 DEF TokenInv
  <1> QED BY <1>1, <1>6, <1>7 DEF TokenInv

\* The provider's answer is on its way to the vault.
LEMMA RefreshTokens ==
  ASSUME TypeInv, TokenInv, NEW h \in Handlers, NEW rotates \in BOOLEAN, ProviderRefreshes(h, rotates)
  PROVE  TokenInv'
  <1> DEFINE r == req[h]
             token == IF rotates THEN minted' ELSE r.current.value
  <1>1. r.id \in Ids /\ r.current.value \in 1..minted /\ minted \in Nat /\ r.at = "refresh"
    BY Answered DEF ProviderRefreshes
  <1>2. ~rotates \/ (minted' \in Nat /\ minted' # 0)
    BY <1>1 DEF ProviderRefreshes
  <1>3. /\ live[r.id] = r.current.value /\ (rotates => minted' = minted + 1)
        /\ UNCHANGED <<entries, acked, stale, tokensLost>>
    BY DEF ProviderRefreshes
  <1>4. /\ req'[h].at = "refreshed" /\ req'[h].id = r.id /\ req'[h].current = r.current
        /\ req'[h].refreshed = Applied(r.current, IF rotates THEN minted' ELSE 0)
        /\ \A g \in Handlers : g # h => req'[g] = req[g]
    BY DEF ProviderRefreshes, Become, TypeInv, TasksForm
  <1>5. req'[h].refreshed.value = token
    <2>1. IsToken(r.current, minted)
      BY <1>1 DEF TypeInv, TasksForm, IsTask, IsRefresh, IsFetch, Idle
    <2>2. \A v : Applied(r.current, v).value = IF v = 0 THEN r.current.value ELSE v
      BY <2>1 DEF Applied, IsToken, Secret
    <2> QED BY <1>2, <1>4, <2>2
  <1>6. \A id \in Ids : live'[id] = IF id = r.id THEN token ELSE live[id]
    BY <1>1, <1>3 DEF ProviderRefreshes, TypeInv, VaultForm
  <1> HIDE DEF r
  <1>7. ASSUME NEW id \in Ids, entries[id] # Absent, entries[id].secret.kind = "OAuthToken",
               acked[id] # Unsure, id \notin stale \cup tokensLost
        PROVE  \/ entries[id].secret.value = live'[id]
               \/ \E g \in Handlers : req'[g].at = "refreshed" /\ req'[g].id = id
                                   /\ req'[g].refreshed.value = live'[id]
    <2>1. CASE id = r.id
      BY <1>4, <1>5, <1>6, <2>1
    <2>2. CASE id # r.id
      BY <1>1, <1>4, <1>6, <1>7, <2>2 DEF TokenInv, r
    <2> QED BY <2>1, <2>2
  <1>8. ASSUME NEW g \in Handlers, req'[g].at = "refreshed"
        PROVE  \/ req'[g].refreshed.value = req'[g].current.value
               \/ live'[req'[g].id] # req'[g].current.value
    <2>1. CASE g = h
      <3>1. live'[r.id] = token /\ (rotates => token # r.current.value)
        BY <1>1, <1>3, <1>6
      <3> QED BY <1>4, <1>5, <2>1, <3>1
    <2>2. CASE g # h
      <3>1. req'[g] = req[g] /\ req[g].id \in Ids /\ req[g].current.value \in 1..minted
        BY <1>4, <1>8, <2>2, Answered
      <3>2. live'[req[g].id] = live[req[g].id] \/ live'[req[g].id] # req[g].current.value
        BY <1>1, <1>3, <1>6, <3>1
      <3> QED BY <1>8, <3>1, <3>2 DEF TokenInv
    <2> QED BY <2>1, <2>2
  <1> QED BY <1>3, <1>7, <1>8 DEF TokenInv

\* A stored token is the live one when the one it replaces was.
LEMMA StoreTokens ==
  ASSUME TypeInv, TokenInv, NEW h \in Handlers, NEW how \in Outcomes, StoreToken(h, how)
  PROVE  TokenInv'
  <1> DEFINE r == req[h]
  <1>1. /\ r.at = "refreshed" /\ r.id \in Ids /\ r.key \in Passwords /\ IsFetch(r.fetching)
        /\ IsToken(r.refreshed, minted)
    BY Answered DEF StoreToken
  <1>2. /\ UNCHANGED <<live, acked, tokensLost>>
        /\ stale' = IF entries[r.id].key = r.key /\ entries[r.id].secret = r.current
                    THEN stale ELSE stale \cup {r.id}
    BY DEF StoreToken
  <1>3. Replace(r.id, r.key, r.refreshed, how)
    BY DEF StoreToken
  <1>4. /\ req'[h].at # "refreshed"
        /\ \A g \in Handlers : g # h => req'[g] = req[g]
    <2>1. req' = [req EXCEPT ![h] = IF how = "done" THEN r.fetching ELSE Idle]
      BY DEF StoreToken, Become
    <2>2. r.fetching.at # "refreshed" /\ Idle.at # "refreshed"
      BY <1>1 DEF IsFetch, Idle
    <2> QED BY <2>1, <2>2 DEF TypeInv, TasksForm
  <1> HIDE DEF r
  <1>5. /\ entries'[r.id].secret = r.refreshed /\ IsEntry(entries[r.id], minted)
        /\ \A other \in Ids : other # r.id => entries'[other] = entries[other]
    BY <1>1, <1>3, ReplaceIs DEF TypeInv
  <1>6. ASSUME NEW id \in Ids, entries'[id] # Absent, entries'[id].secret.kind = "OAuthToken",
               acked[id] # Unsure, id \notin stale' \cup tokensLost
        PROVE  \/ entries'[id].secret.value = live[id]
               \/ \E g \in Handlers : req'[g].at = "refreshed" /\ req'[g].id = id
                                   /\ req'[g].refreshed.value = live[id]
    <2>1. CASE id = r.id
      <3>1. entries[id].secret = r.current /\ id \notin stale \cup tokensLost
        BY <1>2, <1>6, <2>1
      <3>2. entries[id] # Absent /\ entries[id].secret.kind = "OAuthToken"
        <4>1. IsToken(r.current, minted)
          BY <1>1 DEF TypeInv, TasksForm, IsTask, IsRefresh, IsFetch, Idle, r
        <4> QED BY <1>5, <2>1, <3>1, <4>1 DEF IsEntry, Entry, Kinds, Absent, IsToken
      <3>3. \/ r.current.value = live[id]
            \/ \E g \in Handlers : req[g].at = "refreshed" /\ req[g].id = id
                                /\ req[g].refreshed.value = live[id]
        BY <1>6, <3>1, <3>2 DEF TokenInv
      <3>4. r.refreshed.value = r.current.value \/ live[id] # r.current.value
        BY <1>1, <2>1 DEF TokenInv, r
      <3> QED BY <1>4, <1>5, <2>1, <3>3, <3>4 DEF r
    <2>2. CASE id # r.id
      <3>1. entries'[id] = entries[id] /\ id \notin stale
        BY <1>2, <1>5, <1>6, <2>2
      <3> QED BY <1>4, <1>6, <2>2, <3>1 DEF TokenInv, r
    <2> QED BY <2>1, <2>2
  <1>7. \A g \in Handlers : req'[g].at = "refreshed" =>
          \/ req'[g].refreshed.value = req'[g].current.value
          \/ live[req'[g].id] # req'[g].current.value
    BY <1>4 DEF TokenInv
  <1> QED BY <1>2, <1>6, <1>7 DEF TokenInv

LEMMA TokenStep == TypeInv /\ SavedInv /\ TokenInv /\ [Next]_vars => TokenInv'
  <1> SUFFICES ASSUME TypeInv, SavedInv, TokenInv, [Next]_vars PROVE TokenInv'
    OBVIOUS
  \* A step of a handler that has no answer of the provider and gets none.
  <1>1. ASSUME NEW h \in Handlers, NEW next, Become(h, next), next.at # "refreshed",
               req[h].at = "refreshed" => req[h].id \in tokensLost',
               UNCHANGED <<entries, live, acked, stale>>, tokensLost \subseteq tokensLost'
        PROVE  TokenInv'
    <2>1. req'[h] = next /\ \A g \in Handlers : g # h => req'[g] = req[g]
      BY <1>1 DEF Become, TypeInv, TasksForm
    <2> QED BY <1>1, <2>1, TokensStay
  <1>2. ASSUME UNCHANGED <<entries, live, acked, stale, tokensLost, req>> PROVE TokenInv'
    BY <1>2, TokensStay
  <1>3. CASE UNCHANGED vars
    BY <1>2, <1>3 DEF vars, vaultVars, mailVars
  <1>4. CASE Tick /\ UNCHANGED mailVars
    BY <1>2, <1>4 DEF Tick, mailVars
  <1>5. ASSUME NEW a \in Accounts, Arrives(a) PROVE TokenInv'
    BY <1>2, <1>5 DEF Arrives, vaultVars
  <1>6. CASE UserStep
    <2>1. ASSUME NEW h \in Handlers, NEW a \in Accounts, NEW n \in 1..unlocks, NEW limit \in Limits,
                 StartSync(h, a, n, limit)
          PROVE  TokenInv'
      <3>1. UNCHANGED <<entries, live, acked, stale, tokensLost>> /\ req[h] = Idle
        BY <2>1 DEF StartSync
      <3>2. CASE UNCHANGED req
        BY <1>2, <3>1, <3>2
      <3>3. CASE Become(h, [at |-> "credential", account |-> a, limit |-> limit,
                            config |-> accounts[a], key |-> SessionKey(n)])
        BY <1>1, <3>1, <3>3 DEF Idle
      <3> QED BY <2>1, <3>2, <3>3 DEF StartSync, Become
    <2>2. ASSUME NEW h \in Handlers, NEW a \in Accounts, NEW via, NEW ms, StartImport(h, a, via, ms)
          PROVE  TokenInv'
      <3>1. UNCHANGED <<entries, live, acked, stale, tokensLost>> /\ req[h] = Idle
        BY <2>2 DEF StartImport, vaultVars
      <3>2. Become(h, [at |-> "import", account |-> a, fetched |-> Named(via, ms)])
        BY <2>2 DEF StartImport, Become
      <3> QED BY <1>1, <3>1, <3>2 DEF Idle
    <2> QED BY <1>2, <1>6, <2>1, <2>2, AddTokens DEF UserStep, Unlock, Fill, UpsertAccount, vaultKept, mailVars
  <1>7. ASSUME NEW h \in Handlers, HandlerStep(h) PROVE TokenInv'
    <2>0. \A r : Fetching(r).at = "fetch" /\ Idle.at = "idle" /\ \A ms : Fetched(r, ms).at = "import"
      BY DEF Fetching, Idle, Fetched
    <2>1. CASE ReadPassword(h)
      BY <1>1, <2>0, <2>1 DEF ReadPassword, vaultVars
    <2>2. CASE ReadToken(h)
      <3>1. req[h].at = "credential" /\ UNCHANGED <<entries, live, acked, stale, tokensLost>>
        BY <2>2 DEF ReadToken, vaultVars
      <3>2. \E next : Become(h, next) /\ next.at # "refreshed"
        <4>1. \/ Become(h, Idle) \/ Become(h, Fetching(req[h]))
              \/ Become(h, [at |-> "refresh", current |-> entries[req[h].config.ref].secret,
                            id |-> req[h].config.ref, key |-> req[h].key, fetching |-> Fetching(req[h])])
          BY <2>2 DEF ReadToken, TokenState
        <4> QED BY <2>0, <4>1
      <3> QED BY <1>1, <3>1, <3>2
    <2>3. CASE ProviderRefuses(h)
      BY <1>1, <2>0, <2>3 DEF ProviderRefuses, vaultVars
    <2>4. CASE TokenRefused(h)
      BY <1>1, <2>0, <2>4 DEF TokenRefused
    <2>5. CASE FetchImap(h)
      BY <1>1, <2>0, <2>5 DEF FetchImap, vaultVars
    <2>6. CASE FetchProvider(h)
      BY <1>1, <2>0, <2>6 DEF FetchProvider, vaultVars
    <2>7. ASSUME NEW how \in Outcomes, PrepareImport(h, how) PROVE TokenInv'
      <3>1. \E todo : Become(h, IF how = "done" /\ todo # {}
                                THEN [at |-> "capture", account |-> req[h].account, todo |-> todo] ELSE Idle)
        BY <2>7 DEF PrepareImport
      <3>2. \E next : Become(h, next) /\ next.at # "refreshed"
        BY <2>0, <3>1
      <3> QED BY <1>1, <2>7, <3>2 DEF PrepareImport, vaultKept
    <2>8. ASSUME NEW m \in Names, Capture(h, m) PROVE TokenInv'
      <3>1. req[h] = [at |-> "capture", account |-> req[h].account, todo |-> req[h].todo]
        BY <2>8 DEF Capture, TypeInv, TasksForm, IsTask, IsFetch, Idle
      <3>2. [req[h] EXCEPT !.todo = @ \ {m}].at = "capture"
        BY <3>1
      <3>3. \E next : Become(h, next) /\ next.at # "refreshed"
        BY <2>0, <2>8, <3>2 DEF Capture
      <3> QED BY <1>1, <2>8, <3>3 DEF Capture, vaultVars
    <2>9. CASE Ends(h)
      <3>1. req[h].at = "refreshed" => req[h].id \in tokensLost'
        BY <2>9 DEF Ends, CutOff
      <3> QED BY <1>1, <2>0, <2>9, <3>1 DEF Ends
    <2> QED BY <1>7, <2>1, <2>2, <2>3, <2>4, <2>5, <2>6, <2>7, <2>8, <2>9, RefreshTokens, StoreTokens
            DEF HandlerStep
  <1>8. CASE Stop
    <2>1. /\ tokensLost' = tokensLost \cup Unsaved \cup UNION {CutOff(h) : h \in Handlers}
          /\ UNCHANGED <<entries, live, acked, stale>> /\ req' = [h \in Handlers |-> Idle]
      BY <1>8 DEF Stop, StopVault
    <2>2. \A g \in Handlers : req[g].at = "refreshed" => req[g].id \in tokensLost'
      BY <2>1 DEF CutOff
    <2>3. \A g \in Handlers : req'[g].at # "refreshed"
      BY <2>1 DEF Idle
    <2> QED BY <2>1, <2>2, <2>3, TokensStay
  <1>9. CASE Boot
    <2>1. ~up /\ entries' = vaultFile.entries /\ UNCHANGED <<live, acked, stale, tokensLost, req>>
      BY <1>9 DEF Boot, BootVault
    <2>2. \A h \in Handlers : req[h].at # "refreshed"
      BY <2>1 DEF TypeInv, TasksForm, Idle
    <2>3. \A id \in Ids : id \notin tokensLost => entries'[id] = entries[id]
      BY <2>1 DEF SavedInv
    <2> QED BY <2>1, <2>2, <2>3 DEF TokenInv
  <1> QED BY <1>3, <1>4, <1>5, <1>6, <1>7, <1>8, <1>9 DEF Next

-----------------------------------------------------------------------------
(* Cursors and captures.                                                    *)

MarkInv == CursorsForm /\ SeenInv /\ OnceInv

\* A cursor whose limit is not reached keeps every id.
LEMMA Keeps ==
  ASSUME NEW seen, seen \subseteq Names
  PROVE  /\ Bounded(seen) \subseteq seen
         /\ ~(Cardinality(seen) > MaxSeen) => Bounded(seen) = seen
  <1>1. MaxMail \in Nat /\ MaxSeen \in Nat /\ Rank \in [Names -> Int]
    BY MailAssumption
  <1>2. IsFiniteSet(Names)
    <2>1. IsFiniteSet(Mail)
      BY <1>1, FS_Interval DEF Mail
    <2>2. IsFiniteSet({"Imap", "GmailApi", "OutlookApi"})
      <3>1. IsFiniteSet({"Imap"}) /\ IsFiniteSet({"GmailApi"}) /\ IsFiniteSet({"OutlookApi"})
        BY FS_Singleton
      <3>2. IsFiniteSet(({"Imap"} \cup {"GmailApi"}) \cup {"OutlookApi"})
        BY <3>1, FS_Union
      <3>3. ({"Imap"} \cup {"GmailApi"}) \cup {"OutlookApi"} = {"Imap", "GmailApi", "OutlookApi"}
        OBVIOUS
      <3> QED BY <3>2, <3>3
    <2>3. IsFiniteSet(Sources)
      BY <2>2, FS_Subset, MailAssumption
    <2> QED BY <2>1, <2>3, FS_Product DEF Names
  <1>3. IsFiniteSet(seen)
    BY <1>2, FS_Subset
  <1>4. ASSUME ~(Cardinality(seen) > MaxSeen), NEW m \in seen
        PROVE  Cardinality({k \in seen : Rank[k] > Rank[m]}) < MaxSeen
    <2> DEFINE after == {k \in seen : Rank[k] > Rank[m]}
    <2>1. after \subseteq seen /\ m \notin after
      BY <1>1
    <2>2. Cardinality(after) \in Nat /\ Cardinality(seen) \in Nat /\ Cardinality(after) < Cardinality(seen)
      <3>1. IsFiniteSet(after) /\ Cardinality(after) <= Cardinality(seen) /\ Cardinality(after) # Cardinality(seen)
        BY <1>3, <2>1, FS_Subset
      <3>2. Cardinality(after) \in Nat /\ Cardinality(seen) \in Nat
        BY <1>3, <3>1, FS_CardinalityType
      <3> QED BY <3>1, <3>2
    <2> HIDE DEF after
    <2>3. Cardinality(after) < MaxSeen
      BY <1>1, <1>4, <2>2
    <2> QED BY <2>3 DEF after
  <1> QED BY <1>4 DEF Bounded

\* A step that leaves cursors, captures and what is being captured as they are.
LEMMA MarksStay ==
  ASSUME MarkInv, UNCHANGED <<up, cursors, captured, mailFile, mailDirty>>,
         lost \subseteq lost', forgot \subseteq forgot',
         \A g \in Handlers : \A a, m : Capturing(g, a, m)' => Capturing(g, a, m),
         \A g \in Handlers : \A a \in Accounts : \A m : Capturing(g, a, m) => Capturing(g, a, m)' \/ <<a, m>> \in lost'
  PROVE  MarkInv'
  <1>1. CursorsForm'
    BY DEF MarkInv, CursorsForm
  <1>2. SeenInv'
    BY DEF MarkInv, SeenInv
  <1>3. OnceInv'
    BY DEF MarkInv, OnceInv
  <1> QED BY <1>1, <1>2, <1>3 DEF MarkInv

\* A handler that captures nothing before a step and after it.
LEMMA NoCapture ==
  ASSUME TypeInv, MarkInv, NEW h \in Handlers, NEW next, Become(h, next),
         req[h].at # "capture", next.at # "capture",
         UNCHANGED <<up, cursors, captured, mailFile, mailDirty, lost, forgot>>
  PROVE  MarkInv'
  <1>1. req'[h] = next /\ \A g \in Handlers : g # h => req'[g] = req[g]
    BY DEF Become, TypeInv, TasksForm
  <1>2. \A g \in Handlers : \A a, m : Capturing(g, a, m)' <=> Capturing(g, a, m)
    BY <1>1 DEF Capturing
  <1> QED BY <1>2, MarksStay

\* Storing an account writes the cursors of memory into the file.
LEMMA UpsertMarks ==
  ASSUME TypeInv, MarkInv, NEW a \in Accounts, NEW config \in Configs, NEW how \in Outcomes,
         UpsertAccount(a, config, how)
  PROVE  MarkInv'
  <1>1. UNCHANGED <<up, cursors, captured, req, lost, forgot>> /\ up
    BY DEF UpsertAccount, vaultKept
  <1>2. \/ mailFile'.cursors = cursors' /\ mailDirty' = FALSE
        \/ mailFile' = mailFile /\ mailDirty' = TRUE
        \/ mailFile'.cursors = NoMail.cursors /\ mailDirty' = TRUE
    BY Saves DEF UpsertAccount, TypeInv
  <1>3. /\ NoMail.cursors = [b \in Accounts |-> NoMail.cursors[b]]
        /\ \A b \in Accounts : NoMail.cursors[b].seen = {}
    BY DEF NoMail, NewCursor
  <1>4. CursorsForm'
    BY <1>1, <1>2, <1>3 DEF MarkInv, CursorsForm
  <1>5. \A g, b, m : Capturing(g, b, m)' <=> Capturing(g, b, m)
    BY <1>1 DEF Capturing
  <1>6. SeenInv'
    BY <1>1, <1>2, <1>3, <1>5 DEF MarkInv, SeenInv
  <1>7. OnceInv'
    BY <1>1, <1>2, <1>5 DEF MarkInv, OnceInv
  <1> QED BY <1>4, <1>6, <1>7 DEF MarkInv

\* Marking messages seen takes up exactly those that were not.
LEMMA PrepareMarks ==
  ASSUME TypeInv, MarkInv, NEW h \in Handlers, NEW how \in Outcomes, PrepareImport(h, how)
  PROVE  MarkInv'
  <1> DEFINE b == req[h].account
             fetched == req[h].fetched
             seen == cursors[b].seen
             todo == fetched \ seen
             next == IF how = "done" /\ todo # {} THEN [at |-> "capture", account |-> b, todo |-> todo] ELSE Idle
  <1>1. req[h].at = "import" /\ b \in Accounts /\ fetched \subseteq Names /\ up
    BY DEF PrepareImport, TypeInv, TasksForm, IsTask, IsFetch, Idle
  <1>2. /\ cursors' = [cursors EXCEPT ![b] = Advanced(cursors[b], fetched)]
        /\ lost' = (IF how = "done" THEN lost ELSE lost \cup ({b} \X todo))
        /\ forgot' = (IF Cardinality(seen \cup fetched) > MaxSeen THEN forgot \cup {b} ELSE forgot)
        /\ UNCHANGED <<up, captured>>
    BY DEF PrepareImport, Unseen, vaultKept
  <1>3. seen \subseteq Names /\ seen \cup fetched \subseteq Names
    BY <1>1 DEF MarkInv, CursorsForm
  <1>4. /\ cursors'[b].seen \subseteq seen \cup fetched
        /\ b \notin forgot' => b \notin forgot /\ cursors'[b].seen = seen \cup fetched
    <2>1. cursors'[b].seen = Bounded(seen \cup fetched)
      BY <1>1, <1>2 DEF Advanced, MarkInv, CursorsForm
    <2> QED BY <1>2, <1>3, <2>1, Keeps
  <1>5. \A a \in Accounts : a # b => cursors'[a] = cursors[a] /\ (a \notin forgot' => a \notin forgot)
    BY <1>2 DEF MarkInv, CursorsForm
  <1>6. \/ mailFile'.cursors = cursors' /\ mailDirty' = FALSE
        \/ mailFile' = mailFile /\ mailDirty' = TRUE
        \/ mailFile'.cursors = NoMail.cursors /\ mailDirty' = TRUE
    BY Saves DEF PrepareImport, TypeInv
  <1>7. /\ NoMail.cursors = [a \in Accounts |-> NoMail.cursors[a]]
        /\ \A a \in Accounts : NoMail.cursors[a].seen = {}
    BY DEF NoMail, NewCursor
  <1>8. /\ \A g \in Handlers : \A a, m : g # h => (Capturing(g, a, m)' <=> Capturing(g, a, m))
        /\ \A a, m : ~Capturing(h, a, m)
        /\ \A a, m : Capturing(h, a, m)' => a = b /\ m \in todo
        /\ how = "done" => \A a, m : a = b /\ m \in todo => Capturing(h, a, m)'
    <2>1. Become(h, next)
      BY DEF PrepareImport, Unseen
    <2>2. req'[h] = next /\ \A g \in Handlers : g # h => req'[g] = req[g]
      BY <2>1 DEF Become, TypeInv, TasksForm
    <2>3. \A g \in Handlers : \A a, m : g # h => (Capturing(g, a, m)' <=> Capturing(g, a, m))
      BY <2>2 DEF Capturing
    <2> QED BY <1>1, <2>2, <2>3 DEF Capturing, Idle
  <1> HIDE DEF b, fetched, seen, todo, next
  <1>9. CursorsForm'
    <2>1. cursors' = [a \in Accounts |-> cursors'[a]]
      BY <1>2 DEF MarkInv, CursorsForm
    <2>2. \A a \in Accounts : cursors'[a].seen \subseteq Names
      BY <1>3, <1>4, <1>5 DEF MarkInv, CursorsForm
    <2>3. mailFile'.cursors = [a \in Accounts |-> mailFile'.cursors[a]]
      BY <1>6, <1>7, <2>1 DEF MarkInv, CursorsForm
    <2>4. \A a \in Accounts : mailFile'.cursors[a].seen \subseteq Names
      BY <1>6, <1>7, <2>2 DEF MarkInv, CursorsForm
    <2> QED BY <1>2, <2>1, <2>2, <2>3, <2>4 DEF MarkInv, CursorsForm
  <1>10. ASSUME NEW a \in Accounts, NEW m \in cursors[a].seen \cup mailFile.cursors[a].seen
         PROVE  \/ captured'[a][m] > 0 \/ <<a, m>> \in lost'
                \/ \E g \in Handlers : Capturing(g, a, m)'
    <2>1. \/ captured[a][m] > 0 \/ <<a, m>> \in lost
          \/ \E g \in Handlers : Capturing(g, a, m)
      BY <1>10 DEF MarkInv, SeenInv
    <2> QED BY <1>2, <1>8, <2>1
  <1>11. ASSUME NEW a, a = b, NEW m \in todo
         PROVE  <<a, m>> \in lost' \/ \E g \in Handlers : Capturing(g, a, m)'
    <2>1. CASE how = "done"
      BY <1>8, <1>11, <2>1
    <2>2. CASE how # "done"
      BY <1>2, <1>11, <2>2
    <2> QED BY <2>1, <2>2
  <1>12. SeenInv'
    <2>1. ASSUME NEW a \in Accounts, NEW m \in cursors'[a].seen
          PROVE  \/ captured'[a][m] > 0 \/ <<a, m>> \in lost'
                 \/ \E g \in Handlers : Capturing(g, a, m)'
      <3>1. CASE m \in cursors[a].seen
        BY <1>10, <3>1
      <3>2. CASE m \notin cursors[a].seen
        <4>1. a = b /\ m \in todo
          BY <1>4, <1>5, <2>1, <3>2 DEF seen, todo
        <4> QED BY <1>11, <4>1
      <3> QED BY <3>1, <3>2
    <2>2. \A a \in Accounts : \A m \in mailFile'.cursors[a].seen :
            m \in cursors'[a].seen \/ m \in mailFile.cursors[a].seen
      BY <1>6, <1>7
    <2> QED BY <1>10, <2>1, <2>2 DEF SeenInv
  <1>13. ASSUME NEW a \in Accounts, a \notin forgot', NEW m \in Names
         PROVE  /\ captured'[a][m] \in {0, 1}
                /\ captured'[a][m] = 1 => m \in cursors'[a].seen
                /\ \A g \in Handlers : Capturing(g, a, m)' =>
                     /\ m \in cursors'[a].seen /\ captured'[a][m] = 0
                     /\ \A other \in Handlers : Capturing(other, a, m)' => other = g
    <2>1. /\ a \notin forgot /\ captured' = captured
          /\ m \in cursors[a].seen => m \in cursors'[a].seen
          /\ a = b /\ m \in todo => m \in cursors'[a].seen /\ m \notin cursors[a].seen
      BY <1>2, <1>4, <1>5, <1>13 DEF seen, todo
    <2>2. /\ captured[a][m] \in {0, 1} /\ (captured[a][m] = 1 => m \in cursors[a].seen)
          /\ \A g \in Handlers : Capturing(g, a, m) =>
               /\ m \in cursors[a].seen /\ captured[a][m] = 0
               /\ \A other \in Handlers : Capturing(other, a, m) => other = g
      BY <2>1 DEF MarkInv, OnceInv
    <2> QED BY <1>8, <2>1, <2>2
  <1>14. OnceInv'
    BY <1>1, <1>2, <1>6, <1>13 DEF OnceInv
  <1> QED BY <1>9, <1>12, <1>14 DEF MarkInv

\* A message is captured by the request that took it up.
LEMMA CaptureMarks ==
  ASSUME TypeInv, MarkInv, NEW h \in Handlers, NEW m \in Names, Capture(h, m)
  PROVE  MarkInv'
  <1> DEFINE b == req[h].account
             next == IF req[h].todo = {m} THEN Idle ELSE [req[h] EXCEPT !.todo = @ \ {m}]
  <1>1. /\ req[h] = [at |-> "capture", account |-> b, todo |-> req[h].todo]
        /\ b \in Accounts /\ m \in req[h].todo
    BY DEF Capture, TypeInv, TasksForm, IsTask, IsFetch, Idle
  <1>2. /\ captured' = [captured EXCEPT ![b][m] = @ + 1]
        /\ UNCHANGED <<up, cursors, mailFile, mailDirty, lost, forgot>>
    BY DEF Capture, vaultVars
  <1>3. \A a \in Accounts, k \in Names :
          captured'[a][k] = IF a = b /\ k = m THEN captured[b][m] + 1 ELSE captured[a][k]
    BY <1>1, <1>2 DEF MarkInv, CursorsForm
  <1>4. captured' \in [Accounts -> [Names -> Nat]]
    BY <1>1, <1>2 DEF MarkInv, CursorsForm
  <1>5. /\ Capturing(h, b, m)
        /\ \A g \in Handlers : \A a, k : g # h => (Capturing(g, a, k)' <=> Capturing(g, a, k))
        /\ \A a, k : Capturing(h, a, k)' <=> (Capturing(h, a, k) /\ k # m)
    <2>1. Become(h, next)
      BY DEF Capture
    <2>2. req'[h] = next /\ \A g \in Handlers : g # h => req'[g] = req[g]
      BY <2>1 DEF Become, TypeInv, TasksForm
    <2>3. [req[h] EXCEPT !.todo = @ \ {m}] = [at |-> "capture", account |-> b, todo |-> req[h].todo \ {m}]
      BY <1>1
    <2>4. \A g \in Handlers : \A a, k : g # h => (Capturing(g, a, k)' <=> Capturing(g, a, k))
      BY <2>2 DEF Capturing
    <2>5. req[h].at = "capture"
      BY <1>1
    <2>6. \A a, k : Capturing(h, a, k)' <=> (Capturing(h, a, k) /\ k # m)
      <3>1. CASE req[h].todo = {m}
        BY <2>2, <3>1 DEF Capturing, Idle
      <3>2. CASE req[h].todo # {m}
        <4>1. req'[h].at = "capture" /\ req'[h].account = b /\ req'[h].todo = req[h].todo \ {m}
          BY <2>2, <2>3, <3>2
        <4> QED BY <2>5, <4>1 DEF Capturing
      <3> QED BY <3>1, <3>2
    <2> QED BY <1>1, <2>4, <2>5, <2>6 DEF Capturing
  <1>6. \A a, k : Capturing(h, a, k) => a = b
    BY DEF Capturing
  <1> HIDE DEF b, next
  <1>7. CursorsForm'
    BY <1>2, <1>4 DEF MarkInv, CursorsForm
  <1>8. SeenInv'
    <2>1. ASSUME NEW a \in Accounts, NEW k \in cursors[a].seen \cup mailFile.cursors[a].seen
          PROVE  \/ captured'[a][k] > 0 \/ <<a, k>> \in lost
                 \/ \E g \in Handlers : Capturing(g, a, k)'
      <3>1. k \in Names /\ captured[b][m] \in Nat /\ captured[a][k] \in Nat
        BY <1>1 DEF MarkInv, CursorsForm
      <3>2. \/ captured[a][k] > 0 \/ <<a, k>> \in lost
            \/ \E g \in Handlers : Capturing(g, a, k)
        BY <2>1 DEF MarkInv, SeenInv
      <3>3. CASE a = b /\ k = m
        BY <1>3, <3>1, <3>3
      <3>4. CASE ~(a = b /\ k = m)
        BY <1>3, <1>5, <1>6, <3>1, <3>2, <3>4
      <3> QED BY <3>3, <3>4
    <2> QED BY <1>2, <2>1 DEF SeenInv
  <1>9. ASSUME NEW a \in Accounts, a \notin forgot, NEW k \in Names
        PROVE  /\ captured'[a][k] \in {0, 1}
               /\ captured'[a][k] = 1 => k \in cursors[a].seen
               /\ \A g \in Handlers : Capturing(g, a, k)' =>
                    /\ k \in cursors[a].seen /\ captured'[a][k] = 0
                    /\ \A other \in Handlers : Capturing(other, a, k)' => other = g
    <2>1. /\ captured[a][k] \in {0, 1} /\ (captured[a][k] = 1 => k \in cursors[a].seen)
          /\ \A g \in Handlers : Capturing(g, a, k) =>
               /\ k \in cursors[a].seen /\ captured[a][k] = 0
               /\ \A other \in Handlers : Capturing(other, a, k) => other = g
      BY <1>9 DEF MarkInv, OnceInv
    <2>2. CASE a = b /\ k = m
      BY <1>3, <1>5, <2>1, <2>2
    <2>3. CASE ~(a = b /\ k = m)
      BY <1>3, <1>5, <2>1, <2>3
    <2> QED BY <2>2, <2>3
  <1>10. OnceInv'
    BY <1>2, <1>9 DEF MarkInv, OnceInv
  <1> QED BY <1>7, <1>8, <1>10 DEF MarkInv

LEMMA MarkStep == TypeInv /\ MarkInv /\ [Next]_vars => MarkInv'
  <1> SUFFICES ASSUME TypeInv, MarkInv, [Next]_vars PROVE MarkInv'
    OBVIOUS
  <1>1. ASSUME UNCHANGED <<up, cursors, captured, mailFile, mailDirty, lost, forgot, req>>
        PROVE  MarkInv'
    <2>1. \A g, a, m : Capturing(g, a, m)' <=> Capturing(g, a, m)
      BY <1>1 DEF Capturing
    <2> QED BY <1>1, <2>1, MarksStay
  <1>2. CASE UNCHANGED vars
    BY <1>1, <1>2 DEF vars, vaultVars, mailVars
  <1>3. CASE Tick /\ UNCHANGED mailVars
    BY <1>1, <1>3 DEF Tick, mailVars
  <1>4. ASSUME NEW a \in Accounts, Arrives(a) PROVE MarkInv'
    BY <1>1, <1>4 DEF Arrives, vaultVars
  <1>5. CASE UserStep
    <2>1. ASSUME NEW h \in Handlers, NEW a \in Accounts, NEW n \in 1..unlocks, NEW limit \in Limits,
                 StartSync(h, a, n, limit)
          PROVE  MarkInv'
      <3>1. UNCHANGED <<up, cursors, captured, mailFile, mailDirty, lost, forgot>> /\ req[h] = Idle
        BY <2>1 DEF StartSync
      <3>2. CASE UNCHANGED req
        BY <1>1, <3>1, <3>2
      <3>3. CASE Become(h, [at |-> "credential", account |-> a, limit |-> limit,
                            config |-> accounts[a], key |-> SessionKey(n)])
        BY <3>1, <3>3, NoCapture DEF Idle
      <3> QED BY <2>1, <3>2, <3>3 DEF StartSync, Become
    <2>2. ASSUME NEW h \in Handlers, NEW a \in Accounts, NEW via, NEW ms, StartImport(h, a, via, ms)
          PROVE  MarkInv'
      <3>1. UNCHANGED <<up, cursors, captured, mailFile, mailDirty, lost, forgot>> /\ req[h] = Idle
        BY <2>2 DEF StartImport, vaultVars
      <3>2. Become(h, [at |-> "import", account |-> a, fetched |-> Named(via, ms)])
        BY <2>2 DEF StartImport, Become
      <3> QED BY <3>1, <3>2, NoCapture DEF Idle
    <2>3. ASSUME NEW w \in Passwords, NEW in \in Inputs, NEW how \in Outcomes,
                 AddEntry(w, in, how), UNCHANGED mailVars
          PROVE  MarkInv'
      BY <1>1, <2>3 DEF AddEntry, mailVars
    <2>4. ASSUME NEW w \in Passwords, NEW ttl \in Ttls, Unlock(w, ttl), UNCHANGED mailVars
          PROVE  MarkInv'
      BY <1>1, <2>4 DEF Unlock, mailVars
    <2>5. CASE Fill /\ UNCHANGED mailVars
      BY <1>1, <2>5 DEF Fill, mailVars
    <2>6. ASSUME NEW a \in Accounts, NEW config \in Configs, NEW how \in Outcomes, UpsertAccount(a, config, how)
          PROVE  MarkInv'
      BY <2>6, UpsertMarks, Zenon
    <2> QED BY <1>5, <2>1, <2>2, <2>3, <2>4, <2>5, <2>6, Zenon DEF UserStep
  <1>6. ASSUME NEW h \in Handlers, HandlerStep(h) PROVE MarkInv'
    <2>0. \A r : Fetching(r).at = "fetch" /\ Idle.at = "idle" /\ \A ms : Fetched(r, ms).at = "import"
      BY DEF Fetching, Idle, Fetched
    <2>1. CASE ReadPassword(h)
      BY <2>0, <2>1, NoCapture DEF ReadPassword, vaultVars, mailKept
    <2>2. CASE ReadToken(h)
      <3>1. /\ req[h].at = "credential"
            /\ UNCHANGED <<up, cursors, captured, mailFile, mailDirty, lost, forgot>>
        BY <2>2 DEF ReadToken, vaultVars, mailKept
      <3>2. \E next : Become(h, next) /\ next.at # "capture"
        <4>1. \/ Become(h, Idle) \/ Become(h, Fetching(req[h]))
              \/ Become(h, [at |-> "refresh", current |-> entries[req[h].config.ref].secret,
                            id |-> req[h].config.ref, key |-> req[h].key, fetching |-> Fetching(req[h])])
          BY <2>2 DEF ReadToken, TokenState
        <4> QED BY <2>0, <4>1
      <3> QED BY <3>1, <3>2, NoCapture
    <2>3. CASE ProviderRefuses(h)
      BY <2>0, <2>3, NoCapture DEF ProviderRefuses, vaultVars, mailKept
    <2>4. CASE TokenRefused(h)
      BY <2>0, <2>4, NoCapture DEF TokenRefused, mailKept
    <2>5. CASE FetchImap(h)
      BY <2>0, <2>5, NoCapture DEF FetchImap, vaultVars, mailKept
    <2>6. CASE FetchProvider(h)
      BY <2>0, <2>6, NoCapture DEF FetchProvider, vaultVars, mailKept
    <2>7. ASSUME NEW rotates \in BOOLEAN, ProviderRefreshes(h, rotates) PROVE MarkInv'
      <3>1. /\ req[h].at = "refresh"
            /\ UNCHANGED <<up, cursors, captured, mailFile, mailDirty, lost, forgot>>
        BY <2>7 DEF ProviderRefreshes, mailKept
      <3>2. \E next : Become(h, next) /\ next.at # "capture"
        BY <2>7 DEF ProviderRefreshes
      <3> QED BY <3>1, <3>2, NoCapture
    <2>8. ASSUME NEW how \in Outcomes, StoreToken(h, how) PROVE MarkInv'
      <3>1. /\ req[h].at = "refreshed" /\ IsFetch(req[h].fetching)
            /\ UNCHANGED <<up, cursors, captured, mailFile, mailDirty, lost, forgot>>
        BY <2>8, Answered DEF StoreToken, mailKept
      <3>2. Become(h, Idle) \/ Become(h, req[h].fetching)
        BY <2>8 DEF StoreToken
      <3> QED BY <2>0, <3>1, <3>2, NoCapture DEF IsFetch
    <2>9. CASE Ends(h)
      <3>1. /\ UNCHANGED <<up, cursors, captured, mailFile, mailDirty, forgot>>
            /\ lost' = lost \cup LeftBehind(h) /\ Become(h, Idle)
        BY <2>9 DEF Ends
      <3>2. req'[h] = Idle /\ \A g \in Handlers : g # h => req'[g] = req[g]
        BY <3>1 DEF Become, TypeInv, TasksForm
      <3>3. \A g \in Handlers : \A a, m : Capturing(g, a, m)' => Capturing(g, a, m)
        BY <3>2 DEF Capturing, Idle
      <3>4. \A g \in Handlers : \A a \in Accounts : \A m :
              Capturing(g, a, m) => Capturing(g, a, m)' \/ <<a, m>> \in lost'
        BY <3>1, <3>2 DEF Capturing, LeftBehind
      <3> QED BY <3>1, <3>3, <3>4, MarksStay
    <2> QED BY <1>6, <2>1, <2>2, <2>3, <2>4, <2>5, <2>6, <2>7, <2>8, <2>9, PrepareMarks, CaptureMarks
            DEF HandlerStep
  <1>7. CASE Stop
    <2>1. /\ up' = FALSE /\ req' = [h \in Handlers |-> Idle]
          /\ lost' = lost \cup UNION {LeftBehind(h) : h \in Handlers}
          /\ forgot' = forgot \cup {a \in Accounts : mailDirty /\ cursors[a] # mailFile.cursors[a]}
          /\ UNCHANGED <<cursors, mailFile, mailDirty, captured>>
      BY <1>7 DEF Stop, StopVault
    <2>2. \A g \in Handlers : \A a, m : ~Capturing(g, a, m)'
      BY <2>1 DEF Capturing, Idle
    <2>3. \A g \in Handlers : \A a, m : Capturing(g, a, m) => <<a, m>> \in lost'
      BY <2>1 DEF Capturing, LeftBehind
    <2>4. CursorsForm'
      BY <2>1 DEF MarkInv, CursorsForm
    <2>5. SeenInv'
      BY <2>1, <2>3 DEF MarkInv, SeenInv
    <2>6. OnceInv'
      BY <2>1, <2>2 DEF MarkInv, OnceInv
    <2> QED BY <2>4, <2>5, <2>6 DEF MarkInv
  <1>8. CASE Boot
    <2>1. /\ ~up /\ cursors' = mailFile.cursors /\ mailDirty' = FALSE /\ up' = TRUE
          /\ UNCHANGED <<mailFile, req, captured, lost, forgot>>
      BY <1>8 DEF Boot, BootVault
    <2>2. \A g, a, m : Capturing(g, a, m)' <=> Capturing(g, a, m)
      BY <2>1 DEF Capturing
    <2>3. CursorsForm'
      BY <2>1 DEF MarkInv, CursorsForm
    <2>4. SeenInv'
      BY <2>1, <2>2 DEF MarkInv, SeenInv
    <2>5. OnceInv'
      BY <2>1, <2>2 DEF MarkInv, OnceInv
    <2> QED BY <2>3, <2>4, <2>5 DEF MarkInv
  <1> QED BY <1>2, <1>3, <1>4, <1>5, <1>6, <1>7, <1>8 DEF Next

-----------------------------------------------------------------------------
(* The APIs an account has used.                                            *)

\* A request keeps to the APIs its account has used when the account uses more.
LEMMA UsesMore ==
  ASSUME NEW n, NEW r, IsTask(r, n), NEW u, NEW v, \A a \in Accounts : u[a] \subseteq v[a], UsesOnly(r, u)
  PROVE  UsesOnly(r, v)
  <1>1. CASE r.at = "import" \/ r.at = "capture"
    BY <1>1 DEF UsesOnly, IsTask, IsFetch, Idle
  <1>2. CASE r.at = "refresh" \/ r.at = "refreshed"
    BY <1>2 DEF UsesOnly, IsTask, IsRefresh, IsFetch, Idle
  <1>3. CASE r.at = "credential" \/ r.at = "fetch"
    BY <1>3 DEF UsesOnly, IsTask, IsFetch, Idle
  <1> QED BY <1>1, <1>2, <1>3 DEF UsesOnly

UsesGrow == used' \in [Accounts -> SUBSET Sources] /\ \A a \in Accounts : used[a] \subseteq used'[a]

\* A step in which one handler goes on, and nothing is captured.
LEMMA UsesGoOn ==
  ASSUME TypeInv, UsedInv, NEW h \in Handlers, NEW next, Become(h, next), UsesOnly(next, used'),
         UsesGrow, UNCHANGED <<captured, accounts, mailFile>>
  PROVE  UsedInv'
  <1>1. req'[h] = next /\ \A g \in Handlers : g # h => req'[g] = req[g]
    BY DEF Become, TypeInv, TasksForm
  <1>2. \A g \in Handlers : UsesOnly(req[g], used')
    BY UsesMore DEF UsedInv, UsesGrow, TypeInv, TasksForm
  <1>3. \A g \in Handlers : UsesOnly(req'[g], used')
    BY <1>1, <1>2
  <1>4. \A a \in Accounts, via \in Sources, m \in Mail : captured'[a][<<via, m>>] > 0 => via \in used'[a]
    BY DEF UsedInv, UsesGrow
  <1>5. SetTo(accounts', used') /\ SetTo(mailFile'.accounts, used')
    BY DEF UsedInv, UsesGrow, SetTo
  <1> QED BY <1>3, <1>4, <1>5 DEF UsedInv, UsesGrow

\* A handler that goes on under the APIs used so far.
LEMMA UsesStay ==
  ASSUME TypeInv, UsedInv, NEW h \in Handlers, NEW next, Become(h, next), UsesOnly(next, used),
         UNCHANGED <<captured, accounts, mailFile, used>>
  PROVE  UsedInv'
  <1>1. UsesGrow
    BY DEF UsesGrow, UsedInv
  <1> QED BY <1>1, UsesGoOn

\* A write of email-sync.json leaves it set to APIs that were used.
LEMMA SavedUses ==
  ASSUME MailForm, NEW how \in Outcomes, Save(how), SetTo(accounts', used'), SetTo(mailFile.accounts, used')
  PROVE  SetTo(mailFile'.accounts, used')
  <1>1. SetTo(NoMail.accounts, used')
    BY DEF SetTo, NoMail
  <1> QED BY <1>1, Saves

\* An account is set to an API.
LEMMA UpsertUses ==
  ASSUME TypeInv, UsedInv, NEW a \in Accounts, NEW config \in Configs, NEW how \in Outcomes,
         UpsertAccount(a, config, how)
  PROVE  UsedInv'
  <1>1. /\ accounts' = [accounts EXCEPT ![a] = config] /\ Save(how)
        /\ used' = [used EXCEPT ![a] = @ \cup {config.provider}]
        /\ UNCHANGED <<captured, req>>
    BY DEF UpsertAccount
  <1>2. UsesGrow
    <2>1. config.provider \in Sources
      BY MailAssumption
    <2> QED BY <1>1, <2>1 DEF UsedInv, UsesGrow
  <1>3. \A g \in Handlers : UsesOnly(req'[g], used')
    BY <1>1, <1>2, UsesMore DEF UsedInv, UsesGrow, TypeInv, TasksForm
  <1>4. SetTo(accounts', used')
    BY <1>1, <1>2 DEF SetTo, UsedInv, UsesGrow, TypeInv, MailForm, Stored
  <1>5. SetTo(mailFile.accounts, used')
    BY <1>2 DEF SetTo, UsedInv, UsesGrow
  <1>6. SetTo(mailFile'.accounts, used')
    BY <1>1, <1>4, <1>5, SavedUses DEF TypeInv
  <1>7. \A b \in Accounts, via \in Sources, m \in Mail : captured'[b][<<via, m>>] > 0 => via \in used'[b]
    BY <1>1, <1>2 DEF UsedInv, UsesGrow
  <1> QED BY <1>2, <1>3, <1>4, <1>6, <1>7 DEF UsedInv, UsesGrow

\* A request starts with what its account is set to, or what it was handed.
LEMMA StartUses ==
  ASSUME TypeInv, UsedInv, NEW h \in Handlers, NEW a \in Accounts
  PROVE  /\ \A n, limit : StartSync(h, a, n, limit) => UsedInv'
         /\ \A via \in Sources : \A ms : ms \subseteq Mail /\ StartImport(h, a, via, ms) => UsedInv'
  <1>1. ASSUME NEW n, NEW limit, StartSync(h, a, n, limit) PROVE UsedInv'
    <2> DEFINE next == [at |-> "credential", account |-> a, limit |-> limit,
                        config |-> accounts[a], key |-> SessionKey(n)]
    <2>1. UNCHANGED <<captured, accounts, mailFile, used>>
      BY <1>1 DEF StartSync
    <2>2. CASE UNCHANGED req
      BY <2>1, <2>2 DEF UsedInv
    <2>3. CASE accounts[a] # NoAccount /\ Become(h, next)
      <3>1. UsesOnly(next, used)
        BY <2>3 DEF UsesOnly, UsedInv, SetTo
      <3> HIDE DEF next
      <3> QED BY <2>1, <2>3, <3>1, UsesStay
    <2> QED BY <1>1, <2>2, <2>3 DEF StartSync, Become
  <1>2. ASSUME NEW via \in Sources, NEW ms, ms \subseteq Mail, StartImport(h, a, via, ms) PROVE UsedInv'
    <2> DEFINE next == [at |-> "import", account |-> a, fetched |-> Named(via, ms)]
    <2>1. /\ Become(h, next) /\ used' = [used EXCEPT ![a] = @ \cup {via}]
          /\ UNCHANGED <<captured, accounts, mailFile>>
      BY <1>2 DEF StartImport, Become
    <2>2. UsesGrow /\ via \in used'[a]
      BY <2>1 DEF UsedInv, UsesGrow
    <2>3. UsesOnly(next, used')
      <3>1. Named(via, ms) \subseteq used'[a] \X Mail
        BY <1>2, <2>2 DEF Named
      <3> QED BY <3>1 DEF UsesOnly
    <2> HIDE DEF next
    <2> QED BY <2>1, <2>2, <2>3, UsesGoOn
  <1> QED BY <1>1, <1>2

\* Credentials, fetches and refreshes go on for the API the account was set to.
LEMMA HandlerUses ==
  ASSUME TypeInv, UsedInv, MarkInv, NEW h \in Handlers, HandlerStep(h)
  PROVE  UsedInv'
  <1> DEFINE r == req[h]
  <1>0. IsTask(r, minted) /\ UsesOnly(r, used) /\ Idle.at = "idle"
    BY DEF TypeInv, TasksForm, UsedInv, Idle
  <1>1. UsesOnly(Idle, used)
    BY <1>0 DEF UsesOnly
  <1>2. r.at = "credential" => UsesOnly(Fetching(r), used)
    BY <1>0 DEF UsesOnly, Fetching
  <1>3. CASE ReadPassword(h)
    BY <1>1, <1>2, <1>3, UsesStay DEF ReadPassword, mailKept
  <1>4. CASE ReadToken(h)
    <2> DEFINE task == [at |-> "refresh", current |-> entries[r.config.ref].secret, id |-> r.config.ref,
                        key |-> r.key, fetching |-> Fetching(r)]
    <2>1. r.at = "credential" /\ UNCHANGED <<captured, accounts, mailFile, used>>
      BY <1>4 DEF ReadToken, mailKept
    <2>2. UsesOnly(task, used)
      BY <1>0, <2>1 DEF UsesOnly, Fetching
    <2>3. Become(h, Idle) \/ Become(h, Fetching(r)) \/ Become(h, task)
      BY <1>4 DEF ReadToken, TokenState
    <2> HIDE DEF task, r
    <2> QED BY <1>1, <1>2, <2>1, <2>2, <2>3, UsesStay
  <1>5. CASE ProviderRefuses(h)
    BY <1>1, <1>5, UsesStay DEF ProviderRefuses, mailKept
  <1>6. CASE TokenRefused(h)
    BY <1>1, <1>6, UsesStay DEF TokenRefused, mailKept
  <1>7. ASSUME r.at = "fetch" PROVE UsesOnly(Fetched(r, Newest(mailbox[r.account], r.limit)), used)
    <2>1. r.provider \in used[r.account] /\ r.account \in Accounts
      BY <1>0, <1>7 DEF UsesOnly, IsTask, IsFetch, Idle
    <2>2. Newest(mailbox[r.account], r.limit) \subseteq Mail
      BY <2>1, Messages DEF TypeInv
    <2>3. Named(r.provider, Newest(mailbox[r.account], r.limit)) \subseteq used[r.account] \X Mail
      BY <2>1, <2>2 DEF Named
    <2> QED BY <2>3 DEF Fetched, UsesOnly
  <1>8. CASE FetchImap(h)
    BY <1>7, <1>8, UsesStay DEF FetchImap, mailKept
  <1>9. CASE FetchProvider(h)
    BY <1>1, <1>7, <1>9, UsesStay DEF FetchProvider, mailKept
  <1>10. ASSUME NEW rotates \in BOOLEAN, ProviderRefreshes(h, rotates) PROVE UsedInv'
    <2> DEFINE next == [at |-> "refreshed", id |-> r.id, key |-> r.key, current |-> r.current,
                        fetching |-> r.fetching,
                        refreshed |-> Applied(r.current, IF rotates THEN minted' ELSE 0)]
    <2>1. r.at = "refresh" /\ Become(h, next) /\ UNCHANGED <<captured, accounts, mailFile, used>>
      BY <1>10 DEF ProviderRefreshes, mailKept
    <2>2. UsesOnly(next, used)
      BY <1>0, <2>1 DEF UsesOnly
    <2> HIDE DEF next
    <2> QED BY <2>1, <2>2, UsesStay
  <1>11. ASSUME NEW how \in Outcomes, StoreToken(h, how) PROVE UsedInv'
    <2>1. r.at = "refreshed" /\ UNCHANGED <<captured, accounts, mailFile, used>>
      BY <1>11 DEF StoreToken, mailKept
    <2>2. UsesOnly(r.fetching, used)
      BY <1>0, <2>1 DEF UsesOnly, IsTask, IsRefresh, IsFetch, Idle
    <2>3. Become(h, Idle) \/ Become(h, r.fetching)
      BY <1>11 DEF StoreToken
    <2> HIDE DEF r
    <2> QED BY <1>1, <2>1, <2>2, <2>3, UsesStay
  <1>12. ASSUME NEW how \in Outcomes, PrepareImport(h, how) PROVE UsedInv'
    <2> DEFINE todo == Unseen(cursors[r.account], r.fetched)
               next == IF how = "done" /\ todo # {}
                       THEN [at |-> "capture", account |-> r.account, todo |-> todo] ELSE Idle
    <2>1. /\ r.at = "import" /\ Become(h, next) /\ Save(how)
          /\ UNCHANGED <<captured, accounts, used>>
      BY <1>12 DEF PrepareImport
    <2>2. UsesOnly(next, used)
      <3>1. todo \subseteq used[r.account] \X Mail
        BY <1>0, <2>1 DEF UsesOnly, Unseen
      <3> QED BY <1>1, <3>1 DEF UsesOnly
    <2>3. SetTo(accounts', used') /\ SetTo(mailFile'.accounts, used')
      <3>1. SetTo(accounts', used') /\ SetTo(mailFile.accounts, used')
        BY <2>1 DEF UsedInv
      <3> QED BY <2>1, <3>1, SavedUses DEF TypeInv
    <2>4. req'[h] = next /\ \A g \in Handlers : g # h => req'[g] = req[g]
      BY <2>1 DEF Become, TypeInv, TasksForm
    <2> HIDE DEF next, r
    <2>5. \A g \in Handlers : UsesOnly(req'[g], used')
      BY <2>1, <2>2, <2>4 DEF UsedInv
    <2> QED BY <2>1, <2>3, <2>5 DEF UsedInv
  <1>13. ASSUME NEW n \in Names, Capture(h, n) PROVE UsedInv'
    <2> DEFINE b == r.account
               next == IF r.todo = {n} THEN Idle ELSE [r EXCEPT !.todo = @ \ {n}]
    <2>1. /\ r = [at |-> "capture", account |-> b, todo |-> r.todo]
          /\ b \in Accounts /\ n \in r.todo
      BY <1>0, <1>13 DEF Capture, IsTask, IsFetch, Idle
    <2>2. /\ captured' = [captured EXCEPT ![b][n] = @ + 1]
          /\ Become(h, next) /\ UNCHANGED <<accounts, mailFile, used>>
      BY <1>13 DEF Capture
    <2>3. n \in used[b] \X Mail /\ r.todo \subseteq used[b] \X Mail
      BY <1>0, <2>1 DEF UsesOnly
    <2>4. UsesOnly(next, used)
      <3>1. [r EXCEPT !.todo = @ \ {n}] = [at |-> "capture", account |-> b, todo |-> r.todo \ {n}]
        BY <2>1
      <3>2. UsesOnly([at |-> "capture", account |-> b, todo |-> r.todo \ {n}], used)
        BY <2>3 DEF UsesOnly
      <3> QED BY <1>1, <3>1, <3>2
    <2>5. \A a \in Accounts, k \in Names : captured'[a][k] = captured[a][k] \/ (a = b /\ k = n)
      BY <2>1, <2>2 DEF MarkInv, CursorsForm
    <2>6. ASSUME NEW a \in Accounts, NEW via \in Sources, NEW m \in Mail, captured'[a][<<via, m>>] > 0
          PROVE  via \in used[a]
      <3>1. CASE captured'[a][<<via, m>>] = captured[a][<<via, m>>]
        BY <2>6, <3>1 DEF UsedInv
      <3>2. CASE a = b /\ <<via, m>> = n
        BY <2>3, <3>2
      <3>3. <<via, m>> \in Names
        BY DEF Names
      <3> QED BY <2>5, <3>1, <3>2, <3>3
    <2>7. req'[h] = next /\ \A g \in Handlers : g # h => req'[g] = req[g]
      BY <2>2 DEF Become, TypeInv, TasksForm
    <2> HIDE DEF next
    <2>8. \A g \in Handlers : UsesOnly(req'[g], used')
      BY <2>2, <2>4, <2>7 DEF UsedInv
    <2> QED BY <2>2, <2>6, <2>8 DEF UsedInv, SetTo
  <1>14. CASE Ends(h)
    BY <1>1, <1>14, UsesStay DEF Ends
  <1> HIDE DEF r
  <1> QED BY <1>3, <1>4, <1>5, <1>6, <1>8, <1>9, <1>10, <1>11, <1>12, <1>13, <1>14 DEF HandlerStep

LEMMA UsedStep == TypeInv /\ MarkInv /\ UsedInv /\ [Next]_vars => UsedInv'
  <1> SUFFICES ASSUME TypeInv, MarkInv, UsedInv, [Next]_vars PROVE UsedInv'
    OBVIOUS
  <1>1. ASSUME UNCHANGED <<accounts, mailFile, req, captured, used>> PROVE UsedInv'
    BY <1>1 DEF UsedInv
  <1>2. CASE UNCHANGED vars
    BY <1>1, <1>2 DEF vars, mailVars
  <1>3. CASE Tick /\ UNCHANGED mailVars
    BY <1>1, <1>3 DEF mailVars
  <1>4. ASSUME NEW a \in Accounts, Arrives(a) PROVE UsedInv'
    BY <1>1, <1>4 DEF Arrives
  <1>5. CASE UserStep
    <2>1. ASSUME UNCHANGED mailVars PROVE UsedInv'
      BY <1>1, <2>1 DEF mailVars
    <2>2. ASSUME NEW a \in Accounts, NEW config \in Configs, NEW how \in Outcomes, UpsertAccount(a, config, how)
          PROVE  UsedInv'
      BY <2>2, UpsertUses
    <2>3. ASSUME NEW h \in Handlers, NEW a \in Accounts, NEW n, NEW limit, StartSync(h, a, n, limit)
          PROVE  UsedInv'
      BY <2>3, StartUses
    <2>4. ASSUME NEW h \in Handlers, NEW a \in Accounts, NEW via \in Sources, NEW m \in mailbox[a],
                 StartImport(h, a, via, m..Cardinality(mailbox[a]))
          PROVE  UsedInv'
      <3>1. m..Cardinality(mailbox[a]) \subseteq Mail
        BY Messages DEF TypeInv
      <3> QED BY <2>4, <3>1, StartUses
    <2> QED BY <1>5, <2>1, <2>2, <2>3, <2>4, Zenon DEF UserStep
  <1>6. ASSUME NEW h \in Handlers, HandlerStep(h) PROVE UsedInv'
    BY <1>6, HandlerUses
  <1>7. CASE Stop
    <2>1. req' = [h \in Handlers |-> Idle] /\ UNCHANGED <<accounts, mailFile, captured, used>>
      BY <1>7 DEF Stop
    <2>2. \A h \in Handlers : UsesOnly(req'[h], used)
      BY <2>1 DEF UsesOnly, Idle
    <2> QED BY <2>1, <2>2 DEF UsedInv
  <1>8. CASE Boot
    BY <1>8 DEF Boot, UsedInv
  <1> QED BY <1>2, <1>3, <1>4, <1>5, <1>6, <1>7, <1>8 DEF Next

-----------------------------------------------------------------------------
(* The theorems.                                                            *)

MailInv == TypeInv /\ AckedInv /\ SavedInv /\ TokenInv /\ MarkInv /\ UsedInv

LEMMA MailInit == Init => MailInv
  <1> SUFFICES ASSUME Init PROVE MailInv
    OBVIOUS
  <1>1. TypeInv
    BY TypeInit
  <1>2. AckedInv /\ SavedInv
    BY DEF Init, VaultInit, AckedInv, SavedInv
  <1>3. TokenInv
    BY DEF Init, VaultInit, TokenInv, Idle
  <1>4. \A h \in Handlers : \A a, m : ~Capturing(h, a, m)
    BY DEF Init, Capturing, Idle
  <1>5. MarkInv
    <2>1. /\ cursors = [a \in Accounts |-> NewCursor] /\ mailFile.cursors = [a \in Accounts |-> NewCursor]
          /\ captured = [a \in Accounts |-> [n \in Names |-> 0]]
      BY DEF Init, NoMail
    <2> QED BY <1>4, <2>1 DEF MarkInv, CursorsForm, SeenInv, OnceInv, NewCursor
  <1>6. UsedInv
    <2>1. /\ used = [a \in Accounts |-> {}] /\ captured = [a \in Accounts |-> [n \in Names |-> 0]]
          /\ req = [h \in Handlers |-> Idle]
          /\ accounts = [a \in Accounts |-> NoAccount] /\ mailFile.accounts = accounts
      BY DEF Init, NoMail
    <2>2. \A h \in Handlers : UsesOnly(req[h], used)
      BY <2>1 DEF UsesOnly, Idle
    <2>3. \A a \in Accounts, via \in Sources, m \in Mail : captured[a][<<via, m>>] = 0
      BY <2>1 DEF Names
    <2>4. SetTo(accounts, used) /\ SetTo(mailFile.accounts, used)
      BY <2>1 DEF SetTo
    <2>5. ASSUME NEW a \in Accounts, NEW via \in Sources, NEW m \in Mail
          PROVE  ~(captured[a][<<via, m>>] > 0)
      <3>1. captured[a][<<via, m>>] = 0
        BY <2>3
      <3> QED BY <3>1
    <2>6. used \in [Accounts -> SUBSET Sources]
      BY <2>1
    <2> QED BY <2>2, <2>4, <2>5, <2>6 DEF UsedInv
  <1> QED BY <1>1, <1>2, <1>3, <1>5, <1>6 DEF MailInv

LEMMA MailStep == MailInv /\ [Next]_vars => MailInv'
  BY TypeStep, AckedStep, SavedStep, TokenStep, MarkStep, UsedStep DEF MailInv

LEMMA MailAlways == Spec => []MailInv
  BY MailInit, MailStep, PTL DEF Spec

\* A set of numbers has a least one.
LEMMA Least ==
  ASSUME NEW S, S \subseteq Nat, S # {}
  PROVE  \E n \in S : \A k \in S : n <= k
  <1>1. IsWellFoundedOn(OpToRel(<, Nat), Nat)
    BY NatLessThanWellFounded
  <1>2. \E n \in S : \A k \in S : ~(<<k, n>> \in OpToRel(<, Nat))
    BY <1>1, WFMin
  <1>3. \A k \in S, n \in S : k < n => <<k, n>> \in OpToRel(<, Nat)
    BY DEF OpToRel
  <1>4. \A k \in S, n \in S : k < n \/ n <= k
    OBVIOUS
  <1> QED BY <1>2, <1>3, <1>4, Zenon

\* A credential that was acknowledged answers for its hosts.
LEMMA Answers ==
  ASSUME AckedInv, NEW s, NEW host, FillAnswer(entries, s, host) = "refused"
  PROVE  \E id \in FillFor(entries, host) :
           \/ acked[id] = Unsure \/ id \in stale
           \/ acked[id].password # s \/ acked[id].secret.kind # "Password"
  <1> DEFINE ids == FillFor(entries, host)
             id == CHOOSE i \in ids : \A other \in ids : i <= other
  <1>1. ids # {} /\ ~Usable(entries[id], s, "Password")
    BY DEF FillAnswer
  <1>2. ids \subseteq Nat
    BY VaultAssumption DEF FillFor, Present
  <1>3. id \in ids
    BY <1>1, <1>2, Least
  <1> HIDE DEF id
  <1>4. id \in Ids /\ entries[id] # Absent /\ entries[id].kind = "Password"
    BY <1>3 DEF FillFor, Present
  <1>5. acked[id] # Unsure /\ id \notin stale => AsAcked(entries[id], acked[id])
    BY <1>4 DEF AckedInv
  <1> QED BY <1>1, <1>3, <1>4, <1>5 DEF Usable, AsAcked, Opens

\* vault.rs: what an add answered Ok put into the vault opens with the password it
\* was added with, before a restart and after it, and a session is refused a
\* credential for a host only for an entry of another password or kind.
THEOREM EntriesStayOpen == Spec => []EntriesOpen
  <1>1. MailInv => EntriesOpen
    <2> SUFFICES ASSUME MailInv PROVE EntriesOpen
      OBVIOUS
    <2>1. AckedInv /\ VaultTypeOK
      BY DEF MailInv, TypeInv, VaultForm
    <2>2. AckedEntriesOpen
      BY <2>1 DEF AckedEntriesOpen, AckedInv, AsAcked
    <2>3. FillsAnswered
      BY <2>1, Answers DEF FillsAnswered
    <2> QED BY <2>1, <2>2, <2>3 DEF EntriesOpen
  <1> QED BY <1>1, MailAlways, PTL

\* email_sync.rs: the vault holds the refresh token the provider accepts, or a
\* request is about to store it, whatever requests refresh it at once, but for
\* what a fault lost or a refresh that had read an older entry wrote over.
THEOREM TokensAreKept == Spec => []RefreshTokenKept
  <1>1. MailInv => RefreshTokenKept
    BY DEF MailInv, TokenInv, RefreshTokenKept
  <1> QED BY <1>1, MailAlways, PTL

\* email_sync.rs: a message a cursor calls seen is captured, is about to be, or was
\* cut off by a fault; it is captured once under each id while its account's
\* cursor has dropped nothing, however many requests import the account at once,
\* and under the ids of the APIs the account has used and of no others.
THEOREM MailImportedOnce == Spec => []ImportedOnce
  <1>1. MailInv => ImportedOnce
    <2> SUFFICES ASSUME MailInv PROVE ImportedOnce
      OBVIOUS
    <2>1. MessagesAccounted
      BY DEF MailInv, MarkInv, SeenInv, Capturing, MessagesAccounted
    <2>2. ASSUME NEW a \in Accounts, a \notin forgot, NEW n \in Names
          PROVE  TimesTaken(a, n) <= 1
      <3> DEFINE Takers == {h \in Handlers : req[h].at = "capture" /\ req[h].account = a /\ n \in req[h].todo}
      <3>1. /\ captured[a][n] \in {0, 1}
            /\ \A h \in Takers : captured[a][n] = 0 /\ \A other \in Takers : other = h
        BY <2>2 DEF MailInv, MarkInv, OnceInv, Capturing
      <3>2. TimesTaken(a, n) = captured[a][n] + Cardinality(Takers)
        BY DEF TimesTaken
      <3>3. CASE Takers = {}
        <4>1. Cardinality(Takers) = 0
          BY <3>3, FS_EmptySet
        <4> HIDE DEF Takers
        <4> QED BY <3>1, <3>2, <4>1
      <3>4. ASSUME NEW h \in Takers PROVE TimesTaken(a, n) <= 1
        <4>1. Takers = {h} /\ captured[a][n] = 0
          BY <3>1, <3>4
        <4> HIDE DEF Takers
        <4>2. Cardinality(Takers) = 1
          BY <4>1, FS_Singleton
        <4> QED BY <3>2, <4>1, <4>2
      <3> QED BY <3>3, <3>4
    <2>3. ASSUME NEW a \in Accounts, NEW via \in Sources, NEW m \in Mail
          PROVE  /\ a \notin forgot => TimesTaken(a, <<via, m>>) <= 1
                 /\ captured[a][<<via, m>>] > 0 => via \in used[a]
      <3>1. <<via, m>> \in Names
        BY DEF Names
      <3> QED BY <2>2, <3>1 DEF MailInv, UsedInv
    <2>4. TwiceOnlyIfForgotten
      BY <2>3 DEF TwiceOnlyIfForgotten
    <2> QED BY <2>1, <2>4 DEF ImportedOnce
  <1> QED BY <1>1, MailAlways, PTL


-----------------------------------------------------------------------------
(* Formats. *)

\* A set of numbers that is not empty has a least one.
LEMMA LeastNumber ==
  ASSUME NEW S, S \subseteq Nat, S # {}
  PROVE  \E n \in S : \A k \in S : n <= k
  <1>1. IsWellFoundedOn(OpToRel(<, Nat), Nat)
    BY NatLessThanWellFounded
  <1>2. \E n \in S : \A k \in S : ~(<<k, n>> \in OpToRel(<, Nat))
    BY <1>1, WFMin
  <1>3. \A k \in S, n \in S : k < n => <<k, n>> \in OpToRel(<, Nat)
    BY DEF OpToRel
  <1>4. \A k \in S, n \in S : k < n \/ n <= k
    OBVIOUS
  <1> QED BY <1>2, <1>3, <1>4, Zenon

\* A set that has the first number, and with each the next, has them all.
LEMMA NumberInduction ==
  ASSUME NEW first \in Nat, NEW last \in Nat, NEW S, first \in S,
         \A n \in first..last : n \in S /\ n < last => n + 1 \in S
  PROVE  \A n \in first..last : n \in S
  <1> DEFINE bad == {n \in first..last : n \notin S}
  <1>1. CASE bad = {}
    BY <1>1
  <1>2. CASE bad # {}
    <2>1. bad \subseteq Nat
      OBVIOUS
    <2>2. PICK n \in bad : \A k \in bad : n <= k
      BY <1>2, <2>1, LeastNumber
    <2>3. n \in first..last /\ n \notin S /\ n # first
      BY <2>2
    <2>4. n - 1 \in first..last /\ n - 1 \notin bad /\ n - 1 < last
      BY <2>2, <2>3
    <2> QED BY <2>3, <2>4
  <1> QED BY <1>1, <1>2

-----------------------------------------------------------------------------
(* Readers, step by step. *)

\* The decoding of a secret, character by character.
LEMMA DecodeStates ==
  ASSUME NEW chars, Len(chars) \in Nat
  PROVE  /\ Decodings(chars)[0] = Undecoded
         /\ \A n \in 1..Len(chars) : Decodings(chars)[n] = Shifted(Decodings(chars)[n - 1], chars[n])
  <1> DEFINE IsRun(f, n) == f = [k \in 0..n |-> IF k = 0 THEN Undecoded ELSE Shifted(f[k - 1], chars[k])]
             S == {n \in Nat : \E f : IsRun(f, n)}
  <1>1. 0 \in S
    <2>1. IsRun([k \in 0..0 |-> Undecoded], 0)
      OBVIOUS
    <2> QED BY <2>1
  <1>2. ASSUME NEW n \in S PROVE n + 1 \in S
    <2>1. PICK f : IsRun(f, n)
      OBVIOUS
    <2> DEFINE next == Shifted(f[n], chars[n + 1])
               g == [k \in 0..(n + 1) |-> IF k <= n THEN f[k] ELSE next]
    <2>2. \A k \in 0..n : f[k] = IF k = 0 THEN Undecoded ELSE Shifted(f[k - 1], chars[k])
      BY <2>1
    <2>3. \A k \in 0..(n + 1) : g[k] = IF k = 0 THEN Undecoded ELSE Shifted(g[k - 1], chars[k])
      <3> SUFFICES ASSUME NEW k \in 0..(n + 1) PROVE g[k] = IF k = 0 THEN Undecoded ELSE Shifted(g[k - 1], chars[k])
        OBVIOUS
      <3>1. CASE k <= n
        <4>1. g[k] = f[k] /\ (k # 0 => g[k - 1] = f[k - 1])
          BY <3>1
        <4> QED BY <2>2, <3>1, <4>1
      <3>2. CASE k = n + 1
        <4>1. g[k] = next /\ g[k - 1] = f[n] /\ k # 0
          BY <3>2
        <4>2. next = Shifted(f[n], chars[k])
          BY <3>2
        <4> HIDE DEF next, g
        <4> QED BY <4>1, <4>2
      <3> QED BY <3>1, <3>2
    <2> HIDE DEF next
    <2>4. IsRun(g, n + 1)
      <3>1. g = [k \in 0..(n + 1) |-> g[k]]
        OBVIOUS
      <3> HIDE DEF g
      <3> QED BY <2>3, <3>1
    <2> HIDE DEF IsRun, g
    <2> QED BY <2>4
  <1>3. Len(chars) \in S
    <2>1. \A n \in 0..Len(chars) : n \in S
      <3> HIDE DEF S
      <3> QED BY <1>1, <1>2, NumberInduction
    <2> QED BY <2>1
  <1>4. IsRun(Decodings(chars), Len(chars))
    <2>1. Decodings(chars) = CHOOSE f : IsRun(f, Len(chars))
      BY DEF Decodings
    <2>2. \E f : IsRun(f, Len(chars))
      BY <1>3
    <2> HIDE DEF IsRun
    <2> QED BY <2>1, <2>2
  <1> QED BY <1>4

\* The decoding of text, byte by byte.
LEMMA LossyStates ==
  ASSUME NEW bytes, Len(bytes) \in Nat
  PROVE  /\ Lossy(bytes)[0] = None
         /\ \A n \in 1..Len(bytes) : Lossy(bytes)[n] = Push(Lossy(bytes)[n - 1], bytes[n])
  <1> DEFINE IsRun(f, n) == f = [k \in 0..n |-> IF k = 0 THEN None ELSE Push(f[k - 1], bytes[k])]
             S == {n \in Nat : \E f : IsRun(f, n)}
  <1>1. 0 \in S
    <2>1. IsRun([k \in 0..0 |-> None], 0)
      OBVIOUS
    <2> QED BY <2>1
  <1>2. ASSUME NEW n \in S PROVE n + 1 \in S
    <2>1. PICK f : IsRun(f, n)
      OBVIOUS
    <2> DEFINE next == Push(f[n], bytes[n + 1])
               g == [k \in 0..(n + 1) |-> IF k <= n THEN f[k] ELSE next]
    <2>2. \A k \in 0..n : f[k] = IF k = 0 THEN None ELSE Push(f[k - 1], bytes[k])
      BY <2>1
    <2>3. \A k \in 0..(n + 1) : g[k] = IF k = 0 THEN None ELSE Push(g[k - 1], bytes[k])
      <3> SUFFICES ASSUME NEW k \in 0..(n + 1) PROVE g[k] = IF k = 0 THEN None ELSE Push(g[k - 1], bytes[k])
        OBVIOUS
      <3>1. CASE k <= n
        <4>1. g[k] = f[k] /\ (k # 0 => g[k - 1] = f[k - 1])
          BY <3>1
        <4> QED BY <2>2, <3>1, <4>1
      <3>2. CASE k = n + 1
        <4>1. g[k] = next /\ g[k - 1] = f[n] /\ k # 0
          BY <3>2
        <4>2. next = Push(f[n], bytes[k])
          BY <3>2
        <4> HIDE DEF next, g
        <4> QED BY <4>1, <4>2
      <3> QED BY <3>1, <3>2
    <2> HIDE DEF next
    <2>4. IsRun(g, n + 1)
      <3>1. g = [k \in 0..(n + 1) |-> g[k]]
        OBVIOUS
      <3> HIDE DEF g
      <3> QED BY <2>3, <3>1
    <2> HIDE DEF IsRun, g
    <2> QED BY <2>4
  <1>3. Len(bytes) \in S
    <2>1. \A n \in 0..Len(bytes) : n \in S
      <3> HIDE DEF S
      <3> QED BY <1>1, <1>2, NumberInduction
    <2> QED BY <2>1
  <1>4. IsRun(Lossy(bytes), Len(bytes))
    <2>1. Lossy(bytes) = CHOOSE f : IsRun(f, Len(bytes))
      BY DEF Lossy
    <2>2. \E f : IsRun(f, Len(bytes))
      BY <1>3
    <2> HIDE DEF IsRun
    <2> QED BY <2>1, <2>2
  <1> QED BY <1>4

\* The reading of a response, line by line.
LEMMA RoundStates ==
  ASSUME NEW wire, Len(wire) \in Nat
  PROVE  /\ Rounds(wire)[0] = Unread
         /\ \A n \in 1..Len(wire) : Rounds(wire)[n] = ReadLine(wire, Rounds(wire)[n - 1])
  <1> DEFINE IsRun(f, n) == f = [k \in 0..n |-> IF k = 0 THEN Unread ELSE ReadLine(wire, f[k - 1])]
             S == {n \in Nat : \E f : IsRun(f, n)}
  <1>1. 0 \in S
    <2>1. IsRun([k \in 0..0 |-> Unread], 0)
      OBVIOUS
    <2> QED BY <2>1
  <1>2. ASSUME NEW n \in S PROVE n + 1 \in S
    <2>1. PICK f : IsRun(f, n)
      OBVIOUS
    <2> DEFINE next == ReadLine(wire, f[n])
               g == [k \in 0..(n + 1) |-> IF k <= n THEN f[k] ELSE next]
    <2>2. \A k \in 0..n : f[k] = IF k = 0 THEN Unread ELSE ReadLine(wire, f[k - 1])
      BY <2>1
    <2>3. \A k \in 0..(n + 1) : g[k] = IF k = 0 THEN Unread ELSE ReadLine(wire, g[k - 1])
      <3> SUFFICES ASSUME NEW k \in 0..(n + 1) PROVE g[k] = IF k = 0 THEN Unread ELSE ReadLine(wire, g[k - 1])
        OBVIOUS
      <3>1. CASE k <= n
        <4>1. g[k] = f[k] /\ (k # 0 => g[k - 1] = f[k - 1])
          BY <3>1
        <4> QED BY <2>2, <3>1, <4>1
      <3>2. CASE k = n + 1
        <4>1. g[k] = next /\ g[k - 1] = f[n] /\ k # 0
          BY <3>2
        <4>2. next = ReadLine(wire, f[n])
          BY <3>2
        <4> HIDE DEF next, g
        <4> QED BY <4>1, <4>2
      <3> QED BY <3>1, <3>2
    <2> HIDE DEF next
    <2>4. IsRun(g, n + 1)
      <3>1. g = [k \in 0..(n + 1) |-> g[k]]
        OBVIOUS
      <3> HIDE DEF g
      <3> QED BY <2>3, <3>1
    <2> HIDE DEF IsRun, g
    <2> QED BY <2>4
  <1>3. Len(wire) \in S
    <2>1. \A n \in 0..Len(wire) : n \in S
      <3> HIDE DEF S
      <3> QED BY <1>1, <1>2, NumberInduction
    <2> QED BY <2>1
  <1>4. IsRun(Rounds(wire), Len(wire))
    <2>1. Rounds(wire) = CHOOSE f : IsRun(f, Len(wire))
      BY DEF Rounds
    <2>2. \E f : IsRun(f, Len(wire))
      BY <1>3
    <2> HIDE DEF IsRun
    <2> QED BY <2>1, <2>2
  <1> QED BY <1>4

\* The cutting of a response, literal by literal.
LEMMA CutStates ==
  ASSUME NEW response, Len(response) \in Nat
  PROVE  /\ Cuts(response)[0] = Uncut
         /\ \A n \in 1..Len(response) : Cuts(response)[n] = CutLiteral(response, Cuts(response)[n - 1])
  <1> DEFINE IsRun(f, n) == f = [k \in 0..n |-> IF k = 0 THEN Uncut ELSE CutLiteral(response, f[k - 1])]
             S == {n \in Nat : \E f : IsRun(f, n)}
  <1>1. 0 \in S
    <2>1. IsRun([k \in 0..0 |-> Uncut], 0)
      OBVIOUS
    <2> QED BY <2>1
  <1>2. ASSUME NEW n \in S PROVE n + 1 \in S
    <2>1. PICK f : IsRun(f, n)
      OBVIOUS
    <2> DEFINE next == CutLiteral(response, f[n])
               g == [k \in 0..(n + 1) |-> IF k <= n THEN f[k] ELSE next]
    <2>2. \A k \in 0..n : f[k] = IF k = 0 THEN Uncut ELSE CutLiteral(response, f[k - 1])
      BY <2>1
    <2>3. \A k \in 0..(n + 1) : g[k] = IF k = 0 THEN Uncut ELSE CutLiteral(response, g[k - 1])
      <3> SUFFICES ASSUME NEW k \in 0..(n + 1) PROVE g[k] = IF k = 0 THEN Uncut ELSE CutLiteral(response, g[k - 1])
        OBVIOUS
      <3>1. CASE k <= n
        <4>1. g[k] = f[k] /\ (k # 0 => g[k - 1] = f[k - 1])
          BY <3>1
        <4> QED BY <2>2, <3>1, <4>1
      <3>2. CASE k = n + 1
        <4>1. g[k] = next /\ g[k - 1] = f[n] /\ k # 0
          BY <3>2
        <4>2. next = CutLiteral(response, f[n])
          BY <3>2
        <4> HIDE DEF next, g
        <4> QED BY <4>1, <4>2
      <3> QED BY <3>1, <3>2
    <2> HIDE DEF next
    <2>4. IsRun(g, n + 1)
      <3>1. g = [k \in 0..(n + 1) |-> g[k]]
        OBVIOUS
      <3> HIDE DEF g
      <3> QED BY <2>3, <3>1
    <2> HIDE DEF IsRun, g
    <2> QED BY <2>4
  <1>3. Len(response) \in S
    <2>1. \A n \in 0..Len(response) : n \in S
      <3> HIDE DEF S
      <3> QED BY <1>1, <1>2, NumberInduction
    <2> QED BY <2>1
  <1>4. IsRun(Cuts(response), Len(response))
    <2>1. Cuts(response) = CHOOSE f : IsRun(f, Len(response))
      BY DEF Cuts
    <2>2. \E f : IsRun(f, Len(response))
      BY <1>3
    <2> HIDE DEF IsRun
    <2> QED BY <2>1, <2>2
  <1> QED BY <1>4

-----------------------------------------------------------------------------
(* Dates.                                                                   *)

\* The days of the years that begin in a March, up to one.
MarchYears(z) == LET yoe == z - (z \div 400) * 400
                 IN (z \div 400) * 146097 + yoe * 365 + yoe \div 4 - yoe \div 100

\* Such a year has 365 days, and one more if it ends with a leap day.
LEMMA MarchStep ==
  ASSUME NEW z \in Nat
  PROVE  MarchYears(z + 1) = MarchYears(z) + (IF IsLeap(z + 1) THEN 366 ELSE 365)
  <1>1. PICK e \in Nat, r \in 0..399 : z = 400 * e + r
    <2>1. z \div 400 \in Nat /\ z % 400 \in 0..399 /\ z = 400 * (z \div 400) + (z % 400)
      OBVIOUS
    <2> QED BY <2>1
  <1>2. z \div 400 = e /\ z - e * 400 = r
    BY <1>1
  <1>3. MarchYears(z) = e * 146097 + r * 365 + r \div 4 - r \div 100
    BY <1>2 DEF MarchYears
  <1>4. CASE r = 399
    <2>1. z + 1 = 400 * (e + 1)
      BY <1>1, <1>4
    <2>2. (z + 1) \div 400 = e + 1 /\ (z + 1) - (e + 1) * 400 = 0
      BY <2>1
    <2>3. MarchYears(z + 1) = (e + 1) * 146097
      BY <2>2 DEF MarchYears
    <2>4. IsLeap(z + 1)
      BY <2>1 DEF IsLeap
    <2>5. 399 \div 4 = 99 /\ 399 \div 100 = 3
      OBVIOUS
    <2> QED BY <1>3, <1>4, <2>3, <2>4, <2>5
  <1>5. CASE r < 399
    <2>1. r + 1 \in 1..399 /\ z + 1 = 400 * e + (r + 1)
      BY <1>1, <1>5
    <2>2. (z + 1) \div 400 = e /\ (z + 1) - e * 400 = r + 1
      BY <2>1
    <2>3. MarchYears(z + 1) = e * 146097 + (r + 1) * 365 + (r + 1) \div 4 - (r + 1) \div 100
      BY <2>2 DEF MarchYears
    <2>4. IsLeap(z + 1) <=> (r + 1) % 4 = 0 /\ (r + 1) % 100 # 0
      <3>1. (z + 1) % 4 = (r + 1) % 4 /\ (z + 1) % 100 = (r + 1) % 100 /\ (z + 1) % 400 = r + 1
        BY <2>1
      <3> QED BY <2>1, <3>1 DEF IsLeap
    <2>5. (r + 1) \div 4 = r \div 4 + (IF (r + 1) % 4 = 0 THEN 1 ELSE 0)
      OBVIOUS
    <2>6. (r + 1) \div 100 = r \div 100 + (IF (r + 1) % 100 = 0 THEN 1 ELSE 0)
      OBVIOUS
    <2>7. (r + 1) % 100 = 0 => (r + 1) % 4 = 0
      OBVIOUS
    <2>8. r \div 4 \in Nat /\ r \div 100 \in Nat
      OBVIOUS
    <2> QED BY <1>3, <2>1, <2>3, <2>4, <2>5, <2>6, <2>7, <2>8
  <1> QED BY <1>4, <1>5

\* The day of the year, counted from the first of March, at the first of a month.
DaysBefore(month) == (153 * (month + IF month > 2 THEN 0 - 3 ELSE 9) + 2) \div 5

\* A date by the year that begins in a March, the month and the day.
LEMMA DateParts ==
  ASSUME NEW y \in Nat, y > 0, NEW m \in 1..12, NEW dd \in Nat
  PROVE  DaysFromCivil(y, m, dd) = MarchYears(IF m <= 2 THEN y - 1 ELSE y) + DaysBefore(m) + dd - 719469
  <1> DEFINE z == IF m <= 2 THEN y - 1 ELSE y
             yoe == z - (z \div 400) * 400
  <1>1. z \in Nat
    OBVIOUS
  <1>2. DaysFromCivil(y, m, dd) =
          (z \div 400) * 146097 + (yoe * 365 + yoe \div 4 - yoe \div 100 + (DaysBefore(m) + dd - 1)) - 719468
    BY DEF DaysFromCivil, DaysBefore
  <1>3. MarchYears(z) = (z \div 400) * 146097 + yoe * 365 + yoe \div 4 - yoe \div 100
    BY DEF MarchYears
  <1>4. DaysBefore(m) \in Nat
    BY DEF DaysBefore
  <1>5. z \div 400 \in Int /\ yoe \in Int /\ yoe \div 4 \in Int /\ yoe \div 100 \in Int
    <2>1. z \div 400 \in Int
      BY <1>1
    <2> HIDE DEF z
    <2>2. yoe \in Int
      BY <1>1, <2>1
    <2> HIDE DEF yoe
    <2> QED BY <2>1, <2>2
  <1> HIDE DEF yoe, z
  <1>6. MarchYears(z) + DaysBefore(m) + dd - 719469 =
          (z \div 400) * 146097 + (yoe * 365 + yoe \div 4 - yoe \div 100 + (DaysBefore(m) + dd - 1)) - 719468
    BY <1>3, <1>4, <1>5
  <1> QED BY <1>2, <1>6 DEF z

\* The next day has the next number.
LEMMA NextNumber ==
  ASSUME NEW y \in Nat, y > 0, NEW m \in 1..12, NEW dd \in Nat
  PROVE  /\ DaysFromCivil(y, m, dd + 1) = DaysFromCivil(y, m, dd) + 1
         /\ m = 12 => DaysFromCivil(y + 1, 1, 1) = DaysFromCivil(y, 12, 31) + 1
         /\ m < 12 => DaysFromCivil(y, m + 1, 1) = DaysFromCivil(y, m, MonthLength(y, m)) + 1
  <1>1. \A n \in Nat : MarchYears(n) \in Int
    <2> SUFFICES ASSUME NEW n \in Nat PROVE MarchYears(n) \in Int
      OBVIOUS
    <2>1. n \div 400 \in Int
      OBVIOUS
    <2>2. n - (n \div 400) * 400 \in Int
      BY <2>1
    <2> QED BY <2>1, <2>2 DEF MarchYears
  <1>2. /\ DaysBefore(3) = 0 /\ DaysBefore(4) = 31 /\ DaysBefore(5) = 61 /\ DaysBefore(6) = 92 /\ DaysBefore(7) = 122
        /\ DaysBefore(8) = 153 /\ DaysBefore(9) = 184 /\ DaysBefore(10) = 214 /\ DaysBefore(11) = 245 /\ DaysBefore(12) = 275
        /\ DaysBefore(1) = 306 /\ DaysBefore(2) = 337
    BY DEF DaysBefore
  <1>3. \A k \in 1..12 : DaysBefore(k) \in Nat
    BY DEF DaysBefore
  <1>4. DaysFromCivil(y, m, dd + 1) = DaysFromCivil(y, m, dd) + 1
    <2>1. PICK z \in Nat : z = IF m <= 2 THEN y - 1 ELSE y
      OBVIOUS
    <2>2. DaysFromCivil(y, m, dd + 1) = MarchYears(z) + DaysBefore(m) + (dd + 1) - 719469
      BY <2>1, DateParts
    <2>3. DaysFromCivil(y, m, dd) = MarchYears(z) + DaysBefore(m) + dd - 719469
      BY <2>1, DateParts
    <2> QED BY <1>1, <1>3, <2>2, <2>3
  <1>5. ASSUME m = 12 PROVE DaysFromCivil(y + 1, 1, 1) = DaysFromCivil(y, 12, 31) + 1
    <2>1. DaysFromCivil(y + 1, 1, 1) = MarchYears(y) + DaysBefore(1) + 1 - 719469
      <3>1. (y + 1) - 1 = y /\ y + 1 \in Nat /\ y + 1 > 0
        OBVIOUS
      <3> QED BY <3>1, DateParts
    <2>2. DaysFromCivil(y, 12, 31) = MarchYears(y) + DaysBefore(12) + 31 - 719469
      BY DateParts
    <2> QED BY <1>1, <1>2, <2>1, <2>2
  <1>6. ASSUME m < 12 PROVE DaysFromCivil(y, m + 1, 1) = DaysFromCivil(y, m, MonthLength(y, m)) + 1
    <2>1. MonthLength(y, m) \in Nat
      BY DEF MonthLength
    <2>2. CASE m # 2
      <3>1. PICK z \in Nat : z = (IF m <= 2 THEN y - 1 ELSE y) /\ z = (IF m + 1 <= 2 THEN y - 1 ELSE y)
        BY <2>2
      <3>2. DaysFromCivil(y, m + 1, 1) = MarchYears(z) + DaysBefore(m + 1) + 1 - 719469
        <4>1. m + 1 \in 1..12
          BY <1>6
        <4> QED BY <3>1, <4>1, DateParts
      <3>3. DaysFromCivil(y, m, MonthLength(y, m)) = MarchYears(z) + DaysBefore(m) + MonthLength(y, m) - 719469
        BY <2>1, <3>1, DateParts
      <3>4. DaysBefore(m + 1) = DaysBefore(m) + MonthLength(y, m)
        <4>1. m \in {1, 3, 4, 5, 6, 7, 8, 9, 10, 11}
          BY <1>6, <2>2
        <4> QED BY <1>2, <4>1 DEF MonthLength
      <3>5. DaysBefore(m) \in Nat /\ DaysBefore(m + 1) \in Nat /\ MarchYears(z) \in Int
        BY <1>1, <1>3, <1>6
      <3> QED BY <2>1, <3>2, <3>3, <3>4, <3>5
    <2>3. CASE m = 2
      <3>1. DaysFromCivil(y, 3, 1) = MarchYears(y) + DaysBefore(3) + 1 - 719469
        BY DateParts
      <3>2. DaysFromCivil(y, 2, MonthLength(y, 2)) = MarchYears(y - 1) + DaysBefore(2) + MonthLength(y, 2) - 719469
        BY <2>1, <2>3, DateParts
      <3>3. MarchYears(y) = MarchYears(y - 1) + (IF IsLeap(y) THEN 366 ELSE 365)
        <4>1. y - 1 \in Nat /\ (y - 1) + 1 = y
          OBVIOUS
        <4> QED BY <4>1, MarchStep
      <3>4. MonthLength(y, 2) = IF IsLeap(y) THEN 29 ELSE 28
        BY DEF MonthLength
      <3>5. MarchYears(y - 1) \in Int /\ MarchYears(y) \in Int
        BY <1>1
      <3> QED BY <1>2, <2>3, <3>1, <3>2, <3>3, <3>4, <3>5
    <2> QED BY <2>2, <2>3
  <1> QED BY <1>4, <1>5, <1>6

\* A year starts where the code says.
LEMMA YearStarts ==
  ASSUME NEW y \in Nat, y >= 1970
  PROVE  YearStart(y) \in Nat /\ YearStart(y) = DaysFromCivil(y, 1, 1)
  <1> DEFINE Leaps(n) == {k \in 1970..(n - 1) : IsLeap(k)}
             S == {n \in Nat : n >= 1970 => YearStart(n) \in Nat /\ YearStart(n) = DaysFromCivil(n, 1, 1)}
  <1>1. \A n \in Nat : IsFiniteSet(Leaps(n)) /\ Cardinality(Leaps(n)) \in Nat
    <2> SUFFICES ASSUME NEW n \in Nat PROVE IsFiniteSet(Leaps(n)) /\ Cardinality(Leaps(n)) \in Nat
      OBVIOUS
    <2>1. IsFiniteSet(1970..(n - 1))
      <3>1. 1970 \in Int /\ n - 1 \in Int
        OBVIOUS
      <3> QED BY <3>1, FS_Interval
    <2>2. Leaps(n) \subseteq 1970..(n - 1)
      OBVIOUS
    <2> QED BY <2>1, <2>2, FS_Subset, FS_CardinalityType
  <1>2. 1970 \in S
    <2>1. Leaps(1970) = {}
      OBVIOUS
    <2>2. Cardinality(Leaps(1970)) = 0
      BY <2>1, FS_EmptySet
    <2>3. YearStart(1970) = 0
      BY <2>2 DEF YearStart
    <2>4. DaysFromCivil(1970, 1, 1) = 0
      BY DEF DaysFromCivil
    <2> QED BY <2>3, <2>4
  <1>3. ASSUME NEW n \in Nat, n >= 1970, n \in S PROVE n + 1 \in S
    <2>1. DaysFromCivil(n + 1, 1, 1) = DaysFromCivil(n, 1, 1) + (IF IsLeap(n) THEN 366 ELSE 365)
      <3>1. n - 1 \in Nat /\ (n - 1) + 1 = n /\ n + 1 \in Nat /\ (n + 1) - 1 = n /\ n > 0 /\ n + 1 > 0
        BY <1>3
      <3>2. DaysFromCivil(n, 1, 1) = MarchYears(n - 1) + DaysBefore(1) + 1 - 719469
        BY <3>1, DateParts
      <3>3. DaysFromCivil(n + 1, 1, 1) = MarchYears(n) + DaysBefore(1) + 1 - 719469
        BY <3>1, DateParts
      <3>4. MarchYears(n) = MarchYears(n - 1) + (IF IsLeap(n) THEN 366 ELSE 365)
        BY <3>1, MarchStep
      <3>5. DaysBefore(1) \in Nat /\ DaysFromCivil(n, 1, 1) \in Nat
        BY <1>3 DEF DaysBefore
      <3>6. MarchYears(n - 1) \in Int
        <4>1. (n - 1) \div 400 \in Int
          BY <3>1
        <4>2. (n - 1) - ((n - 1) \div 400) * 400 \in Int
          BY <3>1, <4>1
        <4> QED BY <4>1, <4>2 DEF MarchYears
      <3> QED BY <3>2, <3>3, <3>4, <3>5, <3>6
    <2>2. YearStart(n + 1) = YearStart(n) + (IF IsLeap(n) THEN 366 ELSE 365)
      <3>1. Leaps(n + 1) = IF IsLeap(n) THEN Leaps(n) \cup {n} ELSE Leaps(n)
        <4>1. \A k : k \in 1970..((n + 1) - 1) <=> k \in 1970..(n - 1) \/ k = n
          BY <1>3
        <4> QED BY <4>1
      <3>2. n \notin Leaps(n)
        BY <1>3
      <3>3. Cardinality(Leaps(n + 1)) = Cardinality(Leaps(n)) + (IF IsLeap(n) THEN 1 ELSE 0)
        <4> HIDE DEF Leaps
        <4>1. CASE IsLeap(n)
          BY <1>1, <3>1, <3>2, <4>1, FS_AddElement
        <4>2. CASE ~IsLeap(n)
          BY <1>1, <3>1, <4>2
        <4> QED BY <4>1, <4>2
      <3>4. YearStart(n) = 365 * (n - 1970) + Cardinality(Leaps(n))
            /\ YearStart(n + 1) = 365 * ((n + 1) - 1970) + Cardinality(Leaps(n + 1))
        BY DEF YearStart
      <3> HIDE DEF Leaps
      <3>5. Cardinality(Leaps(n)) \in Nat
        BY <1>1
      <3> QED BY <1>3, <3>3, <3>4, <3>5
    <2> QED BY <1>3, <2>1, <2>2
  <1>4. \A n \in 1970..y : n \in S
    <2> HIDE DEF S
    <2>1. \A n \in 1970..y : n \in Nat /\ n >= 1970
      OBVIOUS
    <2> QED BY <1>2, <1>3, <2>1, NumberInduction
  <1> QED BY <1>4

\* A day of the calendar, with its number.
DayInv ==
  /\ day.year \in Nat /\ day.year >= 1970 /\ day.month \in 1..12
  /\ day.d \in 1..MonthLength(day.year, day.month)
  /\ day.number \in Nat /\ day.number = DaysFromCivil(day.year, day.month, day.d)

LEMMA MonthLengths ==
  ASSUME NEW y, NEW m \in 1..12
  PROVE  MonthLength(y, m) \in 28..31 /\ (m = 12 => MonthLength(y, m) = 31)
  BY DEF MonthLength

\* The calendar is counted right.
LEMMA DayStep ==
  ASSUME DayInv, NextDay PROVE DayInv'
  <1>1. PICK y, m, dd, n : y = day.year /\ m = day.month /\ dd = day.d /\ n = day.number
    OBVIOUS
  <1>2. y \in Nat /\ y >= 1970 /\ m \in 1..12 /\ dd \in 1..MonthLength(y, m) /\ n \in Nat
        /\ n = DaysFromCivil(y, m, dd)
    BY <1>1 DEF DayInv
  <1> DEFINE last == dd = MonthLength(y, m)
             nextYear == IF last /\ m = 12 THEN y + 1 ELSE y
             nextMonth == IF last THEN (m % 12) + 1 ELSE m
             nextD == IF last THEN 1 ELSE dd + 1
  <1>3. day'.year = nextYear /\ day'.month = nextMonth /\ day'.d = nextD /\ day'.number = n + 1
    BY <1>1 DEF NextDay
  <1>4. MonthLength(y, m) \in 28..31 /\ dd \in Nat /\ (m = 12 => MonthLength(y, m) = 31)
    BY <1>2, MonthLengths
  <1>5. /\ nextYear \in Nat /\ nextYear >= 1970 /\ nextMonth \in 1..12
        /\ nextD \in 1..MonthLength(nextYear, nextMonth)
        /\ n + 1 = DaysFromCivil(nextYear, nextMonth, nextD)
    <2>1. CASE ~last
      <3>1. nextYear = y /\ nextMonth = m /\ nextD = dd + 1
        BY <2>1
      <3>2. dd + 1 \in 1..MonthLength(y, m)
        BY <1>2, <1>4, <2>1
      <3>3. DaysFromCivil(y, m, dd + 1) = n + 1
        <4>1. y \in Nat /\ y > 0 /\ m \in 1..12 /\ dd \in Nat
          BY <1>2, <1>4
        <4>2. DaysFromCivil(y, m, dd + 1) = DaysFromCivil(y, m, dd) + 1
          BY <4>1, NextNumber, Zenon
        <4> QED BY <1>2, <4>2
      <3> HIDE DEF nextYear, nextMonth, nextD, last
      <3> QED BY <1>2, <3>1, <3>2, <3>3
    <2>2. CASE last /\ m = 12
      <3>1. nextYear = y + 1 /\ nextMonth = 1 /\ nextD = 1
        BY <2>2
      <3>2. DaysFromCivil(y + 1, 1, 1) = n + 1
        <4>1. y \in Nat /\ y > 0 /\ m \in 1..12 /\ dd \in Nat
          BY <1>2, <1>4
        <4>2. DaysFromCivil(y + 1, 1, 1) = DaysFromCivil(y, 12, 31) + 1
          BY <2>2, <4>1, NextNumber, Zenon
        <4>3. m = 12 /\ dd = 31
          BY <1>4, <2>2
        <4> QED BY <1>2, <4>2, <4>3
      <3>3. MonthLength(y + 1, 1) \in 28..31
        BY MonthLengths
      <3> HIDE DEF nextYear, nextMonth, nextD, last
      <3> QED BY <1>2, <3>1, <3>2, <3>3
    <2>3. CASE last /\ m # 12
      <3>1. nextYear = y /\ nextMonth = m + 1 /\ nextD = 1 /\ m + 1 \in 1..12 /\ m < 12
        BY <1>2, <2>3
      <3>2. DaysFromCivil(y, m + 1, 1) = n + 1
        <4>1. y \in Nat /\ y > 0 /\ m \in 1..12 /\ dd \in Nat /\ m < 12
          BY <1>2, <1>4, <3>1
        <4>2. DaysFromCivil(y, m + 1, 1) = DaysFromCivil(y, m, MonthLength(y, m)) + 1
          BY <4>1, NextNumber, Zenon
        <4>3. dd = MonthLength(y, m)
          BY <2>3
        <4> QED BY <1>2, <4>2, <4>3
      <3>3. MonthLength(y, m + 1) \in 28..31
        BY <3>1, MonthLengths
      <3> HIDE DEF nextYear, nextMonth, nextD, last
      <3> QED BY <1>2, <3>1, <3>2, <3>3
    <2> QED BY <2>1, <2>2, <2>3
  <1> HIDE DEF nextYear, nextMonth, nextD
  <1>6. n + 1 \in Nat
    BY <1>2
  <1> QED BY <1>3, <1>5, <1>6 DEF DayInv

\* The start of a walk is on the calendar.
LEMMA DayStart ==
  ASSUME FormatInit PROVE DayInv
  <1>1. PICK a \in Anchors : day = [year |-> a.year, month |-> a.month, d |-> a.d,
                                    number |-> a.number, walked |-> 0]
    BY DEF FormatInit
  <1>2. a.year \in Nat /\ a.year >= 1970 /\ a.month = 1 /\ a.d = 1 /\ a.number = YearStart(a.year)
    BY FormatAssumption
  <1>3. a.number \in Nat /\ a.number = DaysFromCivil(a.year, 1, 1)
    BY <1>2, YearStarts
  <1>4. MonthLength(a.year, 1) \in 28..31
    BY MonthLengths
  <1>5. day.year = a.year /\ day.month = 1 /\ day.d = 1 /\ day.number = a.number
    BY <1>1, <1>2
  <1>6. 1 \in 1..MonthLength(a.year, 1) /\ 1 \in 1..12
    BY <1>4
  <1> QED BY <1>2, <1>3, <1>5, <1>6 DEF DayInv

\* A second of a day, moved by a zone.
LEMMA Moved ==
  ASSUME NEW n \in Nat, NEW utc \in Int, -86400 < utc, utc < 172800
  PROVE  LET shift == IF utc < 0 THEN 0 - 1 ELSE IF utc >= 86400 THEN 1 ELSE 0
         IN Moment(n, utc) = <<n + shift, utc - 86400 * shift>>
  <1>1. CASE utc < 0
    <2>1. utc \div 86400 = 0 - 1 /\ utc % 86400 = utc + 86400
      BY <1>1
    <2> QED BY <1>1, <2>1 DEF Moment
  <1>2. CASE 0 <= utc /\ utc < 86400
    <2>1. utc \div 86400 = 0 /\ utc % 86400 = utc
      BY <1>2
    <2> QED BY <1>2, <2>1 DEF Moment
  <1>3. CASE utc >= 86400
    <2>1. utc \div 86400 = 1 /\ utc % 86400 = utc - 86400
      BY <1>3
    <2> QED BY <1>3, <2>1 DEF Moment
  <1> QED BY <1>1, <1>2, <1>3

\* Dates are read as they were meant.
LEMMA DatesRead == DayInv => DatesMatchCalendar
  <1> SUFFICES ASSUME DayInv, NEW t \in Times
               PROVE  /\ Rfc3339(day.year, day.month, day.d, t) = <<day.number, t>>
                      /\ \A zone \in Zones :
                           LET utc == t - zone
                               shift == IF utc < 0 THEN 0 - 1 ELSE IF utc >= 86400 THEN 1 ELSE 0
                           IN Rfc2822(day.year, day.month, day.d, t, zone) =
                                IF day.number + shift < 0 THEN None
                                ELSE <<day.number + shift, utc - 86400 * shift>>
    BY DEF DatesMatchCalendar
  <1>1. PICK y, m, dd, n : y = day.year /\ m = day.month /\ dd = day.d /\ n = day.number
    OBVIOUS
  <1>2. y \in Nat /\ y >= 1970 /\ m \in 1..12 /\ dd \in 1..MonthLength(y, m) /\ n \in Nat
        /\ DaysFromCivil(y, m, dd) = n
    BY <1>1 DEF DayInv
  <1>3. t \in Nat /\ t < 86400
    BY FormatAssumption
  <1>4. Rfc3339(y, m, dd, t) = <<n, t>>
    <2>1. dd \in 1..31
      BY <1>2, MonthLengths
    <2>2. Moment(n, t) = <<n, t>>
      <3>1. t \div 86400 = 0 /\ t % 86400 = t
        BY <1>3
      <3> QED BY <1>2, <3>1 DEF Moment
    <2>3. ~(n < 0)
      BY <1>2
    <2> QED BY <1>2, <2>1, <2>2, <2>3 DEF Rfc3339
  <1>5. ASSUME NEW zone \in Zones
        PROVE  LET utc == t - zone
                   shift == IF utc < 0 THEN 0 - 1 ELSE IF utc >= 86400 THEN 1 ELSE 0
               IN Rfc2822(y, m, dd, t, zone) = IF n + shift < 0 THEN None ELSE <<n + shift, utc - 86400 * shift>>
    <2> DEFINE utc == t - zone
               shift == IF utc < 0 THEN 0 - 1 ELSE IF utc >= 86400 THEN 1 ELSE 0
    <2>1. zone \in Int /\ -86400 < zone /\ zone < 86400
      BY FormatAssumption
    <2>2. utc \in Int /\ -86400 < utc /\ utc < 172800
      BY <1>3, <2>1
    <2>3. Moment(n, utc) = <<n + shift, utc - 86400 * shift>>
      <3> HIDE DEF utc
      <3> QED BY <1>2, <2>2, Moved
    <2>4. Rfc2822(y, m, dd, t, zone) = LET w == Moment(n, utc) IN IF w[1] < 0 THEN None ELSE w
      BY <1>2 DEF Rfc2822
    <2> HIDE DEF utc, shift
    <2>5. <<n + shift, utc - 86400 * shift>>[1] = n + shift
      OBVIOUS
    <2> QED BY <2>3, <2>4, <2>5 DEF utc, shift
  <1> QED BY <1>1, <1>4, <1>5

-----------------------------------------------------------------------------
(* Secrets.                                                                 *)

LEMMA Powers ==
  /\ PowerOf(0) = 1 /\ PowerOf(1) = 2 /\ PowerOf(2) = 4 /\ PowerOf(3) = 8 /\ PowerOf(4) = 16
  /\ PowerOf(5) = 32 /\ PowerOf(6) = 64 /\ PowerOf(7) = 128 /\ PowerOf(8) = 256 /\ PowerOf(9) = 512
  /\ PowerOf(10) = 1024 /\ PowerOf(11) = 2048 /\ PowerOf(12) = 4096
  BY DEF PowerOf, Power

\* Two bytes that follow each other, and the five bits from bit r of the first.
Pair(b, c) == 256 * b + c
Upto(b, c, r) == Pair(b, c) \div PowerOf(11 - r)
PairBit(b, c, q) == IF q < 8 THEN (b \div PowerOf(7 - q)) % 2 ELSE (c \div PowerOf(15 - q)) % 2

\* What the bits from bit r on have to do with the two bytes.
IsUpto(m, b, c, r) ==
  /\ m \in Nat /\ m < PowerOf(r + 5)
  /\ m \div 32 = b \div PowerOf(8 - r)
  /\ r < 3 => m = b \div PowerOf(3 - r)
  /\ r >= 3 => m \div PowerOf(r - 3) = b /\ m % PowerOf(r - 3) = c \div PowerOf(11 - r)

LEMMA UptoFacts ==
  ASSUME NEW b \in Nat, b < 256, NEW c \in Nat, c < 256, NEW r \in 0..7
  PROVE  IsUpto(Upto(b, c, r), b, c, r)
  <1> USE DEF IsUpto
  <1>0. CASE r = 0
    <2>1. Upto(b, c, r) = (256 * b + c) \div 2048
      <3>1. 11 - 0 = 11
        OBVIOUS
      <3> QED BY <1>0, <3>1, Powers DEF Upto, Pair
    <2>2. PICK m : m = Upto(b, c, r)
      OBVIOUS
    <2>3. m \in Nat /\ m < 32 /\ m \div 32 = b \div 256
      BY <2>1, <2>2
    <2>4. m = b \div 8
      BY <2>1, <2>2
    <2>5. PowerOf(r + 5) = 32 /\ PowerOf(8 - r) = 256 /\ PowerOf(11 - r) = 2048
          /\ PowerOf(3 - r) = 8
      BY <1>0, Powers
    <2> QED BY <1>0, <2>2, <2>3, <2>4, <2>5
  <1>1. CASE r = 1
    <2>1. Upto(b, c, r) = (256 * b + c) \div 1024
      <3>1. 11 - 1 = 10
        OBVIOUS
      <3> QED BY <1>1, <3>1, Powers DEF Upto, Pair
    <2>2. PICK m : m = Upto(b, c, r)
      OBVIOUS
    <2>3. m \in Nat /\ m < 64 /\ m \div 32 = b \div 128
      BY <2>1, <2>2
    <2>4. m = b \div 4
      BY <2>1, <2>2
    <2>5. PowerOf(r + 5) = 64 /\ PowerOf(8 - r) = 128 /\ PowerOf(11 - r) = 1024
          /\ PowerOf(3 - r) = 4
      BY <1>1, Powers
    <2> QED BY <1>1, <2>2, <2>3, <2>4, <2>5
  <1>2. CASE r = 2
    <2>1. Upto(b, c, r) = (256 * b + c) \div 512
      <3>1. 11 - 2 = 9
        OBVIOUS
      <3> QED BY <1>2, <3>1, Powers DEF Upto, Pair
    <2>2. PICK m : m = Upto(b, c, r)
      OBVIOUS
    <2>3. m \in Nat /\ m < 128 /\ m \div 32 = b \div 64
      BY <2>1, <2>2
    <2>4. m = b \div 2
      BY <2>1, <2>2
    <2>5. PowerOf(r + 5) = 128 /\ PowerOf(8 - r) = 64 /\ PowerOf(11 - r) = 512
          /\ PowerOf(3 - r) = 2
      BY <1>2, Powers
    <2> QED BY <1>2, <2>2, <2>3, <2>4, <2>5
  <1>3. CASE r = 3
    <2>1. Upto(b, c, r) = (256 * b + c) \div 256
      <3>1. 11 - 3 = 8
        OBVIOUS
      <3> QED BY <1>3, <3>1, Powers DEF Upto, Pair
    <2>2. PICK m : m = Upto(b, c, r)
      OBVIOUS
    <2>3. m \in Nat /\ m < 256 /\ m \div 32 = b \div 32
      BY <2>1, <2>2
    <2>4. m \div 1 = b /\ m % 1 = c \div 256
      BY <2>1, <2>2
    <2>5. PowerOf(r + 5) = 256 /\ PowerOf(8 - r) = 32 /\ PowerOf(11 - r) = 256
          /\ PowerOf(r - 3) = 1
      BY <1>3, Powers
    <2> QED BY <1>3, <2>2, <2>3, <2>4, <2>5
  <1>4. CASE r = 4
    <2>1. Upto(b, c, r) = (256 * b + c) \div 128
      <3>1. 11 - 4 = 7
        OBVIOUS
      <3> QED BY <1>4, <3>1, Powers DEF Upto, Pair
    <2>2. PICK m : m = Upto(b, c, r)
      OBVIOUS
    <2>3. m \in Nat /\ m < 512 /\ m \div 32 = b \div 16
      BY <2>1, <2>2
    <2>4. m \div 2 = b /\ m % 2 = c \div 128
      BY <2>1, <2>2
    <2>5. PowerOf(r + 5) = 512 /\ PowerOf(8 - r) = 16 /\ PowerOf(11 - r) = 128
          /\ PowerOf(r - 3) = 2
      BY <1>4, Powers
    <2> QED BY <1>4, <2>2, <2>3, <2>4, <2>5
  <1>5. CASE r = 5
    <2>1. Upto(b, c, r) = (256 * b + c) \div 64
      <3>1. 11 - 5 = 6
        OBVIOUS
      <3> QED BY <1>5, <3>1, Powers DEF Upto, Pair
    <2>2. PICK m : m = Upto(b, c, r)
      OBVIOUS
    <2>3. m \in Nat /\ m < 1024 /\ m \div 32 = b \div 8
      BY <2>1, <2>2
    <2>4. m \div 4 = b /\ m % 4 = c \div 64
      BY <2>1, <2>2
    <2>5. PowerOf(r + 5) = 1024 /\ PowerOf(8 - r) = 8 /\ PowerOf(11 - r) = 64
          /\ PowerOf(r - 3) = 4
      BY <1>5, Powers
    <2> QED BY <1>5, <2>2, <2>3, <2>4, <2>5
  <1>6. CASE r = 6
    <2>1. Upto(b, c, r) = (256 * b + c) \div 32
      <3>1. 11 - 6 = 5
        OBVIOUS
      <3> QED BY <1>6, <3>1, Powers DEF Upto, Pair
    <2>2. PICK m : m = Upto(b, c, r)
      OBVIOUS
    <2>3. m \in Nat /\ m < 2048 /\ m \div 32 = b \div 4
      BY <2>1, <2>2
    <2>4. m \div 8 = b /\ m % 8 = c \div 32
      BY <2>1, <2>2
    <2>5. PowerOf(r + 5) = 2048 /\ PowerOf(8 - r) = 4 /\ PowerOf(11 - r) = 32
          /\ PowerOf(r - 3) = 8
      BY <1>6, Powers
    <2> QED BY <1>6, <2>2, <2>3, <2>4, <2>5
  <1>7. CASE r = 7
    <2>1. Upto(b, c, r) = (256 * b + c) \div 16
      <3>1. 11 - 7 = 4
        OBVIOUS
      <3> QED BY <1>7, <3>1, Powers DEF Upto, Pair
    <2>2. PICK m : m = Upto(b, c, r)
      OBVIOUS
    <2>3. m \in Nat /\ m < 4096 /\ m \div 32 = b \div 2
      BY <2>1, <2>2
    <2>4. m \div 16 = b /\ m % 16 = c \div 16
      BY <2>1, <2>2
    <2>5. PowerOf(r + 5) = 4096 /\ PowerOf(8 - r) = 2 /\ PowerOf(11 - r) = 16
          /\ PowerOf(r - 3) = 16
      BY <1>7, Powers
    <2> QED BY <1>7, <2>2, <2>3, <2>4, <2>5
  <1> QED BY <1>0, <1>1, <1>2, <1>3, <1>4, <1>5, <1>6, <1>7

\* Five bits of a number.
LEMMA FiveBits ==
  ASSUME NEW m \in Nat
  PROVE  16 * ((m \div 16) % 2) + 8 * ((m \div 8) % 2) + 4 * ((m \div 4) % 2) + 2 * ((m \div 2) % 2) + (m % 2)
           = m % 32
  <1>1. PICK a0, a1, a2, a3 \in Nat : a0 = m \div 2 /\ a1 = a0 \div 2 /\ a2 = a1 \div 2 /\ a3 = a2 \div 2
    OBVIOUS
  <1>2. m \div 4 = a1 /\ m \div 8 = a2 /\ m \div 16 = a3
    BY <1>1
  <1>3. m = 2 * a0 + (m % 2) /\ a0 = 2 * a1 + (a0 % 2) /\ a1 = 2 * a2 + (a1 % 2) /\ a2 = 2 * a3 + (a2 % 2)
    BY <1>1
  <1>4. m % 32 = 16 * (a3 % 2) + 8 * (a2 % 2) + 4 * (a1 % 2) + 2 * (a0 % 2) + (m % 2)
    BY <1>3
  <1> QED BY <1>1, <1>2, <1>4

\* The value of the five bits from bit r on.
PairValue(b, c, r) ==
  16 * PairBit(b, c, r) + 8 * PairBit(b, c, r + 1) + 4 * PairBit(b, c, r + 2) + 2 * PairBit(b, c, r + 3)
  + PairBit(b, c, r + 4)

LEMMA FiveOfPair ==
  ASSUME NEW b \in Nat, b < 256, NEW c \in Nat, c < 256, NEW r \in 0..7
  PROVE  PairValue(b, c, r) = Upto(b, c, r) % 32
  <1>0. CASE r = 0
    <2>1. PICK m \in Nat : m = (256 * b + c) \div 2048 /\ m = Upto(b, c, r)
      <3>1. Upto(b, c, r) = (256 * b + c) \div 2048
        <4>1. 11 - r = 11
          BY <1>0
        <4> QED BY <4>1, Powers DEF Upto, Pair
      <3> QED BY <3>1
    <2>2. /\ PairBit(b, c, 0) = (b \div 128) % 2
          /\ PairBit(b, c, 1) = (b \div 64) % 2
          /\ PairBit(b, c, 2) = (b \div 32) % 2
          /\ PairBit(b, c, 3) = (b \div 16) % 2
          /\ PairBit(b, c, 4) = (b \div 8) % 2
      BY Powers DEF PairBit
    <2>3. /\ (b \div 128) % 2 = (m \div 16) % 2
          /\ (b \div 64) % 2 = (m \div 8) % 2
          /\ (b \div 32) % 2 = (m \div 4) % 2
          /\ (b \div 16) % 2 = (m \div 2) % 2
          /\ (b \div 8) % 2 = (m \div 1) % 2
      <3>1. m = b \div 8
        BY <2>1
      <3>2. b \div 128 = m \div 16
        BY <3>1
      <3>3. b \div 64 = m \div 8
        BY <3>1
      <3>4. b \div 32 = m \div 4
        BY <3>1
      <3>5. b \div 16 = m \div 2
        BY <3>1
      <3>6. b \div 8 = m \div 1
        BY <3>1
      <3> QED BY <3>2, <3>3, <3>4, <3>5, <3>6, Zenon
    <2>4. (m \div 1) % 2 = m % 2
      OBVIOUS
    <2>5. PairValue(b, c, r) = 16 * PairBit(b, c, 0) + 8 * PairBit(b, c, 1) + 4 * PairBit(b, c, 2) + 2 * PairBit(b, c, 3)
                               + PairBit(b, c, 4)
      BY <1>0 DEF PairValue
    <2>6. PairValue(b, c, r) = 16 * ((m \div 16) % 2) + 8 * ((m \div 8) % 2) + 4 * ((m \div 4) % 2) + 2 * ((m \div 2) % 2) + (m % 2)
      BY <2>2, <2>3, <2>4, <2>5
    <2>7. PairValue(b, c, r) = m % 32
      BY <2>6, FiveBits
    <2> QED BY <2>1, <2>7
  <1>1. CASE r = 1
    <2>1. PICK m \in Nat : m = (256 * b + c) \div 1024 /\ m = Upto(b, c, r)
      <3>1. Upto(b, c, r) = (256 * b + c) \div 1024
        <4>1. 11 - r = 10
          BY <1>1
        <4> QED BY <4>1, Powers DEF Upto, Pair
      <3> QED BY <3>1
    <2>2. /\ PairBit(b, c, 1) = (b \div 64) % 2
          /\ PairBit(b, c, 2) = (b \div 32) % 2
          /\ PairBit(b, c, 3) = (b \div 16) % 2
          /\ PairBit(b, c, 4) = (b \div 8) % 2
          /\ PairBit(b, c, 5) = (b \div 4) % 2
      BY Powers DEF PairBit
    <2>3. /\ (b \div 64) % 2 = (m \div 16) % 2
          /\ (b \div 32) % 2 = (m \div 8) % 2
          /\ (b \div 16) % 2 = (m \div 4) % 2
          /\ (b \div 8) % 2 = (m \div 2) % 2
          /\ (b \div 4) % 2 = (m \div 1) % 2
      <3>1. m = b \div 4
        BY <2>1
      <3>2. b \div 64 = m \div 16
        BY <3>1
      <3>3. b \div 32 = m \div 8
        BY <3>1
      <3>4. b \div 16 = m \div 4
        BY <3>1
      <3>5. b \div 8 = m \div 2
        BY <3>1
      <3>6. b \div 4 = m \div 1
        BY <3>1
      <3> QED BY <3>2, <3>3, <3>4, <3>5, <3>6, Zenon
    <2>4. (m \div 1) % 2 = m % 2
      OBVIOUS
    <2>5. PairValue(b, c, r) = 16 * PairBit(b, c, 1) + 8 * PairBit(b, c, 2) + 4 * PairBit(b, c, 3) + 2 * PairBit(b, c, 4)
                               + PairBit(b, c, 5)
      BY <1>1 DEF PairValue
    <2>6. PairValue(b, c, r) = 16 * ((m \div 16) % 2) + 8 * ((m \div 8) % 2) + 4 * ((m \div 4) % 2) + 2 * ((m \div 2) % 2) + (m % 2)
      BY <2>2, <2>3, <2>4, <2>5
    <2>7. PairValue(b, c, r) = m % 32
      BY <2>6, FiveBits
    <2> QED BY <2>1, <2>7
  <1>2. CASE r = 2
    <2>1. PICK m \in Nat : m = (256 * b + c) \div 512 /\ m = Upto(b, c, r)
      <3>1. Upto(b, c, r) = (256 * b + c) \div 512
        <4>1. 11 - r = 9
          BY <1>2
        <4> QED BY <4>1, Powers DEF Upto, Pair
      <3> QED BY <3>1
    <2>2. /\ PairBit(b, c, 2) = (b \div 32) % 2
          /\ PairBit(b, c, 3) = (b \div 16) % 2
          /\ PairBit(b, c, 4) = (b \div 8) % 2
          /\ PairBit(b, c, 5) = (b \div 4) % 2
          /\ PairBit(b, c, 6) = (b \div 2) % 2
      BY Powers DEF PairBit
    <2>3. /\ (b \div 32) % 2 = (m \div 16) % 2
          /\ (b \div 16) % 2 = (m \div 8) % 2
          /\ (b \div 8) % 2 = (m \div 4) % 2
          /\ (b \div 4) % 2 = (m \div 2) % 2
          /\ (b \div 2) % 2 = (m \div 1) % 2
      <3>1. m = b \div 2
        BY <2>1
      <3>2. b \div 32 = m \div 16
        BY <3>1
      <3>3. b \div 16 = m \div 8
        BY <3>1
      <3>4. b \div 8 = m \div 4
        BY <3>1
      <3>5. b \div 4 = m \div 2
        BY <3>1
      <3>6. b \div 2 = m \div 1
        BY <3>1
      <3> QED BY <3>2, <3>3, <3>4, <3>5, <3>6, Zenon
    <2>4. (m \div 1) % 2 = m % 2
      OBVIOUS
    <2>5. PairValue(b, c, r) = 16 * PairBit(b, c, 2) + 8 * PairBit(b, c, 3) + 4 * PairBit(b, c, 4) + 2 * PairBit(b, c, 5)
                               + PairBit(b, c, 6)
      BY <1>2 DEF PairValue
    <2>6. PairValue(b, c, r) = 16 * ((m \div 16) % 2) + 8 * ((m \div 8) % 2) + 4 * ((m \div 4) % 2) + 2 * ((m \div 2) % 2) + (m % 2)
      BY <2>2, <2>3, <2>4, <2>5
    <2>7. PairValue(b, c, r) = m % 32
      BY <2>6, FiveBits
    <2> QED BY <2>1, <2>7
  <1>3. CASE r = 3
    <2>1. PICK m \in Nat : m = (256 * b + c) \div 256 /\ m = Upto(b, c, r)
      <3>1. Upto(b, c, r) = (256 * b + c) \div 256
        <4>1. 11 - r = 8
          BY <1>3
        <4> QED BY <4>1, Powers DEF Upto, Pair
      <3> QED BY <3>1
    <2>2. /\ PairBit(b, c, 3) = (b \div 16) % 2
          /\ PairBit(b, c, 4) = (b \div 8) % 2
          /\ PairBit(b, c, 5) = (b \div 4) % 2
          /\ PairBit(b, c, 6) = (b \div 2) % 2
          /\ PairBit(b, c, 7) = (b \div 1) % 2
      BY Powers DEF PairBit
    <2>3. /\ (b \div 16) % 2 = (m \div 16) % 2
          /\ (b \div 8) % 2 = (m \div 8) % 2
          /\ (b \div 4) % 2 = (m \div 4) % 2
          /\ (b \div 2) % 2 = (m \div 2) % 2
          /\ (b \div 1) % 2 = (m \div 1) % 2
      <3>1. m = b
        BY <2>1
      <3> QED BY <3>1
    <2>4. (m \div 1) % 2 = m % 2
      OBVIOUS
    <2>5. PairValue(b, c, r) = 16 * PairBit(b, c, 3) + 8 * PairBit(b, c, 4) + 4 * PairBit(b, c, 5) + 2 * PairBit(b, c, 6)
                               + PairBit(b, c, 7)
      BY <1>3 DEF PairValue
    <2>6. PairValue(b, c, r) = 16 * ((m \div 16) % 2) + 8 * ((m \div 8) % 2) + 4 * ((m \div 4) % 2) + 2 * ((m \div 2) % 2) + (m % 2)
      BY <2>2, <2>3, <2>4, <2>5
    <2>7. PairValue(b, c, r) = m % 32
      BY <2>6, FiveBits
    <2> QED BY <2>1, <2>7
  <1>4. CASE r = 4
    <2>1. PICK m \in Nat : m = (256 * b + c) \div 128 /\ m = Upto(b, c, r)
      <3>1. Upto(b, c, r) = (256 * b + c) \div 128
        <4>1. 11 - r = 7
          BY <1>4
        <4> QED BY <4>1, Powers DEF Upto, Pair
      <3> QED BY <3>1
    <2>2. /\ PairBit(b, c, 4) = (b \div 8) % 2
          /\ PairBit(b, c, 5) = (b \div 4) % 2
          /\ PairBit(b, c, 6) = (b \div 2) % 2
          /\ PairBit(b, c, 7) = (b \div 1) % 2
          /\ PairBit(b, c, 8) = (c \div 128) % 2
      BY Powers DEF PairBit
    <2>3. /\ (b \div 8) % 2 = (m \div 16) % 2
          /\ (b \div 4) % 2 = (m \div 8) % 2
          /\ (b \div 2) % 2 = (m \div 4) % 2
          /\ (b \div 1) % 2 = (m \div 2) % 2
          /\ (c \div 128) % 2 = (m \div 1) % 2
      BY <2>1
    <2>4. (m \div 1) % 2 = m % 2
      OBVIOUS
    <2>5. PairValue(b, c, r) = 16 * PairBit(b, c, 4) + 8 * PairBit(b, c, 5) + 4 * PairBit(b, c, 6) + 2 * PairBit(b, c, 7)
                               + PairBit(b, c, 8)
      BY <1>4 DEF PairValue
    <2>6. PairValue(b, c, r) = 16 * ((m \div 16) % 2) + 8 * ((m \div 8) % 2) + 4 * ((m \div 4) % 2) + 2 * ((m \div 2) % 2) + (m % 2)
      BY <2>2, <2>3, <2>4, <2>5
    <2>7. PairValue(b, c, r) = m % 32
      BY <2>6, FiveBits
    <2> QED BY <2>1, <2>7
  <1>5. CASE r = 5
    <2>1. PICK m \in Nat : m = (256 * b + c) \div 64 /\ m = Upto(b, c, r)
      <3>1. Upto(b, c, r) = (256 * b + c) \div 64
        <4>1. 11 - r = 6
          BY <1>5
        <4> QED BY <4>1, Powers DEF Upto, Pair
      <3> QED BY <3>1
    <2>2. /\ PairBit(b, c, 5) = (b \div 4) % 2
          /\ PairBit(b, c, 6) = (b \div 2) % 2
          /\ PairBit(b, c, 7) = (b \div 1) % 2
          /\ PairBit(b, c, 8) = (c \div 128) % 2
          /\ PairBit(b, c, 9) = (c \div 64) % 2
      BY Powers DEF PairBit
    <2>3. /\ (b \div 4) % 2 = (m \div 16) % 2
          /\ (b \div 2) % 2 = (m \div 8) % 2
          /\ (b \div 1) % 2 = (m \div 4) % 2
          /\ (c \div 128) % 2 = (m \div 2) % 2
          /\ (c \div 64) % 2 = (m \div 1) % 2
      BY <2>1
    <2>4. (m \div 1) % 2 = m % 2
      OBVIOUS
    <2>5. PairValue(b, c, r) = 16 * PairBit(b, c, 5) + 8 * PairBit(b, c, 6) + 4 * PairBit(b, c, 7) + 2 * PairBit(b, c, 8)
                               + PairBit(b, c, 9)
      BY <1>5 DEF PairValue
    <2>6. PairValue(b, c, r) = 16 * ((m \div 16) % 2) + 8 * ((m \div 8) % 2) + 4 * ((m \div 4) % 2) + 2 * ((m \div 2) % 2) + (m % 2)
      BY <2>2, <2>3, <2>4, <2>5
    <2>7. PairValue(b, c, r) = m % 32
      BY <2>6, FiveBits
    <2> QED BY <2>1, <2>7
  <1>6. CASE r = 6
    <2>1. PICK m \in Nat : m = (256 * b + c) \div 32 /\ m = Upto(b, c, r)
      <3>1. Upto(b, c, r) = (256 * b + c) \div 32
        <4>1. 11 - r = 5
          BY <1>6
        <4> QED BY <4>1, Powers DEF Upto, Pair
      <3> QED BY <3>1
    <2>2. /\ PairBit(b, c, 6) = (b \div 2) % 2
          /\ PairBit(b, c, 7) = (b \div 1) % 2
          /\ PairBit(b, c, 8) = (c \div 128) % 2
          /\ PairBit(b, c, 9) = (c \div 64) % 2
          /\ PairBit(b, c, 10) = (c \div 32) % 2
      BY Powers DEF PairBit
    <2>3. /\ (b \div 2) % 2 = (m \div 16) % 2
          /\ (b \div 1) % 2 = (m \div 8) % 2
          /\ (c \div 128) % 2 = (m \div 4) % 2
          /\ (c \div 64) % 2 = (m \div 2) % 2
          /\ (c \div 32) % 2 = (m \div 1) % 2
      BY <2>1
    <2>4. (m \div 1) % 2 = m % 2
      OBVIOUS
    <2>5. PairValue(b, c, r) = 16 * PairBit(b, c, 6) + 8 * PairBit(b, c, 7) + 4 * PairBit(b, c, 8) + 2 * PairBit(b, c, 9)
                               + PairBit(b, c, 10)
      BY <1>6 DEF PairValue
    <2>6. PairValue(b, c, r) = 16 * ((m \div 16) % 2) + 8 * ((m \div 8) % 2) + 4 * ((m \div 4) % 2) + 2 * ((m \div 2) % 2) + (m % 2)
      BY <2>2, <2>3, <2>4, <2>5
    <2>7. PairValue(b, c, r) = m % 32
      BY <2>6, FiveBits
    <2> QED BY <2>1, <2>7
  <1>7. CASE r = 7
    <2>1. PICK m \in Nat : m = (256 * b + c) \div 16 /\ m = Upto(b, c, r)
      <3>1. Upto(b, c, r) = (256 * b + c) \div 16
        <4>1. 11 - r = 4
          BY <1>7
        <4> QED BY <4>1, Powers DEF Upto, Pair
      <3> QED BY <3>1
    <2>2. /\ PairBit(b, c, 7) = (b \div 1) % 2
          /\ PairBit(b, c, 8) = (c \div 128) % 2
          /\ PairBit(b, c, 9) = (c \div 64) % 2
          /\ PairBit(b, c, 10) = (c \div 32) % 2
          /\ PairBit(b, c, 11) = (c \div 16) % 2
      BY Powers DEF PairBit
    <2>3. /\ (b \div 1) % 2 = (m \div 16) % 2
          /\ (c \div 128) % 2 = (m \div 8) % 2
          /\ (c \div 64) % 2 = (m \div 4) % 2
          /\ (c \div 32) % 2 = (m \div 2) % 2
          /\ (c \div 16) % 2 = (m \div 1) % 2
      BY <2>1
    <2>4. (m \div 1) % 2 = m % 2
      OBVIOUS
    <2>5. PairValue(b, c, r) = 16 * PairBit(b, c, 7) + 8 * PairBit(b, c, 8) + 4 * PairBit(b, c, 9) + 2 * PairBit(b, c, 10)
                               + PairBit(b, c, 11)
      BY <1>7 DEF PairValue
    <2>6. PairValue(b, c, r) = 16 * ((m \div 16) % 2) + 8 * ((m \div 8) % 2) + 4 * ((m \div 4) % 2) + 2 * ((m \div 2) % 2) + (m % 2)
      BY <2>2, <2>3, <2>4, <2>5
    <2>7. PairValue(b, c, r) = m % 32
      BY <2>6, FiveBits
    <2> QED BY <2>1, <2>7
  <1> QED BY <1>0, <1>1, <1>2, <1>3, <1>4, <1>5, <1>6, <1>7

\* What five bits more leave in the buffer.
BitsIn(buffer, v, r) ==
  ((buffer * 32 + v) % BufferSize) % PowerOf(r + 5) = (buffer % PowerOf(r)) * 32 + v

LEMMA BitsEnter ==
  ASSUME NEW buffer \in Nat, NEW v \in Nat, v < 32, NEW r \in 0..7
  PROVE  BitsIn(buffer, v, r)
  <1>0. CASE r = 0
    <2>1. ((buffer * 32 + v) % BufferSize) % 32 = (buffer % 1) * 32 + v
      BY SMT DEF BufferSize
    <2>2. PowerOf(r + 5) = 32 /\ PowerOf(r) = 1
      BY <1>0, Powers
    <2> QED BY <1>0, <2>1, <2>2 DEF BitsIn
  <1>1. CASE r = 1
    <2>1. ((buffer * 32 + v) % BufferSize) % 64 = (buffer % 2) * 32 + v
      BY SMT DEF BufferSize
    <2>2. PowerOf(r + 5) = 64 /\ PowerOf(r) = 2
      BY <1>1, Powers
    <2> QED BY <1>1, <2>1, <2>2 DEF BitsIn
  <1>2. CASE r = 2
    <2>1. ((buffer * 32 + v) % BufferSize) % 128 = (buffer % 4) * 32 + v
      BY SMT DEF BufferSize
    <2>2. PowerOf(r + 5) = 128 /\ PowerOf(r) = 4
      BY <1>2, Powers
    <2> QED BY <1>2, <2>1, <2>2 DEF BitsIn
  <1>3. CASE r = 3
    <2>1. ((buffer * 32 + v) % BufferSize) % 256 = (buffer % 8) * 32 + v
      BY SMT DEF BufferSize
    <2>2. PowerOf(r + 5) = 256 /\ PowerOf(r) = 8
      BY <1>3, Powers
    <2> QED BY <1>3, <2>1, <2>2 DEF BitsIn
  <1>4. CASE r = 4
    <2>1. ((buffer * 32 + v) % BufferSize) % 512 = (buffer % 16) * 32 + v
      BY SMT DEF BufferSize
    <2>2. PowerOf(r + 5) = 512 /\ PowerOf(r) = 16
      BY <1>4, Powers
    <2> QED BY <1>4, <2>1, <2>2 DEF BitsIn
  <1>5. CASE r = 5
    <2>1. ((buffer * 32 + v) % BufferSize) % 1024 = (buffer % 32) * 32 + v
      BY SMT DEF BufferSize
    <2>2. PowerOf(r + 5) = 1024 /\ PowerOf(r) = 32
      BY <1>5, Powers
    <2> QED BY <1>5, <2>1, <2>2 DEF BitsIn
  <1>6. CASE r = 6
    <2>1. ((buffer * 32 + v) % BufferSize) % 2048 = (buffer % 64) * 32 + v
      BY SMT DEF BufferSize
    <2>2. PowerOf(r + 5) = 2048 /\ PowerOf(r) = 64
      BY <1>6, Powers
    <2> QED BY <1>6, <2>1, <2>2 DEF BitsIn
  <1>7. CASE r = 7
    <2>1. ((buffer * 32 + v) % BufferSize) % 4096 = (buffer % 128) * 32 + v
      BY SMT DEF BufferSize
    <2>2. PowerOf(r + 5) = 4096 /\ PowerOf(r) = 128
      BY <1>7, Powers
    <2> QED BY <1>7, <2>1, <2>2 DEF BitsIn
  <1> QED BY <1>0, <1>1, <1>2, <1>3, <1>4, <1>5, <1>6, <1>7

\* The byte that a buffer of r + 5 bits gives, and the bits behind it.
ByteOut(w, r) ==
  /\ (w \div PowerOf(r - 3)) % 256 = (w % PowerOf(r + 5)) \div PowerOf(r - 3)
  /\ w % PowerOf(r - 3) = (w % PowerOf(r + 5)) % PowerOf(r - 3)

LEMMA ByteLeaves ==
  ASSUME NEW w \in Nat, NEW r \in 3..7
  PROVE  ByteOut(w, r)
  <1>3. CASE r = 3
    <2>1. (w \div 1) % 256 = (w % 256) \div 1
      BY SMT
    <2>2. w % 1 = (w % 256) % 1
      BY SMT
    <2>3. PowerOf(r + 5) = 256 /\ PowerOf(r - 3) = 1
      BY <1>3, Powers
    <2> QED BY <2>1, <2>2, <2>3 DEF ByteOut
  <1>4. CASE r = 4
    <2>1. (w \div 2) % 256 = (w % 512) \div 2
      BY SMT
    <2>2. w % 2 = (w % 512) % 2
      BY SMT
    <2>3. PowerOf(r + 5) = 512 /\ PowerOf(r - 3) = 2
      BY <1>4, Powers
    <2> QED BY <2>1, <2>2, <2>3 DEF ByteOut
  <1>5. CASE r = 5
    <2>1. (w \div 4) % 256 = (w % 1024) \div 4
      BY SMT
    <2>2. w % 4 = (w % 1024) % 4
      BY SMT
    <2>3. PowerOf(r + 5) = 1024 /\ PowerOf(r - 3) = 4
      BY <1>5, Powers
    <2> QED BY <2>1, <2>2, <2>3 DEF ByteOut
  <1>6. CASE r = 6
    <2>1. (w \div 8) % 256 = (w % 2048) \div 8
      BY SMT
    <2>2. w % 8 = (w % 2048) % 8
      BY SMT
    <2>3. PowerOf(r + 5) = 2048 /\ PowerOf(r - 3) = 8
      BY <1>6, Powers
    <2> QED BY <2>1, <2>2, <2>3 DEF ByteOut
  <1>7. CASE r = 7
    <2>1. (w \div 16) % 256 = (w % 4096) \div 16
      BY SMT
    <2>2. w % 16 = (w % 4096) % 16
      BY SMT
    <2>3. PowerOf(r + 5) = 4096 /\ PowerOf(r - 3) = 16
      BY <1>7, Powers
    <2> QED BY <2>1, <2>2, <2>3 DEF ByteOut
  <1> QED BY <1>3, <1>4, <1>5, <1>6, <1>7

\* A byte of a secret; behind the last there are zeros.
ByteAt(bytes, j) == IF j < Len(bytes) THEN bytes[j + 1] ELSE 0
IsBytes(bytes) == Len(bytes) \in Nat /\ (\A i \in 1..Len(bytes) : bytes[i] \in Nat /\ bytes[i] < 256)

LEMMA ByteType ==
  ASSUME NEW bytes, IsBytes(bytes), NEW j \in Nat
  PROVE  ByteAt(bytes, j) \in Nat /\ ByteAt(bytes, j) < 256
  <1>1. CASE j < Len(bytes)
    <2>1. j + 1 \in 1..Len(bytes)
      BY <1>1 DEF IsBytes
    <2> QED BY <1>1, <2>1 DEF IsBytes, ByteAt
  <1>2. CASE ~(j < Len(bytes))
    BY <1>2 DEF ByteAt
  <1> QED BY <1>1, <1>2

LEMMA BitAt ==
  ASSUME NEW bytes, IsBytes(bytes), NEW j \in Nat, NEW q \in 0..15
  PROVE  Bit(bytes, 8 * j + q) = PairBit(ByteAt(bytes, j), ByteAt(bytes, j + 1), q)
  <1> DEFINE p == IF q < 8 THEN j ELSE j + 1
             s == IF q < 8 THEN q ELSE q - 8
             i == 8 * j + q
  <1>1. p \in Nat /\ s \in 0..7 /\ i = 8 * p + s
    OBVIOUS
  <1>2. PairBit(ByteAt(bytes, j), ByteAt(bytes, j + 1), q) = (ByteAt(bytes, p) \div PowerOf(7 - s)) % 2
    <2>1. CASE q < 8
      BY <2>1 DEF PairBit
    <2>2. CASE q >= 8
      <3>1. 7 - s = 15 - q /\ p = j + 1 /\ ~(q < 8)
        BY <2>2
      <3> HIDE DEF p, s
      <3> QED BY <3>1 DEF PairBit
    <2> QED BY <2>1, <2>2
  <1> HIDE DEF p, s
  <1>3. i \div 8 = p /\ i % 8 = s
    BY <1>1
  <1>4. Len(bytes) \in Nat
    BY DEF IsBytes
  <1>5. i >= 8 * Len(bytes) <=> ~(p < Len(bytes))
    BY <1>1, <1>4
  <1> HIDE DEF i
  <1>6. Bit(bytes, i) = IF i >= 8 * Len(bytes) THEN 0 ELSE (bytes[p + 1] \div PowerOf(7 - s)) % 2
    BY <1>3 DEF Bit
  <1>7. CASE p < Len(bytes)
    BY <1>2, <1>5, <1>6, <1>7 DEF i, ByteAt
  <1>8. CASE ~(p < Len(bytes))
    <2>1. \A k \in 0..7 : (0 \div PowerOf(k)) % 2 = 0
      BY Powers
    <2>2. 7 - s \in 0..7
      BY <1>1
    <2> QED BY <1>2, <1>5, <1>6, <1>8, <2>1, <2>2 DEF i, ByteAt
  <1> QED BY <1>7, <1>8

LEMMA EncodedLength ==
  ASSUME NEW bytes, IsBytes(bytes)
  PROVE  Len(Encoded(bytes)) = (8 * Len(bytes) + 4) \div 5 /\ Len(Encoded(bytes)) \in Nat
  <1> DEFINE length == (8 * Len(bytes) + 4) \div 5
  <1>1. length \in Nat
    BY DEF IsBytes
  <1>2. PICK f : f = Encoded(bytes)
    OBVIOUS
  <1>3. f = [k \in 1..length |-> f[k]]
    BY <1>2 DEF Encoded
  <1> HIDE DEF length
  <1>4. Len(f) = length
    BY <1>1, <1>3
  <1> QED BY <1>1, <1>2, <1>4 DEF length

\* A character of the encoded secret.
LEMMA CharAt ==
  ASSUME NEW bytes, IsBytes(bytes), NEW n \in 1..Len(Encoded(bytes)), NEW j \in Nat, NEW r \in 0..7,
         5 * (n - 1) = 8 * j + r
  PROVE  Encoded(bytes)[n] = Upto(ByteAt(bytes, j), ByteAt(bytes, j + 1), r) % 32
  <1> DEFINE length == (8 * Len(bytes) + 4) \div 5
             b == ByteAt(bytes, j)
             c == ByteAt(bytes, j + 1)
  <1>1. length \in Nat
    BY DEF IsBytes
  <1>2. Len(Encoded(bytes)) = length
    BY EncodedLength
  <1>3. n \in 1..length /\ n \in Nat
    BY <1>1, <1>2
  <1>4. Encoded(bytes)[n] = 16 * Bit(bytes, 5*n - 5) + 8 * Bit(bytes, 5*n - 4) + 4 * Bit(bytes, 5*n - 3)
                            + 2 * Bit(bytes, 5*n - 2) + Bit(bytes, 5*n - 1)
    BY <1>3 DEF Encoded
  <1>5. /\ 5*n - 5 = 8 * j + r /\ 5*n - 4 = 8 * j + (r + 1) /\ 5*n - 3 = 8 * j + (r + 2)
        /\ 5*n - 2 = 8 * j + (r + 3) /\ 5*n - 1 = 8 * j + (r + 4)
        /\ r + 1 \in 0..15 /\ r + 2 \in 0..15 /\ r + 3 \in 0..15 /\ r + 4 \in 0..15 /\ r \in 0..15
    BY <1>3
  <1>6. \A q \in 0..15 : Bit(bytes, 8 * j + q) = PairBit(b, c, q)
    BY BitAt
  <1> HIDE DEF b, c, length
  <1>7. Encoded(bytes)[n] = PairValue(b, c, r)
    BY <1>4, <1>5, <1>6 DEF PairValue
  <1>8. b \in Nat /\ b < 256 /\ c \in Nat /\ c < 256
    <2>1. j + 1 \in Nat
      OBVIOUS
    <2>2. b \in Nat /\ b < 256
      BY ByteType, Zenon DEF b
    <2>3. c \in Nat /\ c < 256
      BY <2>1, ByteType, Zenon DEF c
    <2> QED BY <2>2, <2>3
  <1> QED BY <1>7, <1>8, FiveOfPair DEF b, c

\* Where the decoding stands behind bit 8 * j + r: the bytes before are out, and
\* the buffer ends with r bits of the next.
Reached(acc, bytes, j, r) ==
  \E buffer \in Nat, out \in Seq(Nat) :
    /\ acc = [buffer |-> buffer, bits |-> r, out |-> out]
    /\ buffer % PowerOf(r) = ByteAt(bytes, j) \div PowerOf(8 - r)
    /\ Len(out) = j /\ (\A i \in 1..j : out[i] = bytes[i])

\* Five bits more.
LEMMA DecodeStep ==
  ASSUME NEW bytes, IsBytes(bytes), NEW acc, NEW j \in Nat, NEW r \in 0..7, j < Len(bytes), Reached(acc, bytes, j, r),
         NEW v, v = Upto(ByteAt(bytes, j), ByteAt(bytes, j + 1), r) % 32
  PROVE  IF r < 3 THEN Reached(Shifted(acc, v), bytes, j, r + 5) ELSE Reached(Shifted(acc, v), bytes, j + 1, r - 3)
  <1>1. PICK b, c : b = ByteAt(bytes, j) /\ c = ByteAt(bytes, j + 1)
    OBVIOUS
  <1>2. b \in Nat /\ b < 256 /\ c \in Nat /\ c < 256
    <2>1. j + 1 \in Nat
      OBVIOUS
    <2> QED BY <1>1, <2>1, ByteType
  <1>3. PICK m : m = Upto(b, c, r)
    OBVIOUS
  <1>4. m \in Nat /\ m < PowerOf(r + 5) /\ m \div 32 = b \div PowerOf(8 - r)
        /\ (r < 3 => m = b \div PowerOf(3 - r))
        /\ (r >= 3 => m \div PowerOf(r - 3) = b /\ m % PowerOf(r - 3) = c \div PowerOf(11 - r))
    <2>1. IsUpto(m, b, c, r)
      BY <1>2, <1>3, UptoFacts, Zenon
    <2> QED BY <2>1, Zenon DEF IsUpto
  <1>5. v = m % 32 /\ v \in Nat /\ v < 32
    BY <1>1, <1>3, <1>4
  <1>6. PICK buffer \in Nat, out \in Seq(Nat) :
          /\ acc = [buffer |-> buffer, bits |-> r, out |-> out]
          /\ buffer % PowerOf(r) = b \div PowerOf(8 - r)
          /\ Len(out) = j /\ (\A i \in 1..j : out[i] = bytes[i])
    BY <1>1 DEF Reached
  <1>7. PICK w : w = (buffer * 32 + v) % BufferSize
    OBVIOUS
  <1>8. w \in Nat
    <2>1. buffer * 32 + v \in Nat
      BY <1>5
    <2>2. BufferSize \in Nat /\ BufferSize > 0
      BY SMT DEF BufferSize
    <2> QED BY <1>7, <2>1, <2>2
  <1>9. w % PowerOf(r + 5) = m
    <2>1. w % PowerOf(r + 5) = (buffer % PowerOf(r)) * 32 + v
      <3>1. buffer \in Nat /\ v \in Nat /\ v < 32 /\ r \in 0..7 /\ w \in Nat
        BY <1>5, <1>6, <1>8
      <3>2. ((buffer * 32 + v) % BufferSize) % PowerOf(r + 5) = (buffer % PowerOf(r)) * 32 + v
        BY <3>1, BitsEnter, Zenon DEF BitsIn
      <3> QED BY <1>7, <3>2, Zenon
    <2>2. m = 32 * (m \div 32) + (m % 32)
      BY <1>4
    <2>3. buffer % PowerOf(r) = m \div 32 /\ m \div 32 \in Nat
      BY <1>4, <1>6
    <2> HIDE DEF PowerOf
    <2> QED BY <1>5, <2>1, <2>2, <2>3
  <1>10. acc.buffer = buffer /\ acc.bits = r /\ acc.out = out
    BY <1>6
  <1>11. CASE r < 3
    <2>1. Shifted(acc, v) = [acc EXCEPT !.buffer = w, !.bits = r + 5]
      <3>1. r + 5 < 8
        BY <1>11
      <3> QED BY <1>7, <1>10, <3>1 DEF Shifted
    <2>2. [acc EXCEPT !.buffer = w, !.bits = r + 5] = [[acc EXCEPT !.buffer = w] EXCEPT !.bits = r + 5]
      OBVIOUS
    <2>3. [acc EXCEPT !.buffer = w] = [buffer |-> w, bits |-> r, out |-> out]
      BY <1>6
    <2>4. Shifted(acc, v) = [buffer |-> w, bits |-> r + 5, out |-> out]
      BY <2>1, <2>2, <2>3
    <2>5. 8 - (r + 5) = 3 - r
      OBVIOUS
    <2>6. w % PowerOf(r + 5) = ByteAt(bytes, j) \div PowerOf(8 - (r + 5))
      BY <1>1, <1>4, <1>9, <1>11, <2>5
    <2>7. Reached(Shifted(acc, v), bytes, j, r + 5)
      BY <1>6, <1>8, <2>4, <2>6 DEF Reached
    <2> QED BY <1>11, <2>7
  <1>12. CASE r >= 3
    <2>1. (w \div PowerOf(r - 3)) % 256 = b /\ w % PowerOf(r - 3) = c \div PowerOf(11 - r)
      <3>1. buffer \in Nat /\ v \in Nat /\ v < 32 /\ r \in 0..7 /\ w \in Nat
        BY <1>5, <1>6, <1>8
      <3>2. r \in 3..7
        BY <1>12
      <3>3. ByteOut(w, r)
        BY <3>1, <3>2, ByteLeaves, Zenon
      <3>4. m \div PowerOf(r - 3) = b /\ m % PowerOf(r - 3) = c \div PowerOf(11 - r)
        BY <1>4, <1>12
      <3> QED BY <1>9, <3>3, <3>4, Zenon DEF ByteOut
    <2>2. Shifted(acc, v) = [buffer |-> w, bits |-> (r + 5) - 8, out |-> Append(out, (w \div PowerOf((r + 5) - 8)) % 256)]
      <3>1. ~(r + 5 < 8)
        BY <1>12
      <3> QED BY <1>7, <1>10, <3>1 DEF Shifted
    <2>3. (r + 5) - 8 = r - 3 /\ 8 - (r - 3) = 11 - r
      OBVIOUS
    <2>4. PICK more : more = Append(out, b)
      OBVIOUS
    <2>5. Shifted(acc, v) = [buffer |-> w, bits |-> r - 3, out |-> more]
      BY <2>1, <2>2, <2>3, <2>4
    <2>6. more \in Seq(Nat) /\ Len(more) = j + 1 /\ (\A i \in 1..(j + 1) : more[i] = bytes[i])
      <3>1. more \in Seq(Nat) /\ Len(more) = j + 1 /\ (\A i \in 1..j : more[i] = out[i]) /\ more[j + 1] = b
        BY <1>2, <1>6, <2>4
      <3>2. b = bytes[j + 1]
        BY <1>1 DEF ByteAt
      <3>3. \A i \in 1..(j + 1) : i \in 1..j \/ i = j + 1
        OBVIOUS
      <3> QED BY <1>6, <3>1, <3>2, <3>3
    <2>7. w % PowerOf(r - 3) = ByteAt(bytes, j + 1) \div PowerOf(8 - (r - 3))
      BY <1>1, <2>1, <2>3
    <2>8. Reached(Shifted(acc, v), bytes, j + 1, r - 3)
      BY <1>8, <2>5, <2>6, <2>7 DEF Reached
    <2> QED BY <1>12, <2>8
  <1> QED BY <1>11, <1>12

\* A secret of any length is decoded.
LEMMA Decodes ==
  ASSUME NEW bytes, IsBytes(bytes)
  PROVE  DecodeSecret(Encoded(bytes)) \in Seq(Nat) /\ Len(DecodeSecret(Encoded(bytes))) = Len(bytes)
         /\ \A i \in 1..Len(bytes) : DecodeSecret(Encoded(bytes))[i] = bytes[i]
  <1>1. PICK chars : chars = Encoded(bytes)
    OBVIOUS
  <1>2. PICK l \in Nat : l = Len(bytes)
    BY DEF IsBytes
  <1>3. Len(chars) = (8 * l + 4) \div 5 /\ Len(chars) \in Nat
    BY <1>1, <1>2, EncodedLength
  <1> DEFINE S == {n \in 0..Len(chars) : Reached(Decodings(chars)[n], bytes, (5 * n) \div 8, (5 * n) % 8)}
  <1>4. 0 \in S
    <2>1. Decodings(chars)[0] = Undecoded
      BY <1>3, DecodeStates
    <2>2. (5 * 0) \div 8 = 0 /\ (5 * 0) % 8 = 0
      OBVIOUS
    <2>3. Reached(Undecoded, bytes, 0, 0)
      <3>1. ByteAt(bytes, 0) \div PowerOf(8 - 0) = 0
        <4>1. ByteAt(bytes, 0) \in Nat /\ ByteAt(bytes, 0) < 256
          BY ByteType
        <4>2. PowerOf(8 - 0) = 256
          BY Powers
        <4> QED BY <4>1, <4>2
      <3>2. 0 % PowerOf(0) = 0
        BY Powers
      <3>3. <<>> \in Seq(Nat) /\ Len(<<>>) = 0
        OBVIOUS
      <3>4. PICK zero, none : zero = 0 /\ none = <<>>
        OBVIOUS
      <3>5. /\ Undecoded = [buffer |-> zero, bits |-> 0, out |-> none] /\ zero \in Nat /\ none \in Seq(Nat)
            /\ zero % PowerOf(0) = ByteAt(bytes, 0) \div PowerOf(8 - 0)
            /\ Len(none) = 0 /\ (\A i \in 1..0 : none[i] = bytes[i])
        <4>1. \A i \in 1..0 : FALSE
          OBVIOUS
        <4> QED BY <3>1, <3>2, <3>3, <3>4, <4>1 DEF Undecoded
      <3> QED BY <3>5, Zenon DEF Reached
    <2> QED BY <1>3, <2>1, <2>2, <2>3
  <1>5. ASSUME NEW n \in 0..Len(chars), n \in S, n < Len(chars) PROVE n + 1 \in S
    <2>1. PICK j \in Nat, r \in 0..7 : j = (5 * n) \div 8 /\ r = (5 * n) % 8
      BY <1>3
    <2>2. 5 * n = 8 * j + r /\ n \in Nat
      BY <1>3, <2>1
    <2>3. j < Len(bytes)
      BY <1>2, <1>3, <1>5, <2>2
    <2>4. Decodings(chars)[n + 1] = Shifted(Decodings(chars)[n], chars[n + 1])
      <3>1. n + 1 \in 1..Len(chars) /\ (n + 1) - 1 = n
        BY <1>3, <1>5
      <3> QED BY <1>3, <3>1, DecodeStates
    <2>5. chars[n + 1] = Upto(ByteAt(bytes, j), ByteAt(bytes, j + 1), r) % 32
      <3>1. n + 1 \in 1..Len(chars) /\ 5 * ((n + 1) - 1) = 8 * j + r
        BY <1>3, <1>5, <2>2
      <3> QED BY <1>1, <3>1, CharAt
    <2>6. Reached(Decodings(chars)[n], bytes, j, r)
      BY <1>5, <2>1
    <2>7. IF r < 3 THEN Reached(Decodings(chars)[n + 1], bytes, j, r + 5)
                   ELSE Reached(Decodings(chars)[n + 1], bytes, j + 1, r - 3)
      BY <2>3, <2>4, <2>5, <2>6, DecodeStep
    <2>8. IF r < 3 THEN (5 * (n + 1)) \div 8 = j /\ (5 * (n + 1)) % 8 = r + 5
                   ELSE (5 * (n + 1)) \div 8 = j + 1 /\ (5 * (n + 1)) % 8 = r - 3
      BY <2>2
    <2>9. n + 1 \in 0..Len(chars)
      BY <1>3, <1>5
    <2> QED BY <2>7, <2>8, <2>9
  <1>6. Len(chars) \in S
    <2>1. \A n \in 0..Len(chars) : n \in S
      <3> HIDE DEF S
      <3> QED BY <1>3, <1>4, <1>5, NumberInduction
    <2> QED BY <1>3, <2>1
  <1>7. (5 * Len(chars)) \div 8 = l
    BY <1>3
  <1>8. PICK buffer \in Nat, out \in Seq(Nat) :
          \E r :
            /\ Decodings(chars)[Len(chars)] = [buffer |-> buffer, bits |-> r, out |-> out]
            /\ Len(out) = l /\ (\A i \in 1..l : out[i] = bytes[i])
    BY <1>6, <1>7 DEF Reached
  <1>9. DecodeSecret(chars) = out
    BY <1>8 DEF DecodeSecret
  <1> QED BY <1>1, <1>2, <1>8, <1>9


-----------------------------------------------------------------------------
(* Mails. *)

\* What a response is made of.
Tokens == MailBytes \cup {Close, Ok, Replaced} \cup {<<"num", n>> : n \in Nat}
\* What a decoded mail is made of.
DecodedBytes == {Text, Open, Newline, Tag, Replaced}

LEMMA TokenFacts ==
  /\ Text # Newline /\ Open # Newline /\ Close # Newline /\ Tag # Newline /\ Ok # Newline
  /\ Text # Open /\ Close # Open /\ Newline # Open /\ Tag # Open /\ Ok # Open /\ Text # Tag
  /\ \A e \in DecodedBytes : e[1] # "num"
  /\ \A n \in Nat : <<"num", n>> # Newline /\ <<"num", n>> # Open /\ <<"num", n>>[1] = "num" /\ <<"num", n>>[2] = n
  <1>1. Text[1] = "text" /\ Open[1] = "open" /\ Close[1] = "close" /\ Newline[1] = "newline" /\ Tag[1] = "tag"
        /\ Ok[1] = "ok" /\ Replaced[1] = "replaced"
    BY DEF Text, Open, Close, Newline, Tag, Ok, Replaced
  <1>2. \A n \in Nat : <<"num", n>>[1] = "num" /\ <<"num", n>>[2] = n
    OBVIOUS
  <1>3. \A n \in Nat : <<"num", n>>[1] # Newline[1] /\ <<"num", n>>[1] # Open[1]
    BY <1>1, <1>2
  <1> QED BY <1>1, <1>2, <1>3, Zenon DEF DecodedBytes

\* The first place of a token.
LEMMA FoundAt ==
  ASSUME NEW s, Len(s) \in Nat, NEW from \in Nat, NEW b, NEW k \in from..Len(s), s[k] = b,
         \A i \in from..(k - 1) : s[i] # b
  PROVE  IndexFrom(s, from, b) = k
  <1> DEFINE at == {i \in from..Len(s) : s[i] = b}
  <1>1. k \in at /\ k \in Nat /\ (\A j \in at : k <= j)
    <2>1. \A j \in from..Len(s) : j < k => j \in from..(k - 1)
      OBVIOUS
    <2> QED BY <2>1
  <1>2. \A i \in at : (\A j \in at : i <= j) => i = k
    <2>1. at \subseteq Nat
      OBVIOUS
    <2> HIDE DEF at
    <2> QED BY <1>1, <2>1
  <1>3. IndexFrom(s, from, b) = IF at = {} THEN 0 ELSE CHOOSE i \in at : \A j \in at : i <= j
    BY DEF IndexFrom
  <1> HIDE DEF at
  <1> QED BY <1>1, <1>2, <1>3

LEMMA FoundNowhere ==
  ASSUME NEW s, Len(s) \in Nat, NEW from \in Nat, NEW b, \A i \in from..Len(s) : s[i] # b
  PROVE  IndexFrom(s, from, b) = 0
  BY DEF IndexFrom

LEMMA FoundSomewhere ==
  ASSUME NEW s, Len(s) \in Nat, NEW from \in Nat, NEW b, ~(\A i \in from..Len(s) : s[i] # b)
  PROVE  IndexFrom(s, from, b) \in from..Len(s) /\ s[IndexFrom(s, from, b)] = b
  <1> DEFINE at == {i \in from..Len(s) : s[i] = b}
  <1>1. at # {} /\ at \subseteq Nat
    OBVIOUS
  <1>2. \E i \in at : \A j \in at : i <= j
    <2> HIDE DEF at
    <2> QED BY <1>1, LeastNumber
  <1>3. IndexFrom(s, from, b) = CHOOSE i \in at : \A j \in at : i <= j
    BY <1>1 DEF IndexFrom
  <1>4. IndexFrom(s, from, b) \in at
    <2> HIDE DEF at
    <2> QED BY <1>2, <1>3
  <1> QED BY <1>4

\* A line without a brace announces nothing.
LEMMA NothingAnnounced ==
  ASSUME NEW line, \A i \in DOMAIN line : line[i] # Open
  PROVE  LiteralLen(line) = 0
  BY DEF LiteralLen

\* Two texts joined.
IsJoin(s, a, b) == /\ Len(s) = Len(a) + Len(b)
                   /\ \A i \in 1..Len(a) : s[i] = a[i]
                   /\ \A i \in 1..Len(b) : s[Len(a) + i] = b[i]
LEMMA Joined ==
  ASSUME NEW S, NEW a \in Seq(S), NEW b \in Seq(S)
  PROVE  a \o b \in Seq(S) /\ IsJoin(a \o b, a, b)
  BY DEF IsJoin

\* A part of a text.
IsPart(s, from, part) == from + Len(part) <= Len(s) + 1 /\ (\A i \in 1..Len(part) : s[from + i - 1] = part[i])
LEMMA PartOf ==
  ASSUME NEW S, NEW s \in Seq(S), NEW from \in Nat, NEW part \in Seq(S), from >= 1, IsPart(s, from, part)
  PROVE  SubSeq(s, from, from + Len(part) - 1) = part
  <1> USE DEF IsPart
  <1>1. PICK cut : cut = SubSeq(s, from, from + Len(part) - 1)
    OBVIOUS
  <1>2. cut \in Seq(S) /\ Len(cut) = Len(part) /\ (\A i \in 1..Len(part) : cut[i] = s[from + i - 1])
    BY <1>1
  <1>3. \A i \in 1..Len(part) : cut[i] = part[i]
    BY <1>2
  <1> QED BY <1>1, <1>2, <1>3

\* The decoded text of a mail.
LEMMA MailDecoded ==
  ASSUME NEW bytes \in Seq(MailBytes)
  PROVE  Decoded(bytes) \in Seq(DecodedBytes) /\ Len(Decoded(bytes)) >= Len(bytes)
  <1> DEFINE S == {n \in 0..Len(bytes) : Lossy(bytes)[n] \in Seq(DecodedBytes) /\ Len(Lossy(bytes)[n]) >= n}
  <1>1. PICK l \in Nat : l = Len(bytes)
    OBVIOUS
  <1>2. 0 \in S
    <2>1. PICK none : none = <<>>
      OBVIOUS
    <2>2. none \in Seq(DecodedBytes) /\ Len(none) = 0
      BY <2>1
    <2>3. Lossy(bytes)[0] = none
      BY <1>1, <2>1, LossyStates DEF None
    <2>4. 0 \in 0..Len(bytes)
      BY <1>1
    <2>5. Lossy(bytes)[0] \in Seq(DecodedBytes) /\ Len(Lossy(bytes)[0]) = 0
      BY <2>2, <2>3, Zenon
    <2> QED BY <2>4, <2>5
  <1>3. ASSUME NEW n \in 0..Len(bytes), n \in S, n < Len(bytes) PROVE n + 1 \in S
    <2>1. PICK s \in Seq(DecodedBytes) : s = Lossy(bytes)[n] /\ Len(s) >= n
      BY <1>3
    <2>2. n + 1 \in 1..Len(bytes) /\ n + 1 \in 0..Len(bytes) /\ (n + 1) - 1 = n
      BY <1>1, <1>3
    <2>3. Lossy(bytes)[n + 1] = Push(s, bytes[n + 1])
      BY <1>1, <2>1, <2>2, LossyStates
    <2>4. bytes[n + 1] \in MailBytes
      BY <2>2
    <2>5. PICK b \in MailBytes : b = bytes[n + 1]
      BY <2>4
    <2>6. Push(s, b) \in Seq(DecodedBytes) /\ Len(Push(s, b)) >= n + 1
      <3>1. CASE b = Bad
        <4>1. PICK more : more = <<Replaced, Replaced, Replaced>>
          OBVIOUS
        <4>2. more \in Seq(DecodedBytes) /\ Len(more) = 3
          BY <4>1 DEF DecodedBytes
        <4>3. Push(s, b) = s \o more
          BY <3>1, <4>1 DEF Push
        <4>5. Push(s, b) \in Seq(DecodedBytes) /\ Len(Push(s, b)) = Len(s) + Len(more)
          <5>1. s \o more \in Seq(DecodedBytes) /\ Len(s \o more) = Len(s) + Len(more)
            BY <4>2, Joined DEF IsJoin
          <5> QED BY <4>3, <5>1, Zenon
        <4>6. Len(s) \in Nat
          OBVIOUS
        <4> QED BY <1>3, <2>1, <4>2, <4>5, <4>6
      <3>2. CASE b # Bad
        <4>1. PICK more : more = <<b>>
          OBVIOUS
        <4>2. b \in DecodedBytes
          BY <3>2 DEF MailBytes, DecodedBytes
        <4>3. more \in Seq(DecodedBytes) /\ Len(more) = 1
          BY <4>1, <4>2
        <4>4. Push(s, b) = s \o more
          BY <3>2, <4>1 DEF Push
        <4>5. Push(s, b) \in Seq(DecodedBytes) /\ Len(Push(s, b)) = Len(s) + Len(more)
          <5>1. s \o more \in Seq(DecodedBytes) /\ Len(s \o more) = Len(s) + Len(more)
            BY <4>3, Joined DEF IsJoin
          <5> QED BY <4>4, <5>1, Zenon
        <4>6. Len(s) \in Nat
          OBVIOUS
        <4> QED BY <1>3, <2>1, <4>3, <4>5, <4>6
      <3> QED BY <3>1, <3>2
    <2> QED BY <2>2, <2>3, <2>5, <2>6
  <1>4. Len(bytes) \in S
    <2>1. \A n \in 0..Len(bytes) : n \in S
      <3> HIDE DEF S
      <3> QED BY <1>1, <1>2, <1>3, NumberInduction
    <2> QED BY <1>1, <2>1
  <1> QED BY <1>4 DEF Decoded

Header(n) == <<Text, Open, <<"num", n>>, Close, Newline>>
Closing == <<Text, Newline>>
TagLine == <<Tag, Ok, Newline>>

LEMMA PartTypes ==
  ASSUME NEW n \in Nat
  PROVE  Header(n) \in Seq(Tokens) /\ Closing \in Seq(Tokens) /\ TagLine \in Seq(Tokens)
         /\ Len(Header(n)) = 5 /\ Len(Closing) = 2 /\ Len(TagLine) = 3
  <1>1. Text \in Tokens /\ Open \in Tokens /\ Close \in Tokens /\ Newline \in Tokens /\ Tag \in Tokens /\ Ok \in Tokens
    BY DEF Tokens, MailBytes
  <1>2. PICK num : num = <<"num", n>>
    OBVIOUS
  <1>3. num \in Tokens
    BY <1>2 DEF Tokens
  <1>4. <<Text, Open, num, Close, Newline>> \in Seq(Tokens) /\ Len(<<Text, Open, num, Close, Newline>>) = 5
    BY <1>1, <1>3
  <1>5. Closing \in Seq(Tokens) /\ TagLine \in Seq(Tokens) /\ Len(Closing) = 2 /\ Len(TagLine) = 3
    BY <1>1 DEF Closing, TagLine
  <1> QED BY <1>2, <1>4, <1>5 DEF Header

\* A message between its header and the lines that close it, on the wire and in
\* the response.
Framed(n, body) == ((Header(n) \o body) \o Closing) \o TagLine

IsFramed(s, n, body) ==
  /\ s \in Seq(Tokens) /\ Len(s) = Len(body) + 10
  /\ s[1] = Text /\ s[2] = Open /\ s[3] = <<"num", n>> /\ s[4] = Close /\ s[5] = Newline
  /\ \A i \in 1..Len(body) : s[5 + i] = body[i]
  /\ s[Len(body) + 6] = Text /\ s[Len(body) + 7] = Newline
  /\ s[Len(body) + 8] = Tag /\ s[Len(body) + 9] = Ok /\ s[Len(body) + 10] = Newline

LEMMA FramedFacts ==
  ASSUME NEW n \in Nat, NEW body \in Seq(Tokens), NEW s, s = Framed(n, body)
  PROVE  IsFramed(s, n, body)
  <1> USE DEF IsFramed
  <1>1. PICK h, c, t : h = Header(n) /\ c = Closing /\ t = TagLine
    OBVIOUS
  <1>2. h \in Seq(Tokens) /\ c \in Seq(Tokens) /\ t \in Seq(Tokens) /\ Len(h) = 5 /\ Len(c) = 2 /\ Len(t) = 3
    BY <1>1, PartTypes
  <1>3. h[1] = Text /\ h[2] = Open /\ h[3] = <<"num", n>> /\ h[4] = Close /\ h[5] = Newline
    BY <1>1 DEF Header
  <1>4. c[1] = Text /\ c[2] = Newline /\ t[1] = Tag /\ t[2] = Ok /\ t[3] = Newline
    BY <1>1 DEF Closing, TagLine
  <1>5. s = ((h \o body) \o c) \o t
    BY <1>1 DEF Framed
  <1>6. PICK a \in Seq(Tokens) : a = h \o body
    BY <1>2, Joined, Zenon
  <1>7. Len(a) = Len(body) + 5 /\ (\A i \in 1..5 : a[i] = h[i]) /\ (\A i \in 1..Len(body) : a[5 + i] = body[i])
    <2>1. Len(a) = Len(h) + Len(body) /\ (\A i \in 1..Len(h) : a[i] = h[i])
          /\ (\A i \in 1..Len(body) : a[Len(h) + i] = body[i])
      <3>1. h \in Seq(Tokens) /\ body \in Seq(Tokens)
        BY <1>2
      <3>2. h \o body \in Seq(Tokens) /\ IsJoin(h \o body, h, body)
        BY <3>1, Joined, Zenon
      <3> QED BY <1>6, <3>2, Zenon DEF IsJoin
    <2> QED BY <1>2, <2>1
  <1>8. PICK d \in Seq(Tokens) : d = a \o c
    BY <1>2, Joined, Zenon
  <1>9. Len(d) = Len(body) + 7 /\ (\A i \in 1..(Len(body) + 5) : d[i] = a[i])
        /\ d[Len(body) + 6] = c[1] /\ d[Len(body) + 7] = c[2]
    <2>1. Len(d) = Len(a) + Len(c) /\ (\A i \in 1..Len(a) : d[i] = a[i])
          /\ (\A i \in 1..Len(c) : d[Len(a) + i] = c[i])
      <3>1. a \in Seq(Tokens) /\ c \in Seq(Tokens)
        BY <1>2
      <3>2. a \o c \in Seq(Tokens) /\ IsJoin(a \o c, a, c)
        BY <3>1, Joined, Zenon
      <3> QED BY <1>8, <3>2, Zenon DEF IsJoin
    <2>2. \A i \in 1..Len(a) : d[i] = a[i]
      BY <2>1
    <2>3. 1 \in 1..Len(c) /\ 2 \in 1..Len(c)
      BY <1>2
    <2>4. d[Len(a) + 1] = c[1] /\ d[Len(a) + 2] = c[2]
      BY <2>1, <2>3, Zenon
    <2>5. Len(a) + 1 = Len(body) + 6 /\ Len(a) + 2 = Len(body) + 7
      BY <1>7
    <2> QED BY <1>2, <1>7, <2>1, <2>4, <2>5
  <1>10. s = d \o t
    BY <1>5, <1>6, <1>8
  <1>11. s \in Seq(Tokens) /\ Len(s) = Len(body) + 10 /\ (\A i \in 1..(Len(body) + 7) : s[i] = d[i])
         /\ s[Len(body) + 8] = t[1] /\ s[Len(body) + 9] = t[2] /\ s[Len(body) + 10] = t[3]
    <2>1. s \in Seq(Tokens) /\ Len(s) = Len(d) + Len(t) /\ (\A i \in 1..Len(d) : s[i] = d[i])
          /\ (\A i \in 1..Len(t) : s[Len(d) + i] = t[i])
      <3>1. d \in Seq(Tokens) /\ t \in Seq(Tokens)
        BY <1>2
      <3>2. d \o t \in Seq(Tokens) /\ IsJoin(d \o t, d, t)
        BY <3>1, Joined, Zenon
      <3> QED BY <1>10, <3>2, Zenon DEF IsJoin
    <2>2. 1 \in 1..Len(t) /\ 2 \in 1..Len(t) /\ 3 \in 1..Len(t)
      BY <1>2
    <2>3. s[Len(d) + 1] = t[1] /\ s[Len(d) + 2] = t[2] /\ s[Len(d) + 3] = t[3]
      BY <2>1, <2>2, Zenon
    <2>4. Len(d) + 1 = Len(body) + 8 /\ Len(d) + 2 = Len(body) + 9 /\ Len(d) + 3 = Len(body) + 10
      BY <1>9
    <2> QED BY <1>2, <1>9, <2>1, <2>3, <2>4
  <1>12. Len(body) \in Nat
    OBVIOUS
  <1>13. \A i \in 1..(Len(body) + 5) : s[i] = a[i]
    BY <1>9, <1>11, <1>12
  <1>14. s[1] = h[1] /\ s[2] = h[2] /\ s[3] = h[3] /\ s[4] = h[4] /\ s[5] = h[5]
    BY <1>7, <1>12, <1>13
  <1>15. \A i \in 1..Len(body) : s[5 + i] = body[i]
    BY <1>7, <1>12, <1>13
  <1>16. s[Len(body) + 6] = c[1] /\ s[Len(body) + 7] = c[2]
    <2>1. Len(body) + 6 \in 1..(Len(body) + 7) /\ Len(body) + 7 \in 1..(Len(body) + 7)
      BY <1>12
    <2> QED BY <1>9, <1>11, <2>1, Zenon
  <1> QED BY <1>3, <1>4, <1>11, <1>14, <1>15, <1>16

LEMMA AnswerFramed ==
  ASSUME NEW literal \in Seq(MailBytes)
  PROVE  FetchAnswer(literal) = Framed(Len(literal), literal) /\ literal \in Seq(Tokens)
  <1>1. literal \in Seq(Tokens)
    BY DEF Tokens
  <1>2. PICK n \in Nat : n = Len(literal)
    OBVIOUS
  <1>3. PICK h, c, t : h = Header(n) /\ c = Closing /\ t = TagLine
    OBVIOUS
  <1>4. h \in Seq(Tokens) /\ c \in Seq(Tokens) /\ t \in Seq(Tokens)
    BY <1>3, PartTypes
  <1>5. PICK e : e = <<Text, Newline, Tag, Ok, Newline>>
    OBVIOUS
  <1>6. e = c \o t
    BY <1>3, <1>5 DEF Closing, TagLine
  <1>7. FetchAnswer(literal) = (h \o literal) \o e
    BY <1>2, <1>3, <1>5 DEF FetchAnswer, Header
  <1>8. (h \o literal) \o (c \o t) = ((h \o literal) \o c) \o t
    <2>1. PICK a \in Seq(Tokens) : a = h \o literal
      BY <1>1, <1>4, Joined, Zenon
    <2>2. a \o (c \o t) = (a \o c) \o t
      BY <1>4
    <2> QED BY <2>1, <2>2
  <1> QED BY <1>1, <1>2, <1>3, <1>6, <1>7, <1>8 DEF Framed

\* One line of a response and its literal.
IsLine(wire, at, end) ==
  /\ wire \in Seq(Tokens) /\ at \in Nat /\ at >= 1 /\ end \in at..Len(wire)
  /\ wire[end] = Newline /\ (\A i \in at..(end - 1) : wire[i] # Newline)
LineGives(wire, at, end, text, no, line, n, body) ==
  ReadLine(wire, [at |-> at, text |-> text, tagged |-> no]) =
    [at |-> end + n + 1, text |-> (text \o line) \o body, tagged |-> line[1] = Tag]
LEMMA LineRead ==
  ASSUME NEW wire, NEW at, NEW end, IsLine(wire, at, end),
         NEW text, NEW no, no = FALSE, NEW line, line = SubSeq(wire, at, end),
         NEW n, n = LiteralLen(line), NEW body, body = Decoded(SubSeq(wire, end + 1, end + n))
  PROVE  LineGives(wire, at, end, text, no, line, n, body)
  <1> USE DEF IsLine
  <1>1. IndexFrom(wire, at, Newline) = end
    <2>1. Len(wire) \in Nat
      OBVIOUS
    <2> QED BY <2>1, FoundAt
  <1>3. PICK r : r = [at |-> at, text |-> text, tagged |-> no]
    OBVIOUS
  <1>4. r.at = at /\ r.text = text /\ r.tagged = no
    BY <1>3
  <1>5. end # 0
    OBVIOUS
  <1>6. ReadLine(wire, r) = [at |-> end + n + 1, text |-> (text \o line) \o body, tagged |-> line[1] = Tag]
    BY <1>1, <1>4, <1>5, Zenon DEF ReadLine
  <1> QED BY <1>3, <1>6, Zenon DEF LineGives

\* What the lines of a fetch answer announce.
LEMMA HeaderAnnounces ==
  ASSUME NEW n \in Nat
  PROVE  LiteralLen(Header(n)) = n
  <1>1. PICK h : h = Header(n)
    OBVIOUS
  <1>2. h[1] = Text /\ h[2] = Open /\ h[3] = <<"num", n>> /\ h[4] = Close /\ h[5] = Newline /\ Len(h) = 5
        /\ DOMAIN h = 1..5
    BY <1>1 DEF Header
  <1> DEFINE opens == {i \in DOMAIN h : h[i] = Open}
  <1>3. opens = {2}
    <2>1. \A i \in 1..5 : i = 1 \/ i = 2 \/ i = 3 \/ i = 4 \/ i = 5
      OBVIOUS
    <2>2. h[3] # Open
      BY <1>2, TokenFacts
    <2>3. \A i \in DOMAIN h : h[i] = Open => i = 2
      BY <1>2, <2>1, <2>2, TokenFacts
    <2>4. 2 \in DOMAIN h
      BY <1>2
    <2> QED BY <1>2, <2>3, <2>4
  <1>4. (CHOOSE i \in opens : \A j \in opens : j <= i) = 2
    <2> HIDE DEF opens
    <2> QED BY <1>3
  <1>5. h[2 + 1][1] = "num" /\ h[2 + 1][2] = n /\ h[2 + 2] = Close
    <2>1. 2 + 1 = 3 /\ 2 + 2 = 4
      OBVIOUS
    <2> QED BY <1>2, <2>1, TokenFacts
  <1>6. LiteralLen(h) = IF opens = {} \/ Len(h) < 4 THEN 0
                        ELSE IF Len(h) >= 2 + 2 /\ h[2 + 1][1] = "num" /\ h[2 + 2] = Close THEN h[2 + 1][2] ELSE 0
    <2> DEFINE place == CHOOSE i \in opens : \A j \in opens : j <= i
    <2>1. LiteralLen(h) = IF opens = {} \/ Len(h) < 4 THEN 0
                          ELSE IF Len(h) >= place + 2 /\ h[place + 1][1] = "num" /\ h[place + 2] = Close
                          THEN h[place + 1][2] ELSE 0
      BY DEF LiteralLen
    <2> HIDE DEF place
    <2>2. place = 2
      BY <1>4 DEF place
    <2> HIDE DEF opens
    <2> QED BY <2>1, <2>2, Zenon
  <1>7. opens # {} /\ ~(Len(h) < 4) /\ Len(h) >= 2 + 2
    BY <1>2, <1>3
  <1> HIDE DEF opens
  <1> QED BY <1>1, <1>5, <1>6, <1>7

LEMMA LinesAnnounceNothing == LiteralLen(Closing) = 0 /\ LiteralLen(TagLine) = 0
  <1>1. PICK c, t : c = Closing /\ t = TagLine
    OBVIOUS
  <1>2. DOMAIN c = 1..2 /\ c[1] = Text /\ c[2] = Newline
    BY <1>1 DEF Closing
  <1>3. DOMAIN t = 1..3 /\ t[1] = Tag /\ t[2] = Ok /\ t[3] = Newline
    BY <1>1 DEF TagLine
  <1>4. (\A i \in 1..2 : i = 1 \/ i = 2) /\ (\A i \in 1..3 : i = 1 \/ i = 2 \/ i = 3)
    OBVIOUS
  <1>5. \A i \in DOMAIN c : c[i] # Open
    BY <1>2, <1>4, TokenFacts
  <1>6. \A i \in DOMAIN t : t[i] # Open
    BY <1>3, <1>4, TokenFacts
  <1> QED BY <1>1, <1>5, <1>6, NothingAnnounced

LEMMA NothingDecoded == Decoded(<<>>) = <<>>
  <1>1. PICK none : none = <<>>
    OBVIOUS
  <1>2. Len(none) = 0
    BY <1>1
  <1>3. Lossy(none)[0] = None
    BY <1>2, LossyStates
  <1> QED BY <1>1, <1>2, <1>3 DEF Decoded, None

\* A fetch answer is read whole, with the literal decoded.
LEMMA AnswerRead ==
  ASSUME NEW literal \in Seq(MailBytes)
  PROVE  ReadResponse(FetchAnswer(literal)) = Framed(Len(literal), Decoded(literal))
  <1>1. PICK n \in Nat : n = Len(literal)
    OBVIOUS
  <1>2. PICK wire : wire = FetchAnswer(literal)
    OBVIOUS
  <1>3. wire = Framed(n, literal) /\ literal \in Seq(Tokens)
    BY <1>1, <1>2, AnswerFramed
  <1>4. /\ wire \in Seq(Tokens) /\ Len(wire) = n + 10
        /\ wire[1] = Text /\ wire[2] = Open /\ wire[3] = <<"num", n>> /\ wire[4] = Close /\ wire[5] = Newline
        /\ \A i \in 1..n : wire[5 + i] = literal[i]
        /\ wire[n + 6] = Text /\ wire[n + 7] = Newline
        /\ wire[n + 8] = Tag /\ wire[n + 9] = Ok /\ wire[n + 10] = Newline
    <2>1. IsFramed(wire, n, literal)
      BY <1>3, FramedFacts, Zenon
    <2> QED BY <1>1, <2>1, Zenon DEF IsFramed
  <1>5. PICK none, no, h, c, t, d : none = <<>> /\ no = FALSE /\ h = Header(n) /\ c = Closing /\ t = TagLine
                                    /\ d = Decoded(literal)
    OBVIOUS
  <1>6. h \in Seq(Tokens) /\ c \in Seq(Tokens) /\ t \in Seq(Tokens) /\ Len(h) = 5 /\ Len(c) = 2 /\ Len(t) = 3
    BY <1>5, PartTypes
  <1>7. /\ h[1] = Text /\ h[2] = Open /\ h[3] = <<"num", n>> /\ h[4] = Close /\ h[5] = Newline
        /\ c[1] = Text /\ c[2] = Newline /\ t[1] = Tag /\ t[2] = Ok /\ t[3] = Newline
    BY <1>5 DEF Header, Closing, TagLine
  <1>8. SubSeq(wire, 1, 5) = h
    <2>1. \A i \in 1..Len(h) : wire[1 + i - 1] = h[i]
      <3> SUFFICES ASSUME NEW i \in 1..5 PROVE wire[1 + i - 1] = h[i]
        BY <1>6
      <3>1. i = 1 \/ i = 2 \/ i = 3 \/ i = 4 \/ i = 5
        OBVIOUS
      <3>2. 1 + i - 1 = i
        OBVIOUS
      <3>3. wire[i] = h[i]
        BY <1>4, <1>7, <3>1
      <3> QED BY <3>2, <3>3, Zenon
    <2>2. IsPart(wire, 1, h)
      BY <1>4, <1>6, <2>1 DEF IsPart
    <2>3. 1 \in Nat /\ 1 >= 1 /\ 1 + Len(h) - 1 = 5
      BY <1>6
    <2>4. wire \in Seq(Tokens) /\ h \in Seq(Tokens)
      BY <1>4, <1>6
    <2>5. SubSeq(wire, 1, 1 + Len(h) - 1) = h
      BY <2>2, <2>3, <2>4, PartOf, Zenon
    <2> QED BY <2>3, <2>5, Zenon
  <1>9. SubSeq(wire, 6, n + 5) = literal
    <2>1. \A i \in 1..Len(literal) : wire[6 + i - 1] = literal[i]
      <3> SUFFICES ASSUME NEW i \in 1..n PROVE wire[6 + i - 1] = literal[i]
        BY <1>1
      <3>1. 6 + i - 1 = 5 + i
        OBVIOUS
      <3> QED BY <1>4, <3>1
    <2>2. IsPart(wire, 6, literal)
      BY <1>1, <1>4, <2>1 DEF IsPart
    <2>3. 6 \in Nat /\ 6 >= 1 /\ 6 + Len(literal) - 1 = n + 5
      BY <1>1
    <2>4. wire \in Seq(Tokens) /\ literal \in Seq(Tokens)
      BY <1>3, <1>4
    <2>5. SubSeq(wire, 6, 6 + Len(literal) - 1) = literal
      BY <2>2, <2>3, <2>4, PartOf, Zenon
    <2> QED BY <2>3, <2>5, Zenon
  <1>10. SubSeq(wire, n + 6, n + 7) = c
    <2>1. \A i \in 1..Len(c) : wire[(n + 6) + i - 1] = c[i]
      <3> SUFFICES ASSUME NEW i \in 1..2 PROVE wire[(n + 6) + i - 1] = c[i]
        BY <1>6
      <3>1. i = 1 \/ i = 2
        OBVIOUS
      <3> QED BY <1>4, <1>7, <3>1
    <2>2. IsPart(wire, n + 6, c)
      BY <1>4, <1>6, <2>1 DEF IsPart
    <2>3. n + 6 \in Nat /\ n + 6 >= 1 /\ (n + 6) + Len(c) - 1 = n + 7
      BY <1>6
    <2>4. wire \in Seq(Tokens) /\ c \in Seq(Tokens)
      BY <1>4, <1>6
    <2>5. SubSeq(wire, n + 6, (n + 6) + Len(c) - 1) = c
      BY <2>2, <2>3, <2>4, PartOf, Zenon
    <2> QED BY <2>3, <2>5, Zenon
  <1>11. SubSeq(wire, n + 8, n + 10) = t
    <2>1. \A i \in 1..Len(t) : wire[(n + 8) + i - 1] = t[i]
      <3> SUFFICES ASSUME NEW i \in 1..3 PROVE wire[(n + 8) + i - 1] = t[i]
        BY <1>6
      <3>1. i = 1 \/ i = 2 \/ i = 3
        OBVIOUS
      <3> QED BY <1>4, <1>7, <3>1
    <2>2. IsPart(wire, n + 8, t)
      BY <1>4, <1>6, <2>1 DEF IsPart
    <2>3. n + 8 \in Nat /\ n + 8 >= 1 /\ (n + 8) + Len(t) - 1 = n + 10
      BY <1>6
    <2>4. wire \in Seq(Tokens) /\ t \in Seq(Tokens)
      BY <1>4, <1>6
    <2>5. SubSeq(wire, n + 8, (n + 8) + Len(t) - 1) = t
      BY <2>2, <2>3, <2>4, PartOf, Zenon
    <2> QED BY <2>3, <2>5, Zenon
  <1>12. Len(wire) \in Nat /\ Rounds(wire)[0] = Unread
         /\ (\A k \in 1..Len(wire) : Rounds(wire)[k] = ReadLine(wire, Rounds(wire)[k - 1]))
    <2>1. Len(wire) \in Nat
      BY <1>4
    <2> QED BY <2>1, RoundStates, Zenon
  <1>13. PICK first : first = (none \o h) \o d
    OBVIOUS
  <1>14. Rounds(wire)[1] = [at |-> n + 6, text |-> first, tagged |-> no]
    <2>1. Unread = [at |-> 1, text |-> none, tagged |-> no]
      BY <1>5 DEF Unread
    <2>2. 1 \in Nat /\ 1 >= 1 /\ 5 \in 1..Len(wire) /\ wire[5] = Newline /\ (\A i \in 1..(5 - 1) : wire[i] # Newline)
      <3>1. \A i \in 1..(5 - 1) : i = 1 \/ i = 2 \/ i = 3 \/ i = 4
        OBVIOUS
      <3>2. wire[1] # Newline /\ wire[2] # Newline /\ wire[3] # Newline /\ wire[4] # Newline
        BY <1>4, TokenFacts
      <3>3. 5 \in 1..Len(wire)
        BY <1>4
      <3>4. \A i \in 1..(5 - 1) : wire[i] # Newline
        BY <3>1, <3>2, Zenon
      <3>5. wire[5] = Newline
        BY <1>4
      <3> QED BY <3>3, <3>4, <3>5
    <2>3. LiteralLen(h) = n /\ SubSeq(wire, 5 + 1, 5 + n) = literal /\ 5 + n + 1 = n + 6
      <3>1. 5 + 1 = 6 /\ 5 + n = n + 5 /\ 5 + n + 1 = n + 6
        OBVIOUS
      <3>2. LiteralLen(h) = n
        BY <1>5, HeaderAnnounces, Zenon
      <3> QED BY <1>9, <3>1, <3>2, Zenon
    <2>4. d = Decoded(SubSeq(wire, 5 + 1, 5 + n))
      BY <1>5, <2>3, Zenon
    <2>5. ReadLine(wire, [at |-> 1, text |-> none, tagged |-> no]) =
            [at |-> 5 + n + 1, text |-> (none \o h) \o d, tagged |-> h[1] = Tag]
      <3>1. no = FALSE /\ h = SubSeq(wire, 1, 5) /\ n = LiteralLen(h) /\ wire \in Seq(Tokens)
        BY <1>4, <1>5, <1>8, <2>3, Zenon
      <3>2. IsLine(wire, 1, 5)
        BY <1>4, <2>2, Zenon DEF IsLine
      <3>3. LineGives(wire, 1, 5, none, no, h, n, d)
        BY <3>2, <2>4, <3>1, LineRead, Zenon
      <3> QED BY <3>3, Zenon DEF LineGives
    <2>6. (h[1] = Tag) = no
      <3>1. h[1] # Tag
        BY <1>7, TokenFacts
      <3> QED BY <1>5, <3>1, Zenon
    <2>7. 1 \in 1..Len(wire) /\ 1 - 1 = 0
      BY <1>4
    <2>8. Rounds(wire)[1] = ReadLine(wire, Rounds(wire)[0])
      BY <1>12, <2>7, Zenon
    <2>9. Rounds(wire)[1] = [at |-> 5 + n + 1, text |-> (none \o h) \o d, tagged |-> h[1] = Tag]
      BY <1>12, <2>1, <2>5, <2>8, Zenon
    <2> QED BY <1>13, <2>3, <2>6, <2>9, Zenon
  <1>15. PICK second : second = (first \o c) \o none
    OBVIOUS
  <1>16. Rounds(wire)[2] = [at |-> n + 8, text |-> second, tagged |-> no]
    <2>2. n + 6 \in Nat /\ n + 6 >= 1 /\ n + 7 \in (n + 6)..Len(wire) /\ wire[n + 7] = Newline
          /\ (\A i \in (n + 6)..((n + 7) - 1) : wire[i] # Newline)
      <3>1. \A i \in (n + 6)..((n + 7) - 1) : i = n + 6
        OBVIOUS
      <3>2. wire[n + 6] # Newline
        BY <1>4, TokenFacts
      <3>3. n + 6 \in Nat /\ n + 6 >= 1 /\ n + 7 \in (n + 6)..Len(wire)
        BY <1>4
      <3> QED BY <1>4, <3>1, <3>2, <3>3
    <2>3. 0 = LiteralLen(c) /\ (n + 7) + 0 + 1 = n + 8
      BY <1>5, LinesAnnounceNothing
    <2>4. none = Decoded(SubSeq(wire, (n + 7) + 1, (n + 7) + 0))
      <3>1. SubSeq(wire, (n + 7) + 1, (n + 7) + 0) = <<>>
        BY <1>4
      <3> QED BY <1>5, <3>1, NothingDecoded, Zenon
    <2>5. ReadLine(wire, [at |-> n + 6, text |-> first, tagged |-> no]) =
            [at |-> (n + 7) + 0 + 1, text |-> (first \o c) \o none, tagged |-> c[1] = Tag]
      <3>1. no = FALSE /\ c = SubSeq(wire, n + 6, n + 7) /\ wire \in Seq(Tokens)
        BY <1>4, <1>5, <1>10, Zenon
      <3>2. IsLine(wire, n + 6, n + 7)
        BY <1>4, <2>2, Zenon DEF IsLine
      <3>3. LineGives(wire, n + 6, n + 7, first, no, c, 0, none)
        BY <3>2, <2>3, <2>4, <3>1, LineRead, Zenon
      <3> QED BY <3>3, Zenon DEF LineGives
    <2>6. (c[1] = Tag) = no
      <3>1. c[1] # Tag
        BY <1>7, TokenFacts
      <3> QED BY <1>5, <3>1, Zenon
    <2>7. 2 \in 1..Len(wire) /\ 2 - 1 = 1
      BY <1>4
    <2>8. Rounds(wire)[2] = ReadLine(wire, Rounds(wire)[1])
      BY <1>12, <2>7, Zenon
    <2>9. Rounds(wire)[2] = [at |-> (n + 7) + 0 + 1, text |-> (first \o c) \o none, tagged |-> c[1] = Tag]
      BY <1>14, <2>5, <2>8, Zenon
    <2> QED BY <1>15, <2>3, <2>6, <2>9, Zenon
  <1>17. PICK third, yes : third = (second \o t) \o none /\ yes = TRUE
    OBVIOUS
  <1>18. Rounds(wire)[3] = [at |-> n + 11, text |-> third, tagged |-> yes]
    <2>2. n + 8 \in Nat /\ n + 8 >= 1 /\ n + 10 \in (n + 8)..Len(wire) /\ wire[n + 10] = Newline
          /\ (\A i \in (n + 8)..((n + 10) - 1) : wire[i] # Newline)
      <3>1. \A i \in (n + 8)..((n + 10) - 1) : i = n + 8 \/ i = n + 9
        OBVIOUS
      <3>2. wire[n + 8] # Newline /\ wire[n + 9] # Newline
        BY <1>4, TokenFacts
      <3>3. n + 8 \in Nat /\ n + 8 >= 1 /\ n + 10 \in (n + 8)..Len(wire)
        BY <1>4
      <3> QED BY <1>4, <3>1, <3>2, <3>3
    <2>3. 0 = LiteralLen(t) /\ (n + 10) + 0 + 1 = n + 11
      BY <1>5, LinesAnnounceNothing
    <2>4. none = Decoded(SubSeq(wire, (n + 10) + 1, (n + 10) + 0))
      <3>1. SubSeq(wire, (n + 10) + 1, (n + 10) + 0) = <<>>
        BY <1>4
      <3> QED BY <1>5, <3>1, NothingDecoded, Zenon
    <2>5. ReadLine(wire, [at |-> n + 8, text |-> second, tagged |-> no]) =
            [at |-> (n + 10) + 0 + 1, text |-> (second \o t) \o none, tagged |-> t[1] = Tag]
      <3>1. no = FALSE /\ t = SubSeq(wire, n + 8, n + 10) /\ wire \in Seq(Tokens)
        BY <1>4, <1>5, <1>11, Zenon
      <3>2. IsLine(wire, n + 8, n + 10)
        BY <1>4, <2>2, Zenon DEF IsLine
      <3>3. LineGives(wire, n + 8, n + 10, second, no, t, 0, none)
        BY <3>2, <2>3, <2>4, <3>1, LineRead, Zenon
      <3> QED BY <3>3, Zenon DEF LineGives
    <2>6. (t[1] = Tag) = yes
      BY <1>7, <1>17, Zenon
    <2>7. 3 \in 1..Len(wire) /\ 3 - 1 = 2
      BY <1>4
    <2>8. Rounds(wire)[3] = ReadLine(wire, Rounds(wire)[2])
      BY <1>12, <2>7, Zenon
    <2>9. Rounds(wire)[3] = [at |-> (n + 10) + 0 + 1, text |-> (second \o t) \o none, tagged |-> t[1] = Tag]
      BY <1>16, <2>5, <2>8, Zenon
    <2> QED BY <1>17, <2>3, <2>6, <2>9, Zenon
  <1>19. \A k \in 3..Len(wire) : Rounds(wire)[k] = Rounds(wire)[3]
    <2> DEFINE S == {k \in 3..Len(wire) : Rounds(wire)[k] = Rounds(wire)[3]}
    <2>1. 3 \in S
      BY <1>4
    <2>2. ASSUME NEW k \in 3..Len(wire), k \in S, k < Len(wire) PROVE k + 1 \in S
      <3>1. k + 1 \in 1..Len(wire) /\ (k + 1) - 1 = k /\ k + 1 \in 3..Len(wire)
        BY <1>12, <2>2
      <3>2. Rounds(wire)[k + 1] = ReadLine(wire, Rounds(wire)[k])
        BY <1>12, <3>1, Zenon
      <3>3. PICK r : r = Rounds(wire)[k]
        OBVIOUS
      <3>4. r = Rounds(wire)[3] /\ r.tagged
        BY <1>17, <1>18, <2>2, <3>3
      <3>5. ReadLine(wire, r) = r
        BY <3>4, Zenon DEF ReadLine
      <3>6. Rounds(wire)[k + 1] = Rounds(wire)[3]
        BY <3>2, <3>3, <3>4, <3>5, Zenon
      <3> QED BY <3>1, <3>6
    <2>3. 3 \in Nat /\ Len(wire) \in Nat
      BY <1>12
    <2> HIDE DEF S
    <2>4. \A k \in 3..Len(wire) : k \in S
      BY <2>1, <2>2, <2>3, NumberInduction
    <2> QED BY <2>4 DEF S
  <1>20. Rounds(wire)[Len(wire)] = [at |-> n + 11, text |-> third, tagged |-> yes]
    <2>1. Len(wire) \in 3..Len(wire)
      BY <1>4
    <2> QED BY <1>18, <1>19, <2>1, Zenon
  <1>21. ReadResponse(wire) = third
    <2>1. PICK r : r = [at |-> n + 11, text |-> third, tagged |-> yes]
      OBVIOUS
    <2>2. r.tagged /\ r.text = third
      BY <1>17, <2>1
    <2> QED BY <1>20, <2>1, <2>2, Zenon DEF ReadResponse
  <1>22. third = Framed(n, d)
    <2>1. d \in Seq(Tokens)
      BY <1>5, MailDecoded DEF DecodedBytes, Tokens, MailBytes
    <2>2. none \o h = h
      BY <1>5, <1>6
    <2>3. first \in Seq(Tokens)
      BY <1>6, <1>13, <2>1, <2>2
    <2>4. first \o c \in Seq(Tokens)
      BY <1>6, <2>3
    <2>5. second = first \o c
      BY <1>5, <1>15, <2>4
    <2>6. second \o t \in Seq(Tokens)
      BY <1>6, <2>4, <2>5
    <2>7. third = second \o t
      BY <1>5, <1>17, <2>6
    <2>8. third = ((h \o d) \o c) \o t
      BY <1>13, <2>2, <2>5, <2>7, Zenon
    <2> QED BY <1>5, <2>8, Zenon DEF Framed
  <1> QED BY <1>1, <1>2, <1>5, <1>21, <1>22, Zenon

\* A round that changes nothing is the last that could.
LEMMA CutsStay ==
  ASSUME NEW response, Len(response) \in Nat, NEW p, CutLiteral(response, p) = p,
         NEW k \in 0..Len(response), Cuts(response)[k] = p
  PROVE  ParseFetch(response) = p
  <1> DEFINE S == {i \in k..Len(response) : Cuts(response)[i] = p}
  <1>1. k \in S
    OBVIOUS
  <1>2. ASSUME NEW i \in k..Len(response), i \in S, i < Len(response) PROVE i + 1 \in S
    <2>1. i + 1 \in 1..Len(response) /\ (i + 1) - 1 = i /\ i + 1 \in k..Len(response)
      BY <1>2
    <2>2. Cuts(response)[i + 1] = CutLiteral(response, Cuts(response)[i])
      BY <2>1, CutStates, Zenon
    <2>3. Cuts(response)[i] = p
      BY <1>2
    <2>4. Cuts(response)[i + 1] = p
      BY <2>2, <2>3, Zenon
    <2> QED BY <2>1, <2>4
  <1>3. k \in Nat
    OBVIOUS
  <1>4. Len(response) \in S
    <2>1. Len(response) \in k..Len(response)
      OBVIOUS
    <2>2. \A i \in k..Len(response) : i \in S
      <3> HIDE DEF S
      <3> QED BY <1>1, <1>2, <1>3, NumberInduction
    <2> QED BY <2>1, <2>2
  <1> QED BY <1>4 DEF ParseFetch

\* The mail of an answer is cut out of the response.
IsCut(f, n, body, left) ==
  IF f.ok THEN f.messages = <<SubSeq(body, 1, n)>> ELSE \E i \in DOMAIN left : left[i] = Open
LEMMA MailCut ==
  ASSUME NEW n \in Nat, NEW body \in Seq(DecodedBytes), Len(body) >= n, NEW f, f = ParseFetch(Framed(n, body)),
         NEW left, left = SubSeq(body, n + 1, Len(body))
  PROVE  IsCut(f, n, body, left)
  <1>1. PICK response, l : response = Framed(n, body) /\ l = Len(body)
    OBVIOUS
  <1>2. body \in Seq(Tokens) /\ l \in Nat /\ l >= n
    BY <1>1 DEF DecodedBytes, Tokens, MailBytes
  <1>3. /\ response \in Seq(Tokens) /\ Len(response) = l + 10
        /\ response[1] = Text /\ response[2] = Open /\ response[3] = <<"num", n>> /\ response[4] = Close
        /\ response[5] = Newline
        /\ \A i \in 1..l : response[5 + i] = body[i]
        /\ response[l + 6] = Text /\ response[l + 7] = Newline
        /\ response[l + 8] = Tag /\ response[l + 9] = Ok /\ response[l + 10] = Newline
    <2>1. IsFramed(response, n, body)
      BY <1>1, <1>2, FramedFacts, Zenon
    <2> QED BY <1>1, <2>1, Zenon DEF IsFramed
  <1>4. PICK none, yes, no, behind : none = <<>> /\ yes = TRUE /\ no = FALSE /\ behind = 6 + n
    OBVIOUS
  <1>5. PICK part : part = SubSeq(body, 1, n)
    OBVIOUS
  <1>6. part \in Seq(Tokens) /\ Len(part) = n /\ (\A i \in 1..n : part[i] = body[i])
    BY <1>1, <1>2, <1>5
  <1>7. SubSeq(response, 6, (6 + n) - 1) = part
    <2>1. IsPart(response, 6, part)
      <3>1. ASSUME NEW i \in 1..n PROVE response[6 + i - 1] = part[i]
        <4>1. 6 + i - 1 = 5 + i /\ i \in 1..l
          BY <1>2
        <4>2. response[5 + i] = body[i] /\ part[i] = body[i]
          BY <1>3, <1>6, <4>1, Zenon
        <4> QED BY <4>1, <4>2, Zenon
      <3>2. 6 + Len(part) <= Len(response) + 1
        BY <1>2, <1>3, <1>6
      <3> QED BY <1>6, <3>1, <3>2, Zenon DEF IsPart
    <2>2. 6 \in Nat /\ 6 >= 1
      OBVIOUS
    <2>3. SubSeq(response, 6, 6 + Len(part) - 1) = part
      BY <1>3, <1>6, <2>1, <2>2, PartOf, Zenon
    <2>4. 6 + Len(part) - 1 = (6 + n) - 1
      BY <1>6
    <2> QED BY <2>3, <2>4, Zenon
  <1>0. PICK one : one = Append(none, part)
    OBVIOUS
  <1>8. PICK cut : cut = [cursor |-> behind, ok |-> yes, messages |-> one]
    OBVIOUS
  <1>9. CutLiteral(response, Uncut) = cut
    <2>1. PICK p : p = [cursor |-> 1, ok |-> yes, messages |-> none]
      OBVIOUS
    <2>2. p = Uncut /\ p.cursor = 1 /\ p.ok /\ p.messages = none
      BY <1>4, <2>1 DEF Uncut
    <2>3. IndexFrom(response, 1, Open) = 2
      <3>1. \A i \in 1..(2 - 1) : i = 1
        OBVIOUS
      <3>2. response[1] # Open
        BY <1>3, TokenFacts
      <3>3. \A i \in 1..(2 - 1) : response[i] # Open
        BY <3>1, <3>2, Zenon
      <3>4. Len(response) \in Nat /\ 2 \in 1..Len(response) /\ 1 \in Nat /\ response[2] = Open
        BY <1>2, <1>3
      <3> QED BY <3>3, <3>4, FoundAt, Zenon
    <2>4. response[2 + 1][1] = "num" /\ response[2 + 1][2] = n
      <3>1. 2 + 1 = 3
        OBVIOUS
      <3> QED BY <1>3, <3>1, TokenFacts
    <2>5. 2 + 4 = 6 /\ ~(2 = 0) /\ ~(2 + 2 > Len(response)) /\ ~(6 + n > Len(response) + 1)
      BY <1>2, <1>3
    <2>6. CutLiteral(response, p) = [p EXCEPT !.cursor = behind, !.messages = Append(p.messages, SubSeq(response, 6, (6 + n) - 1))]
      <3> DEFINE place == IndexFrom(response, p.cursor, Open)
                 from == place + 4
                 m == response[place + 1][2]
                 Shift(c, cutOut) == [p EXCEPT !.cursor = c, !.messages = cutOut]
      <3>1. CutLiteral(response, p) =
              IF place = 0 \/ ~p.ok THEN p
              ELSE IF place + 2 > Len(response) \/ response[place + 1][1] # "num" THEN [p EXCEPT !.ok = FALSE]
              ELSE IF from + m > Len(response) + 1 THEN [p EXCEPT !.ok = FALSE]
              ELSE [p EXCEPT !.cursor = from + m, !.messages = Append(p.messages, SubSeq(response, from, from + m - 1))]
        BY DEF CutLiteral
      <3>2. place = 2 /\ from = 6 /\ m = n
        BY <2>2, <2>3, <2>4, <2>5, Zenon
      <3>3. ~(place = 0 \/ ~p.ok) /\ ~(place + 2 > Len(response) \/ response[place + 1][1] # "num")
            /\ ~(from + m > Len(response) + 1)
        <4> HIDE DEF place, from, m
        <4> QED BY <2>2, <2>4, <2>5, <3>2, Zenon
      <3>4. CutLiteral(response, p) =
              Shift(from + m, Append(p.messages, SubSeq(response, from, from + m - 1)))
        <4> HIDE DEF place, from, m
        <4> QED BY <3>1, <3>3, Zenon
      <3>5. CutLiteral(response, p) = Shift(behind, Append(p.messages, SubSeq(response, 6, (6 + n) - 1)))
        <4> HIDE DEF place, from, m, Shift
        <4>1. from + m = behind
          BY <1>4, <3>2, Zenon
        <4>2. SubSeq(response, from, from + m - 1) = SubSeq(response, 6, (6 + n) - 1)
          BY <3>2
        <4> QED BY <3>4, <4>1, <4>2, Zenon
      <3> QED BY <3>5
    <2>7. [p EXCEPT !.cursor = behind, !.messages = one] = [[p EXCEPT !.cursor = behind] EXCEPT !.messages = one]
      OBVIOUS
    <2>8. [p EXCEPT !.cursor = behind] = [cursor |-> behind, ok |-> yes, messages |-> none]
      BY <2>1
    <2>9. Append(p.messages, SubSeq(response, 6, (6 + n) - 1)) = one
      BY <1>0, <1>7, <2>2, Zenon
    <2>10. CutLiteral(response, p) = [p EXCEPT !.cursor = behind, !.messages = one]
      BY <2>6, <2>9, Zenon
    <2>11. [[p EXCEPT !.cursor = behind] EXCEPT !.messages = one] = cut
      <3>1. PICK q : q = [cursor |-> behind, ok |-> yes, messages |-> none]
        OBVIOUS
      <3>2. [q EXCEPT !.messages = one] = cut
        BY <1>8, <3>1
      <3> QED BY <2>8, <3>1, <3>2, Zenon
    <2> QED BY <2>2, <2>7, <2>10, <2>11, Zenon
  <1>10. Len(response) \in Nat /\ 0 \in 0..Len(response) /\ 1 \in 1..Len(response) /\ 2 \in 1..Len(response)
         /\ 1 \in 0..Len(response) /\ 2 \in 0..Len(response) /\ 1 - 1 = 0 /\ 2 - 1 = 1
    BY <1>2, <1>3
  <1>11. Cuts(response)[1] = cut /\ Cuts(response)[2] = CutLiteral(response, cut)
    <2>1. Cuts(response)[0] = Uncut /\ Cuts(response)[1] = CutLiteral(response, Cuts(response)[0])
          /\ Cuts(response)[2] = CutLiteral(response, Cuts(response)[1])
      BY <1>10, CutStates, Zenon
    <2> QED BY <1>9, <2>1, Zenon
  <1>12. cut.cursor = behind /\ cut.ok = yes /\ cut.messages = one
    BY <1>8
  <1>13. 6 + n \in Nat
    OBVIOUS
  <1>14. CASE \A i \in (6 + n)..Len(response) : response[i] # Open
    <2>1. IndexFrom(response, cut.cursor, Open) = 0
      <3>1. IndexFrom(response, 6 + n, Open) = 0
        BY <1>10, <1>13, <1>14, FoundNowhere, Zenon
      <3> QED BY <1>4, <1>12, <3>1, Zenon
    <2>2. CutLiteral(response, cut) = cut
      BY <2>1, Zenon DEF CutLiteral
    <2>3. f = cut
      BY <1>1, <1>10, <1>11, <2>2, CutsStay, Zenon
    <2>4. one = <<part>>
      BY <1>0, <1>4
    <2> QED BY <1>4, <1>5, <1>12, <2>3, <2>4, Zenon DEF IsCut
  <1>15. CASE ~(\A i \in (6 + n)..Len(response) : response[i] # Open)
    <2>1. PICK k : k = IndexFrom(response, 6 + n, Open)
      OBVIOUS
    <2>2. k \in (6 + n)..Len(response) /\ response[k] = Open
      BY <1>10, <1>13, <1>15, <2>1, FoundSomewhere, Zenon
    <2>3. k \in Nat /\ k <= l + 5
      <3>1. k \in Nat /\ k <= l + 10
        BY <1>2, <1>3, <2>2
      <3>2. response[l + 6] # Open /\ response[l + 7] # Open /\ response[l + 8] # Open /\ response[l + 9] # Open
            /\ response[l + 10] # Open
        BY <1>3, TokenFacts
      <3>3. k # l + 6 /\ k # l + 7 /\ k # l + 8 /\ k # l + 9 /\ k # l + 10
        BY <2>2, <3>2, Zenon
      <3> QED BY <1>2, <3>1, <3>3
    <2>4. k - 5 \in 1..l /\ 5 + (k - 5) = k /\ k - 5 >= n + 1
      BY <1>2, <2>2, <2>3
    <2>5. body[k - 5] = Open
      BY <1>3, <2>2, <2>4, Zenon
    <2>6. \E i \in DOMAIN left : left[i] = Open
      <3>1. Len(left) = l - n /\ (\A i \in 1..(l - n) : left[i] = body[n + i]) /\ DOMAIN left = 1..(l - n)
        BY <1>1, <1>2
      <3>2. (k - 5) - n \in 1..(l - n) /\ n + ((k - 5) - n) = k - 5
        BY <1>2, <2>4
      <3>3. left[(k - 5) - n] = Open
        BY <2>5, <3>1, <3>2, Zenon
      <3> QED BY <3>1, <3>2, <3>3, Zenon
    <2>7. response[k + 1][1] # "num"
      <3>1. CASE k = l + 5
        <4>1. k + 1 = l + 6
          BY <1>2, <3>1
        <4>2. Text \in DecodedBytes
          BY DEF DecodedBytes
        <4> QED BY <1>3, <4>1, <4>2, TokenFacts
      <3>2. CASE k # l + 5
        <4>1. k - 4 \in 1..l /\ 5 + (k - 4) = k + 1
          BY <1>2, <2>3, <2>4, <3>2
        <4>2. response[k + 1] = body[k - 4]
          BY <1>3, <4>1, Zenon
        <4>3. body[k - 4] \in DecodedBytes
          BY <1>1, <4>1
        <4> QED BY <4>2, <4>3, TokenFacts
      <3> QED BY <3>1, <3>2
    <2>8. PICK bad : bad = [cut EXCEPT !.ok = no]
      OBVIOUS
    <2>9. bad.ok = no
      BY <1>8, <2>8
    <2>10. CutLiteral(response, cut) = bad
      <3>1. k # 0
        BY <2>4
      <3>2. k = IndexFrom(response, cut.cursor, Open)
        BY <1>4, <1>12, <2>1, Zenon
      <3>3. CutLiteral(response, cut) = [cut EXCEPT !.ok = FALSE]
        BY <1>4, <1>12, <2>7, <3>1, <3>2, Zenon DEF CutLiteral
      <3> QED BY <1>4, <2>8, <3>3, Zenon
    <2>11. CutLiteral(response, bad) = bad
      BY <1>4, <2>9, Zenon DEF CutLiteral
    <2>12. Cuts(response)[2] = bad
      BY <1>11, <2>10, Zenon
    <2>13. f = bad
      BY <1>1, <1>10, <2>11, <2>12, CutsStay, Zenon
    <2> QED BY <1>4, <2>6, <2>9, <2>13, Zenon DEF IsCut
  <1> QED BY <1>14, <1>15

LEMMA MailsFetched == mail \in Seq(MailBytes) => MailFetchedWhole
  <1>1. SUFFICES ASSUME mail \in Seq(MailBytes) PROVE MailFetchedWhole
    OBVIOUS
  <1>2. PICK n, bytes, f, body, left :
          /\ n = Len(bytes) /\ bytes = mail /\ f = FetchedMails(bytes) /\ body = Decoded(bytes)
          /\ left = SubSeq(body, n + 1, Len(body))
    OBVIOUS
  <1>3. n \in Nat /\ bytes \in Seq(MailBytes)
    BY <1>1, <1>2
  <1>4. body \in Seq(DecodedBytes) /\ Len(body) >= n
    BY <1>2, <1>3, MailDecoded
  <1>5. f = ParseFetch(Framed(n, body))
    BY <1>2, <1>3, AnswerRead, Zenon DEF FetchedMails
  <1>6. IsCut(f, n, body, left)
    BY <1>2, <1>3, <1>4, <1>5, MailCut, Zenon
  <1> QED BY <1>2, <1>6, Zenon DEF MailFetchedWhole, IsCut

\* What the readers are given.
InputInv ==
  /\ mail \in Seq(MailBytes) /\ key \in Seq(SecretBytes)
  /\ DayInv

LEMMA KeyBytes == key \in Seq(SecretBytes) => key \in Seq(Nat) /\ IsBytes(key)
  <1>1. SUFFICES ASSUME key \in Seq(SecretBytes) PROVE key \in Seq(Nat) /\ IsBytes(key)
    OBVIOUS
  <1>2. \A b \in SecretBytes : b \in Nat /\ b < 256
    BY FormatAssumption
  <1>4. \A i \in 1..Len(key) : key[i] \in SecretBytes
    BY <1>1
  <1>5. Len(key) \in Nat
    BY <1>1
  <1>6. key \in Seq(Nat)
    <2>1. PICK bytes : bytes = key
      OBVIOUS
    <2>2. bytes \in Seq(SecretBytes) /\ (\A i \in 1..Len(bytes) : bytes[i] \in Nat)
      BY <1>1, <1>2, <1>4, <2>1
    <2>3. bytes \in Seq(Nat)
      BY <2>2
    <2> QED BY <2>1, <2>3
  <1> QED BY <1>2, <1>4, <1>5, <1>6, Zenon DEF IsBytes

\* A sequence is the function of its members.
LEMMA SeqForm ==
  ASSUME NEW S, NEW s \in Seq(S), NEW len, len = Len(s)
  PROVE  s = [i \in 1..len |-> s[i]]
  OBVIOUS

LEMMA SecretsRead == key \in Seq(SecretBytes) => SecretsDecode
  <1>1. SUFFICES ASSUME key \in Seq(SecretBytes) PROVE SecretsDecode
    OBVIOUS
  <1>2. PICK bytes, out : bytes = key /\ out = DecodeSecret(Encoded(bytes))
    OBVIOUS
  <1>3. bytes \in Seq(Nat) /\ IsBytes(bytes)
    BY <1>1, <1>2, KeyBytes, Zenon
  <1>4. out \in Seq(Nat) /\ Len(out) = Len(bytes) /\ (\A i \in 1..Len(bytes) : out[i] = bytes[i])
    BY <1>2, <1>3, Decodes, Zenon
  <1>5. out = bytes
    <2>1. PICK len \in Nat : len = Len(bytes) /\ len = Len(out)
      BY <1>3, <1>4
    <2>2. bytes = [i \in 1..len |-> bytes[i]]
      BY <1>3, <2>1, SeqForm, Zenon
    <2>3. out = [i \in 1..len |-> out[i]]
      BY <1>4, <2>1, SeqForm, Zenon
    <2>4. \A i \in 1..len : out[i] = bytes[i]
      BY <1>4, <2>1, Zenon
    <2>5. [i \in 1..len |-> bytes[i]] = [i \in 1..len |-> out[i]]
      BY <2>4, Zenon
    <2> QED BY <2>2, <2>3, <2>5, Zenon
  <1> QED BY <1>2, <1>5, Zenon DEF SecretsDecode

LEMMA InputStart == FormatInit => InputInv
  <1>1. FormatInit => mail \in Seq(MailBytes) /\ key \in Seq(SecretBytes)
    BY DEF FormatInit
  <1> QED BY <1>1, DayStart DEF InputInv

LEMMA InputStep == InputInv /\ [FormatNext]_formatVars => InputInv'
  <1>1. SUFFICES ASSUME InputInv, [FormatNext]_formatVars PROVE InputInv'
    OBVIOUS
  <1>2. CASE NextDay
    <2>1. mail' = mail /\ key' = key
      BY <1>2 DEF NextDay
    <2>2. DayInv'
      BY <1>1, <1>2, DayStep DEF InputInv
    <2> QED BY <1>1, <2>1, <2>2 DEF InputInv
  <1>3. CASE \E b \in MailBytes : MoreMail(b)
    <2>1. PICK b \in MailBytes : MoreMail(b)
      BY <1>3
    <2>2. mail' = Append(mail, b) /\ key' = key /\ day' = day
      BY <2>1 DEF MoreMail
    <2>3. mail' \in Seq(MailBytes)
      BY <1>1, <2>2 DEF InputInv
    <2> QED BY <1>1, <2>2, <2>3 DEF InputInv, DayInv
  <1>4. CASE \E b \in SecretBytes : MoreSecret(b)
    <2>1. PICK b \in SecretBytes : MoreSecret(b)
      BY <1>4
    <2>2. key' = Append(key, b) /\ mail' = mail /\ day' = day
      BY <2>1 DEF MoreSecret
    <2>3. key' \in Seq(SecretBytes)
      BY <1>1, <2>2 DEF InputInv
    <2> QED BY <1>1, <2>2, <2>3 DEF InputInv, DayInv
  <1>5. CASE UNCHANGED formatVars
    BY <1>1, <1>5 DEF InputInv, DayInv, formatVars
  <1> QED BY <1>1, <1>2, <1>3, <1>4, <1>5 DEF FormatNext

\* What the readers make of a mail, a date or a secret is what its writer meant
\* (ReadAsWritten): a mail of any bytes, of any length, is cut out of the fetch
\* answer whole, every day from an anchor on gets its number, in every time zone,
\* and every secret the bytes it encodes.
THEOREM InputsReadAsWritten == FormatSpec => []ReadAsWritten
  <1>1. InputInv => ReadAsWritten
    BY MailsFetched, DatesRead, SecretsRead DEF InputInv, ReadAsWritten
  <1> QED BY InputStart, InputStep, <1>1, PTL DEF FormatSpec


================================================================================
