------------------------------- MODULE MailSync -------------------------------
(***************************************************************************)
(* Mail import of aeon-sync (email_sync.rs, email_imap.rs): accounts and   *)
(* import cursors, in memory and in email-sync.json, and the handlers that *)
(* fetch a mailbox and capture its new messages.  A handler takes a key    *)
(* from a vault session, reads the credential, refreshes an OAuth token    *)
(* when it is about to expire, fetches the newest messages, marks them     *)
(* seen and captures them.  Every lock is held for one step only, and a    *)
(* handler is dropped at any await when its client goes away.              *)
(***************************************************************************)
EXTENDS Vault

CONSTANTS
  Accounts,   \* mail accounts
  Configs,    \* configurations users store: provider, credential, no credential
  Limits,     \* message counts clients ask for
  MaxLimit,   \* most messages fetched at once
  Handlers,   \* sync and import requests in progress
  Sources,    \* the APIs accounts are read through; each has its prefix for ids
  Rank,       \* the order of the message ids as strings
  Uid,        \* the uid an id comes with: of the mailbox, or a hash of the id
  MaxSeen,    \* most message ids a cursor keeps
  Life,       \* lifetime of a fresh access token
  MaxMail,    \* bound: messages per mailbox
  MaxRequests \* bound: sync and import requests

Mail == 1..MaxMail
\* Message ids: "imap:", "gmail:" or "outlook:" before what the API calls the message.
Names == Sources \X Mail

ASSUME MailAssumption ==
  /\ Limits \subseteq Nat /\ MaxLimit \in Nat \ {0} /\ MaxSeen \in Nat \ {0}
  /\ Life \in Nat /\ MaxMail \in Nat /\ MaxRequests \in Nat
  /\ Sources \subseteq {"Imap", "GmailApi", "OutlookApi"}
  /\ Rank \in [Names -> Int] /\ \A n, k \in Names : n # k => Rank[n] # Rank[k]
  /\ Uid \in [Names -> Nat]
  /\ \A c \in Configs : c.provider \in Sources /\ c.ref \in Ids \cup {0}

VARIABLES
  accounts,  \* the stored configuration of each account, or NoAccount
  cursors,   \* per account: the message ids seen and the largest uid
  mailFile,  \* email-sync.json: whether it parses, accounts and cursors
  mailDirty, \* history: the last write of email-sync.json failed
  mailbox,   \* messages that have arrived at the provider, per account
  req,       \* per handler: its request and how far it is
  requests,  \* requests so far
  captured,  \* history: how often each message was captured, by the id it had
  used,      \* history: the APIs an account was set to or handed messages of
  lost,      \* history: messages marked seen whose capture a fault cut off
  forgot     \* history: accounts whose cursor dropped ids or lost a write

mailVars == <<accounts, cursors, mailFile, mailDirty, mailbox, req, requests,
              captured, used, lost, forgot>>
vars == <<vaultVars, mailVars>>

NoAccount == [provider |-> "none"]
NewCursor == [seen |-> {}, last |-> 0]
Idle == [at |-> "idle"]

-----------------------------------------------------------------------------
(* The cursor.                                                              *)

BugHalf(seen) == {n \in seen : Cardinality({k \in seen : Rank[k] > Rank[n]}) < MaxSeen \div 2}
\* bounded_seen_message_ids keeps the last ids in the order of strings.
Bounded(seen) == {n \in seen : Cardinality({k \in seen : Rank[k] > Rank[n]}) < MaxSeen}

Largest(names, low) ==
  LET uids == {Uid[n] : n \in names} \cup {low}
  IN CHOOSE uid \in uids : \A other \in uids : other <= uid

BugByUid(cursor, fetched) == {n \in fetched \ cursor.seen : Uid[n] > cursor.last}
\* prepare_import: the messages to capture; the largest uid plays no part.
Unseen(cursor, fetched) == fetched \ cursor.seen

Advanced(cursor, fetched) ==
  [seen |-> Bounded(cursor.seen \cup fetched),
   last |-> Largest(Unseen(cursor, fetched), cursor.last)]

BugBareId(via, ms) == {"Imap"} \X ms
\* The ids the messages of a mailbox have, read through an API.
Named(via, ms) == {via} \X ms

\* The newest messages of a mailbox, as many as asked for within the clamp.
Newest(ms, limit) ==
  LET wanted == IF limit < 1 THEN 1 ELSE IF limit > MaxLimit THEN MaxLimit ELSE limit
  IN {m \in ms : Cardinality({k \in ms : k > m}) < wanted}

-----------------------------------------------------------------------------
(* email-sync.json, written in place.                                       *)

NoMail == [ok |-> TRUE, accounts |-> [a \in Accounts |-> NoAccount],
           cursors |-> [a \in Accounts |-> NewCursor]]

\* EmailSyncStore::save, of the accounts and cursors in memory.
Save(how) ==
  /\ mailFile' = CASE how = "done" -> [ok |-> TRUE, accounts |-> accounts', cursors |-> cursors']
                   [] how = "kept" -> mailFile
                   [] how = "torn" -> [NoMail EXCEPT !.ok = FALSE]
  /\ mailDirty' = (how # "done")
  /\ how = "done" \/ faults < MaxFaults
  /\ faults' = IF how = "done" THEN faults ELSE faults + 1

vaultKept == <<up, now, entries, vaultFile, dirty, sessions, unlocks, minted, live, acked,
               stale, tokensLost>>

-----------------------------------------------------------------------------
Init ==
  /\ VaultInit
  /\ accounts = NoMail.accounts /\ cursors = NoMail.cursors
  /\ mailFile = NoMail /\ mailDirty = FALSE
  /\ mailbox = [a \in Accounts |-> {}]
  /\ req = [h \in Handlers |-> Idle] /\ requests = 0
  /\ captured = [a \in Accounts |-> [n \in Names |-> 0]]
  /\ used = [a \in Accounts |-> {}]
  /\ lost = {} /\ forgot = {}

\* External: a message arrives at the provider.
Arrives(a) ==
  /\ mailbox[a] # Mail
  /\ mailbox' = [mailbox EXCEPT ![a] = @ \cup {Cardinality(@) + 1}]
  /\ UNCHANGED <<vaultVars, accounts, cursors, mailFile, mailDirty, req, requests, captured,
                 used, lost, forgot>>

\* upsert_account keeps the cursor of an account that is set to another API.
UpsertAccount(a, config, how) ==
  /\ up /\ accounts[a] # config
  /\ accounts' = [accounts EXCEPT ![a] = config]
  /\ used' = [used EXCEPT ![a] = @ \cup {config.provider}]
  /\ UNCHANGED cursors
  /\ Save(how)
  /\ UNCHANGED <<vaultKept, mailbox, req, requests, captured, lost, forgot>>

\* sync_email_account: an open session and an account with a credential.
StartSync(h, a, n, limit) ==
  /\ up /\ req[h] = Idle /\ requests < MaxRequests
  /\ requests' = requests + 1
  /\ LookUp
  /\ IF IsOpen(n) /\ accounts[a] # NoAccount /\ accounts[a].ref # 0
     THEN req' = [req EXCEPT ![h] = [at |-> "credential", account |-> a, limit |-> limit,
                                     config |-> accounts[a], key |-> SessionKey(n)]]
     ELSE UNCHANGED req
  /\ UNCHANGED <<up, now, entries, vaultFile, dirty, unlocks, minted, live, acked, stale,
                 tokensLost, faults, accounts, cursors, mailFile, mailDirty, mailbox,
                 captured, used, lost, forgot>>

\* import_email_messages: another program fetched and named, the server imports.
StartImport(h, a, via, ms) ==
  /\ up /\ req[h] = Idle /\ requests < MaxRequests /\ accounts[a] # NoAccount
  /\ requests' = requests + 1
  /\ req' = [req EXCEPT ![h] = [at |-> "import", account |-> a, fetched |-> Named(via, ms)]]
  /\ used' = [used EXCEPT ![a] = @ \cup {via}]
  /\ UNCHANGED <<vaultVars, accounts, cursors, mailFile, mailDirty, mailbox, captured,
                 lost, forgot>>

Become(h, next) == req' = [req EXCEPT ![h] = next]
mailKept == <<accounts, cursors, mailFile, mailDirty, mailbox, requests, captured, used,
              lost, forgot>>

\* What the request does once it has a credential.
Fetching(r) == [at |-> "fetch", account |-> r.account, limit |-> r.limit,
                provider |-> r.config.provider]

\* resolve_imap_credentials_for_sync
ReadPassword(h) ==
  LET r == req[h]
  IN /\ r.at = "credential" /\ r.config.provider = "Imap"
     /\ Become(h, IF PasswordUsable(entries[r.config.ref], r.key) THEN Fetching(r) ELSE Idle)
     /\ UNCHANGED <<vaultVars, mailKept>>

\* resolve_oauth_access_token_for_sync up to the call of the provider: the entry
\* is read under the vault's lock, and the lock is released.
ReadToken(h) ==
  LET r == req[h]
      entry == entries[r.config.ref]
      state == TokenState(entry, r.key, now)
  IN /\ r.at = "credential" /\ r.config.provider # "Imap"
     /\ Become(h, CASE state = "refused" -> Idle
                    [] state = "ready" -> Fetching(r)
                    [] state = "needs_refresh" ->
                         [at |-> "refresh", current |-> entry.secret, id |-> r.config.ref,
                          key |-> r.key, fetching |-> Fetching(r)])
     /\ UNCHANGED <<vaultVars, mailKept>>

BugNoFallback(current, token) == [current EXCEPT !.value = token, !.expires = now + Life]
\* apply_oauth_refresh_response: an answer without a refresh token keeps the old.
Applied(current, token) ==
  [current EXCEPT !.value = IF token = 0 THEN current.value ELSE token, !.expires = now + Life]

\* External: the provider takes the refresh token it accepts and answers, with a
\* new refresh token in its place or without one.
ProviderRefreshes(h, rotates) ==
  LET r == req[h]
  IN /\ r.at = "refresh" /\ live[r.id] = r.current.value
     /\ rotates => minted < MaxSecrets
     /\ minted' = IF rotates THEN minted + 1 ELSE minted
     /\ live' = [live EXCEPT ![r.id] = IF rotates THEN minted' ELSE @]
     /\ Become(h, [at |-> "refreshed", id |-> r.id, key |-> r.key, current |-> r.current,
                   fetching |-> r.fetching,
                   refreshed |-> Applied(r.current, IF rotates THEN minted' ELSE 0)])
     /\ UNCHANGED <<up, now, entries, vaultFile, dirty, sessions, unlocks, acked, stale,
                    tokensLost, faults, mailKept>>

\* External: it refuses a token it no longer accepts.
ProviderRefuses(h) ==
  /\ req[h].at = "refresh" /\ live[req[h].id] # req[h].current.value
  /\ Become(h, Idle)
  /\ UNCHANGED <<vaultVars, mailKept>>

\* The refreshed secret is stored under the session's key, over whatever the
\* entry holds by now; the handler goes on when the write succeeds.
StoreToken(h, how) ==
  LET r == req[h]
      read == entries[r.id].key = r.key /\ entries[r.id].secret = r.current
  IN /\ r.at = "refreshed"
     /\ Replace(r.id, r.key, r.refreshed, how)
     /\ Become(h, IF how = "done" THEN r.fetching ELSE Idle)
     /\ stale' = IF read THEN stale ELSE stale \cup {r.id}
     /\ UNCHANGED <<up, now, sessions, unlocks, minted, live, acked, tokensLost, mailKept>>

\* replace_secret_with_key refuses: the entry is of another kind by now.
TokenRefused(h) ==
  /\ req[h].at = "refreshed" /\ entries[req[h].id].kind # req[h].refreshed.kind
  /\ tokensLost' = tokensLost \cup {req[h].id}
  /\ Become(h, Idle)
  /\ UNCHANGED <<up, now, entries, vaultFile, dirty, sessions, unlocks, minted, live, acked,
                 stale, faults, mailKept>>

Fetched(r, ms) ==
  [at |-> "import", account |-> r.account, fetched |-> Named(r.provider, ms)]

\* fetch_imap_messages: the newest messages; one that cannot be read fails the
\* whole request (Ends).
FetchImap(h) ==
  LET r == req[h]
  IN /\ r.at = "fetch" /\ r.provider = "Imap"
     /\ Become(h, Fetched(r, Newest(mailbox[r.account], r.limit)))
     /\ UNCHANGED <<vaultVars, mailKept>>

\* fetch_provider_messages: the same over HTTP.  Gmail answers for an empty
\* mailbox with no list at all, which is an error.
FetchProvider(h) ==
  LET r == req[h]
  IN /\ r.at = "fetch" /\ r.provider # "Imap"
     /\ Become(h, IF r.provider = "GmailApi" /\ mailbox[r.account] = {} THEN Idle
                  ELSE Fetched(r, Newest(mailbox[r.account], r.limit)))
     /\ UNCHANGED <<vaultVars, mailKept>>

\* prepare_import, under the store's lock: marks the messages seen and saves the
\* cursor before any of them is captured; memory keeps what a failed save does not.
PrepareImport(h, how) ==
  LET r == req[h]
      cursor == cursors[r.account]
      todo == Unseen(cursor, r.fetched)
  IN /\ r.at = "import"
     /\ cursors' = [cursors EXCEPT ![r.account] = Advanced(cursor, r.fetched)]
     /\ UNCHANGED accounts
     /\ Save(how)
     /\ Become(h, IF how = "done" /\ todo # {}
                  THEN [at |-> "capture", account |-> r.account, todo |-> todo] ELSE Idle)
     /\ lost' = IF how = "done" THEN lost ELSE lost \cup ({r.account} \X todo)
     /\ forgot' = IF Cardinality(cursor.seen \cup r.fetched) > MaxSeen
                  THEN forgot \cup {r.account} ELSE forgot
     /\ UNCHANGED <<vaultKept, mailbox, requests, captured, used>>

\* import_fetched_messages captures the messages one by one; the provider's
\* order is left open.
Capture(h, n) ==
  LET r == req[h]
  IN /\ r.at = "capture" /\ n \in r.todo
     /\ captured' = [captured EXCEPT ![r.account][n] = @ + 1]
     /\ Become(h, IF r.todo = {n} THEN Idle ELSE [r EXCEPT !.todo = @ \ {n}])
     /\ UNCHANGED <<vaultVars, accounts, cursors, mailFile, mailDirty, mailbox, requests,
                    used, lost, forgot>>

\* What a handler that ends here has marked seen and will not capture, and the
\* token it has got from the provider and will not store.
LeftBehind(h) == IF req[h].at = "capture" THEN {req[h].account} \X req[h].todo ELSE {}
CutOff(h) == IF req[h].at = "refreshed" THEN {req[h].id} ELSE {}

\* A handler ends early: a call or a capture fails, or its client goes away.
Ends(h) ==
  /\ req[h] # Idle /\ faults < MaxFaults /\ faults' = faults + 1
  /\ Become(h, Idle)
  /\ lost' = lost \cup LeftBehind(h)
  /\ tokensLost' = tokensLost \cup CutOff(h)
  /\ UNCHANGED <<up, now, entries, vaultFile, dirty, sessions, unlocks, minted, live, acked,
                 stale, accounts, cursors, mailFile, mailDirty, mailbox, requests, captured,
                 used, forgot>>

Stop ==
  /\ StopVault(UNION {CutOff(h) : h \in Handlers})
  /\ req' = [h \in Handlers |-> Idle]
  /\ lost' = lost \cup UNION {LeftBehind(h) : h \in Handlers}
  /\ forgot' = forgot \cup {a \in Accounts : mailDirty /\ cursors[a] # mailFile.cursors[a]}
  /\ UNCHANGED <<accounts, cursors, mailFile, mailDirty, mailbox, requests, captured, used>>

\* The service starts again if both files are absent or parse.
Boot ==
  /\ BootVault /\ mailFile.ok
  /\ accounts' = mailFile.accounts /\ cursors' = mailFile.cursors /\ mailDirty' = FALSE
  /\ UNCHANGED <<mailFile, mailbox, req, requests, captured, used, lost, forgot>>

HandlerStep(h) ==
  \/ ReadPassword(h) \/ ReadToken(h) \/ ProviderRefuses(h) \/ TokenRefused(h)
  \/ FetchImap(h) \/ FetchProvider(h)
  \/ \E rotates \in BOOLEAN : ProviderRefreshes(h, rotates)
  \/ \E how \in Outcomes : StoreToken(h, how) \/ PrepareImport(h, how)
  \/ \E n \in Names : Capture(h, n)
  \/ Ends(h)

UserStep ==
  \/ \E w \in Passwords, in \in Inputs, how \in Outcomes : AddEntry(w, in, how) /\ UNCHANGED mailVars
  \/ \E w \in Passwords, ttl \in Ttls : Unlock(w, ttl) /\ UNCHANGED mailVars
  \/ Fill /\ UNCHANGED mailVars
  \/ \E a \in Accounts, config \in Configs, how \in Outcomes : UpsertAccount(a, config, how)
  \/ \E h \in Handlers, a \in Accounts, n \in 1..unlocks, limit \in Limits : StartSync(h, a, n, limit)
  \/ \E h \in Handlers, a \in Accounts, via \in Sources : \E m \in mailbox[a] :
       StartImport(h, a, via, m..Cardinality(mailbox[a]))

Next ==
  \/ Tick /\ UNCHANGED mailVars
  \/ \E a \in Accounts : Arrives(a)
  \/ UserStep
  \/ \E h \in Handlers : HandlerStep(h)
  \/ Stop \/ Boot

Spec == Init /\ [][Next]_vars

-----------------------------------------------------------------------------
\* A message the cursor of an account calls seen has been captured, or a request
\* is about to capture it, or a fault cut its capture off.
MessagesAccounted ==
  \A a \in Accounts : \A n \in cursors[a].seen :
    \/ captured[a][n] > 0 \/ <<a, n>> \in lost
    \/ \E h \in Handlers : req[h].at = "capture" /\ req[h].account = a /\ n \in req[h].todo

TimesTaken(a, n) ==
  captured[a][n] + Cardinality({h \in Handlers : req[h].at = "capture" /\ req[h].account = a
                                                /\ n \in req[h].todo})

\* A message is captured once under each id, unless the account's cursor has
\* dropped ids, by its limit or by a write that failed, however many requests
\* ran at once; and under an API's id only if the account was once set to that
\* API or handed messages of it.  So a message comes twice to an account whose
\* cursor dropped nothing only after the account was moved between APIs.
TwiceOnlyIfForgotten ==
  \A a \in Accounts, via \in Sources, m \in Mail :
    /\ a \notin forgot => TimesTaken(a, <<via, m>>) <= 1
    /\ captured[a][<<via, m>>] > 0 => via \in used[a]

\* The vault holds the refresh token the provider accepts, or a request is about
\* to store it, or a fault or a refresh that read an older entry has lost it.
RefreshTokenKept ==
  up => \A id \in Ids :
    (entries[id] # Absent /\ entries[id].secret.kind = "OAuthToken"
      /\ acked[id] # Unsure /\ id \notin stale \cup tokensLost) =>
       \/ entries[id].secret.value = live[id]
       \/ \E h \in Handlers : req[h].at = "refreshed" /\ req[h].id = id
                            /\ req[h].refreshed.value = live[id]

\* A message a cursor calls seen is imported, and imported once, but for faults,
\* for cursors that dropped ids and for accounts moved to another API.
ImportedOnce == MessagesAccounted /\ TwiceOnlyIfForgotten

=============================================================================
