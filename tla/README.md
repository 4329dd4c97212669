# Verification of the Palladin browser extension

TLA+ specifications of the extension's service worker, the TLC runs that check
them on small instances, and proofs that TLAPS checks for every instance.
Everything is written from the code under `src/src/` (paths below are relative
to that directory); `PROJECT.json` maps each definition to its lines.

1. [The system](#1-the-system) - components, state, interactions, what is hard
2. [The modules](#2-the-modules) - what each models and how it reads
3. [The runs](#3-the-runs) - instances, bounds, fairness, what they show
4. [The proofs](#4-the-proofs) - theorems, assumptions, the arguments
5. [Where the code differs from what it says](#5-where-the-code-differs-from-what-it-says)
6. [What is not modelled, and the plan](#6-what-is-not-modelled-and-the-plan)

## 1. The system

Palladin is an MV3 browser extension for an end-to-end encrypted vault. A
service worker (`background/`) keeps the session and all keys; it may be
stopped and restarted by the browser at any time, so everything in its memory
is lost while `chrome.storage` and IndexedDB stay. Popup, side panel,
onboarding page and content scripts talk to it by messages; several of them
may have calls in flight at once, and each `await` in a handler is a point at
which any other handler runs. There are no threads: between two awaits a
handler is atomic.

| Component | State it keeps | Operations | What is hard |
|---|---|---|---|
| Session manager (`background/session/session-manager.ts`, store, hooks) | keys, tokens, lifecycle generation, terminations under way, pending second factor, key material in flight, durable mutation queue; the sealed envelope in storage | login, completeTotp, unlock, lock, logout, rotateAccessToken, getStatus, set/touch auto-lock policy, initialize | every call suspends several times; a lock must overtake all of them; token rotation is not atomic with storage; buffers are zero-filled while another call holds them |
| Server configuration (`background/config`) | packaged/saved server, connection list, permissions; the barrier's counters | tryAcquire/release, mutate, set, save, activate, initialize | draining leased operations, several steps that fail one by one, restarts between them |
| Vault data service and cache (`background/vault/protocol2`) | IndexedDB: active and pending copy per account and vault; memory: volatile copies, pending purges, refresh in flight, sync queue, connectivity generation | refresh, repair, applyRealtimeInvalidation, getMetadata, reveal, saveEntry, updateEntry, deleteEntry, clearProfile, clearAllCache | pages from a server that goes on changing; copies that may not be stored; accounts that change under a sync; lost answers |
| Realtime hub (`background/vault/realtime-sync.ts`) | one hub connection, its chain of starts and stops, retry timer, generation; pending, in-flight and applied ranks per vault | start, stop, connect, disconnect, the hub's callbacks; accept, drain, clear | hints duplicated and reordered; a lock between a hint and its application; a hub that comes up late |
| Auto-lock and liveness (`background/session/auto-lock.ts`, `active-tab-liveness.ts`, `liveness.ts`) | alarm, deadline in storage, last activity, ports | arm, disarm, dispatch, touch, register | an alarm that fires late or after a restart; activity that must not outlive an absolute limit |
| Write path (`credential-writer.ts`, `key-epoch-floor.ts`, and the writes of `service.ts` and `workspace/entry-actions.ts`) | highest key epoch per vault since the last lock; shares prepared and not yet confirmed | create, update, change a password, save a capture or a sign-in, approve, share, discard a share | a projection that became stale between reading and sealing; answers lost after the write took effect; a share asked for twice |
| Vault commands, inline runtime, clipboard (`background/vault`) | the account remembered per tab and host, fills of the popup under way, clipboard alarm | fill, reveal, copy, list, choose | the tab navigates, the session ends or the choice changes between the check and the fill |
| Agent bridge (`background/agent`, `content/isolated/agent-*`) | the native port, its channel and reconnect alarm; the operations and the tabs they reserve; preparations, pending submits; the replay list; in the page, the submit held ready | connect, disconnect, dispatch, prepare, capture, inject, fill, commit, cancel, close, consume | an answer of the page awaited between any two steps, with time-outs; ports that end while pages are at work; restarts |
| Shared unlock (`background/shared-unlock`) | the marker of the link on disk with its pending closings and its latch; the coordinator of each open route; the installation under way | connect, disconnect, reconnect, deliver closings, authorize, monitor; select, confirm, offer, receive, install, roll back | two parties over a route that breaks, a server that keeps the link, and a disk that fails; users act at both ends meanwhile |
| Capture (`background/capture`, `content/isolated/capture*`) | staged submissions, secrets and set-ups per tab and document, preferences, prompts | stage, claim, review, offer, save, dismiss, expire; suggest and accept a generated password | navigation, other accounts, expiry and saves that race; automation by a choice made earlier |
| Federated sign-in (`background/signin/coordinator.ts`) | flows with their tabs, popups and documents; what was suggested and prompted | begin, observe, suggest, return, prompt, confirm, expire | redirects across documents and popups; a lock between a prompt and its confirmation |
| Share and save (`background/share-save`) | one share that waits, its outcome, an expiry | offer, view, confirm, ask for the outcome, clear | expiry or another share while saving, a lock, an answer lost |
| Workspace (`background/workspace`) | none beyond the calls in flight | notifications, approvals, entry actions | the session changes during a call |
| Content scripts (`content/isolated`) | picker state, submissions observed, worker port | detect, fill, capture | the page changes under them |
| Surfaces (`popup`, `onboarding`, `side-panel`) | view state | render the worker's answers | stale answers |

Interactions. `background/index.ts` wires the parts: the session's
`onUnlocked` hook starts the hub and a repair of the vaults, `onLocked` stops
the hub, clears the coordinator and, when the account has signed out, clears
its profile; hints, repairs and API calls take a lease from the server barrier;
a server change closes admission, drains the leases, retires the session and
the cache, and commits. The agent bridge is independent of
the session: a native host talks to it over one port. So the correctness of
the whole rests on a contract per component:

* **Session**: keys in memory always belong to the current lifecycle; what a
  lock or logout ended cannot come back; the stored envelope, the tokens in
  memory and the server agree on which tokens are current, unless the answer to
  a rotation was lost; the surfaces are told.
* **Server**: no operation sees the server change under it; the session and the
  cache belong to the server in use, across failures and restarts; permissions
  cover what is saved.
* **Vaults**: a stored copy is what the server held at the sequence it claims,
  never goes back, belongs to the account it is kept for, and is not stored
  where policy forbids it; what the user deleted stays hidden.
* **Hints**: none is lost, a removal wins, none of a former session counts in
  the next, and the service believes it is connected only when it is.
* **Agent**: credentials are worked with on a page by one operation at a time,
  whose reservation lasts until the page has done with it; values a page holds
  ready are known to someone who will submit or withdraw them; a transaction
  reaches a page at most once; the host can come back, unless a start of the
  worker cannot read its alarm.
* **Writes**: a save takes effect once on top of what was saved before or not at
  all, and the caller is told which; nothing is sealed under a key older than
  one seen, or from a revision the user did not review.
* **Shared unlock**: a closing the user asked for reaches the server before
  another session is authorized; a disconnection sticks until an explicit
  reconnect; what was issued is installed, or Identity is asked once to revoke
  it; a session that was ended stays ended.
* **Pages**: what is captured from a page is kept only for the account, document
  and site it came from, saved once and only when wanted; what is filled is of
  the account that was chosen, in the document it was chosen for.

`PROJECT.json` lists the hazards at their lines with the properties that cover
them.

## 2. The modules

| Module | Extends | Checked by | Proved in |
|---|---|---|---|
| SessionLifecycle | | `MCSessionLifecycle`, `MCProgress` | SessionLifecycleProofs |
| ServerChange | | `MCServerChange` | ConnectionProofs |
| VaultSync | | `MCVaultSync` | VaultSyncProofs |
| VaultWrites, AtomicSaves | | `MCVaultWrites` | VaultWritesProofs |
| RealtimeHints | | `MCProgress`, `MCRealtimeHints` | ConnectionProofs |
| AgentOperations | | `MCAgentOperations` | AgentOperationsProofs |
| SharedLink | | `MCSharedUnlock` | SharedLinkProofs |
| UnlockTransfer | | `MCSharedUnlock` | UnlockTransferProofs |
| CredentialCapture | | `MCCredentialCapture` | |
| SecretCapture, TotpCapture, SignInFlows | PageTab | `MCPages` | PagesProofs |
| InlineFills | | `MCFills` | PagesProofs |
| ShareSave | PageTab | `MCFills` | PagesProofs |
| GeneratedPassword | PageTab | `MCFills` | |

Conventions: a handler that suspends is a
record in `op` (or `chg`, `drains`, `job`, a set of runs) whose `at` names the
await it is suspended at, and each action is the code from one await to the
next, so the interleaving of the model is that of the JavaScript event loop.
`Kinds` chooses the calls and events an instance explores. A definition with
two bodies (`Current` and `CurrentWhileNoTermination`) keeps a plausible mistake
beside the real text; `PROJECT.json` runs each against the property it must
break. Components that do not share state but are checked in one run are
composed by a `part` (or a `scene`) chosen in the initial state; the
composition only saves start-up, each part is explored by itself.

### SessionLifecycle

Models `session-manager.ts` with its store and hooks. `memory` holds `keys`,
`tokens`, the pending second factor and the flags of a suspended manual login;
`gen` is `lifecycleGeneration`, `terms` the terminations under way, `mutq` the
durable mutation queue, `material` the key buffers that calls hold (a buffer is
zero-filled by setting its flag, so a call that still uses it is seen to do
so), `storage` the envelope, `spent` the refresh tokens the server has already
rotated away, `surface` what the other surfaces were last told. Calls: login
(with or without a second factor), completion of the second factor, unlock,
rotation, lock, logout, status reads, policy changes; events: an envelope
expires, the worker restarts, a reply is lost. A refused rotation, a mismatch
and an expiry terminate the lifecycle from inside another call, as in the code.

A rotation whose answer is lost (`RefreshUnanswered` with `LostReplies`) spends
the token at the server, and the refresh puts the old tokens and envelope back
all the same (`session-manager.ts` 548-566): it cannot tell this from a request
that never arrived. `Outdated` is the set of rotated tokens that memory or a
settled envelope still holds, and `unheard` of the MC module those that were put
back after a lost answer; `TokensStaySound` says that the first are among the
second.

Abstracted: key derivation yields a buffer of its account; an envelope is
`active` or `pending` (the refresh-pending marker) with the tokens and the key
it was sealed with. Left out: installing an inherited session (shared unlock)
and faults of `chrome.storage` within the session store.

### ServerChange

Models the barrier, the configuration store, both command handlers, the
permission request of `popup/config/client.ts` and the wiring in `index.ts`.
`disk` and `mem` are what is stored and what the worker holds; `active`,
`pending`, `turns`, `drain` the barrier; `chg` the change commands; `op` the
leased operations; `session`, `signedIn` and `cache` what a change must retire.
Each step of a change may fail, and the worker may restart between any two.
`setSharingPreference` is a step that succeeds or fails; what it does belongs
to shared unlock.

### VaultSync

Models `Protocol2VaultDataService` and `IndexedDbProtocol2Cache`. The server is
a log of changes per vault with members, a policy and a retention horizon;
answers may come from a replica that lags. A stored copy (`cache`) has an
active and a pending part, as the IndexedDB transactions keep them; `vol` is
`volatileDisabledVaults`, `rt` the connectivity generation, `flight` the
refresh calls join, `queue` the sync queue. A page is one action: the request
is answered, validated and applied in one transaction, or fails. Calls:
refresh, refreshIfStale, repair, getMetadata, hints (changed or removed),
reveal with its purge, deleteEntry, clearProfile. Events: sign-in and sign-out,
the hub, policy changes, withdrawn access, compaction, storage faults,
restarts.

Abstracted: an entry's envelope is the index of the change that made it; two
clauses of the lease checks become the events `lease` and `corrupt`; a policy
that flips between two pages is read as it is when the page arrives; a lock is
a sign-out that owes no clean-up. `clearAllCache` is a step of ServerChange.
Creating and updating entries are in VaultWrites.

### VaultWrites and AtomicSaves

Models the writes of `service.ts` (`saveEntry`, `updateCredential`), of
`credential-writer.ts` and of `entry-actions.ts`, with `key-epoch-floor.ts`. A
`job` runs from one await to the next: projection, entry, key (which raises the
floor of the session it began in), challenge, seal, send, answer, refresh.
`store` is the vault at the server: its epoch, its revision, and the content of
that revision as the set of operations and foreign edits it is built on; `seen`
is history, the highest epoch an open of this session has shown. `pending`,
`inFlight` and `cancelled` are the sharing panel's maps; an operation id's
`era` is the number of calls begun when it was last forgotten, and a share is
known by the call that made it. Events: the key is rotated, another device
edits, a lock, an unlock by any account, a restart, an answer is lost.
AtomicSaves is what a caller relies on: a save happens once, on top of all
before it, or not at all. VaultWrites implements it with `made` and `result`
read off its own state.

Abstracted: one vault and one entry; content is who wrote it.

### RealtimeHints

Models both classes of `realtime-sync.ts`. `pending`, `inFlight`, `applied`,
`running` and `generation` are the coordinator's fields, `drains` the drain
calls at work; `desired`, `gen`, `hub`, `chain`, `retry` the connection's, and
`conn` what the vault service was last told. The hub is `starting`, `up`,
`reconnecting` or `stopping`; the chain waits while it is starting or stopping.
The network loses the hub, refuses starts, repeats and reorders messages.
`heard`, `ended` and `missed` are history: hints received and done in this
session, and what changed while the hub was to be connected again.

Abstracted: delays have no length; version numbers are small and `Rank` is the
code's `2 * version + removed`.

### AgentOperations

Models the agent bridge: `runtime.ts` (`port`, `channel`, `attempt`, `alarm`,
the captures `out` that wait to be sealed and posted, the replay guard `used`
and `reads`), `operation-router.ts` (`op`: each operation with the tab it has
reserved, its preparation, its pending submit and the call it awaits),
`native-provider.ts`, `native-live.ts` and `native-deferred.ts`, and as much of
the content script as they rely on (`page`, and `mail`, the messages on their
way to a tab, which arrive in order). `Script` gives for each message of the
host the sequence of its awaits; `Looked`, `WriteUsed`, `PageTakes` and
`TimesOut` answer one, and `Continue` is the code that runs on the answer, with
the gate of `gated-deps.ts` before it. A session of a host that sends bare
messages is an operation without an identifier.

Abstracted: an injection has one step; a page's answer is the document it comes
from, or none; the binding of a live chain is the preparation it was made from.
`due` is the look-up of the reconnect alarm that a start of the worker makes; it
may fail (`runtime.ts` 130-134), and then the start does nothing. Creating the
alarm is taken to succeed.
Left out: login frames, replies other than captures, the eviction of the oldest
of 1024 transactions, and `disconnectNativeAgentProvider`, which nothing in the
extension calls. Delays have no length, so "at once" and "by the alarm" are a
choice where the code compares times.

### SharedLink

Models one pairing at the worker's side: `link-store.ts` (the marker `disk`
with its closings and its latch), `closing.ts`, `source-authority.ts`,
`link-monitor.ts`, `reconnect-monitor.ts`, the flushes in `index.ts`, against
the link as Identity keeps it and the peer as it acts on Identity. Writes and
requests fail, answers are lost, the worker restarts. Left out: the preference
gate, the expected preference revision, link identifiers and their adoption,
the outbox of reconnections, deadlines, activity reports. That a closing
advances Identity's sequence is an assumption about the server (`idn`). A latch
is also cleared when a reconnection is staged (`reconnect-staging.ts` 77-78);
that path belongs to the outbox and is left out with it.

### UnlockTransfer

Models both ends of a route (`browser-coordinator.ts`,
`browser-transfer.ts`, `external-browser.ts`, `receiver.ts`) and the
installation in `session-manager.ts`. An end has a session (`home`), a
coordinator with its state number, selection and operation, and ordered
messages under way. Events: sign-in, unlock, lock and sign-out at both ends,
the route breaks and is opened again. The web application's session is assumed
to behave like the extension's. The revocation of what was issued is one
request that is given two seconds, and whose failure is ignored (`api.ts` 99-116):
`asked` says that it was made, and nothing is claimed of whether Identity carried
it out. Left out: deadlines and renewals, the restart of the worker (which may
also end one between the issue and that request), organizations, preference
revisions.

### CredentialCapture

Models `credential-coordinator.ts` with `coordinator.ts` and
`preferences.ts` for one tab: submissions staged at once, commands of the tab in
a queue (`op` is the one at work), documents with their ports, navigation,
claims by the account signed in, offers, saves with their preflight,
automation by a choice made for a revision. What waits in the queue is not
kept: a command is chosen when its turn comes from whatever document may have
sent it.

### PageTab and what extends it

`PageTab` is the world of a page's coordinator: a tab, its documents and ports,
the session with its lifecycle hooks. **SecretCapture**
(`secret-coordinator.ts`): keys and cards observed, reviewed and saved, nothing
queued. **TotpCapture** (`totp-coordinator.ts`): numbered observations, one kept
per tab, the targets listed, the write. **SignInFlows** (`signin/coordinator.ts`):
documents of tabs and popups, the flow of a provider, suggestions, prompts and
confirmations, and the account that a fill notes (`FillReads`, `Filled`: it is
read from the vault, and neither the session nor the flow is asked again
afterwards). **ShareSave** (`share-save/coordinator.ts`): the share that
waits, its view, confirmation and outcome. **GeneratedPassword**: the content
script's suggestion, the worker's prompt and request, the popup's save; left out
of it are the way back from a fill that the page refuses (`capture.ts` 217-241)
and the hiding by the fill's own input event (`generator-suggestion.ts` 133).
Left out: the preferred account of a provider, icons, special cases of two
providers' lists, which are data.

### InlineFills

Models `inline-autofill.ts`, `fill.ts`, `vault/commands.ts` and
`vault/inline-runtime.ts`: automatic, manual and popup fills of a login and its
code on one page. `fields` is the page's form and code field, `widget` and
`codes` the two controllers of the content script, `receipt` what an automatic
fill has put in, `recall` what the worker remembers for the tab. The form or its
stage may be replaced within the document (`StageReplaced`): the widget is
destroyed and its pending fill dropped, while the controller waits with codes
until a login picked in the old menu has ended. Merged: delivery of a request with the
page's beginning of it, a reveal into the check that follows (for a code the keys are taken a moment
after that check, `commands.ts` 319), and the worker's
remembering with the page's end of the same answer. Which field takes the code
is chosen once for a document.

## 3. The runs

Each passing run explores its instance completely. Bounds are small because
every property is about the interaction of two suspended calls with what
happens meanwhile: a third session, a third change or a longer log repeats what
two show, and where there is a theorem it holds for any number. Calls, accounts
and entries that play the same part are symmetric in runs without liveness
properties. Deadlock is not checked: a worker without calls rests, and with the
bounds of a run spent it has nothing to do; that calls do not block each other
is what `progress`, `server` and `NobodyIsForgotten` say.

| Run | Instance | Shows |
|---|---|---|
| session | 2 calls; scenes `Turns` (every kind of call, surfaces that wait for one another, 2 lifecycles, restart), `Crossing` (unlocks, refreshes and a lock that overlap), `Switching` (every kind of call, 2 accounts); rotations whose answers are lost in all | keys, second factor and tokens are the current lifecycle's; surfaces follow; buffers have one owner; tokens and envelope are accepted unless a rotation's answer was lost; what was cleared stays cleared; keys, tokens and envelope are one account's |
| server | scenes `Crowd` (2 leased operations, 2 changes of every kind, 2 servers) and `Consent` (pairs that differ in each field, saves and activations that fail, calls before start-up is read); any step fails, restarts; fair | leases, session, cache and restarts keep to one server; a session keeps to its pair; permissions cover the server and the saved list; every change ends |
| server_find_start | start-up beside a content port | expected to fail (section 5) |
| vault | 2 calls, 1 vault, 2 entries; scenes `Content` (pages and deltas, 3 changes, lag, compaction, policy, restart), `Coming` (2 accounts, sign-outs, clean-ups, policy or hub), `Unstored` (copies that may not be stored, hub), `Deletion` (lost answers, storage faults, hints, withdrawn access) | a copy holds what it claims, is its account's own, is stored only where the policy allows, never goes back, and does not show what was deleted; nobody waits for a call that has ended |
| writes | 2 calls of the 8 kinds, 2 epochs, an edit elsewhere, a lock, a restart, lost answers, discards | the floor is exact; no write under an older key; what is written was read and reviewed in its session; saves refine AtomicSaves |
| progress | hints: 1 vault, 2 versions, 2 sessions, 2 losses; session: 2 calls, lost replies; fair | no hint lost; one drain; marks heard; connected is true; hints taken; the hub follows the session; every call returns |
| hints_find_repair | 1 version, 2 sessions | expected to fail (section 5) |
| agent | 2 operations, 1 tab with 2 documents, 2 ports, 2 transactions, restart | tabs stay reserved; no values forgotten; a transaction reaches a page once; the host comes back (`NeverStranded`) |
| shared_unlock | link: 3 acts of the user, 1 of the peer, 1 fault or restart; transfer: 2 attempts, 2 accounts, 2 events | closings precede authorization and are kept; a disconnection sticks; barriers are not replayed; transfers are sound; what is issued is installed or asked to be revoked; what ended stays ended |
| capture | 2 submissions, 2 commands, 2 accounts, 2 sites, 2 acts of the browser or session | a submission is its account's and its document's; a newer revision is left alone; automation only by consent for that revision |
| pages | secrets, set-ups, sign-ins, one at a time; 2 acts of the session or tab, 3 operations | what is kept is the session's and the document's; withdrawn observations are not kept; flows do not mix, and what they choose, prompt or suggest is of the open vault; what is sent is still wanted |
| fills | 3 fills, or 2 with 2 events; 2 shares and 4 requests; 3 requests for a password | fills and codes are of one account, in the document asked; outcomes told are true; automation follows the choice; nothing is filled that was withdrawn |

Bounds by name. `MaxGen`, `MaxSessions`, `MaxActs`, `MaxEvents`, `MaxUnlocks`
bound what the environment does; `MaxOps`, `MaxSecretOps`, `MaxTotpOps`,
`MaxFlowOps`, `MaxShareOps`, `MaxGenOps`, `MaxFills`, `MaxTries`,
`MaxOperations` the calls; `MaxVer`, `MaxRev`, `MaxEra`, `MaxEpoch`, `MaxEdits`,
`MaxSeq` the numbers; `MaxFaults`, `MaxLosses`, `MaxLate` the failures;
`MaxDocs`, `MaxPorts`, `MaxVisits`, `MaxItems`, `MaxForms`, `MaxOffers`,
`MaxShares`, `MaxSubs`, `MaxCmds`, `MaxPeer`, `MaxSaved` the rest, each
declared with what it counts. `MaxShown` of `MCPages` limits the documents the
two tabs of a sign-in show in one behaviour to five: a service, a provider in
the same tab or a popup, and the return, with one navigation to spare. With
`MaxFaults = 1` the failed repair inside the second flush of `SharedLink`
cannot follow the failure that makes it necessary.

The agent run has one tab, so its operations meet on it, and two operations at
different tabs are not interleaved; a look that timed out is only left behind
by a restart (`MaxLate = 0`), and a live login that goes on to a second form
(`relay`) is left out. The same instance with `relay` and `MaxLate = 1` passes
too, in more time than a regular run should take.

Surfaces submit one sign-in or unlock at a time and hide the form while
unlocked; with several surfaces open they do not know of each other (the scene
`Crossing`). Where a property fails under overlap section 5 says so, and the
run states it without. `TokensStaySound` is stated for one account:
`getBoundMemoryTokens` (session-manager.ts 1167-1178) sets `this.tokens = null`
after an await, so a read begun with one account's tokens drops those that
another account's login has just published; they heal with the next unlock.
The view of the run leaves out the names of tokens and ciphertexts and keeps who
holds the same one: the code only compares them.

Fairness. A suspended handler whose awaited call settles continues: the event
loop is fair to ready continuations, so the progress properties assume weak
fairness of the steps of a call, of a leased operation's end, of a hint's
application, of the hub's chain, timer and own delays. It is never assumed that
a surface makes a call, that the network succeeds, or that a reply arrives
unharmed; but it is assumed that a request settles, with an answer or an error.
Neither the vault client nor `AuthClient` (`auth-client.ts` 101-115) sets a
deadline of its own, so a request that hangs for ever is outside what these runs
show: they show that calls do not wait for one another for ever.

## 4. The proofs

The proofs hold for any finite or infinite sets of calls, accounts, vaults,
servers, tabs and pages that the modules' assumptions allow, and for any value
of the bounds. All are machine-checked to the last leaf. Each inductive
invariant was model-checked before it was proved.

The assumptions on constants say that bounds are natural numbers, that sets
that are counted (`Ops`, `Slots`, `Changes`) are finite, that kinds are kinds,
and that `None` (`Nil`, `Gone`, `Nobody`) is no value of the sort it stands in
for: no call, account, number or record (`NoneIsNoRecord`, `NoneIsNoRefresh`,
`NoneIsNoSecretRun`, `NoneIsNoFlow`, `NoneIsNoMarker`, `AbsenceAssumption`,
`NobodyAssumption`, `NilAssumption`). In the code it is
`null`. No protocol of the host is called `None`. AgentOperations also assumes that a tab can show a document
(`MaxDocs # 0`), and SharedLink that a link can exist (`MaxRev # 0`).

* **SessionLifecycleProofs** - `TypeCorrect`, `Balanced`, `KeysCurrent`,
  `KeysSound`, `EndingsFinal`. The type invariant says for each await what the
  suspended call holds; `Balanced` counts the calls that owe an end to a
  termination with finite cardinalities and shows the counter equal to it in
  every step; `KeysCurrent` needs the strengthening that a call past its last
  check holds the generation it started in, and that a termination both advances
  the generation and wipes the keys in one step. `EndingsFinal` holds for
  surfaces that overlap as they like. Its invariant has two parts. `StoreKept`:
  a call that may change the session and is of the current generation is under
  no termination; while a write is under way its call has the turn of the
  durable mutation queue, so that no clearing runs beside it; and what a refresh
  would restore was read after the last clearing. `MaterialKept`: two calls never
  own one buffer, none owns the live one, a call of the current generation finds
  its buffer unwiped, and whatever is not wiped is tracked, live or pending, so
  that `wipeKeys` finds it.
* **ConnectionProofs**, of ServerChange - `ServerTypeCorrect`, `LeaseSafe`,
  `RestartSafe`, `SessionSafe`, `CacheSafe`, and together `ServerSafe`. The
  inductive invariant says that the commands under way are the queue of turns and
  only its head is past its turn (`InLine`), that the counter counts the leased operations
  (`Counted`), that a command past its drain has none (`Drains`), what start-up
  has read so far (`Follows`), and that a command about to commit another server
  has retired the session and the cache (`Retired`). None of the safety
  properties is inductive without them: a commit is only safe because of what
  the command did before it.
* **ConnectionProofs**, of RealtimeHints - `HintsTypeCorrect`, `OneDrain`, `NoHintLost`,
  `MarksAreHeard`, `ConnectedSafe`, and together `HintsSafe`. For the
  coordinator the invariant ties each mark to a hint: an applied rank is that of
  a hint whose application ended, an in-flight rank that of a drain of this
  generation. For the connection it says that a hub no session wants has its
  stop on the chain, and no generation is later than the present one; that is
  what makes the unguarded callback `onreconnected` safe.
* **AgentOperationsProofs** - `HostReturns`: with no port, a connection attempt,
  the alarm or the worker's start is due; whatever takes the port away leaves
  one of them, and each gives way only to a port or to another. The one
  exception is a start that could not read the alarm: the state is `failed`
  until an attempt is made, by an alarm that is still set, or the worker starts
  again. `OneEffect`: a
  transaction reaches a page at most once. The replay guard lets one call pass
  with it, so at most one call, one letter on its way or one page has it at any
  time, and it is spent in the step that gives it on; the tokens are counted by
  where they are, not by when, which is why restarts and late answers do no
  harm. `PagesOwned`, from the invariant `Owning`: an operation works on the tab
  that it has reserved, and its submit is pending beside no call but its own fill
  (`Fitting`); all operations are of the last port and of one protocol, and no
  two have reserved one tab (`Apart`); a letter on its way is of a call that
  waits for it, or has failed to hear of it, or a cancellation follows behind it
  (`LettersBacked`); and what a page holds is known to its operation, as a
  submit, a commit or a fill to be taken back, or a cancellation is on its way
  (`HeldBacked`). That the mail to a tab keeps its order is what makes the last
  two inductive, and `OneEffect` is part of the argument: an answer settles the
  only letter of its transaction.
* **VaultSyncProofs** - `CopiesSound`, `CopiesForward`, `NobodyForgottenEver`,
  from the invariant `SyncInv`. Its parts: the queue holds exactly the calls that
  need it, once each, and only its head has begun (`Serial`), so a
  synchronization is alone with the copies; the server's log does not bring an
  entry back after its deletion (`History`); copies carry their owner and their
  policy, and copies in memory belong to who is connected (`Owned`, `Ours`); a
  copy has for each entry the last change up to its sequence, or knows of a
  later one that is a deletion (`Whole`); a synchronization that has read pages
  up to some point has everything except what it still needs (`Gathered`), with
  numbers that are not before what it began with (`Forward`), and, if the
  account deleted an entry meanwhile, numbers that include the deletion
  (`Told`, and `Hidden` of the copies). `Forward` is what makes a page of an
  older snapshot harmless, `Told` what keeps a replica that lags from bringing a
  deleted entry back: the call that ran while the entry was deleted had been
  told a sequence after it, or a purge is owed.
* **SharedLinkProofs** - `LinkSound`, `ClosingsKept`, `Disconnected`,
  `NotReplayed`, from the invariant `LinkInv`. Its parts: which calls run beside
  which, and that no session is open while one closes or unlocks (`Ordered`); a
  marker that memory retains because a write failed forgets nothing that the disk
  still has, which is what makes writing it later harmless (`Retained`); a latch
  has a denial behind it, pending or carried out, and a link that came back after
  a revocation did so by a reconnection later than the last disconnection of this
  device (`Revoking`); a call that is about to clear the latch has seen that
  reconnection and finds no denial pending, and a request to disconnect that can
  still take effect is of a closing that is still pending (`Fits`, by `Clearing`
  and `Posted`), because no acknowledgement of the one crosses a request of the
  other (`Acked`); an unlock past its flush, and the session it publishes, have
  nothing left to deliver and a root later than the barriers they knew
  (`Unlocking`, `Shared`); and a monitor that has found a barrier while the
  session stayed found a later one (`Monitored`). `DisconnectSticks` was found
  too strong in this proof: a latch that only memory has, because it could not be
  written, is lost when the worker is restarted. The property now says so; the
  single fault of the run does not reach that case, the proof covers it.
* **UnlockTransferProofs** - `TransfersSound`, `IssuedSettled`, `EndedForever`.
  All three stand on `Base`: an attempt is for the selection that was tried under
  its number, and for what its end still means; a transaction that was not
  cancelled is the attempt of its end, which no sign-in or closing shares with it;
  an offer on the route names the selection that was tried. On it, an invariant
  for each. `EndedForever` (`EndedInv`): a root is of one account, and a root
  that an end has shut is retired there, barred at Identity or has a closing to
  be delivered, and a transaction that has passed its checkpoint is of none of
  these. `IssuedSettled` (`SettledInv`): an attempt that has not begun is held
  by the source, the offer on the route or the receiver, and by one of them
  (`Once`), so a transaction begins with nothing issued; from then on its own
  step tells what was issued and what it stored (`IssueOK`, `SealOK`). It speaks
  of what the extension asks of Identity, not of what Identity does.
  `TransfersSound` (`SoundInv`): what an end has heard, what is on its way to it
  and what the other is about to say are states of the other in the order of
  their ids (`Said`); a selection that was tried is the pair of two states that
  were said, under the link of the web application, which the extension's
  adoption never changes (`Meant`); the end that tried it remembers it while
  both states are current, and once one of them is not it is not again, because
  what comes is later (`Remembered`, `Passed`). The states that were said are
  of no variable: the invariant says that some assignment of states to ids fits.
* **VaultWritesProofs** - `WritesSound`, `EpochsKept`, `OfTheirTime` and the
  refinement `Atomic`. The invariant: calls are numbered apart (`Numbered`); an
  open raises the floor of the session it began in and of no other (`Floored`),
  so the floor equals the highest epoch seen; what a call holds as the
  replaced revision is that revision while nobody has made another, and its
  own number is in the vault exactly from the moment the server took it
  (`Written`); a share kept for an operation id is the one all links of that id
  and era were made for (`Shared`). The last is not inductive without the era:
  an id that was forgotten may be used again while a call of before is still to
  return. `Atomic` then maps every step to a save or a stutter; the invariant
  supplies that a replaced revision was current.
* **PagesProofs** - `SecretsSound`, `SecretWanted`, `TotpSoundAlways`,
  `FlowsSound`, `SharesTold`, `FillsSafe`, `ChoiceFollowed`, each of the component
  with the events of tab and session (`SecretSpec`, `TotpSpec`, `FlowSpec`,
  `ShareSpec`, `FillSpec`; the runs check them composed). For
  secrets: a run that will keep an item observes a document that is live or is
  about to find that it is not, at most one run writes an item, and a stored
  one is not written again (`SecretInv`). For set-ups: documents connect in
  order and what was heard or carried out is of numbers the page has reached
  (`TotpInv`), so an observation that comes late is behind the invalidation
  that was carried out. For sign-ins: each run that will touch a flow was begun
  for that flow and its user, except one that notes a fill, and popups of
  different flows are different (`FlowInv`). For shares: the confirmation that runs is the only one and keeps
  others away (`ConfirmsAlone`), and the share that waits has no outcome yet and
  was sent, if at all, by that confirmation (`WaitsOpen`); so neither the timer
  nor a cancellation can speak of a share whose answer is still out. For fills
  (`FillInv`): the pending fill of the popup runs (`PendingRuns`), who waits for
  one waits for an operation that has begun and is pending or settled, and an
  automatic fill that is about to be sent with its closure fresh, or was sent and
  is still what its field waits for, fits the choice of the popup and finds no
  popup fill that has written (`JobFits`). The last is what carries the choice
  over the delivery: between the worker's last check and the page's write a popup
  fill may begin, but it changes the choice only after it has written, and its
  write takes the field away from every automatic fill. That codes are freed
  (`CodesAreFreed`) needs that a login picked in the menu leaves the page only
  with its answer, or in a step that ends the wait (`CodesFreed`).

Out of the prover's reach, and only model-checked: every liveness property
(`HintsAreTaken`, `HubFollows`, `CallsEnd`, `ChangesEnd`), and what a recursive
definition computes for every input, which would need induction over data; the
proofs therefore say what a log or a copy satisfies, and never evaluate one.
Not yet proved, and only model-checked: what of the session depends on its
surfaces waiting for one another (`TokensStaySound`, `EndingsReachEveryone`,
`OneSession`),
`PairIsKept`, and the properties of CredentialCapture and GeneratedPassword.

## 5. Where the code differs from what it says

Two are runs that are expected to fail; `PROJECT.json` quotes the lines.

* `server_find_start` - a content port that connects before the configuration
  is read signs a self-hosted user out.
* `hints_find_repair` - a hub rebuilt by the retry timer is up without the
  repair the documents promise for a reconnect.

The following came up as well. No document promises otherwise in so many words,
so they are observations, and the properties named are checked where they hold.

Session and server, shown by TLC when the named property is asked of the named
scene:

* Two unlocks in one generation and a refresh: the stored session is sealed
  under a key that has been zero-filled (`SealedUnderRealKey` in `Crossing`).
* An unlock adopts the tokens a refresh has rotated away (`Outdated`, likewise).
* The clean-up of an interrupted unlock takes a newer unlock's tokens
  (`UnlockedCanAuthenticate`, likewise).
* A lock during a refresh whose marker an unlock has discarded tells no surface
  (`SurfacesFollow`, likewise, with three calls).
* A failed save takes back the permission of the server in use, when that
  server is the one stored in the older single-server form and no saved
  connection names it (`PermissionsHold` in `Crowd`).

* A refresh that gets no answer puts the old tokens back (`Outdated` in `Turns`),
  although Identity may have rotated them: the comment at `session-manager.ts` 569
  ("A pending marker means the durable session cannot be proven current") is kept
  for every other failure. The next refresh then finds them refused and signs out.

Vaults and writes:

* A repair that joins one in flight returns what that one listed before the
  call, and a sign-out's clean-up, queued behind syncs, may reset `connected`
  after the next account's hub is up; both heal with the next repair.
* `updateCredential` checks only the key epoch again before it sends
  (`service.ts` 765-766); the revision it names is what protects it.
* The resend of a share after a 401 does not look at `cancelled` again, and
  `pendingShares` does not survive a restart of the worker: a share asked for
  again after it is a second one.
* An open that was begun while locked may seed the floor of the next session;
  that only makes the floor higher.

Agent and pages:

* An injection follows a navigation within the site between the preparation and
  a step: the check at `native-provider.ts:254` is made once, before the loop
  that looks for the document of each step.
* `clear()` of the sign-in coordinator discards "every pending observation" on a
  lock or account change (`signin/coordinator.ts` 184), but the account of a fill
  is read from the vault after the last check of the session
  (`inline-runtime.ts` 233-239), and `providerFilled` checks none. If a lock and
  an unlock by another account fall in that reading, an account of the former
  vault is noted in a flow of the new session and may be offered by its prompt.
  `OwnAccounts` therefore does not speak of the noted account (`used`).
* A start of the worker that cannot read its reconnect alarm (`runtime.ts`
  130-134) neither connects nor sets the alarm.

Shared unlock:

* A second installation takes as the envelope to put back the one a cancelled
  first has stored and not yet removed; failing too, it puts back the session
  that was to be revoked (`session-manager.ts` 345, 423-433; the coordinator's `cancel()` clears
  `active` at once).
* A cancellation during the check of the own state in `refresh` makes it send
  `null`, which the other end refuses; the route closes. Likewise a local lock
  or unlock during a receive, and selections that cross.
* `logout()` does not call `retireSharedUnlock`; only the recorded closing
  protects against the link being used again.

## 6. What is not modelled, and the plan

Not to be modelled: rendering, wording, layout and the heuristics that read a
page's forms (pure functions of a DOM); the cryptography (an external
library); message parsing beyond the classes the handlers tell apart; the
surfaces, except for the permission request; the notifications and read-only
panels of the workspace, which keep no state.

Not modelled: the alarm of auto-lock, its deadlines and its persisted policy
(when it fires is the environment's choice in SessionLifecycle and SharedLink);
login frames and pairing of the agent bridge; the preference gate, renewals and
the outbox of shared unlock; the clipboard alarm; faults of `chrome.storage`
within the session store.

Plan, in order of importance:

1. The session's tokens and envelope; `PairIsKept`.
2. Ownership of submissions, and the fills.
3. **Session** as an abstract specification (locked, unlocked, signed out, with
   an account) that SessionLifecycle implements and the others compose with.
4. **AutoLock** - alarm, deadlines, activity; progress of the agent bridge
   under the assumption that pages answer.
