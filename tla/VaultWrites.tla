---------------------------- MODULE VaultWrites ----------------------------
(* How the worker writes to a vault that it reads over an untrusted network. *)
(*                                                                           *)
(* The vault service, the credential writer and the actions of the workspace *)
(* panel each read a projection of the vault, open its key, read the entry,  *)
(* seal the next revision and send it, awaiting at every step; in between    *)
(* the user may lock and unlock, other members may edit or rotate the key,   *)
(* and the answer of the server may be refused, repeated or lost.  The vault *)
(* key epoch floor is all that keeps an old projection, whose key a removed  *)
(* member may still hold, from being written under.                          *)
EXTENDS Naturals, FiniteSets

CONSTANTS
    Slots,      \* calls in flight at a time
    Kinds,      \* which calls the run explores
    Users,
    ShareIds,   \* operation ids of the sharing panel
    MaxOps,     \* bound: calls
    MaxEpoch,   \* bound: rotations of the vault key
    MaxEdits,   \* bound: edits made elsewhere
    MaxUnlocks, \* bound: unlocked sessions
    None

ASSUME WritesAssumption ==
    /\ {MaxOps, MaxEpoch, MaxEdits, MaxUnlocks} \subseteq Nat /\ MaxEpoch # 0
    /\ None \notin Users \cup ShareIds \cup Kinds
    /\ Kinds \subseteq {"create", "password", "capture", "update", "signin",
                       "approve", "share", "choices"}

VARIABLES
    store,    \* server: key epoch, the entry's revision, the edits it contains
    made,     \* server: entries created by calls of this worker
    posted,   \* server: shares created
    keys,     \* the unlocked session, 0 while locked
    user,     \* its account
    floor,    \* VaultKeyEpochFloor: floors
    session,  \* VaultKeyEpochFloor: session
    pending,  \* EntryActions: pendingShares, the share prepared for an id
    inFlight, \* EntryActions: inFlight
    cancelled, \* EntryActions: cancelled
    job,      \* calls: the step they are suspended at and what they hold
    count,    \* history: unlocks, locks and calls so far
    seen,     \* history: the highest epoch opened since the last lock, per user
    era,      \* history: when each operation id was last forgotten, and its session
    result    \* history: what each call answered

server == <<store, made, posted>>
floors == <<floor, session, seen>>
sharing == <<pending, inFlight, cancelled, era>>
vars == <<server, keys, user, floors, sharing, job, count, result>>

Ops == 1..MaxOps
Edits == (MaxOps + 1)..(MaxOps + MaxEdits)

-----------------------------------------------------------------------------
(* Which steps a kind of call takes.  "create" and "password" are the two    *)
(* writes of the vault service; "capture" and "update" are captured          *)
(* credentials, cards, codes and sign-in methods, new and reviewed; "signin" *)
(* is the popup's edit of a sign-in method; "approve" and "share" are the    *)
(* workspace's; "choices" only reads.                                        *)
Cached(kind) == kind \in {"create", "password"}
OpensFirst(kind) == kind \in {"capture", "update", "signin", "choices"}
Workspace(kind) == kind \in {"approve", "share"}
Seals(kind) == kind \notin {"share", "choices"}
Names(kind) == kind \in {"update", "approve"}

Idle == [kind |-> None, at |-> "idle", op |-> 0, keys |-> 0, user |-> None,
         epoch |-> 0, session |-> 0, base |-> 0, content |-> {}, reviewed |-> 0,
         id |-> None, share |-> 0, told |-> FALSE, era |-> 0,
         locks |-> 0]

Goes(j, step) == job' = [job EXCEPT ![j].at = step]
Running(j) == job[j].at \notin {"idle", "done"}

(* The call j ends and answers r; a share leaves its id free again. *)
Ends(j, r) ==
    /\ job' = [job EXCEPT ![j] = [Idle EXCEPT !.at = "done", !.op = job[j].op,
                                            !.told = job[j].told]]
    /\ result' = [result EXCEPT ![job[j].op] = r]
    /\ inFlight' = inFlight \ {job[j].id}
    /\ cancelled' = cancelled \ {job[j].id}

Quiet == UNCHANGED <<result, inFlight, cancelled>>

(* The projection the call read is no older than the floor. *)
AssertCurrent(j) == job[j].epoch >= floor[job[j].user]
(* WorkspaceOperation.assertCurrent; a lock changes the keys. *)
SameKeys(j) == job[j].keys = keys
SameSession(j) == SameKeys(j) /\ job[j].user = user
(* Mutant: an approval does not look at the revision again. *)
AnyRevision(j, rev) == job[j].kind = "update" => rev = job[j].reviewed
(* An update or an approval names the revision the user reviewed. *)
NamedRevision(j, rev) == Names(job[j].kind) => rev = job[j].reviewed

-----------------------------------------------------------------------------
(* A call begins. *)

First(kind) == CASE kind = "create" -> "challenge" [] kind = "password" -> "entry"
                 [] OTHER -> "vault"

(* A credential, a card, a code or a sign-in method is saved, a grant is     *)
(* approved, or the choices for one of them are read.  What the user         *)
(* reviewed was some revision of the entry; the projection in currentVaults, *)
(* which the service writes under, is that of some synchronization.          *)
Begin(j, kind) ==
    /\ ~Running(j) /\ keys # 0 /\ count.ops < MaxOps
    /\ \E reviewed \in IF Names(kind) THEN 1..store.rev ELSE {0},
          e \in IF Cached(kind) THEN 1..store.epoch ELSE {0} :
         job' = [job EXCEPT ![j] =
           [Idle EXCEPT !.kind = kind, !.at = First(kind), !.op = count.ops + 1,
                        !.keys = keys, !.user = user, !.reviewed = reviewed,
                        !.epoch = e]]
    /\ count' = [count EXCEPT !.ops = @ + 1]
    /\ UNCHANGED <<server, keys, user, floors, sharing, result>>

(* create-share: a share prepared for the same id is submitted again as it   *)
(* is.  The panel draws its ids anew for every session.                      *)
BeginShare(j, id) ==
    /\ ~Running(j) /\ keys # 0 /\ count.ops < MaxOps
    /\ id \notin inFlight /\ era[id].home \in {0, keys}
    /\ job' = [job EXCEPT ![j] =
         [Idle EXCEPT !.kind = "share", !.op = count.ops + 1, !.keys = keys,
                      !.user = user, !.id = id, !.share = pending[id],
                      !.era = era[id].times,
                      !.at = IF pending[id] = 0 THEN "vault" ELSE "send"]]
    /\ inFlight' = inFlight \cup {id}
    /\ count' = [count EXCEPT !.ops = @ + 1]
    /\ era' = [era EXCEPT ![id].home = keys]
    /\ UNCHANGED <<server, keys, user, floors, pending, cancelled,
                   result>>

-----------------------------------------------------------------------------
(* Reading and opening. *)

(* openForWrite refuses a projection below the floor; observe, which reads   *)
(* use, does not.  r is the call with what it has just read.                 *)
Opening(j, r) ==
    \/ /\ Seals(r.kind) /\ r.epoch < floor[r.user]
       /\ Ends(j, "refused")
    \/ /\ Seals(r.kind) => r.epoch >= floor[r.user]
       /\ job' = [job EXCEPT ![j] = [r EXCEPT !.at = "open", !.session = session,
                                                !.locks = count.locks]]
       /\ Quiet

(* The workspace looks at the session whenever one of its reads returns. *)
Kept(j) == Workspace(job[j].kind) => SameKeys(j)
Dropped(j) == Ends(j, "refused")

(* getVault: the server may name any epoch the vault has had. *)
Fetch(j) ==
    /\ job[j].at = "vault"
    /\ \E e \in 1..store.epoch :
         LET r == [job[j] EXCEPT !.epoch = e] IN
         \/ OpensFirst(r.kind) /\ Opening(j, r)
         \/ /\ ~OpensFirst(r.kind) /\ Kept(j)
            /\ job' = [job EXCEPT ![j] = [r EXCEPT !.at = "entry"]]
            /\ Quiet
         \/ ~OpensFirst(r.kind) /\ ~Kept(j) /\ Dropped(j)
    /\ UNCHANGED <<server, keys, user, floors, pending, era, count>>

(* getEntry.  A call that names a revision stops at another one. *)
ReadEntry(j) ==
    /\ job[j].at = "entry"
    /\ LET r == [job[j] EXCEPT !.base = store.rev, !.content = store.content] IN
       \/ /\ OpensFirst(r.kind) /\ NamedRevision(j, store.rev)
          /\ job' = [job EXCEPT ![j] = [r EXCEPT !.at = "seal"]]
          /\ Quiet
       \/ ~OpensFirst(r.kind) /\ Kept(j) /\ Opening(j, r)
       \/ /\ IF OpensFirst(r.kind) THEN ~NamedRevision(j, store.rev) ELSE ~Kept(j)
          /\ Dropped(j)
    /\ UNCHANGED <<server, keys, user, floors, pending, era, count>>

Higher(a, b) == IF a < b THEN b ELSE a

AfterOpening(kind) == CASE kind \in {"update", "signin"} -> "entry"
                        [] kind = "share" -> "challenge"
                        [] OTHER -> "seal"

(* Mutant: the floor is raised whenever it opens. *)
RaisedAlways(j) == [floor EXCEPT ![job[j].user] = Higher(@, job[j].epoch)]

(* The floor is raised unless the worker was locked since the open began. *)
Raised(j) == [floor EXCEPT ![job[j].user] =
                IF job[j].session = session THEN Higher(@, job[j].epoch) ELSE @]

Opened(j) ==
    /\ job[j].at = "open"
    /\ floor' = Raised(j)
    /\ seen' = [seen EXCEPT ![job[j].user] =
                  IF job[j].locks = count.locks
                  THEN Higher(@, job[j].epoch) ELSE @]
    /\ \/ job[j].kind = "choices" /\ Ends(j, "unknown")
       \/ /\ job[j].kind # "choices" /\ Kept(j)
          /\ job[j].kind = "approve" => NamedRevision(j, job[j].base)
          /\ Goes(j, AfterOpening(job[j].kind)) /\ Quiet
       \/ /\ \/ ~Kept(j)
             \/ job[j].kind = "approve" /\ ~NamedRevision(j, job[j].base)
          /\ Dropped(j)
    /\ UNCHANGED <<server, keys, user, session, pending, era, count>>

(* createCanonicalEntry looks at the session before it asks for the id of    *)
(* the new entry, and opens the key after.                                   *)
IssueEntry(j) ==
    /\ job[j].at = "challenge" /\ job[j].kind = "create"
    /\ \/ SameSession(j) /\ Opening(j, job[j])
       \/ ~SameSession(j) /\ Dropped(j)
    /\ UNCHANGED <<server, keys, user, floors, pending, era, count>>

(* The creation challenge of a share names the revision it is made from. *)
IssueShare(j) ==
    /\ job[j].at = "challenge" /\ job[j].kind = "share"
    /\ IF SameKeys(j) /\ job[j].id \notin cancelled /\ store.rev = job[j].base
       THEN /\ job' = [job EXCEPT ![j].at = "prepare",
                                  ![j].share = job[j].op]
            /\ Quiet
       ELSE Dropped(j)
    /\ UNCHANGED <<server, keys, user, floors, pending, era, count>>

-----------------------------------------------------------------------------
(* Sealing. *)

(* Another call may have raised the floor since the key was opened.  An      *)
(* update then reads the grants whose material it has to carry along.        *)
Seal(j) ==
    /\ job[j].at = "seal"
    /\ IF AssertCurrent(j)
       THEN Goes(j, IF job[j].kind = "approve" THEN "latest" ELSE "send") /\ Quiet
       ELSE Dropped(j)
    /\ UNCHANGED <<server, keys, user, floors, pending, era, count>>

(* The new secret is the old one: there is nothing to write. *)
SayPresent(j) ==
    /\ job[j].at = "seal" /\ job[j].kind = "update"
    /\ Ends(j, IF SameSession(j) THEN "present" ELSE "refused")
    /\ UNCHANGED <<server, keys, user, floors, pending, era, count>>

(* The last look at the entry before a grant is approved. *)
ReadLatest(j) ==
    /\ job[j].at = "latest"
    /\ IF SameKeys(j) /\ NamedRevision(j, store.rev) THEN Goes(j, "send") /\ Quiet
       ELSE Dropped(j)
    /\ UNCHANGED <<server, keys, user, floors, pending, era, count>>

(* The share is kept before it is submitted, to be submitted again if the    *)
(* answer is lost.                                                           *)
Prepare(j) ==
    /\ job[j].at = "prepare"
    /\ \/ /\ SameKeys(j) /\ job[j].id \notin cancelled
          /\ pending' = [pending EXCEPT ![job[j].id] = job[j].share]
          /\ Goes(j, "send") /\ Quiet
       \/ /\ ~SameKeys(j) \/ job[j].id \in cancelled
          /\ Dropped(j) /\ UNCHANGED pending
    /\ UNCHANGED <<server, keys, user, floors, era, count>>

-----------------------------------------------------------------------------
(* Sending.  withAuth and WorkspaceService.request make the same checks      *)
(* again when a refused token makes them send again.                         *)

(* Mutants: only the session is looked at again, or only the floor. *)
AllowedBySession(j) == SameSession(j) /\ Kept(j)
AllowedByFloor(j) == Seals(job[j].kind) => AssertCurrent(j)

(* updateCredential looks only at the floor. *)
Allowed(j) ==
    /\ job[j].kind \in {"create", "capture", "update", "signin"} => SameSession(j)
    /\ Kept(j)
    /\ Seals(job[j].kind) => AssertCurrent(j)

Send(j) ==
    /\ job[j].at \in {"send", "again"}
    /\ \/ /\ Allowed(j)
          /\ job' = [job EXCEPT ![j].at = IF @ = "send" THEN "wait" ELSE "last"]
          /\ Quiet
       \/ ~Allowed(j) /\ Dropped(j)
    /\ UNCHANGED <<server, keys, user, floors, pending, era, count>>

Waits(j) == job[j].at \in {"wait", "last"}
Rewrites(kind) == kind \in {"update", "signin", "password"}
(* Mutant: the update is rebased without reading again. *)
Rebased(j) == store.rev

(* The revision an update replaces, and what the new one contains. *)
BaseRevision(j) == job[j].base
NewContent(j) == job[j].content \cup {job[j].op}

(* The server takes the request; a share it has already is the same share. *)
Accept(j) ==
    /\ Waits(j)
    /\ Rewrites(job[j].kind) => BaseRevision(j) = store.rev
    /\ store' = IF Rewrites(job[j].kind)
                THEN [store EXCEPT !.rev = @ + 1, !.content = NewContent(j)]
                ELSE store
    /\ made' = IF Rewrites(job[j].kind) THEN made ELSE made \cup {job[j].op}
    /\ posted' = IF job[j].kind = "share"
                 THEN posted \cup {[id |-> job[j].id, share |-> job[j].share,
                                    era |-> job[j].era]}
                 ELSE posted
    /\ Goes(j, "answer") /\ Quiet
    /\ UNCHANGED <<keys, user, floors, pending, era, count>>

(* Another revision, other grants, or no permission. *)
Refuse(j) ==
    /\ Waits(j) /\ Dropped(j)
    /\ UNCHANGED <<server, keys, user, floors, pending, era, count>>

(* The token was refused: the call refreshes it and sends once more. *)
SendAgain(j) ==
    /\ job[j].at = "wait" /\ Goes(j, "again") /\ Quiet
    /\ UNCHANGED <<server, keys, user, floors, pending, era, count>>

(* The request or its answer is lost. *)
Lose(j) ==
    /\ Waits(j) \/ job[j].at = "answer"
    /\ Ends(j, "unknown")
    /\ UNCHANGED <<server, keys, user, floors, pending, era, count>>

(* Mutant: a discard does not reach the call that is under way. *)
OutcomeAnyway(j) == IF Kept(j) THEN "saved" ELSE "unknown"

(* What the call says once the server has accepted it.  The workspace says   *)
(* nothing of it in another session, nor after a discard.                    *)
Outcome(j) == IF Kept(j) /\ job[j].id \notin cancelled THEN "saved" ELSE "unknown"

Answer(j) ==
    /\ job[j].at = "answer"
    /\ IF Cached(job[j].kind) THEN Goes(j, "refresh") /\ Quiet
       ELSE Ends(j, Outcome(j))
    /\ UNCHANGED <<server, keys, user, floors, pending, era, count>>

(* refreshAfterCommittedMutation: the write stays a success when it fails. *)
AfterRefresh(done) == "saved"

Refreshed(j) ==
    /\ job[j].at = "refresh"
    /\ \E done \in BOOLEAN : Ends(j, AfterRefresh(done))
    /\ UNCHANGED <<server, keys, user, floors, pending, era, count>>

(* A read fails, a key does not open, or a grant's context is incomplete. *)
Fail(j) ==
    /\ \/ job[j].at \in {"vault", "entry", "open", "challenge", "latest", "prepare"}
       \/ job[j].at = "send" /\ Rewrites(job[j].kind)
    /\ Dropped(j)
    /\ UNCHANGED <<server, keys, user, floors, pending, era, count>>

-----------------------------------------------------------------------------
(* The user, the other members and the worker. *)

(* discard-share; the popup discards a share when its panel closes. *)
Discard(id) ==
    /\ pending[id] # 0 \/ id \in inFlight
    /\ cancelled' = IF id \in inFlight THEN cancelled \cup {id} ELSE cancelled
    /\ pending' = [pending EXCEPT ![id] = 0]
    /\ era' = [era EXCEPT ![id].times = count.ops]
    /\ job' = [j \in Slots |->
                 IF Running(j) /\ job[j].id = id THEN [job[j] EXCEPT !.told = TRUE]
                 ELSE job[j]]
    /\ UNCHANGED <<server, keys, user, floors, inFlight, count, result>>

(* A prepared share is forgotten after a quarter of an hour. *)
Expire(id) ==
    /\ pending[id] # 0
    /\ pending' = [pending EXCEPT ![id] = 0]
    /\ era' = [era EXCEPT ![id].times = count.ops]
    /\ UNCHANGED <<server, keys, user, floors, inFlight, cancelled, job, count,
                   result>>

Forget ==
    /\ keys' = 0 /\ seen' = [u \in Users |-> 0]
    /\ floor' = [u \in Users |-> 0]
    /\ pending' = [id \in ShareIds |-> 0] /\ inFlight' = {} /\ cancelled' = {}
    /\ count' = [count EXCEPT !.locks = @ + 1]
    /\ UNCHANGED <<server, user, era, result>>

(* The session is locked: the floors and the prepared shares are dropped. *)
Lock ==
    /\ keys # 0 /\ Forget
    /\ session' = session + 1
    /\ UNCHANGED job

(* The worker is stopped and starts over, locked. *)
Restart ==
    /\ keys # 0 /\ Forget
    /\ session' = 0
    /\ job' = [j \in Slots |-> Idle]

Unlock(u) ==
    /\ keys = 0 /\ count.unlocks < MaxUnlocks
    /\ keys' = count.unlocks + 1 /\ user' = u
    /\ count' = [count EXCEPT !.unlocks = @ + 1]
    /\ UNCHANGED <<server, floors, sharing, job, result>>

EditElsewhere(e) ==
    /\ e \notin store.content
    /\ store' = [store EXCEPT !.rev = @ + 1, !.content = @ \cup {e}]
    /\ UNCHANGED <<made, posted, keys, user, floors, sharing, job, count,
                   result>>

(* A member is removed: the vault gets a new key. *)
Rotate ==
    /\ store.epoch < MaxEpoch
    /\ store' = [store EXCEPT !.epoch = @ + 1]
    /\ UNCHANGED <<made, posted, keys, user, floors, sharing, job, count,
                   result>>

-----------------------------------------------------------------------------
Init ==
    /\ store = [epoch |-> 1, rev |-> 1, content |-> {}]
    /\ made = {} /\ posted = {}
    /\ keys = 0 /\ user = None
    /\ floor = [u \in Users |-> 0] /\ session = 0 /\ seen = floor
    /\ pending = [id \in ShareIds |-> 0] /\ inFlight = {} /\ cancelled = {}
    /\ era = [id \in ShareIds |-> [times |-> 0, home |-> 0]]
    /\ job = [j \in Slots |-> Idle]
    /\ count = [unlocks |-> 0, locks |-> 0, ops |-> 0]
    /\ result = [n \in Ops |-> "none"]

Step(j) ==
    \/ Fetch(j) \/ ReadEntry(j) \/ Opened(j) \/ IssueEntry(j) \/ IssueShare(j)
    \/ Seal(j) \/ SayPresent(j) \/ ReadLatest(j) \/ Prepare(j)
    \/ Send(j) \/ Accept(j) \/ Refuse(j) \/ SendAgain(j) \/ Lose(j) \/ Answer(j)
    \/ Refreshed(j) \/ Fail(j)

Environment ==
    \/ \E id \in ShareIds : Discard(id) \/ Expire(id)
    \/ Lock \/ Restart \/ \E u \in Users : Unlock(u)
    \/ Rotate
    \/ \E e \in Edits : EditElsewhere(e)

Next ==
    \/ \E j \in Slots : \/ \E kind \in Kinds \ {"share"} : Begin(j, kind)
                        \/ "share" \in Kinds /\ \E id \in ShareIds : BeginShare(j, id)
                        \/ Step(j)
    \/ Environment

Spec == Init /\ [][Next]_vars

-----------------------------------------------------------------------------
(* Properties. *)

TypeOK ==
    /\ store \in [epoch: 1..MaxEpoch, rev: Nat, content: SUBSET (Ops \cup Edits)]
    /\ made \subseteq Ops /\ keys \in 0..MaxUnlocks /\ user \in Users \cup {None}
    /\ posted \in SUBSET [id: ShareIds, share: Ops, era: 0..MaxOps]
    /\ floor \in [Users -> 0..MaxEpoch] /\ seen \in [Users -> 0..MaxEpoch]
    /\ session \in Nat
    /\ pending \in [ShareIds -> 0..MaxOps]
    /\ inFlight \subseteq ShareIds /\ cancelled \subseteq inFlight
    /\ \A j \in Slots :
         job[j].kind \in Kinds \cup {None} /\ job[j].op \in 0..MaxOps
    /\ result \in [Ops -> {"none", "saved", "present", "refused", "unknown"}]

(* The write of the call j leaves the worker. *)
Leaves(j) == Seals(job[j].kind) /\ job[j].at \in {"send", "again"}
             /\ job'[j].at \in {"wait", "last"}

(* VaultKeyEpochFloor: since the last lock nothing is written under an older *)
(* vault key than one some call has already opened, however old the          *)
(* projections the server replays to the writers.                            *)
EpochsNeverGoBack ==
    [][\A j \in Slots : Leaves(j) => job[j].epoch >= seen[job[j].user]]_vars

(* VaultKeyEpochFloor.observe: the floor is what was opened since the lock,  *)
(* no more: an open that began before it must not seed the next session.     *)
FloorIsOfSession == floor = seen

(* createCanonicalEntry, CredentialWriter and the workspace: what was opened *)
(* and sealed in one unlocked session is never sent in another one, nor for  *)
(* another account.  updateCredential, which only looks at the floor, is the *)
(* exception.                                                                *)
WritesStayInSession ==
    [][\A j \in Slots : Leaves(j) /\ job[j].kind # "password" => SameSession(j)]_vars

(* A reviewed update and an approval act on the revision the user reviewed,  *)
(* although other devices go on editing the entry.                           *)
ReviewedIsWritten ==
    [][\A j \in Slots : Leaves(j) /\ job[j].kind \in {"update", "approve"} =>
                          job[j].base = job[j].reviewed]_vars

(* EntryActions: as long as it is not forgotten an operation id stands for   *)
(* one share, so that a retry after a lost answer creates no second link;    *)
(* and no link is handed out once its operation was discarded.               *)
SharesAreOnce ==
    /\ \A p, q \in posted : p.id = q.id /\ p.era = q.era => p.share = q.share
    /\ \A j \in Slots : job[j].at = "done" /\ job[j].told =>
                          result[job[j].op] # "saved"

(* Together: the floor is exact, and no operation id yields two links.       *)
WritesAreSound == TypeOK /\ FloorIsOfSession /\ SharesAreOnce

(* Together: what a write contains was opened and reviewed in the session    *)
(* and at the revision that it is sent in and for.                           *)
WritesAreOfTheirTime == WritesStayInSession /\ ReviewedIsWritten

(* Every save is atomic whatever is lost, refused or edited meanwhile: see   *)
(* AtomicSaves.                                                              *)
Saves == INSTANCE AtomicSaves
             WITH Saves <- Ops, Elsewhere <- Edits,
                  content <- store.content \cup made
SavesAreAtomic == Saves!Spec
=============================================================================
