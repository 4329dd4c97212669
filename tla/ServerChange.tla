---------------------------- MODULE ServerChange ----------------------------
(* Which server the worker talks to, and how it changes.                     *)
(*                                                                           *)
(* Operations that reach the server hold a lease of ServerOperationBarrier;  *)
(* commands that change the server run as its mutations, one at a time, with *)
(* no lease out.  ServerConfigStore keeps the server and the saved           *)
(* connections in storage and in memory, the worker may be restarted between *)
(* any two steps, and the optional host permissions are granted by surfaces  *)
(* and taken back by the commands.                                           *)
EXTENDS Naturals, Sequences, FiniteSets, SequencesExt

CONSTANTS
    Ops,          \* leased operations in flight at a time
    Changes,      \* server-changing commands in flight at a time
    Servers,      \* API URLs
    Required,     \* origins the manifest itself grants
    Packaged,     \* the API URL the build falls back to
    Connections,  \* the connections a surface may save
    MaxSaved,     \* saved connections at most (16 in the code)
    Panels,       \* web panel URLs
    PanelAccess,  \* whether a connection needs access to its panel as well
    Kinds,        \* which commands the run explores
    MaxGen,       \* bound: mutations per worker
    None

ASSUME ServerAssumption ==
    /\ IsFiniteSet(Ops)
    /\ Packaged \in Servers \cap Required
    /\ None \notin Servers \cup Connections
    /\ Connections \subseteq [api : Servers, web : Panels, http : BOOLEAN,
                              on : BOOLEAN]
    /\ MaxSaved \in Nat \ {0} /\ MaxGen \in Nat
    /\ PanelAccess \in BOOLEAN

VARIABLES
    gen,      \* ServerOperationBarrier.generation
    active,   \* activeOperations
    pendingMutations,  \* pendingMutations
    turns,    \* mutationTail: the mutations that have not released their turn
    drain,    \* whether a drain promise is pending
    op,       \* leased operations: what they do and the server they captured
    chg,      \* commands: the step they are suspended at and what they hold
    mem,      \* ServerConfigStore: url, saved connections, active one, ready
    disk,     \* SERVER_CONFIG_KEY and CONNECTIONS_CONFIG_KEY in storage.local
    session,  \* the server the stored session was issued by
    cache,    \* the servers whose vault data the cache holds
    perms,    \* optional host permissions granted
    signedIn  \* history: the pair signed in to, if nothing has ended it since

barrier == <<gen, active, pendingMutations, turns, drain>>
vars == <<barrier, op, chg, mem, disk, session, cache, perms, signedIn>>

-----------------------------------------------------------------------------
Idle    == [kind |-> "none", url |-> None]
Nothing == [at |-> "idle", cmd |-> "none", next |-> None, prev |-> None,
            olds |-> {}]

Origins(c) == {c.api} \cup (IF PanelAccess THEN {c.web} ELSE {})

Granted(os) == os \subseteq Required \cup perms

(* ServerConfigStore.activeConnection, None when the server is not a saved   *)
(* connection.                                                               *)
ConnectionOf(st) == {c \in st.conns : c.api = st.act}
Active == IF ConnectionOf(mem) = {} THEN None
                                    ELSE CHOOSE c \in ConnectionOf(mem) : TRUE

(* The server that initialize() ends up with, from what storage holds. *)
Committed ==
    IF ConnectionOf(disk) # {} THEN disk.act
    ELSE IF disk.url # None THEN disk.url ELSE Packaged

(* The pair a session belongs to: API, panel and HTTP consent. *)
Pair == [url |-> mem.url, web |-> IF Active = None THEN None ELSE Active.web,
         http |-> Active # None /\ Active.http]

-----------------------------------------------------------------------------
(* Start-up: the worker is evaluated, then the two keys are read in turn. *)

Fresh == [url |-> Packaged, conns |-> {}, act |-> None, ready |-> "no"]

InitUrl ==
    /\ mem.ready = "no"
    /\ mem' = [mem EXCEPT !.url = IF disk.url # None THEN disk.url ELSE @,
                          !.ready = "url"]
    /\ UNCHANGED <<barrier, op, chg, disk, session, cache, perms, signedIn>>

InitConnections ==
    /\ mem.ready = "url"
    /\ mem' = [url |-> IF ConnectionOf(disk) # {} THEN disk.act ELSE mem.url,
               conns |-> disk.conns, act |-> disk.act, ready |-> "yes"]
    /\ UNCHANGED <<barrier, op, chg, disk, session, cache, perms, signedIn>>

-----------------------------------------------------------------------------
(* Leased operations. *)

(* Mutant: admission stays open while a change waits for the drain. *)
AdmitWhileDraining == turns = <<>> \/ drain
Admits == pendingMutations = 0

(* tryAcquire; the operation captures the server it will talk to. *)
Acquire(o, kind) ==
    /\ op[o] = Idle
    /\ Admits /\ mem.ready = "yes"
    /\ kind = "sync" => session # None
    /\ active' = active + 1
    /\ op' = [op EXCEPT ![o] = [kind |-> kind, url |-> mem.url]]
    /\ UNCHANGED <<gen, pendingMutations, turns, drain, chg, mem, disk, session, cache,
                   perms, signedIn>>

(* release(), which resolves the drain when the last lease is returned. *)
(* Mutant: a lease that is released twice counts twice. *)
ReturnTwice == active' = active - 2 /\ drain' = (drain /\ active' # 0)
Return == active' = active - 1 /\ drain' = (drain /\ active' # 0)

SignedIn(o) ==
    /\ op[o].kind = "signin"
    /\ Return
    /\ \/ session' = op[o].url /\ signedIn' = Pair
       \/ UNCHANGED <<session, signedIn>>
    /\ op' = [op EXCEPT ![o] = Idle]
    /\ UNCHANGED <<gen, pendingMutations, turns, chg, mem, disk, cache, perms>>

(* A sync writes what it fetched unless its session has ended meanwhile. *)
Synced(o) ==
    /\ op[o].kind = "sync"
    /\ Return
    /\ cache' = IF session = None THEN cache ELSE cache \cup {op[o].url}
    /\ op' = [op EXCEPT ![o] = Idle]
    /\ UNCHANGED <<gen, pendingMutations, turns, chg, mem, disk, session, perms,
                   signedIn>>

(* A manual logout; the cached profile is cleared after it, by a listener    *)
(* that a restart may prevent.                                               *)
SignedOut(o) ==
    /\ op[o].kind = "signout"
    /\ Return
    /\ session' = None /\ signedIn' = None
    /\ cache' \in {cache, {}}
    /\ op' = [op EXCEPT ![o] = Idle]
    /\ UNCHANGED <<gen, pendingMutations, turns, chg, mem, disk, perms>>

(* The session expires: whoever reads it next discards it. *)
Expire ==
    /\ session # None
    /\ session' = None /\ signedIn' = None
    /\ UNCHANGED <<barrier, op, chg, mem, disk, cache, perms>>

(* getStatus for a content port that connects: no lease, no initialization.  *)
(* An envelope of another server than the current one is discarded.  Storage *)
(* answers in order, so the envelope read is the one stored at that moment.  *)
StatusRead ==
    /\ "early" \in Kinds \/ mem.ready = "yes"
    /\ session # None /\ session # mem.url
    /\ session' = None
    /\ UNCHANGED <<barrier, op, chg, mem, disk, cache, perms, signedIn>>

-----------------------------------------------------------------------------
(* Commands: admission closes at once, then they take turns. *)

At(c, step)    == chg' = [chg EXCEPT ![c].at = step]
Only(c, step)  == At(c, step) /\ UNCHANGED <<barrier, op, mem, disk, session,
                                             cache, perms, signedIn>>

Mutate(c, cmd, next) ==
    /\ chg[c] = Nothing
    /\ cmd \in Kinds
    /\ mem.ready = "yes" /\ gen + pendingMutations < MaxGen
    /\ pendingMutations' = pendingMutations + 1
    /\ turns' = Append(turns, c)
    /\ chg' = [chg EXCEPT ![c] = [Nothing EXCEPT !.at = "turn", !.cmd = cmd,
                                                 !.next = next]]
    /\ UNCHANGED <<gen, active, drain, op, mem, disk, session, cache,
                   signedIn>>

(* The surface asks the browser for the origins before it sends the command. *)
SetServer(c, s) ==
    Mutate(c, "set", s) /\ perms' = perms \cup ({s} \ Required)
SaveConnection(c, k) ==
    Mutate(c, "save", k) /\ perms' = perms \cup (Origins(k) \ Required)
ActivateConnection(c, s) ==
    Mutate(c, "activate", s) /\ UNCHANGED perms

(* Mutant: a mutation runs without waiting for the leases that are out. *)
NeverDrains == FALSE
MustDrain == active > 0

TakeTurn(c) ==
    /\ chg[c].at = "turn" /\ Head(turns) = c
    /\ gen' = gen + 1
    /\ IF MustDrain THEN drain' = TRUE /\ At(c, "drain")
                    ELSE UNCHANGED drain /\ At(c, "begin")
    /\ UNCHANGED <<active, pendingMutations, turns, op, mem, disk, session, cache,
                   perms, signedIn>>

Drained(c) == chg[c].at = "drain" /\ ~drain /\ Only(c, "begin")

(* The command: what it asks for is resolved against the store. *)
Target(c) ==
    IF chg[c].cmd = "activate"
    THEN LET known == {k \in mem.conns : k.api = chg[c].next}
         IN  IF known = {} THEN None ELSE CHOOSE k \in known : TRUE
    ELSE chg[c].next

Unchanged(c) == chg[c].cmd = "set" /\ chg[c].next = mem.url

Begin(c) ==
    /\ chg[c].at = "begin"
    /\ IF Target(c) = None \/ Unchanged(c)
       THEN At(c, "end")
       ELSE chg' = [chg EXCEPT ![c] = [@ EXCEPT !.at = "access",
                                                !.next = Target(c)]]
    /\ UNCHANGED <<barrier, op, mem, disk, session, cache, perms, signedIn>>

(* What the command would change of the active connection. *)
Url(c) == IF chg[c].cmd = "set" THEN chg[c].next ELSE chg[c].next.api
Asks(c) == IF chg[c].cmd = "set" THEN {chg[c].next} ELSE Origins(chg[c].next)

(* Mutant: a pair on the same API keeps the session, whatever its panel. *)
RetiresOnNewApi(c) == mem.url # Url(c)
(* Mutant: only a connection that is edited in place retires the session. *)
RetiresOnEdit(c) == chg[c].cmd = "set" \/ (Active # None /\ mem.url = Url(c))
Retires(c) ==
    \/ chg[c].cmd = "set"
    \/ mem.url # Url(c)
    \/ Active = None
    \/ Active.web # chg[c].next.web \/ Active.http # chg[c].next.http

(* An edit of the active pair that only turns sharing on or off. *)
SharingChanges(c) ==
    /\ chg[c].cmd # "set" /\ Active # None
    /\ Active.api = Url(c) /\ Active.web = chg[c].next.web
    /\ Active.on # chg[c].next.on

Access(c) ==
    /\ chg[c].at = "access"
    /\ IF Granted(Asks(c))
       THEN chg' = [chg EXCEPT ![c] = [@ EXCEPT
                !.prev = mem.url, !.olds = mem.conns,
                !.at = IF Retires(c) THEN "logout"
                       ELSE IF SharingChanges(c) THEN "sharing" ELSE "save"]]
       ELSE At(c, IF chg[c].cmd = "set" THEN "clean" ELSE "end")
    /\ UNCHANGED <<barrier, op, mem, disk, session, cache, perms, signedIn>>

(* Any await of the command may reject: it goes to its clean-up. *)
Fails(c) ==
    /\ chg[c].at \in {"logout", "clear", "sharing", "save"}
    /\ Only(c, "clean")

RetireSession(c) ==
    /\ chg[c].at = "logout"
    /\ session' = None /\ signedIn' = None
    /\ At(c, "clear")
    /\ UNCHANGED <<barrier, op, mem, disk, cache, perms>>

ClearCache(c) ==
    /\ chg[c].at = "clear"
    /\ cache' = {}
    /\ At(c, IF SharingChanges(c) THEN "sharing" ELSE "save")
    /\ UNCHANGED <<barrier, op, mem, disk, session, perms, signedIn>>

(* The account's sharing preference is saved with the server. *)
SaveSharing(c) == chg[c].at = "sharing" /\ Only(c, "save")

(* What the store commits: a bare server leaves no connection active. *)
Commit(c) ==
    IF chg[c].cmd = "set"
    THEN [url |-> chg[c].next, conns |-> mem.conns, act |-> None]
    ELSE [url |-> disk.url,
          conns |-> {k \in mem.conns : k.api # Url(c)} \cup {chg[c].next},
          act |-> Url(c)]
(* Mutant: the active connection is left in storage under a bare server. *)
KeepsActive(c) ==
    IF chg[c].cmd = "set"
    THEN [url |-> chg[c].next, conns |-> mem.conns, act |-> mem.act]
    ELSE Commit(c)
Commits(c) == Commit(c)

TooMany(c) ==
    /\ chg[c].cmd = "save"
    /\ Cardinality({k \in mem.conns : k.api # Url(c)}) >= MaxSaved

Store(c) ==
    /\ chg[c].at = "save"
    /\ IF TooMany(c) THEN At(c, "clean") /\ UNCHANGED disk
                     ELSE At(c, "saved") /\ disk' = Commits(c)
    /\ UNCHANGED <<barrier, op, mem, session, cache, perms, signedIn>>

(* The write resolved: memory follows storage. *)
Stored(c) ==
    /\ chg[c].at = "saved"
    /\ mem' = [url |-> Url(c), conns |-> disk.conns, act |-> disk.act,
               ready |-> "yes"]
    /\ At(c, "clean")
    /\ UNCHANGED <<barrier, op, disk, session, cache, perms, signedIn>>

(* removeUnusedServerPermission for a bare server, the finally block of      *)
(* handleConnectionCommand for a connection.                                 *)
Saved == UNION {Origins(k) : k \in mem.conns}
Unused(c) ==
    IF chg[c].cmd = "set"
    THEN IF mem.url = chg[c].next THEN {chg[c].prev} \ {mem.url}
                                  ELSE {chg[c].next}
    ELSE (Origins(chg[c].next) \cup UNION {Origins(k) : k \in chg[c].olds})
           \ Saved
(* Mutant: only the current server counts as in use. *)
UnusedByActive(c) ==
    IF chg[c].cmd = "set" THEN Unused(c)
    ELSE (Origins(chg[c].next) \cup UNION {Origins(k) : k \in chg[c].olds})
           \ {mem.url}
Drops(c) == Unused(c)

CleanUp(c) ==
    /\ chg[c].at = "clean"
    /\ perms' = perms \ Drops(c)
    /\ At(c, "end")
    /\ UNCHANGED <<barrier, op, mem, disk, session, cache, signedIn>>

(* mutate's finally: admission may reopen, the next mutation gets its turn. *)
EndTurn(c) ==
    /\ chg[c].at = "end"
    /\ pendingMutations' = pendingMutations - 1
    /\ turns' = Tail(turns)
    /\ chg' = [chg EXCEPT ![c] = Nothing]
    /\ UNCHANGED <<gen, active, drain, op, mem, disk, session, cache, perms,
                   signedIn>>

-----------------------------------------------------------------------------
(* The browser ends the worker; storage and permissions survive it. *)
Restart ==
    /\ "restart" \in Kinds
    /\ gen' = 0 /\ active' = 0 /\ pendingMutations' = 0 /\ turns' = <<>>
    /\ drain' = FALSE
    /\ op' = [o \in Ops |-> Idle] /\ chg' = [c \in Changes |-> Nothing]
    /\ mem' = Fresh
    /\ UNCHANGED <<disk, session, cache, perms, signedIn>>

(* A first start, or one after an older version that stored a bare server.   *)
Init ==
    /\ gen = 0 /\ active = 0 /\ pendingMutations = 0 /\ turns = <<>> /\ drain = FALSE
    /\ op = [o \in Ops |-> Idle] /\ chg = [c \in Changes |-> Nothing]
    /\ mem = Fresh
    /\ disk \in [url : {None} \cup (IF "legacy" \in Kinds THEN Servers ELSE {}),
                conns : {{}}, act : {None}]
    /\ session = None /\ cache = {} /\ signedIn = None
    /\ perms = {disk.url} \ ({None} \cup Required)

OpStep(o) == SignedIn(o) \/ Synced(o) \/ SignedOut(o)

ChangeStep(c) ==
    \/ TakeTurn(c) \/ Drained(c) \/ Begin(c) \/ Access(c) \/ Fails(c)
    \/ RetireSession(c) \/ ClearCache(c) \/ SaveSharing(c) \/ Store(c)
    \/ Stored(c) \/ CleanUp(c) \/ EndTurn(c)

Request(c) ==
    \/ \E s \in Servers : SetServer(c, s) \/ ActivateConnection(c, s)
    \/ \E k \in Connections : SaveConnection(c, k)

Next ==
    \/ InitUrl \/ InitConnections
    \/ \E o \in Ops :
         OpStep(o) \/ \E k \in {"signin", "sync", "signout"} : Acquire(o, k)
    \/ \E c \in Changes : ChangeStep(c) \/ Request(c)
    \/ Expire \/ StatusRead \/ Restart

Spec == Init /\ [][Next]_vars

(* Storage answers, permissions answer, and leased operations end.           *)
FairSpec ==
    /\ Spec
    /\ \A o \in Ops : WF_vars(OpStep(o))
    /\ \A c \in Changes : WF_vars(ChangeStep(c))

-----------------------------------------------------------------------------
(* Properties. *)

Early == {"turn", "drain", "begin"}
Later == {"access", "logout", "clear", "sharing", "save", "saved", "clean"}

Commands ==
    [at : {"idle", "end"} \cup Early \cup Later,
     cmd : {"none", "set", "save", "activate"},
     next : Servers \cup Connections \cup {None},
     prev : Servers \cup {None}, olds : SUBSET Connections]

(* What a command holds: a server or connection first, then its target. *)
Fits(r) ==
    /\ r \in Commands
    /\ r.at \in Early \cup Later => r.cmd # "none"
    /\ r.at \in Early =>
         r.next \in IF r.cmd = "save" THEN Connections ELSE Servers
    /\ r.at \in Later =>
         r.next \in IF r.cmd = "set" THEN Servers ELSE Connections

(* Every variable has its type, and every command what its step depends on. *)
BarrierOK ==
    /\ gen \in Nat /\ active \in Nat /\ pendingMutations \in Nat
    /\ turns \in Seq(Changes) /\ drain \in BOOLEAN
OpsOK ==
    op \in [Ops -> [kind : {"none", "signin", "sync", "signout"},
                    url : Servers \cup {None}]]
ChangesOK == chg \in [Changes -> Commands] /\ \A c \in Changes : Fits(chg[c])
StoreOK ==
    /\ mem \in [url : Servers, conns : SUBSET Connections,
                act : Servers \cup {None}, ready : {"no", "url", "yes"}]
    /\ disk \in [url : Servers \cup {None}, conns : SUBSET Connections,
                 act : Servers \cup {None}]
RestOK ==
    /\ session \in Servers \cup {None} /\ cache \subseteq Servers
    /\ perms \subseteq Servers \cup Panels
    /\ signedIn \in {None} \cup [url : Servers, web : Panels \cup {None},
                                 http : BOOLEAN]
TypeOK == BarrierOK /\ OpsOK /\ ChangesOK /\ StoreOK /\ RestOK

(* No operation that holds a lease sees the server change under it: what it  *)
(* captured when it was admitted is the current server until it returns.     *)
LeaseKeepsServer == \A o \in Ops : op[o] # Idle => op[o].url = mem.url

(* The stored session and the cached vaults belong to the server a worker    *)
(* that starts now would use, at every point where it may be restarted.      *)
SessionIsCommitted == session \in {None, Committed}
CacheIsCommitted == cache \subseteq {Committed}

(* The session also belongs to the panel and the HTTP consent it was made    *)
(* under: another pair on the same API retires it.                           *)
SessionKeepsPair ==
    mem.ready = "yes" /\ session # None => signedIn \in {None, Pair}

(* A restart changes neither the server nor the saved connections: outside   *)
(* the commit itself, memory is what initialize() would read.                *)
RestartKeepsServer ==
    mem.ready = "yes" /\ (\A c \in Changes : chg[c].at # "saved")
      => /\ mem.url = Committed
         /\ mem.conns = disk.conns /\ mem.act = disk.act

(* A sign-in lasts until a sign-out, an expiry or a change of server. *)
SignInLasts == signedIn # None => session = signedIn.url

(* The current server and every saved connection keep the host permissions   *)
(* they need.                                                                *)
ServerIsPermitted == mem.ready = "yes" => Granted({mem.url})
SavedArePermitted == mem.ready = "yes" => Granted(Saved)
PermissionsHold == ServerIsPermitted /\ SavedArePermitted

(* Through every change of server, failed or not, and every restart in the   *)
(* middle of one: an operation that was admitted keeps its server, and the   *)
(* session, the cache and what a new worker would read all belong to it.     *)
ServerIsSafe ==
    /\ TypeOK /\ LeaseKeepsServer /\ RestartKeepsServer
    /\ SessionIsCommitted /\ CacheIsCommitted

(* Every command ends, so admission cannot stay closed for ever. *)
ChangesEnd == \A c \in Changes : chg[c] # Nothing ~> chg[c] = Nothing

=============================================================================
