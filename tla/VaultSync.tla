------------------------------ MODULE VaultSync ------------------------------
(* How the worker keeps its encrypted copy of the user's vaults.             *)
(*                                                                           *)
(* Protocol2VaultDataService runs one synchronization at a time from a       *)
(* queue; it pages snapshots and deltas of a server that goes on changing    *)
(* into IndexedDbProtocol2Cache, or, for vaults whose policy forbids offline *)
(* copies, into memory for as long as the realtime hub is connected.  Users  *)
(* come and go, access is withdrawn, requests fail, and the worker may be    *)
(* restarted between any two transactions.                                   *)
EXTENDS Naturals, Sequences, FiniteSets, FiniteSetsExt

CONSTANTS
    Ops,      \* calls of the service in flight at a time
    Users, Vaults, Entries,
    Scenes,   \* what a behaviour may explore, see below
    None

(* A scene fixes for a whole behaviour which calls and events happen, who    *)
(* has an account, which entries are written, and two bounds: the changes of *)
(* a vault, and the times the hub connects or disconnects.                   *)
ASSUME SyncAssumption ==
    /\ None \notin Users \cup Vaults \cup Nat
    /\ \A s \in Scenes : /\ s.users \subseteq Users /\ s.entries \subseteq Entries
                         /\ s.policies \subseteq {"offline", "disabled"}
                         /\ s.seq \in Nat /\ s.links \in Nat

ASSUME NoneIsNoRefresh == None \notin [by : Ops, repair : BOOLEAN]

VARIABLES
    scene,   \* the scene of this behaviour
    log,     \* server: the changes of each vault, oldest first
    members, \* server: who may read each vault
    policy,  \* server: whether a vault may be kept "offline" or is "disabled"
    retain,  \* server: deltas from before this sequence are gone
    user,    \* the signed-in, unlocked user
    hub,     \* whether the realtime hub is connected
    cache,   \* IndexedDB: per user and vault the active and the pending copy
    vol,     \* volatileDisabledVaults: copies kept in memory only
    conn,    \* connected
    rt,      \* realtimeGeneration
    purges,  \* pendingPurges
    flight,  \* refreshInFlight, refreshInFlightIsRepair
    queue,   \* syncTail
    op,      \* calls: the step they are suspended at and what they hold
    owed,    \* users whose sign-out has still to clear the profile
    gone     \* history: deletions this worker sent and the server committed

server == <<scene, log, members, policy, retain>>
link == <<hub, conn, rt>>
vars == <<server, user, link, cache, vol, purges, flight, queue, op, owed,
          gone>>

Kinds == scene.kinds
MaxSeq == scene.seq
MaxLinks == scene.links

-----------------------------------------------------------------------------
(* The server. *)

(* The last change of an entry up to a sequence, 0 when there is none. *)
LastChange(v, e, q) == Max({0} \cup {i \in 1..q : log[v][i].entry = e})
Alive(v, i) == i # 0 /\ ~log[v][i].dead
Now(v) == Len(log[v])

Change(v) ==
    /\ Now(v) < MaxSeq
    /\ \E e \in scene.entries, dead \in BOOLEAN :
         /\ LastChange(v, e, Now(v)) # 0 => Alive(v, LastChange(v, e, Now(v)))
         /\ dead => LastChange(v, e, Now(v)) # 0
         /\ log' = [log EXCEPT ![v] = Append(@, [entry |-> e, dead |-> dead])]
    /\ UNCHANGED <<scene, members, policy, retain, user, link, cache, vol,
                   purges, flight, queue, op, owed, gone>>

Withdraw(v) ==
    /\ \E u \in members[v] : members' = [members EXCEPT ![v] = @ \ {u}]
    /\ UNCHANGED <<scene, log, policy, retain, user, link, cache, vol, purges, flight,
                   queue, op, owed, gone>>

ChangePolicy(v) ==
    /\ policy' = [policy EXCEPT ![v] =
                    IF @ = "disabled" THEN "offline" ELSE "disabled"]
    /\ UNCHANGED <<scene, log, members, retain, user, link, cache, vol, purges, flight,
                   queue, op, owed, gone>>

Compact(v) ==
    /\ retain[v] < Now(v)
    /\ retain' = [retain EXCEPT ![v] = Now(v)]
    /\ UNCHANGED <<scene, log, members, policy, user, link, cache, vol, purges, flight,
                   queue, op, owed, gone>>

-----------------------------------------------------------------------------
Idle == [kind |-> "none", at |-> "idle", user |-> None, v |-> None,
         vseq |-> 0, mine |-> TRUE, was |-> 0, floor |-> 0, exp |-> 0,
         upper |-> None, pers |-> FALSE, rt |-> 0, need |-> {}, items |-> None,
         todo |-> {}, who |-> None, listed |-> None, detail |-> None,
         redo |-> FALSE]

Empty == [act |-> None, pend |-> None]

Set(o, r) == op' = [op EXCEPT ![o] = r]
Goes(o, step) == Set(o, [op[o] EXCEPT !.at = step])

(* Mutant: what arrives replaces what is there, however new. *)
Replace(items, new) == [e \in Entries |-> IF new[e] # 0 THEN new[e] ELSE items[e]]
(* applyItems: an item never replaces a newer one. *)
Merge(items, new) ==
    [e \in Entries |-> IF new[e] > items[e] THEN new[e] ELSE items[e]]

Copy(o) == cache[op[o].user][op[o].v]
WithAct(o, a) == cache' = [cache EXCEPT ![op[o].user][op[o].v].act = a]
WithPend(o, p) == cache' = [cache EXCEPT ![op[o].user][op[o].v].pend = p]

(* The active copy, persistent or volatile, that a sync starts from. *)
Active(u, v) == IF cache[u][v].act # None THEN cache[u][v].act ELSE vol[v]

(* Mutant: a call that has ended keeps its place. *)
KeepsPlace(o) ==
    /\ op' = [op EXCEPT ![o] = Idle]
    /\ UNCHANGED <<queue, flight>>
(* Mutant: the refresh that has ended is still taken for one in flight. *)
Lingers(o) ==
    /\ op' = [op EXCEPT ![o] = Idle]
    /\ queue' = Tail(queue) /\ UNCHANGED flight
(* What settles the call at the head of the queue frees the queue.  A refresh*)
(* also settles those that joined it; the repairs that only waited for it    *)
(* start over, the first of them as the one in flight that the others join.  *)
Joined(o) == {p \in Ops : op[p].at = "await" /\ flight # None /\ flight.by = o}
Waiting(o) == {p \in Joined(o) : op[p].kind = "repair" /\ ~flight.repair}
Released(o) ==
    LET ended == {o} \cup (Joined(o) \ Waiting(o)) IN
    IF Waiting(o) = {}
    THEN /\ op' = [p \in Ops |-> IF p \in ended THEN Idle ELSE op[p]]
         /\ queue' = Tail(queue)
         /\ flight' = IF flight # None /\ flight.by = o THEN None ELSE flight
    ELSE \E first \in Waiting(o) :
         /\ op' = [p \in Ops |->
               IF p = first THEN [op[p] EXCEPT !.at = "turn"]
               ELSE IF p \in ended THEN Idle ELSE op[p]]
         /\ queue' = Append(Tail(queue), first)
         /\ flight' = [by |-> first, repair |-> TRUE]
Settle(o) == Released(o)

Stays == UNCHANGED <<queue, flight>>

(* Removing a vault's copies, in memory and in storage. *)
Purged(u, v) ==
    /\ cache' = [cache EXCEPT ![u][v] = Empty]
    /\ vol' = [vol EXCEPT ![v] = None]
    /\ purges' = purges \ {<<u, v>>}
PurgeFailed(u, v) ==
    /\ vol' = [vol EXCEPT ![v] = None]
    /\ UNCHANGED <<cache, purges>>
PurgeBreaks(u, v) == "storage" \in Kinds /\ PurgeFailed(u, v)

-----------------------------------------------------------------------------
(* Calls. *)

(* refresh() and repair() join one that is in flight, but a repair waits for *)
(* a mere refresh to end.                                                    *)
Begin(o, kind, q) ==
    LET r == [Idle EXCEPT !.kind = kind] IN
    IF flight # None
    THEN /\ Set(o, [r EXCEPT !.at = "await"])
         /\ queue' = q /\ UNCHANGED flight
    ELSE /\ Set(o, [r EXCEPT !.at = "turn"])
         /\ queue' = Append(q, o)
         /\ flight' = [by |-> o, repair |-> kind = "repair"]

Refresh(o, kind) ==
    /\ op[o] = Idle /\ kind \in Kinds
    /\ Begin(o, kind, queue)
    /\ UNCHANGED <<server, user, link, cache, vol, purges, owed, gone>>

(* The other calls only take their place in the queue. *)
Enqueue(o, kind, u, v) ==
    /\ op[o] = Idle /\ kind \in Kinds
    /\ queue' = Append(queue, o)
    /\ Set(o, [Idle EXCEPT !.kind = kind, !.at = "turn", !.user = u, !.v = v])
    /\ UNCHANGED <<server, user, link, cache, vol, purges, flight, gone>>

Call(o) ==
    \/ \E kind \in {"hint", "removed", "delete"}, v \in Vaults :
         Enqueue(o, kind, None, v) /\ UNCHANGED owed
    \/ Enqueue(o, "read", None, None) /\ UNCHANGED owed

(* The listener of the sign-out clears the profile if it still finds no one  *)
(* signed in when the status it asked for arrives.                           *)
ClearProfile(o, u) ==
    /\ u \in owed /\ user = None
    /\ owed' = owed \ {u}
    /\ Enqueue(o, "clear", u, None)
SkipClear(u) ==
    /\ u \in owed /\ user # None
    /\ owed' = owed \ {u}
    /\ UNCHANGED <<server, user, link, cache, vol, purges, flight, queue, op,
                   gone>>

Turn(o, kind) ==
    op[o].at = "turn" /\ queue[1] = o /\ op[o].kind \in kind

(* Any await may reject, and so may the answer's validation. *)
Networked == {"list", "scan", "sync", "delta", "snap", "page", "vpage", "close",
              "vclose", "done", "rebuild", "send"}
Fails(o) ==
    /\ op[o].at \in Networked
    /\ Settle(o)
    /\ UNCHANGED <<server, user, link, cache, vol, purges, owed, gone>>

-----------------------------------------------------------------------------
(* refreshOnce *)

StartRefresh(o) ==
    /\ Turn(o, {"refresh", "repair"})
    /\ IF user = None
       THEN /\ Settle(o) /\ conn' = FALSE
            /\ vol' = [v \in Vaults |-> None]
       ELSE /\ Set(o, [op[o] EXCEPT !.at = "list", !.user = user])
            /\ Stays /\ UNCHANGED <<conn, vol>>
    /\ UNCHANGED <<server, user, hub, rt, cache, purges, owed, gone>>

(* withAuth: the token is the one of whoever is signed in at that moment. *)
Authorized(v) == user # None /\ user \in members[v]
Denied(v) == user # None /\ user \notin members[v]

List(o) ==
    /\ op[o].at = "list" /\ user # None
    /\ LET vs == {v \in Vaults : user \in members[v]} IN
       Set(o, [op[o] EXCEPT !.at = "scan", !.who = user, !.todo = vs,
               !.listed = [v \in Vaults |-> IF v \in vs THEN Now(v) ELSE None],
               !.detail = [v \in Vaults |-> None]])
    /\ Stays
    /\ UNCHANGED <<server, user, link, cache, vol, purges, owed, gone>>

(* The manifest in the list matches the copy: same sequence, same member key.*)
Unchanged(o, v) ==
    LET a == Active(op[o].user, v) IN
    /\ a # None /\ op[o].who = op[o].user
    /\ a.seq = op[o].listed[v] /\ a.vseq = op[o].listed[v]

MaySkip(o, v) ==
    /\ Unchanged(o, v) /\ op[o].kind # "repair"
    /\ <<op[o].user, v>> \notin purges

Skip(o, v) ==
    /\ op[o].at = "scan" /\ v \in op[o].todo /\ MaySkip(o, v)
    /\ Set(o, [op[o] EXCEPT !.todo = @ \ {v},
                            !.detail[v] = Active(op[o].user, v).vseq])
    /\ Stays
    /\ UNCHANGED <<server, user, link, cache, vol, purges, owed, gone>>

(* The vault's detail, from the copy or from the server. *)
Fetch(o, v) ==
    /\ op[o].at = "scan" /\ v \in op[o].todo
    /\ ~MaySkip(o, v) \/ "lease" \in Kinds
    /\ Unchanged(o, v) \/ Authorized(v)
    /\ Set(o, [op[o] EXCEPT !.todo = @ \ {v}, !.v = v, !.at = "sync",
          !.vseq = IF Unchanged(o, v) THEN op[o].listed[v] ELSE Now(v),
          !.mine = Unchanged(o, v) \/ user = op[o].user])
    /\ Stays
    /\ UNCHANGED <<server, user, link, cache, vol, purges, owed, gone>>

(* Where a call goes once a vault is synchronized. *)
NextVault(o, seq) ==
    IF op[o].kind = "hint" THEN Settle(o)
    ELSE /\ Stays
         /\ Set(o, [op[o] EXCEPT !.at = IF op[o].redo THEN "rebuild" ELSE "scan",
                      !.detail[op[o].v] = seq, !.v = None, !.items = None])

(* A refused request, by whom it happened to be sent: the copy is purged. *)
Refused(o, v) ==
    /\ \/ op[o].at = "scan" /\ v \in op[o].todo
       \/ op[o].at \in {"delta", "snap", "page", "vpage", "close", "vclose"}
            /\ v = op[o].v /\ ~op[o].redo
    /\ Denied(v)
    /\ \/ Purged(op[o].user, v)
          /\ IF op[o].kind = "hint" THEN Settle(o)
             ELSE Stays /\ Set(o, [op[o] EXCEPT !.at = "scan", !.v = None,
                                      !.items = None, !.todo = @ \ {v}])
       \/ PurgeBreaks(op[o].user, v) /\ Settle(o)
    /\ UNCHANGED <<server, user, link, owed, gone>>

(* removeMissingVaults *)
Finish(o) ==
    /\ op[o].at = "scan" /\ op[o].todo = {} /\ op[o].kind # "hint"
    /\ LET missing == {v \in Vaults : op[o].listed[v] = None} IN
       /\ cache' = [cache EXCEPT ![op[o].user] =
                      [v \in Vaults |-> IF v \in missing THEN Empty ELSE @[v]]]
       /\ vol' = [v \in Vaults |-> IF v \in missing THEN None ELSE vol[v]]
    /\ Goes(o, "index") /\ Stays
    /\ UNCHANGED <<server, user, link, purges, owed, gone>>

Kept(o) == {v \in Vaults : op[o].detail[v] # None}

(* getMetadataNow: either everything opens, or a copy that does not is       *)
(* purged and, once, all copies are rebuilt from snapshots.                  *)
Readable(v) ==
    /\ user # None /\ <<user, v>> \notin purges
    /\ cache[user][v].act # None \/ (conn /\ vol[v] # None)

Index(o) ==
    /\ op[o].at = "index"
    /\ Settle(o)
    /\ UNCHANGED <<server, user, link, cache, vol, purges, owed, gone>>

Rebuild(o, v) ==
    /\ op[o].at = "index" /\ "corrupt" \in Kinds /\ Readable(v)
    /\ IF op[o].redo
       THEN Purged(user, v) /\ Settle(o)
       ELSE /\ cache' = [cache EXCEPT ![user][v] = Empty,
                           ![op[o].user] = [w \in Vaults |-> Empty]]
            /\ vol' = [vol EXCEPT ![v] = None]
            /\ purges' = purges \ {<<user, v>>}
            /\ Set(o, [op[o] EXCEPT !.at = "rebuild", !.redo = TRUE,
                                    !.todo = Kept(o)])
            /\ Stays
    /\ UNCHANGED <<server, user, link, owed, gone>>

RebuildNext(o) ==
    /\ op[o].at = "rebuild"
    /\ IF op[o].todo = {} THEN Goes(o, "index")
       ELSE \E v \in op[o].todo :
              Set(o, [op[o] EXCEPT !.todo = @ \ {v}, !.v = v, !.at = "snap",
                        !.vseq = op[o].detail[v], !.floor = op[o].detail[v],
                        !.mine = TRUE, !.was = 0, !.rt = rt])
    /\ Stays
    /\ UNCHANGED <<server, user, link, cache, vol, purges, owed, gone>>

-----------------------------------------------------------------------------
(* syncVault *)

ToSnap(o, floor, was) ==
    /\ Set(o, [op[o] EXCEPT !.at = "snap", !.floor = floor, !.was = was,
                            !.rt = rt, !.upper = None])
    /\ Stays

Synchronize(o) ==
    LET u == op[o].user  v == op[o].v  a == Active(u, v)  vs == op[o].vseq
        was == IF a = None THEN 0 ELSE a.seq IN
    /\ op[o].at = "sync"
    /\ \/ /\ <<u, v>> \in purges
          /\ \/ Purged(u, v) /\ ToSnap(o, vs, was)
             \/ PurgeBreaks(u, v) /\ Settle(o)
       \/ /\ <<u, v>> \notin purges /\ a = None
          /\ ToSnap(o, vs, 0)
          /\ UNCHANGED <<cache, vol, purges>>
       \/ /\ <<u, v>> \notin purges /\ a # None
          /\ Set(o, [op[o] EXCEPT !.at = "delta", !.exp = a.seq, !.was = a.seq,
                       !.floor = Max({vs, a.seq}), !.upper = None,
                       !.rt = rt, !.pers = cache[u][v].act # None])
          /\ Stays /\ UNCHANGED <<cache, vol, purges>>
    /\ UNCHANGED <<server, user, link, owed, gone>>

(* A page of changes: those of a safe prefix, each entry as of the prefix or *)
(* as it is now.                                                             *)
Changed(v, from, to) == {log[v][i].entry : i \in (from + 1)..to}
(* Mutant: deletions are left out. *)
NoTombstones(v, from, to, q) ==
    [e \in Entries |->
        IF e \in Changed(v, from, to) /\ Alive(v, LastChange(v, e, q))
        THEN LastChange(v, e, q) ELSE 0]
DeltaItems(v, from, to, q) ==
    [e \in Entries |->
        IF e \in Changed(v, from, to) THEN LastChange(v, e, q) ELSE 0]

(* The answer's upper bound, which may lag, and its safe prefix. *)
Uppers(o) ==
    IF op[o].upper # None THEN {op[o].upper}
    ELSE IF "lag" \in Kinds THEN op[o].exp..Now(op[o].v) ELSE {Now(op[o].v)}
Prefixes(o) ==
    {p \in (op[o].exp..Now(op[o].v)) \X Uppers(o) :
        p[1] <= p[2] /\ (p[1] > op[o].exp \/ p[1] = p[2])}

(* Mutant: pages are taken from whoever is signed in by now. *)
AnyAuthority(o) == TRUE
(* validateAccessAuthority: the page is for the user this sync is for. *)
SameUser(o) == user = op[o].user
Authentic(o) == Authorized(op[o].v) /\ op[o].mine /\ SameUser(o)

SameLink(o) == conn /\ rt = op[o].rt

(* Mutant: a volatile copy is extended although it has been dropped. *)
Continues(o) == op[o].pers \/ (SameLink(o) /\ vol[op[o].v] # None)

(* Mutant: a change of policy is not noticed in a delta. *)
PolicyUnseen(o) == FALSE
Flips(o) == op[o].pers # (policy[op[o].v] # "disabled")

Grown(o, a, page, to) ==
    [a EXCEPT !.items = Merge(a.items, page), !.seq = to, !.vseq =
        IF op[o].pers THEN op[o].vseq ELSE to, !.pol = policy[op[o].v],
        !.by = user]

DeltaPage(o) ==
    LET v == op[o].v  a == Active(op[o].user, v) IN
    /\ op[o].at = "delta" /\ Authentic(o) /\ retain[v] <= op[o].exp
    /\ ~Flips(o) /\ Continues(o)
    /\ a # None /\ a.seq = op[o].exp
    /\ \E p \in Prefixes(o) : \E q \in {p[1], Now(v)} :
         LET to == p[1]
             next == Grown(o, a, DeltaItems(v, op[o].exp, to, q), to) IN
         /\ IF op[o].pers THEN WithAct(o, next) /\ UNCHANGED vol
            ELSE vol' = [vol EXCEPT ![v] = next] /\ UNCHANGED cache
         /\ IF to = p[2] THEN NextVault(o, next.vseq)
            ELSE /\ Set(o, [op[o] EXCEPT !.exp = to, !.upper = p[2],
                             !.floor = Max({@, p[2]})])
                 /\ Stays
    /\ UNCHANGED <<server, user, link, purges, owed, gone>>

(* The server no longer has the changes, or the policy has changed: the copy *)
(* is purged and a snapshot not older than anything seen replaces it.        *)
StartOver(o) ==
    LET u == op[o].user  v == op[o].v
        expired == retain[v] > op[o].exp IN
    /\ op[o].at = "delta" /\ Authorized(v)
    /\ expired \/ (Authentic(o) /\ Flips(o))
    /\ \/ /\ Purged(u, v)
          /\ \E q \in IF expired THEN {Now(v)} ELSE Uppers(o) :
               ToSnap(o, Max({op[o].floor, q}), op[o].was)
       \/ PurgeBreaks(u, v) /\ Settle(o)
    /\ UNCHANGED <<server, user, link, owed, gone>>

-----------------------------------------------------------------------------
(* replaceFromSnapshot, replaceVolatileFromSnapshot *)

(* A page of the current entries, as of the base or as they are now. *)
PageItems(v, es, q) ==
    [e \in Entries |-> IF e \in es /\ Alive(v, LastChange(v, e, q))
                       THEN LastChange(v, e, q) ELSE 0]
Pages(o, need, base) ==
    {[left |-> need \ es, items |-> PageItems(op[o].v, es, q)] :
        es \in {s \in SUBSET need : s # {}}, q \in {base, Now(op[o].v)}}

(* Mutant: a snapshot may be older than what was seen. *)
AnyBase(o, base) == TRUE
Recent(o, base) == base >= op[o].floor

(* The first page: it tells the policy, and the base the others must share.  *)
Snapshot(o) ==
    LET u == op[o].user  v == op[o].v  off == policy[v] = "disabled" IN
    /\ op[o].at = "snap" /\ Authentic(o)
    /\ \E base \in 0..Now(v) : \E p \in Pages(o, Entries, base) :
         /\ Recent(o, base)
         /\ off => SameLink(o)
         /\ IF off
            THEN Purged(u, v)
            ELSE /\ WithPend(o, [by |-> o, seq |-> base, items |-> p.items])
                 /\ UNCHANGED <<vol, purges>>
         /\ Set(o, [op[o] EXCEPT !.exp = base, !.upper = None, !.need = p.left,
               !.items = IF off THEN p.items ELSE None,
               !.at = IF off THEN IF p.left = {} THEN "vclose" ELSE "vpage"
                             ELSE IF p.left = {} THEN "close" ELSE "page"])
    /\ Stays
    /\ UNCHANGED <<server, user, link, owed, gone>>

(* A copy that may not be stored, with no connection to keep it for. *)
Unconnected(o) ==
    LET u == op[o].user  v == op[o].v IN
    /\ op[o].at = "snap" /\ Authentic(o)
    /\ policy[v] = "disabled" /\ ~SameLink(o)
    /\ Now(v) >= op[o].floor
    /\ Purged(u, v) \/ PurgeBreaks(u, v)
    /\ Settle(o)
    /\ UNCHANGED <<server, user, link, owed, gone>>

Pending(o) ==
    /\ Copy(o).pend # None
    /\ Copy(o).pend.by = o /\ Copy(o).pend.seq = op[o].exp

Page(o) ==
    LET v == op[o].v IN
    /\ op[o].at = "page" /\ Authentic(o)
    /\ policy[v] # "disabled" /\ Pending(o)
    /\ \E p \in Pages(o, op[o].need, op[o].exp) :
         /\ WithPend(o, [Copy(o).pend EXCEPT !.items = Merge(@, p.items)])
         /\ Set(o, [op[o] EXCEPT !.need = p.left,
                      !.at = IF p.left = {} THEN "close" ELSE "page"])
    /\ Stays
    /\ UNCHANGED <<server, user, link, vol, purges, owed, gone>>

VolatilePage(o) ==
    LET v == op[o].v IN
    /\ op[o].at = "vpage" /\ Authentic(o)
    /\ policy[v] = "disabled" /\ SameLink(o)
    /\ \E p \in Pages(o, op[o].need, op[o].exp) :
         Set(o, [op[o] EXCEPT !.need = p.left, !.items = Merge(@, p.items),
                   !.at = IF p.left = {} THEN "vclose" ELSE "vpage"])
    /\ Stays
    /\ UNCHANGED <<server, user, link, cache, vol, purges, owed, gone>>

(* The policy turned to disabled while an offline copy was being built. *)
Abandon(o) ==
    /\ \/ op[o].at = "page" /\ Authorized(op[o].v)
       \/ op[o].at = "close" /\ Authentic(o)
    /\ policy[op[o].v] = "disabled"
    /\ Purged(op[o].user, op[o].v) \/ PurgeBreaks(op[o].user, op[o].v)
    /\ Settle(o)
    /\ UNCHANGED <<server, user, link, owed, gone>>

(* The closing delta: what changed while the snapshot was read. *)
Close(o) ==
    LET v == op[o].v IN
    /\ op[o].at = "close" /\ Authentic(o) /\ retain[v] <= op[o].exp
    /\ policy[v] # "disabled" /\ Pending(o)
    /\ \E p \in Prefixes(o) : \E q \in {p[1], Now(v)} :
         /\ WithPend(o, [Copy(o).pend EXCEPT !.seq = p[1],
               !.items = Merge(@, DeltaItems(v, op[o].exp, p[1], q))])
         /\ Set(o, [op[o] EXCEPT !.exp = p[1], !.upper = p[2],
                      !.at = IF p[1] = p[2] THEN "done" ELSE "close"])
    /\ Stays
    /\ UNCHANGED <<server, user, link, vol, purges, owed, gone>>

Complete(o) ==
    /\ op[o].at = "done" /\ Pending(o)
    /\ cache' = [cache EXCEPT ![op[o].user][op[o].v] =
         [act |-> [seq |-> op[o].exp, vseq |-> op[o].exp, pol |-> "offline",
                   items |-> @.pend.items, by |-> op[o].user],
          pend |-> None]]
    /\ NextVault(o, op[o].exp)
    /\ UNCHANGED <<server, user, link, vol, purges, owed, gone>>

VolatileClose(o) ==
    LET v == op[o].v IN
    /\ op[o].at = "vclose" /\ Authentic(o) /\ retain[v] <= op[o].exp
    /\ policy[v] = "disabled" /\ SameLink(o)
    /\ \E p \in Prefixes(o) : \E q \in {p[1], Now(v)} :
         LET to == p[1]
             items == Merge(op[o].items, DeltaItems(v, op[o].exp, to, q)) IN
         IF to = p[2]
         THEN /\ vol' = [vol EXCEPT ![v] =
                   [seq |-> to, vseq |-> to, items |-> items,
                    pol |-> "disabled", by |-> user]]
              /\ NextVault(o, to)
         ELSE /\ Set(o, [op[o] EXCEPT !.exp = to, !.upper = p[2],
                                      !.items = items])
              /\ Stays /\ UNCHANGED vol
    /\ UNCHANGED <<server, user, link, cache, purges, owed, gone>>

-----------------------------------------------------------------------------
(* The other calls. *)

(* applyRealtimeInvalidation *)
Hint(o) ==
    LET v == op[o].v IN
    /\ Turn(o, {"hint", "removed"})
    /\ \/ user = None /\ Settle(o) /\ UNCHANGED <<cache, vol, purges>>
       \/ /\ op[o].kind = "removed" /\ user # None
          /\ Purged(user, v) \/ PurgeBreaks(user, v)
          /\ Settle(o)
       \/ /\ op[o].kind = "hint" /\ user # None
          /\ Set(o, [op[o] EXCEPT !.user = user, !.at = "scan", !.todo = {v},
                                  !.who = user, !.listed = [w \in Vaults |-> None]])
          /\ Stays /\ UNCHANGED <<cache, vol, purges>>
    /\ UNCHANGED <<server, user, link, owed, gone>>

(* getMetadata, revealEntry: a copy that cannot be opened is purged. *)
Read(o) ==
    /\ Turn(o, {"read"})
    /\ \/ UNCHANGED <<cache, vol, purges>>
       \/ "corrupt" \in Kinds /\ \E v \in Vaults : Readable(v) /\ Purged(user, v)
    /\ Settle(o)
    /\ UNCHANGED <<server, user, link, owed, gone>>

(* clearProfile *)
Clear(o) ==
    /\ Turn(o, {"clear"})
    /\ cache' = [cache EXCEPT ![op[o].user] = [v \in Vaults |-> Empty]]
    /\ vol' = [v \in Vaults |-> None]
    /\ conn' = FALSE
    /\ Settle(o)
    /\ UNCHANGED <<server, user, hub, rt, purges, owed, gone>>

(* deleteEntry: the copy is marked before the deletion is sent, because the  *)
(* server may commit it although no answer arrives.                          *)
StartDelete(o) ==
    /\ Turn(o, {"delete"})
    /\ IF user # None /\ Authorized(op[o].v)
       THEN Set(o, [op[o] EXCEPT !.at = "send", !.user = user]) /\ Stays
       ELSE Settle(o)
    /\ UNCHANGED <<server, user, link, cache, vol, purges, owed, gone>>

(* Mutant: the copy is marked once the answer has arrived. *)
MarksLate(o) == purges
Marked(o) == purges \cup {<<op[o].user, op[o].v>>}

Send(o) ==
    LET u == op[o].user  v == op[o].v IN
    /\ op[o].at = "send" /\ user = u
    /\ purges' = Marked(o)
    /\ \/ \E e \in Entries :
            /\ u \in members[v] /\ Alive(v, LastChange(v, e, Now(v)))
            /\ Now(v) < MaxSeq
            /\ log' = [log EXCEPT ![v] =
                         Append(@, [entry |-> e, dead |-> TRUE])]
            /\ gone' = gone \cup {<<u, v, e>>}
       \/ UNCHANGED <<log, gone>>
    /\ Goes(o, "purge") /\ Stays
    /\ UNCHANGED <<scene, members, policy, retain, user, link, cache, vol, owed>>

(* Whatever came of it, the copy is purged and a repair follows. *)
AfterSend(o) ==
    /\ op[o].at = "purge"
    /\ Purged(op[o].user, op[o].v) \/ PurgeBreaks(op[o].user, op[o].v)
    /\ Begin(o, "repair", Tail(queue))
    /\ UNCHANGED <<server, user, link, owed, gone>>

-----------------------------------------------------------------------------
(* Sign-in, sign-out and the hub. *)

(* setRealtimeConnected *)
Connected(c) ==
    /\ rt' = IF conn # c THEN rt + 1 ELSE rt
    /\ conn' = c
    /\ vol' = IF c THEN vol ELSE [v \in Vaults |-> None]
SignIn(u) ==
    /\ user = None /\ user' = u
    /\ UNCHANGED <<server, link, cache, vol, purges, flight, queue, op, owed,
                   gone>>

(* A lock or a sign-out. *)
SignOut ==
    /\ user # None /\ "signout" \in Kinds
    /\ user' = None /\ hub' = FALSE /\ Connected(FALSE)
    /\ owed' \in {owed, owed \cup {user}}
    /\ UNCHANGED <<server, cache, purges, flight, queue, op, gone>>

HubUp ==
    /\ user # None /\ ~hub /\ "hub" \in Kinds /\ rt < MaxLinks
    /\ hub' = TRUE /\ Connected(TRUE)
    /\ UNCHANGED <<server, user, cache, purges, flight, queue, op, owed, gone>>

HubDown ==
    /\ hub
    /\ hub' = FALSE /\ Connected(FALSE)
    /\ UNCHANGED <<server, user, cache, purges, flight, queue, op, owed, gone>>

Restart ==
    /\ "restart" \in Kinds
    /\ hub' = FALSE /\ conn' = FALSE /\ rt' = 0
    /\ vol' = [v \in Vaults |-> None] /\ purges' = {} /\ flight' = None
    /\ queue' = <<>> /\ op' = [o \in Ops |-> Idle] /\ owed' = {}
    /\ gone' = {}
    /\ UNCHANGED <<server, user, cache>>

Init ==
    /\ scene \in Scenes
    /\ log = [v \in Vaults |-> <<>>]
    /\ members = [v \in Vaults |-> scene.users]
    /\ policy \in [Vaults -> scene.policies]
    /\ retain = [v \in Vaults |-> 0]
    /\ user = None /\ hub = FALSE /\ conn = FALSE /\ rt = 0
    /\ cache = [u \in Users |-> [v \in Vaults |-> Empty]]
    /\ vol = [v \in Vaults |-> None] /\ purges = {} /\ flight = None
    /\ queue = <<>> /\ op = [o \in Ops |-> Idle] /\ owed = {} /\ gone = {}

Step(o) ==
    \/ Fails(o) \/ StartRefresh(o) \/ List(o) \/ Finish(o)
    \/ Index(o) \/ RebuildNext(o) \/ Synchronize(o) \/ DeltaPage(o)
    \/ StartOver(o) \/ Snapshot(o) \/ Unconnected(o) \/ Page(o)
    \/ VolatilePage(o) \/ Abandon(o)
    \/ Close(o) \/ Complete(o) \/ VolatileClose(o) \/ Hint(o) \/ Read(o)
    \/ Clear(o) \/ StartDelete(o) \/ Send(o) \/ AfterSend(o)
    \/ \E v \in Vaults :
         Skip(o, v) \/ Fetch(o, v) \/ Refused(o, v) \/ Rebuild(o, v)

Environment ==
    \/ \E v \in Vaults :
         \/ Change(v)
         \/ "withdraw" \in Kinds /\ Withdraw(v)
         \/ "policy" \in Kinds /\ ChangePolicy(v)
         \/ "compact" \in Kinds /\ Compact(v)
    \/ \E u \in scene.users : SignIn(u) \/ SkipClear(u)
    \/ SignOut \/ HubUp \/ HubDown \/ Restart

Next ==
    \/ \E o \in Ops :
         \/ Step(o) \/ Call(o)
         \/ Refresh(o, "refresh") \/ Refresh(o, "repair")
         \/ \E u \in Users : ClearProfile(o, u)
    \/ Environment

Spec == Init /\ [][Next]_vars

-----------------------------------------------------------------------------
(* Properties. *)

Items == [Entries -> 0..MaxSeq]
Copies == [seq : 0..MaxSeq, vseq : 0..MaxSeq, items : Items,
           pol : {"offline", "disabled"}, by : Users]
Steps == {"idle", "turn", "await", "index", "purge"} \cup Networked

(* Every variable has its type. *)
TypeOK ==
    /\ \A v \in Vaults : /\ Now(v) <= MaxSeq /\ members[v] \subseteq Users
                         /\ retain[v] <= Now(v)
                         /\ vol[v] \in Copies \cup {None}
    /\ user \in Users \cup {None}
    /\ hub \in BOOLEAN /\ conn \in BOOLEAN /\ rt \in Nat
    /\ \A u \in Users, v \in Vaults :
         /\ cache[u][v].act \in Copies \cup {None}
         /\ cache[u][v].pend \in [by : Ops, seq : 0..MaxSeq, items : Items]
                                   \cup {None}
    /\ purges \subseteq Users \X Vaults
    /\ flight = None \/ (flight.by \in Ops /\ flight.repair \in BOOLEAN)
    /\ \A i \in 1..Len(queue) : /\ queue[i] \in Ops
                                 /\ op[queue[i]].at \notin {"idle", "await"}
    /\ \A o \in Ops : /\ op[o].at \in Steps
                      /\ op[o].user \in Users \cup {None}
                      /\ op[o].v \in Vaults \cup {None}

(* A copy that claims to be applied through a sequence holds, for every      *)
(* entry, a state at least as new as the server's at that sequence, or lacks *)
(* an entry that the server has deleted.  Snapshot pages and deltas are read *)
(* while the server goes on changing, from answers that may lag.             *)
Covers(v, a) ==
    \A e \in Entries :
        \/ a.items[e] >= LastChange(v, e, a.seq)
        \/ ~Alive(v, a.items[e]) /\ ~Alive(v, LastChange(v, e, Now(v)))
CopiesCover ==
    \A v \in Vaults :
        /\ vol[v] # None => Covers(v, vol[v])
        /\ \A u \in Users :
             cache[u][v].act # None => Covers(v, cache[u][v].act)

(* Every copy was served to the user it is kept for, even when another one   *)
(* signed in while it was being fetched.                                     *)
CopiesAreOwn ==
    /\ \A u \in Users, v \in Vaults :
         cache[u][v].act # None => cache[u][v].act.by = u
    /\ \A v \in Vaults : vol[v] # None => vol[v].by = user

(* A vault whose policy forbids offline copies is held in memory, and only   *)
(* while the hub is connected; nothing served under that policy is stored.   *)
DisabledStaysVolatile ==
    /\ \A v \in Vaults : vol[v] # None => conn /\ hub
    /\ \A u \in Users, v \in Vaults :
         cache[u][v].act # None => cache[u][v].act.pol # "disabled"

(* No entry whose deletion this worker got committed can be read again: the  *)
(* copy that still shows it is marked for purging until it has been purged.  *)
DeletedStaysHidden ==
    \A d \in gone :
        LET shows(a) == a # None /\ Alive(d[2], a.items[d[3]]) IN
        /\ shows(cache[d[1]][d[2]].act) => <<d[1], d[2]>> \in purges
        /\ user = d[1] /\ shows(vol[d[2]]) => <<d[1], d[2]>> \in purges

(* A sync never leaves a stored copy older than the one it started from, not *)
(* even when it had to purge that one and read a snapshot that lags.         *)
NeverBehind ==
    [][\A o \in Ops : op[o].at \in {"delta", "done"} =>
         LET u == op[o].user  v == op[o].v IN
         cache'[u][v].act # None => cache'[u][v].act.seq >= op[o].was]_vars

(* No entry of a stored copy goes back to an earlier revision, and none that *)
(* was deleted comes back, in whatever order pages bring the changes.        *)
EntriesNeverGoBack ==
    [][\A u \in Users, v \in Vaults, e \in Entries :
         cache[u][v].act # None /\ cache'[u][v].act # None =>
           cache'[u][v].act.items[e] >= cache[u][v].act.items[e]]_vars

(* Together: no stored copy and no entry of it ever turns older.             *)
CopiesNeverGoBack == NeverBehind /\ EntriesNeverGoBack

(* Nobody waits for a call that has ended: the queue holds exactly the calls *)
(* that need it, once each and only its head past its turn, and who joined a *)
(* refresh finds one in flight.  So every call is over once those ahead are. *)
NobodyIsForgotten ==
    LET queued == {o \in Ops : op[o].at \notin {"idle", "await"}} IN
    /\ {queue[i] : i \in 1..Len(queue)} = queued
    /\ Len(queue) = Cardinality(queued)
    /\ \A i \in 2..Len(queue) : op[queue[i]].at = "turn"
    /\ flight # None => flight.by \in queued
    /\ (\E o \in Ops : op[o].at = "await") => flight # None

(* Together: in whatever order accounts, hints, failures and restarts come,  *)
(* a copy holds all that it claims, only what its own user was served, only  *)
(* where the vault's policy allows, and nothing that was deleted.            *)
CopiesAreSound ==
    /\ TypeOK /\ CopiesCover /\ CopiesAreOwn /\ DisabledStaysVolatile
    /\ DeletedStaysHidden

=============================================================================
