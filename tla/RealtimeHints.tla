---------------------------- MODULE RealtimeHints ----------------------------
(* How the worker hears that a vault has changed.                            *)
(*                                                                           *)
(* VaultRealtimeConnection keeps one authenticated hub connection for as     *)
(* long as the session is unlocked: starts and stops are chained, a closed   *)
(* connection is built again after a delay, and a generation tells the       *)
(* callbacks of an old session from those of the present one.                *)
(* VaultInvalidationCoordinator takes the hints that arrive, repeated and    *)
(* out of order, and applies them one at a time per vault, newest only.      *)
EXTENDS Integers, Sequences, FiniteSetsExt

CONSTANTS
    Vaults,
    MaxVer,      \* bound: mutations of a vault
    MaxSessions, \* bound: unlocks of the worker
    MaxLosses,   \* bound: times the network fails
    Nil

ASSUME HintsAssumption ==
    /\ {MaxVer, MaxSessions, MaxLosses} \subseteq Nat
    /\ Nil \notin [ver : Nat, removed : BOOLEAN]

VARIABLES
    \* the coordinator
    pending, inFlight, applied, running, generation,
    drains,   \* the drain() calls at work on each vault
    \* the connection
    desired, hgen, hub,
    chain,    \* operation: connects and disconnects still to run
    retry,    \* the generation the retry timer is for
    conn,     \* what the vault service was last told
    \* the server and the network
    version, wire, losses,
    repair,   \* a repair has been asked for
    \* history
    heard,    \* hints received since the session's state was last cleared
    ended,    \* those of them whose application has ended
    missed    \* vaults changed while the hub was to be connected again

coordinator == <<pending, inFlight, applied, running, generation, drains>>
connection == <<desired, hgen, hub, chain, retry, conn>>
network == <<version, wire, losses>>
history == <<heard, ended, missed>>
hintVars == <<coordinator, connection, network, repair, history>>

Hints == [ver : 1..MaxVer, removed : BOOLEAN]

-----------------------------------------------------------------------------
(* The coordinator. *)

(* Mutant: a removal ranks with the change it goes with. *)
VersionOnly(h) == 2 * h.ver
(* For an equal mutation the removal dominates. *)
Dominating(h) == 2 * h.ver + (IF h.removed THEN 1 ELSE 0)
Rank(h) == Dominating(h)

Queued(v) == IF pending[v] = Nil THEN -1 ELSE Rank(pending[v])
HighestSeen(v) == Max({applied[v], inFlight[v], Queued(v)})

Drain(h) == [gen |-> generation, hint |-> h]

(* A hint that comes while a drain is at work replaces the one that waits.   *)
Keep(v, h) ==
    /\ pending' = [pending EXCEPT ![v] = h]
    /\ UNCHANGED <<inFlight, running, drains>>

(* accept: a drain takes the hint at once unless one is at work.             *)
Accept(v, h) ==
    /\ heard' = [heard EXCEPT ![v] = @ \cup {h}]
    /\ IF Rank(h) <= HighestSeen(v)
       THEN UNCHANGED <<pending, inFlight, running, drains>>
       ELSE IF running[v] THEN Keep(v, h)
       ELSE /\ running' = [running EXCEPT ![v] = TRUE]
            /\ drains' = [drains EXCEPT ![v] = @ \cup {Drain(h)}]
            /\ inFlight' = [inFlight EXCEPT ![v] = Rank(h)]
            /\ UNCHANGED pending
    /\ UNCHANGED <<applied, generation>>

(* Mutant: what a lock overtook counts as applied all the same. *)
AlwaysCurrent(d) == TRUE
Marks(d) == d.gen = generation

(* Mutant: the drain ends without a look at what arrived meanwhile. *)
Ends(v, d) ==
    /\ drains' = [drains EXCEPT ![v] = @ \ {d}]
    /\ running' = [running EXCEPT ![v] = FALSE]
    /\ inFlight' = [inFlight EXCEPT ![v] = -1]
    /\ UNCHANGED pending
(* The drain takes the next hint, or a new one does that a later session     *)
(* left for it; or it ends.                                                  *)
GoesOn(v, d) ==
    IF pending[v] = Nil THEN Ends(v, d)
    ELSE /\ drains' = [drains EXCEPT ![v] =
                         (@ \ {d}) \cup {Drain(pending[v])}]
         /\ inFlight' = [inFlight EXCEPT ![v] = Rank(pending[v])]
         /\ pending' = [pending EXCEPT ![v] = Nil]
         /\ UNCHANGED running
TakeNext(v, d) == GoesOn(v, d)

(* drain: apply() is settled. *)
Settled(v, d, ok) ==
    /\ d \in drains[v]
    /\ applied' = IF ok /\ Marks(d)
                  THEN [applied EXCEPT ![v] = Max({@, Rank(d.hint)})]
                  ELSE applied
    /\ ended' = IF d.gen = generation
                THEN [ended EXCEPT ![v] = @ \cup {d.hint}] ELSE ended
    /\ TakeNext(v, d)
    /\ UNCHANGED <<generation, connection, network, repair, heard, missed>>

(* Mutant: the drains at work are forgotten with the rest. *)
ForgetsDrains == running' = [v \in Vaults |-> FALSE]
KeepsDrains == UNCHANGED running
Forgets == KeepsDrains

Clear ==
    /\ generation' = generation + 1
    /\ pending' = [v \in Vaults |-> Nil]
    /\ inFlight' = [v \in Vaults |-> -1]
    /\ applied' = [v \in Vaults |-> -1]
    /\ Forgets
    /\ heard' = [v \in Vaults |-> {}] /\ ended' = [v \in Vaults |-> {}]
    /\ UNCHANGED drains

-----------------------------------------------------------------------------
(* The connection. *)

Down == [at |-> "none", gen |-> 0]

HubUnlock ==
    /\ ~desired /\ hgen + 1 < 2 * MaxSessions
    /\ desired' = TRUE /\ hgen' = hgen + 1
    /\ chain' = Append(chain, [op |-> "connect", gen |-> hgen + 1])
    /\ repair' = TRUE
    /\ UNCHANGED <<coordinator, hub, retry, conn, network, history>>

HubLock ==
    /\ desired
    /\ desired' = FALSE /\ hgen' = hgen + 1
    /\ chain' = Append(chain, [op |-> "disconnect", gen |-> hgen + 1])
    /\ retry' = Nil /\ conn' = FALSE /\ missed' = {} /\ repair' = FALSE
    /\ Clear
    /\ UNCHANGED <<hub, network>>

Wanted(g) == desired /\ g = hgen

(* The chain runs on by itself unless it waits for the hub to start or stop; *)
(* the hub's own events come between its steps.                              *)
Waiting == hub.at \in {"starting", "stopping"}
Quiet == chain = <<>> \/ Waiting

(* Mutant: the chain does not wait for the start. *)
NotAwaited == chain' = Tail(chain)
InTurn == UNCHANGED chain
Awaited == InTurn

Connect ==
    /\ chain # <<>> /\ chain[1].op = "connect" /\ ~Waiting
    /\ IF Wanted(chain[1].gen) /\ hub.at = "none"
       THEN /\ hub' = [at |-> "starting", gen |-> chain[1].gen]
            /\ Awaited
       ELSE /\ chain' = Tail(chain) /\ UNCHANGED hub
    /\ UNCHANGED <<coordinator, desired, hgen, retry, conn, network, repair,
                   history>>

(* Mutant: a start that ends after its session does is kept. *)
AnySession == TRUE
ForThisSession == Wanted(hub.gen)

HubStarted ==
    /\ hub.at = "starting"
    /\ IF ForThisSession
       THEN /\ hub' = [hub EXCEPT !.at = "up"]
            /\ conn' = TRUE /\ chain' = Tail(chain)
       ELSE /\ hub' = [hub EXCEPT !.at = "stopping"]
            /\ UNCHANGED <<conn, chain>>
    /\ UNCHANGED <<coordinator, desired, hgen, retry, network, repair, history>>

(* Mutant: a start that fails is not tried again. *)
NoRetry(g) == UNCHANGED retry
Schedules(g) == retry' = IF Wanted(g) THEN g ELSE retry
Schedule(g) == Schedules(g)

StartFails ==
    /\ hub.at = "starting" /\ losses < MaxLosses
    /\ losses' = losses + 1
    /\ hub' = Down /\ conn' = FALSE /\ chain' = Tail(chain)
    /\ Schedule(hub.gen)
    /\ UNCHANGED <<coordinator, desired, hgen, version, wire, repair, history>>

RetryFires ==
    /\ retry # Nil
    /\ chain' = Append(chain, [op |-> "connect", gen |-> retry])
    /\ retry' = Nil
    /\ UNCHANGED <<coordinator, desired, hgen, hub, conn, network, repair,
                   history>>

Disconnect ==
    /\ chain # <<>> /\ chain[1].op = "disconnect" /\ ~Waiting
    /\ conn' = FALSE
    /\ IF hub.at # "none"
       THEN hub' = [hub EXCEPT !.at = "stopping"] /\ UNCHANGED chain
       ELSE chain' = Tail(chain) /\ UNCHANGED hub
    /\ UNCHANGED <<coordinator, desired, hgen, retry, network, repair, history>>

(* onclose, and the end of stop(). *)
Stopped ==
    /\ hub.at = "stopping"
    /\ hub' = Down /\ conn' = FALSE /\ wire' = {} /\ chain' = Tail(chain)
    /\ UNCHANGED <<coordinator, desired, hgen, retry, version, losses, repair,
                   history>>

Reconnecting ==
    /\ hub.at = "up" /\ Quiet /\ losses < MaxLosses
    /\ losses' = losses + 1
    /\ hub' = [hub EXCEPT !.at = "reconnecting"]
    /\ conn' = FALSE /\ wire' = {}
    /\ UNCHANGED <<coordinator, desired, hgen, chain, retry, version, repair,
                   history>>

Reconnected ==
    /\ hub.at = "reconnecting" /\ Quiet
    /\ hub' = [hub EXCEPT !.at = "up"]
    /\ conn' = TRUE /\ repair' = TRUE
    /\ UNCHANGED <<coordinator, desired, hgen, chain, retry, network, history>>

(* onclose: SignalR has given up. *)
Closed ==
    /\ hub.at = "reconnecting" /\ Quiet
    /\ hub' = Down /\ conn' = FALSE
    /\ Schedule(hub.gen)
    /\ UNCHANGED <<coordinator, desired, hgen, chain, network, repair, history>>

-----------------------------------------------------------------------------
(* The server, its messages, and the repairs. *)

(* A mutation is announced as a change, as a removal, or as both. *)
Mutates(v) ==
    /\ version[v] < MaxVer
    /\ version' = [version EXCEPT ![v] = @ + 1]
    /\ \E removals \in (SUBSET BOOLEAN) \ {{}} :
         LET sent == {<<v, [ver |-> version[v] + 1, removed |-> r]>> :
                        r \in removals} IN
         wire' = IF hub.at = "up" THEN wire \cup sent ELSE wire
    /\ missed' = IF desired /\ (hub.at = "reconnecting" \/ retry # Nil)
                 THEN missed \cup {v} ELSE missed
    /\ UNCHANGED <<coordinator, connection, losses, repair, heard, ended>>

(* Messages are repeated and overtake each other. *)
Deliver(m) ==
    /\ m \in wire /\ Quiet
    /\ Accept(m[1], m[2])
    /\ UNCHANGED <<connection, network, repair, ended, missed>>

(* The repair, or the refresh of the 15-minute alarm. *)
Repair ==
    /\ desired /\ repair
    /\ repair' = FALSE /\ missed' = {}
    /\ UNCHANGED <<coordinator, connection, network, heard, ended>>

HintsInit ==
    /\ pending = [v \in Vaults |-> Nil]
    /\ inFlight = [v \in Vaults |-> -1] /\ applied = [v \in Vaults |-> -1]
    /\ running = [v \in Vaults |-> FALSE] /\ generation = 0
    /\ drains = [v \in Vaults |-> {}]
    /\ desired = FALSE /\ hgen = 0 /\ hub = Down /\ chain = <<>>
    /\ retry = Nil /\ conn = FALSE
    /\ version = [v \in Vaults |-> 0] /\ wire = {} /\ losses = 0
    /\ repair = FALSE
    /\ heard = [v \in Vaults |-> {}] /\ ended = [v \in Vaults |-> {}]
    /\ missed = {}

Applying(v) == \E d \in drains[v], ok \in BOOLEAN : Settled(v, d, ok)
Connection ==
    \/ Connect \/ HubStarted \/ StartFails \/ RetryFires \/ Disconnect \/ Stopped
    \/ Closed
HintsNext ==
    \/ Connection \/ HubUnlock \/ HubLock \/ Reconnecting
    \/ Reconnected \/ Repair
    \/ \E v \in Vaults : Mutates(v) \/ Applying(v)
    \/ \E m \in wire : Deliver(m)

HintsSpec == HintsInit /\ [][HintsNext]_hintVars
(* apply() settles; the chain, the timer and SignalR's own delays run on.    *)
HintsFairSpec ==
    /\ HintsSpec /\ WF_hintVars(Connection)
    /\ \A v \in Vaults : WF_hintVars(Applying(v))

-----------------------------------------------------------------------------
(* Properties. *)

(* Every variable has its type. *)
HintsTypeOK ==
    /\ pending \in [Vaults -> Hints \cup {Nil}]
    /\ inFlight \in [Vaults -> Int] /\ applied \in [Vaults -> Int]
    /\ running \in [Vaults -> BOOLEAN]
    /\ drains \in [Vaults -> SUBSET [gen : Nat, hint : Hints]]
    /\ heard \in [Vaults -> SUBSET Hints] /\ ended \in [Vaults -> SUBSET Hints]
    /\ generation \in Nat /\ hgen \in Nat /\ desired \in BOOLEAN
    /\ hub \in [at : {"none", "starting", "up", "reconnecting", "stopping"},
                gen : Nat]
    /\ chain \in Seq([op : {"connect", "disconnect"}, gen : Nat])
    /\ retry \in Nat \cup {Nil} /\ conn \in BOOLEAN /\ repair \in BOOLEAN
    /\ Waiting => chain # <<>>
    /\ version \in [Vaults -> 0..MaxVer] /\ wire \subseteq Vaults \X Hints
    /\ losses \in Nat /\ missed \subseteq Vaults

(* A vault's hints are applied one at a time, in whatever sessions they came:*)
(* a drain is at work exactly when the coordinator thinks so.                *)
OneAtATime ==
    \A v \in Vaults : IF running[v] THEN \E d \in drains[v] : drains[v] = {d}
                                   ELSE drains[v] = {}

(* No hint is lost: for each one that arrived in this session, one that says *)
(* at least as much waits, is being applied, or has been; of a change and a  *)
(* removal by the same mutation the removal says more.                       *)
Covers(x, h) ==
    x.ver > h.ver \/ (x.ver = h.ver /\ (h.removed => x.removed))
AtWork(v) == {d.hint : d \in {e \in drains[v] : e.gen = generation}}
HintsAreKept ==
    \A v \in Vaults : \A h \in heard[v] :
        \/ pending[v] # Nil /\ Covers(pending[v], h)
        \/ \E x \in AtWork(v) \cup ended[v] : Covers(x, h)

(* What is marked as applied was heard in this session: a completion that a  *)
(* lock overtook does not make the next session ignore its hints.            *)
AppliedWasHeard ==
    \A v \in Vaults : applied[v] # -1 =>
        \E h \in heard[v] : applied[v] = Dominating(h)

(* The vault service believes it is connected only while the present         *)
(* session's own hub is up, and then it does.                                *)
ConnectedIsTrue == conn <=> (desired /\ hub = [at |-> "up", gen |-> hgen])

(* Together: coalescing, draining and reconnecting neither lose a hint nor   *)
(* apply two at a time nor carry one into another session.                   *)
HintsAreSafe ==
    /\ HintsTypeOK /\ OneAtATime /\ HintsAreKept /\ AppliedWasHeard
    /\ ConnectedIsTrue

(* A hint that waits is taken or cleared, also when it waits for the work of *)
(* an earlier session.                                                       *)
HintsAreTaken == \A v \in Vaults : pending[v] # Nil ~> pending[v] = Nil

(* As long as the session is unlocked the hub is started again, whatever     *)
(* failed.                                                                   *)
HubIsRetried == desired /\ hub.at = "none" ~> hub.at = "starting" \/ ~desired

(* A locked session ends without a connection. *)
HubIsStopped == ~desired ~> desired \/ hub.at = "none"

(* The hub follows the session, whatever failed. *)
HubFollows == HubIsRetried /\ HubIsStopped

(* What changed while the hub was down is repaired when it is up again.      *)
ReconnectRepairs == hub.at = "up" /\ Wanted(hub.gen) => missed = {} \/ repair

=============================================================================
