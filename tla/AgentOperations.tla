--------------------------- MODULE AgentOperations ---------------------------
(* The agent bridge: a native host works on pages through the worker.        *)
(*                                                                           *)
(* runtime.ts keeps at most one native port, sets a secure channel up on it, *)
(* and reconnects at once or by an alarm. NativeOperationRouter keeps the    *)
(* operations of one port, each with the tab it has reserved; native-        *)
(* provider.ts and native-deferred.ts carry the messages of one operation    *)
(* out, with an answer of the page awaited between any two steps. The page   *)
(* is the content script of each tab, modelled as far as the worker relies   *)
(* on it.                                                                    *)
EXTENDS Integers, Sequences, FiniteSets, SequencesExt

CONSTANTS
    Slots,         \* operation objects, used again once nothing refers to them
    Ids, Tabs, Txs,
    Kinds,         \* the messages the host sends
    Events,        \* what else happens
    MaxOperations,
    MaxPorts, MaxDocs, \* bounds: ports opened, documents of a tab
    MaxLate,       \* bound: looks at a form that wait in a tab unawaited
    Gone,          \* a caller of an earlier life of the worker
    None

ASSUME AgentAssumption ==
    /\ {MaxOperations, MaxPorts, MaxDocs, MaxLate} \subseteq Nat /\ MaxDocs # 0
    /\ IsFiniteSet(Slots)
    /\ Gone \notin Slots /\ None \notin Slots \cup Ids \cup Tabs \cup Txs
    /\ None \notin {"operations", "legacy"}

VARIABLES
    \* runtime.ts
    port,     \* nativePort: its number, 0 for none
    opened,   \* ports opened so far
    channel,  \* the handshake: "offer", "ready", "open"
    mode,     \* the protocol the host has chosen
    attempt,  \* connectionAttempt waits for the drain
    due,      \* the look-up of the worker's start: "due", "done", "failed"
    alarm,    \* the reconnect alarm is pending
    out,      \* captures to deliver on the port
    \* the operations, of this port or still closing
    op,
    \* the replay guard: transactions stored, and look-ups under way
    used, reads,
    \* the pages: their document, the submit they hold ready, and the
    \* messages on their way to them
    page, mail,
    \* history: how often a transaction has reached a page
    effects

bridge == <<port, opened, channel, mode, attempt, due, alarm>>
guard == <<used, reads>>
pages == <<page, mail>>
vars == <<bridge, out, op, guard, pages, effects>>

Waiting == -1

-----------------------------------------------------------------------------
(* What a message of the host makes the worker do, one await after another:  *)
(* "look" asks for the tab's document, "consume" the replay guard, and the   *)
(* rest is sent to the page.                                                 *)
Script ==
    [probe   |-> <<"look">>,
     plain   |-> <<"look">>,
     pinned  |-> <<"active", "look">>,
     live    |-> <<"look", "inspect", "look">>,
     capture |-> <<"consume", "look", "capture", "look">>,
     inject  |-> <<"consume", "look", "look", "step">>,
     relay   |-> <<"consume", "look", "look", "step", "survey">>,
     fill    |-> <<"consume", "look", "fill", "look">>,
     commit  |-> <<"consume", "look", "commit", "survey">>]

Preparations == {"plain", "pinned", "live"}
\* what a preparation must be for the message that uses it up
Needs == [capture |-> {"plain"}, inject |-> Preparations,
          relay |-> {"live"}, fill |-> {"live"}]
PageWork == {"inspect", "capture", "step", "survey", "fill", "commit"}
TimedWork == {"inspect", "survey", "fill", "commit"}

Call(kind, t, tx, doc, for) ==
    [kind |-> kind, at |-> 1, tab |-> t, tx |-> tx, doc |-> doc, plan |-> doc,
     for |-> for, ans |-> Waiting]
Stage(c) == Script[c.kind][c.at]
Waits(i, stages) ==
    /\ op[i] # None /\ op[i].call # None
    /\ op[i].call.ans = Waiting /\ Stage(op[i].call) \in stages

Message(kind, by, c) ==
    [kind |-> kind, by |-> by, tx |-> c.tx, doc |-> c.doc, for |-> c.for]
Posted(box, t, m) == [box EXCEPT ![t] = Append(@, m)]

(* DEFERRED_CANCEL, when the session has a submit that is pending.           *)
CancelFor(i, s) ==
    [kind |-> "cancel", by |-> i, tx |-> None, doc |-> 0, for |-> s.tx]
(* cancelPendingDeferred *)
Cancelled(box, i) ==
    IF op[i].sub = None THEN box
    ELSE Posted(box, op[i].sub.tab, CancelFor(i, op[i].sub))

Of(p) == {i \in Slots : op[i] # None /\ op[i].port = p}
Live(i) == op[i] # None /\ op[i].active
Cancelling(i) == \E t \in Tabs : \E n \in DOMAIN mail[t] :
                    mail[t][n].kind = "cancel" /\ mail[t][n].by = i

-----------------------------------------------------------------------------
(* The port. *)

(* connectNativeAgentProviderForLifecycle *)
Connects == attempt' = (attempt \/ port = 0)

(* close of every operation, and the same for the serial session.            *)
Revoked(o) == [o EXCEPT !.active = FALSE, !.sub = None]
(* Mutant: the pages are not told.                                           *)
SilentlyRevoked(ps) == mail
Withdrawn(ps) ==
    [t \in Tabs |-> mail[t] \o SetToSeq({CancelFor(i, op[i].sub) :
        i \in {j \in ps : op[j].sub # None /\ op[j].sub.tab = t}})]
(* disposeSecureSession: what it owns is revoked at once.                    *)
Dispose ==
    /\ port' = 0 /\ channel' = "offer" /\ mode' = None /\ out' = <<>>
    /\ op' = [i \in Slots |-> IF i \in Of(port) THEN Revoked(op[i]) ELSE op[i]]
    /\ mail' = Withdrawn(Of(port))

(* disconnectSecurePort *)
DropPort ==
    /\ Dispose
    /\ alarm' = TRUE
    /\ UNCHANGED <<opened, attempt, due, guard, page, effects>>

(* connectNativeAgentProviderIfDueNow: a pending alarm is left to fire; a    *)
(* start that cannot read the alarm does nothing more.                       *)
Startup ==
    /\ due = "due"
    /\ \/ due' = "failed" /\ UNCHANGED attempt
       \/ due' = "done" /\ IF alarm THEN UNCHANGED attempt ELSE Connects
    /\ UNCHANGED <<port, opened, channel, mode, alarm, out, op,
                   guard, pages, effects>>

(* handleNativeAgentAlarm *)
AlarmFires ==
    /\ alarm /\ alarm' = FALSE /\ Connects
    /\ due' = IF due = "failed" THEN "done" ELSE due
    /\ UNCHANGED <<port, opened, channel, mode, out, op, guard,
                   pages, effects>>

(* drainingSession: the pages are cleaned up for the port before.            *)
Drained == \A i \in Slots : op[i] = None

(* openNativeAgentProvider, after the drain; connectNative may fail.         *)
OpenPort ==
    /\ attempt /\ Drained /\ attempt' = FALSE
    /\ \/ /\ opened < MaxPorts
          /\ port' = opened + 1 /\ opened' = opened + 1
          /\ UNCHANGED alarm
       \/ alarm' = TRUE /\ UNCHANGED <<port, opened>>
    /\ UNCHANGED <<channel, mode, due, out, op, guard, pages,
                   effects>>

(* The host's offer, then its ready: the channel is open.                    *)
Handshake ==
    /\ port # 0 /\ channel # "open"
    /\ channel' = IF channel = "offer" THEN "ready" ELSE "open"
    /\ alarm' = (alarm /\ channel = "offer")
    /\ UNCHANGED <<port, opened, mode, attempt, due, out, op, guard,
                   pages, effects>>

(* armHandshakeTimeout: the next port is opened without the alarm.           *)
HandshakeTimeout ==
    /\ port # 0 /\ channel # "open"
    /\ Dispose /\ attempt' = TRUE
    /\ UNCHANGED <<opened, due, alarm, guard, page, effects>>

(* A frame that is malformed or not in turn, or mixes the two protocols.     *)
BadFrame == port # 0 /\ "badframe" \in Events /\ DropPort

(* Mutant: the port that ends by itself is not replaced.                     *)
NotReplaced == UNCHANGED <<attempt, alarm>>
(* At once after a terminal result or when it has not just been done.        *)
Recovers ==
    \/ channel = "open" /\ attempt' = TRUE /\ UNCHANGED alarm
    \/ alarm' = TRUE /\ UNCHANGED attempt

(* onDisconnect *)
HostDisconnects ==
    /\ port # 0 /\ "disconnect" \in Events
    /\ Recovers /\ Dispose
    /\ UNCHANGED <<opened, due, guard, page, effects>>

(* Mutant: the transactions are kept in memory only.                         *)
InMemory == {}
(* SessionReplayGuard keeps them in session storage.                         *)
Stored == used

(* The worker ends: alarms, the stored transactions and the pages remain.    *)
Restart ==
    /\ "restart" \in Events /\ opened < MaxPorts
    /\ port' = 0 /\ channel' = "offer" /\ mode' = None /\ attempt' = FALSE
    /\ due' = "due" /\ out' = <<>> /\ reads' = {}
    /\ op' = [i \in Slots |-> None]
    /\ mail' = [t \in Tabs |-> [n \in DOMAIN mail[t] |->
                                 [mail[t][n] EXCEPT !.by = Gone]]]
    /\ page' = [t \in Tabs |-> IF page[t].held = None THEN page[t]
                               ELSE [page[t] EXCEPT !.held.by = Gone]]
    /\ used' = Stored
    /\ UNCHANGED <<opened, alarm, effects>>

-----------------------------------------------------------------------------
(* The host's messages. *)

Usable(m) == port # 0 /\ channel = "open" /\ mode \in {None, m} /\ mode' = m
Stays == UNCHANGED <<port, opened, channel, attempt, due, alarm>>

Fresh(i) == op[i] = None /\ \A n \in DOMAIN out : out[n].by # i
(* Mutant: a tab is free although its operation is still closing.            *)
AnyTab(t) == \A i \in Of(port) : op[i].tab # t \/ ~op[i].active
FreeTab(t) == \A i \in Of(port) : op[i].tab # t

Operation(id, t, c) ==
    [id |-> id, port |-> port, tab |-> t, active |-> TRUE, closing |-> FALSE,
     prep |-> None, sub |-> None, call |-> c]

(* dispatch of a preparation or a probe with an identifier not in use: the   *)
(* tab is reserved before the page is looked at. A preparation that names no *)
(* tab is for the active one, and a probe reserves none.                     *)
NewOperation(i, id) ==
    /\ Usable("operations") /\ Fresh(i)
    /\ \A j \in Of(port) : op[j].id # id
    /\ Cardinality(Of(port)) < MaxOperations
    /\ \/ \E t \in Tabs, kind \in {"plain", "live"} \cap Kinds :
            /\ FreeTab(t)
            /\ op' = [op EXCEPT ![i] = Operation(id, t, Call(kind, t, None, 0, None))]
       \/ /\ "pinned" \in Kinds
          /\ op' = [op EXCEPT ![i] = Operation(id, None, Call("pinned", None, None, 0, None))]
       \/ \E t \in Tabs :
            /\ "probe" \in Kinds
            /\ op' = [op EXCEPT ![i] = Operation(id, None, Call("probe", t, None, 0, None))]
    /\ Stays /\ UNCHANGED <<out, guard, pages, effects>>

(* The serial session of a host that sends bare messages.                    *)
LegacySession(i) ==
    /\ Usable("legacy") /\ "legacy" \in Kinds /\ Fresh(i) /\ Of(port) = {}
    /\ op' = [op EXCEPT ![i] = Operation(None, None, None)]
    /\ Stays /\ UNCHANGED <<out, guard, pages, effects>>

(* A message finds its operation with nothing under way.                     *)
Turn(i) ==
    /\ i \in Of(port) /\ Live(i) /\ op[i].call = None
    /\ Usable(IF op[i].id = None THEN "legacy" ELSE "operations")
    /\ op[i].id = None => \A n \in DOMAIN out : out[n].by # i

(* Any message but a commit or a cancel withdraws the submit that is pending.*)
Prepare(i) ==
    /\ Turn(i) /\ op[i].id = None
    /\ \E kind \in Preparations \cap Kinds :
       \E t \in IF kind = "pinned" THEN {None} ELSE Tabs :
         op' = [op EXCEPT ![i].sub = None,
                          ![i].call = Call(kind, t, None, 0, None)]
    /\ mail' = Cancelled(mail, i)
    /\ Stays /\ UNCHANGED <<out, guard, page, effects>>

(* capture, inject: the preparation is used up, also when the message is not *)
(* one that it allows.                                                       *)
Use(i, kind, tx) ==
    LET p == op[i].prep
        allowed == {Call(kind, q.tab, tx, q.doc, None) :
                        q \in {r \in {p} \ {None} : r.how \in Needs[kind]}} IN
    /\ Turn(i) /\ kind \in Kinds
    /\ \E c \in allowed \cup {None} :
         op' = [op EXCEPT ![i].sub = None, ![i].prep = None, ![i].call = c]
    /\ mail' = Cancelled(mail, i)
    /\ Stays /\ UNCHANGED <<out, guard, page, effects>>

(* commitDeferredSubmit: the submit is taken, and once; if it is not the one *)
(* the host was told is ready, it is withdrawn.                              *)
Commit(i, tx) ==
    LET s == op[i].sub IN
    /\ Turn(i) /\ "commit" \in Kinds /\ s # None
    /\ \/ /\ s.ready
          /\ op' = [op EXCEPT ![i].sub = None,
                     ![i].call = Call("commit", s.tab, tx, s.doc, s.tx)]
          /\ UNCHANGED mail
       \/ /\ op' = [op EXCEPT ![i].sub = None]
          /\ mail' = Cancelled(mail, i)
    /\ Stays /\ UNCHANGED <<out, guard, page, effects>>

(* The host cancels the submit, or its deadline passes.                      *)
CancelSubmit(i) ==
    /\ op[i] # None /\ op[i].sub # None
    /\ op' = [op EXCEPT ![i].sub = None] /\ mail' = Cancelled(mail, i)
    /\ UNCHANGED <<bridge, out, guard, page, effects>>

(* close: the host asks for it, or the operation's time is up.               *)
Close(i) ==
    /\ i \in Of(port) /\ op[i].id # None /\ Live(i)
    /\ op' = [op EXCEPT ![i] = Revoked(@)] /\ mail' = Cancelled(mail, i)
    /\ UNCHANGED <<bridge, out, guard, page, effects>>

PageSettled(i) == ~Cancelling(i) /\ op[i].call = None

(* finishClose: only then is the reservation given up. The submit of a call  *)
(* that ended meanwhile is cancelled as well.                                *)
FinishClose(i) ==
    /\ op[i] # None /\ ~op[i].active /\ PageSettled(i)
    /\ op' = [op EXCEPT ![i] = IF op[i].closing THEN None
                               ELSE [@ EXCEPT !.closing = TRUE, !.sub = None]]
    /\ mail' = Cancelled(mail, i)
    /\ UNCHANGED <<bridge, out, guard, page, effects>>

-----------------------------------------------------------------------------
(* One await after another. *)

Answer(o, i, ans) == [o EXCEPT ![i].call.ans = ans]

(* getPageById, chrome.tabs.query: the document, or none that will do.       *)
Looked(i) ==
    /\ \/ /\ Waits(i, {"look"})
          /\ \E d \in {0, page[op[i].call.tab].doc} : op' = Answer(op, i, d)
       \/ /\ Waits(i, {"active"})
          /\ \/ \E t \in Tabs : op' = [op EXCEPT ![i].call.tab = t, ![i].call.ans = 1]
             \/ op' = Answer(op, i, 0)
    /\ UNCHANGED <<bridge, out, guard, pages, effects>>

(* SessionReplayGuard.consume, one after the other: the stored list is read, *)
(* then written.                                                             *)
ReadUsed(i) ==
    /\ Waits(i, {"consume"}) /\ reads = {}
    /\ reads' = reads \cup {[by |-> i, tx |-> op[i].call.tx,
                             new |-> op[i].call.tx \notin used]}
    /\ UNCHANGED <<bridge, out, op, used, pages, effects>>
WriteUsed(r) ==
    /\ r \in reads /\ reads' = reads \ {r}
    /\ used' = used \cup {r.tx}
    /\ op' = Answer(op, r.by, IF r.new THEN 1 ELSE 0)
    /\ UNCHANGED <<bridge, out, pages, effects>>

Late(t) == Cardinality({n \in DOMAIN mail[t] : mail[t][n].by = Gone})
(* settleWithin: the worker stops waiting, the page may still be at it.      *)
TimesOut(i) ==
    LET c == op[i].call IN
    /\ Waits(i, TimedWork)
    /\ Stage(c) = "inspect" => Late(c.tab) < MaxLate
    /\ op' = Answer(op, i, 0)
    /\ mail' = [mail EXCEPT ![c.tab] =
                  [n \in DOMAIN @ |-> IF @[n].by = i /\ @[n].kind = "inspect"
                                      THEN [@[n] EXCEPT !.by = Gone] ELSE @[n]]]
    /\ UNCHANGED <<bridge, out, guard, page, effects>>

(* The document has to be the prepared one: before anything is sent, and     *)
(* after what is only read or prepared. A step is for the document that is   *)
(* there when it is sent.                                                    *)
Agrees(c) ==
    \/ Stage(c) # "look" \/ c.plan = 0 \/ c.ans = c.plan
    \/ c.kind \in {"inject", "relay"} /\ c.at = 3
(* Mutant: an answer that found nothing will do.                             *)
Whatever(c) == TRUE
Found(c) == c.ans # 0
Good(i, c) ==
    /\ Found(c) /\ Agrees(c)
    /\ Stage(c) = "active" /\ op[i].id # None => FreeTab(c.tab)
    /\ c.kind = "fill" /\ c.at = 4 => op[i].sub # None /\ op[i].sub.tx = c.tx

(* The next await. A preparation works from the document it has found.       *)
Advanced(c) ==
    [c EXCEPT !.at = @ + 1, !.ans = Waiting,
              !.doc = IF Stage(c) = "look" THEN c.ans ELSE @,
              !.plan = IF c.kind = "live" /\ c.at = 1 THEN c.ans ELSE @]
Goes(i, c) ==
    LET d == Advanced(c) IN
    /\ op' = [op EXCEPT ![i].call = d,
        ![i].tab = IF Stage(c) = "active" /\ op[i].id # None THEN c.tab ELSE @,
        ![i].sub = IF Stage(d) = "fill"
                   THEN [tab |-> d.tab, tx |-> d.tx, doc |-> d.doc, ready |-> FALSE]
                   ELSE @]
    /\ mail' = IF Stage(d) \in PageWork
               THEN Posted(mail, d.tab, Message(Stage(d), i, d)) ELSE mail
    /\ UNCHANGED out

Prepared(c, how) == [tab |-> c.tab, doc |-> c.ans, how |-> how]
Over(o) == [o EXCEPT !.call = None]

(* The message is done.                                                      *)
Ends(i, c) ==
    /\ op' = [op EXCEPT ![i] =
         CASE c.kind \in Preparations -> [Over(@) EXCEPT !.prep = Prepared(c, c.kind)]
           [] c.kind \in {"relay", "commit"} -> [Over(@) EXCEPT !.prep = Prepared(c, "live")]
           [] c.kind = "fill" -> [Over(@) EXCEPT !.sub.ready = TRUE]
           [] OTHER -> Over(@)]
    /\ out' = IF c.kind = "capture"
              THEN Append(out, [by |-> i, id |-> op[i].id, sealed |-> FALSE]) ELSE out
    /\ mail' = IF c.kind = "commit"
               THEN Posted(mail, c.tab, CancelFor(i, [tx |-> c.for])) ELSE mail

(* fillDeferredLogin takes back what the page was given too late.            *)
TakesBack(i, c) == Stage(c) = "fill" /\ ~op[i].active

(* The message has failed, or its operation was closed meanwhile.            *)
Fails(i, c) ==
    /\ op' = [op EXCEPT ![i].call = None,
         ![i].sub = IF c.kind = "fill" THEN None ELSE @,
         ![i].prep = IF c.kind \in Preparations THEN None ELSE @]
    /\ mail' = IF c.kind = "commit" THEN Posted(mail, c.tab, CancelFor(i, [tx |-> c.for]))
               ELSE IF TakesBack(i, c) THEN Posted(mail, c.tab, CancelFor(i, c))
               ELSE IF c.kind = "fill" THEN Cancelled(mail, i) ELSE mail
    /\ UNCHANGED out

(* gateAgentFillDeps *)
Allowed(i) == op[i].active

Continue(i) ==
    /\ op[i] # None /\ op[i].call # None /\ op[i].call.ans # Waiting
    /\ LET c == op[i].call IN
         IF ~Good(i, c) \/ ~Allowed(i) THEN Fails(i, c)
         ELSE IF c.at < Len(Script[c.kind]) THEN Goes(i, c)
         ELSE Ends(i, c)
    /\ UNCHANGED <<bridge, guard, page, effects>>

-----------------------------------------------------------------------------
(* Delivery of what was captured: sealing takes a number of the channel.     *)

CanDeliver(r) == Live(r.by)

Seal ==
    /\ out # <<>> /\ ~Head(out).sealed
    /\ out' = IF CanDeliver(Head(out)) THEN [out EXCEPT ![1].sealed = TRUE]
              ELSE Tail(out)
    /\ UNCHANGED <<bridge, op, guard, pages, effects>>

(* A sealed frame is posted, or the port is closed.                          *)
Deliver ==
    /\ out # <<>> /\ Head(out).sealed
    /\ IF CanDeliver(Head(out))
       THEN out' = Tail(out)
            /\ UNCHANGED <<bridge, op, guard, pages, effects>>
       ELSE DropPort

-----------------------------------------------------------------------------
(* The pages. *)

(* The caller learns the answer if it still waits for it.                    *)
Told(by, kind, tx, ans) ==
    op' = IF by # Gone /\ Waits(by, {kind}) /\ op[by].call.tx = tx
          THEN Answer(op, by, ans) ELSE op

Holding(t, h) == [page EXCEPT ![t].held = h]
Reached(tx) == effects' = [effects EXCEPT ![tx] = @ + 1]
Unreached == UNCHANGED effects
Here(t, m) == m.doc = page[t].doc

(* What is held is dropped; a fill that is still looking for its button has  *)
(* failed.                                                                   *)
Drops(t) ==
    LET h == page[t].held IN
    /\ page' = Holding(t, None)
    /\ IF h # None /\ ~h.ready THEN Told(h.by, "fill", h.tx, 0) ELSE UNCHANGED op

Cancels(t, m) ==
    /\ m.kind = "cancel" /\ Unreached
    /\ IF page[t].held # None /\ page[t].held.tx = m.for
       THEN Drops(t) ELSE UNCHANGED <<page, op>>

(* inspect, probe: a new look at the form drops what was held. A fill that   *)
(* is dropped in the same step cannot be the caller's.                       *)
Inspects(t, m) ==
    /\ m.kind \in {"inspect", "survey"} /\ Unreached
    /\ m.kind = "inspect" => Here(t, m)
    /\ page' = Holding(t, None)
    /\ \E d \in {0, page[t].doc} : Told(m.by, m.kind, m.tx, d)

(* capture, step: a step on what a look has found drops what was held, too.  *)
Reads(t, m) ==
    /\ m.kind \in {"capture", "step"}
    /\ page' \in {page} \cup (IF m.kind = "step" THEN {Holding(t, None)} ELSE {})
    /\ IF Here(t, m) THEN Reached(m.tx) ELSE Unreached
    /\ \E ans \in {0, 1} : /\ ans = 1 => Here(t, m)
                           /\ Told(m.by, m.kind, m.tx, ans)

(* DeferredLiveLogin.fill: one submit at a time.                             *)
Fills(t, m) ==
    /\ m.kind = "fill"
    /\ \/ /\ page[t].held = None /\ Here(t, m)
          /\ page' = Holding(t, [by |-> m.by, tx |-> m.tx, ready |-> FALSE])
          /\ Reached(m.tx) /\ UNCHANGED op
       \/ UNCHANGED page /\ Unreached /\ Told(m.by, "fill", m.tx, 0)

(* DeferredLiveLogin.commit: an attempt uses up what is held, and it is      *)
(* submitted only if the commit names it.                                    *)
Submits(t, m) ==
    LET h == page[t].held IN
    /\ m.kind = "commit"
    /\ \/ /\ h # None /\ h.ready /\ h.tx = m.for
          /\ page' = Holding(t, None) /\ Reached(m.tx)
          /\ Told(m.by, "commit", m.tx, 1)
       \/ /\ page' = Holding(t, None) /\ Unreached
          /\ Told(m.by, "commit", m.tx, 0)

(* The content script takes the next message of the worker.                  *)
PageTakes(t) ==
    /\ mail[t] # <<>>
    /\ LET m == Head(mail[t]) IN
         Cancels(t, m) \/ Inspects(t, m) \/ Reads(t, m) \/ Fills(t, m) \/ Submits(t, m)
    /\ mail' = [mail EXCEPT ![t] = Tail(@)]
    /\ UNCHANGED <<bridge, out, guard>>

(* The form has settled and its button was found: the submit is ready.       *)
PageReady(t) ==
    LET h == page[t].held IN
    /\ h # None /\ ~h.ready
    /\ page' = Holding(t, [h EXCEPT !.ready = TRUE])
    /\ Told(h.by, "fill", h.tx, 1)
    /\ UNCHANGED <<bridge, out, guard, mail, effects>>

(* Its own deadline has passed, or the form changed under it.                *)
PageDrops(t) ==
    /\ page[t].held # None /\ Drops(t)
    /\ UNCHANGED <<bridge, out, guard, mail, effects>>

(* A new document: what the old one was asked is answered by no one.         *)
Navigate(t) ==
    /\ page[t].doc < MaxDocs
    /\ page' = [page EXCEPT ![t] = [doc |-> @.doc + 1, held |-> None]]
    /\ mail' = [mail EXCEPT ![t] = <<>>]
    /\ op' = [i \in Slots |-> IF Waits(i, PageWork) /\ op[i].call.tab = t
                              THEN [op[i] EXCEPT !.call.ans = 0] ELSE op[i]]
    /\ UNCHANGED <<bridge, out, guard, effects>>

-----------------------------------------------------------------------------
Init ==
    /\ port = 0 /\ opened = 0 /\ channel = "offer" /\ mode = None
    /\ attempt = FALSE /\ due = "due" /\ alarm = FALSE /\ out = <<>>
    /\ op = [i \in Slots |-> None] /\ used = {} /\ reads = {}
    /\ page = [t \in Tabs |-> [doc |-> 1, held |-> None]]
    /\ mail = [t \in Tabs |-> <<>>] /\ effects = [x \in Txs |-> 0]

Worker(i) == Looked(i) \/ ReadUsed(i) \/ Continue(i) \/ FinishClose(i)
Host(i) ==
    \/ LegacySession(i) \/ Prepare(i) \/ Close(i)
    \/ \E id \in Ids : NewOperation(i, id)
    \/ \E tx \in Txs : Commit(i, tx) \/ \E k \in DOMAIN Needs : Use(i, k, tx)

Next ==
    \/ Startup \/ AlarmFires \/ OpenPort \/ Handshake \/ HandshakeTimeout
    \/ BadFrame \/ HostDisconnects \/ Restart \/ Seal \/ Deliver
    \/ \E i \in Slots : Worker(i) \/ Host(i) \/ TimesOut(i) \/ CancelSubmit(i)
    \/ \E r \in reads : WriteUsed(r)
    \/ \E t \in Tabs : PageTakes(t) \/ PageReady(t) \/ PageDrops(t) \/ Navigate(t)

Spec == Init /\ [][Next]_vars

-----------------------------------------------------------------------------
(* Properties. *)

Calls == [kind : DOMAIN Script, at : 1..5, tab : Tabs \cup {None},
          tx : Txs \cup {None}, doc : 0..MaxDocs, plan : 0..MaxDocs,
          for : Txs \cup {None}, ans : Waiting..MaxDocs]
Plans == [tab : Tabs, doc : 1..MaxDocs, how : Preparations]
Pending == [tab : Tabs, tx : Txs, doc : 1..MaxDocs, ready : BOOLEAN]
Operations ==
    [id : Ids \cup {None}, port : 1..MaxPorts, tab : Tabs \cup {None},
     active : BOOLEAN, closing : BOOLEAN,
     prep : {None} \cup Plans, sub : {None} \cup Pending,
     call : {None} \cup Calls]
Held == [by : Slots \cup {Gone}, tx : Txs, ready : BOOLEAN]
Letters == [kind : PageWork \cup {"cancel"}, by : Slots \cup {Gone},
            tx : Txs \cup {None}, doc : 0..MaxDocs, for : Txs \cup {None}]

ASSUME NoneIsNoRecord == None \notin Calls \cup Plans \cup Pending \cup Operations \cup Held

(* Every variable is well typed, and a call has a tab unless it is still to  *)
(* find the active one.                                                      *)
TypeOK ==
    /\ port \in 0..MaxPorts /\ opened \in port..MaxPorts
    /\ channel \in {"offer", "ready", "open"}
    /\ mode \in {None, "operations", "legacy"}
    /\ {attempt, alarm} \subseteq BOOLEAN /\ due \in {"due", "done", "failed"}
    /\ \A n \in DOMAIN out :
         out[n] \in [by : Slots, id : Ids \cup {None}, sealed : BOOLEAN]
    /\ op \in [Slots -> {None} \cup Operations]
    /\ \A i \in Slots : op[i] # None /\ op[i].call # None =>
         op[i].call.tab # None \/ Stage(op[i].call) = "active"
    /\ used \subseteq Txs /\ reads \subseteq [by : Slots, tx : Txs, new : BOOLEAN]
    /\ page \in [Tabs -> [doc : 1..MaxDocs, held : {None} \cup Held]]
    /\ \A t \in Tabs : \A n \in DOMAIN mail[t] : mail[t][n] \in Letters
    /\ effects \in [Txs -> Nat]

(* Credentials are worked with on a page by one operation at a time, whose   *)
(* reservation of the tab lasts until the page has done with it, also when   *)
(* the port was replaced meanwhile.                                          *)
AtWork(t) ==
    {mail[t][n].by : n \in {k \in DOMAIN mail[t] :
        mail[t][k].kind \in {"fill", "capture", "step", "commit", "cancel"}}}
    \cup (IF page[t].held = None THEN {} ELSE {page[t].held.by})
TabsAreReserved ==
    \A t \in Tabs : \A i \in AtWork(t) \ {Gone} :
        /\ op[i] # None /\ AtWork(t) \subseteq {i, Gone}
        /\ op[i].id # None => op[i].tab = t

(* Values that a page holds ready for a submit are always known to someone   *)
(* who will submit or withdraw them: the operation, its commit under way, or *)
(* a cancellation on its way.                                                *)
Accounted(t, h) ==
    \/ op[h.by].sub # None /\ op[h.by].sub.tx = h.tx
    \/ op[h.by].call # None /\ op[h.by].call.for = h.tx
    \/ op[h.by].call # None /\ op[h.by].call.tx = h.tx
    \/ \E n \in DOMAIN mail[t] : mail[t][n].for = h.tx
NoValuesForgotten ==
    \A t \in Tabs : LET h == page[t].held IN
        h # None /\ h.by # Gone => op[h.by] # None /\ Accounted(t, h)

(* Both, through every answer, navigation, lost port and restart.            *)
PagesAreOwned == TypeOK /\ TabsAreReserved /\ NoValuesForgotten

(* A transaction reaches a page at most once, however often the host sends   *)
(* it, from whichever operation, port or life of the worker.                 *)
EffectsAreOnce == \A x \in Txs : effects[x] <= 1

(* However a port ends, something is left that opens the next: with no port, *)
(* one is being opened, or the alarm or the worker's start will do it. The   *)
(* one exception is a worker that could not read the alarm when it started:  *)
(* until a first attempt it waits for an alarm that may not be there, or for *)
(* its next start.                                                           *)
NeverStranded == port = 0 => attempt \/ alarm \/ due \in {"due", "failed"}
=============================================================================
