--------------------------- MODULE UnlockTransfer ---------------------------
(* How one client of an account unlocks the other: the coordinators that     *)
(* agree over a route on who sends to whom, and the transaction that turns   *)
(* what arrives into an own session.                                         *)
(*                                                                           *)
(* The web application and the extension run the same coordinator at the two *)
(* ends of an ordered route.  Each tells the other its state; the extension  *)
(* selects a link for the pair of states, the web application confirms it,   *)
(* and the unlocked end offers its keys, once for each selection.  The other *)
(* end consumes the operation at Identity, is issued a session of its own,   *)
(* stores it and publishes it, unless anything has changed on the way: then  *)
(* Identity is asked to revoke what it issued, and what was stored is put    *)
(* back.  All the while the users of both ends lock, sign in and out, and    *)
(* the route breaks.                                                         *)
EXTENDS Naturals, Sequences, FiniteSets

CONSTANTS
    People,     \* accounts
    MaxEvents,  \* bound: what happens to the sessions and to the route
    MaxTries,   \* bound: attempts
    Nobody

ASSUME TransferAssumption == {MaxEvents, MaxTries} \subseteq Nat

VARIABLES
    home,  \* of each end: SessionManager, SharedUnlockSourceAuthority, marker
    floor, \* of each end and account: SharedUnlockExpiryStore
    co,    \* of each end: the coordinator
    tx,    \* of each attempt: the receiver's transaction
    wire,  \* to each end: the messages on the route
    idy,   \* Identity
    events, \* bound: events left
    shut   \* history: the roots of the sessions that were ended, by end

transferVars == <<home, floor, co, tx, wire, idy, events, shut>>

Ends == {"web", "ext"}
Far(s) == IF s = "web" THEN "ext" ELSE "web"
Tries == 1 .. MaxTries

(* What an end says of itself, what the ends agree on, an attempt of an end, *)
(* and the receiver's transaction.                                           *)
Statuses == {"out", "locked", "unlocked"}
States == {x \in [id : Nat, acct : People \cup {Nobody}, status : Statuses, gen : Nat] :
             (x.status = "out") = (x.acct = Nobody)}
Selections == [acct : People, link : Nat, web : Nat, ext : Nat]
Attempts ==
    [id : Tries, dir : {"source", "receiver"},
     at : {"scope", "wait", "offer", "ack", "hand", "install", "aborted"},
     sel : Selections, root : Nat]
Transactions ==
    [side : Ends, acct : People, root : Nat,
     at : {"hand", "commit", "stage", "fresh", "publish", "late", "over"},
     cur : BOOLEAN, prev : Nat, cleared : BOOLEAN]
ASSUME NobodyAssumption ==
    /\ Nobody \notin People /\ Nobody \notin States /\ Nobody \notin Selections
    /\ Nobody \notin Attempts /\ Nobody \notin Transactions

-----------------------------------------------------------------------------
(* The coordinator.  A state is what an end last said of itself: its own id, *)
(* account and status, and the generation of the authority it can share.     *)
Roles(s) == IF s = "web" THEN [web |-> co[s].own, ext |-> co[s].peer]
                         ELSE [web |-> co[s].peer, ext |-> co[s].own]

Shares(state) == state.status = "unlocked" /\ state.gen # 0

(* pair: the web application is the source when both could be. *)
PairFor(r) ==
    IF Nobody \in {r.web, r.ext} \/ ~(Shares(r.web) \/ Shares(r.ext)) THEN Nobody
    ELSE LET from == IF Shares(r.web) THEN "web" ELSE "ext"
             source == r[from]
             receiver == r[Far(from)]
         IN IF \/ receiver.status = "unlocked"
               \/ receiver.acct \notin {Nobody, source.acct} THEN Nobody
            ELSE [from |-> from, acct |-> source.acct,
                  web |-> r.web.id, ext |-> r.ext.id]
PairOf(s) == PairFor(Roles(s))

Selection(pair, link) ==
    [acct |-> pair.acct, link |-> link, web |-> pair.web, ext |-> pair.ext]
(* matches *)
Matches(s, sel) ==
    LET p == PairOf(s) IN
    sel # Nobody /\ p # Nobody /\ sel = Selection(p, sel.link)

NoPick == [at |-> "idle", cur |-> FALSE, link |-> Nobody]

(* cancel; the refreshes that a receiver kept waiting follow.                *)
Cancelled(c) ==
    [c EXCEPT !.att = Nobody,
              !.again = @ \/ (c.att # Nobody /\ c.att.dir = "receiver")]
(* A new version: whatever was agreed or is under way no longer counts.      *)
Renewed(c) ==
    [Cancelled(c) EXCEPT !.sel = Nobody, !.tried = Nobody, !.pick.cur = FALSE]
(* close *)
Down(c) == [Renewed(c) EXCEPT !.up = FALSE, !.ref = "idle", !.pick = NoPick,
                              !.again = FALSE]

(* The installers of this end that are no longer its attempt are cancelled. *)
Abandoned(s, c) ==
    [n \in Tries |-> IF tx[n] # Nobody /\ tx[n].side = s
                        /\ (c.att = Nobody \/ c.att.id # n)
                     THEN [tx[n] EXCEPT !.cur = FALSE] ELSE tx[n]]
Becomes(s, c) == co' = [co EXCEPT ![s] = c] /\ tx' = Abandoned(s, c)

(* What is said to an end whose coordinator is gone is lost. *)
Heard(s, w, m) == [w EXCEPT ![Far(s)] = IF co[Far(s)].up THEN Append(@, m) ELSE @]
Sends(s, m) == wire' = Heard(s, wire, m)
Takes(s) == wire' = [wire EXCEPT ![s] = Tail(@)]
Answers(s, m) == wire' = Heard(s, [wire EXCEPT ![s] = Tail(@)], m)
Gets(s, kind) == co[s].up /\ wire[s] # <<>> /\ Head(wire[s]).kind = kind
Msg(s) == Head(wire[s])

Happens == events > 0 /\ events' = events - 1
Privately == UNCHANGED <<home, floor, idy, events, shut>>

(* fail: the route closes, and the other end sees it go. *)
FailsAt(s) == Becomes(s, Down(co[s])) /\ wire' = [wire EXCEPT ![s] = <<>>]

-----------------------------------------------------------------------------
(* refresh: the own state is read, and published when it has changed.  A     *)
(* read that an own change overtakes is repeated: the last one counts.       *)
(* readState: a root that the preference allows to share. *)
Status(s) == [acct |-> home[s].acct, status |-> home[s].status,
              gen |-> IF home[s].status = "unlocked" THEN home[s].root ELSE 0]
Unchanged(c, state) ==
    /\ ~c.needed /\ c.own # Nobody
    /\ c.own.acct = state.acct /\ c.own.status = state.status
    /\ Shares(c.own) = Shares(state) /\ Shares(state) => c.own.gen = state.gen

Refreshes(s) ==
    LET c == [co[s] EXCEPT !.again = FALSE]  state == Status(s) IN
    /\ c.up /\ co[s].again /\ c.ref = "idle"
    /\ c.att # Nobody => c.att.dir = "source"
    /\ Becomes(s, IF Unchanged(c, state) THEN c
         ELSE [Renewed(c) EXCEPT
                 !.ref = "send", !.needed = FALSE, !.ids = @ + 1,
                 !.own = [id |-> c.ids + 1, acct |-> state.acct,
                          status |-> state.status, gen |-> state.gen]])
    /\ UNCHANGED wire /\ Privately

(* select: the extension picks its link for the pair. *)
Selecting(s, c) ==
    IF s = "ext" /\ c.pick.at = "idle" /\ PairFor([web |-> c.peer, ext |-> c.own]) # Nobody
    THEN [c EXCEPT !.pick = [at |-> "pick", cur |-> TRUE,
                  link |-> Selection(PairFor([web |-> c.peer, ext |-> c.own]), 0)]]
    ELSE c

(* What is sent is the state of the moment: none, when a cancellation came   *)
(* first, and that breaks the route.                                         *)
TellsState(s) ==
    LET c == co[s] IN
    /\ c.ref = "send"
    /\ IF c.own = Nobody THEN FailsAt(s)
       ELSE /\ Becomes(s, Selecting(s, [c EXCEPT !.ref = "idle"]))
            /\ Sends(s, [kind |-> "state", state |-> c.own])
    /\ Privately

GetsState(s) ==
    LET c == co[s] IN
    /\ Gets(s, "state")
    /\ Becomes(s, Selecting(s, [Renewed(c) EXCEPT !.peer = Msg(s).state]))
    /\ Takes(s) /\ Privately

-----------------------------------------------------------------------------
(* The selection of a link. *)

(* admissible: no closing of the account is still to be delivered. *)
Admits(s, sel) == home[s].closing # sel.acct

Done(c) == [c EXCEPT !.pick = NoPick]

PicksLink(s) ==
    LET c == co[s]  sel == [c.pick.link EXCEPT !.link = home[s].mark] IN
    /\ s = "ext" /\ c.pick.at = "pick"
    /\ IF c.pick.cur /\ Admits(s, sel)
       THEN /\ Becomes(s, [Done(c) EXCEPT !.sel = sel])
            /\ Sends(s, [kind |-> "link", sel |-> sel])
       ELSE /\ Becomes(s, IF c.pick.cur THEN Done(c) ELSE Selecting(s, Done(c)))
            /\ UNCHANGED wire
    /\ Privately

GetsLink(s) ==
    LET c == co[s]  sel == Msg(s).sel IN
    /\ Gets(s, "link")
    /\ IF ~Matches(s, sel) \/ (c.sel # sel /\ c.pick.at # "idle") THEN FailsAt(s)
       ELSE /\ Takes(s)
            /\ Becomes(s, IF c.sel = sel THEN c
                 ELSE [c EXCEPT !.pick = [at |-> "pick", cur |-> TRUE, link |-> sel]])
    /\ Privately

NextTry == Len(idy.tries) + 1

(* startSource: one attempt for a selection. *)
Opens(s, c) ==
    IF /\ c.sel # Nobody /\ c.att = Nobody /\ c.tried # c.sel
       /\ Matches(s, c.sel) /\ PairOf(s).from = s /\ NextTry <= MaxTries
    THEN /\ Becomes(s, [c EXCEPT !.tried = c.sel,
                          !.att = [id |-> NextTry, dir |-> "source",
                                   at |-> "scope", sel |-> c.sel, root |-> 0]])
         /\ idy' = [idy EXCEPT !.tries = Append(@, c.sel)]
    ELSE Becomes(s, c) /\ UNCHANGED idy

(* The web application keeps the link it has, and says so; when it is the    *)
(* one that was selected, it may begin.                                      *)
ConfirmsLink(s) ==
    LET c == co[s]  sel == c.pick.link IN
    /\ s = "web" /\ c.pick.at = "pick"
    /\ IF ~c.pick.cur \/ ~Admits(s, sel)
       THEN Becomes(s, Done(c)) /\ UNCHANGED <<wire, idy>>
       ELSE /\ IF home[s].mark # sel.link THEN Becomes(s, Done(c)) /\ UNCHANGED idy
                                         ELSE Opens(s, [Done(c) EXCEPT !.sel = sel])
            /\ Sends(s, [kind |-> "chosen", sel |-> [sel EXCEPT !.link = home[s].mark]])
    /\ UNCHANGED <<home, floor, events, shut>>

(* The extension takes the other's link for its own, unless it is in use.    *)
GetsChosen(s) ==
    LET c == co[s]  sel == Msg(s).sel IN
    /\ Gets(s, "chosen")
    /\ IF \/ ~Matches(s, c.sel) \/ [sel EXCEPT !.link = 0] # [c.sel EXCEPT !.link = 0]
          \/ sel # c.sel /\ (c.pick.at # "idle" \/ c.att # Nobody)
       THEN FailsAt(s) /\ UNCHANGED idy
       ELSE /\ Takes(s)
            /\ IF sel = c.sel THEN Opens(s, c)
               ELSE /\ Becomes(s, [c EXCEPT !.pick = [at |-> "adopt", cur |-> TRUE,
                                                      link |-> sel]])
                    /\ UNCHANGED idy
    /\ UNCHANGED <<home, floor, events, shut>>

AdoptsLink(s) ==
    LET c == co[s] IN
    /\ c.pick.at = "adopt"
    /\ IF ~c.pick.cur \/ ~Admits(s, c.pick.link) \/ home[s].used
       THEN /\ UNCHANGED home
            /\ \/ FailsAt(s)
               \/ ~c.pick.cur /\ Becomes(s, Done(c)) /\ UNCHANGED wire
       ELSE /\ Becomes(s, [Done(c) EXCEPT !.sel = c.pick.link])
            /\ home' = [home EXCEPT ![s].mark = c.pick.link.link, ![s].used = TRUE]
            /\ Sends(s, [kind |-> "link", sel |-> c.pick.link])
    /\ UNCHANGED <<floor, idy, events, shut>>

-----------------------------------------------------------------------------
(* An attempt at its source. *)
Attempt(s) == co[s].att
Sending(s, step) == Attempt(s) # Nobody /\ Attempt(s).dir = "source" /\ Attempt(s).at = step
Receiving(s, step) == Attempt(s) # Nobody /\ Attempt(s).dir = "receiver" /\ Attempt(s).at = step
Reaches(s, step) == [co[s] EXCEPT !.att.at = step]
Mine(s) == Attempt(s) # Nobody /\ Attempt(s).id = Msg(s).id

(* captureSharedUnlockSource and assertCurrent: the own session is open, of  *)
(* the generation that was advertised, and nothing manual is under way.      *)
CanSend(s) ==
    /\ home[s].status = "unlocked" /\ ~home[s].busy
    /\ home[s].root # 0 /\ home[s].root = co[s].own.gen
    /\ home[s].acct = Attempt(s).sel.acct

GivesUp(s) == Becomes(s, Cancelled(co[s]))

(* prepareSource: the link exists at Identity, and is offered. *)
Prepares(s) ==
    /\ Sending(s, "scope")
    /\ IF Admits(s, Attempt(s).sel) /\ Matches(s, Attempt(s).sel)
       THEN /\ Becomes(s, Reaches(s, "wait"))
            /\ Sends(s, [kind |-> "prepare", id |-> Attempt(s).id, sel |-> Attempt(s).sel])
       ELSE GivesUp(s) /\ UNCHANGED wire
    /\ Privately

GetsPrepared(s) ==
    /\ Gets(s, "prepared")
    /\ IF ~(Mine(s) /\ Sending(s, "wait")) THEN Takes(s) /\ UNCHANGED <<co, tx>>
       ELSE IF CanSend(s)
       THEN /\ Becomes(s, [Reaches(s, "offer") EXCEPT !.att.root = home[s].root])
            /\ Answers(s, [kind |-> "offer", id |-> Attempt(s).id])
       ELSE GivesUp(s) /\ Takes(s)
    /\ Privately

(* createOperation, seal: Identity refuses a root that a closing has ended.  *)
GetsAnswer(s) ==
    /\ Gets(s, "answer")
    /\ IF ~Mine(s) THEN Takes(s) /\ UNCHANGED <<co, tx>>
       ELSE IF /\ Sending(s, "offer") /\ CanSend(s) /\ Attempt(s).root = home[s].root
               /\ home[s].root > idy.bar[home[s].acct]
       THEN /\ Becomes(s, Reaches(s, "ack"))
            /\ Answers(s, [kind |-> "handoff", id |-> Attempt(s).id, root |-> home[s].root])
       ELSE GivesUp(s) /\ Takes(s)
    /\ Privately

GetsAck(s) ==
    /\ Gets(s, "ack") /\ Takes(s)
    /\ IF Mine(s) THEN GivesUp(s) ELSE UNCHANGED <<co, tx>>
    /\ Privately

(* An abort ends the attempt, once a transaction under way is rolled back.   *)
Aborts(s) ==
    IF Receiving(s, "install")
    THEN /\ co' = [co EXCEPT ![s] = Reaches(s, "aborted")]
         /\ tx' = [tx EXCEPT ![Attempt(s).id].cur = FALSE]
    ELSE GivesUp(s)

GetsCancel(s) ==
    /\ Gets(s, "cancel") /\ Takes(s)
    /\ IF Mine(s) THEN Aborts(s) ELSE UNCHANGED <<co, tx>>
    /\ Privately

(* The timer of an attempt, or a request of the source that fails. *)
TimesOut(s) ==
    /\ Happens /\ Attempt(s) # Nobody /\ Attempt(s).at # "aborted"
    /\ Aborts(s) /\ UNCHANGED <<home, floor, wire, idy, shut>>

-----------------------------------------------------------------------------
(* An attempt at its receiver, until its transaction begins. *)
GetsPrepare(s) ==
    LET c == co[s] IN
    /\ Gets(s, "prepare")
    /\ IF \/ c.att # Nobody \/ ~Matches(s, c.sel) \/ PairOf(s).from = s
          \/ Msg(s).sel # c.sel \/ ~Admits(s, c.sel)
       THEN FailsAt(s)
       ELSE /\ Becomes(s, [c EXCEPT !.att = [id |-> Msg(s).id, dir |-> "receiver",
                                             at |-> "offer", sel |-> c.sel, root |-> 0]])
            /\ Answers(s, [kind |-> "prepared", id |-> Msg(s).id])
    /\ Privately

(* checkLocal: no keys, and no unlock or sign-in of the user's own. *)
Vacant(s) == ~home[s].busy /\ home[s].status # "unlocked"
(* beginSharedUnlockInstall: a newer installer cancels the one before.       *)
GetsOffer(s) ==
    LET n == Attempt(s).id IN
    /\ Gets(s, "offer")
    /\ IF ~Mine(s) THEN Takes(s) /\ UNCHANGED <<home, co, tx>>
       ELSE IF /\ Receiving(s, "offer") /\ Admits(s, Attempt(s).sel) /\ Vacant(s)
               /\ home[s].acct \in {Nobody, Attempt(s).sel.acct}
       THEN /\ co' = [co EXCEPT ![s] = Reaches(s, "hand")]
            /\ tx' = [tx EXCEPT ![n] =
                 [side |-> s, acct |-> Attempt(s).sel.acct, root |-> 0, at |-> "hand",
                  cur |-> TRUE, prev |-> home[s].sealed, cleared |-> FALSE]]
            /\ home' = [home EXCEPT ![s].used = TRUE]
            /\ Answers(s, [kind |-> "answer", id |-> n])
       ELSE FailsAt(s) /\ UNCHANGED home
    /\ UNCHANGED <<floor, idy, events, shut>>

GetsHandoff(s) ==
    LET n == Msg(s).id IN
    /\ Gets(s, "handoff")
    /\ IF ~Mine(s) THEN Takes(s) /\ UNCHANGED <<co, tx>>
       ELSE IF ~Receiving(s, "hand") THEN FailsAt(s)
       ELSE /\ Takes(s)
            /\ co' = [co EXCEPT ![s] = Reaches(s, "install")]
            /\ tx' = [tx EXCEPT ![n].at = "commit", ![n].root = Msg(s).root]
    /\ Privately

-----------------------------------------------------------------------------
(* The receiver's transaction.  It outlives the attempt: what is issued late *)
(* is revoked, and what was stored is put back.                              *)
Tx(n, step) == tx[n] # Nobody /\ tx[n].at = step
Live(n) == tx[n].cur /\ Vacant(tx[n].side)
TxTo(n, step) == [tx EXCEPT ![n].at = step]
Working == UNCHANGED <<co, wire, events, shut>>

(* Identity issues the session, whether or not anyone still waits for it.    *)
Issues(n) ==
    /\ tx[n] # Nobody /\ tx[n].at \in {"commit", "late"}
    /\ idy.issued[n] = "no" /\ tx[n].root > idy.bar[tx[n].acct]
    /\ idy' = [idy EXCEPT !.issued[n] = "issued"]
    /\ Working /\ UNCHANGED <<home, floor, tx>>

Commits(n) ==
    /\ Tx(n, "commit") /\ Live(n) /\ idy.issued[n] = "issued"
    /\ tx' = TxTo(n, "stage")
    /\ Working /\ UNCHANGED <<home, floor, idy>>

(* install: the sealed session is stored before the keys are published. *)
Stages(n) ==
    /\ Tx(n, "stage") /\ Live(n)
    /\ home' = [home EXCEPT ![tx[n].side].sealed = n]
    /\ tx' = TxTo(n, "fresh")
    /\ Working /\ UNCHANGED <<floor, idy>>

(* Mutant: a checkpoint does not ask whether the root was retired. *)
NeverRetired(s, p, q) == FALSE
(* assertSequence *)
Retired(s, p, q) == q <= floor[s][p].through \/ q < floor[s][p].ckpt

(* checkpoint, and confirmLocalLink: the link is still good at Identity.     *)
Freshens(n) ==
    LET s == tx[n].side  p == tx[n].acct IN
    /\ Tx(n, "fresh") /\ Live(n)
    /\ ~Retired(s, p, tx[n].root) /\ tx[n].root > idy.bar[p]
    /\ floor' = [floor EXCEPT ![s][p].ckpt = tx[n].root]
    /\ tx' = TxTo(n, "publish")
    /\ Working /\ UNCHANGED <<home, idy>>

(* setUnlocked, the adoption of the root and the acknowledgement. *)
Publishes(n) ==
    LET s == tx[n].side IN
    /\ Tx(n, "publish") /\ Live(n)
    /\ home' = [home EXCEPT ![s] = [@ EXCEPT
           !.acct = tx[n].acct, !.status = "unlocked", !.root = tx[n].root,
           !.receipt = [acct |-> tx[n].acct, seq |-> tx[n].root]]]
    /\ idy' = [idy EXCEPT !.issued[n] = "live"]
    /\ co' = [co EXCEPT ![s] = [Cancelled(co[s]) EXCEPT !.again = TRUE]]
    /\ tx' = [TxTo(n, "over") EXCEPT ![n].cur = FALSE]
    /\ Sends(s, [kind |-> "ack", id |-> n])
    /\ UNCHANGED <<floor, events, shut>>

Holds(n) == co[tx[n].side].att # Nobody /\ co[tx[n].side].att.id = n

(* The stored session is put back only if it still is the transaction's own. *)
PutBack(n) ==
    LET s == tx[n].side IN
    IF home[s].sealed # n THEN home
    ELSE [home EXCEPT ![s].sealed = IF tx[n].cleared THEN 0 ELSE tx[n].prev]

(* Mutant: only a transaction that fails by itself revokes. *)
RevokesOwnFailure(n) ==
    IF idy.issued[n] = "issued" /\ tx[n].at \notin {"commit", "late"} /\ tx[n].cur
    THEN [idy EXCEPT !.issued[n] = "asked"] ELSE idy
(* revoke: the session that was issued to this transaction, once known.  One *)
(* request, of two seconds at most: whether Identity carries it out, nobody  *)
(* learns and nothing depends on, so "asked" is all that is known of it.     *)
Revoked(n) ==
    IF idy.issued[n] = "issued" /\ tx[n].at \notin {"commit", "late"}
    THEN [idy EXCEPT !.issued[n] = "asked"] ELSE idy

(* A transaction that is cancelled, or refused on the way.  A failure that   *)
(* nobody asked for closes the route.                                        *)
RollsBack(n) ==
    LET s == tx[n].side  next == IF tx[n].at = "commit" THEN "late" ELSE "over" IN
    /\ tx[n] # Nobody /\ tx[n].at \notin {"over", "late"}
    /\ tx[n].at = "hand" => ~tx[n].cur
    /\ IF Live(n) THEN Happens ELSE UNCHANGED events
    /\ home' = PutBack(n) /\ idy' = Revoked(n)
    /\ IF Holds(n) /\ co[s].att.at # "aborted"
       THEN /\ co' = [co EXCEPT ![s] = Down(co[s])]
            /\ wire' = [wire EXCEPT ![s] = <<>>]
       ELSE /\ co' = [co EXCEPT ![s] = IF Holds(n) THEN Cancelled(@) ELSE @]
            /\ UNCHANGED wire
    /\ tx' = [TxTo(n, next) EXCEPT ![n].cur = FALSE]
    /\ UNCHANGED <<floor, shut>>

(* A root retired here keeps the route: only the operation is cancelled.     *)
Refuses(n) ==
    LET s == tx[n].side IN
    /\ Tx(n, "fresh") /\ Live(n) /\ Retired(s, tx[n].acct, tx[n].root)
    /\ home' = PutBack(n) /\ idy' = Revoked(n)
    /\ co' = [co EXCEPT ![s] = Cancelled(@)]
    /\ Sends(s, [kind |-> "cancel", id |-> n])
    /\ tx' = [TxTo(n, "over") EXCEPT ![n].cur = FALSE]
    /\ UNCHANGED <<floor, events, shut>>

(* A late answer is to be revoked; one that never comes back leaves its      *)
(* session.                                                                  *)
AnswersLate(n) ==
    /\ Tx(n, "late")
    /\ tx' = TxTo(n, "over")
    /\ idy' = [idy EXCEPT !.issued[n] = IF @ = "issued" THEN "asked" ELSE @]
    /\ Working /\ UNCHANGED <<home, floor>>
LosesAnswer(n) ==
    /\ Tx(n, "late") /\ idy.issued[n] = "issued"
    /\ tx' = TxTo(n, "over")
    /\ idy' = [idy EXCEPT !.issued[n] = "lost"]
    /\ Working /\ UNCHANGED <<home, floor>>

-----------------------------------------------------------------------------
(* The user at an end, and Identity.                                         *)
(* subscribe: an own change ends an attempt to send, and is then advertised  *)
(* anew; a receiver keeps it waiting.                                        *)
Changed(c) ==
    IF ~c.up THEN c
    ELSE IF c.att # Nobody /\ c.att.dir = "source"
    THEN [Cancelled(c) EXCEPT !.again = TRUE, !.needed = TRUE]
    ELSE [c EXCEPT !.again = TRUE, !.pick.cur = @ /\ c.pick.at # "adopt"]
(* Mutant: the user's own doings let an installer go on. *)
InstallsBeside(s, cleared) == UNCHANGED tx
(* beginLifecycleTermination, beginManualLogin, unlock: no installer stays.  *)
CancelsInstalls(s, cleared) ==
    tx' = [n \in Tries |-> IF tx[n] # Nobody /\ tx[n].side = s
                           THEN [tx[n] EXCEPT !.cur = FALSE, !.cleared = @ \/ cleared]
                           ELSE tx[n]]
Advertises(s) == co' = [co EXCEPT ![s] = Changed(@)] /\ UNCHANGED wire

StartsManual(s) ==
    /\ Happens /\ Vacant(s)
    /\ home' = [home EXCEPT ![s].busy = TRUE]
    /\ CancelsInstalls(s, FALSE)
    /\ UNCHANGED <<floor, co, wire, idy, shut>>

(* A sign-in or an unlock is over: the session is open, and may be shared if *)
(* Identity has authorized it, which it does once the closings are known.    *)
EndsManual(s, p) ==
    LET seq == idy.seq + 1 IN
    /\ home[s].busy /\ home[s].acct \in {Nobody, p}
    /\ \E root \in {0} \cup (IF home[s].closing = p THEN {} ELSE {seq}) :
         /\ idy' = [idy EXCEPT !.seq = IF root = 0 THEN @ ELSE seq]
         /\ floor' = IF root = 0 THEN floor ELSE [floor EXCEPT ![s][p].ckpt = root]
         /\ home' = [home EXCEPT ![s] = [@ EXCEPT
               !.busy = FALSE, !.acct = p, !.status = "unlocked", !.root = root,
               !.sealed = IF home[s].acct = Nobody THEN MaxTries + 1 ELSE home[s].sealed,
               !.receipt = IF root = 0 THEN home[s].receipt ELSE [acct |-> p, seq |-> root]]]
    /\ Advertises(s)
    /\ UNCHANGED <<tx, events, shut>>
FailsManual(s) ==
    /\ home[s].busy /\ home' = [home EXCEPT ![s].busy = FALSE]
    /\ UNCHANGED <<floor, co, tx, wire, idy, events, shut>>

(* retire: the root that this end remembers, if it is the account's.         *)
Retires(s) ==
    LET r == home[s].receipt IN
    IF r.acct # home[s].acct THEN floor
    ELSE [floor EXCEPT ![s][r.acct].through = IF r.seq > @ THEN r.seq ELSE @]

EndsSession(s, h) ==
    /\ home' = [home EXCEPT ![s] = h]
    /\ shut' = IF home[s].root = 0 THEN shut ELSE shut \cup {<<s, home[s].root>>}
    /\ CancelsInstalls(s, h.status = "out")
    /\ Advertises(s)
Locked(h) == [h EXCEPT !.status = "locked", !.root = 0]

(* lock: after a while, or by the user, whose closing is recorded first.     *)
AutoLocks(s) ==
    /\ Happens /\ home[s].status = "unlocked"
    /\ floor' = Retires(s) /\ EndsSession(s, Locked(home[s]))
    /\ UNCHANGED idy
Locks(s) ==
    /\ Happens /\ home[s].status = "unlocked" /\ home[s].closing = Nobody
    /\ floor' = Retires(s)
    /\ EndsSession(s, [Locked(home[s]) EXCEPT !.closing = home[s].acct])
    /\ UNCHANGED idy
LogsOut(s) ==
    /\ Happens /\ home[s].status # "out" /\ ~home[s].busy /\ home[s].closing = Nobody
    /\ EndsSession(s, [home[s] EXCEPT !.status = "out", !.acct = Nobody, !.root = 0,
                                !.sealed = 0, !.closing = home[s].acct])
    /\ UNCHANGED <<floor, idy>>

(* The closing reaches Identity: every root so far is closed.                *)
DeliversClosing(s) ==
    /\ home[s].closing # Nobody
    /\ idy' = [idy EXCEPT !.bar[home[s].closing] = idy.seq]
    /\ home' = [home EXCEPT ![s].closing = Nobody]
    /\ UNCHANGED <<floor, co, tx, wire, events, shut>>
(* The link monitor closes the session that a closing has ended.             *)
MonitorLocks(s) ==
    /\ home[s].status = "unlocked" /\ home[s].root # 0
    /\ home[s].root <= idy.bar[home[s].acct]
    /\ floor' = Retires(s) /\ EndsSession(s, Locked(home[s]))
    /\ UNCHANGED <<idy, events>>

(* The own authority is renewed, with nothing else about it changed. *)
Notifies(s) ==
    /\ Happens /\ home[s].root # 0 /\ Advertises(s)
    /\ UNCHANGED <<home, floor, tx, idy, shut>>

(* cancelPending: a preference or the link has changed. *)
CancelsPending(s) ==
    LET c == co[s] IN
    /\ Happens /\ c.up
    /\ Becomes(s, [Renewed(c) EXCEPT !.again = TRUE, !.own = Nobody])
    /\ UNCHANGED <<home, floor, wire, idy, shut>>

RouteBreaks(s) ==
    /\ Happens /\ co[s].up /\ FailsAt(s)
    /\ UNCHANGED <<home, floor, idy, shut>>
SeesRouteGone(s) ==
    /\ co[s].up /\ ~co[Far(s)].up /\ wire[s] = <<>>
    /\ FailsAt(s) /\ Privately

NewCoordinator(ids) ==
    [up |-> TRUE, own |-> Nobody, peer |-> Nobody, sel |-> Nobody, tried |-> Nobody,
     att |-> Nobody, pick |-> NoPick, ref |-> "idle", again |-> TRUE,
     needed |-> FALSE, ids |-> ids]
ConnectsAgain ==
    /\ Happens /\ \A s \in Ends : ~co[s].up
    /\ co' = [s \in Ends |-> NewCoordinator(co[s].ids)]
    /\ wire' = [s \in Ends |-> <<>>]
    /\ UNCHANGED <<home, floor, tx, idy, shut>>

-----------------------------------------------------------------------------
Session(acct, status, root, mark) ==
    [acct |-> acct, status |-> status, root |-> root, mark |-> mark, busy |-> FALSE,
     closing |-> Nobody, used |-> FALSE,
     sealed |-> IF status = "out" THEN 0 ELSE MaxTries + 1,
     receipt |-> [acct |-> acct, seq |-> root]]

(* One end has unlocked itself; the other is signed out and has a link of    *)
(* its own, or is locked since a transfer of the same authority opened it.   *)
TransferInit ==
    /\ \E s \in Ends, p \in People :
         \E other \in {Session(Nobody, "out", 0, 2), Session(p, "locked", 1, 1)} :
           LET seen(e) == e = s \/ other.receipt.seq = 1 IN
           /\ home = [e \in Ends |-> IF e = s THEN Session(p, "unlocked", 1, 1)
                                            ELSE [other EXCEPT !.root = 0]]
           /\ floor = [e \in Ends |-> [q \in People |->
                [through |-> IF e # s /\ q = p THEN other.receipt.seq ELSE 0,
                 ckpt |-> IF q = p /\ seen(e) THEN 1 ELSE 0]]]
           /\ shut = {<<e, 1>> : e \in {e \in Ends \ {s} : seen(e)}}
    /\ co = [s \in Ends |-> NewCoordinator(0)]
    /\ tx = [n \in Tries |-> Nobody]
    /\ wire = [s \in Ends |-> <<>>]
    /\ idy = [seq |-> 1, bar |-> [p \in People |-> 0], tries |-> <<>>,
              issued |-> [n \in Tries |-> "no"]]
    /\ events = MaxEvents

Coordinates(s) ==
    \/ Refreshes(s) \/ TellsState(s) \/ GetsState(s) \/ PicksLink(s) \/ GetsLink(s)
    \/ ConfirmsLink(s) \/ GetsChosen(s) \/ AdoptsLink(s)
    \/ GetsCancel(s) \/ TimesOut(s) \/ SeesRouteGone(s)
Sources(s) == Prepares(s) \/ GetsPrepared(s) \/ GetsAnswer(s) \/ GetsAck(s)
Receives(s) == GetsPrepare(s) \/ GetsOffer(s) \/ GetsHandoff(s)
Installs(n) ==
    \/ Issues(n) \/ Commits(n) \/ Stages(n) \/ Freshens(n)
    \/ Publishes(n) \/ RollsBack(n) \/ Refuses(n) \/ AnswersLate(n) \/ LosesAnswer(n)
Lives(s) ==
    \/ StartsManual(s) \/ FailsManual(s) \/ AutoLocks(s) \/ Locks(s) \/ LogsOut(s)
    \/ DeliversClosing(s) \/ MonitorLocks(s) \/ Notifies(s) \/ CancelsPending(s)
    \/ RouteBreaks(s) \/ \E p \in People : EndsManual(s, p)

TransferNext ==
    \/ \E s \in Ends : Coordinates(s) \/ Sources(s) \/ Receives(s) \/ Lives(s)
    \/ \E n \in Tries : Installs(n)
    \/ ConnectsAgain
TransferSpec == TransferInit /\ [][TransferNext]_transferVars

-----------------------------------------------------------------------------
(* Properties. *)

Homes ==
    {h \in [acct : People \cup {Nobody}, status : Statuses, root : Nat, mark : Nat,
            busy : BOOLEAN, closing : People \cup {Nobody}, used : BOOLEAN,
            sealed : Nat, receipt : [acct : People \cup {Nobody}, seq : Nat]] :
       /\ (h.status = "out") = (h.acct = Nobody)
       /\ h.root # 0 => h.status = "unlocked"}
Picks == {x \in [at : {"idle", "pick", "adopt"}, cur : BOOLEAN,
                 link : Selections \cup {Nobody}] :
            x.at # "idle" => x.link # Nobody}
Coordinators ==
    [up : BOOLEAN, own : States \cup {Nobody}, peer : States \cup {Nobody},
     sel : Selections \cup {Nobody}, tried : Selections \cup {Nobody},
     att : Attempts \cup {Nobody}, pick : Picks, ref : {"idle", "send"},
     again : BOOLEAN, needed : BOOLEAN, ids : Nat]
Messages ==
    [kind : {"state"}, state : States]
      \cup [kind : {"link", "chosen"}, sel : Selections]
      \cup [kind : {"prepare"}, id : Tries, sel : Selections]
      \cup [kind : {"prepared", "offer", "answer", "ack", "cancel"}, id : Tries]
      \cup [kind : {"handoff"}, id : Tries, root : Nat]
TransferTypeOK ==
    /\ home \in [Ends -> Homes]
    /\ floor \in [Ends -> [People -> [through : Nat, ckpt : Nat]]]
    /\ co \in [Ends -> Coordinators]
    /\ tx \in [Tries -> Transactions \cup {Nobody}]
    /\ wire \in [Ends -> Seq(Messages)]
    /\ idy \in [seq : Nat, bar : [People -> Nat], tries : Seq(Selections),
                issued : [Tries -> {"no", "issued", "live", "asked", "lost"}]]
    /\ Len(idy.tries) <= MaxTries
    /\ shut \subseteq Ends \X Nat
    /\ events \in 0 .. MaxEvents

(* startSource: a selection is tried once.  A refused or interrupted         *)
(* transfer is not repeated until an end has something new to say.           *)
OneTransferPerSelection ==
    \A i, j \in 1 .. Len(idy.tries) : i # j => idy.tries[i] # idy.tries[j]

(* While a transaction is under way, the two ends mean the same: the         *)
(* selection the source tried is the one the receiver agreed to, for the     *)
(* account that the receiver is or becomes.                                  *)
TransfersAreAgreed ==
    \A n \in Tries :
      tx[n] # Nobody /\ tx[n].cur =>
        LET s == tx[n].side IN
        /\ Holds(n) /\ co[s].att.sel = idy.tries[n] /\ Matches(s, idy.tries[n])
        /\ idy.tries[n].acct = tx[n].acct
        /\ home[s].acct \in {Nobody, tx[n].acct}
TransfersAreSound ==
    TransferTypeOK /\ OneTransferPerSelection /\ TransfersAreAgreed

(* beginSharedUnlockReceiver: no transfer ends and forgets a session that    *)
(* Identity issued to it: it is the own session of its end, or Identity has  *)
(* been asked to revoke it, which is not to say that it has; only one whose  *)
(* answer was lost is out of reach.  One that is to be revoked does not stay *)
(* in storage, with one exception: a later transaction that began while it   *)
(* was stored, and fails as well, puts it back.                              *)
PutBackBy(m, n) == tx[m] # Nobody /\ tx[m].prev = n
IssuedAreSettled ==
    /\ \A n \in Tries : tx[n] # Nobody /\ tx[n].at = "over" => idy.issued[n] # "issued"
    /\ \A s \in Ends, n \in Tries :
         home[s].sealed = n => \/ idy.issued[n] \in {"issued", "live"}
                              \/ \E m \in Tries : PutBackBy(m, n)

(* SharedUnlockExpiryStore and the barriers at Identity: an end that was     *)
(* locked or signed out is not opened again by the peer with the authority   *)
(* that it had.                                                              *)
EndedStaysEnded ==
    \A s \in Ends : home[s].root # 0 => <<s, home[s].root>> \notin shut
=============================================================================
