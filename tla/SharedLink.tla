----------------------------- MODULE SharedLink -----------------------------
(* The link over which the extension and the web application unlock each     *)
(* other: who may close it, and who may open it again.                       *)
(*                                                                           *)
(* Identity keeps the link.  The worker keeps a marker on disk with the      *)
(* closings the user asked for that Identity has not confirmed, and a latch  *)
(* that only an explicit reconnect clears.  An unlock first delivers the     *)
(* pending closings and only then authorizes its session; a monitor compares *)
(* the authorization with the barriers at Identity and closes the session    *)
(* that one of them ended.  All of it awaits the network and the disk, which *)
(* both fail, while the user and the peer go on.                             *)
EXTENDS Naturals, FiniteSets

CONSTANTS
    MaxActs,   \* bound: what the user does
    MaxPeer,   \* bound: what the peer does
    MaxRev,    \* bound: changes of the link at Identity
    MaxFaults, \* bound: failed writes and requests, lost answers and restarts
    None

ASSUME LinkAssumption == {MaxActs, MaxPeer, MaxRev, MaxFaults} \subseteq Nat /\ MaxRev # 0

VARIABLES
    idn,   \* Identity: the link, the preference, the last sequence it drew
    disk,  \* SharedUnlockLinkStore: the marker in storage
    ram,   \* SharedUnlockLinkStore: pendingWrites
    sess,  \* SessionManager and SharedUnlockSourceAuthority
    ljob,   \* the calls of the worker, one of a kind at a time
    hint,  \* reconnect monitor: the revision of an invitation, 0 without one
    lcount, \* bounds, and the ids given out
    ghost  \* history: closings Identity carried out or sharing was off for

linkVars == <<idn, disk, ram, sess, ljob, hint, lcount, ghost>>

Calls == {"unlock", "close", "settings", "source", "monitor", "reconnect"}
Closings == {"lock", "logout", "disconnect"}

-----------------------------------------------------------------------------
(* Identity. *)

Link == [rev |-> idn.rev, state |-> idn.state]
Exists == idn.state # "none"
Room == idn.rev < MaxRev
Moves(i, state) == [i EXCEPT !.rev = @ + 1, !.state = state]
(* A lock, a logout or a disconnection ends every authorization so far.      *)
Closed(action) ==
    [Moves(idn, IF "disconnect" = action \/ idn.state = "revoked"
                THEN "revoked" ELSE "locked")
     EXCEPT !.seq = @ + 1, !.inval = idn.seq + 1,
            !.out = IF action = "logout" THEN idn.seq + 1 ELSE @]
(* What Identity says of a session that signed in at born.                   *)
Ended(born) == IF born <= idn.out THEN "logout"
               ELSE IF born <= idn.inval THEN "lock" ELSE "none"

-----------------------------------------------------------------------------
(* The store.  Its operations are serialized; each reads the marker, changes *)
(* it and writes it.  A write that fails is retained, and nothing is read    *)
(* before it has been repaired.                                              *)
Unobserved == [rev |-> 0, state |-> "none"]
Fresh == [obs |-> Unobserved, pending |-> {}, disc |-> 0]

Readable == ram = None
Marker == IF ram # None THEN ram ELSE disk
Pending(i) == disk # None /\ i \in disk.pending

Observing(m, link) ==
    LET obs == IF link.rev <= m.obs.rev THEN m.obs ELSE link
    IN  [m EXCEPT !.obs = obs,
                  !.disc = IF @ = 0 /\ obs.state = "revoked" THEN lcount.ids + 1 ELSE @]

(* Mutant: the receipt of one closing settles whatever is pending. *)
AcknowledgingAll(m, i, link) == [Observing(m, link) EXCEPT !.pending = {}]
(* A receipt settles its own intent.                                         *)
Acknowledging(m, i, link) == [Observing(m, link) EXCEPT !.pending = @ \ {i}]

(* Mutant: a closing is added to those that it should replace. *)
RecordingBeside(m, action) ==
    LET next == [id |-> lcount.ids + 1, action |-> action]
    IN  [m EXCEPT !.pending = @ \cup {next},
                  !.disc = IF action = "disconnect" THEN next.id ELSE @]
(* Logout is stronger than lock; a disconnection is kept beside them.        *)
Recording(m, action) ==
    LET previous == {i \in m.pending :
                       (i.action = "disconnect") = (action = "disconnect")}
        next == [id |-> lcount.ids + 1, action |-> action]
    IN  IF \E i \in previous : i.action \in {action, "logout"} THEN m
        ELSE [m EXCEPT !.pending = (@ \ previous) \cup {next},
                       !.disc = IF action = "disconnect" THEN next.id ELSE @]

(* acknowledgeReconnect, of the latch d on the word of link. *)
Reconnects(m, d, link) == m.disc = d /\ m.pending = {} /\ m.obs.rev <= link.rev
Reconnecting(m, link) == [Observing(m, link) EXCEPT !.disc = 0]

(* The ids that m took. *)
Taken(m) == IF m # None /\ (m.disc > lcount.ids \/ \E i \in m.pending : i.id > lcount.ids)
            THEN lcount.ids + 1 ELSE lcount.ids

Fault == lcount.faults < MaxFaults /\ lcount' = [lcount EXCEPT !.faults = @ + 1]
Steady == UNCHANGED lcount

-----------------------------------------------------------------------------
(* The calls.  A call is idle, or at a step; it knows whether its session    *)
(* still is the one it began in, the root and the barrier it learnt, the      *)
(* closings left to deliver and the one under way, the link it was told of,  *)
(* the latch it means to clear, what it is for, and whether it has tokens.   *)
LinkIdle == [at |-> "idle", live |-> FALSE, root |-> 0, locks |-> 0, todo |-> {},
         cur |-> None, link |-> Unobserved, disc |-> 0, action |-> "none"]
Begins(step, action) == [LinkIdle EXCEPT !.at = step, !.live = TRUE, !.action = action]

LinkRunning(p) == ljob[p].at # "idle"
At(p, step) == ljob[p].at = step
To(p, step) == [ljob[p] EXCEPT !.at = step]
LinkGoes(p, r) == ljob' = [ljob EXCEPT ![p] = r]

(* captureSharedUnlockSettingsSession: tokens, and no unlock or closing.     *)
Captures == sess.mem /\ ~LinkRunning("unlock") /\ ~LinkRunning("close")
Current(p) == ljob[p].live /\ (p \in {"unlock", "close"} \/ Captures)

Shut(s) == [s EXCEPT !.open = FALSE, !.root = 0, !.locks = 0]

(* Mutant: an unlock that could not deliver goes on to authorize. *)
FailedOn(p) ==
    IF p = "unlock" THEN [To(p, "checkpoint") EXCEPT !.todo = {}, !.cur = None,
                                                     !.link = Unobserved]
    ELSE IF p = "close" THEN [Begins("end", ljob[p].action) EXCEPT !.live = ljob[p].live]
    ELSE LinkIdle
(* A call that fails: an unlock and a closing end their own way all the same. *)
Failed(p) ==
    IF p = "unlock" THEN [To(p, "publish") EXCEPT !.todo = {}, !.cur = None,
                                                  !.link = Unobserved]
    ELSE IF p = "close" THEN [Begins("end", ljob[p].action) EXCEPT !.live = ljob[p].live]
    ELSE LinkIdle
Fails(p) == LinkGoes(p, Failed(p))

(* A new lifecycle overtakes every call but the one it belongs to: it fails, *)
(* unless Identity or the store already has its request.                     *)
Overtaken(p) ==
    IF At(p, "idle") THEN LinkIdle
    ELSE IF ljob[p].at \in {"record", "posted", "sent"} THEN [ljob[p] EXCEPT !.live = FALSE]
    ELSE IF p = "close" THEN [Failed(p) EXCEPT !.live = FALSE] ELSE LinkIdle
Overtakes(q) == [p \in Calls |-> IF p = q THEN ljob[p] ELSE Overtaken(p)]

(* The call p saves m and goes on as r, or fails as its write does, which     *)
(* retains kept.                                                             *)
SavesOr(p, m, kept, r) ==
    \/ /\ disk' = m /\ ram' = None /\ LinkGoes(p, r)
       /\ lcount' = [lcount EXCEPT !.ids = Taken(m)]
    \/ /\ lcount.faults < MaxFaults /\ m # disk
       /\ ram' = kept /\ UNCHANGED disk /\ Fails(p)
       /\ lcount' = [lcount EXCEPT !.ids = Taken(kept), !.faults = @ + 1]
LinkSaves(p, m, r) == SavesOr(p, m, m, r)

Stores == UNCHANGED <<idn, sess, hint, ghost>>
Asks == UNCHANGED <<disk, ram, sess, hint>>

(* A call finds itself overtaken, or its request fails, or the marker cannot *)
(* be read before it is repaired.                                            *)
Stops(p) ==
    /\ LinkRunning(p) /\ ljob[p].at \notin {"record", "publish", "end", "posted", "sent"}
    /\ \/ ~Current(p) /\ Steady
       \/ Fault
       \/ ~Readable /\ ljob[p].at # "flush" /\ Steady
    /\ Fails(p)
    /\ UNCHANGED <<idn, disk, ram, sess, hint, ghost>>

-----------------------------------------------------------------------------
(* flushSharedUnlockClosings, on behalf of p. *)

Flushers == {"unlock", "close", "settings"}
Flushed(p) ==
    IF p = "unlock" THEN [To(p, "checkpoint") EXCEPT !.cur = None, !.link = Unobserved]
    ELSE IF p = "close" THEN Failed(p)
    ELSE IF ljob[p].action = "disconnect" THEN LinkIdle ELSE To(p, "reread")

Recorded == \A p \in Calls : ~At(p, "record")

(* repair *)
FlushBegin(p) ==
    /\ At(p, "flush") /\ Current(p) /\ Recorded
    /\ \/ /\ Marker = None /\ LinkGoes(p, Flushed(p)) /\ UNCHANGED <<disk, ram, lcount>>
       \/ /\ Marker # None
          /\ LinkSaves(p, Marker, IF Marker.pending = {} THEN Flushed(p)
                              ELSE [To(p, "next") EXCEPT !.todo = Marker.pending])
    /\ Stores

(* Mutant: sharing that is off settles a disconnection too. *)
SettledAnyway(i) == ~idn.on
SettledBySharingOff(i) == ~idn.on /\ i.action # "disconnect"

(* The next closing of the snapshot that is still pending.  Sharing that is   *)
(* off settles a lock or a logout; otherwise the link is read.  A link that  *)
(* never reached Identity is created, once.                                  *)
FlushRead(p) ==
    /\ At(p, "next") /\ Current(p) /\ Readable
    /\ \E i \in ljob[p].todo :
         LET picks == [ljob[p] EXCEPT !.todo = @ \ {i}, !.cur = i]
             created == idn.on /\ disk.obs = Unobserved /\ Room
         IN  IF ~Pending(i)
             THEN LinkGoes(p, [ljob[p] EXCEPT !.todo = @ \ {i}]) /\ UNCHANGED <<idn, ghost>>
             ELSE IF SettledBySharingOff(i)
             THEN /\ LinkGoes(p, [picks EXCEPT !.at = "off"])
                  /\ ghost' = [ghost EXCEPT !.settled = @ \cup {i.id}]
                  /\ UNCHANGED idn
             ELSE /\ UNCHANGED ghost
                  /\ \/ /\ Exists /\ UNCHANGED idn
                        /\ LinkGoes(p, [picks EXCEPT !.at = "observe", !.link = Link])
                     \/ ~Exists /\ created /\ idn' = Moves(idn, "locked") /\ UNCHANGED ljob
                     \/ ~Exists /\ ~created /\ Fails(p) /\ UNCHANGED idn
    /\ Asks /\ Steady

(* At the end of the snapshot, a closing asked for in the meantime fails the  *)
(* flush.                                                                    *)
FlushEnd(p) ==
    /\ At(p, "next") /\ Current(p) /\ Readable /\ ljob[p].todo = {}
    /\ LinkGoes(p, IF disk.pending = {} THEN Flushed(p) ELSE Failed(p))
    /\ UNCHANGED <<disk, ram, lcount>> /\ Stores

(* acknowledgeDisabledClosing *)
FlushOff(p) ==
    /\ At(p, "off") /\ Current(p) /\ Readable
    /\ LinkSaves(p, [disk EXCEPT !.pending = @ \ {ljob[p].cur}], To(p, "next"))
    /\ Stores

FlushObserve(p) ==
    /\ At(p, "observe") /\ p \in Flushers /\ Current(p) /\ Readable
    /\ LinkSaves(p, Observing(disk, ljob[p].link),
             IF Pending(ljob[p].cur) THEN To(p, "posted") ELSE To(p, "next"))
    /\ Stores

(* Identity carries the closing out if the link is of the revision that was  *)
(* read, whatever has become of the caller; the answer may be lost.          *)
ServeClosing(p) ==
    /\ At(p, "posted") /\ idn.rev = ljob[p].link.rev /\ Room
    /\ idn' = Closed(ljob[p].cur.action)
    /\ ghost' = [ghost EXCEPT
                   !.settled = @ \cup {ljob[p].cur.id},
                   !.cut = IF ljob[p].cur.action = "disconnect" THEN idn'.rev ELSE @]
    /\ \/ /\ LinkGoes(p, [To(p, "ack") EXCEPT !.link = [rev |-> idn'.rev, state |-> idn'.state]])
          /\ Steady
       \/ Fails(p) /\ Fault
    /\ Asks

(* Another revision, or the request is lost: the closing stays pending. *)
RefuseClosing(p) ==
    /\ At(p, "posted") /\ Fails(p)
    /\ \/ ~(idn.rev = ljob[p].link.rev /\ Room) /\ Steady
       \/ Fault
    /\ Asks /\ UNCHANGED <<idn, ghost>>

FlushAck(p) ==
    /\ At(p, "ack") /\ Current(p) /\ Readable
    /\ LinkSaves(p, Acknowledging(disk, ljob[p].cur, ljob[p].link), To(p, "next"))
    /\ Stores

Flush(p) ==
    \/ FlushBegin(p) \/ FlushRead(p) \/ FlushEnd(p) \/ FlushOff(p)
    \/ FlushObserve(p) \/ ServeClosing(p) \/ RefuseClosing(p) \/ FlushAck(p)

-----------------------------------------------------------------------------
(* The session: SessionManager as far as the link is concerned. *)

Act == lcount.acts < MaxActs /\ lcount' = [lcount EXCEPT !.acts = @ + 1]

(* A sign-in draws a sequence of its own. *)
SignIn ==
    /\ sess.born = 0 /\ ~LinkRunning("close") /\ Act
    /\ idn' = [idn EXCEPT !.seq = @ + 1]
    /\ sess' = [sess EXCEPT !.born = idn.seq + 1, !.mem = TRUE]
    /\ ljob' = Overtakes("none")
    /\ UNCHANGED <<disk, ram, hint, ghost>>

(* The password was right: prepare delivers what is pending, reads the       *)
(* barrier that this session has outlived, and authorizes the session.       *)
LinkUnlock ==
    /\ sess.born # 0 /\ ~sess.open /\ ~LinkRunning("unlock") /\ ~LinkRunning("close") /\ Act
    /\ LinkGoes("unlock", Begins("flush", "none"))
    /\ UNCHANGED <<idn, disk, ram, sess, hint, ghost>>

(* readManualLockCheckpoint *)
Checkpoint == IF disk # None /\ Ended(sess.born) = "lock" THEN idn.inval ELSE 0

ReadCheckpoint ==
    /\ At("unlock", "checkpoint") /\ Current("unlock") /\ Readable
    /\ LinkGoes("unlock", [To("unlock", "authorize") EXCEPT !.locks = Checkpoint])
    /\ ghost' = [ghost EXCEPT !.known = idn.inval]
    /\ Asks /\ UNCHANGED <<idn, lcount>>

(* Identity authorizes a session while sharing is on; an answer that is lost *)
(* leaves the checkpoint.                                                    *)
Authorize ==
    /\ At("unlock", "authorize") /\ Current("unlock") /\ idn.on
    /\ idn' = [idn EXCEPT !.seq = @ + 1]
    /\ \/ /\ LinkGoes("unlock", [To("unlock", "publish") EXCEPT !.root = idn.seq + 1,
                                                          !.locks = 0])
          /\ ghost' = [ghost EXCEPT !.known = idn.inval] /\ Steady
       \/ Fails("unlock") /\ Fault /\ UNCHANGED ghost
    /\ Asks

NotAuthorized ==
    /\ At("unlock", "authorize") /\ ~idn.on /\ Fails("unlock")
    /\ Asks /\ UNCHANGED <<idn, lcount, ghost>>

(* The unlock itself is its own: without an authorization it only does not   *)
(* share.                                                                    *)
Publish ==
    /\ At("unlock", "publish")
    /\ sess' = IF ljob["unlock"].live
               THEN [sess EXCEPT !.open = TRUE, !.mem = TRUE,
                       !.root = ljob["unlock"].root, !.locks = ljob["unlock"].locks]
               ELSE sess
    /\ ljob' = IF ljob["unlock"].live THEN [Overtakes("unlock") EXCEPT !["unlock"] = LinkIdle]
              ELSE [ljob EXCEPT !["unlock"] = LinkIdle]
    /\ UNCHANGED <<idn, disk, ram, hint, lcount, ghost>>

(* lock("manual") and logout("manual"): the keys go at once, then the closing *)
(* is recorded, then delivered.                                              *)
Close(action) ==
    /\ sess.born # 0 /\ ~LinkRunning("close") /\ Act
    /\ sess' = [Shut(sess) EXCEPT !.mem = @ /\ action = "lock"]
    /\ ljob' = [Overtakes("none") EXCEPT
                 !["close"] = [Begins("record", action) EXCEPT !.locks = IF sess.mem THEN 1 ELSE 0]]
    /\ UNCHANGED <<idn, disk, ram, hint, ghost>>

(* A closing that cannot be saved is not delivered; without tokens there is   *)
(* nothing to deliver it with.                                               *)
RecordClosing ==
    /\ At("close", "record")
    /\ LET goes == IF ljob["close"].locks = 1 THEN To("close", "flush") ELSE Failed("close")
       IN  \/ Marker = None /\ LinkGoes("close", goes) /\ UNCHANGED <<disk, ram, lcount>>
           \/ Marker # None /\ LinkSaves("close", Recording(Marker, ljob["close"].action), goes)
    /\ Stores

EndClose ==
    /\ At("close", "end") /\ LinkGoes("close", LinkIdle)
    /\ sess' = IF ljob["close"].action = "logout" THEN [Shut(sess) EXCEPT !.born = 0, !.mem = FALSE]
               ELSE sess
    /\ UNCHANGED <<idn, disk, ram, hint, lcount, ghost>>

(* The idle timer locks without a word to Identity.                          *)
AutoLock ==
    /\ sess.open /\ Act
    /\ sess' = Shut(sess) /\ ljob' = Overtakes("none")
    /\ UNCHANGED <<idn, disk, ram, hint, ghost>>

LinkRestart ==
    /\ Fault
    /\ ljob' = [p \in Calls |-> LinkIdle] /\ ram' = None /\ hint' = 0
    /\ sess' = [Shut(sess) EXCEPT !.mem = FALSE]
    /\ UNCHANGED <<idn, disk, ghost>>

-----------------------------------------------------------------------------
(* SharedUnlockLinkSettings: the user disconnects, or connects again.        *)

(* The write is queued before the keys go; the call outlives its own lock.   *)
Disconnect ==
    /\ ~LinkRunning("settings") /\ Captures /\ disk # None /\ Act
    /\ ljob' = [Overtakes("none") EXCEPT !["settings"] = Begins("record", "disconnect")]
    /\ sess' = Shut(sess)
    /\ UNCHANGED <<idn, disk, ram, hint, ghost>>

RecordDisconnect ==
    /\ At("settings", "record")
    /\ LinkSaves("settings", Recording(Marker, "disconnect"), To("settings", "flush"))
    /\ Stores

(* The latch to clear is the one the user was shown.                         *)
Reconnect ==
    /\ ~LinkRunning("settings") /\ Captures /\ Readable /\ disk # None /\ disk.disc # 0 /\ Act
    /\ LinkGoes("settings", [Begins("flush", "reconnect") EXCEPT !.disc = disk.disc])
    /\ UNCHANGED <<idn, disk, ram, sess, hint, ghost>>

ReadRevoked ==
    /\ At("settings", "reread") /\ Current("settings") /\ Readable
    /\ IF disk = None \/ disk.disc # ljob["settings"].disc \/ disk.pending # {} \/ ~Exists
       THEN LinkGoes("settings", LinkIdle)
       ELSE LinkGoes("settings", [To("settings", IF idn.state = "revoked" THEN "sent" ELSE "clear")
                              EXCEPT !.link = Link])
    /\ Asks /\ UNCHANGED <<idn, lcount, ghost>>

ServeReconnect ==
    /\ At("settings", "sent") /\ idn.rev = ljob["settings"].link.rev /\ Room
    /\ idn' = [Moves(idn, "locked") EXCEPT !.recon = idn.rev + 1]
    /\ \/ /\ LinkGoes("settings", [To("settings", "clear") EXCEPT
                                 !.link = [rev |-> idn'.rev, state |-> idn'.state]])
          /\ Steady
       \/ LinkGoes("settings", LinkIdle) /\ Fault
    /\ Asks /\ UNCHANGED ghost

RefuseReconnect ==
    /\ At("settings", "sent") /\ LinkGoes("settings", LinkIdle)
    /\ \/ ~(idn.rev = ljob["settings"].link.rev /\ Room) /\ Steady
       \/ Fault
    /\ Asks /\ UNCHANGED <<idn, ghost>>

(* acknowledgeReconnect.  A clear that fails is written back as denied, or    *)
(* retained as denied.                                                       *)
Clears(p) ==
    /\ At(p, "clear") /\ Current(p) /\ Readable
    /\ Reconnects(disk, ljob[p].disc, ljob[p].link)
    /\ disk' = Reconnecting(disk, ljob[p].link) /\ Steady
    /\ UNCHANGED <<idn, ram, ghost>>

ClearFails(p) ==
    LET denied == [Reconnecting(disk, ljob[p].link) EXCEPT !.disc = disk.disc]
    IN  /\ At(p, "clear") /\ Current(p) /\ Readable
        /\ \/ /\ Reconnects(disk, ljob[p].disc, ljob[p].link) /\ Fault
              /\ \/ disk' = denied /\ UNCHANGED ram
                 \/ ram' = denied /\ UNCHANGED disk
           \/ /\ ~Reconnects(disk, ljob[p].disc, ljob[p].link)
              /\ Steady /\ UNCHANGED <<disk, ram>>
        /\ LinkGoes(p, LinkIdle) /\ Stores

(* The settings lock their own session when the link is connected again.     *)
ClearBySettings ==
    /\ Clears("settings")
    /\ sess' = Shut(sess)
    /\ ljob' = [Overtakes("none") EXCEPT !["settings"] = LinkIdle]
    /\ UNCHANGED hint

ClearByMonitor ==
    /\ Clears("reconnect") /\ LinkGoes("reconnect", LinkIdle)
    /\ hint' = 0 /\ UNCHANGED sess

-----------------------------------------------------------------------------
(* prepareSharedUnlockLink: the source of an unlock activates the link. *)

Admissible == /\ disk # None /\ disk.pending = {} /\ disk.disc = 0
              /\ disk.obs.state # "revoked"

PrepareLink ==
    /\ ~LinkRunning("source") /\ sess.open /\ sess.root # 0 /\ Captures /\ Readable /\ idn.on
    /\ disk # None => disk.obs.state # "active"
    /\ LinkGoes("source", [Begins("ensure", "none") EXCEPT !.root = sess.root])
    /\ UNCHANGED <<idn, disk, ram, sess, hint, lcount, ghost>>

EnsureLink ==
    /\ At("source", "ensure") /\ Current("source") /\ Readable
    /\ LinkSaves("source", IF disk = None THEN Fresh ELSE disk, To("source", "read"))
    /\ Stores

ReadOrCreateLink ==
    /\ At("source", "read") /\ Current("source") /\ Readable
    /\ \/ /\ Admissible /\ Exists /\ UNCHANGED idn
          /\ LinkGoes("source", [To("source", "observe") EXCEPT !.link = Link])
       \/ /\ Admissible /\ ~Exists /\ disk.obs = Unobserved /\ Room
          /\ idn' = Moves(idn, "locked") /\ UNCHANGED ljob
       \/ /\ ~Admissible \/ (~Exists /\ ~(disk.obs = Unobserved /\ Room))
          /\ LinkGoes("source", LinkIdle) /\ UNCHANGED idn
    /\ Asks /\ UNCHANGED <<lcount, ghost>>

ObserveLink ==
    /\ At("source", "observe") /\ Current("source") /\ Readable /\ disk # None
    /\ LinkSaves("source", Observing(disk, ljob["source"].link), To("source", "activate"))
    /\ Stores

(* The activation leaves only while nothing is pending and nothing denied.   *)
SendActivation ==
    /\ At("source", "activate") /\ Current("source") /\ Readable
    /\ LinkGoes("source", IF Admissible THEN To("source", "sent") ELSE LinkIdle)
    /\ UNCHANGED <<disk, ram, lcount>> /\ Stores

(* Identity activates the revision that was read for a root no barrier ended. *)
Activates(root) == idn.on /\ idn.state # "revoked" /\ root > idn.inval /\ Room
ServeActivation ==
    /\ At("source", "sent")
    /\ idn.rev = ljob["source"].link.rev /\ Activates(ljob["source"].root)
    /\ idn' = Moves(idn, "active")
    /\ \/ /\ LinkGoes("source", [To("source", "active") EXCEPT
                               !.link = [rev |-> idn'.rev, state |-> "active"]])
          /\ Steady
       \/ LinkGoes("source", LinkIdle) /\ Fault
    /\ Asks /\ UNCHANGED ghost

RefuseActivation ==
    /\ At("source", "sent") /\ LinkGoes("source", LinkIdle)
    /\ \/ ~(idn.rev = ljob["source"].link.rev /\ Activates(ljob["source"].root)) /\ Steady
       \/ Fault
    /\ Asks /\ UNCHANGED <<idn, ghost>>

ObserveActive ==
    /\ At("source", "active") /\ Current("source") /\ Readable /\ disk # None
    /\ LinkSaves("source", Observing(disk, ljob["source"].link), LinkIdle)
    /\ Stores

-----------------------------------------------------------------------------
(* startSharedUnlockLinkMonitor and startSharedUnlockReconnectMonitor. *)

(* Mutant: a barrier that the checkpoint has outlived closes the session. *)
ActionAlways ==
    IF sess.root # 0
    THEN IF sess.root <= idn.out THEN "logout"
         ELSE IF sess.root <= idn.inval THEN "lock" ELSE "none"
    ELSE Ended(sess.born)
(* Identity's barriers against the root, or its word on the session without. *)
Action ==
    IF sess.root = 0 /\ Ended(sess.born) = "lock" /\ idn.inval <= sess.locks
    THEN "none" ELSE ActionAlways

(* The session is captured and Identity asked.                               *)
MonitorRead ==
    /\ ~LinkRunning("monitor") /\ Captures /\ Readable /\ disk # None /\ Exists
    /\ Action # "none" \/ disk.obs # Link
    /\ LinkGoes("monitor", [Begins("act", Action) EXCEPT !.link = Link])
    /\ UNCHANGED <<idn, disk, ram, sess, hint, lcount, ghost>>

(* A session that ended closes before anything is written.                   *)
MonitorClose ==
    /\ At("monitor", "act") /\ Current("monitor") /\ ljob["monitor"].action # "none"
    /\ sess' = IF ljob["monitor"].action = "logout"
               THEN [Shut(sess) EXCEPT !.born = 0, !.mem = FALSE] ELSE Shut(sess)
    /\ ljob' = [Overtakes("none") EXCEPT !["monitor"] = LinkIdle]
    /\ \/ disk' = Observing(disk, ljob["monitor"].link) /\ Readable
       \/ UNCHANGED disk
    /\ lcount' = [lcount EXCEPT !.ids = Taken(disk')]
    /\ UNCHANGED <<idn, ram, hint, ghost>>

MonitorObserve ==
    /\ At("monitor", "act") /\ Current("monitor") /\ ljob["monitor"].action = "none"
    /\ Readable
    /\ LinkSaves("monitor", Observing(disk, ljob["monitor"].link), LinkIdle)
    /\ Stores

(* repair, then the invitation against the observed revocation.              *)
ReconcileBegin ==
    /\ ~LinkRunning("reconnect") /\ Captures /\ hint # 0 /\ Marker # None /\ Recorded
    /\ LinkSaves("reconnect", Marker,
             IF Marker.pending # {} \/ (Marker.obs.state = "revoked" /\ Marker.obs.rev >= hint)
             THEN LinkIdle
             ELSE [Begins("read", "none") EXCEPT !.disc = Marker.disc, !.root = hint])
    /\ Stores

(* Identity has to agree that the link is back since.                        *)
ReconcileRead ==
    /\ At("reconnect", "read") /\ Current("reconnect") /\ Readable
    /\ LET back == /\ Exists /\ idn.state # "revoked" /\ idn.rev >= ljob["reconnect"].root
                   /\ disk.obs.rev <= idn.rev
       IN  /\ LinkGoes("reconnect",
                   IF back /\ ljob["reconnect"].disc # 0
                   THEN [To("reconnect", "clear") EXCEPT !.link = Link]
                   ELSE IF idn.state = "revoked"
                   THEN [To("reconnect", "observe") EXCEPT !.link = Link]
                   ELSE LinkIdle)
           /\ hint' = IF back /\ ljob["reconnect"].disc = 0 THEN 0 ELSE hint
    /\ UNCHANGED <<idn, disk, ram, sess, lcount, ghost>>

ReconcileObserve ==
    /\ At("reconnect", "observe") /\ Current("reconnect") /\ Readable
    /\ LinkSaves("reconnect", Observing(disk, ljob["reconnect"].link), LinkIdle)
    /\ Stores

-----------------------------------------------------------------------------
(* The peer: the web application, on the user's own word. *)

PeerActs == lcount.peer < MaxPeer /\ lcount' = [lcount EXCEPT !.peer = @ + 1]
Peers == PeerActs /\ UNCHANGED <<disk, ram, sess, ljob, ghost>>

PeerCloses(action) ==
    /\ Exists /\ Room /\ idn' = Closed(action) /\ Peers /\ UNCHANGED hint
PeerReconnects ==
    /\ idn.state = "revoked" /\ Room
    /\ idn' = [Moves(idn, "locked") EXCEPT !.recon = idn.rev + 1]
    /\ hint' \in {hint, idn.rev + 1}
    /\ Peers
PeerActivates ==
    /\ idn.state = "locked" /\ idn.on /\ Room
    /\ idn' = [Moves(idn, "active") EXCEPT !.seq = @ + 1]
    /\ Peers /\ UNCHANGED hint
PeerPrefers == idn' = [idn EXCEPT !.on = ~@] /\ Peers /\ UNCHANGED hint
(* An invitation that no reconnect is behind.                                *)
PeerInvites == hint' \in {1, MaxRev} /\ Peers /\ UNCHANGED idn
Peer ==
    \/ \E action \in Closings : PeerCloses(action)
    \/ PeerReconnects \/ PeerActivates \/ PeerPrefers \/ PeerInvites

-----------------------------------------------------------------------------

(* A first use, or a signed-in session whose marker holds a link as Identity  *)
(* keeps it, locked.                                                         *)
LinkInit ==
    /\ \E paired \in BOOLEAN :
         /\ idn = [state |-> IF paired THEN "locked" ELSE "none",
                   rev |-> IF paired THEN 1 ELSE 0, seq |-> IF paired THEN 1 ELSE 0,
                   inval |-> 0, out |-> 0, recon |-> 0, on |-> TRUE]
         /\ disk = IF paired THEN [Fresh EXCEPT !.obs = [rev |-> 1, state |-> "locked"]]
                   ELSE None
         /\ sess = [open |-> FALSE, born |-> IF paired THEN 1 ELSE 0, mem |-> paired,
                    root |-> 0, locks |-> 0]
         /\ hint \in IF paired THEN {0, 1} ELSE {0}
    /\ ram = None
    /\ ljob = [p \in Calls |-> LinkIdle]
    /\ lcount = [acts |-> 0, peer |-> 0, faults |-> 0, ids |-> 0]
    /\ ghost = [settled |-> {}, cut |-> 0, known |-> 0]

Settings ==
    \/ Disconnect \/ RecordDisconnect \/ Reconnect \/ ReadRevoked
    \/ ServeReconnect \/ RefuseReconnect \/ ClearBySettings
Source ==
    \/ PrepareLink \/ EnsureLink \/ ReadOrCreateLink \/ ObserveLink \/ SendActivation
    \/ ServeActivation \/ RefuseActivation \/ ObserveActive
Monitor == MonitorRead \/ MonitorClose \/ MonitorObserve
Reconcile ==
    \/ ReconcileBegin \/ ReconcileRead \/ ReconcileObserve \/ ClearByMonitor
UnlockSteps == ReadCheckpoint \/ Authorize \/ NotAuthorized \/ Publish
CloseSteps == RecordClosing \/ EndClose

LinkNext ==
    \/ SignIn \/ LinkUnlock \/ AutoLock \/ LinkRestart
    \/ \E action \in {"lock", "logout"} : Close(action)
    \/ UnlockSteps \/ CloseSteps \/ Settings \/ Source \/ Monitor \/ Reconcile
    \/ \E p \in Flushers : Flush(p)
    \/ \E p \in {"settings", "reconnect"} : ClearFails(p)
    \/ \E p \in Calls : Stops(p)
    \/ Peer

LinkSpec == LinkInit /\ [][LinkNext]_linkVars

-----------------------------------------------------------------------------

Ids == 0 .. lcount.ids
Intents == [id : Ids \ {0}, action : Closings]
Links == [rev : 0 .. MaxRev, state : {"none", "locked", "active", "revoked"}]
Markers == [obs : Links, pending : SUBSET Intents, disc : Ids]

ASSUME NoneIsNoMarker ==
    None \notin [obs : Links, pending : SUBSET [id : Nat, action : Closings], disc : Nat]

(* The state has its types, and a marker retains at most one closing of the  *)
(* session and one disconnection (the limit the stored marker is read with). *)
LinkTypeOK ==
    /\ Link \in Links /\ {idn.seq, idn.inval, idn.out, idn.recon} \subseteq Nat
    /\ disk \in Markers \cup {None} /\ ram \in Markers \cup {None}
    /\ Marker # None => \A i, j \in Marker.pending :
         (i.action = "disconnect") = (j.action = "disconnect") => i = j
    /\ sess.open => sess.born # 0 /\ sess.mem
    /\ \A p \in Calls : ljob[p].todo \subseteq Intents /\ ljob[p].link \in Links
    /\ hint \in 0 .. MaxRev

(* Nothing the user closed is forgotten: a closing leaves the marker only     *)
(* when Identity has carried it out, or said that sharing is off, or when the *)
(* user has since asked to log out.                                          *)
Forgotten(i) ==
    /\ i.id \notin ghost.settled
    /\ ~(i.action = "lock" /\ \E j \in Marker'.pending : j.action = "logout")
ClosingsAreKept ==
    [][ disk # None => \A i \in disk.pending :
          i \in disk'.pending \/ ~Forgotten(i) ]_linkVars

(* A disconnection the user asked for sticks: the latch is cleared only after *)
(* Identity has carried every disconnection of this device out and somebody  *)
(* has reconnected the link explicitly since.  A latch that could not be     *)
(* written lasts as long as the worker.                                      *)
Latched(m) == m # None /\ m.disc # 0
Reconnected == /\ idn.recon > ghost.cut
               /\ \A i \in Marker.pending : i.action # "disconnect"
DisconnectSticks ==
    [][ /\ Latched(disk) => Latched(disk') \/ Reconnected
        /\ Latched(ram) => Latched(Marker') \/ Reconnected \/ LinkRestart ]_linkVars

(* A session that shares has delivered every closing the user asked for       *)
(* before: none of them can end it later.                                    *)
SharingHasDelivered ==
    sess.root # 0 => Marker = None \/ Marker.pending = {}

(* A closing is not replayed: the monitor closes a session that knows its     *)
(* barrier only for one that Identity set after the session began.            *)
BarriersAreNotReplayed ==
    [][ MonitorClose /\ (sess.root # 0 \/ sess.locks # 0) => idn.inval > ghost.known ]_linkVars

(* Together: the marker is one that can be read back, and it holds no closing *)
(* while the session is shared.                                              *)
LinkIsSound == LinkTypeOK /\ SharingHasDelivered
=============================================================================
