-------------------------- MODULE SharedLinkProofs --------------------------
(* Proofs about SharedLink, for any bounds: what an unlock delivers outlives *)
(* no barrier that it knew, no closing is forgotten before it is settled, a  *)
(* disconnection sticks until the link is reconnected, and the session does  *)
(* not close twice for one barrier.                                          *)
EXTENDS SharedLink, TLAPS

-----------------------------------------------------------------------------
(* The inductive invariant. *)

(* Types. *)
Steps == {"idle", "record", "flush", "next", "off", "observe", "posted", "ack",
          "checkpoint", "authorize", "publish", "end", "reread", "sent", "clear",
          "ensure", "read", "activate", "active", "act"}
LinkCalls == [at : Steps, live : BOOLEAN, root : Nat, locks : Nat, todo : SUBSET Intents,
              cur : Intents \cup {None}, link : Links, disc : Nat,
              action : Closings \cup {"none", "reconnect"}]
OneOfAKind(m) ==
    m # None => \A i, j \in m.pending :
                  (i.action = "disconnect") = (j.action = "disconnect") => i = j
IdnTyped ==
    /\ idn \in [state : {"none", "locked", "active", "revoked"}, rev : 0..MaxRev,
                seq : Nat, inval : Nat, out : Nat, recon : Nat, on : BOOLEAN]
    /\ idn.out <= idn.inval /\ idn.inval <= idn.seq /\ idn.recon <= idn.rev
StoreTyped ==
    /\ disk \in Markers \cup {None} /\ ram \in Markers \cup {None}
    /\ OneOfAKind(disk) /\ OneOfAKind(ram)
    /\ lcount \in [acts : Nat, peer : Nat, faults : Nat, ids : Nat]
SessTyped ==
    sess \in [open : BOOLEAN, born : Nat, mem : BOOLEAN, root : Nat, locks : Nat]
GhostTyped ==
    /\ ghost \in [settled : SUBSET Nat, cut : Nat, known : Nat]
    /\ ghost.cut <= idn.rev /\ ghost.known <= idn.inval
JobsTyped == ljob \in [Calls -> LinkCalls]
Typed ==
    /\ IdnTyped /\ StoreTyped /\ SessTyped /\ GhostTyped /\ JobsTyped
    /\ hint \in 0..MaxRev

(* Who runs beside whom. *)
Live(p) == ljob[p].live
Ordered ==
    /\ \A p \in Calls : ~LinkRunning(p) => ~Live(p)
    /\ LinkRunning("close") =>
         ~sess.open /\ \A p \in Calls \ {"close"} : ~Live(p)
    /\ LinkRunning("unlock") => ~sess.open /\ (Live("monitor") => Live("unlock"))
    /\ At("settings", "record") =>
         /\ sess.root = 0 /\ ~Live("reconnect")
         /\ Live("unlock") => \/ At("unlock", "flush")
                              \/ (At("unlock", "publish") /\ ljob["unlock"].root = 0)
    /\ sess.open => sess.born # 0 /\ sess.mem
    /\ ~sess.open => sess.root = 0 /\ sess.locks = 0
    /\ Live("unlock") => sess.born # 0

(* What the job c of the call p has at hand. *)
EverRevoked == idn.state = "revoked" \/ idn.recon > 0
AtHand(p, c) ==
    /\ c.at \in {"off", "posted", "ack"} => p \in Flushers
    /\ p \in Flushers /\ c.at \in {"off", "observe", "posted", "ack"} => c.cur \in Intents
    /\ c.at \in {"off", "ack"} => c.cur.id \in ghost.settled
    /\ c.at = "off" => c.cur.action # "disconnect"
    /\ c.at = "ack" /\ c.cur.action = "disconnect" => EverRevoked
    /\ p = "close" /\ c.at = "record" => c.action \in {"lock", "logout"}
    /\ c.link.rev <= idn.rev
    /\ c.link.state = "revoked" => EverRevoked

(* A retained write forgets nothing that is stored. *)
Covers(m) ==
    disk # None =>
        /\ Latched(disk) => Latched(m)
        /\ \A i \in disk.pending :
             \/ i \in m.pending \/ i.id \in ghost.settled
             \/ i.action = "lock" /\ \E j \in m.pending : j.action = "logout"
Retained == ram # None => Covers(ram)

(* A disconnection of the link and what became of it. *)
Denies(m) == \E i \in m.pending : i.action = "disconnect"
Latching(m) ==
    m # None => /\ m.disc # 0 => EverRevoked \/ Denies(m)
                /\ m.obs.state = "revoked" => EverRevoked
Revoking ==
    /\ Latching(disk) /\ Latching(ram)
    /\ idn.state # "revoked" /\ EverRevoked => idn.recon > ghost.cut
    /\ ghost.cut # 0 => EverRevoked
(* An effective request to disconnect is of a closing that is still pending. *)
Posted(c, m) ==
    c.at = "posted" /\ c.cur.action = "disconnect" /\ c.link.rev = idn.rev =>
        m # None /\ c.cur \in m.pending
(* A closing that is acknowledged was not the one of a request under way. *)
Acked(q, p) ==
    /\ q # p /\ <<q, p>> # <<"settings", "unlock">>
    /\ At(q, "ack") /\ Live(q) /\ At(p, "posted")
    => ljob[p].link.rev < idn.rev
(* Who is about to clear the latch has seen the link come back. *)
Watches(p, c) ==
    /\ c.live
    /\ \/ p = "settings" /\ c.at \in {"sent", "clear"}
       \/ p = "reconnect" /\ c.at \in {"read", "clear"}
Undenied(m) == m # None /\ ~Denies(m)
Clearing(p, c, m) ==
    /\ Watches(p, c) => Undenied(m)
    /\ c.live =>
         /\ c.at = "clear" => p \in {"settings", "reconnect"} /\ idn.recon > ghost.cut
         /\ p = "settings" => c.action \in {"disconnect", "reconnect"}
         /\ p = "settings" /\ c.at \in {"reread", "sent", "clear"} => c.action = "reconnect"
         /\ p = "settings" /\ c.action = "reconnect" => c.disc # 0
         /\ p = "reconnect" /\ c.at = "read" /\ c.disc # 0 => EverRevoked
(* Who is about to change the marker has found one. *)
Stored(p, c, m) ==
    \/ c.at \in {"off", "observe", "posted", "ack", "act", "read"}
    \/ p = "settings" /\ c.at = "record"
    => m # None
Fit(p, c, m) == AtHand(p, c) /\ Posted(c, m) /\ Clearing(p, c, m) /\ Stored(p, c, m)

(* What an unlock has delivered, and what it knows of barriers. *)
NoneLeft(m) == m = None \/ m.pending = {}
Outlived(locks) ==
    locks # 0 => /\ locks = ghost.known
                 /\ sess.born > idn.out \/ idn.inval > ghost.known
Ready(c) == c.at \in {"checkpoint", "authorize"} \/ c.root # 0
Unlocking(c, m) ==
    /\ c.at # "publish" => c.root = 0
    /\ c.at \notin {"authorize", "publish"} => c.locks = 0
    /\ c.live =>
         /\ Ready(c) => NoneLeft(m)
         /\ c.root # 0 => c.root > ghost.known
         /\ Outlived(c.locks)
Shared ==
    /\ sess.root # 0 => NoneLeft(Marker) /\ sess.root > ghost.known
    /\ Outlived(sess.locks)
Monitored ==
    /\ At("monitor", "act") /\ Live("monitor") /\ ljob["monitor"].action # "none"
    /\ ~LinkRunning("unlock") /\ (sess.root # 0 \/ sess.locks # 0)
    => idn.inval > ghost.known

Fits == /\ \A p \in Calls : Fit(p, ljob[p], Marker)
        /\ Unlocking(ljob["unlock"], Marker)
        /\ \A p, q \in Calls : Acked(q, p)

LinkInv ==
    Typed /\ Ordered /\ Retained /\ Revoking /\ Shared /\ Monitored /\ Fits

-----------------------------------------------------------------------------
(* Types. *)

(* A number that has a bound may grow by one below it.                       *)
LEMMA Grow ==
    ASSUME lcount.ids \in Nat, lcount'.ids \in Nat, lcount.ids <= lcount'.ids
    PROVE  Intents \subseteq Intents' /\ Markers \subseteq Markers' /\ LinkCalls \subseteq LinkCalls'
BY DEF Ids, Intents, Closings, Markers, Links, LinkCalls

(* The three closings and the five calls differ from each other.             *)
LEMMA Facts ==
    ASSUME IdnTyped
    PROVE  /\ idn.state \in {"none", "locked", "active", "revoked"} /\ idn.rev \in 0..MaxRev
           /\ idn.rev \in Nat /\ idn.seq \in Nat /\ idn.inval \in Nat /\ idn.out \in Nat
           /\ idn.recon \in Nat /\ idn.on \in BOOLEAN /\ Link \in Links
           /\ idn.out <= idn.inval /\ idn.inval <= idn.seq /\ idn.recon <= idn.rev
BY LinkAssumption DEF IdnTyped, Link, Links

(* What the job of a call is made of.                                        *)
LEMMA CallTypes ==
    ASSUME NEW c \in LinkCalls
    PROVE  /\ c.at \in Steps /\ c.live \in BOOLEAN /\ c.root \in Nat /\ c.locks \in Nat
           /\ c.todo \in SUBSET Intents /\ c.cur \in Intents \cup {None}
           /\ c.link \in Links /\ c.disc \in Nat
           /\ c.action \in Closings \cup {"none", "reconnect"}
           /\ c.link.rev \in 0..MaxRev /\ c.link.rev \in Nat
           /\ c.link.state \in {"none", "locked", "active", "revoked"}
BY LinkAssumption DEF LinkCalls, Links

(* What a stored marker is made of.                                          *)
LEMMA MarkerTypes ==
    ASSUME NEW m \in Markers
    PROVE  /\ m.obs \in Links /\ m.pending \in SUBSET Intents /\ m.disc \in Ids
           /\ m.disc \in Nat /\ m # None /\ m.obs.rev \in Nat
           /\ m.obs.state \in {"none", "locked", "active", "revoked"}
BY NoneIsNoMarker, LinkAssumption DEF Markers, Ids, Intents, Links

(* What a pending closing is made of.                                        *)
LEMMA IntentTypes ==
    ASSUME NEW i \in Intents
    PROVE  i.id \in Ids /\ i.id \in Nat /\ i.id # 0 /\ i.action \in Closings
BY DEF Intents, Ids

(* The job of a call that does not run is a job.                             *)
LEMMA IdleTyped ==
    /\ LinkIdle \in LinkCalls /\ LinkIdle.at = "idle" /\ LinkIdle.live = FALSE
    /\ LinkIdle.root = 0 /\ LinkIdle.locks = 0 /\ LinkIdle.todo = {} /\ LinkIdle.cur = None
    /\ LinkIdle.link = Unobserved /\ LinkIdle.disc = 0 /\ LinkIdle.action = "none"
BY LinkAssumption DEF Unobserved, Links, Steps, LinkIdle, LinkCalls, Closings

(* The link that nobody has observed yet.                                    *)
LEMMA NothingObserved == Unobserved \in Links /\ Unobserved.rev = 0 /\ Unobserved.state = "none"
BY LinkAssumption DEF Unobserved, Links

(* A job that only goes to another step. *)
LEMMA ToStep ==
    ASSUME JobsTyped, NEW p \in Calls, NEW c, c = ljob[p], NEW s \in Steps, NEW r, r = To(p, s)
    PROVE  /\ r \in LinkCalls /\ r.at = s /\ r.live = c.live /\ r.root = c.root
           /\ r.locks = c.locks /\ r.todo = c.todo /\ r.cur = c.cur /\ r.link = c.link
           /\ r.disc = c.disc /\ r.action = c.action
BY DEF JobsTyped, To, LinkCalls

(* The job of a call that begins is a job.                                   *)
LEMMA BeginTyped ==
    ASSUME NEW s \in Steps, NEW a \in Closings \cup {"none", "reconnect"},
           NEW r, r = Begins(s, a)
    PROVE  /\ r \in LinkCalls /\ r.at = s /\ r.live /\ r.root = 0 /\ r.locks = 0
           /\ r.todo = {} /\ r.cur = None /\ r.link = Unobserved /\ r.disc = 0 /\ r.action = a
<1>1. PICK c : c = LinkIdle OBVIOUS
<1>2. c \in LinkCalls BY <1>1, IdleTyped
<1>3. r = [c EXCEPT !.at = s, !.live = TRUE, !.action = a] BY <1>1 DEF Begins
<1>5. r \in LinkCalls BY <1>2, <1>3 DEF LinkCalls
<1>6. /\ r.at = s /\ r.live /\ r.root = c.root /\ r.locks = c.locks
      /\ r.todo = c.todo /\ r.cur = c.cur /\ r.link = c.link /\ r.disc = c.disc /\ r.action = a
  BY <1>2, <1>3 DEF LinkCalls
<1> QED BY <1>1, <1>5, <1>6, IdleTyped

(* A call that fails. *)
LEMMA FailedJob ==
    ASSUME JobsTyped, NEW p \in Calls, NEW f, f = Failed(p)
    PROVE  /\ f \in LinkCalls
           /\ f.at = IF p = "unlock" THEN "publish" ELSE IF p = "close" THEN "end" ELSE "idle"
           /\ p \in {"unlock", "close"} => f.live = ljob[p].live
           /\ p \notin {"unlock", "close"} => f = LinkIdle
           /\ p = "unlock" => f.root = ljob[p].root /\ f.locks = ljob[p].locks
           /\ f.link = Unobserved /\ (p = "close" => f.action = ljob[p].action)
<1>1. PICK c : c = ljob[p] OBVIOUS
<1>2. c \in LinkCalls BY <1>1 DEF JobsTyped
<1>3. CASE p = "unlock"
  <2>1. PICK d : d = [c EXCEPT !.at = "publish"] OBVIOUS
  <2>2. "publish" \in Steps /\ {} \in SUBSET Intents BY DEF Steps
  <2>3. PICK l \in Links : l = Unobserved BY NothingObserved
  <2>4. PICK r : r = [d EXCEPT !.todo = {}, !.cur = None, !.link = l] OBVIOUS
  <2>5. d \in LinkCalls BY <1>2, <2>1, <2>2 DEF LinkCalls
  <2>6. d.at = "publish" /\ d.live = c.live /\ d.root = c.root /\ d.locks = c.locks
    BY <1>2, <2>1 DEF LinkCalls
  <2>7. r \in LinkCalls BY <2>5, <2>4, <2>2 DEF LinkCalls
  <2>8. r.at = d.at /\ r.live = d.live /\ r.root = d.root /\ r.locks = d.locks /\ r.link = l
    BY <2>5, <2>4 DEF LinkCalls
  <2>9. r = Failed(p) BY <1>1, <1>3, <2>1, <2>3, <2>4 DEF Failed, To
  <2> QED BY <1>1, <1>3, <2>3, <2>6, <2>7, <2>8, <2>9
<1>4. CASE p = "close"
  <2>10. "end" \in Steps BY DEF Steps
  <2>11. PICK a \in Closings \cup {"none", "reconnect"} : a = c.action
    BY <1>2, CallTypes
  <2>12. PICK e : e = LinkIdle OBVIOUS
  <2>13. e \in LinkCalls /\ e.link = Unobserved BY <2>12, IdleTyped
  <2>14. PICK d : d = [e EXCEPT !.at = "end", !.live = TRUE, !.action = a]
    OBVIOUS
  <2>1. d = Begins("end", a) BY <2>12, <2>14 DEF Begins
  <2>15. d \in LinkCalls BY <2>10, <2>13, <2>14 DEF LinkCalls
  <2>16. d.at = "end" /\ d.link = e.link /\ d.action = a
    BY <2>13, <2>14 DEF LinkCalls
  <2>2. d \in LinkCalls /\ d.at = "end" /\ d.link = Unobserved /\ d.action = a
    BY <2>13, <2>15, <2>16
  <2>3. PICK b \in BOOLEAN : b = c.live BY <1>2, CallTypes
  <2>4. PICK r : r = [d EXCEPT !.live = b] OBVIOUS
  <2>5. r \in LinkCalls BY <2>2, <2>4 DEF LinkCalls
  <2>6. r.at = d.at /\ r.live = b /\ r.link = d.link /\ r.action = d.action
    BY <2>2, <2>4 DEF LinkCalls
  <2>7. r = Failed(p) BY <1>1, <1>4, <2>1, <2>11, <2>3, <2>4 DEF Failed
  <2> QED BY <1>1, <1>4, <2>11, <2>2, <2>3, <2>5, <2>6, <2>7
<1>5. CASE p \notin {"unlock", "close"} BY <1>5, IdleTyped DEF Failed
<1> QED BY <1>3, <1>4, <1>5

-----------------------------------------------------------------------------
(* One call goes a step. *)

(* What the world may do beside the step of p. *)
Turns(p) ==
    /\ idn.rev <= idn'.rev /\ idn.inval <= idn'.inval
    /\ idn'.out = idn.out \/ idn'.inval > ghost'.known
    /\ EverRevoked => EverRevoked'
    /\ ghost.settled \subseteq ghost'.settled
    /\ lcount.ids <= lcount'.ids
    /\ ghost'.known = ghost.known \/ p = "unlock"
    /\ \A q \in Calls \ {p} : At(q, "clear") /\ Live(q) => idn'.recon > ghost'.cut
(* What the marker m, after a step of p, leaves to the others. *)
Leaves(p, m) ==
    /\ sess.root # 0 => NoneLeft(m)
    /\ p # "unlock" /\ Live("unlock") /\ Ready(ljob["unlock"]) => NoneLeft(m)
    /\ \A q \in Calls \ {p} : 
         (Watches(q, ljob[q]) => Undenied(m)) /\ Posted(ljob[q], m) /\ Stored(q, ljob[q], m)
Onward(p, m) == Turns(p) /\ Leaves(p, m)

(* A call that runs goes to r: it stays one that runs, or ends. *)
Goes(p, r) ==
    /\ r.live => Live(p)
    /\ p = "unlock" => r.live = Live(p) /\ r.at # "idle"
    /\ r.at = "idle" => ~r.live
    /\ r.at # "record"
    /\ p = "unlock" /\ At("settings", "record") /\ r.live => r.at = "publish" /\ r.root = 0
    /\ p = "monitor" => ~r.live
(* A request that leaves, or an answer to one, crosses no acknowledgement.    *)
InTurn(p, r) ==
    /\ r.at = "posted" =>
         \/ At(p, "posted") /\ r.link = ljob[p].link
         \/ \A q \in Calls \ {p} :
              <<q, p>> # <<"settings", "unlock">> => ~(At(q, "ack") /\ Live(q))
    /\ r.at = "ack" /\ r.live =>
         \/ At(p, "ack") /\ Live(p)
         \/ \A q \in Calls : At(q, "posted") => ljob[q].link.rev < idn'.rev

(* One job changes, and the jobs are jobs still.                             *)
LEMMA JobsAfter ==
    ASSUME JobsTyped, NEW p \in Calls, NEW r, LinkGoes(p, r)
    PROVE  /\ ljob'[p] = r /\ \A q \in Calls \ {p} : ljob'[q] = ljob[q]
           /\ lcount.ids \in Nat /\ lcount'.ids \in Nat /\ lcount.ids <= lcount'.ids
              /\ r \in LinkCalls => JobsTyped'
BY Grow DEF LinkGoes, JobsTyped

(* A job stays fit. *)
LEMMA FitStill ==
    ASSUME LinkInv, NEW p \in Calls \cup {"none"}, NEW m, Onward(p, m), IdnTyped', StoreTyped',
           NEW q \in Calls \ {p}, NEW c, c = ljob[q]
    PROVE  Fit(q, c, m)'
<1>1. c = ljob[q] OBVIOUS
<1>2. c \in LinkCalls BY <1>1 DEF LinkInv, Typed, JobsTyped
<1>3. Fit(q, c, Marker) BY <1>1 DEF LinkInv, Fits
<1>4. lcount.ids \in Nat /\ lcount'.ids \in Nat /\ lcount.ids <= lcount'.ids
  BY DEF LinkInv, Typed, StoreTyped, Onward, Turns
<1>5. Intents \subseteq Intents' BY <1>4, Grow
<1>6. c.link.rev \in Nat /\ idn.rev \in Nat /\ idn'.rev \in Nat
  BY <1>2, CallTypes, LinkAssumption DEF LinkInv, Typed, IdnTyped
<1>7. AtHand(q, c)' BY <1>3, <1>6, <1>5 DEF Fit, Onward, Turns, AtHand
<1>8. Posted(c, m)'
  BY <1>1, <1>3, <1>6 DEF Onward, Leaves, Fit, AtHand, Turns, Posted
<1>9. Clearing(q, c, m)'
  BY <1>3, <1>1 DEF Fit, Onward, Leaves, Turns, Clearing, At, Live, Watches, Undenied, Denies
<1>10. Stored(q, c, m)' BY <1>1 DEF Onward, Leaves, Stored
<1> QED BY <1>7, <1>8, <1>9, <1>10 DEF Fit

(* The order of the calls stays when none begins or turns live.              *)
LEMMA OrderedStill ==
    ASSUME LinkInv, NEW p \in Calls, NEW r, LinkGoes(p, r), LinkRunning(p), Goes(p, r),
           sess' = sess
    PROVE  Ordered'
<1>1. ljob'[p] = r /\ \A q \in Calls \ {p} : ljob'[q] = ljob[q]
  BY JobsAfter DEF LinkInv, Typed
<1>2. \A q \in Calls : Live(q)' => Live(q) BY <1>1 DEF Live, Goes
<1>3. \A q \in Calls : q # p => LinkRunning(q)' = LinkRunning(q)
  BY <1>1 DEF LinkRunning
<1>4. {"close", "unlock", "settings", "monitor", "reconnect"} \subseteq Calls
  BY DEF Calls
<1>5. \A q \in Calls : ~LinkRunning(q)' => ~Live(q)'
  BY <1>1 DEF LinkInv, Ordered, LinkRunning, Live, Goes
<1>6. LinkRunning("close")' => ~sess.open /\ \A q \in Calls \ {"close"} : ~Live(q)'
  BY <1>2, <1>3, <1>4 DEF LinkInv, Ordered
<1>7. LinkRunning("unlock")' => ~sess.open /\ (Live("monitor")' => Live("unlock")')
  BY <1>3, <1>4, <1>1, <1>2 DEF Goes, Live, LinkInv, Ordered
<1>8. At("settings", "record")' =>
         /\ sess.root = 0 /\ ~Live("reconnect")'
         /\ Live("unlock")' => \/ At("unlock", "flush")'
                               \/ (At("unlock", "publish")' /\ ljob'["unlock"].root = 0)
  BY <1>1, <1>4, <1>2 DEF At, Goes, LinkInv, Ordered, Live
<1>9. Live("unlock")' => sess.born # 0 BY <1>2, <1>4 DEF LinkInv, Ordered
<1> QED BY <1>5, <1>6, <1>7, <1>8, <1>9 DEF LinkInv, Ordered

(* What was outlived stays so while nobody reads the barrier again. *)
LEMMA OutlivedStill ==
    ASSUME LinkInv, NEW p, NEW m, Onward(p, m), p # "unlock", sess' = sess, IdnTyped', GhostTyped',
           NEW l, Outlived(l)
    PROVE  Outlived(l)'
BY DEF LinkInv, Typed, IdnTyped, GhostTyped, Outlived, Onward, Turns

(* What the session has of an unlock stays when nothing of it changes.       *)
LEMMA SharedStill ==
    ASSUME LinkInv, NEW p \in Calls \cup {"none"}, NEW m, Onward(p, m), Marker' = m, sess' = sess,
           IdnTyped', GhostTyped', p = "unlock" => ~sess.open
    PROVE  Shared'
BY OutlivedStill DEF LinkInv, Ordered, Shared, Outlived, Onward, Turns, Leaves, NoneLeft

(* What the unlock has at hand stays when nothing of it changes.             *)
LEMMA UnlockingStill ==
    ASSUME LinkInv, NEW p \in Calls \cup {"none"}, NEW m, Onward(p, m), sess' = sess,
           IdnTyped', GhostTyped', p # "unlock", NEW c, c = ljob["unlock"]
    PROVE  Unlocking(c, m)'
BY OutlivedStill DEF LinkInv, Fits, Onward, Leaves, Live, Unlocking, Turns, Ready, NoneLeft

(* A monitor that stands by goes on to close for the reason it read. *)
LEMMA MonitoredStill ==
    ASSUME LinkInv, NEW p, NEW m, Onward(p, m), sess' = sess, IdnTyped',
           ljob'["monitor"] = ljob["monitor"],
           \/ LinkRunning("unlock")'
           \/ p # "unlock" /\ ~LinkRunning("unlock")
    PROVE  Monitored'
BY DEF LinkInv, Typed, IdnTyped, GhostTyped, Onward, Turns, Monitored, At, Live

(* Acknowledgements stay exclusive while no request is posted.               *)
LEMMA AckedStill ==
    ASSUME LinkInv, NEW p \in Calls, NEW r, NEW m, LinkGoes(p, r), Onward(p, m), IdnTyped',
           r \in LinkCalls, InTurn(p, r)
    PROVE  \A q, s \in Calls : Acked(q, s)'
<1>1. ljob'[p] = r /\ \A q \in Calls \ {p} : ljob'[q] = ljob[q]
  BY JobsAfter DEF LinkInv, Typed
<1> SUFFICES ASSUME NEW q \in Calls, NEW s \in Calls,
                    q # s /\ <<q, s>> # <<"settings", "unlock">>,
                    At(q, "ack")', Live(q)', At(s, "posted")'
             PROVE  ljob'[s].link.rev < idn'.rev
  BY DEF Acked
<1>2. ASSUME NEW t \in Calls PROVE ljob[t].link.rev \in Nat
  BY CallTypes DEF LinkInv, Typed, JobsTyped
<1>3. idn.rev \in Nat /\ idn'.rev \in Nat /\ idn.rev <= idn'.rev
  BY LinkAssumption DEF LinkInv, Typed, IdnTyped, Onward, Turns
<1>4. CASE At(q, "ack") /\ Live(q) /\ At(s, "posted") /\ ljob'[s].link = ljob[s].link
  BY <1>4, <1>2, <1>3 DEF LinkInv, Fits, Acked
<1>5. CASE s # p /\ q # p BY <1>1, <1>4, <1>5 DEF At, Live
<1>6. CASE s = p BY <1>1, <1>6, <1>4 DEF At, Live, InTurn
<1>7. CASE q = p /\ s # p BY <1>1, <1>7, <1>4 DEF At, Live, InTurn
<1> QED BY <1>5, <1>6, <1>7

(* One call goes to r and the invariant holds. *)
LEMMA OneJob ==
    ASSUME LinkInv, NEW p \in Calls, NEW r, NEW m, LinkGoes(p, r), Marker' = m, sess' = sess,
           r \in LinkCalls, IdnTyped', StoreTyped', GhostTyped', hint' \in 0..MaxRev,
           Ordered', Monitored', Retained', Revoking', Onward(p, m), InTurn(p, r),
           Fit(p, r, m)', p = "unlock" => ~sess.open /\ Unlocking(r, m)'
    PROVE  LinkInv'
<1>1. lcount.ids \in Nat /\ lcount'.ids \in Nat /\ lcount.ids <= lcount'.ids
  BY DEF LinkInv, Typed, StoreTyped, Onward, Turns
<1>2. ljob'[p] = r /\ (\A q \in Calls \ {p} : ljob'[q] = ljob[q]) /\ JobsTyped'
  BY <1>1, JobsAfter DEF LinkInv, Typed
<1>3. SessTyped' BY DEF LinkInv, Typed, SessTyped
<1>4. ASSUME NEW q \in Calls PROVE Fit(q, ljob[q], Marker)'
  <2>1. CASE q = p BY <1>2, <2>1
  <2>2. CASE q # p
    <3>1. PICK c : c = ljob[q] OBVIOUS
    <3>2. Fit(q, c, m)' BY <2>2, <3>1, FitStill
    <3>3. ljob'[q] = c BY <1>2, <2>2, <3>1
    <3> QED BY <3>2, <3>3
  <2> QED BY <2>1, <2>2
<1>5. Unlocking(ljob["unlock"], Marker)'
  <2>1. CASE p = "unlock" BY <1>2, <2>1
  <2>2. CASE p # "unlock"
    <3>1. PICK c : c = ljob["unlock"] OBVIOUS
    <3>2. Unlocking(c, m)' BY <2>2, <3>1, UnlockingStill
    <3>3. ljob'["unlock"] = c BY <1>2, <2>2, <3>1 DEF Calls
    <3> QED BY <3>2, <3>3
  <2> QED BY <2>1, <2>2
<1>6. \A q, s \in Calls : Acked(q, s)' BY AckedStill
<1>7. Shared' BY SharedStill
<1> QED BY <1>2, <1>3, <1>4, <1>5, <1>6, <1>7 DEF LinkInv, Typed, Fits

-----------------------------------------------------------------------------
(* What every step shows: the invariant, and the two action properties. *)
Kept == disk # None => \A i \in disk.pending : i \in disk'.pending \/ ~Forgotten(i)
Sticks == /\ Latched(disk) => Latched(disk') \/ Reconnected
          /\ Latched(ram) => Latched(Marker') \/ Reconnected \/ LinkRestart
Preserves == LinkInv' /\ Kept /\ Sticks

(* A step that writes no marker forgets no closing and clears no latch.      *)
LEMMA Untouched ==
    ASSUME disk' = disk, ram' = ram
    PROVE  Marker' = Marker /\ Kept /\ Sticks
BY DEF Marker, Sticks, Latched, Kept

(* The counts of the bounds stay natural numbers.                            *)
LEMMA Counts ==
    ASSUME LinkInv, Steady \/ Fault \/ Act \/ PeerActs
    PROVE  /\ lcount' \in [acts : Nat, peer : Nat, faults : Nat, ids : Nat]
           /\ lcount'.ids = lcount.ids
BY DEF LinkInv, Typed, StoreTyped, Steady, Fault, Act, PeerActs

(* The stores keep their types while neither is written.                     *)
LEMMA StoreStill ==
    ASSUME LinkInv, disk' = disk, ram' = ram, lcount'.ids = lcount.ids,
           lcount' \in [acts : Nat, peer : Nat, faults : Nat, ids : Nat]
    PROVE  StoreTyped' /\ Intents' = Intents /\ LinkCalls' = LinkCalls
BY DEF Intents, Markers, Ids, LinkCalls, LinkInv, Typed, StoreTyped, OneOfAKind

(* The marker as it is leaves the others what they rely on. *)
LEMMA SameMarker ==
    ASSUME LinkInv, NEW p
    PROVE  Leaves(p, Marker)
BY DEF LinkInv, Shared, Fits, Unlocking, Live, Fit, Clearing, Leaves

(* While Identity does not move, no call sees it move.                       *)
LEMMA NoTurn ==
    ASSUME LinkInv, NEW p, idn' = idn, ghost' = ghost, lcount'.ids \in Nat, lcount.ids <= lcount'.ids
    PROVE  Turns(p) /\ IdnTyped' /\ GhostTyped' /\ EverRevoked' = EverRevoked
BY LinkAssumption DEF LinkInv, Typed, IdnTyped, GhostTyped, EverRevoked, Fits, Fit, Clearing, At,
   Live, Turns

(* A retained write still covers the stored marker, as long as the store      *)
(* stays.                                                                    *)
LEMMA RetainedStill ==
    ASSUME LinkInv, disk' = disk, ram' = ram, ghost.settled \subseteq ghost'.settled
    PROVE  Retained'
BY DEF LinkInv, Retained, Covers, Latched

(* A marker that latches a disconnection still does.                         *)
LEMMA LatchingStill ==
    ASSUME NEW m, Latching(m), EverRevoked => EverRevoked'
    PROVE  Latching(m)'
BY DEF Latching, Denies

-----------------------------------------------------------------------------
(* Jobs that fail, and calls that end. *)

(* A call that does not run has nothing at hand.                             *)
LEMMA IdleFits ==
    ASSUME NEW p, NEW m, IdnTyped
    PROVE  Fit(p, LinkIdle, m)
BY LinkAssumption, IdleTyped, NothingObserved DEF IdnTyped, Fit, AtHand, Posted, Clearing, Watches,
   Stored

(* A job that failed fits wherever its call may fail.                        *)
LEMMA FailedFits ==
    ASSUME JobsTyped, NEW p \in Calls, NEW r, r = Failed(p)
    PROVE  \A m : IdnTyped' => Fit(p, r, m)'
BY FailedJob, NothingObserved, IdleTyped, LinkAssumption DEF IdnTyped, AtHand, Posted, Clearing,
   Watches, Stored, Fit

(* A call may fail whenever it runs.                                         *)
LEMMA FailedGoes ==
    ASSUME LinkInv, NEW p \in Calls, NEW r, r = Failed(p)
    PROVE  r \in LinkCalls /\ Goes(p, r) /\ InTurn(p, r)
BY FailedJob, IdleTyped DEF LinkInv, Typed, Ordered, Fits, Unlocking, At, Live, Goes, InTurn

(* An unlock that fails only does not share. *)
LEMMA UnlockFails ==
    ASSUME LinkInv, NEW r, r = Failed("unlock"), ~At("unlock", "publish"), NEW m,
           Turns("unlock"), ghost' = ghost \/ ghost'.known = ghost.known, sess' = sess,
           IdnTyped', GhostTyped'
    PROVE  Unlocking(r, m)'
<1>1. PICK c : c = ljob["unlock"] OBVIOUS
<1>2. r.at = "publish" /\ r.live = c.live /\ r.root = c.root /\ r.locks = c.locks
  BY <1>1, FailedJob DEF LinkInv, Typed, Calls
<1>3. Unlocking(c, Marker) /\ c.at # "publish" BY <1>1 DEF LinkInv, Fits, At
<1>4. c.root = 0 BY <1>3 DEF Unlocking
<1>5. idn.inval \in Nat /\ idn'.inval \in Nat /\ ghost.known \in Nat /\ idn.inval <= idn'.inval
  BY DEF LinkInv, Typed, IdnTyped, GhostTyped, Turns
<1>6. c.live => Outlived(c.locks)'
  BY <1>3, <1>5 DEF Unlocking, Outlived, Turns
<1> QED BY <1>2, <1>4, <1>6 DEF Unlocking, Ready

-----------------------------------------------------------------------------
(* Steps of one call, by what they touch. *)

(* Identity keeps its word on a revocation. *)
KeepsRevoked ==
    /\ idn'.state # "revoked" /\ EverRevoked' => idn'.recon > ghost'.cut
    /\ ghost'.cut # 0 => EverRevoked'

(* A call goes on and Identity with it; the store stays. *)
LEMMA WorldJob ==
    ASSUME LinkInv, NEW p \in Calls, NEW r, NEW m, m = Marker, LinkGoes(p, r), r \in LinkCalls,
           disk' = disk, ram' = ram, sess' = sess, hint' \in 0..MaxRev,
           Steady \/ Fault \/ Act \/ PeerActs,
           IdnTyped', GhostTyped', KeepsRevoked, Turns(p),
           Ordered', Monitored', InTurn(p, r),
           Fit(p, r, m)', p = "unlock" => ~sess.open /\ Unlocking(r, m)'
    PROVE  Preserves
<1>1. /\ lcount' \in [acts : Nat, peer : Nat, faults : Nat, ids : Nat]
      /\ lcount'.ids = lcount.ids
  BY Counts
<1>2. StoreTyped' BY <1>1, StoreStill
<1>3. Marker' = m /\ Kept /\ Sticks BY Untouched
<1>4. Onward(p, m) BY SameMarker DEF Onward
<1>5. EverRevoked => EverRevoked' BY DEF Turns
<1>6. Retained' BY RetainedStill DEF Turns
<1>7. Revoking'
  <2>1. PICK d : d = disk OBVIOUS
  <2>2. PICK e : e = ram OBVIOUS
  <2>3. Latching(d)' /\ Latching(e)'
    BY <1>5, <2>1, <2>2, LatchingStill DEF LinkInv, Revoking
  <2>4. (Latching(disk) /\ Latching(ram))' BY <2>1, <2>2, <2>3
  <2> QED BY <2>4 DEF Revoking, KeepsRevoked
<1>8. LinkInv' BY <1>2, <1>3, <1>4, <1>6, <1>7, OneJob
<1> QED BY <1>3, <1>8 DEF Preserves

(* ... that runs. *)
LEMMA WorldGoes ==
    ASSUME LinkInv, NEW p \in Calls, NEW r, NEW m, m = Marker, LinkGoes(p, r), r \in LinkCalls,
           disk' = disk, ram' = ram, sess' = sess, hint' \in 0..MaxRev,
           Steady \/ Fault,
           IdnTyped', GhostTyped', KeepsRevoked, Turns(p),
           LinkRunning(p), Goes(p, r), InTurn(p, r),
           Fit(p, r, m)', p = "unlock" => Unlocking(r, m)'
    PROVE  Preserves
<1>1. Ordered' BY OrderedStill
<1>2. ljob'[p] = r /\ \A q \in Calls \ {p} : ljob'[q] = ljob[q]
  BY JobsAfter DEF LinkInv, Typed
<1>3. Onward(p, m) BY SameMarker DEF Onward
<1>4. Monitored'
  BY <1>2, <1>3, MonitoredStill DEF Goes, Live, Monitored, Calls, LinkRunning
<1>5. p = "unlock" => ~sess.open BY DEF LinkInv, Ordered
<1>6. Steady \/ Fault \/ Act \/ PeerActs OBVIOUS
<1> QED BY <1>1, <1>4, <1>5, <1>6, WorldJob

(* ... and Identity does not. *)
LEMMA Quietly ==
    ASSUME LinkInv, idn' = idn, ghost' = ghost, sess' = sess,
           lcount'.ids \in Nat, lcount.ids <= lcount'.ids, NEW p, NEW r, NEW m
    PROVE  /\ Turns(p) /\ IdnTyped' /\ GhostTyped' /\ KeepsRevoked
           /\ Fit(p, r, m) => Fit(p, r, m)'
           /\ Unlocking(r, m) => Unlocking(r, m)'
<1>2. Turns(p) /\ IdnTyped' /\ GhostTyped' /\ EverRevoked' = EverRevoked
  BY NoTurn
<1>3. KeepsRevoked BY <1>2 DEF KeepsRevoked, LinkInv, Revoking
<1>4. Intents \subseteq Intents' BY Grow DEF LinkInv, Typed, StoreTyped
<1>5. Fit(p, r, m) => Fit(p, r, m)'
  BY <1>2, <1>4 DEF Fit, AtHand, Posted, Clearing, Watches, Undenied, Denies, Stored
<1>6. Unlocking(r, m) => Unlocking(r, m)'
  BY DEF Unlocking, Outlived, Ready, NoneLeft
<1> QED BY <1>2, <1>3, <1>5, <1>6

(* A call goes on by itself, and an invitation may come or go.               *)
LEMMA QuietTurn ==
    ASSUME LinkInv, NEW p \in Calls, NEW r, LinkGoes(p, r), r \in LinkCalls,
           UNCHANGED <<idn, disk, ram, sess, ghost>>, hint' \in 0..MaxRev, Steady \/ Fault,
           LinkRunning(p), Goes(p, r), InTurn(p, r),
           Fit(p, r, Marker), p = "unlock" => Unlocking(r, Marker)
    PROVE  Preserves
<1>1. PICK m : m = Marker OBVIOUS
<1>2. lcount'.ids \in Nat /\ lcount.ids <= lcount'.ids
  BY Counts DEF LinkInv, Typed, StoreTyped
<1>3. /\ Turns(p) /\ IdnTyped' /\ GhostTyped' /\ KeepsRevoked
      /\ Fit(p, r, m)' /\ (p = "unlock" => Unlocking(r, m)')
  BY <1>1, <1>2, Quietly
<1>4. disk' = disk /\ ram' = ram /\ sess' = sess OBVIOUS
<1> QED BY <1>1, <1>3, <1>4, WorldGoes

(* A call goes on by itself.                                                 *)
LEMMA QuietGoes ==
    ASSUME LinkInv, NEW p \in Calls, NEW r, LinkGoes(p, r), r \in LinkCalls,
           UNCHANGED <<idn, disk, ram, sess, hint, ghost>>, Steady \/ Fault,
           LinkRunning(p), Goes(p, r), InTurn(p, r),
           Fit(p, r, Marker), p = "unlock" => Unlocking(r, Marker)
    PROVE  Preserves
BY QuietTurn DEF LinkInv, Typed

(* A call fails, and nothing else has changed.                               *)
LEMMA QuietFails ==
    ASSUME LinkInv, NEW p \in Calls, Fails(p), LinkRunning(p), p = "unlock" => ~At(p, "publish"),
           UNCHANGED <<idn, disk, ram, sess, hint, ghost>>, Steady \/ Fault
    PROVE  Preserves
<1>1. PICK m : m = Marker OBVIOUS
<1>2. PICK r : r = Failed(p) OBVIOUS
<1>3. lcount'.ids \in Nat /\ lcount.ids <= lcount'.ids
  BY Counts DEF LinkInv, Typed, StoreTyped
<1>4. Turns(p) /\ IdnTyped' /\ GhostTyped' /\ KeepsRevoked BY <1>3, Quietly
<1>5. r \in LinkCalls /\ Goes(p, r) /\ InTurn(p, r) /\ LinkGoes(p, r)
  BY <1>2, FailedGoes DEF Fails
<1>6. Fit(p, r, m)' BY <1>2, <1>4, FailedFits DEF LinkInv, Typed
<1>7. p = "unlock" => Unlocking(r, m)' BY <1>2, <1>4, UnlockFails
<1>8. disk' = disk /\ ram' = ram /\ sess' = sess /\ hint' \in 0..MaxRev
  BY DEF LinkInv, Typed
<1> QED BY <1>1, <1>4, <1>5, <1>6, <1>7, <1>8, WorldGoes

-----------------------------------------------------------------------------
(* Steps that save. *)

(* A marker that the next write may hold. *)
Coming == [obs : Links, pending : SUBSET [id : 1 .. lcount.ids + 1, action : Closings],
           disc : 0 .. lcount.ids + 1]
(* It stands for the marker there is. *)
Supersedes(m) ==
    Marker # None =>
        /\ Latched(Marker) => Latched(m)
        /\ \A i \in Marker.pending :
             \/ i \in m.pending
             \/ i.action = "lock" /\ \E j \in m.pending : j.action = "logout"
             \/ Readable /\ i.id \in ghost.settled
Saves(m) == m \in Coming /\ OneOfAKind(m) /\ Latching(m) /\ Supersedes(m)

(* A marker that stands for the one there is covers what is stored.          *)
LEMMA SupersedesCovers ==
    ASSUME LinkInv, NEW m \in Coming, Supersedes(m)
    PROVE  Covers(m)
<1> SUFFICES ASSUME disk # None PROVE Covers(m)
  BY DEF Covers
<1>1. CASE ram = None BY <1>1 DEF Supersedes, Covers, Marker, Readable
<1>2. CASE ram # None
  <2>1. Marker = ram /\ Covers(ram) /\ ~Readable
    BY <1>2 DEF Marker, LinkInv, Retained, Readable
  <2>2. Latched(disk) => Latched(m) BY <1>2, <2>1 DEF Supersedes, Covers
  <2>3. \A i \in disk.pending :
             \/ i \in m.pending \/ i.id \in ghost.settled
             \/ i.action = "lock" /\ \E j \in m.pending : j.action = "logout"
    <3> TAKE i \in disk.pending
    <3>1. \A j \in ram.pending :
             \/ j \in m.pending
             \/ j.action = "lock" /\ \E k \in m.pending : k.action = "logout"
      BY <1>2, <2>1 DEF Supersedes
    <3>2. \/ i \in ram.pending \/ i.id \in ghost.settled
          \/ i.action = "lock" /\ \E j \in ram.pending : j.action = "logout"
      BY <2>1 DEF Covers
    <3> QED BY <3>1, <3>2
  <2> QED BY <2>2, <2>3 DEF Covers
<1> QED BY <1>1, <1>2

(* The marker that comes is a marker, once its closings have their names.    *)
LEMMA ComingTypes ==
    ASSUME LinkInv, NEW m \in Coming, lcount'.ids = Taken(m)
    PROVE  /\ m # None /\ m \in Markers' /\ lcount'.ids \in Nat /\ lcount.ids <= lcount'.ids
BY NoneIsNoMarker DEF LinkInv, Typed, StoreTyped, Coming, Taken, Intents, Ids, Markers, Links

(* A call saves m and goes on, or fails, and the invariant holds. *)
LEMMA SaveGoes ==
    ASSUME LinkInv, NEW p \in Calls, NEW r, NEW m, LinkSaves(p, m, r), Stores,
           Saves(m), Leaves(p, m), r \in LinkCalls, Ordered', Monitored',
           InTurn(p, r), Fit(p, r, m), p = "unlock" => Unlocking(r, m) /\ ~sess.open,
           ljob[p].at # "publish"
    PROVE  Preserves
<1>1. lcount'.ids = Taken(m) /\ lcount' \in [acts : Nat, peer : Nat, faults : Nat, ids : Nat]
  <2>1. PICK n : n = Taken(m) OBVIOUS
  <2>2. lcount \in [acts : Nat, peer : Nat, faults : Nat, ids : Nat] /\ n \in Nat
    BY <2>1 DEF LinkInv, Typed, StoreTyped, Taken
  <2>3. \/ lcount' = [lcount EXCEPT !.ids = n]
        \/ lcount' = [lcount EXCEPT !.ids = n, !.faults = @ + 1]
    BY <2>1 DEF LinkSaves, SavesOr
  <2>4. PICK c : c = lcount' OBVIOUS
  <2>5. ASSUME c = [lcount EXCEPT !.ids = n]
        PROVE  c \in [acts : Nat, peer : Nat, faults : Nat, ids : Nat] /\ c.ids = n
    BY <2>2, <2>5
  <2>6. ASSUME c = [lcount EXCEPT !.ids = n, !.faults = @ + 1]
        PROVE  c \in [acts : Nat, peer : Nat, faults : Nat, ids : Nat] /\ c.ids = n
    <3>1. PICK k : k = lcount.faults + 1 OBVIOUS
    <3>2. k \in Nat BY <2>2, <3>1
    <3>3. c = [lcount EXCEPT !.ids = n, !.faults = k] BY <2>6, <3>1
    <3> QED BY <2>2, <3>2, <3>3
  <2> QED BY <2>1, <2>3, <2>4, <2>5, <2>6
<1>2. /\ m # None /\ m \in Markers' /\ lcount'.ids \in Nat /\ lcount.ids <= lcount'.ids
  BY <1>1, ComingTypes DEF Saves
<1>3. /\ idn' = idn /\ ghost' = ghost /\ sess' = sess
      /\ hint' \in 0..MaxRev
  BY DEF Stores, LinkInv, Typed
<1>4. /\ Turns(p) /\ IdnTyped' /\ GhostTyped' /\ KeepsRevoked
      /\ Fit(p, r, m)' /\ (p = "unlock" => Unlocking(r, m)')
  BY <1>2, <1>3, Quietly
<1>5. EverRevoked => EverRevoked' BY <1>4 DEF Turns
<1>6. Covers(m) BY SupersedesCovers DEF Saves
<1>7. OneOfAKind(m) /\ Latching(m)' BY <1>5, LatchingStill DEF Saves
<1>8. Onward(p, m) BY <1>4 DEF Onward
<1>9. CASE disk' = m /\ ram' = None /\ LinkGoes(p, r)
  <2>1. Marker' = m BY <1>9 DEF Marker
  <2>2. StoreTyped' BY <1>1, <1>2, <1>7, <1>9 DEF StoreTyped, OneOfAKind
  <2>3. Retained' BY <1>9 DEF Retained
  <2>4. Revoking' BY <1>9, <1>7, <1>4 DEF Latching, Revoking, KeepsRevoked
  <2>5. LinkInv' BY <1>3, <1>4, <1>8, <1>9, <2>1, <2>2, <2>3, <2>4, OneJob
  <2>6. Kept BY <1>6, <1>9, <2>1 DEF Kept, Forgotten, Covers
  <2>7. Latched(disk) => Latched(m) BY <1>6 DEF Covers, Latched
  <2>8. Latched(ram) => Latched(m) BY DEF Saves, Supersedes, Latched, Marker
  <2>9. Sticks BY <1>9, <2>1, <2>7, <2>8 DEF Sticks
  <2> QED BY <2>5, <2>6, <2>9 DEF Preserves
<1>10. CASE disk' = disk /\ ram' = m /\ Fails(p)
  <2>1. Marker' = m BY <1>2, <1>10 DEF Marker
  <2>2. disk \in Markers' \cup {None}
    BY <1>2, Grow DEF LinkInv, Typed, StoreTyped
  <2>3. StoreTyped'
    BY <1>1, <1>2, <1>7, <1>10, <2>2 DEF StoreTyped, OneOfAKind, LinkInv, Typed
  <2>4. Retained' BY <1>3, <1>6, <1>10 DEF Retained, Covers, Latched
  <2>5. Revoking'
    <3>1. PICK d : d = disk OBVIOUS
    <3>2. Latching(d)' BY <1>5, <3>1, LatchingStill DEF LinkInv, Revoking
    <3>3. (Latching(ram) /\ Latching(disk))' BY <1>7, <1>10, <3>1, <3>2
    <3> QED BY <1>4, <3>3 DEF Revoking, KeepsRevoked
  <2>6. PICK f : f = Failed(p) OBVIOUS
  <2>7. f \in LinkCalls /\ InTurn(p, f) /\ LinkGoes(p, f)
    BY <1>10, <2>6, FailedGoes DEF Fails
  <2>8. Fit(p, f, m)' BY <1>4, <2>6, FailedFits DEF LinkInv, Typed
  <2>9. p = "unlock" => Unlocking(f, m)'
    BY <1>3, <1>4, <2>6, UnlockFails DEF At
  <2>10. LinkInv'
    BY <1>3, <1>4, <1>8, <2>1, <2>3, <2>4, <2>5, <2>7, <2>8, <2>9, OneJob
  <2>11. Kept BY <1>10 DEF Kept
  <2>12. Latched(ram) => Latched(m) BY DEF Saves, Supersedes, Latched, Marker
  <2>13. Sticks BY <1>10, <2>1, <2>12 DEF Sticks
  <2> QED BY <2>10, <2>11, <2>13 DEF Preserves
<1> QED BY <1>9, <1>10 DEF LinkSaves, SavesOr

(* A call that runs, saves. *)
LEMMA RunningSaves ==
    ASSUME LinkInv, NEW p \in Calls, NEW r, NEW m, LinkSaves(p, m, r), Stores,
           Saves(m), Leaves(p, m), r \in LinkCalls, LinkRunning(p), Goes(p, r),
           InTurn(p, r), Fit(p, r, m), p = "unlock" => Unlocking(r, m), ljob[p].at # "publish"
    PROVE  Preserves
<1>1. p = "unlock" => ~sess.open BY DEF LinkInv, Ordered
<1>2. PICK g : LinkGoes(p, g) /\ Goes(p, g)
  <2>1. PICK f : f = Failed(p) OBVIOUS
  <2>2. Goes(p, f) BY <2>1, FailedGoes
  <2> QED BY <2>1, <2>2 DEF LinkSaves, SavesOr, Fails
<1>3. sess' = sess BY DEF Stores
<1>4. Ordered' BY <1>2, <1>3, OrderedStill
<1>5. ljob'[p] = g /\ \A q \in Calls \ {p} : ljob'[q] = ljob[q]
  BY <1>2, JobsAfter DEF LinkInv, Typed
<1>6. Monitored'
  BY <1>2, <1>5, <1>3 DEF Goes, Live, Monitored, Calls, LinkRunning, Stores, At, LinkInv
<1> QED BY <1>1, <1>4, <1>6, SaveGoes

-----------------------------------------------------------------------------
(* The markers that are saved. *)

(* Every marker there is may come again.                                     *)
LEMMA Comes ==
    ASSUME LinkInv
    PROVE  /\ Markers \subseteq Coming /\ lcount.ids \in Nat
           /\ Intents \subseteq [id : 1 .. lcount.ids + 1, action : Closings]
BY DEF LinkInv, Typed, StoreTyped, Ids, Intents, Markers, Coming

(* The marker there is has its type, and one closing of a kind.              *)
LEMMA MarkerTyped ==
    ASSUME LinkInv, Marker # None
    PROVE  Marker \in Markers /\ OneOfAKind(Marker) /\ Latching(Marker)
BY DEF LinkInv, Typed, StoreTyped, Revoking, Marker

(* The marker there is may be saved once more.                               *)
LEMMA MarkerSaves ==
    ASSUME LinkInv, Marker # None
    PROVE  Saves(Marker)
BY Comes, MarkerTyped DEF Supersedes, Saves

(* A marker with the closings of the one there is leaves the same. *)
LEMMA SamePending ==
    ASSUME LinkInv, NEW p, NEW m, m # None, Marker # None => m.pending = Marker.pending,
           Marker = None => m.pending = {}
    PROVE  Leaves(p, m)
BY SameMarker DEF NoneLeft, Undenied, Denies, Posted, Stored, Leaves

(* An observation changes no closing, and latches a revocation. *)
LEMMA ObservingMarker ==
    ASSUME LinkInv, NEW d \in Markers, NEW l \in Links, NEW m, m = Observing(d, l)
    PROVE  /\ m \in Coming /\ m.pending = d.pending /\ m.obs \in {d.obs, l}
           /\ (Latched(d) => Latched(m)) /\ (m.disc # d.disc => m.obs.state = "revoked")
<1>1. /\ d.obs \in Links /\ d.pending \in SUBSET Intents /\ d.disc \in 0 .. lcount.ids
      /\ lcount.ids \in Nat
  BY MarkerTypes, Comes DEF Ids
<1>2. PICK o : o = IF l.rev <= d.obs.rev THEN d.obs ELSE l OBVIOUS
<1>3. PICK n : n = IF d.disc = 0 /\ o.state = "revoked" THEN lcount.ids + 1 ELSE d.disc
  OBVIOUS
<1>4. o \in Links /\ n \in 0 .. lcount.ids + 1 BY <1>1, <1>2, <1>3
<1>5. d \in Coming BY Comes
<1>6. m = [d EXCEPT !.obs = o, !.disc = n] BY <1>2, <1>3 DEF Observing
<1>7. m \in Coming BY <1>4, <1>5, <1>6 DEF Coming
<1>8. m.pending = d.pending /\ m.obs = o /\ m.disc = n
  BY <1>5, <1>6 DEF Coming
<1>9. m # None BY <1>1, <1>7, NoneIsNoMarker DEF Coming
<1> QED BY <1>1, <1>2, <1>3, <1>7, <1>8, <1>9 DEF Latched

(* To write an observation forgets no closing.                               *)
LEMMA ObservingSaves ==
    ASSUME LinkInv, Readable, disk # None, NEW l \in Links, l.state = "revoked" => EverRevoked,
           NEW m, m = Observing(disk, l)
    PROVE  Saves(m) /\ (\A p : Leaves(p, m)) /\ m.pending = disk.pending /\ m # None
BY MarkerTyped, ObservingMarker, Comes, NoneIsNoMarker, SamePending DEF Marker, Readable,
   OneOfAKind, Supersedes, Latching, Denies, Coming, Saves

(* Without the closing i that Identity carried out. *)
LEMMA SettlingSaves ==
    ASSUME LinkInv, Readable, disk # None, NEW o, Saves(o), o.pending = disk.pending,
           NEW i, i.id \in ghost.settled, i.action = "disconnect" => EverRevoked,
           NEW m, m = [o EXCEPT !.pending = @ \ {i}]
    PROVE  Saves(m) /\ m.pending = disk.pending \ {i} /\ m # None
<1>1. Marker = disk BY DEF Marker, Readable
<1>2. PICK s : s = o.pending \ {i} OBVIOUS
<1>3. m = [o EXCEPT !.pending = s] BY <1>2
<1>4. o \in Coming BY DEF Saves
<1>5. s \in SUBSET [id : 1 .. lcount.ids + 1, action : Closings]
  BY <1>2, <1>4 DEF Coming
<1>6. m \in Coming BY <1>3, <1>4, <1>5 DEF Coming
<1>7. m.pending = disk.pending \ {i} /\ m.obs = o.obs /\ m.disc = o.disc
  BY <1>2, <1>3, <1>4 DEF Coming
<1>8. o # None /\ m # None BY <1>4, <1>6, Comes, NoneIsNoMarker DEF Coming
<1>9. OneOfAKind(m) BY <1>7, <1>8 DEF Saves, OneOfAKind
<1>10. Latching(m) BY <1>7, <1>8 DEF Saves, Latching, Denies
<1>11. Supersedes(m) BY <1>7, <1>8, <1>1 DEF Saves, Supersedes, Latched
<1> QED BY <1>6, <1>7, <1>8, <1>9, <1>10, <1>11 DEF Saves

(* No other call has the closing i on its way to Identity, with effect. *)
NotPosted(p, i) ==
    \A q \in Calls \ {p} : At(q, "posted") /\ ljob[q].cur.action = "disconnect"
       /\ ljob[q].link.rev = idn.rev => ljob[q].cur # i
(* A settled closing leaves nothing behind that another call still needs.    *)
LEMMA SettlingLeaves ==
    ASSUME LinkInv, Readable, disk # None, NEW p \in Calls, NEW i, NEW m, m # None,
           m.pending = disk.pending \ {i}, NotPosted(p, i)
    PROVE  Leaves(p, m)
BY SameMarker DEF Marker, Readable, NoneLeft, Undenied, Denies, Posted, At, NotPosted, Stored,
   Leaves

-----------------------------------------------------------------------------
(* What a job may go on as. *)

(* A link that Identity told of. *)
Learnt(l) == l \in Links /\ l.rev <= idn.rev /\ (l.state = "revoked" => EverRevoked)

(* What a call reads of the link, or read before, Identity has told.         *)
LEMMA Learns ==
    ASSUME LinkInv
    PROVE  /\ Learnt(Link) /\ Learnt(Unobserved) /\ \A p \in Calls : Learnt(ljob[p].link)
           /\ Link.rev = idn.rev /\ Link.state = idn.state
BY Facts, NothingObserved, CallTypes DEF LinkInv, Typed, Learnt, Link, EverRevoked, Fits, Fit,
   AtHand, JobsTyped

(* What is known of the job of a call. *)
LEMMA Job ==
    ASSUME LinkInv, NEW p \in Calls, NEW c, c = ljob[p]
    PROVE  /\ c \in LinkCalls /\ Fit(p, c, Marker) /\ Learnt(c.link)
           /\ (p = "unlock" => Unlocking(c, Marker))
           /\ (LinkRunning(p) <=> c.at # "idle") /\ (Live(p) <=> c.live)
           /\ \A s : At(p, s) <=> c.at = s
BY Learns DEF LinkInv, Fits, Typed, JobsTyped, LinkRunning, Live, At

(* A call that goes to another step of its own. *)
LEMMA StepsOn ==
    ASSUME LinkInv, NEW p \in Calls \ {"monitor"}, NEW r, LinkRunning(p), r.live = ljob[p].live,
           r.at \notin {"idle", "record", "ack"}, r.at # "posted",
           p = "unlock" => Recorded \/ ljob[p].at \notin {"flush", "publish"}
    PROVE  Goes(p, r) /\ InTurn(p, r)
BY DEF LinkInv, Ordered, Recorded, Live, At, Calls, Goes, InTurn

(* A call that ends has nothing at hand.                                     *)
LEMMA EndsCall ==
    ASSUME LinkInv, NEW p \in Calls \ {"unlock"}, NEW m
    PROVE  LinkIdle \in LinkCalls /\ Goes(p, LinkIdle) /\ InTurn(p, LinkIdle) /\ Fit(p, LinkIdle, m)
BY IdleTyped, IdleFits DEF Goes, InTurn, LinkInv, Typed

(* A step that has nothing of the store at hand. *)
LEMMA PlainFit ==
    ASSUME LinkInv, NEW p \in Calls, NEW r, NEW m, Learnt(r.link),
           r.at \notin {"off", "observe", "posted", "ack", "reread", "sent", "clear", "act", "read",
                       "record"},
           p = "settings" => /\ r.live = ljob[p].live /\ r.action = ljob[p].action
                             /\ r.disc = ljob[p].disc
    PROVE  Fit(p, r, m)
BY DEF LinkInv, Fits, Fit, Clearing, AtHand, Learnt, Posted, Stored, Watches

(* An unlock that goes on to a plain step has nothing delivered.             *)
LEMMA PlainUnlocking ==
    ASSUME NEW r, NEW m, r.root = 0, r.locks = 0,
           r.at \in {"checkpoint", "authorize"} => NoneLeft(m)
    PROVE  Unlocking(r, m)
BY DEF Unlocking, Ready, Outlived

-----------------------------------------------------------------------------
(* flushSharedUnlockClosings. *)

(* A flush that has delivered everything. *)
LEMMA FlushedGoes ==
    ASSUME LinkInv, NEW p \in Flushers, ljob[p].at \in {"flush", "next"}, Current(p),
           Recorded \/ At(p, "next"), NEW m, NoneLeft(m), NEW r, r = Flushed(p)
    PROVE  /\ r \in LinkCalls /\ Goes(p, r) /\ InTurn(p, r) /\ Fit(p, r, m)
           /\ (p = "unlock" => Unlocking(r, m))
<1>1. PICK c : c = ljob[p] OBVIOUS
<1>2. p \in Calls \ {"monitor"} /\ c.live /\ LinkRunning(p)
  BY <1>1 DEF Flushers, Calls, Current, LinkRunning
<1>3. c \in LinkCalls /\ Fit(p, c, Marker) /\ Learnt(c.link) /\ (p = "unlock" => Unlocking(c, Marker))
  BY <1>1, <1>2, Job
<1>4. CASE p = "unlock"
  <2>1. PICK d : d = To(p, "checkpoint") OBVIOUS
  <2>2. d \in LinkCalls /\ d.at = "checkpoint" /\ d.live = c.live /\ d.root = c.root /\ d.locks = c.locks
    <3>1. "checkpoint" \in Steps /\ JobsTyped /\ p \in Calls
      BY <1>2 DEF Steps, LinkInv, Typed
    <3> QED BY <1>1, <2>1, <3>1, ToStep
  <2>3. PICK l \in Links : l = Unobserved BY NothingObserved
  <2>4. r = [d EXCEPT !.cur = None, !.link = l]
    BY <1>4, <2>1, <2>3 DEF Flushed
  <2>5. r \in LinkCalls BY <2>2, <2>4 DEF LinkCalls
  <2>6. r.at = d.at /\ r.live = d.live /\ r.root = d.root /\ r.locks = d.locks /\ r.link = l
    BY <2>2, <2>4 DEF LinkCalls
  <2>7. c.root = 0 /\ c.locks = 0 BY <1>1, <1>3, <1>4 DEF Unlocking
  <2>8. Goes(p, r) /\ InTurn(p, r) BY <1>1, <1>2, <2>2, <2>6, StepsOn DEF At
  <2>9. Fit(p, r, m) BY <1>2, <1>4, <2>2, <2>3, <2>6, Learns, PlainFit
  <2> QED BY <2>2, <2>5, <2>6, <2>7, <2>8, <2>9, PlainUnlocking
<1>5. CASE p = "close"
  BY <1>5, <1>2, FailedGoes, FailedJob, Learns, PlainFit DEF Flushed, LinkInv, Typed
<1>6. CASE p = "settings" /\ c.action = "disconnect"
  BY <1>1, <1>6, <1>2, EndsCall DEF Flushed
<1>7. CASE p = "settings" /\ c.action # "disconnect"
  <2>1. r = To(p, "reread") BY <1>1, <1>7 DEF Flushed
  <2>2. /\ r \in LinkCalls /\ r.at = "reread" /\ r.live = c.live /\ r.link = c.link
        /\ r.action = c.action /\ r.disc = c.disc
    <3>1. "reread" \in Steps /\ JobsTyped /\ p \in Calls
      BY <1>2 DEF Steps, LinkInv, Typed
    <3> QED BY <1>1, <2>1, <3>1, ToStep
  <2>3. Goes(p, r) /\ InTurn(p, r) BY <1>1, <1>2, <1>7, <2>2, StepsOn
  <2>4. r.action = "reconnect" /\ r.disc # 0
    BY <1>2, <1>3, <1>7, <2>2 DEF Fit, Clearing
  <2>5. AtHand(p, r) BY <1>3, <2>2 DEF AtHand, Learnt
  <2>6. Posted(r, m) /\ Stored(p, r, m) /\ Clearing(p, r, m)
    BY <1>7, <2>2, <2>4 DEF Posted, Stored, Clearing, Watches
  <2> QED BY <1>7, <2>2, <2>3, <2>5, <2>6 DEF Fit
<1> QED BY <1>4, <1>5, <1>6, <1>7 DEF Flushers

(* The flush starts, with what is pending or with nothing.                   *)
LEMMA FlushBeginHolds ==
    ASSUME LinkInv, NEW p \in Flushers, FlushBegin(p)
    PROVE  Preserves
<1>1. p \in Calls /\ At(p, "flush") /\ Current(p) /\ Recorded /\ LinkRunning(p) /\ Stores
  BY DEF FlushBegin, Flushers, Calls, At, LinkRunning
<1>2. CASE Marker = None /\ LinkGoes(p, Flushed(p)) /\ UNCHANGED <<disk, ram, lcount>>
  <2>1. PICK r : r = Flushed(p) OBVIOUS
  <2>2. /\ r \in LinkCalls /\ Goes(p, r) /\ InTurn(p, r) /\ Fit(p, r, Marker)
        /\ (p = "unlock" => Unlocking(r, Marker))
    BY <1>1, <1>2, <2>1, FlushedGoes DEF At, NoneLeft
  <2> QED BY <1>1, <1>2, <2>1, <2>2, QuietGoes DEF Stores, Steady
<1>3. CASE /\ Marker # None
           /\ LinkSaves(p, Marker, IF Marker.pending = {} THEN Flushed(p)
                              ELSE [To(p, "next") EXCEPT !.todo = Marker.pending])
  <2>1. PICK m : m = Marker OBVIOUS
  <2>2. Saves(m) /\ Leaves(p, m) /\ m \in Markers
    BY <1>3, <2>1, MarkerSaves, SameMarker, MarkerTyped
  <2>3. PICK r : r = IF m.pending = {} THEN Flushed(p) ELSE [To(p, "next") EXCEPT !.todo = m.pending]
    OBVIOUS
  <2>4. ljob[p].at # "publish" BY <1>1 DEF At
  <2>5. /\ r \in LinkCalls /\ Goes(p, r) /\ InTurn(p, r) /\ Fit(p, r, m)
        /\ (p = "unlock" => Unlocking(r, m))
    <3>1. CASE m.pending = {}
      BY <1>1, <2>3, <3>1, FlushedGoes DEF At, NoneLeft
    <3>2. CASE m.pending # {}
      <4>1. PICK c : c = ljob[p] OBVIOUS
      <4>2. c \in LinkCalls /\ Learnt(c.link) /\ (p = "unlock" => Unlocking(c, Marker)) /\ c.at = "flush"
        BY <1>1, <4>1, Job
      <4>3. PICK d : d = To(p, "next") OBVIOUS
      <4>4. d \in LinkCalls /\ d.at = "next" /\ d.live = c.live /\ d.root = c.root
            /\ d.locks = c.locks /\ d.link = c.link /\ d.action = c.action /\ d.disc = c.disc
        BY <1>1, <4>1, <4>3, ToStep DEF Steps, LinkInv, Typed, Flushers, Calls
      <4>5. PICK t : t = m.pending /\ t \in SUBSET Intents
        BY <2>2, MarkerTypes
      <4>6. r = [d EXCEPT !.todo = t] BY <2>3, <3>2, <4>3, <4>5
      <4>7. r \in LinkCalls BY <4>4, <4>5, <4>6 DEF LinkCalls
      <4>8. r.at = d.at /\ r.live = d.live /\ r.root = d.root /\ r.locks = d.locks
            /\ r.link = d.link /\ r.action = d.action /\ r.disc = d.disc
        BY <4>4, <4>6 DEF LinkCalls
      <4>9. Goes(p, r) /\ InTurn(p, r)
        BY <1>1, <4>1, <4>4, <4>8, StepsOn DEF Flushers
      <4>10. Fit(p, r, m) BY <1>1, <4>1, <4>2, <4>4, <4>8, PlainFit
      <4>11. p = "unlock" => Unlocking(r, m)
        BY <4>2, <4>4, <4>8, PlainUnlocking DEF Unlocking
      <4> QED BY <4>7, <4>9, <4>10, <4>11
    <3> QED BY <3>1, <3>2
  <2>6. LinkSaves(p, m, r) BY <1>3, <2>1, <2>3
  <2> QED BY <1>1, <2>2, <2>4, <2>5, <2>6, RunningSaves
<1> QED BY <1>2, <1>3 DEF FlushBegin

-----------------------------------------------------------------------------
(* Identity. *)

IdnRecords == [state : {"none", "locked", "active", "revoked"}, rev : 0..MaxRev,
               seq : Nat, inval : Nat, out : Nat, recon : Nat, on : BOOLEAN]

(* The link that moves on has the next revision, and keeps its barriers.     *)
LEMMA Moved ==
    ASSUME LinkInv, Room, NEW st \in {"locked", "active", "revoked"}, NEW i, i = Moves(idn, st)
    PROVE  /\ i \in IdnRecords /\ i.rev = idn.rev + 1 /\ i.state = st /\ i.seq = idn.seq
           /\ i.inval = idn.inval /\ i.out = idn.out /\ i.recon = idn.recon /\ i.on = idn.on
<1>1. idn \in IdnRecords /\ idn.rev \in Nat
  BY LinkAssumption DEF LinkInv, Typed, IdnTyped, IdnRecords
<1>2. PICK n : n = idn.rev + 1 OBVIOUS
<1>3. n \in 0..MaxRev BY <1>1, <1>2, LinkAssumption DEF Room, IdnRecords
<1>4. PICK j : j = idn OBVIOUS
<1>5. i = [j EXCEPT !.rev = n, !.state = st] BY <1>2, <1>4 DEF Moves
<1>6. j \in IdnRecords BY <1>1, <1>4
<1>7. i \in IdnRecords BY <1>3, <1>5, <1>6 DEF IdnRecords
<1>8. /\ i.rev = n /\ i.state = st /\ i.seq = j.seq
      /\ i.inval = j.inval /\ i.out = j.out /\ i.recon = j.recon /\ i.on = j.on
  BY <1>5, <1>6 DEF IdnRecords
<1> QED BY <1>2, <1>4, <1>7, <1>8

(* A closing ends every authorization so far. *)
LEMMA ClosedIdn ==
    ASSUME LinkInv, Room, NEW a \in Closings, NEW i, i = Closed(a)
    PROVE  /\ i \in IdnRecords /\ i.rev = idn.rev + 1 /\ i.seq = idn.seq + 1
           /\ i.inval = idn.seq + 1 /\ i.out \in {idn.out, idn.seq + 1}
           /\ i.recon = idn.recon /\ i.on = idn.on
           /\ i.state = IF a = "disconnect" \/ idn.state = "revoked" THEN "revoked" ELSE "locked"
<1>1. PICK st \in {"locked", "active", "revoked"} :
        st = IF "disconnect" = a \/ idn.state = "revoked" THEN "revoked" ELSE "locked"
  OBVIOUS
<1>2. PICK j : j = Moves(idn, st) OBVIOUS
<1>3. /\ j \in IdnRecords /\ j.rev = idn.rev + 1 /\ j.state = st /\ j.seq = idn.seq
      /\ j.inval = idn.inval /\ j.out = idn.out /\ j.recon = idn.recon /\ j.on = idn.on
  BY <1>2, Moved
<1>4. PICK n \in Nat : n = idn.seq + 1 BY Facts DEF LinkInv, Typed
<1>5. PICK o : o = IF a = "logout" THEN n ELSE j.out OBVIOUS
<1>6. o \in Nat BY <1>3, <1>5 DEF IdnRecords
<1>7. i = [j EXCEPT !.seq = n, !.inval = n, !.out = o]
  BY <1>1, <1>2, <1>3, <1>4, <1>5 DEF Closed
<1>8. i \in IdnRecords BY <1>3, <1>6, <1>7 DEF IdnRecords
<1>9. /\ i.rev = j.rev /\ i.state = st /\ i.seq = n /\ i.inval = n /\ i.out = o
      /\ i.recon = j.recon /\ i.on = j.on
  BY <1>3, <1>7 DEF IdnRecords
<1> QED BY <1>1, <1>3, <1>4, <1>5, <1>8, <1>9

(* Identity moves, and no call with it. *)
LEMMA WorldMoves ==
    ASSUME LinkInv, disk' = disk, ram' = ram, sess' = sess, ljob' = ljob, hint' \in 0..MaxRev,
           Steady \/ Fault \/ Act \/ PeerActs, IdnTyped', GhostTyped', KeepsRevoked, Turns("none")
    PROVE  Preserves
<1>1. /\ lcount' \in [acts : Nat, peer : Nat, faults : Nat, ids : Nat]
      /\ lcount'.ids = lcount.ids
  BY Counts
<1>2. StoreTyped' /\ Intents' = Intents /\ LinkCalls' = LinkCalls
  BY <1>1, StoreStill
<1>3. PICK m : m = Marker OBVIOUS
<1>4. Marker' = m /\ Kept /\ Sticks BY <1>3, Untouched
<1>5. Onward("none", m) BY <1>3, SameMarker DEF Onward
<1>6. Retained' /\ (EverRevoked => EverRevoked') BY RetainedStill DEF Turns
<1>7. Revoking'
  <2>1. PICK d : d = disk OBVIOUS
  <2>2. PICK e : e = ram OBVIOUS
  <2>3. Latching(d)' /\ Latching(e)'
    BY <1>6, <2>1, <2>2, LatchingStill DEF LinkInv, Revoking
  <2>4. (Latching(disk) /\ Latching(ram))' BY <2>1, <2>2, <2>3
  <2> QED BY <2>4 DEF Revoking, KeepsRevoked
<1>8. SessTyped' /\ JobsTyped'
  BY <1>2 DEF LinkInv, Typed, SessTyped, JobsTyped
<1>9. Ordered' BY DEF LinkInv, Ordered, LinkRunning, Live, At
<1>10. Shared' BY <1>4, <1>5, SharedStill
<1>11. Monitored' BY <1>5, MonitoredStill DEF LinkRunning
<1>12. ASSUME NEW q \in Calls PROVE Fit(q, ljob[q], Marker)'
  <2>1. PICK c : c = ljob[q] OBVIOUS
  <2>2. q \in Calls \ {"none"} BY DEF Calls
  <2>3. Fit(q, c, m)' BY <1>2, <1>5, <2>1, <2>2, FitStill
  <2> QED BY <1>4, <2>1, <2>3
<1>13. Unlocking(ljob["unlock"], Marker)'
  <2>1. PICK c : c = ljob["unlock"] OBVIOUS
  <2>2. Unlocking(c, m)' BY <1>5, <2>1, UnlockingStill
  <2> QED BY <1>4, <2>1, <2>2
<1>14. ASSUME NEW q \in Calls, NEW s \in Calls PROVE Acked(q, s)'
  BY LinkAssumption, CallTypes DEF LinkInv, Typed, IdnTyped, Turns, JobsTyped, Fits, Acked, At, Live
<1>15. LinkInv'
  BY <1>2, <1>6, <1>7, <1>8, <1>9, <1>10, <1>11, <1>12, <1>13, <1>14 DEF LinkInv, Typed, Fits
<1> QED BY <1>4, <1>15 DEF Preserves

(* What Identity does without a barrier of its own leaves every promise. *)
LEMMA Harmless ==
    ASSUME LinkInv, NEW p, IdnTyped', ghost' = ghost, lcount'.ids = lcount.ids,
           idn.rev <= idn'.rev, idn'.inval = idn.inval, idn'.out = idn.out,
           idn.recon <= idn'.recon, idn.state = "revoked" => idn'.state = "revoked" \/ idn'.recon > idn.rev,
           idn'.state = "revoked" => idn.state = "revoked", idn'.recon > idn.rev \/ idn'.recon = idn.recon
    PROVE  Turns(p) /\ GhostTyped' /\ KeepsRevoked
<1>1. /\ idn.rev \in Nat /\ idn.recon \in Nat /\ idn'.rev \in Nat /\ idn'.recon \in Nat
      /\ idn.inval \in Nat /\ ghost.cut \in Nat /\ ghost.cut <= idn.rev /\ lcount.ids \in Nat
  BY LinkAssumption DEF LinkInv, Typed, IdnTyped, GhostTyped, StoreTyped
<1>2. EverRevoked => EverRevoked' BY <1>1 DEF EverRevoked
<1>3. EverRevoked' => idn'.state = "revoked" \/ idn'.recon > idn.rev \/ EverRevoked
  BY <1>1 DEF EverRevoked
<1>4. idn'.recon > ghost.cut \/ idn'.recon = idn.recon BY <1>1
<1>5. idn'.recon > idn.rev => idn'.recon > ghost.cut BY <1>1
<1>6. KeepsRevoked
  BY <1>3, <1>4, <1>5, <1>2 DEF LinkInv, Revoking, KeepsRevoked
<1>7. \A q \in Calls \ {p} : At(q, "clear") /\ Live(q) => idn'.recon > ghost'.cut
  BY <1>4 DEF LinkInv, Fits, Fit, Clearing, At, Live
<1>8. GhostTyped' BY <1>1 DEF LinkInv, Typed, GhostTyped
<1>9. idn.inval <= idn'.inval /\ lcount.ids <= lcount'.ids BY <1>1
<1> QED BY <1>2, <1>6, <1>7, <1>8, <1>9 DEF Turns

(* A link that never reached Identity is created. *)
LEMMA CreatesLink ==
    ASSUME LinkInv, ~Exists, Room, idn' = Moves(idn, "locked"), UNCHANGED <<disk, ram, sess, ljob, ghost, hint>>,
           Steady
    PROVE  Preserves
<1>1. PICK i : i = Moves(idn, "locked") OBVIOUS
<1>2. /\ i \in IdnRecords /\ i.rev = idn.rev + 1 /\ i.state = "locked" /\ i.seq = idn.seq
      /\ i.inval = idn.inval /\ i.out = idn.out /\ i.recon = idn.recon /\ i.on = idn.on
  BY <1>1, Moved
<1>3. idn' = i BY <1>1
<1>4. idn.rev \in Nat /\ idn.recon \in Nat /\ idn.recon <= idn.rev /\ idn.state = "none"
      /\ idn.out <= idn.inval /\ idn.inval <= idn.seq
  BY LinkAssumption DEF LinkInv, Typed, IdnTyped, Exists
<1>5. IdnTyped' BY <1>2, <1>3, <1>4 DEF IdnTyped, IdnRecords
<1>6. Turns("none") /\ GhostTyped' /\ KeepsRevoked
  BY <1>2, <1>3, <1>4, <1>5, Harmless DEF Steady
<1>7. hint' \in 0..MaxRev /\ disk' = disk /\ ram' = ram /\ sess' = sess /\ ljob' = ljob
  BY DEF LinkInv, Typed
<1> QED BY <1>5, <1>6, <1>7, WorldMoves

(* A call that flushes is one that runs.                                     *)
LEMMA FlusherRuns ==
    ASSUME LinkInv, NEW p \in Flushers, NEW c, c = ljob[p], c.at \in Steps \ {"idle", "publish", "flush"},
           Current(p)
    PROVE  /\ p \in Calls /\ p # "monitor" /\ c \in LinkCalls /\ c.live /\ LinkRunning(p)
           /\ Fit(p, c, Marker) /\ Learnt(c.link) /\ (p = "unlock" => Unlocking(c, Marker))
           /\ (p = "unlock" => ~At("settings", "record"))
BY Job DEF Flushers, Calls, Current, LinkRunning, LinkInv, Ordered, Live, At

(* The snapshot is at its end: the flush is done, or has failed.             *)
LEMMA FlushEndHolds ==
    ASSUME LinkInv, NEW p \in Flushers, FlushEnd(p)
    PROVE  Preserves
<1>1. PICK c : c = ljob[p] OBVIOUS
<1>2. c.at = "next" /\ Current(p) /\ Readable /\ Stores /\ UNCHANGED <<disk, ram, lcount>>
  BY <1>1 DEF FlushEnd, At
<1>3. p \in Calls /\ c.live /\ LinkRunning(p)
  BY <1>1, <1>2, FlusherRuns DEF Steps
<1>4. CASE disk.pending = {} /\ LinkGoes(p, Flushed(p))
  <2>1. PICK r : r = Flushed(p) OBVIOUS
  <2>2. NoneLeft(Marker) BY <1>2, <1>4 DEF NoneLeft, Marker, Readable
  <2>3. /\ r \in LinkCalls /\ Goes(p, r) /\ InTurn(p, r) /\ Fit(p, r, Marker)
        /\ (p = "unlock" => Unlocking(r, Marker))
    BY <1>1, <1>2, <2>1, <2>2, FlushedGoes DEF At
  <2> QED BY <1>2, <1>3, <1>4, <2>1, <2>3, QuietGoes DEF Stores, Steady
<1>5. CASE LinkGoes(p, Failed(p))
  BY <1>1, <1>2, <1>3, <1>5, QuietFails DEF Stores, Steady, Fails, At
<1> QED BY <1>4, <1>5 DEF FlushEnd

(* A flush picks a closing of the snapshot and reads the link for it.        *)
LEMMA FlushReadHolds ==
    ASSUME LinkInv, NEW p \in Flushers, FlushRead(p)
    PROVE  Preserves
<1>1. PICK c : c = ljob[p] OBVIOUS
<1>2. c.at = "next" /\ Current(p) /\ Readable /\ Asks /\ Steady
  BY <1>1 DEF FlushRead, At
<1>3. /\ p \in Calls /\ p # "monitor" /\ c \in LinkCalls /\ c.live /\ LinkRunning(p)
      /\ Fit(p, c, Marker) /\ Learnt(c.link) /\ (p = "unlock" => Unlocking(c, Marker))
      /\ (p = "unlock" => ~At("settings", "record"))
  BY <1>1, <1>2, FlusherRuns DEF Steps
<1>4. p = "unlock" => c.root = 0 /\ c.locks = 0 BY <1>2, <1>3 DEF Unlocking
<1>5. PICK i \in c.todo :
         LET picks == [c EXCEPT !.todo = @ \ {i}, !.cur = i]
             created == idn.on /\ disk.obs = Unobserved /\ Room
         IN  IF ~Pending(i)
             THEN LinkGoes(p, [c EXCEPT !.todo = @ \ {i}]) /\ UNCHANGED <<idn, ghost>>
             ELSE IF SettledBySharingOff(i)
             THEN /\ LinkGoes(p, [picks EXCEPT !.at = "off"])
                  /\ ghost' = [ghost EXCEPT !.settled = @ \cup {i.id}]
                  /\ UNCHANGED idn
             ELSE /\ UNCHANGED ghost
                  /\ \/ /\ Exists /\ UNCHANGED idn
                        /\ LinkGoes(p, [picks EXCEPT !.at = "observe", !.link = Link])
                     \/ ~Exists /\ created /\ idn' = Moves(idn, "locked") /\ UNCHANGED ljob
                     \/ ~Exists /\ ~created /\ Fails(p) /\ UNCHANGED idn
  BY <1>1 DEF FlushRead
<1>6. PICK t : t = c.todo \ {i} OBVIOUS
<1>7. t \in SUBSET Intents /\ i \in Intents BY <1>3, <1>5, <1>6, CallTypes
<1>8. PICK k : k = [c EXCEPT !.todo = t, !.cur = i] OBVIOUS
<1>9. k \in LinkCalls BY <1>3, <1>7, <1>8 DEF LinkCalls
<1>10. /\ k.at = c.at /\ k.live = c.live /\ k.root = c.root /\ k.locks = c.locks /\ k.cur = i
       /\ k.link = c.link /\ k.disc = c.disc /\ k.action = c.action
  BY <1>3, <1>8 DEF LinkCalls
<1>11. Steady \/ Fault BY <1>2
<1>12. CASE LinkGoes(p, [c EXCEPT !.todo = @ \ {i}]) /\ UNCHANGED <<idn, ghost>>
  <2>1. PICK r : r = [c EXCEPT !.todo = t] OBVIOUS
  <2>2. LinkGoes(p, r) BY <1>6, <1>12, <2>1
  <2>3. r \in LinkCalls BY <1>3, <1>7, <2>1 DEF LinkCalls
  <2>4. /\ r.at = c.at /\ r.live = c.live /\ r.root = c.root /\ r.locks = c.locks
        /\ r.link = c.link /\ r.disc = c.disc /\ r.action = c.action
    BY <1>3, <2>1 DEF LinkCalls
  <2>5. Goes(p, r) /\ InTurn(p, r) BY <1>1, <1>2, <1>3, <2>4, StepsOn
  <2>6. Fit(p, r, Marker) BY <1>1, <1>2, <1>3, <2>4, PlainFit
  <2>7. p = "unlock" => Unlocking(r, Marker)
    BY <1>2, <1>4, <2>4, PlainUnlocking
  <2> QED BY <1>2, <1>3, <1>11, <1>12, <2>2, <2>3, <2>5, <2>6, <2>7, QuietGoes DEF Asks
<1>13. CASE /\ SettledBySharingOff(i) /\ LinkGoes(p, [k EXCEPT !.at = "off"]) /\ Pending(i)
            /\ ghost' = [ghost EXCEPT !.settled = @ \cup {i.id}] /\ UNCHANGED idn
  <2>1. PICK r : r = [k EXCEPT !.at = "off"] OBVIOUS
  <2>2. "off" \in Steps BY DEF Steps
  <2>3. r \in LinkCalls BY <1>9, <2>1, <2>2 DEF LinkCalls
  <2>4. /\ r.at = "off" /\ r.live = c.live /\ r.root = c.root /\ r.locks = c.locks /\ r.cur = i
        /\ r.link = c.link /\ r.disc = c.disc /\ r.action = c.action
    BY <1>9, <1>10, <2>1 DEF LinkCalls
  <2>5. Goes(p, r) /\ InTurn(p, r) BY <1>1, <1>2, <1>3, <2>4, StepsOn
  <2>6. PICK n : n = ghost.settled \cup {i.id} OBVIOUS
  <2>7. PICK g : g = ghost OBVIOUS
  <2>8. g \in [settled : SUBSET Nat, cut : Nat, known : Nat] /\ i.id \in Nat
    BY <1>7, <2>7, IntentTypes DEF LinkInv, Typed, GhostTyped
  <2>9. n \in SUBSET Nat BY <2>6, <2>7, <2>8
  <2>10. ghost' = [g EXCEPT !.settled = n] BY <1>13, <2>6, <2>7
  <2>11. ghost' \in [settled : SUBSET Nat, cut : Nat, known : Nat]
         /\ ghost'.settled = n /\ ghost'.cut = g.cut /\ ghost'.known = g.known
    BY <2>8, <2>9, <2>10
  <2>12. GhostTyped' BY <1>13, <2>7, <2>11 DEF LinkInv, Typed, GhostTyped
  <2>13. IdnTyped' /\ EverRevoked' = EverRevoked
    BY <1>13 DEF LinkInv, Typed, IdnTyped, EverRevoked
  <2>14. KeepsRevoked
    BY <1>13, <2>7, <2>11, <2>13 DEF LinkInv, Revoking, KeepsRevoked
  <2>15. Turns(p)
    BY <1>13, <2>7, <2>11, <1>2, LinkAssumption, <2>6, <2>13 DEF LinkInv, Fits, Fit, Clearing, At,
       Live, Steady, Typed, IdnTyped, StoreTyped, Turns
  <2>16. PICK m : m = Marker OBVIOUS
  <2>17. m # None BY <1>2, <1>13, <2>16 DEF Marker, Readable, Pending
  <2>18. Fit(p, r, m)'
    <3>1. AtHand(p, r)'
      BY <1>13, <2>4, <2>6, <2>11, <1>2, <1>7, <1>3, <2>13 DEF SettledBySharingOff, Intents, Ids,
         Steady, AtHand, Learnt
    <3>2. Posted(r, m)' /\ Stored(p, r, m)' BY <2>4, <2>17 DEF Posted, Stored
    <3>3. Clearing(p, r, m)'
      BY <1>2, <1>3, <1>13, <2>4, <2>13 DEF Clearing, Watches, Fit
    <3> QED BY <3>1, <3>2, <3>3 DEF Fit
  <2>19. p = "unlock" => Unlocking(r, m)'
    BY <1>4, <2>4 DEF Unlocking, Ready, Outlived
  <2>20. LinkGoes(p, r) /\ disk' = disk /\ ram' = ram /\ sess' = sess /\ hint' \in 0..MaxRev
    BY <1>2, <1>13, <2>1 DEF Asks, LinkInv, Typed
  <2> QED BY <1>3, <1>11, <2>3, <2>5, <2>12, <2>13, <2>14, <2>15, <2>16, <2>18, <2>19, <2>20, WorldGoes
<1>14. CASE LinkGoes(p, [k EXCEPT !.at = "observe", !.link = Link]) /\ UNCHANGED <<idn, ghost>> /\ Pending(i)
  <2>1. PICK l : l = Link OBVIOUS
  <2>2. Learnt(l) /\ "observe" \in Steps BY <2>1, Learns DEF Steps
  <2>3. PICK r : r = [k EXCEPT !.at = "observe", !.link = l] OBVIOUS
  <2>4. r \in LinkCalls BY <1>9, <2>2, <2>3 DEF LinkCalls, Learnt
  <2>5. /\ r.at = "observe" /\ r.live = c.live /\ r.root = c.root /\ r.locks = c.locks /\ r.cur = i
        /\ r.link = l /\ r.disc = c.disc /\ r.action = c.action
    BY <1>9, <1>10, <2>3 DEF LinkCalls
  <2>6. Goes(p, r) /\ InTurn(p, r) BY <1>1, <1>2, <1>3, <2>5, StepsOn
  <2>7. Marker # None BY <1>2, <1>14 DEF Marker, Readable, Pending
  <2>8. Fit(p, r, Marker)
    BY <1>7, <2>2, <2>5, <2>7, <1>2, <1>3 DEF AtHand, Learnt, Posted, Stored, Clearing, Watches, Fit
  <2>9. p = "unlock" => Unlocking(r, Marker) BY <1>4, <2>5, PlainUnlocking
  <2>10. LinkGoes(p, r) BY <1>14, <2>1, <2>3
  <2> QED BY <1>2, <1>3, <1>11, <1>14, <2>4, <2>6, <2>8, <2>9, <2>10, QuietGoes DEF Asks
<1>15. CASE ~Exists /\ Room /\ idn' = Moves(idn, "locked") /\ UNCHANGED ljob /\ UNCHANGED ghost
  BY <1>2, <1>15, CreatesLink DEF Asks
<1>16. CASE Fails(p) /\ UNCHANGED <<idn, ghost>>
  BY <1>1, <1>2, <1>3, <1>11, <1>16, QuietFails DEF Asks, At
<1> QED BY <1>5, <1>6, <1>8, <1>12, <1>13, <1>14, <1>15, <1>16

(* A call that is done with one closing turns to the next. *)
LEMMA NextGoes ==
    ASSUME LinkInv, NEW p \in Flushers, NEW c, c = ljob[p],
           c.at \in {"off", "observe", "ack"}, Current(p), NEW r, r = To(p, "next"), NEW m
    PROVE  /\ r \in LinkCalls /\ Goes(p, r) /\ InTurn(p, r) /\ Fit(p, r, m)
           /\ (p = "unlock" => Unlocking(r, m))
<1>1. /\ p \in Calls /\ p # "monitor" /\ c \in LinkCalls /\ c.live /\ LinkRunning(p)
      /\ Fit(p, c, Marker) /\ Learnt(c.link) /\ (p = "unlock" => Unlocking(c, Marker))
      /\ (p = "unlock" => ~At("settings", "record"))
  BY FlusherRuns DEF Steps
<1>2. "next" \in Steps /\ JobsTyped /\ p \in Calls
  BY <1>1 DEF Steps, LinkInv, Typed
<1>3. /\ r \in LinkCalls /\ r.at = "next" /\ r.live = c.live /\ r.root = c.root
      /\ r.locks = c.locks /\ r.link = c.link /\ r.disc = c.disc /\ r.action = c.action
  BY <1>2, ToStep
<1>4. Goes(p, r) /\ InTurn(p, r) BY <1>1, <1>3, StepsOn
<1>5. Fit(p, r, m) BY <1>1, <1>3, PlainFit
<1>6. p = "unlock" => Unlocking(r, m)
  BY <1>1, <1>3, PlainUnlocking DEF Unlocking
<1> QED BY <1>3, <1>4, <1>5, <1>6

(* A closing of a link that is off is settled with no request.               *)
LEMMA FlushOffHolds ==
    ASSUME LinkInv, NEW p \in Flushers, FlushOff(p)
    PROVE  Preserves
<1>1. PICK c : c = ljob[p] OBVIOUS
<1>2. c.at = "off" /\ Current(p) /\ Readable /\ Stores
  BY <1>1 DEF FlushOff, At
<1>3. p \in Calls /\ LinkRunning(p) /\ Fit(p, c, Marker)
  BY <1>1, <1>2, FlusherRuns DEF Steps
<1>4. PICK r : r = To(p, "next") OBVIOUS
<1>5. PICK m : m = [disk EXCEPT !.pending = @ \ {c.cur}] OBVIOUS
<1>6. LinkSaves(p, m, r) BY <1>1, <1>4, <1>5 DEF FlushOff
<1>7. disk # None /\ Marker = disk
  BY <1>2, <1>3 DEF Fit, Stored, Marker, Readable
<1>8. c.cur.id \in ghost.settled /\ c.cur.action # "disconnect"
  BY <1>2, <1>3 DEF Fit, AtHand
<1>9. Saves(disk) BY <1>7, MarkerSaves
<1>10. Saves(m) /\ m.pending = disk.pending \ {c.cur} /\ m # None
  BY <1>2, <1>5, <1>7, <1>8, <1>9, SettlingSaves
<1>11. Leaves(p, m)
  <2>1. NotPosted(p, c.cur) BY <1>8 DEF NotPosted
  <2> QED BY <1>2, <1>3, <1>7, <1>10, <2>1, SettlingLeaves
<1>12. /\ r \in LinkCalls /\ Goes(p, r) /\ InTurn(p, r) /\ Fit(p, r, m)
       /\ (p = "unlock" => Unlocking(r, m))
  BY <1>1, <1>2, <1>4, NextGoes
<1> QED BY <1>1, <1>2, <1>3, <1>6, <1>10, <1>11, <1>12, RunningSaves

(* An acknowledged closing is taken from the marker.                         *)
LEMMA FlushAckHolds ==
    ASSUME LinkInv, NEW p \in Flushers, FlushAck(p)
    PROVE  Preserves
<1>1. PICK c : c = ljob[p] OBVIOUS
<1>2. c.at = "ack" /\ Current(p) /\ Readable /\ Stores
  BY <1>1 DEF FlushAck, At
<1>3. p \in Calls /\ LinkRunning(p) /\ Fit(p, c, Marker) /\ Learnt(c.link) /\ c.live
  BY <1>1, <1>2, FlusherRuns DEF Steps
<1>4. PICK r : r = To(p, "next") OBVIOUS
<1>5. PICK o : o = Observing(disk, c.link) OBVIOUS
<1>6. PICK m : m = [o EXCEPT !.pending = @ \ {c.cur}] OBVIOUS
<1>7. LinkSaves(p, m, r) BY <1>1, <1>4, <1>5, <1>6 DEF FlushAck, Acknowledging
<1>8. disk # None /\ Marker = disk
  BY <1>2, <1>3 DEF Fit, Stored, Marker, Readable
<1>9. c.cur.id \in ghost.settled /\ (c.cur.action = "disconnect" => EverRevoked)
  BY <1>2, <1>3 DEF Fit, AtHand
<1>10. Saves(o) /\ o.pending = disk.pending
  BY <1>2, <1>3, <1>5, <1>8, ObservingSaves DEF Learnt
<1>11. Saves(m) /\ m.pending = disk.pending \ {c.cur} /\ m # None
  BY <1>2, <1>6, <1>8, <1>9, <1>10, SettlingSaves
<1>12. ASSUME NEW q \in Calls \ {p}, At(q, "posted")
       PROVE  ljob[q].link.rev < idn.rev
  BY <1>1, <1>2, <1>3, <1>12 DEF LinkInv, Fits, At, Live, Current, Captures, LinkRunning, Acked
<1>13. ASSUME NEW q \in Calls \ {p}, At(q, "posted")
       PROVE  ljob[q].link.rev # idn.rev
  BY LinkAssumption, CallTypes, <1>12, <1>13 DEF LinkInv, Typed, IdnTyped, JobsTyped
<1>14. Leaves(p, m)
  BY <1>13, <1>2, <1>3, <1>8, <1>11, SettlingLeaves DEF NotPosted
<1>15. /\ r \in LinkCalls /\ Goes(p, r) /\ InTurn(p, r) /\ Fit(p, r, m)
       /\ (p = "unlock" => Unlocking(r, m))
  BY <1>1, <1>2, <1>4, NextGoes
<1> QED BY <1>1, <1>2, <1>3, <1>7, <1>11, <1>14, <1>15, RunningSaves

(* A flush writes the link it observed before it posts.                      *)
LEMMA FlushObserveHolds ==
    ASSUME LinkInv, NEW p \in Flushers, FlushObserve(p)
    PROVE  Preserves
<1>1. PICK c : c = ljob[p] OBVIOUS
<1>2. c.at = "observe" /\ Current(p) /\ Readable /\ Stores
  BY <1>1 DEF FlushObserve, At
<1>3. /\ p \in Calls /\ p # "monitor" /\ c \in LinkCalls /\ c.live /\ LinkRunning(p)
      /\ Fit(p, c, Marker) /\ Learnt(c.link) /\ (p = "unlock" => Unlocking(c, Marker))
      /\ (p = "unlock" => ~At("settings", "record"))
  BY <1>1, <1>2, FlusherRuns DEF Steps
<1>4. PICK m : m = Observing(disk, c.link) OBVIOUS
<1>5. PICK r : r = IF Pending(c.cur) THEN To(p, "posted") ELSE To(p, "next")
  OBVIOUS
<1>6. LinkSaves(p, m, r) BY <1>1, <1>4, <1>5 DEF FlushObserve
<1>7. disk # None /\ Marker = disk
  BY <1>2, <1>3 DEF Fit, Stored, Marker, Readable
<1>8. Saves(m) /\ Leaves(p, m) /\ m.pending = disk.pending /\ m # None
  BY <1>2, <1>3, <1>4, <1>7, ObservingSaves DEF Learnt
<1>9. /\ r \in LinkCalls /\ Goes(p, r) /\ InTurn(p, r) /\ Fit(p, r, m)
      /\ (p = "unlock" => Unlocking(r, m))
  <2>1. CASE ~Pending(c.cur) BY <1>1, <1>2, <1>5, <2>1, NextGoes
  <2>2. CASE Pending(c.cur)
    <3>1. "posted" \in Steps /\ JobsTyped /\ r = To(p, "posted") /\ p \in Calls
      BY <1>3, <1>5, <2>2 DEF Steps, LinkInv, Typed
    <3>2. /\ r \in LinkCalls /\ r.at = "posted" /\ r.live = c.live /\ r.root = c.root
          /\ r.locks = c.locks /\ r.link = c.link /\ r.disc = c.disc /\ r.action = c.action
          /\ r.cur = c.cur
      BY <1>1, <3>1, ToStep
    <3>3. Goes(p, r) BY <1>1, <1>3, <3>2 DEF Goes, Live
    <3>4. ASSUME NEW q \in Calls \ {p}, <<q, p>> # <<"settings", "unlock">>, At(q, "ack"), Live(q)
          PROVE  FALSE
      BY <3>4, <1>1, <1>3, <1>2 DEF LinkInv, Fits, Fit, AtHand, At, LinkRunning, Ordered, Live,
         Flushers, Current, Captures
    <3>5. InTurn(p, r) BY <3>2, <3>4 DEF InTurn
    <3>6. Fit(p, r, m)
      BY <1>2, <1>3, <3>2, <1>8, <2>2 DEF AtHand, Fit, Posted, Stored, Pending, Clearing, Watches
    <3>7. p = "unlock" => Unlocking(r, m)
      BY <1>2, <1>3, <3>2, PlainUnlocking DEF Unlocking
    <3> QED BY <3>2, <3>3, <3>5, <3>6, <3>7
  <2> QED BY <2>1, <2>2
<1> QED BY <1>1, <1>2, <1>3, <1>6, <1>8, <1>9, RunningSaves

(* The server refuses a closing: its link has gone on.                       *)
LEMMA RefuseClosingHolds ==
    ASSUME LinkInv, NEW p \in Flushers, RefuseClosing(p)
    PROVE  Preserves
BY QuietFails DEF RefuseClosing, Flushers, Calls, At, LinkRunning, Asks

(* Identity carries a closing out: while one who watches the link is about    *)
(* to clear the latch, it is no disconnection.                               *)
LEMMA ServeClosingHolds ==
    ASSUME LinkInv, NEW p \in Flushers, ServeClosing(p)
    PROVE  Preserves
<1>1. PICK c : c = ljob[p] OBVIOUS
<1>2. /\ c.at = "posted" /\ idn.rev = c.link.rev /\ Room /\ Asks /\ p \in Calls /\ LinkRunning(p)
      /\ p # "monitor"
  BY <1>1 DEF ServeClosing, At, Flushers, Calls, LinkRunning
<1>3. /\ c \in LinkCalls /\ Fit(p, c, Marker) /\ Learnt(c.link)
      /\ (p = "unlock" => Unlocking(c, Marker))
  BY <1>1, <1>2, Job
<1>4. PICK a : a = c.cur OBVIOUS
<1>5. a \in Intents /\ a.id \in Nat /\ a.action \in Closings
  BY <1>2, <1>3, <1>4, IntentTypes DEF Fit, AtHand
<1>6. PICK i : i = Closed(a.action) OBVIOUS
<1>7. /\ i \in IdnRecords /\ i.rev = idn.rev + 1 /\ i.seq = idn.seq + 1
      /\ i.inval = idn.seq + 1 /\ i.out \in {idn.out, idn.seq + 1}
      /\ i.recon = idn.recon /\ i.on = idn.on
      /\ i.state = IF a.action = "disconnect" \/ idn.state = "revoked" THEN "revoked" ELSE "locked"
  BY <1>2, <1>5, <1>6, ClosedIdn
<1>8. idn' = i BY <1>1, <1>4, <1>6 DEF ServeClosing
<1>9. PICK g : g = ghost OBVIOUS
<1>10. g \in [settled : SUBSET Nat, cut : Nat, known : Nat] /\ g.cut <= idn.rev /\ g.known <= idn.inval
  BY <1>9 DEF LinkInv, Typed, GhostTyped
<1>11. /\ idn.rev \in Nat /\ idn.seq \in Nat /\ idn.inval \in Nat /\ idn.out \in Nat
       /\ idn.recon \in Nat /\ idn.recon <= idn.rev /\ idn.out <= idn.inval /\ idn.inval <= idn.seq
  BY Facts DEF LinkInv, Typed
<1>12. PICK n : n = g.settled \cup {a.id} OBVIOUS
<1>13. PICK k : k = IF a.action = "disconnect" THEN i.rev ELSE g.cut OBVIOUS
<1>14. n \in SUBSET Nat /\ k \in Nat /\ k <= i.rev
  BY <1>5, <1>7, <1>10, <1>11, <1>12, <1>13
<1>15. ghost' = [g EXCEPT !.settled = n, !.cut = k]
  BY <1>1, <1>4, <1>8, <1>9, <1>12, <1>13 DEF ServeClosing
<1>16. /\ ghost' \in [settled : SUBSET Nat, cut : Nat, known : Nat]
       /\ ghost'.settled = n /\ ghost'.cut = k /\ ghost'.known = g.known
  BY <1>10, <1>14, <1>15
<1>17. IdnTyped' BY <1>7, <1>8, <1>11 DEF IdnTyped, IdnRecords
<1>18. GhostTyped' BY <1>7, <1>8, <1>10, <1>11, <1>14, <1>16 DEF GhostTyped
<1>19. (EverRevoked => EverRevoked') /\ (a.action = "disconnect" => EverRevoked')
       /\ (a.action # "disconnect" => EverRevoked' = EverRevoked)
  BY <1>7, <1>8 DEF EverRevoked
<1>20. KeepsRevoked
  BY <1>9, <1>7, <1>8, <1>13, <1>16, <1>19 DEF LinkInv, Revoking, KeepsRevoked
<1>21. Turns(p)
  <2>1. a.action = "disconnect" => Marker # None /\ Denies(Marker)
    BY <1>2, <1>3, <1>4 DEF Fit, Posted, Denies
  <2>2. ASSUME NEW q \in Calls \ {p}, At(q, "clear"), Live(q)
        PROVE  idn'.recon > ghost'.cut
    <3>1. PICK d : d = ljob[q] OBVIOUS
    <3>2. d.at = "clear" /\ d.live /\ Clearing(q, d, Marker)
      BY <2>2, <3>1 DEF LinkInv, Fits, Fit, At, Live
    <3>3. Watches(q, d) /\ idn.recon > ghost.cut BY <3>2 DEF Clearing, Watches
    <3>4. a.action # "disconnect" BY <2>1, <3>2, <3>3 DEF Clearing, Undenied
    <3> QED BY <1>7, <1>8, <1>9, <1>13, <1>16, <3>3, <3>4
  <2>3. idn.rev <= idn'.rev /\ idn.inval <= idn'.inval /\ idn'.inval > ghost'.known
    BY <1>7, <1>8, <1>10, <1>11, <1>16
  <2>4. lcount.ids <= lcount'.ids
    BY Counts DEF ServeClosing, LinkInv, Typed, StoreTyped
  <2>5. ghost.settled \subseteq ghost'.settled /\ ghost'.known = ghost.known
    BY <1>9, <1>12, <1>16
  <2> QED BY <1>19, <2>2, <2>3, <2>4, <2>5 DEF Turns
<1>22. PICK m : m = Marker OBVIOUS
<1>23. disk' = disk /\ ram' = ram /\ sess' = sess /\ hint' \in 0..MaxRev /\ (Steady \/ Fault)
  BY <1>2 DEF Asks, ServeClosing, LinkInv, Typed
<1>24. CASE LinkGoes(p, [To(p, "ack") EXCEPT !.link = [rev |-> idn'.rev, state |-> idn'.state]])
  <2>1. PICK d : d = To(p, "ack") OBVIOUS
  <2>2. "ack" \in Steps /\ JobsTyped BY DEF Steps, LinkInv, Typed
  <2>3. /\ d \in LinkCalls /\ d.at = "ack" /\ d.live = c.live /\ d.root = c.root /\ d.cur = c.cur
        /\ d.locks = c.locks /\ d.disc = c.disc /\ d.action = c.action
    BY <1>1, <1>2, <2>1, <2>2, ToStep
  <2>4. PICK l : l = [rev |-> i.rev, state |-> i.state] OBVIOUS
  <2>5. l \in Links /\ l.rev = i.rev /\ l.state = i.state
    BY <1>7, <2>4 DEF Links, IdnRecords
  <2>6. PICK r : r = [d EXCEPT !.link = l] OBVIOUS
  <2>7. LinkGoes(p, r) BY <1>8, <1>24, <2>1, <2>4, <2>6
  <2>8. r \in LinkCalls BY <2>3, <2>5, <2>6 DEF LinkCalls
  <2>9. /\ r.at = "ack" /\ r.live = c.live /\ r.root = c.root /\ r.cur = a /\ r.link = l
        /\ r.locks = c.locks /\ r.disc = c.disc /\ r.action = c.action
    BY <1>4, <2>3, <2>6 DEF LinkCalls
  <2>10. Goes(p, r) BY <1>1, <1>2, <2>9 DEF LinkInv, Ordered, Live, At, Goes
  <2>11. InTurn(p, r)
    BY CallTypes, <1>7, <1>8, <1>11, <2>9 DEF LinkInv, Fits, Fit, AtHand, Typed, JobsTyped, InTurn
  <2>12. Fit(p, r, m)'
    <3>1. AtHand(p, r)'
      <4>1. r.cur \in Intents' BY <1>23, Counts, <1>5, <2>9 DEF Intents, Ids
      <4>2. a.id \in ghost'.settled /\ r.link.rev <= idn'.rev
        BY <1>7, <1>8, <1>11, <1>12, <1>16, <2>5, <2>9
      <4>3. r.link.state = "revoked" => EverRevoked'
        BY <1>8, <2>5, <2>9 DEF EverRevoked
      <4> QED BY <1>19, <2>9, <4>1, <4>2, <4>3 DEF AtHand
    <3>2. Posted(r, m)' /\ Stored(p, r, m)'
      BY <1>2, <1>3, <1>22, <2>9 DEF Posted, Stored, Fit
    <3>3. Clearing(p, r, m)'
      BY <1>2, <1>3, <2>9 DEF Clearing, Watches, Fit, Flushers
    <3> QED BY <3>1, <3>2, <3>3 DEF Fit
  <2>13. p = "unlock" => Unlocking(r, m)'
    BY <1>2, <1>3, <2>9 DEF Unlocking, Ready, Outlived
  <2> QED BY <1>2, <1>17, <1>18, <1>20, <1>21, <1>22, <1>23, <2>7, <2>8, <2>10, <2>11, <2>12, <2>13, WorldGoes
<1>25. CASE Fails(p)
  <2>1. PICK f : f = Failed(p) OBVIOUS
  <2>2. f \in LinkCalls /\ Goes(p, f) /\ InTurn(p, f) /\ LinkGoes(p, f)
    BY <1>2, <1>25, <2>1, FailedGoes DEF Fails
  <2>3. Fit(p, f, m)' BY <1>2, <1>17, <2>1, FailedFits DEF LinkInv, Typed
  <2>4. p = "unlock" => Unlocking(f, m)'
    BY <1>1, <1>2, <1>9, <1>16, <1>17, <1>18, <1>21, <1>23, <2>1, UnlockFails DEF At
  <2> QED BY <1>2, <1>17, <1>18, <1>20, <1>21, <1>22, <1>23, <2>2, <2>3, <2>4, WorldGoes
<1> QED BY <1>24, <1>25 DEF ServeClosing

-----------------------------------------------------------------------------
(* The unlock. *)

(* An unlock begins.                                                         *)
LEMMA LinkUnlockHolds ==
    ASSUME LinkInv, LinkUnlock
    PROVE  Preserves
<1>1. /\ sess.born # 0 /\ ~sess.open /\ ~LinkRunning("unlock") /\ ~LinkRunning("close") /\ Act
      /\ UNCHANGED <<idn, disk, ram, sess, hint, ghost>> /\ "unlock" \in Calls
  BY DEF LinkUnlock, Calls
<1>2. PICK r : r = Begins("flush", "none") OBVIOUS
<1>3. "flush" \in Steps /\ "none" \in Closings \cup {"none", "reconnect"}
  BY DEF Steps
<1>4. /\ r \in LinkCalls /\ r.at = "flush" /\ r.live /\ r.root = 0 /\ r.locks = 0
      /\ r.link = Unobserved
  BY <1>2, <1>3, BeginTyped
<1>5. LinkGoes("unlock", r) BY <1>2 DEF LinkUnlock
<1>6. ljob'["unlock"] = r /\ \A q \in Calls \ {"unlock"} : ljob'[q] = ljob[q]
  BY <1>1, <1>5, JobsAfter DEF LinkInv, Typed
<1>7. Ordered'
  BY <1>4, <1>6, <1>1 DEF LinkInv, Ordered, LinkRunning, Live, At, Calls
<1>8. Monitored' BY <1>4, <1>6 DEF Monitored, LinkRunning
<1>9. PICK m : m = Marker OBVIOUS
<1>10. InTurn("unlock", r) /\ Fit("unlock", r, m) /\ Unlocking(r, m)
  BY <1>1, <1>4, Learns, PlainFit, PlainUnlocking DEF InTurn
<1>11. lcount'.ids \in Nat /\ lcount.ids <= lcount'.ids
  BY <1>1, Counts DEF LinkInv, Typed, StoreTyped
<1>12. /\ Turns("unlock") /\ IdnTyped' /\ GhostTyped' /\ KeepsRevoked
       /\ Fit("unlock", r, m)' /\ Unlocking(r, m)'
  BY <1>1, <1>10, <1>11, Quietly
<1>13. hint' \in 0..MaxRev /\ disk' = disk /\ ram' = ram /\ sess' = sess
  BY <1>1 DEF LinkInv, Typed
<1> QED BY <1>1, <1>4, <1>5, <1>7, <1>8, <1>9, <1>10, <1>12, <1>13, WorldJob

(* What the barrier is when it is read, and what comes of it. *)
LEMMA ReadsBarrier ==
    ASSUME LinkInv, NEW n \in Nat, n <= idn.inval, ghost' = [ghost EXCEPT !.known = n]
    PROVE  /\ ghost' \in [settled : SUBSET Nat, cut : Nat, known : Nat]
           /\ ghost'.known = n /\ ghost'.cut = ghost.cut /\ ghost'.settled = ghost.settled
BY DEF LinkInv, Typed, GhostTyped

(* An unlock reads the checkpoint, or is refused.                            *)
LEMMA ReadCheckpointHolds ==
    ASSUME LinkInv, ReadCheckpoint
    PROVE  Preserves
<1>1. PICK c : c = ljob["unlock"] OBVIOUS
<1>2. /\ c.at = "checkpoint" /\ Current("unlock") /\ Readable /\ Asks /\ UNCHANGED <<idn, lcount>>
      /\ "unlock" \in Flushers /\ "unlock" \in Calls
  BY <1>1 DEF ReadCheckpoint, At, Flushers, Calls
<1>3. /\ c \in LinkCalls /\ c.live /\ LinkRunning("unlock") /\ Learnt(c.link) /\ Unlocking(c, Marker)
      /\ ~At("settings", "record")
  BY <1>1, <1>2, FlusherRuns DEF Steps
<1>4. c.root = 0 /\ c.locks = 0 /\ NoneLeft(Marker)
  BY <1>2, <1>3 DEF Unlocking, Ready
<1>5. PICK n \in Nat : n = idn.inval BY Facts DEF LinkInv, Typed
<1>6. /\ ghost' \in [settled : SUBSET Nat, cut : Nat, known : Nat]
      /\ ghost'.known = n /\ ghost'.cut = ghost.cut /\ ghost'.settled = ghost.settled
  BY <1>5, ReadsBarrier DEF ReadCheckpoint
<1>7. PICK k : k = Checkpoint OBVIOUS
<1>8. k \in Nat /\ (k # 0 => k = n /\ sess.born > idn.out)
  BY Facts, <1>5, <1>7 DEF LinkInv, Typed, SessTyped, Checkpoint, Ended
<1>9. PICK d : d = To("unlock", "authorize") OBVIOUS
<1>10. "authorize" \in Steps /\ JobsTyped BY DEF Steps, LinkInv, Typed
<1>11. /\ d \in LinkCalls /\ d.at = "authorize" /\ d.live = c.live /\ d.root = c.root
       /\ d.link = c.link
  BY <1>1, <1>2, <1>9, <1>10, ToStep
<1>12. PICK r : r = [d EXCEPT !.locks = k] OBVIOUS
<1>13. r \in LinkCalls BY <1>8, <1>11, <1>12 DEF LinkCalls
<1>14. r.at = "authorize" /\ r.live = c.live /\ r.root = 0 /\ r.locks = k /\ r.link = c.link
  BY <1>4, <1>11, <1>12 DEF LinkCalls
<1>15. LinkGoes("unlock", r) BY <1>7, <1>9, <1>12 DEF ReadCheckpoint
<1>16. Goes("unlock", r) /\ InTurn("unlock", r)
  BY <1>1, <1>2, <1>3, <1>14, StepsOn
<1>17. PICK m : m = Marker OBVIOUS
<1>18. lcount'.ids \in Nat /\ lcount.ids <= lcount'.ids /\ (Steady \/ Fault)
  BY <1>2 DEF Steady, LinkInv, Typed, StoreTyped
<1>19. IdnTyped' /\ EverRevoked' = EverRevoked
  BY <1>2 DEF LinkInv, Typed, IdnTyped, EverRevoked
<1>20. GhostTyped' BY <1>2, <1>5, <1>6, Facts DEF LinkInv, Typed, GhostTyped
<1>21. KeepsRevoked BY <1>2, <1>6, <1>19 DEF KeepsRevoked, LinkInv, Revoking
<1>22. Turns("unlock")
  BY <1>2, <1>6, Facts, <1>18, <1>19 DEF LinkInv, Fits, Fit, Clearing, At, Live, Typed, Turns
<1>23. Fit("unlock", r, m)'
  BY <1>2, <1>3, <1>14, PlainFit, <1>19 DEF Fit, AtHand, Posted, Stored, Clearing, Watches
<1>24. Unlocking(r, m)'
  BY <1>2, <1>4, <1>6, <1>8, <1>14, <1>17 DEF Unlocking, Ready, Outlived, NoneLeft, Asks
<1>25. disk' = disk /\ ram' = ram /\ sess' = sess /\ hint' \in 0..MaxRev
  BY <1>2 DEF Asks, LinkInv, Typed
<1> QED BY <1>2, <1>3, <1>13, <1>15, <1>16, <1>17, <1>18, <1>19, <1>20, <1>21, <1>22, <1>23, <1>24, <1>25, WorldGoes

(* Identity does not authorize the session.                                  *)
LEMMA NotAuthorizedHolds ==
    ASSUME LinkInv, NotAuthorized
    PROVE  Preserves
BY QuietFails DEF NotAuthorized, Calls, At, LinkRunning, Asks, Steady

(* The authorization is newer than every barrier so far. *)
LEMMA AuthorizeHolds ==
    ASSUME LinkInv, Authorize
    PROVE  Preserves
<1>1. PICK c : c = ljob["unlock"] OBVIOUS
<1>2. /\ c.at = "authorize" /\ Current("unlock") /\ Asks
      /\ "unlock" \in Flushers /\ "unlock" \in Calls
  BY <1>1 DEF Authorize, At, Flushers, Calls
<1>3. /\ c \in LinkCalls /\ c.live /\ LinkRunning("unlock") /\ Learnt(c.link) /\ Unlocking(c, Marker)
      /\ ~At("settings", "record")
  BY <1>1, <1>2, FlusherRuns DEF Steps
<1>4. c.root = 0 /\ NoneLeft(Marker) BY <1>2, <1>3 DEF Unlocking, Ready
<1>5. PICK i : i = idn OBVIOUS
<1>6. /\ i \in IdnRecords /\ i.rev \in Nat /\ i.seq \in Nat /\ i.inval \in Nat /\ i.out \in Nat
      /\ i.recon \in Nat /\ i.out <= i.inval /\ i.inval <= i.seq /\ i.recon <= i.rev
  BY <1>5, Facts DEF LinkInv, Typed, IdnTyped, IdnRecords
<1>7. PICK n \in Nat : n = i.seq + 1 BY <1>6
<1>8. idn' = [i EXCEPT !.seq = n] BY <1>5, <1>7 DEF Authorize
<1>9. /\ idn' \in IdnRecords /\ idn'.rev = i.rev /\ idn'.state = i.state /\ idn'.seq = n
      /\ idn'.inval = i.inval /\ idn'.out = i.out /\ idn'.recon = i.recon
  BY <1>6, <1>8 DEF IdnRecords
<1>10. IdnTyped' /\ EverRevoked' = EverRevoked
  BY <1>5, <1>6, <1>7, <1>9 DEF IdnTyped, IdnRecords, EverRevoked
<1>11. PICK m : m = Marker OBVIOUS
<1>12. disk' = disk /\ ram' = ram /\ sess' = sess /\ hint' \in 0..MaxRev /\ (Steady \/ Fault)
  BY <1>2 DEF Asks, Authorize, LinkInv, Typed
<1>13. lcount'.ids = lcount.ids /\ lcount.ids \in Nat /\ lcount.ids <= lcount'.ids
  BY <1>12, Counts DEF LinkInv, Typed, StoreTyped
<1>14. CASE /\ LinkGoes("unlock", [To("unlock", "publish") EXCEPT !.root = idn.seq + 1, !.locks = 0])
            /\ ghost' = [ghost EXCEPT !.known = idn.inval]
  <2>1. PICK b \in Nat : b = idn.inval BY <1>5, <1>6
  <2>2. /\ ghost' \in [settled : SUBSET Nat, cut : Nat, known : Nat]
        /\ ghost'.known = b /\ ghost'.cut = ghost.cut /\ ghost'.settled = ghost.settled
    BY <1>14, <2>1, ReadsBarrier
  <2>3. PICK d : d = To("unlock", "publish") OBVIOUS
  <2>4. "publish" \in Steps /\ JobsTyped BY DEF Steps, LinkInv, Typed
  <2>5. /\ d \in LinkCalls /\ d.at = "publish" /\ d.live = c.live /\ d.link = c.link
    BY <1>1, <1>2, <2>3, <2>4, ToStep
  <2>6. PICK r : r = [d EXCEPT !.root = n, !.locks = 0] OBVIOUS
  <2>7. r \in LinkCalls BY <2>5, <2>6 DEF LinkCalls
  <2>8. r.at = "publish" /\ r.live = c.live /\ r.root = n /\ r.locks = 0 /\ r.link = c.link
    BY <2>5, <2>6 DEF LinkCalls
  <2>9. LinkGoes("unlock", r) BY <1>5, <1>7, <1>14, <2>3, <2>6
  <2>10. Goes("unlock", r) /\ InTurn("unlock", r)
    BY <1>1, <1>2, <1>3, <2>8, StepsOn
  <2>11. GhostTyped'
    BY <1>5, <1>6, <1>9, <2>1, <2>2 DEF LinkInv, Typed, GhostTyped
  <2>12. KeepsRevoked
    BY <1>5, <1>9, <1>10, <2>2 DEF KeepsRevoked, LinkInv, Revoking
  <2>13. Turns("unlock")
    BY <1>5, <1>9, <2>2, <1>6, <1>10, <1>13 DEF LinkInv, Fits, Fit, Clearing, At, Live, Turns
  <2>14. Fit("unlock", r, m)'
    BY <1>2, <1>3, <2>8, PlainFit, <1>5, <1>9, <1>10 DEF Fit, AtHand, Posted, Stored, Clearing,
       Watches
  <2>15. Unlocking(r, m)'
    BY <1>5, <1>6, <1>7, <2>1, <2>2, <1>4, <1>11, <2>8 DEF Unlocking, Ready, Outlived, NoneLeft
  <2> QED BY <1>2, <1>3, <1>10, <1>11, <1>12, <2>7, <2>9, <2>10, <2>11, <2>12, <2>13, <2>14, <2>15, WorldGoes
<1>15. CASE Fails("unlock") /\ Fault /\ UNCHANGED ghost
  <2>1. Turns("unlock") /\ GhostTyped' /\ KeepsRevoked
    BY <1>5, <1>6, <1>9, <1>10, <1>13, <1>15, Harmless
  <2>2. PICK f : f = Failed("unlock") OBVIOUS
  <2>3. f \in LinkCalls /\ Goes("unlock", f) /\ InTurn("unlock", f) /\ LinkGoes("unlock", f)
    BY <1>2, <1>15, <2>2, FailedGoes DEF Fails
  <2>4. Fit("unlock", f, m)'
    BY <1>2, <1>10, <2>2, FailedFits DEF LinkInv, Typed
  <2>5. Unlocking(f, m)'
    BY <1>1, <1>2, <1>10, <1>12, <1>15, <2>1, <2>2, UnlockFails DEF At
  <2> QED BY <1>2, <1>3, <1>10, <1>11, <1>12, <2>1, <2>3, <2>4, <2>5, WorldGoes
<1> QED BY <1>14, <1>15 DEF Authorize

-----------------------------------------------------------------------------
(* The source of an unlock. *)

(* A call that only comes and goes. *)
LEMMA QuietEnds ==
    ASSUME LinkInv, NEW p \in Calls \ {"unlock"}, LinkGoes(p, LinkIdle), LinkRunning(p),
           UNCHANGED <<idn, disk, ram, sess, hint, ghost>>, Steady \/ Fault
    PROVE  Preserves
<1>1. PICK r : r = LinkIdle OBVIOUS
<1>2. r \in LinkCalls /\ Goes(p, r) /\ InTurn(p, r) /\ Fit(p, r, Marker) /\ LinkGoes(p, r)
  BY <1>1, EndsCall
<1> QED BY <1>2, QuietGoes

(* A call that writes an observation and ends keeps the invariant.           *)
LEMMA ObservesAndEnds ==
    ASSUME LinkInv, NEW p \in Calls \ {"unlock"}, Readable, disk # None, LinkRunning(p), Stores,
           ljob[p].at # "publish", LinkSaves(p, Observing(disk, ljob[p].link), LinkIdle)
    PROVE  Preserves
<1>1. PICK m : m = Observing(disk, ljob[p].link) OBVIOUS
<1>2. Learnt(ljob[p].link) BY Learns
<1>3. Saves(m) /\ Leaves(p, m) BY <1>1, <1>2, ObservingSaves DEF Learnt
<1>4. PICK r : r = LinkIdle OBVIOUS
<1>5. r \in LinkCalls /\ Goes(p, r) /\ InTurn(p, r) /\ Fit(p, r, m)
  BY <1>4, EndsCall
<1>6. LinkSaves(p, m, r) BY <1>1, <1>4
<1> QED BY <1>3, <1>5, <1>6, RunningSaves

(* What a source, or a monitor, has at hand as long as it posts nothing.     *)
LEMMA BesideFit ==
    ASSUME NEW p \in {"source", "monitor"}, NEW r, NEW m, Learnt(r.link),
           r.at \notin {"off", "posted", "ack", "clear"},
           r.at \in {"observe", "act", "read"} => m # None
    PROVE  Fit(p, r, m)
BY DEF AtHand, Learnt, Flushers, Fit, Posted, Stored, Clearing, Watches

(* A call that begins while neither an unlock nor a closing runs. *)
LEMMA BeginsBeside ==
    ASSUME LinkInv, NEW p \in Calls \ {"unlock", "close"}, Captures, NEW r, LinkGoes(p, r), sess' = sess,
           idn' = idn, ghost' = ghost,
           r.at # "record", r.at = "idle" => ~r.live,
           p = "reconnect" => ~At("settings", "record")
    PROVE  Ordered' /\ (p # "monitor" => Monitored')
BY JobsAfter DEF LinkInv, Typed, Captures, LinkRunning, Calls, Ordered, Live, At, Monitored

(* A source of the link begins.                                              *)
LEMMA PrepareLinkHolds ==
    ASSUME LinkInv, PrepareLink
    PROVE  Preserves
<1>1. /\ Captures /\ UNCHANGED <<idn, disk, ram, sess, hint, lcount, ghost>>
      /\ "source" \in Calls \ {"unlock", "close"} /\ Steady
  BY DEF PrepareLink, Calls, Steady
<1>2. PICK d : d = Begins("ensure", "none") OBVIOUS
<1>3. "ensure" \in Steps /\ "none" \in Closings \cup {"none", "reconnect"}
  BY DEF Steps
<1>4. d \in LinkCalls /\ d.at = "ensure" /\ d.live /\ d.link = Unobserved
  BY <1>2, <1>3, BeginTyped
<1>5. PICK n \in Nat : n = sess.root BY DEF LinkInv, Typed, SessTyped
<1>6. PICK r : r = [d EXCEPT !.root = n] OBVIOUS
<1>7. r \in LinkCalls BY <1>4, <1>6 DEF LinkCalls
<1>8. r.at = "ensure" /\ r.link = Unobserved BY <1>4, <1>6 DEF LinkCalls
<1>9. LinkGoes("source", r) BY <1>2, <1>5, <1>6 DEF PrepareLink
<1>10. Ordered' /\ Monitored' BY <1>1, <1>8, <1>9, BeginsBeside
<1>11. PICK m : m = Marker OBVIOUS
<1>12. Fit("source", r, m) /\ InTurn("source", r)
  BY <1>8, Learns, BesideFit DEF InTurn
<1>13. lcount'.ids \in Nat /\ lcount.ids <= lcount'.ids
  BY <1>1 DEF LinkInv, Typed, StoreTyped
<1>14. /\ Turns("source") /\ IdnTyped' /\ GhostTyped' /\ KeepsRevoked /\ Fit("source", r, m)'
  BY <1>1, <1>12, <1>13, Quietly
<1>15. hint' \in 0..MaxRev /\ disk' = disk /\ ram' = ram /\ sess' = sess
  BY <1>1 DEF LinkInv, Typed
<1> QED BY <1>1, <1>7, <1>9, <1>10, <1>11, <1>12, <1>14, <1>15, WorldJob

(* What a source of the link is known to have while it runs.                 *)
LEMMA SourceRuns ==
    ASSUME LinkInv, NEW c, c = ljob["source"], c.at # "idle"
    PROVE  /\ "source" \in Calls /\ "source" \in Calls \ {"monitor"} /\ "source" \in Calls \ {"unlock"}
           /\ c \in LinkCalls /\ Learnt(c.link) /\ LinkRunning("source") /\ JobsTyped
           /\ Fit("source", c, Marker)
BY Job DEF Calls, LinkInv, Typed

(* A source of the link flushed, and goes on to the link.                    *)
LEMMA EnsureLinkHolds ==
    ASSUME LinkInv, EnsureLink
    PROVE  Preserves
<1>1. PICK c : c = ljob["source"] OBVIOUS
<1>2. c.at = "ensure" /\ Readable /\ Stores BY <1>1 DEF EnsureLink, At
<1>3. /\ "source" \in Calls \ {"monitor"} /\ c \in LinkCalls /\ Learnt(c.link) /\ LinkRunning("source")
  BY <1>1, <1>2, SourceRuns
<1>4. PICK m : m = IF disk = None THEN Fresh ELSE disk OBVIOUS
<1>5. Saves(m) /\ Leaves("source", m) /\ m # None
  <2>1. CASE disk # None
    BY <1>2, <1>4, <2>1, MarkerSaves, SameMarker DEF Marker, Readable
  <2>2. CASE disk = None
    <3>1. PICK u \in Links : u = Unobserved /\ u.state = "none"
      BY NothingObserved
    <3>2. m = [obs |-> u, pending |-> {}, disc |-> 0]
      BY <1>4, <2>2, <3>1 DEF Fresh
    <3>3. Marker = None BY <1>2, <2>2 DEF Marker, Readable
    <3>4. m \in Coming /\ m.pending = {} /\ m.obs = u /\ m.disc = 0
      BY <3>1, <3>2, Comes DEF Coming
    <3>5. m # None BY <3>4, Comes, NoneIsNoMarker DEF Coming
    <3>6. Saves(m)
      BY <3>1, <3>3, <3>4 DEF Saves, OneOfAKind, Latching, Supersedes
    <3>7. Leaves("source", m) BY <3>3, <3>4, <3>5, SamePending
    <3> QED BY <3>5, <3>6, <3>7
  <2> QED BY <2>1, <2>2
<1>6. PICK r : r = To("source", "read") OBVIOUS
<1>7. r \in LinkCalls /\ r.at = "read" /\ r.live = c.live /\ r.link = c.link
  BY <1>1, <1>6, ToStep DEF Steps, Calls, LinkInv, Typed
<1>8. Goes("source", r) /\ InTurn("source", r) BY <1>1, <1>3, <1>7, StepsOn
<1>9. Fit("source", r, m) BY <1>3, <1>5, <1>7, BesideFit
<1>10. LinkSaves("source", m, r) BY <1>4, <1>6 DEF EnsureLink
<1> QED BY <1>1, <1>2, <1>3, <1>5, <1>7, <1>8, <1>9, <1>10, RunningSaves

(* A source of the link reads it, or creates it.                             *)
LEMMA ReadOrCreateLinkHolds ==
    ASSUME LinkInv, ReadOrCreateLink
    PROVE  Preserves
<1>1. PICK c : c = ljob["source"] OBVIOUS
<1>2. c.at = "read" /\ Readable /\ Asks /\ UNCHANGED <<lcount, ghost>> /\ Steady
  BY <1>1 DEF ReadOrCreateLink, At, Steady
<1>3. /\ "source" \in Calls \ {"monitor"} /\ c \in LinkCalls /\ Learnt(c.link) /\ LinkRunning("source")
      /\ "source" \in Calls \ {"unlock"}
  BY <1>1, <1>2, SourceRuns
<1>4. CASE /\ Admissible /\ UNCHANGED idn
           /\ LinkGoes("source", [To("source", "observe") EXCEPT !.link = Link])
  <2>1. PICK d : d = To("source", "observe") OBVIOUS
  <2>2. d \in LinkCalls /\ d.at = "observe" /\ d.live = c.live
    BY <1>1, <2>1, ToStep DEF Steps, Calls, LinkInv, Typed
  <2>3. PICK l : l = Link OBVIOUS
  <2>4. Learnt(l) BY <2>3, Learns
  <2>5. PICK r : r = [d EXCEPT !.link = l] OBVIOUS
  <2>6. r \in LinkCalls BY <2>2, <2>4, <2>5 DEF LinkCalls, Learnt
  <2>7. r.at = "observe" /\ r.live = c.live /\ r.link = l
    BY <2>2, <2>5 DEF LinkCalls
  <2>8. LinkGoes("source", r) BY <1>4, <2>1, <2>3, <2>5
  <2>9. Goes("source", r) /\ InTurn("source", r) BY <1>1, <1>3, <2>7, StepsOn
  <2>10. Marker # None BY <1>2, <1>4 DEF Admissible, Marker, Readable
  <2>11. Fit("source", r, Marker) BY <2>4, <2>7, <2>10, BesideFit
  <2> QED BY <1>2, <1>3, <1>4, <2>6, <2>8, <2>9, <2>11, QuietGoes DEF Asks
<1>5. CASE ~Exists /\ Room /\ idn' = Moves(idn, "locked") /\ UNCHANGED ljob
  BY <1>2, <1>5, CreatesLink DEF Asks
<1>6. CASE LinkGoes("source", LinkIdle) /\ UNCHANGED idn
  BY <1>2, <1>3, <1>6, QuietEnds DEF Asks
<1> QED BY <1>4, <1>5, <1>6 DEF ReadOrCreateLink

(* A source of the link writes the link it observed.                         *)
LEMMA ObserveLinkHolds ==
    ASSUME LinkInv, ObserveLink
    PROVE  Preserves
<1>1. PICK c : c = ljob["source"] OBVIOUS
<1>2. c.at = "observe" /\ Readable /\ Stores /\ disk # None
  BY <1>1 DEF ObserveLink, At
<1>3. /\ "source" \in Calls \ {"monitor"} /\ c \in LinkCalls /\ Learnt(c.link) /\ LinkRunning("source")
  BY <1>1, <1>2, SourceRuns
<1>4. PICK m : m = Observing(disk, c.link) OBVIOUS
<1>5. Saves(m) /\ Leaves("source", m) /\ m # None
  BY <1>2, <1>3, <1>4, ObservingSaves DEF Learnt
<1>6. PICK r : r = To("source", "activate") OBVIOUS
<1>7. r \in LinkCalls /\ r.at = "activate" /\ r.live = c.live /\ r.link = c.link
  BY <1>1, <1>6, ToStep DEF Steps, Calls, LinkInv, Typed
<1>8. Goes("source", r) /\ InTurn("source", r) BY <1>1, <1>3, <1>7, StepsOn
<1>9. Fit("source", r, m) BY <1>3, <1>5, <1>7, BesideFit
<1>10. LinkSaves("source", m, r) BY <1>1, <1>4, <1>6 DEF ObserveLink
<1> QED BY <1>1, <1>2, <1>3, <1>5, <1>7, <1>8, <1>9, <1>10, RunningSaves

(* A source of the link asks to activate it.                                 *)
LEMMA SendActivationHolds ==
    ASSUME LinkInv, SendActivation
    PROVE  Preserves
<1>1. PICK c : c = ljob["source"] OBVIOUS
<1>2. c.at = "activate" /\ Stores /\ UNCHANGED <<disk, ram, lcount>> /\ Steady
  BY <1>1 DEF SendActivation, At, Steady
<1>3. /\ "source" \in Calls \ {"monitor"} /\ c \in LinkCalls /\ Learnt(c.link) /\ LinkRunning("source")
      /\ "source" \in Calls \ {"unlock"}
  BY <1>1, <1>2, SourceRuns
<1>4. CASE LinkGoes("source", To("source", "sent"))
  <2>1. PICK r : r = To("source", "sent") OBVIOUS
  <2>2. r \in LinkCalls /\ r.at = "sent" /\ r.live = c.live /\ r.link = c.link
    BY <1>1, <2>1, ToStep DEF Steps, Calls, LinkInv, Typed
  <2>3. Goes("source", r) /\ InTurn("source", r) BY <1>1, <1>3, <2>2, StepsOn
  <2>4. Fit("source", r, Marker) BY <1>3, <2>2, BesideFit
  <2> QED BY <1>2, <1>3, <1>4, <2>1, <2>2, <2>3, <2>4, QuietGoes DEF Stores
<1>5. CASE LinkGoes("source", LinkIdle)
  BY <1>2, <1>3, <1>5, QuietEnds DEF Stores
<1> QED BY <1>4, <1>5 DEF SendActivation

(* The server refuses to activate the link.                                  *)
LEMMA RefuseActivationHolds ==
    ASSUME LinkInv, RefuseActivation
    PROVE  Preserves
BY SourceRuns, QuietEnds DEF RefuseActivation, At, Asks

(* A source of the link writes that it is active.                            *)
LEMMA ObserveActiveHolds ==
    ASSUME LinkInv, ObserveActive
    PROVE  Preserves
BY SourceRuns, ObservesAndEnds DEF ObserveActive, At

(* The server activates the link.                                            *)
LEMMA ServeActivationHolds ==
    ASSUME LinkInv, ServeActivation
    PROVE  Preserves
<1>1. PICK c : c = ljob["source"] OBVIOUS
<1>2. c.at = "sent" /\ Asks /\ ghost' = ghost /\ Room /\ idn.state # "revoked" /\ (Steady \/ Fault)
  BY <1>1 DEF ServeActivation, At, Activates
<1>3. /\ "source" \in Calls \ {"monitor"} /\ c \in LinkCalls /\ LinkRunning("source")
      /\ "source" \in Calls \ {"unlock"}
  BY <1>1, <1>2, SourceRuns
<1>4. PICK i : i = Moves(idn, "active") OBVIOUS
<1>5. /\ i \in IdnRecords /\ i.rev = idn.rev + 1 /\ i.state = "active" /\ i.seq = idn.seq
      /\ i.inval = idn.inval /\ i.out = idn.out /\ i.recon = idn.recon /\ i.on = idn.on
  BY <1>2, <1>4, Moved
<1>6. idn' = i BY <1>4 DEF ServeActivation
<1>7. /\ idn.rev \in Nat /\ idn.recon \in Nat /\ idn.recon <= idn.rev
      /\ idn.out <= idn.inval /\ idn.inval <= idn.seq
  BY Facts DEF LinkInv, Typed
<1>8. IdnTyped' BY <1>5, <1>6, <1>7 DEF IdnTyped, IdnRecords
<1>9. lcount'.ids = lcount.ids BY <1>2, Counts
<1>10. Turns("source") /\ GhostTyped' /\ KeepsRevoked
  BY <1>2, <1>5, <1>6, <1>7, <1>8, <1>9, Harmless
<1>11. PICK m : m = Marker OBVIOUS
<1>12. disk' = disk /\ ram' = ram /\ sess' = sess /\ hint' \in 0..MaxRev
  BY <1>2 DEF Asks, LinkInv, Typed
<1>13. PICK r : /\ LinkGoes("source", r) /\ r \in LinkCalls
                /\ Goes("source", r) /\ InTurn("source", r) /\ Fit("source", r, m)'
  <2>1. CASE LinkGoes("source", [To("source", "active") EXCEPT !.link = [rev |-> idn'.rev, state |-> "active"]])
    <3>1. PICK d : d = To("source", "active") OBVIOUS
    <3>2. d \in LinkCalls /\ d.at = "active" /\ d.live = c.live
      BY <1>1, <3>1, ToStep DEF Steps, Calls, LinkInv, Typed
    <3>3. PICK l : l = [rev |-> i.rev, state |-> "active"] OBVIOUS
    <3>4. l \in Links /\ l.rev = i.rev /\ l.state = "active"
      BY <1>5, <3>3 DEF Links, IdnRecords
    <3>5. PICK r : r = [d EXCEPT !.link = l] OBVIOUS
    <3>6. r \in LinkCalls BY <3>2, <3>4, <3>5 DEF LinkCalls
    <3>7. r.at = "active" /\ r.live = c.live /\ r.link = l
      BY <3>2, <3>5 DEF LinkCalls
    <3>8. LinkGoes("source", r) BY <1>6, <2>1, <3>1, <3>3, <3>5
    <3>9. Goes("source", r) /\ InTurn("source", r)
      BY <1>1, <1>3, <3>7, StepsOn
    <3>10. Fit("source", r, m)'
      BY <1>5, <1>6, <1>7, <3>4, <3>7 DEF AtHand, Fit, Posted, Stored, Clearing, Watches
    <3> QED BY <3>6, <3>8, <3>9, <3>10
  <2>2. CASE LinkGoes("source", LinkIdle)
    <3>1. PICK f : f = Failed("source") OBVIOUS
    <3>2. f = LinkIdle BY <3>1 DEF Failed
    <3>3. f \in LinkCalls /\ Goes("source", f) /\ InTurn("source", f)
      BY <1>3, <3>1, FailedGoes
    <3>4. Fit("source", f, m)'
      BY <1>3, <1>8, <3>1, FailedFits DEF LinkInv, Typed
    <3> QED BY <2>2, <3>2, <3>3, <3>4
  <2> QED BY <2>1, <2>2 DEF ServeActivation
<1> QED BY <1>2, <1>3, <1>8, <1>10, <1>11, <1>12, <1>13, WorldGoes

(* Every step of a source of the link.                                       *)
LEMMA SourceHolds ==
    ASSUME LinkInv, Source
    PROVE  Preserves
BY PrepareLinkHolds, EnsureLinkHolds, ReadOrCreateLinkHolds, ObserveLinkHolds,
   SendActivationHolds, ServeActivationHolds, RefuseActivationHolds, ObserveActiveHolds DEF Source

-----------------------------------------------------------------------------
(* The settings. *)

(* A call begins while neither an unlock nor a closing runs. *)
LEMMA QuietBegins ==
    ASSUME LinkInv, NEW p \in Calls \ {"unlock", "close"}, Captures, NEW r, LinkGoes(p, r),
           r \in LinkCalls, UNCHANGED <<idn, disk, ram, sess, hint, ghost>>, Steady \/ Act,
           r.at \notin {"idle", "record", "posted", "ack"}, Fit(p, r, Marker),
           p = "reconnect" => ~At("settings", "record"), p = "monitor" => Monitored'
    PROVE  Preserves
<1>1. PICK m : m = Marker OBVIOUS
<1>2. Ordered' /\ Monitored' BY BeginsBeside
<1>3. lcount'.ids \in Nat /\ lcount.ids <= lcount'.ids
  BY Counts DEF LinkInv, Typed, StoreTyped
<1>4. /\ Turns(p) /\ IdnTyped' /\ GhostTyped' /\ KeepsRevoked /\ Fit(p, r, m)'
  BY <1>1, <1>3, Quietly
<1>5. InTurn(p, r) BY DEF InTurn
<1>6. hint' \in 0..MaxRev /\ disk' = disk /\ ram' = ram /\ sess' = sess
  BY DEF LinkInv, Typed
<1> QED BY <1>1, <1>2, <1>4, <1>5, <1>6, WorldJob

(* The settings begin to reconnect.                                          *)
LEMMA ReconnectHolds ==
    ASSUME LinkInv, Reconnect
    PROVE  Preserves
<1>1. /\ Captures /\ UNCHANGED <<idn, disk, ram, sess, hint, ghost>> /\ Act
      /\ "settings" \in Calls \ {"unlock", "close"} /\ disk # None /\ disk.disc # 0
  BY DEF Reconnect, Calls
<1>2. PICK d : d = Begins("flush", "reconnect") OBVIOUS
<1>3. "flush" \in Steps /\ "reconnect" \in Closings \cup {"none", "reconnect"}
  BY DEF Steps
<1>4. d \in LinkCalls /\ d.at = "flush" /\ d.live /\ d.link = Unobserved /\ d.action = "reconnect"
  BY <1>2, <1>3, BeginTyped
<1>5. PICK n \in Nat : n = disk.disc /\ n # 0
  BY <1>1, MarkerTypes DEF LinkInv, Typed, StoreTyped
<1>6. PICK r : r = [d EXCEPT !.disc = n] OBVIOUS
<1>7. r \in LinkCalls BY <1>4, <1>6 DEF LinkCalls
<1>8. r.at = "flush" /\ r.link = Unobserved /\ r.live /\ r.action = "reconnect" /\ r.disc = n
  BY <1>4, <1>6 DEF LinkCalls
<1>9. LinkGoes("settings", r) BY <1>2, <1>5, <1>6 DEF Reconnect
<1>10. Fit("settings", r, Marker)
  BY <1>8, Learns, <1>5 DEF AtHand, Learnt, Clearing, Watches, Fit, Posted, Stored
<1> QED BY <1>1, <1>7, <1>8, <1>9, <1>10, QuietBegins

(* What the settings are known to have while they run.                       *)
LEMMA SettingsRun ==
    ASSUME LinkInv, NEW c, c = ljob["settings"], c.at # "idle"
    PROVE  /\ "settings" \in Calls /\ "settings" \in Calls \ {"monitor"}
           /\ "settings" \in Calls \ {"unlock"}
           /\ c \in LinkCalls /\ Learnt(c.link) /\ LinkRunning("settings") /\ JobsTyped
           /\ Fit("settings", c, Marker)
BY Job DEF Calls, LinkInv, Typed

(* The settings read the revoked link.                                       *)
LEMMA ReadRevokedHolds ==
    ASSUME LinkInv, ReadRevoked
    PROVE  Preserves
<1>1. PICK c : c = ljob["settings"] OBVIOUS
<1>2. /\ c.at = "reread" /\ Readable /\ c.live /\ Steady
      /\ UNCHANGED <<idn, disk, ram, sess, hint, ghost>>
  BY <1>1 DEF ReadRevoked, At, Current, Steady, Asks
<1>3. /\ "settings" \in Calls \ {"monitor"} /\ c \in LinkCalls /\ LinkRunning("settings")
      /\ "settings" \in Calls \ {"unlock"} /\ Fit("settings", c, Marker)
  BY <1>1, <1>2, SettingsRun
<1>4. CASE LinkGoes("settings", LinkIdle) BY <1>2, <1>3, <1>4, QuietEnds
<1>5. ASSUME NEW s \in {"sent", "clear"}, s = "clear" => idn.state # "revoked",
             disk # None, disk.disc = c.disc, disk.pending = {},
             LinkGoes("settings", [To("settings", s) EXCEPT !.link = Link])
      PROVE  Preserves
  <2>1. PICK d : d = To("settings", s) OBVIOUS
  <2>2. d \in LinkCalls /\ d.at = s /\ d.live = c.live /\ d.action = c.action /\ d.disc = c.disc
    BY <1>1, <2>1, ToStep DEF Steps, Calls, LinkInv, Typed
  <2>3. PICK l : l = Link OBVIOUS
  <2>4. Learnt(l) BY <2>3, Learns
  <2>5. PICK r : r = [d EXCEPT !.link = l] OBVIOUS
  <2>6. r \in LinkCalls BY <2>2, <2>4, <2>5 DEF LinkCalls, Learnt
  <2>7. r.at = s /\ r.live = c.live /\ r.link = l /\ r.action = c.action /\ r.disc = c.disc
    BY <2>2, <2>5 DEF LinkCalls
  <2>8. LinkGoes("settings", r) BY <1>5, <2>1, <2>3, <2>5
  <2>9. Goes("settings", r) /\ InTurn("settings", r)
    BY <1>1, <1>3, <2>7, StepsOn
  <2>10. Marker = disk BY <1>2 DEF Marker, Readable
  <2>11. c.action = "reconnect" /\ c.disc # 0 BY <1>2, <1>3 DEF Fit, Clearing
  <2>12. Undenied(Marker) /\ EverRevoked
    BY <1>5, <2>10, <2>11 DEF Denies, LinkInv, Revoking, Latching, Undenied
  <2>13. s = "clear" => idn.recon > ghost.cut
    BY <1>5, <2>12 DEF LinkInv, Revoking
  <2>14. Fit("settings", r, Marker)
    BY <2>4, <2>7, <2>11, <2>12, <2>13 DEF AtHand, Learnt, Clearing, Fit, Posted, Stored
  <2> QED BY <1>2, <1>3, <2>6, <2>8, <2>9, <2>14, QuietGoes
<1>6. CASE LinkGoes("settings", [To("settings", "sent") EXCEPT !.link = Link])
           /\ disk # None /\ disk.disc = c.disc /\ disk.pending = {}
  BY <1>5, <1>6
<1>7. CASE LinkGoes("settings", [To("settings", "clear") EXCEPT !.link = Link])
           /\ disk # None /\ disk.disc = c.disc /\ disk.pending = {} /\ idn.state # "revoked"
  BY <1>5, <1>7
<1> QED BY <1>1, <1>4, <1>6, <1>7 DEF ReadRevoked

(* Identity connects the link again. *)
LEMMA ComesBack ==
    ASSUME LinkInv, NEW p, Room, ghost' = ghost, Steady \/ Fault \/ Act \/ PeerActs,
           idn' = [Moves(idn, "locked") EXCEPT !.recon = idn.rev + 1]
    PROVE  /\ IdnTyped' /\ GhostTyped' /\ KeepsRevoked /\ Turns(p)
           /\ idn'.rev = idn.rev + 1 /\ idn'.state = "locked" /\ idn'.recon = idn.rev + 1
           /\ idn'.rev \in 0..MaxRev
<1>1. PICK i : i = Moves(idn, "locked") OBVIOUS
<1>2. /\ i \in IdnRecords /\ i.rev = idn.rev + 1 /\ i.state = "locked" /\ i.seq = idn.seq
      /\ i.inval = idn.inval /\ i.out = idn.out
  BY <1>1, Moved
<1>3. /\ idn.rev \in Nat /\ idn.recon \in Nat /\ idn.recon <= idn.rev
      /\ idn.out <= idn.inval /\ idn.inval <= idn.seq
  BY Facts DEF LinkInv, Typed
<1>4. PICK n \in Nat : n = idn.rev + 1 BY <1>3
<1>5. PICK j : j = [i EXCEPT !.recon = n] OBVIOUS
<1>6. j \in IdnRecords BY <1>2, <1>5 DEF IdnRecords
<1>7. /\ j.rev = n /\ j.state = "locked" /\ j.seq = idn.seq /\ j.inval = idn.inval
      /\ j.out = idn.out /\ j.recon = n
  BY <1>2, <1>4, <1>5 DEF IdnRecords
<1>8. idn' = j BY <1>1, <1>4, <1>5
<1>9. IdnTyped' BY <1>3, <1>6, <1>7, <1>8 DEF IdnTyped, IdnRecords
<1>10. lcount'.ids = lcount.ids BY Counts
<1>11. Turns(p) /\ GhostTyped' /\ KeepsRevoked
  <2>1. /\ idn.rev <= idn'.rev /\ idn'.inval = idn.inval /\ idn'.out = idn.out
        /\ idn.recon <= idn'.recon /\ idn'.recon > idn.rev /\ idn'.state # "revoked"
    BY ONLY <1>3, <1>4, <1>7, <1>8
  <2>2. /\ idn.state = "revoked" => idn'.state = "revoked" \/ idn'.recon > idn.rev
        /\ idn'.state = "revoked" => idn.state = "revoked"
        /\ idn'.recon > idn.rev \/ idn'.recon = idn.recon
    BY <2>1
  <2>3. LinkInv /\ ghost' = ghost OBVIOUS
  <2> QED BY ONLY <1>9, <1>10, <2>1, <2>2, <2>3, Harmless
<1>12. idn'.rev \in 0..MaxRev BY <1>6, <1>8 DEF IdnRecords
<1> QED BY <1>4, <1>7, <1>8, <1>9, <1>11, <1>12

(* The server reconnects the link.                                           *)
LEMMA ServeReconnectHolds ==
    ASSUME LinkInv, ServeReconnect
    PROVE  Preserves
<1>1. PICK c : c = ljob["settings"] OBVIOUS
<1>2. c.at = "sent" /\ Asks /\ ghost' = ghost /\ Room /\ (Steady \/ Fault)
      /\ idn' = [Moves(idn, "locked") EXCEPT !.recon = idn.rev + 1]
  BY <1>1 DEF ServeReconnect, At
<1>3. /\ "settings" \in Calls \ {"monitor"} /\ c \in LinkCalls /\ LinkRunning("settings")
      /\ "settings" \in Calls \ {"unlock"} /\ Fit("settings", c, Marker)
  BY <1>1, <1>2, SettingsRun
<1>4. /\ IdnTyped' /\ GhostTyped' /\ KeepsRevoked /\ Turns("settings")
      /\ idn'.rev = idn.rev + 1 /\ idn'.state = "locked" /\ idn'.recon = idn.rev + 1
      /\ idn'.rev \in 0..MaxRev
  BY <1>2, ComesBack
<1>5. idn.rev \in Nat /\ ghost'.cut \in Nat /\ ghost'.cut <= idn.rev
  BY <1>2, Facts DEF LinkInv, Typed, GhostTyped
<1>6. PICK m : m = Marker OBVIOUS
<1>7. disk' = disk /\ ram' = ram /\ sess' = sess /\ hint' \in 0..MaxRev
  BY <1>2 DEF Asks, LinkInv, Typed
<1>8. PICK r : /\ LinkGoes("settings", r) /\ r \in LinkCalls
               /\ Goes("settings", r) /\ InTurn("settings", r) /\ Fit("settings", r, m)'
  <2>1. CASE LinkGoes("settings", [To("settings", "clear") EXCEPT
                                   !.link = [rev |-> idn'.rev, state |-> idn'.state]])
    <3>1. PICK d : d = To("settings", "clear") OBVIOUS
    <3>2. d \in LinkCalls /\ d.at = "clear" /\ d.live = c.live /\ d.action = c.action
          /\ d.disc = c.disc
      BY <1>1, <3>1, ToStep DEF Steps, Calls, LinkInv, Typed
    <3>3. PICK l : l = [rev |-> idn'.rev, state |-> idn'.state] OBVIOUS
    <3>4. l \in Links /\ l.rev = idn'.rev /\ l.state = "locked"
      BY <1>4, <3>3 DEF Links
    <3>5. PICK r : r = [d EXCEPT !.link = l] OBVIOUS
    <3>6. r \in LinkCalls BY <3>2, <3>4, <3>5 DEF LinkCalls
    <3>7. r.at = "clear" /\ r.live = c.live /\ r.link = l /\ r.action = c.action /\ r.disc = c.disc
      BY <3>2, <3>5 DEF LinkCalls
    <3>8. LinkGoes("settings", r) BY <2>1, <3>1, <3>3, <3>5
    <3>9. Goes("settings", r) /\ InTurn("settings", r)
      BY <1>1, <1>3, <3>7, StepsOn
    <3>10. Fit("settings", r, m)'
      BY <1>4, <1>5, <3>4, <3>7, <1>2, <1>3, <1>6 DEF AtHand, Fit, Clearing, Watches, Undenied,
         Denies, Posted, Stored
    <3> QED BY <3>6, <3>8, <3>9, <3>10
  <2>2. CASE LinkGoes("settings", LinkIdle)
    <3>1. PICK f : f = Failed("settings") OBVIOUS
    <3>2. f = LinkIdle BY <3>1 DEF Failed
    <3>3. f \in LinkCalls /\ Goes("settings", f) /\ InTurn("settings", f)
      BY <1>3, <3>1, FailedGoes
    <3>4. Fit("settings", f, m)'
      BY <1>3, <1>4, <3>1, FailedFits DEF LinkInv, Typed
    <3> QED BY <2>2, <3>2, <3>3, <3>4
  <2> QED BY <2>1, <2>2 DEF ServeReconnect
<1> QED BY <1>2, <1>3, <1>4, <1>6, <1>7, <1>8, WorldGoes

(* The server refuses to reconnect the link.                                 *)
LEMMA RefuseReconnectHolds ==
    ASSUME LinkInv, RefuseReconnect
    PROVE  Preserves
BY SettingsRun, QuietEnds DEF RefuseReconnect, At, Asks

-----------------------------------------------------------------------------
(* The latch is cleared. *)

(* Who clears the latch is live, finds no denial, and saw the link come back. *)
LEMMA Clearer ==
    ASSUME LinkInv, NEW p \in {"settings", "reconnect"}, NEW c, c = ljob[p], c.at = "clear",
           Current(p)
    PROVE  /\ p \in Calls \ {"unlock"} /\ p \in Calls \ {"unlock", "close"}
           /\ c \in LinkCalls /\ Learnt(c.link) /\ LinkRunning(p)
           /\ c.live /\ Undenied(Marker) /\ idn.recon > ghost.cut /\ Captures
BY Job DEF Calls, Current, Live, Fit, Clearing, Watches

(* The marker of acknowledgeReconnect, with the latch d. *)
LEMMA ReconnectingMarker ==
    ASSUME LinkInv, disk # None, Readable, NEW l, Learnt(l), NEW d \in {0, disk.disc},
           NEW m, m = [Observing(disk, l) EXCEPT !.disc = d]
    PROVE  /\ m \in Markers /\ m # None /\ m.pending = disk.pending /\ m.obs \in {disk.obs, l}
           /\ m.disc = d /\ OneOfAKind(m) /\ Latching(m)
<1>1. disk \in Markers /\ OneOfAKind(disk) /\ Latching(disk) /\ l \in Links
  BY DEF LinkInv, Typed, StoreTyped, Revoking, Learnt
<1>2. PICK o : o = Observing(disk, l) OBVIOUS
<1>3. o \in Coming /\ o.pending = disk.pending /\ o.obs \in {disk.obs, l}
  BY <1>1, <1>2, ObservingMarker
<1>4. disk.pending \in SUBSET Intents /\ d \in Ids /\ disk.obs \in Links
  BY <1>1, MarkerTypes DEF Ids, LinkInv, Typed, StoreTyped
<1>5. PICK u : u = disk.pending OBVIOUS
<1>6. PICK b : b = o.obs OBVIOUS
<1>7. m = [o EXCEPT !.disc = d] BY <1>2
<1>8. m = [obs |-> b, pending |-> u, disc |-> d]
  BY <1>3, <1>5, <1>6, <1>7 DEF Coming
<1>9. m \in Markers
  <2>1. u \in SUBSET Intents /\ b \in Links BY <1>1, <1>3, <1>4, <1>5, <1>6
  <2>2. d \in Ids BY <1>4
  <2> QED BY ONLY <1>8, <2>1, <2>2 DEF Markers
<1>10. m.pending = u /\ m.obs = b /\ m.disc = d BY <1>8
<1>11. m # None BY <1>9, MarkerTypes
<1>12. OneOfAKind(m) BY <1>1, <1>5, <1>10 DEF OneOfAKind
<1>13. Latching(m)
  BY <1>5, <1>10, <1>1, <1>3, <1>6 DEF Denies, Latching, Learnt
<1> QED BY <1>3, <1>5, <1>6, <1>9, <1>10, <1>11, <1>12, <1>13

(* A clear that fails leaves the marker denied, on disk or retained. *)
LEMMA DeniedHolds ==
    ASSUME LinkInv, NEW p \in {"settings", "reconnect"}, At(p, "clear"), Current(p), Readable,
           disk # None, Fault, LinkGoes(p, LinkIdle), Stores,
           NEW m, m = [Reconnecting(disk, ljob[p].link) EXCEPT !.disc = disk.disc],
           (disk' = m /\ ram' = ram) \/ (ram' = m /\ disk' = disk)
    PROVE  Preserves
<1>1. PICK c : c = ljob[p] OBVIOUS
<1>2. p \in Calls \ {"unlock"} /\ Learnt(c.link) /\ LinkRunning(p)
  BY <1>1, Clearer DEF At
<1>3. m = [Observing(disk, c.link) EXCEPT !.disc = disk.disc]
  BY <1>1 DEF Reconnecting
<1>4. /\ m \in Markers /\ m # None /\ m.pending = disk.pending
      /\ m.disc = disk.disc /\ OneOfAKind(m) /\ Latching(m)
  BY ZenonT(30), <1>2, <1>3, ReconnectingMarker
<1>5. /\ lcount' \in [acts : Nat, peer : Nat, faults : Nat, ids : Nat] /\ lcount'.ids = lcount.ids
      /\ lcount.ids \in Nat /\ lcount'.ids \in Nat /\ lcount.ids <= lcount'.ids
  BY Counts DEF LinkInv, Typed, StoreTyped
<1>6. idn' = idn /\ ghost' = ghost /\ sess' = sess /\ hint' \in 0..MaxRev
  BY DEF Stores, LinkInv, Typed
<1>7. Marker = disk /\ ram = None BY DEF Marker, Readable
<1>8. Marker' = m BY <1>4, <1>7 DEF Marker
<1>9. PICK r : r = LinkIdle OBVIOUS
<1>10. r \in LinkCalls /\ Goes(p, r) /\ InTurn(p, r) /\ Fit(p, r, m) /\ LinkGoes(p, r)
  BY <1>2, <1>9, EndsCall
<1>11. Turns(p) /\ IdnTyped' /\ GhostTyped' /\ KeepsRevoked /\ Fit(p, r, m)'
  BY <1>5, <1>6, <1>10, Quietly
<1>12. EverRevoked => EverRevoked' BY <1>11 DEF Turns
<1>13. m \in Markers' /\ disk \in Markers' \cup {None}
  BY <1>4, <1>5, Grow DEF LinkInv, Typed, StoreTyped
<1>14. PICK d : d = disk OBVIOUS
<1>15. OneOfAKind(d) /\ Latching(d)' /\ Latching(m)'
  BY <1>14, <1>4, <1>12, LatchingStill DEF LinkInv, Typed, StoreTyped, Revoking
<1>16. StoreTyped'
  <2>1. ram' \in Markers' \cup {None} /\ disk' \in Markers' \cup {None}
    BY <1>7, <1>13
  <2>2. CASE disk' = m /\ ram' = None
    BY <1>4, <1>5, <2>1, <2>2 DEF StoreTyped, OneOfAKind
  <2>3. CASE disk' = d /\ ram' = m
    BY <1>4, <1>5, <1>15, <2>1, <2>3 DEF StoreTyped, OneOfAKind
  <2> QED BY <1>7, <1>14, <2>2, <2>3
<1>17. Covers(m) BY <1>4 DEF Covers, Latched
<1>18. Retained' BY <1>7, <1>4, <1>6, <1>17 DEF Retained, Covers, Latched
<1>19. Revoking'
  BY <1>7, <1>11, <1>15, <1>14 DEF Latching, Revoking, KeepsRevoked
<1>20. Leaves(p, m) BY <1>4, <1>7, SamePending
<1>21. Ordered' BY <1>2, <1>6, <1>10, OrderedStill
<1>22. Monitored'
  BY <1>2, <1>10, JobsAfter, <1>6 DEF LinkInv, Typed, Calls, Monitored, At, Live, LinkRunning
<1>23. LinkInv'
  BY <1>2, <1>6, <1>8, <1>10, <1>11, <1>16, <1>18, <1>19, <1>20, <1>21, <1>22, OneJob DEF Onward
<1>24. Kept BY <1>4 DEF Kept
<1>25. Sticks BY <1>4, <1>7 DEF Sticks, Latched
<1> QED BY <1>23, <1>24, <1>25 DEF Preserves

(* The latch is not cleared, or the keys do not go.                          *)
LEMMA ClearFailsHolds ==
    ASSUME LinkInv, NEW p \in {"settings", "reconnect"}, ClearFails(p)
    PROVE  Preserves
<1>1. At(p, "clear") /\ Current(p) /\ Readable /\ LinkGoes(p, LinkIdle) /\ Stores
  BY DEF ClearFails
<1>2. p \in Calls \ {"unlock"} /\ LinkRunning(p) /\ disk # None
  BY <1>1, Clearer DEF At, Undenied, Marker, Readable
<1>3. CASE Steady /\ UNCHANGED <<disk, ram>>
  BY <1>1, <1>2, <1>3, QuietEnds DEF Stores
<1>4. CASE ~(Steady /\ UNCHANGED <<disk, ram>>)
  <2>1. PICK m : m = [Reconnecting(disk, ljob[p].link) EXCEPT !.disc = disk.disc]
    OBVIOUS
  <2>2. Fault /\ ((disk' = m /\ ram' = ram) \/ (ram' = m /\ disk' = disk))
    BY <1>4, <2>1 DEF ClearFails
  <2> QED BY <1>1, <1>2, <2>1, <2>2, DeniedHolds
<1> QED BY <1>3, <1>4

(* What a clear leaves in the store: no latch, and no reason for one. *)
LEMMA ClearsStore ==
    ASSUME LinkInv, NEW p \in {"settings", "reconnect"}, Clears(p),
           NEW m, m = Reconnecting(disk, ljob[p].link)
    PROVE  /\ disk' = m /\ ram' = None /\ Marker' = m /\ m # None /\ StoreTyped' /\ Retained'
           /\ Revoking' /\ (\A q : Leaves(q, m)) /\ Kept /\ Sticks
           /\ idn' = idn /\ ghost' = ghost /\ Steady /\ lcount'.ids \in Nat /\ lcount.ids <= lcount'.ids
<1>1. PICK c : c = ljob[p] OBVIOUS
<1>2. /\ c.at = "clear" /\ Current(p) /\ Readable /\ disk' = m /\ Steady /\ idn' = idn
      /\ ram' = ram /\ ghost' = ghost /\ disk.pending = {}
  BY <1>1 DEF Clears, At, Reconnects
<1>3. Learnt(c.link) /\ Undenied(Marker) /\ idn.recon > ghost.cut
  BY <1>1, <1>2, Clearer
<1>4. Marker = disk /\ ram = None /\ ram' = None /\ disk # None
  BY <1>2, <1>3 DEF Marker, Readable, Undenied
<1>5. PICK z \in {0, disk.disc} : z = 0 OBVIOUS
<1>6. m = [Observing(disk, c.link) EXCEPT !.disc = z]
  BY <1>1, <1>5 DEF Reconnecting
<1>7. /\ m \in Markers /\ m # None /\ m.pending = disk.pending /\ OneOfAKind(m) /\ Latching(m)
  <2>1. PICK l : l = c.link OBVIOUS
  <2>2. Learnt(l) /\ m = [Observing(disk, l) EXCEPT !.disc = z]
    BY <1>3, <1>6, <2>1
  <2>3. Readable BY <1>2
  <2> QED BY ONLY ZenonT(30), LinkInv, <1>4, <1>5, <2>2, <2>3, ReconnectingMarker
<1>8. Marker' = m BY <1>2, <1>4 DEF Marker
<1>9. lcount' = lcount /\ lcount \in [acts : Nat, peer : Nat, faults : Nat, ids : Nat]
      /\ lcount'.ids \in Nat /\ lcount.ids <= lcount'.ids
  BY <1>2 DEF Steady, LinkInv, Typed, StoreTyped
<1>10. m \in Markers' BY <1>7, <1>9, Grow
<1>11. StoreTyped' BY <1>2, <1>4, <1>7, <1>9, <1>10 DEF StoreTyped, OneOfAKind
<1>12. Retained' BY <1>4 DEF Retained
<1>13. PICK q : q = p OBVIOUS
<1>14. Revoking'
  BY <1>2, <1>7, LatchingStill, <1>4 DEF LinkInv, Revoking, KeepsRevoked, EverRevoked, Latching
<1>15. \A s : Leaves(s, m) BY <1>4, <1>7, SamePending
<1>16. Kept BY <1>2, <1>7 DEF Kept
<1>17. Sticks BY <1>2, <1>3, <1>4 DEF Reconnected, Sticks
<1> QED BY <1>2, <1>4, <1>7, <1>8, <1>9, <1>11, <1>12, <1>14, <1>15, <1>16, <1>17

(* The monitor clears the latch of a link that came back.                    *)
LEMMA ClearByMonitorHolds ==
    ASSUME LinkInv, ClearByMonitor
    PROVE  Preserves
<1>1. PICK p \in {"settings", "reconnect"} : p = "reconnect" OBVIOUS
<1>2. Clears(p) /\ LinkGoes(p, LinkIdle) /\ hint' = 0 /\ sess' = sess
  BY <1>1 DEF ClearByMonitor
<1>3. PICK m : m = Reconnecting(disk, ljob[p].link) OBVIOUS
<1>4. /\ disk' = m /\ ram' = None /\ Marker' = m /\ m # None /\ StoreTyped' /\ Retained'
      /\ Revoking' /\ Leaves(p, m) /\ Kept /\ Sticks
      /\ idn' = idn /\ ghost' = ghost /\ lcount'.ids \in Nat /\ lcount.ids <= lcount'.ids
  BY <1>2, <1>3, ClearsStore
<1>5. p \in Calls \ {"unlock"} /\ LinkRunning(p)
  BY <1>2, Clearer DEF Clears, At
<1>6. PICK r : r = LinkIdle OBVIOUS
<1>7. r \in LinkCalls /\ Goes(p, r) /\ InTurn(p, r) /\ Fit(p, r, m) /\ LinkGoes(p, r)
  BY <1>2, <1>5, <1>6, EndsCall
<1>8. Turns(p) /\ IdnTyped' /\ GhostTyped' /\ KeepsRevoked /\ Fit(p, r, m)'
  BY <1>2, <1>4, <1>7, Quietly
<1>9. hint' \in 0..MaxRev BY <1>2, LinkAssumption
<1>10. Ordered' BY <1>2, <1>5, <1>7, OrderedStill
<1>11. Monitored'
  BY <1>5, <1>7, JobsAfter, <1>1, <1>2, <1>4 DEF LinkInv, Typed, Calls, Monitored, At, Live,
     LinkRunning
<1>12. LinkInv'
  BY <1>2, <1>4, <1>5, <1>7, <1>8, <1>9, <1>10, <1>11, OneJob DEF Onward
<1> QED BY <1>4, <1>12 DEF Preserves

-----------------------------------------------------------------------------
(* What the user asks for is recorded. *)

(* To record a closing forgets no other one.                                 *)
LEMMA RecordingSaves ==
    ASSUME LinkInv, Marker # None, NEW a \in Closings, NEW m, m = Recording(Marker, a)
    PROVE  /\ Saves(m) /\ m # None
           /\ \A i \in Marker.pending : i.action = "disconnect" => i \in m.pending
<1>1. PICK k : k = Marker OBVIOUS
<1>2. k \in Markers /\ OneOfAKind(k) /\ Latching(k) /\ k # None /\ Saves(k)
  BY <1>1, MarkerTyped, MarkerSaves
<1>3. PICK n \in Nat : n = lcount.ids + 1 /\ n # 0 /\ n \in 1 .. lcount.ids + 1 /\ n \in 0 .. lcount.ids + 1
  BY Comes
<1>4. PICK next : next = [id |-> n, action |-> a] OBVIOUS
<1>5. next \in [id : 1 .. lcount.ids + 1, action : Closings] /\ next.action = a /\ next.id = n
  BY <1>3, <1>4
<1>6. PICK previous : previous = {i \in k.pending : (i.action = "disconnect") = (a = "disconnect")}
  OBVIOUS
<1>7. CASE \E i \in previous : i.action \in {a, "logout"}
  BY <1>1, <1>6, <1>7, <1>2 DEF Recording
<1>8. CASE ~\E i \in previous : i.action \in {a, "logout"}
  <2>1. PICK u : u = (k.pending \ previous) \cup {next} OBVIOUS
  <2>2. PICK d : d = IF a = "disconnect" THEN n ELSE k.disc OBVIOUS
  <2>3. k \in Coming BY <1>2, Comes
  <2>4. u \in SUBSET [id : 1 .. lcount.ids + 1, action : Closings] /\ d \in 0 .. lcount.ids + 1
    BY <1>3, <1>5, <2>1, <2>2, <2>3 DEF Coming
  <2>5. m = [k EXCEPT !.pending = u, !.disc = d]
    BY <1>1, <1>3, <1>4, <1>5, <1>6, <1>8, <2>1, <2>2 DEF Recording
  <2>6. m \in Coming BY <2>3, <2>4, <2>5 DEF Coming
  <2>7. m.pending = u /\ m.disc = d /\ m.obs = k.obs BY <2>3, <2>5 DEF Coming
  <2>8. m # None BY <2>6, Comes, NoneIsNoMarker DEF Coming
  <2>9. OneOfAKind(m) BY <1>2, <2>1, <1>5, <1>6, <2>7 DEF OneOfAKind
  <2>10. Latching(m)
    BY <1>2, <1>5, <2>1, <2>7, <1>6, <2>2 DEF Latching, Denies
  <2>11. \A i \in k.pending : i.action = "disconnect" => i \in u
    BY <1>6, <1>8, <2>1
  <2>12. Supersedes(m)
    <3>1. Latched(k) => Latched(m) BY <1>3, <2>2, <2>7, <2>8 DEF Latched
    <3>2. ASSUME NEW i \in k.pending, i \notin u
          PROVE  i.action = "lock" /\ \E j \in u : j.action = "logout"
      BY <1>8, <2>1, <2>11, <3>2, <1>2, IntentTypes, <1>6, <1>5 DEF Markers, Closings
    <3> QED BY <1>1, <2>7, <3>1, <3>2 DEF Supersedes
  <2> QED BY <1>1, <2>6, <2>7, <2>8, <2>9, <2>10, <2>11, <2>12 DEF Saves
<1> QED BY <1>7, <1>8

(* The settings record a disconnection.                                      *)
LEMMA RecordDisconnectHolds ==
    ASSUME LinkInv, RecordDisconnect
    PROVE  Preserves
<1>1. PICK c : c = ljob["settings"] OBVIOUS
<1>2. c.at = "record" /\ Stores /\ At("settings", "record")
  BY <1>1 DEF RecordDisconnect, At
<1>3. /\ "settings" \in Calls \ {"monitor"} /\ c \in LinkCalls /\ LinkRunning("settings")
      /\ "settings" \in Calls \ {"unlock"} /\ Fit("settings", c, Marker) /\ Learnt(c.link)
  BY <1>1, <1>2, SettingsRun
<1>4. Marker # None BY <1>2, <1>3 DEF Fit, Stored
<1>5. PICK m : m = Recording(Marker, "disconnect") OBVIOUS
<1>6. /\ Saves(m) /\ m # None
      /\ \A i \in Marker.pending : i.action = "disconnect" => i \in m.pending
  BY <1>4, <1>5, RecordingSaves DEF Closings
<1>7. Leaves("settings", m)
  <2>1. sess.root = 0 /\ ~Live("reconnect") BY <1>2 DEF LinkInv, Ordered
  <2>2. Live("unlock") => ~Ready(ljob["unlock"])
    BY <1>2 DEF LinkInv, Ordered, Fits, Unlocking, At, Ready
  <2>3. ASSUME NEW q \in Calls \ {"settings"}
        PROVE  (Watches(q, ljob[q]) => Undenied(m)) /\ Posted(ljob[q], m) /\ Stored(q, ljob[q], m)
    BY <2>1, <2>3, <1>6 DEF Watches, Live, LinkInv, Fits, Fit, Posted, Stored
  <2> QED BY <2>1, <2>2, <2>3 DEF Leaves
<1>8. PICK r : r = To("settings", "flush") OBVIOUS
<1>9. /\ r \in LinkCalls /\ r.at = "flush" /\ r.live = c.live /\ r.link = c.link
      /\ r.action = c.action /\ r.disc = c.disc
  BY <1>1, <1>8, ToStep DEF Steps, Calls, LinkInv, Typed
<1>10. Goes("settings", r) /\ InTurn("settings", r)
  BY <1>1, <1>3, <1>9, StepsOn
<1>11. Fit("settings", r, m) BY <1>1, <1>3, <1>9, PlainFit
<1>12. LinkSaves("settings", m, r) BY <1>5, <1>8 DEF RecordDisconnect
<1>13. ljob["settings"].at # "publish" BY <1>1, <1>2
<1> QED BY <1>2, <1>3, <1>6, <1>7, <1>9, <1>10, <1>11, <1>12, <1>13, RunningSaves

(* A closing is recorded, or cannot be saved.                                *)
LEMMA RecordClosingHolds ==
    ASSUME LinkInv, RecordClosing
    PROVE  Preserves
<1>1. PICK c : c = ljob["close"] OBVIOUS
<1>2. c.at = "record" /\ Stores BY <1>1 DEF RecordClosing, At
<1>3. "close" \in Calls \ {"monitor"} /\ "close" \in Calls BY DEF Calls
<1>4. /\ c \in LinkCalls /\ LinkRunning("close") /\ Fit("close", c, Marker) /\ Learnt(c.link) /\ JobsTyped
  BY <1>1, <1>2, <1>3, Job DEF LinkInv, Typed
<1>5. c.action \in {"lock", "logout"} BY <1>2, <1>4 DEF Fit, AtHand
<1>6. PICK r : r = IF ljob["close"].locks = 1 THEN To("close", "flush") ELSE Failed("close")
  OBVIOUS
<1>7. /\ r \in LinkCalls /\ Goes("close", r) /\ InTurn("close", r)
      /\ r.at \in {"flush", "end"} /\ Learnt(r.link)
  <2>1. CASE r = To("close", "flush")
    BY <1>1, <1>3, <1>4, <2>1, ToStep, StepsOn DEF Steps
  <2>2. CASE r = Failed("close")
    BY <1>3, <2>2, FailedGoes, <1>4, FailedJob, Learns
  <2> QED BY <1>6, <2>1, <2>2
<1>8. \A m : Fit("close", r, m) BY <1>3, <1>7, PlainFit
<1>9. CASE Marker = None /\ LinkGoes("close", r) /\ UNCHANGED <<disk, ram, lcount>>
  BY <1>2, <1>3, <1>4, <1>7, <1>8, <1>9, QuietGoes DEF Stores, Steady
<1>10. CASE Marker # None /\ LinkSaves("close", Recording(Marker, ljob["close"].action), r)
  <2>1. PICK m : m = Recording(Marker, c.action) OBVIOUS
  <2>2. /\ Saves(m) /\ m # None
        /\ \A i \in Marker.pending : i.action = "disconnect" => i \in m.pending
    BY <1>5, <1>10, <2>1, RecordingSaves DEF Closings
  <2>3. Leaves("close", m)
    <3>1. sess.root = 0 /\ \A q \in Calls \ {"close"} : ~Live(q)
      BY <1>4 DEF LinkInv, Ordered
    <3>2. ~Live("unlock") BY <3>1 DEF Calls
    <3>3. ASSUME NEW q \in Calls \ {"close"}
          PROVE  (Watches(q, ljob[q]) => Undenied(m)) /\ Posted(ljob[q], m) /\ Stored(q, ljob[q], m)
      BY <3>1, <3>3, <2>2 DEF Watches, Live, LinkInv, Fits, Fit, Posted, Stored
    <3> QED BY <3>1, <3>2, <3>3 DEF Leaves
  <2>4. LinkSaves("close", m, r) BY <1>1, <1>10, <2>1
  <2>5. Fit("close", r, m) BY <1>8
  <2>6. ljob["close"].at # "publish" BY <1>1, <1>2
  <2> QED BY <1>2, <1>3, <1>4, <1>7, <2>2, <2>3, <2>4, <2>5, <2>6, RunningSaves
<1> QED BY <1>6, <1>9, <1>10 DEF RecordClosing

(* A call that finds itself overtaken, or whose request fails. *)
LEMMA StopsHolds ==
    ASSUME LinkInv, NEW p \in Calls, Stops(p)
    PROVE  Preserves
BY QuietFails DEF Stops, At

-----------------------------------------------------------------------------
(* The monitors. *)

(* Identity's word on a session that knows its barrier is of a later one. *)
LEMMA ActionIsNew ==
    ASSUME LinkInv, Action # "none", sess.root # 0 \/ sess.locks # 0
    PROVE  idn.inval > ghost.known
BY Facts DEF LinkInv, Typed, GhostTyped, SessTyped, Shared, Action, ActionAlways, Outlived, Ended

(* What the monitor may conclude.                                            *)
LEMMA ActionTyped == Action \in {"none", "lock", "logout"}
BY DEF Ended, ActionAlways, Action

(* The monitor reads the link.                                               *)
LEMMA MonitorReadHolds ==
    ASSUME LinkInv, MonitorRead
    PROVE  Preserves
<1>1. /\ Captures /\ UNCHANGED <<idn, disk, ram, sess, hint, lcount, ghost>> /\ disk # None
      /\ "monitor" \in Calls \ {"unlock", "close"} /\ Steady /\ Readable /\ "monitor" \in Calls
  BY DEF MonitorRead, Calls, Steady
<1>2. PICK a \in Closings \cup {"none", "reconnect"} : a = Action
  BY ActionTyped DEF Closings
<1>3. PICK d : d = Begins("act", a) OBVIOUS
<1>4. d \in LinkCalls /\ d.at = "act" /\ d.live /\ d.action = a
  BY <1>3, BeginTyped DEF Steps
<1>5. PICK l : l = Link OBVIOUS
<1>6. Learnt(l) BY <1>5, Learns
<1>7. PICK r : r = [d EXCEPT !.link = l] OBVIOUS
<1>8. r \in LinkCalls BY <1>4, <1>6, <1>7 DEF LinkCalls, Learnt
<1>9. r.at = "act" /\ r.link = l /\ r.live /\ r.action = a
  BY <1>4, <1>7 DEF LinkCalls
<1>10. LinkGoes("monitor", r) BY <1>2, <1>3, <1>5, <1>7 DEF MonitorRead
<1>11. Fit("monitor", r, Marker)
  BY <1>1, <1>6, <1>9, BesideFit DEF Marker, Readable
<1>12. Monitored'
  BY <1>1, <1>10, JobsAfter, ActionIsNew, <1>2, <1>9 DEF LinkInv, Typed, Monitored
<1> QED BY <1>1, <1>8, <1>9, <1>10, <1>11, <1>12, QuietBegins

(* The monitor writes the link it observed.                                  *)
LEMMA MonitorObserveHolds ==
    ASSUME LinkInv, MonitorObserve
    PROVE  Preserves
<1>1. /\ ljob["monitor"].at = "act" /\ Readable /\ Stores
      /\ LinkSaves("monitor", Observing(disk, ljob["monitor"].link), LinkIdle)
  BY DEF MonitorObserve, At
<1>2. "monitor" \in Calls \ {"unlock"} /\ LinkRunning("monitor") /\ ljob["monitor"].at # "publish"
  BY <1>1 DEF Calls, LinkRunning
<1>3. disk # None
  BY <1>2, <1>1 DEF LinkInv, Fits, Fit, Stored, Marker, Readable
<1> QED BY <1>1, <1>2, <1>3, ObservesAndEnds

(* The repair of an invitation begins: it writes the effective marker.       *)
LEMMA ReconcileBeginHolds ==
    ASSUME LinkInv, ReconcileBegin
    PROVE  Preserves
<1>1. /\ Captures /\ Marker # None /\ Stores /\ ~At("settings", "record")
      /\ "reconnect" \in Calls \ {"unlock", "close"} /\ ljob["reconnect"].at = "idle"
      /\ "reconnect" \in Calls
  BY DEF ReconcileBegin, Calls, Recorded, LinkRunning
<1>2. PICK r : /\ LinkSaves("reconnect", Marker, r)
               /\ r = IF Marker.pending # {} \/ (Marker.obs.state = "revoked" /\ Marker.obs.rev >= hint)
                      THEN LinkIdle
                      ELSE [Begins("read", "none") EXCEPT !.disc = Marker.disc, !.root = hint]
  BY DEF ReconcileBegin
<1>3. PICK m : m = Marker OBVIOUS
<1>4. m \in Markers /\ Latching(m) /\ m # None /\ Saves(m)
  BY <1>1, <1>3, MarkerTyped, MarkerSaves
<1>5. r \in LinkCalls /\ r.at \in {"idle", "read"} /\ (r.at = "idle" => ~r.live) /\ Fit("reconnect", r, m)
  <2>1. CASE r = LinkIdle BY <2>1, IdleFits, IdleTyped DEF LinkInv, Typed
  <2>2. CASE m.pending = {} /\ r = [Begins("read", "none") EXCEPT !.disc = m.disc, !.root = hint]
    <3>1. PICK d : d = Begins("read", "none") OBVIOUS
    <3>2. d \in LinkCalls /\ d.at = "read" /\ d.live /\ d.link = Unobserved
      BY <3>1, BeginTyped DEF Steps
    <3>3. PICK n \in Nat : n = m.disc BY <1>4, MarkerTypes
    <3>4. PICK h \in Nat : h = hint BY LinkAssumption DEF LinkInv, Typed
    <3>5. r = [d EXCEPT !.disc = n, !.root = h] BY <2>2, <3>1, <3>3, <3>4
    <3>6. r \in LinkCalls BY <3>2, <3>5 DEF LinkCalls
    <3>7. r.at = "read" /\ r.live /\ r.link = Unobserved /\ r.disc = n
      BY <3>2, <3>5 DEF LinkCalls
    <3>8. ~Denies(m) BY <2>2 DEF Denies
    <3>9. AtHand("reconnect", r) BY <3>7, Learns DEF AtHand, Learnt
    <3>10. Clearing("reconnect", r, m)
      BY <1>4, <3>3, <3>7, <3>8 DEF Clearing, Watches, Undenied, Latching
    <3>11. Fit("reconnect", r, m)
      BY <1>4, <3>7, <3>9, <3>10 DEF Fit, Posted, Stored
    <3> QED BY <3>6, <3>7, <3>11
  <2> QED BY <1>2, <1>3, <2>1, <2>2
<1>6. PICK g : LinkGoes("reconnect", g) /\ g.at # "record" /\ (g.at = "idle" => ~g.live)
  <2>1. CASE LinkGoes("reconnect", r) BY <1>5, <2>1
  <2>2. CASE Fails("reconnect")
    <3>1. PICK f : f = Failed("reconnect") OBVIOUS
    <3>2. f = LinkIdle BY <3>1 DEF Failed
    <3>3. LinkGoes("reconnect", f) BY <2>2, <3>1 DEF Fails
    <3> QED BY <3>2, <3>3, IdleTyped
  <2> QED BY <1>2, <2>1, <2>2 DEF LinkSaves, SavesOr
<1>7. sess' = sess /\ idn' = idn /\ ghost' = ghost BY <1>1 DEF Stores
<1>8. Ordered' /\ Monitored' BY <1>1, <1>6, <1>7, BeginsBeside
<1>9. Leaves("reconnect", m) BY <1>3, SameMarker
<1>10. InTurn("reconnect", r) BY <1>5 DEF InTurn
<1> QED BY <1>1, <1>2, <1>3, <1>4, <1>5, <1>8, <1>9, <1>10, SaveGoes

(* Identity is asked whether the link is back.                               *)
LEMMA ReconcileReadHolds ==
    ASSUME LinkInv, ReconcileRead
    PROVE  Preserves
<1>1. PICK c : c = ljob["reconnect"] OBVIOUS
<1>2. /\ c.at = "read" /\ c.live /\ UNCHANGED <<idn, disk, ram, sess, ghost>> /\ Steady
  BY <1>1 DEF ReconcileRead, At, Current, Steady
<1>3. /\ "reconnect" \in Calls \ {"monitor"} /\ "reconnect" \in Calls \ {"unlock"} /\ "reconnect" \in Calls
  BY DEF Calls
<1>4. c \in LinkCalls /\ Fit("reconnect", c, Marker) /\ LinkRunning("reconnect") /\ JobsTyped
  BY <1>1, <1>2, <1>3, Job DEF LinkInv, Typed
<1>5. hint' \in 0..MaxRev BY LinkAssumption DEF ReconcileRead, LinkInv, Typed
<1>6. Marker # None /\ Undenied(Marker) /\ (c.disc # 0 => EverRevoked)
  BY <1>2, <1>4 DEF Fit, Stored, Clearing, Watches
<1>7. CASE LinkGoes("reconnect", LinkIdle)
  <2>1. PICK r : r = LinkIdle OBVIOUS
  <2>2. /\ r \in LinkCalls /\ Goes("reconnect", r) /\ InTurn("reconnect", r)
        /\ Fit("reconnect", r, Marker) /\ LinkGoes("reconnect", r)
    BY <1>3, <1>7, <2>1, EndsCall
  <2> QED BY <1>2, <1>3, <1>4, <1>5, <2>2, QuietTurn
<1>8. ASSUME NEW s \in {"clear", "observe"},
             s = "clear" => c.disc # 0 /\ idn.state # "revoked",
             LinkGoes("reconnect", [To("reconnect", s) EXCEPT !.link = Link])
      PROVE  Preserves
  <2>1. PICK d : d = To("reconnect", s) OBVIOUS
  <2>2. d \in LinkCalls /\ d.at = s /\ d.live = c.live
    BY <1>1, <1>3, <1>4, <2>1, ToStep DEF Steps
  <2>3. PICK l : l = Link OBVIOUS
  <2>4. Learnt(l) BY <2>3, Learns
  <2>5. PICK r : r = [d EXCEPT !.link = l] OBVIOUS
  <2>6. r \in LinkCalls BY <2>2, <2>4, <2>5 DEF LinkCalls, Learnt
  <2>7. r.at = s /\ r.live = c.live /\ r.link = l BY <2>2, <2>5 DEF LinkCalls
  <2>8. LinkGoes("reconnect", r) BY <1>8, <2>1, <2>3, <2>5
  <2>9. Goes("reconnect", r) /\ InTurn("reconnect", r)
    BY <1>1, <1>3, <1>4, <2>7, StepsOn
  <2>10. s = "clear" => idn.recon > ghost.cut
    BY <1>6, <1>8 DEF LinkInv, Revoking
  <2>11. AtHand("reconnect", r) BY <2>4, <2>7 DEF AtHand, Learnt, Flushers
  <2>12. Clearing("reconnect", r, Marker) BY <1>6, <2>7, <2>10 DEF Clearing
  <2>13. Fit("reconnect", r, Marker)
    BY <1>6, <2>7, <2>11, <2>12 DEF Fit, Posted, Stored
  <2> QED BY <1>2, <1>3, <1>4, <1>5, <2>6, <2>8, <2>9, <2>13, QuietTurn
<1>9. CASE LinkGoes("reconnect", [To("reconnect", "clear") EXCEPT !.link = Link])
           /\ c.disc # 0 /\ idn.state # "revoked"
  BY <1>8, <1>9
<1>10. CASE LinkGoes("reconnect", [To("reconnect", "observe") EXCEPT !.link = Link])
  BY <1>8, <1>10
<1> QED BY <1>1, <1>7, <1>9, <1>10 DEF ReconcileRead

(* The repair writes the link it was told of.                                *)
LEMMA ReconcileObserveHolds ==
    ASSUME LinkInv, ReconcileObserve
    PROVE  Preserves
<1>1. /\ ljob["reconnect"].at = "observe" /\ Readable /\ Stores
      /\ LinkSaves("reconnect", Observing(disk, ljob["reconnect"].link), LinkIdle)
  BY DEF ReconcileObserve, At
<1>2. /\ "reconnect" \in Calls \ {"unlock"} /\ LinkRunning("reconnect")
      /\ ljob["reconnect"].at # "publish"
  BY <1>1 DEF Calls, LinkRunning
<1>3. disk # None
  BY <1>2, <1>1 DEF LinkInv, Fits, Fit, Stored, Marker, Readable
<1> QED BY <1>1, <1>2, <1>3, ObservesAndEnds

-----------------------------------------------------------------------------
(* The peer. *)

(* What a peer does at the server leaves the jobs and the stores.            *)
LEMMA PeerStays ==
    ASSUME LinkInv, Peers
    PROVE  /\ disk' = disk /\ ram' = ram /\ sess' = sess /\ ljob' = ljob /\ ghost' = ghost
           /\ PeerActs /\ lcount'.ids = lcount.ids /\ hint \in 0..MaxRev
BY Counts DEF Peers, LinkInv, Typed

(* The peer locks, logs out or disconnects.                                  *)
LEMMA PeerClosesHolds ==
    ASSUME LinkInv, NEW a \in Closings, PeerCloses(a)
    PROVE  Preserves
<1>1. /\ disk' = disk /\ ram' = ram /\ sess' = sess /\ ljob' = ljob /\ ghost' = ghost
      /\ PeerActs /\ lcount'.ids = lcount.ids /\ hint \in 0..MaxRev
  BY PeerStays DEF PeerCloses
<1>2. Room /\ hint' \in 0..MaxRev BY <1>1 DEF PeerCloses
<1>3. PICK i : i = Closed(a) OBVIOUS
<1>4. /\ i \in IdnRecords /\ i.rev = idn.rev + 1 /\ i.seq = idn.seq + 1
      /\ i.inval = idn.seq + 1 /\ i.out \in {idn.out, idn.seq + 1}
      /\ i.recon = idn.recon
      /\ i.state = IF a = "disconnect" \/ idn.state = "revoked" THEN "revoked" ELSE "locked"
  BY <1>2, <1>3, ClosedIdn
<1>5. idn' = i BY <1>3 DEF PeerCloses
<1>6. /\ idn.rev \in Nat /\ idn.recon \in Nat /\ idn.recon <= idn.rev /\ idn.seq \in Nat
      /\ idn.out \in Nat /\ idn.inval \in Nat /\ idn.out <= idn.inval /\ idn.inval <= idn.seq
      /\ ghost \in [settled : SUBSET Nat, cut : Nat, known : Nat]
      /\ ghost.known \in Nat /\ ghost.cut \in Nat /\ ghost.cut <= idn.rev /\ ghost.known <= idn.inval
  BY Facts DEF LinkInv, Typed, GhostTyped
<1>7. IdnTyped' BY <1>4, <1>5, <1>6 DEF IdnTyped, IdnRecords
<1>8. GhostTyped' BY <1>1, <1>4, <1>5, <1>6 DEF GhostTyped
<1>9. EverRevoked => EverRevoked' BY <1>4, <1>5 DEF EverRevoked
<1>10. KeepsRevoked
  BY <1>4, <1>5, <1>1, <1>9 DEF EverRevoked, LinkInv, Revoking, KeepsRevoked
<1>11. Turns("none")
  BY <1>1, <1>4, <1>5, <1>6, <1>9 DEF LinkInv, Typed, StoreTyped, Fits, Fit, Clearing, At, Live,
     Turns
<1> QED BY <1>1, <1>2, <1>7, <1>8, <1>10, <1>11, WorldMoves

(* A peer reconnects the link.                                               *)
LEMMA PeerReconnectsHolds ==
    ASSUME LinkInv, PeerReconnects
    PROVE  Preserves
BY PeerStays, ComesBack, WorldMoves DEF PeerReconnects

(* A peer activates the link.                                                *)
LEMMA PeerActivatesHolds ==
    ASSUME LinkInv, PeerActivates
    PROVE  Preserves
<1>1. /\ disk' = disk /\ ram' = ram /\ sess' = sess /\ ljob' = ljob /\ ghost' = ghost
      /\ PeerActs /\ lcount'.ids = lcount.ids /\ hint \in 0..MaxRev
  BY PeerStays DEF PeerActivates
<1>2. Room /\ idn.state = "locked" /\ hint' \in 0..MaxRev
  BY <1>1 DEF PeerActivates
<1>3. PICK i : i = Moves(idn, "active") OBVIOUS
<1>4. /\ i \in IdnRecords /\ i.rev = idn.rev + 1 /\ i.state = "active" /\ i.seq = idn.seq
      /\ i.inval = idn.inval /\ i.out = idn.out /\ i.recon = idn.recon
  BY <1>2, <1>3, Moved
<1>5. /\ idn.rev \in Nat /\ idn.recon \in Nat /\ idn.recon <= idn.rev /\ idn.seq \in Nat
      /\ idn.out \in Nat /\ idn.inval \in Nat /\ idn.out <= idn.inval /\ idn.inval <= idn.seq
  BY Facts DEF LinkInv, Typed
<1>6. PICK n \in Nat : n = i.seq + 1 /\ n = idn.seq + 1 BY <1>4, <1>5
<1>7. PICK j : j = [i EXCEPT !.seq = n] OBVIOUS
<1>8. j \in IdnRecords BY <1>4, <1>7 DEF IdnRecords
<1>9. /\ j.rev = i.rev /\ j.state = "active" /\ j.seq = n
      /\ j.inval = idn.inval /\ j.out = idn.out /\ j.recon = idn.recon
  BY <1>4, <1>7 DEF IdnRecords
<1>10. idn' = j BY <1>3, <1>6, <1>7 DEF PeerActivates
<1>11. IdnTyped'
  BY ONLY <1>4, <1>5, <1>6, <1>8, <1>9, <1>10 DEF IdnTyped, IdnRecords
<1>12. /\ idn.rev <= idn'.rev /\ idn'.inval = idn.inval /\ idn'.out = idn.out
       /\ idn.recon <= idn'.recon /\ idn'.state # "revoked" /\ idn'.recon = idn.recon
  BY ONLY <1>4, <1>5, <1>9, <1>10
<1>13. Turns("none") /\ GhostTyped' /\ KeepsRevoked
  BY <1>1, <1>2, <1>11, <1>12, Harmless
<1> QED BY <1>1, <1>2, <1>11, <1>13, WorldMoves

(* A peer turns the preference on or off.                                    *)
LEMMA PeerPrefersHolds ==
    ASSUME LinkInv, PeerPrefers
    PROVE  Preserves
<1>1. /\ disk' = disk /\ ram' = ram /\ sess' = sess /\ ljob' = ljob /\ ghost' = ghost
      /\ PeerActs /\ lcount'.ids = lcount.ids /\ hint \in 0..MaxRev
  BY PeerStays DEF PeerPrefers
<1>2. hint' \in 0..MaxRev BY <1>1 DEF PeerPrefers
<1>3. idn \in IdnRecords BY DEF LinkInv, Typed, IdnTyped, IdnRecords
<1>4. PICK b \in BOOLEAN : b = ~idn.on OBVIOUS
<1>5. PICK j : j = [idn EXCEPT !.on = b] OBVIOUS
<1>6. j \in IdnRecords BY <1>3, <1>5 DEF IdnRecords
<1>7. /\ j.rev = idn.rev /\ j.state = idn.state /\ j.seq = idn.seq
      /\ j.inval = idn.inval /\ j.out = idn.out /\ j.recon = idn.recon
  BY <1>3, <1>5 DEF IdnRecords
<1>8. idn' = j BY <1>4, <1>5 DEF PeerPrefers
<1>9. IdnTyped' BY <1>6, <1>7, <1>8 DEF IdnTyped, IdnRecords, LinkInv, Typed
<1>10. idn.rev \in Nat /\ idn.recon \in Nat BY Facts DEF LinkInv, Typed
<1>11. Turns("none") /\ GhostTyped' /\ KeepsRevoked
  BY <1>7, <1>8, <1>10, <1>1, <1>9, Harmless
<1> QED BY <1>1, <1>2, <1>9, <1>11, WorldMoves

(* An invitation that no reconnection is behind.                             *)
LEMMA PeerInvitesHolds ==
    ASSUME LinkInv, PeerInvites
    PROVE  Preserves
BY PeerStays, LinkAssumption, Quietly, WorldMoves DEF PeerInvites, LinkInv, Typed, StoreTyped

(* Every step of a peer.                                                     *)
LEMMA PeerHolds ==
    ASSUME LinkInv, Peer
    PROVE  Preserves
BY PeerClosesHolds, PeerReconnectsHolds, PeerActivatesHolds, PeerPrefersHolds, PeerInvitesHolds
   DEF Peer

-----------------------------------------------------------------------------
(* A new lifecycle. *)

(* What is left of the call q once it is overtaken: its request, or nothing.  *)
Left(q, r) ==
    /\ r \in LinkCalls /\ r.live = FALSE
    /\ \/ /\ r.at = ljob[q].at /\ r.cur = ljob[q].cur /\ r.link = ljob[q].link
          /\ r.action = ljob[q].action /\ r.root = ljob[q].root /\ r.locks = ljob[q].locks
       \/ /\ r.at = "idle" \/ (r.at = "end" /\ q = "close")
          /\ r.link = Unobserved /\ r.root = 0 /\ r.locks = 0

(* A job that is gone has left nothing.                                      *)
LEMMA LeavesNothing ==
    ASSUME NEW q PROVE Left(q, LinkIdle)
BY IdleTyped DEF Left

(* A job that is not live stays as it is.                                    *)
LEMMA LeavesItself ==
    ASSUME LinkInv, NEW q \in Calls, ~Live(q) PROVE Left(q, ljob[q])
BY CallTypes DEF LinkInv, Typed, JobsTyped, Left, Live

(* An overtaken job keeps its request, or nothing.                           *)
LEMMA OvertakenLeft ==
    ASSUME LinkInv, NEW q \in Calls PROVE Left(q, Overtaken(q))
<1>1. PICK r : r = Overtaken(q) OBVIOUS
<1>2. PICK c : c = ljob[q] OBVIOUS
<1>3. c \in LinkCalls BY <1>2 DEF LinkInv, Typed, JobsTyped
<1>4. CASE c.at = "idle" BY <1>1, <1>2, <1>4, LeavesNothing DEF Overtaken, At
<1>5. CASE c.at \in {"record", "posted", "sent"}
  BY <1>1, <1>2, <1>5, <1>3 DEF Overtaken, At, LinkCalls, Left
<1>6. CASE c.at \notin {"idle", "record", "posted", "sent"} /\ q = "close"
  <2>1. PICK f : f = Failed(q) OBVIOUS
  <2>2. f \in LinkCalls /\ f.at = "end" /\ f.link = Unobserved
    BY <1>6, <2>1, FailedJob DEF LinkInv, Typed
  <2>3. f.root = 0 /\ f.locks = 0
    <3>1. PICK a \in Closings \cup {"none", "reconnect"} : a = c.action
      BY <1>3, CallTypes
    <3>2. PICK b : b = Begins("end", a) OBVIOUS
    <3>3. b \in LinkCalls /\ b.root = 0 /\ b.locks = 0
      BY <3>2, BeginTyped DEF Steps
    <3>4. PICK l \in BOOLEAN : l = c.live BY <1>3, CallTypes
    <3>5. f = [b EXCEPT !.live = l]
      BY <1>2, <1>6, <2>1, <3>1, <3>2, <3>4 DEF Failed
    <3> QED BY <3>3, <3>5 DEF LinkCalls
  <2>4. r = [f EXCEPT !.live = FALSE]
    BY <1>1, <1>2, <1>6, <2>1 DEF Overtaken, At
  <2>5. r \in LinkCalls BY <2>2, <2>4 DEF LinkCalls
  <2>6. r.live = FALSE /\ r.at = "end" /\ r.link = Unobserved /\ r.root = 0 /\ r.locks = 0
    BY <2>2, <2>3, <2>4 DEF LinkCalls
  <2> QED BY <1>1, <1>6, <2>5, <2>6 DEF Left
<1>7. CASE c.at \notin {"idle", "record", "posted", "sent"} /\ q # "close"
  BY <1>1, <1>2, <1>7, LeavesNothing DEF Overtaken, At
<1> QED BY <1>4, <1>5, <1>6, <1>7

(* Identity and the history stay, but for the sequence Identity draws from.   *)
Stands ==
    /\ IdnTyped' /\ idn'.rev = idn.rev /\ idn'.state = idn.state /\ idn'.recon = idn.recon
    /\ idn'.inval = idn.inval /\ idn'.out = idn.out /\ ghost' = ghost
    /\ lcount'.ids \in Nat /\ lcount.ids <= lcount'.ids

(* What is left of a job fits where the job did.                             *)
LEMMA LeftFits ==
    ASSUME LinkInv, Stands, NEW q \in Calls, NEW r, Left(q, r), NEW m,
           r = LinkIdle \/ (Posted(ljob[q], m) /\ Stored(q, ljob[q], m))
    PROVE  Fit(q, r, m)'
<1>1. CASE r = LinkIdle
  <2>1. PICK f : f = r OBVIOUS
  <2>2. idn'.rev \in Nat BY LinkAssumption DEF Stands, IdnTyped
  <2>3. /\ f.at = "idle" /\ f.live = FALSE /\ f.link.rev = 0 /\ f.link.state = "none"
    BY <1>1, <2>1, IdleTyped, NothingObserved
  <2>4. Fit(q, f, m)'
    BY <2>2, <2>3 DEF Fit, AtHand, Posted, Clearing, Watches, Stored
  <2> QED BY <2>1, <2>4
<1>2. CASE /\ r.at = "idle" \/ (r.at = "end" /\ q = "close")
           /\ r.link = Unobserved
  BY LinkAssumption, <1>2, NothingObserved DEF Stands, IdnTyped, Left, AtHand, Posted, Clearing,
     Watches, Stored, Fit
<1>3. CASE /\ r.at = ljob[q].at /\ r.cur = ljob[q].cur /\ r.link = ljob[q].link
           /\ r.action = ljob[q].action
           /\ Posted(ljob[q], m) /\ Stored(q, ljob[q], m)
  <2>1. AtHand(q, ljob[q]) /\ r.live = FALSE BY DEF LinkInv, Fits, Fit, Left
  <2>2. Intents \subseteq Intents'
    BY Grow DEF Stands, LinkInv, Typed, StoreTyped
  <2>3. EverRevoked' = EverRevoked BY DEF EverRevoked, Stands
  <2>4. AtHand(q, r) BY <1>3, <2>1 DEF AtHand
  <2>5. AtHand(q, r)' BY <2>2, <2>3, <2>4 DEF AtHand, Stands
  <2>6. Posted(r, m)' BY <1>3 DEF Posted, Stands
  <2>7. Clearing(q, r, m)' BY <2>1 DEF Clearing, Watches
  <2>8. Stored(q, r, m)' BY <1>3 DEF Stored
  <2> QED BY <2>5, <2>6, <2>7, <2>8 DEF Fit
<1> QED BY <1>1, <1>2, <1>3 DEF Left

(* What is left of an unlock has delivered nothing.                          *)
LEMMA LeftUnlocking ==
    ASSUME LinkInv, NEW r, Left("unlock", r), NEW m
    PROVE  Unlocking(r, m)'
BY DEF Left, LinkInv, Fits, Unlocking

(* The call p, if there is one, begins to record what the user asked for.     *)
Enters(p, r, m) ==
    p # "none" =>
        /\ ljob'[p] = r /\ r \in LinkCalls /\ r.at = "record" /\ r.live
        /\ Fit(p, r, m)'
(* What a new lifecycle leaves of the others.                                *)
Remains(p, m) ==
    /\ ljob' = [q \in Calls |-> ljob'[q]]
    /\ \A q \in Calls \ {p} :
         /\ Left(q, ljob'[q])
         /\ ljob'[q] = LinkIdle \/ (Posted(ljob[q], m) /\ Stored(q, ljob[q], m))
(* The session it leaves.                                                    *)
Session(p) ==
    /\ SessTyped'
    /\ sess'.open => /\ sess'.born # 0 /\ sess'.mem
                     /\ ~LinkRunning("close")' /\ ~LinkRunning("unlock")'
    /\ ~sess'.open => sess'.root = 0 /\ sess'.locks = 0
    /\ At("settings", "record")' => sess'.root = 0
    /\ p = "settings" => ~LinkRunning("close")'

(* A new lifecycle: what is left of the old jobs fits, and so does who enters. *)
LEMMA NewLifecycle ==
    ASSUME LinkInv, Stands, NEW p \in {"close", "settings", "none"}, NEW r, NEW m, Marker' = m,
           Remains(p, m), Enters(p, r, m), Session(p), hint' \in 0..MaxRev,
           StoreTyped', Retained', Revoking', Shared'
    PROVE  LinkInv'
<1>1. \A q \in Calls \ {p} : ljob'[q] \in LinkCalls /\ ljob'[q].live = FALSE
  BY DEF Remains, Left
<1>2. p \in Calls => ljob'[p] = r /\ r \in LinkCalls /\ r.at = "record" /\ r.live
  BY DEF Enters, Calls
<1>3. LinkCalls \subseteq LinkCalls'
  BY Grow DEF Stands, LinkInv, Typed, StoreTyped
<1>4. JobsTyped' BY <1>1, <1>2, <1>3 DEF Remains, JobsTyped
<1>5. GhostTyped' BY DEF Stands, GhostTyped, LinkInv, Typed
<1>6. Typed' BY <1>4, <1>5 DEF Typed, Session, Stands
<1>7. \A q \in Calls \ {p} : ~Live(q)' BY <1>1 DEF Live
<1>8. ASSUME NEW q \in Calls, Live(q)' PROVE q = p /\ At(q, "record")' /\ ljob'[q] = r
  BY <1>2, <1>7, <1>8 DEF At
<1>9. Ordered' BY <1>8, <1>7 DEF At, LinkRunning, Calls, Session, Ordered
<1>10. Monitored' BY <1>7 DEF Calls, Monitored
<1>11. ASSUME NEW q \in Calls PROVE Fit(q, ljob[q], Marker)'
  <2>1. CASE q = p BY <2>1 DEF Enters, Calls
  <2>2. CASE q # p
    <3>1. PICK c : c = ljob'[q] OBVIOUS
    <3>2. Left(q, c) /\ (c = LinkIdle \/ (Posted(ljob[q], m) /\ Stored(q, ljob[q], m)))
      BY <2>2, <3>1 DEF Remains
    <3>3. Fit(q, c, m)' BY <3>2, LeftFits
    <3> QED BY <3>1, <3>3
  <2> QED BY <2>1, <2>2
<1>12. Unlocking(ljob["unlock"], Marker)'
  <2>1. PICK c : c = ljob'["unlock"] OBVIOUS
  <2>2. Left("unlock", c) BY <2>1 DEF Remains, Calls
  <2>3. Unlocking(c, m)' BY <2>2, LeftUnlocking
  <2> QED BY <2>1, <2>3
<1>13. ASSUME NEW q \in Calls, NEW s \in Calls PROVE Acked(q, s)'
  BY <1>8 DEF At, Acked
<1> QED BY <1>6, <1>9, <1>10, <1>11, <1>12, <1>13 DEF LinkInv, Fits

(* Overtakes, and one call that goes its own way. *)
LEMMA OvertakesAll ==
    ASSUME LinkInv, ljob' = Overtakes("none")
    PROVE  /\ ljob' = [q \in Calls |-> ljob'[q]]
           /\ \A q \in Calls : ljob'[q] = Overtaken(q) /\ Left(q, ljob'[q])
BY OvertakenLeft DEF Overtakes, Calls

(* A new lifecycle overtakes every call but the one it belongs to.           *)
LEMMA OvertakesBut ==
    ASSUME LinkInv, NEW p \in Calls, NEW o \in {p, "none"}, NEW r, ljob' = [Overtakes(o) EXCEPT ![p] = r]
    PROVE  /\ ljob' = [q \in Calls |-> ljob'[q]] /\ ljob'[p] = r
           /\ \A q \in Calls \ {p} : ljob'[q] = Overtaken(q) /\ Left(q, ljob'[q])
<1>1. PICK f : f = Overtakes(o) OBVIOUS
<1>2. f = [q \in Calls |-> IF o = q THEN ljob[q] ELSE Overtaken(q)]
  BY <1>1 DEF Overtakes
<1>3. ljob' = [f EXCEPT ![p] = r] BY <1>1
<1>4. ljob' = [q \in Calls |-> ljob'[q]] /\ ljob'[p] = r BY <1>2, <1>3
<1>5. ASSUME NEW q \in Calls \ {p} PROVE ljob'[q] = Overtaken(q)
  BY <1>2, <1>3 DEF Calls
<1> QED BY <1>4, <1>5, OvertakenLeft

(* A call that did not run does not run after a new lifecycle.               *)
LEMMA OvertakenIdle ==
    ASSUME NEW q, ~LinkRunning(q) PROVE Overtaken(q) = LinkIdle
BY DEF Overtaken, LinkRunning, At

(* The session closes. *)
LEMMA Shuts ==
    ASSUME LinkInv, NEW s, s = Shut(sess)
    PROVE  /\ s \in [open : BOOLEAN, born : Nat, mem : BOOLEAN, root : Nat, locks : Nat]
           /\ s.open = FALSE /\ s.root = 0 /\ s.locks = 0 /\ s.born = sess.born /\ s.mem = sess.mem
BY DEF LinkInv, Typed, SessTyped, Shut

(* A closed session has nothing to show. *)
LEMMA ClosedSession ==
    ASSUME NEW p \in {"close", "settings", "none"},
           sess' \in [open : BOOLEAN, born : Nat, mem : BOOLEAN, root : Nat, locks : Nat],
           ~sess'.open, sess'.root = 0, sess'.locks = 0, p = "settings" => ~LinkRunning("close")'
    PROVE  Session(p) /\ Shared'
BY DEF Session, SessTyped, Shared, Outlived

(* The store stays beside a new lifecycle. *)
LEMMA StoreStays ==
    ASSUME LinkInv, idn' = idn, ghost' = ghost, disk' = disk, ram' = ram, Steady \/ Fault \/ Act
    PROVE  /\ Stands /\ StoreTyped' /\ Retained' /\ Revoking' /\ Kept /\ Sticks /\ Marker' = Marker
BY Counts, StoreStill, RetainedStill, Untouched DEF LinkInv, Typed, StoreTyped, Stands, IdnTyped,
   Revoking, Latching, Denies, EverRevoked

(* What every job says of the marker there is.                               *)
LEMMA AllFit ==
    ASSUME LinkInv
    PROVE  \A q \in Calls : Posted(ljob[q], Marker) /\ Stored(q, ljob[q], Marker)
BY DEF LinkInv, Fits, Fit

(* A sign-in opens the session.                                              *)
LEMMA SignInHolds ==
    ASSUME LinkInv, SignIn
    PROVE  Preserves
<1>1. /\ sess.born = 0 /\ Act /\ disk' = disk /\ ram' = ram /\ hint' = hint /\ ghost' = ghost
      /\ ljob' = Overtakes("none") /\ ~LinkRunning("close")
  BY DEF SignIn
<1>2. /\ lcount' \in [acts : Nat, peer : Nat, faults : Nat, ids : Nat] /\ lcount'.ids = lcount.ids
      /\ lcount.ids \in Nat
  BY <1>1, Counts DEF LinkInv, Typed, StoreTyped
<1>3. idn.seq \in Nat /\ idn.inval <= idn.seq /\ idn.out <= idn.inval /\ idn.recon <= idn.rev
      /\ idn.inval \in Nat /\ idn \in IdnRecords
  BY Facts DEF LinkInv, Typed, IdnTyped, IdnRecords
<1>4. PICK n \in Nat : n = idn.seq + 1 BY <1>3
<1>5. PICK j : j = [idn EXCEPT !.seq = n] OBVIOUS
<1>6. j \in IdnRecords BY <1>3, <1>5 DEF IdnRecords
<1>7. /\ j.rev = idn.rev /\ j.state = idn.state /\ j.seq = n
      /\ j.inval = idn.inval /\ j.out = idn.out /\ j.recon = idn.recon
  BY <1>3, <1>5 DEF IdnRecords
<1>8. idn' = j BY <1>4, <1>5 DEF SignIn
<1>9. IdnTyped' BY <1>3, <1>4, <1>6, <1>7, <1>8 DEF IdnTyped, IdnRecords
<1>10. Stands BY <1>1, <1>2, <1>7, <1>8, <1>9 DEF Stands
<1>11. StoreTyped' /\ Retained' BY <1>1, <1>2, StoreStill, RetainedStill
<1>12. Revoking'
  BY <1>1, <1>7, <1>8 DEF Revoking, Latching, Denies, EverRevoked, LinkInv
<1>13. PICK k \in Nat : k = idn.seq + 1 /\ k # 0 BY <1>3
<1>14. PICK s : s = [sess EXCEPT !.born = k, !.mem = TRUE] OBVIOUS
<1>15. sess \in [open : BOOLEAN, born : Nat, mem : BOOLEAN, root : Nat, locks : Nat]
       /\ ~sess.open /\ sess.root = 0 /\ sess.locks = 0
  BY <1>1 DEF LinkInv, Typed, SessTyped, Ordered
<1>16. /\ s \in [open : BOOLEAN, born : Nat, mem : BOOLEAN, root : Nat, locks : Nat]
       /\ ~s.open /\ s.root = 0 /\ s.locks = 0
  BY <1>14, <1>15
<1>17. sess' = s BY <1>13, <1>14 DEF SignIn
<1>18. PICK p \in {"close", "settings", "none"} : p = "none" OBVIOUS
<1>19. Session(p) /\ Shared' BY <1>16, <1>17, <1>18, ClosedSession
<1>20. PICK m : m = Marker OBVIOUS
<1>21. Marker' = m /\ Kept /\ Sticks BY <1>1, <1>20, Untouched
<1>22. Remains(p, m) BY <1>1, <1>20, AllFit, OvertakesAll DEF Remains
<1>23. hint' \in 0..MaxRev BY <1>1 DEF LinkInv, Typed
<1>24. Enters(p, p, m) BY <1>18 DEF Enters
<1>25. LinkInv'
  BY <1>10, <1>11, <1>12, <1>19, <1>21, <1>22, <1>23, <1>24, NewLifecycle
<1> QED BY <1>21, <1>25 DEF Preserves

(* The idle timer locks.                                                     *)
LEMMA AutoLockHolds ==
    ASSUME LinkInv, AutoLock
    PROVE  Preserves
<1>1. /\ Act /\ disk' = disk /\ ram' = ram /\ hint' = hint /\ ghost' = ghost /\ idn' = idn
      /\ ljob' = Overtakes("none")
  BY DEF AutoLock
<1>2. PICK s : s = Shut(sess) OBVIOUS
<1>3. /\ s \in [open : BOOLEAN, born : Nat, mem : BOOLEAN, root : Nat, locks : Nat]
      /\ ~s.open /\ s.root = 0 /\ s.locks = 0
  BY <1>2, Shuts
<1>4. sess' = s BY <1>2 DEF AutoLock
<1>5. PICK p \in {"close", "settings", "none"} : p = "none" OBVIOUS
<1>6. Session(p) /\ Shared' BY <1>3, <1>4, <1>5, ClosedSession
<1>7. PICK m : m = Marker OBVIOUS
<1>8. Stands /\ StoreTyped' /\ Retained' /\ Revoking' /\ Kept /\ Sticks /\ Marker' = m
  BY <1>1, <1>7, StoreStays
<1>9. Remains(p, m) BY <1>1, <1>7, AllFit, OvertakesAll DEF Remains
<1>10. hint' \in 0..MaxRev BY <1>1 DEF LinkInv, Typed
<1>11. Enters(p, p, m) BY <1>5 DEF Enters
<1>12. LinkInv' BY <1>6, <1>8, <1>9, <1>10, <1>11, NewLifecycle
<1> QED BY <1>8, <1>12 DEF Preserves

(* The user locks or logs out.                                               *)
LEMMA CloseHolds ==
    ASSUME LinkInv, NEW a \in {"lock", "logout"}, Close(a)
    PROVE  Preserves
<1>1. /\ Act /\ disk' = disk /\ ram' = ram /\ hint' = hint /\ ghost' = ghost /\ idn' = idn
  BY DEF Close
<1>2. PICK s : s = Shut(sess) OBVIOUS
<1>3. /\ s \in [open : BOOLEAN, born : Nat, mem : BOOLEAN, root : Nat, locks : Nat]
      /\ s.open = FALSE /\ s.root = 0 /\ s.locks = 0
  BY <1>2, Shuts
<1>4. PICK b \in BOOLEAN : b = (s.mem /\ a = "lock") BY <1>3
<1>5. PICK t : t = [s EXCEPT !.mem = b] OBVIOUS
<1>6. /\ t \in [open : BOOLEAN, born : Nat, mem : BOOLEAN, root : Nat, locks : Nat]
      /\ ~t.open /\ t.root = 0 /\ t.locks = 0
  BY <1>3, <1>5
<1>7. sess' = t BY <1>2, <1>4, <1>5 DEF Close
<1>8. PICK d : d = Begins("record", a) OBVIOUS
<1>9. "record" \in Steps /\ a \in Closings \cup {"none", "reconnect"}
  BY DEF Steps, Closings
<1>10. d \in LinkCalls /\ d.at = "record" /\ d.live /\ d.link = Unobserved /\ d.action = a
  BY <1>8, <1>9, BeginTyped
<1>11. PICK n \in Nat : n = IF sess.mem THEN 1 ELSE 0 OBVIOUS
<1>12. PICK r : r = [d EXCEPT !.locks = n] OBVIOUS
<1>13. r \in LinkCalls BY <1>10, <1>12 DEF LinkCalls
<1>14. r.at = "record" /\ r.live /\ r.link = Unobserved /\ r.action = a
  BY <1>10, <1>12 DEF LinkCalls
<1>15. ljob' = [Overtakes("none") EXCEPT !["close"] = r]
  BY <1>8, <1>11, <1>12 DEF Close
<1>16. PICK p \in {"close", "settings", "none"} : p = "close" OBVIOUS
<1>17. /\ p \in Calls /\ ljob' = [q \in Calls |-> ljob'[q]] /\ ljob'[p] = r
       /\ \A q \in Calls \ {p} : Left(q, ljob'[q])
  BY <1>16, <1>15, OvertakesBut DEF Calls
<1>18. PICK m : m = Marker OBVIOUS
<1>19. Stands /\ StoreTyped' /\ Retained' /\ Revoking' /\ Kept /\ Sticks /\ Marker' = m
  BY <1>1, <1>18, StoreStays
<1>20. Remains(p, m) BY <1>17, <1>18, AllFit DEF Remains
<1>21. Session(p) /\ Shared' BY <1>6, <1>7, <1>16, ClosedSession
<1>22. Fit(p, r, m)'
  BY <1>19, LinkAssumption, <1>14, NothingObserved, <1>16 DEF Stands, IdnTyped, AtHand, Clearing,
     Watches, Posted, Stored, Fit
<1>23. hint' \in 0..MaxRev BY <1>1 DEF LinkInv, Typed
<1>24. Enters(p, r, m) BY <1>13, <1>14, <1>17, <1>22 DEF Enters
<1>25. LinkInv' BY <1>19, <1>20, <1>21, <1>23, <1>24, NewLifecycle
<1> QED BY <1>19, <1>25 DEF Preserves

(* The user disconnects: the session shuts and the write is queued.          *)
LEMMA DisconnectHolds ==
    ASSUME LinkInv, Disconnect
    PROVE  Preserves
<1>1. /\ Act /\ disk' = disk /\ ram' = ram /\ hint' = hint /\ ghost' = ghost /\ idn' = idn
      /\ disk # None /\ ~LinkRunning("close")
  BY DEF Disconnect, Captures
<1>2. PICK s : s = Shut(sess) OBVIOUS
<1>3. /\ s \in [open : BOOLEAN, born : Nat, mem : BOOLEAN, root : Nat, locks : Nat]
      /\ ~s.open /\ s.root = 0 /\ s.locks = 0
  BY <1>2, Shuts
<1>4. sess' = s BY <1>2 DEF Disconnect
<1>5. PICK r : r = Begins("record", "disconnect") OBVIOUS
<1>6. /\ r \in LinkCalls /\ r.at = "record" /\ r.live /\ r.link = Unobserved /\ r.action = "disconnect"
  BY <1>5, BeginTyped DEF Steps, Closings
<1>7. ljob' = [Overtakes("none") EXCEPT !["settings"] = r]
  BY <1>5 DEF Disconnect
<1>8. PICK p \in {"close", "settings", "none"} : p = "settings" OBVIOUS
<1>9. /\ p \in Calls /\ ljob' = [q \in Calls |-> ljob'[q]] /\ ljob'[p] = r
      /\ \A q \in Calls \ {p} : ljob'[q] = Overtaken(q) /\ Left(q, ljob'[q])
  BY <1>8, <1>7, OvertakesBut DEF Calls
<1>10. ~LinkRunning("close")'
  BY <1>8, <1>9, <1>1, OvertakenIdle, IdleTyped DEF Calls, LinkRunning
<1>11. PICK m : m = Marker OBVIOUS
<1>12. Stands /\ StoreTyped' /\ Retained' /\ Revoking' /\ Kept /\ Sticks /\ Marker' = m
  BY <1>1, <1>11, StoreStays
<1>13. Remains(p, m) BY <1>9, <1>11, AllFit DEF Remains
<1>14. Session(p) /\ Shared' BY <1>3, <1>4, <1>10, ClosedSession
<1>15. Fit(p, r, m)'
  BY <1>12, LinkAssumption, <1>6, <1>8, NothingObserved, <1>1, <1>11 DEF Stands, IdnTyped, AtHand,
     Clearing, Watches, Marker, Posted, Stored, Fit
<1>16. hint' \in 0..MaxRev BY <1>1 DEF LinkInv, Typed
<1>17. Enters(p, r, m) BY <1>6, <1>9, <1>15 DEF Enters
<1>18. LinkInv' BY <1>12, <1>13, <1>14, <1>16, <1>17, NewLifecycle
<1> QED BY <1>12, <1>18 DEF Preserves

(* An unlock that publishes is a live one.                                   *)
LEMMA PublishLive ==
    ASSUME LinkInv, Publish, Live("unlock")
    PROVE  Preserves
<1>1. PICK c : c = ljob["unlock"] OBVIOUS
<1>2. /\ disk' = disk /\ ram' = ram /\ hint' = hint /\ ghost' = ghost /\ idn' = idn /\ Steady
      /\ c.at = "publish"
  BY <1>1 DEF Publish, At, Steady
<1>3. c \in LinkCalls /\ c.live /\ Unlocking(c, Marker) /\ LinkRunning("unlock")
  BY <1>1, <1>2, Job DEF Live, Calls
<1>4. PICK n \in Nat : n = c.root BY <1>3, CallTypes
<1>5. PICK k \in Nat : k = c.locks BY <1>3, CallTypes
<1>6. PICK s : s = [sess EXCEPT !.open = TRUE, !.mem = TRUE, !.root = n, !.locks = k]
  OBVIOUS
<1>7. sess \in [open : BOOLEAN, born : Nat, mem : BOOLEAN, root : Nat, locks : Nat]
  BY DEF LinkInv, Typed, SessTyped
<1>8. /\ s \in [open : BOOLEAN, born : Nat, mem : BOOLEAN, root : Nat, locks : Nat]
      /\ s.open /\ s.mem /\ s.root = n /\ s.locks = k /\ s.born = sess.born
  BY <1>6, <1>7
<1>9. sess' = s BY <1>1, <1>3, <1>4, <1>5, <1>6 DEF Publish
<1>10. PICK r : r = LinkIdle OBVIOUS
<1>11. ljob' = [Overtakes("unlock") EXCEPT !["unlock"] = r]
  BY <1>1, <1>3, <1>10 DEF Publish
<1>12. PICK u \in Calls : u = "unlock" BY DEF Calls
<1>13. /\ ljob' = [q \in Calls |-> ljob'[q]] /\ ljob'[u] = r
       /\ \A q \in Calls \ {u} : ljob'[q] = Overtaken(q) /\ Left(q, ljob'[q])
  BY <1>11, <1>12, OvertakesBut
<1>14. PICK p \in {"close", "settings", "none"} : p = "none" OBVIOUS
<1>15. PICK m : m = Marker OBVIOUS
<1>16. Stands /\ StoreTyped' /\ Retained' /\ Revoking' /\ Kept /\ Sticks /\ Marker' = m
  BY <1>2, <1>15, StoreStays
<1>17. Remains(p, m)
  BY <1>10, <1>13, <1>15, AllFit, LeavesNothing, <1>14 DEF Remains
<1>18. sess.born # 0 /\ ~LinkRunning("close")
  BY <1>1, <1>3 DEF Live, Calls, LinkInv, Ordered
<1>19. Session(p)
  <2>1. ~LinkRunning("close")'
    BY <1>12, <1>13, <1>18, OvertakenIdle, IdleTyped DEF Calls, LinkRunning
  <2>2. ~LinkRunning("unlock")'
    BY <1>10, <1>12, <1>13, IdleTyped DEF LinkRunning
  <2>3. At("settings", "record")' => n = 0
    BY <1>12, <1>13, <1>1, <1>2, <1>4 DEF Calls, Left, At, LinkInv, Ordered, Live
  <2> QED BY <1>8, <1>9, <1>14, <1>18, <2>1, <2>2, <2>3 DEF Session, SessTyped
<1>20. Shared'
  BY <1>3, <1>4, <1>15, <1>5, <1>2, <1>8, <1>9, <1>16 DEF Unlocking, Ready, Outlived, Shared,
     NoneLeft
<1>21. hint' \in 0..MaxRev BY <1>2 DEF LinkInv, Typed
<1>22. Enters(p, p, m) BY <1>14 DEF Enters
<1>23. LinkInv' BY <1>16, <1>17, <1>19, <1>20, <1>21, <1>22, NewLifecycle
<1> QED BY <1>16, <1>23 DEF Preserves

(* The unlock publishes its session, with or without sharing.                *)
LEMMA PublishHolds ==
    ASSUME LinkInv, Publish
    PROVE  Preserves
<1>1. CASE Live("unlock") BY <1>1, PublishLive
<1>2. CASE ~Live("unlock")
  <2>1. PICK p \in Calls : p = "unlock" BY DEF Calls
  <2>2. PICK r : r = LinkIdle OBVIOUS
  <2>3. LinkGoes(p, r) /\ sess' = sess /\ LinkRunning(p)
        /\ UNCHANGED <<idn, disk, ram, hint, ghost>> /\ Steady
    BY <1>2, <2>1, <2>2 DEF Publish, Live, LinkGoes, LinkRunning, At, Steady
  <2>4. r \in LinkCalls /\ r.at = "idle" /\ r.live = FALSE /\ r.root = 0 /\ r.locks = 0
    BY <2>2, IdleTyped
  <2>5. ~sess.open /\ sess.root = 0 /\ sess.locks = 0
    BY <2>1, <2>3 DEF LinkInv, Ordered
  <2>6. ljob'[p] = r /\ \A q \in Calls \ {p} : ljob'[q] = ljob[q]
    BY <2>3, JobsAfter DEF LinkInv, Typed
  <2>7. Ordered'
    BY <2>4, <2>6, <2>1, <2>3, <2>5 DEF LinkInv, Ordered, LinkRunning, Live, Calls, At
  <2>8. Monitored' BY <2>3, <2>5 DEF Monitored
  <2>9. PICK m : m = Marker OBVIOUS
  <2>10. Fit(p, r, m) /\ Unlocking(r, m) /\ InTurn(p, r)
    BY <2>2, IdleFits, <2>4 DEF LinkInv, Typed, Unlocking, InTurn
  <2>11. lcount'.ids \in Nat /\ lcount.ids <= lcount'.ids
    BY <2>3 DEF LinkInv, Typed, StoreTyped, Steady
  <2>12. /\ Turns(p) /\ IdnTyped' /\ GhostTyped' /\ KeepsRevoked
         /\ Fit(p, r, m)' /\ Unlocking(r, m)'
    BY <2>3, <2>10, <2>11, Quietly
  <2>13. hint' \in 0..MaxRev /\ disk' = disk /\ ram' = ram
    BY <2>3 DEF LinkInv, Typed
  <2> QED BY <2>3, <2>4, <2>5, <2>7, <2>8, <2>9, <2>10, <2>12, <2>13, WorldJob
<1> QED BY <1>1, <1>2

(* The settings clear the latch of the link they reconnected.                *)
LEMMA ClearBySettingsHolds ==
    ASSUME LinkInv, ClearBySettings
    PROVE  Preserves
<1>1. PICK z \in {"settings", "reconnect"} : z = "settings" OBVIOUS
<1>2. PICK m : m = Reconnecting(disk, ljob[z].link) OBVIOUS
<1>3. /\ Marker' = m /\ StoreTyped' /\ Retained' /\ Revoking' /\ Leaves(z, m) /\ Kept /\ Sticks
      /\ idn' = idn /\ ghost' = ghost /\ lcount'.ids \in Nat /\ lcount.ids <= lcount'.ids
  BY <1>1, <1>2, ClearsStore DEF ClearBySettings
<1>4. Stands BY <1>3 DEF Stands, LinkInv, Typed, IdnTyped
<1>5. PICK s : s = Shut(sess) OBVIOUS
<1>6. /\ s \in [open : BOOLEAN, born : Nat, mem : BOOLEAN, root : Nat, locks : Nat]
      /\ ~s.open /\ s.root = 0 /\ s.locks = 0
  BY <1>5, Shuts
<1>7. sess' = s BY <1>5 DEF ClearBySettings
<1>8. PICK p \in {"close", "settings", "none"} : p = "none" OBVIOUS
<1>9. Session(p) /\ Shared' BY <1>6, <1>7, <1>8, ClosedSession
<1>10. z \in Calls BY <1>1 DEF Calls
<1>11. PICK r : r = LinkIdle OBVIOUS
<1>12. ljob' = [Overtakes("none") EXCEPT ![z] = r]
  BY <1>1, <1>11 DEF ClearBySettings
<1>13. /\ ljob' = [q \in Calls |-> ljob'[q]] /\ ljob'[z] = r
       /\ \A q \in Calls \ {z} : Left(q, ljob'[q])
  BY <1>10, <1>12, OvertakesBut
<1>14. Remains(p, m)
  BY <1>3, <1>11, <1>13, LeavesNothing, <1>8 DEF Leaves, Remains
<1>15. Enters(p, p, m) /\ hint' \in 0..MaxRev
  BY <1>8 DEF Enters, ClearBySettings, LinkInv, Typed
<1>16. LinkInv' BY <1>3, <1>4, <1>9, <1>14, <1>15, NewLifecycle
<1> QED BY <1>3, <1>16 DEF Preserves

(* The worker restarts: memory is lost, the disk stays.                      *)
LEMMA LinkRestartHolds ==
    ASSUME LinkInv, LinkRestart
    PROVE  Preserves
<1>1. /\ Fault /\ disk' = disk /\ ram' = None /\ hint' = 0 /\ ghost' = ghost /\ idn' = idn
      /\ ljob' = [q \in Calls |-> LinkIdle]
  BY DEF LinkRestart
<1>2. /\ lcount' \in [acts : Nat, peer : Nat, faults : Nat, ids : Nat] /\ lcount'.ids = lcount.ids
      /\ lcount.ids \in Nat
  BY <1>1, Counts DEF LinkInv, Typed, StoreTyped
<1>3. Stands BY <1>1, <1>2 DEF Stands, LinkInv, Typed, IdnTyped
<1>4. PICK d : d = disk OBVIOUS
<1>5. d \in Markers \cup {None} /\ OneOfAKind(d) /\ Latching(d)
  BY <1>4 DEF LinkInv, Typed, StoreTyped, Revoking
<1>6. Markers \subseteq Markers' BY <1>2, Grow
<1>7. StoreTyped' BY <1>1, <1>4, <1>5, <1>6, <1>2 DEF StoreTyped, OneOfAKind
<1>8. Retained' BY <1>1 DEF Retained
<1>9. Revoking' BY <1>1 DEF Revoking, Latching, Denies, EverRevoked, LinkInv
<1>10. PICK s : s = Shut(sess) OBVIOUS
<1>11. /\ s \in [open : BOOLEAN, born : Nat, mem : BOOLEAN, root : Nat, locks : Nat]
       /\ s.open = FALSE /\ s.root = 0 /\ s.locks = 0
  BY <1>10, Shuts
<1>12. PICK t : t = [s EXCEPT !.mem = FALSE] OBVIOUS
<1>13. /\ t \in [open : BOOLEAN, born : Nat, mem : BOOLEAN, root : Nat, locks : Nat]
       /\ ~t.open /\ t.root = 0 /\ t.locks = 0
  BY <1>11, <1>12
<1>14. sess' = t BY <1>10, <1>12 DEF LinkRestart
<1>15. PICK p \in {"close", "settings", "none"} : p = "none" OBVIOUS
<1>16. Session(p) /\ Shared' BY <1>13, <1>14, <1>15, ClosedSession
<1>17. PICK m : m = Marker' OBVIOUS
<1>18. Remains(p, m) BY <1>1, LeavesNothing DEF Remains
<1>19. Enters(p, p, m) /\ hint' \in 0..MaxRev
  BY <1>1, <1>15, LinkAssumption DEF Enters
<1>20. LinkInv'
  BY <1>3, <1>7, <1>8, <1>9, <1>16, <1>17, <1>18, <1>19, NewLifecycle
<1>21. Kept /\ Sticks BY <1>1 DEF Kept, Sticks
<1> QED BY <1>20, <1>21 DEF Preserves

(* A closing ends.                                                           *)
LEMMA EndCloseHolds ==
    ASSUME LinkInv, EndClose
    PROVE  Preserves
<1>1. /\ disk' = disk /\ ram' = ram /\ hint' = hint /\ ghost' = ghost /\ idn' = idn /\ Steady
      /\ LinkGoes("close", LinkIdle) /\ LinkRunning("close")
  BY DEF EndClose, Steady, At, LinkRunning
<1>2. PICK z \in Calls \ {"unlock"} : z = "close" BY DEF Calls
<1>3. CASE sess' = sess BY <1>1, <1>2, <1>3, QuietEnds
<1>4. CASE sess' = [Shut(sess) EXCEPT !.born = 0, !.mem = FALSE]
  <2>1. PICK s : s = Shut(sess) OBVIOUS
  <2>2. /\ s \in [open : BOOLEAN, born : Nat, mem : BOOLEAN, root : Nat, locks : Nat]
        /\ s.open = FALSE /\ s.root = 0 /\ s.locks = 0
    BY <2>1, Shuts
  <2>3. PICK t : t = [s EXCEPT !.born = 0, !.mem = FALSE] OBVIOUS
  <2>4. /\ t \in [open : BOOLEAN, born : Nat, mem : BOOLEAN, root : Nat, locks : Nat]
        /\ ~t.open /\ t.root = 0 /\ t.locks = 0
    BY <2>2, <2>3
  <2>5. sess' = t BY <1>4, <2>1, <2>3
  <2>6. PICK p \in {"close", "settings", "none"} : p = "none" OBVIOUS
  <2>7. Session(p) /\ Shared' BY <2>4, <2>5, <2>6, ClosedSession
  <2>8. PICK m : m = Marker OBVIOUS
  <2>9. Stands /\ StoreTyped' /\ Retained' /\ Revoking' /\ Kept /\ Sticks /\ Marker' = m
    BY <1>1, <2>8, StoreStays
  <2>10. PICK r : r = LinkIdle OBVIOUS
  <2>11. /\ ljob'[z] = r /\ (\A q \in Calls \ {z} : ljob'[q] = ljob[q])
         /\ ljob' = [q \in Calls |-> ljob'[q]]
    BY <1>1, <1>2, <2>10 DEF LinkGoes, LinkInv, Typed, JobsTyped
  <2>12. Remains(p, m)
    <3>1. ASSUME NEW q \in Calls
          PROVE  Left(q, ljob'[q]) /\ (ljob'[q] = LinkIdle \/ (Posted(ljob[q], m) /\ Stored(q, ljob[q], m)))
      BY <2>10, <2>11, LeavesNothing, <1>1, <1>2, LeavesItself, <2>8, AllFit DEF LinkInv, Ordered
    <3> QED BY <2>6, <2>11, <3>1 DEF Remains
  <2>13. Enters(p, p, m) /\ hint' \in 0..MaxRev
    BY <1>1, <2>6 DEF Enters, LinkInv, Typed
  <2>14. LinkInv' BY <2>7, <2>9, <2>12, <2>13, NewLifecycle
  <2> QED BY <2>9, <2>14 DEF Preserves
<1> QED BY <1>3, <1>4 DEF EndClose

(* What a session that ends leaves in the store. *)
LEMMA EndingStores ==
    ASSUME LinkInv, MonitorClose
    PROVE  /\ Stands /\ StoreTyped' /\ Retained' /\ Revoking' /\ Kept /\ Sticks
           /\ \A q \in Calls : Posted(ljob[q], Marker') /\ Stored(q, ljob[q], Marker')
<1>1. /\ ram' = ram /\ ghost' = ghost /\ idn' = idn BY DEF MonitorClose
<1>2. PICK n : n = Taken(disk') OBVIOUS
<1>3. lcount' = [lcount EXCEPT !.ids = n] BY <1>2 DEF MonitorClose
<1>4. lcount \in [acts : Nat, peer : Nat, faults : Nat, ids : Nat] /\ lcount.ids \in Nat
  BY DEF LinkInv, Typed, StoreTyped
<1>5. n \in Nat /\ lcount.ids <= n BY <1>2, <1>4 DEF Taken
<1>6. lcount' \in [acts : Nat, peer : Nat, faults : Nat, ids : Nat] /\ lcount'.ids = n
  BY <1>3, <1>4, <1>5
<1>7. Stands BY <1>1, <1>5, <1>6 DEF Stands, LinkInv, Typed, IdnTyped
<1>8. EverRevoked' = EverRevoked BY <1>1 DEF EverRevoked
<1>9. KeepsRevoked BY <1>1, <1>8 DEF KeepsRevoked, LinkInv, Revoking
<1>10. CASE disk' = disk
  <2>1. Markers \subseteq Markers' BY <1>4, <1>5, <1>6, Grow
  <2>2. StoreTyped'
    BY <1>1, <1>10, <2>1, <1>6 DEF LinkInv, Typed, StoreTyped, OneOfAKind
  <2>3. Retained' BY <1>1, <1>10, RetainedStill
  <2>4. Revoking'
    BY <1>1, <1>10 DEF Revoking, Latching, Denies, EverRevoked, LinkInv
  <2>5. Marker' = Marker /\ Kept /\ Sticks BY <1>1, <1>10, Untouched
  <2> QED BY <1>7, <2>2, <2>3, <2>4, <2>5, AllFit
<1>11. CASE disk' = Observing(disk, ljob["monitor"].link) /\ Readable
  <2>1. PICK c : c = ljob["monitor"] OBVIOUS
  <2>2. c.at = "act" /\ "monitor" \in Calls
    BY <2>1 DEF MonitorClose, At, Calls
  <2>3. Learnt(c.link) /\ Stored("monitor", c, Marker)
    BY <2>1, <2>2, AllFit, Learns
  <2>4. Marker = disk /\ ram = None /\ disk # None
    BY <1>11, <2>2, <2>3 DEF Stored, Marker, Readable
  <2>5. PICK m : m = Observing(disk, c.link) OBVIOUS
  <2>6. Saves(m) /\ Leaves("none", m) /\ m # None /\ m.pending = disk.pending
    BY <1>11, <2>3, <2>4, <2>5, ObservingSaves DEF Learnt
  <2>7. disk' = m /\ ram' = None /\ Marker' = m
    BY <1>1, <1>11, <2>1, <2>4, <2>5 DEF Marker
  <2>8. m \in Markers' BY <1>2, <1>6, <2>6, <2>7, ComingTypes DEF Saves
  <2>9. StoreTyped'
    BY <1>6, <2>6, <2>7, <2>8 DEF StoreTyped, OneOfAKind, Saves
  <2>10. Retained' BY <2>7 DEF Retained
  <2>11. Revoking'
    BY <1>8, <2>6, LatchingStill, <2>7, <1>9 DEF Saves, Latching, Revoking, KeepsRevoked
  <2>12. Kept BY <2>6, <2>7 DEF Kept
  <2>13. Sticks BY <2>4, <2>6, <2>7 DEF Saves, Supersedes, Latched, Sticks
  <2>14. \A q \in Calls : Posted(ljob[q], m) /\ Stored(q, ljob[q], m)
    BY <2>6 DEF Leaves, Calls
  <2> QED BY <1>7, <2>7, <2>9, <2>10, <2>11, <2>12, <2>13, <2>14
<1> QED BY <1>10, <1>11 DEF MonitorClose

(* The monitor closes the session at a barrier.                              *)
LEMMA MonitorCloseHolds ==
    ASSUME LinkInv, MonitorClose
    PROVE  Preserves
<1>1. PICK m : m = Marker' OBVIOUS
<1>2. /\ Stands /\ StoreTyped' /\ Retained' /\ Revoking' /\ Kept /\ Sticks
      /\ \A q \in Calls : Posted(ljob[q], m) /\ Stored(q, ljob[q], m)
  BY <1>1, EndingStores
<1>3. PICK s : s = Shut(sess) OBVIOUS
<1>4. /\ s \in [open : BOOLEAN, born : Nat, mem : BOOLEAN, root : Nat, locks : Nat]
      /\ s.open = FALSE /\ s.root = 0 /\ s.locks = 0
  BY <1>3, Shuts
<1>5. PICK t : t = [s EXCEPT !.born = 0, !.mem = FALSE] OBVIOUS
<1>6. /\ t \in [open : BOOLEAN, born : Nat, mem : BOOLEAN, root : Nat, locks : Nat]
      /\ t.open = FALSE /\ t.root = 0 /\ t.locks = 0
  BY <1>4, <1>5
<1>7. sess' = s \/ sess' = t BY <1>3, <1>5 DEF MonitorClose
<1>8. PICK p \in {"close", "settings", "none"} : p = "none" OBVIOUS
<1>9. Session(p) /\ Shared' BY <1>4, <1>6, <1>7, <1>8, ClosedSession
<1>10. PICK z \in Calls : z = "monitor" BY DEF Calls
<1>11. PICK r : r = LinkIdle OBVIOUS
<1>12. ljob' = [Overtakes("none") EXCEPT ![z] = r]
  BY <1>10, <1>11 DEF MonitorClose
<1>13. /\ ljob' = [q \in Calls |-> ljob'[q]] /\ ljob'[z] = r
       /\ \A q \in Calls \ {z} : Left(q, ljob'[q])
  BY <1>12, OvertakesBut
<1>14. Remains(p, m) BY <1>2, <1>11, <1>13, LeavesNothing, <1>8 DEF Remains
<1>15. Enters(p, p, m) /\ hint' \in 0..MaxRev
  BY <1>8 DEF Enters, MonitorClose, LinkInv, Typed
<1>16. LinkInv' BY <1>1, <1>2, <1>9, <1>14, <1>15, NewLifecycle
<1> QED BY <1>2, <1>16 DEF Preserves

-----------------------------------------------------------------------------
(* The theorems. *)

(* The start.                                                                *)
LEMMA InitHolds == LinkInit => LinkInv
<1> SUFFICES ASSUME LinkInit PROVE LinkInv
  OBVIOUS
<1>1. PICK b \in BOOLEAN :
         /\ idn = [state |-> IF b THEN "locked" ELSE "none",
                   rev |-> IF b THEN 1 ELSE 0, seq |-> IF b THEN 1 ELSE 0,
                   inval |-> 0, out |-> 0, recon |-> 0, on |-> TRUE]
         /\ disk = IF b THEN [Fresh EXCEPT !.obs = [rev |-> 1, state |-> "locked"]]
                   ELSE None
         /\ sess = [open |-> FALSE, born |-> IF b THEN 1 ELSE 0, mem |-> b,
                    root |-> 0, locks |-> 0]
         /\ hint \in IF b THEN {0, 1} ELSE {0}
  BY DEF LinkInit
<1>2. /\ ram = None /\ ljob = [p \in Calls |-> LinkIdle]
      /\ lcount = [acts |-> 0, peer |-> 0, faults |-> 0, ids |-> 0]
      /\ ghost = [settled |-> {}, cut |-> 0, known |-> 0]
  BY DEF LinkInit
<1>3. MaxRev \in Nat /\ 0 \in 0..MaxRev /\ 1 \in 0..MaxRev BY LinkAssumption
<1>4. IdnTyped BY <1>1, <1>3 DEF IdnTyped
<1>5. /\ idn.recon = 0 /\ idn.state # "revoked" /\ idn.rev \in Nat /\ idn.inval = 0
  BY <1>1
<1>6. disk = None \/ (b /\ disk = [obs |-> [rev |-> 1, state |-> "locked"], pending |-> {}, disc |-> 0])
  BY <1>1 DEF Fresh
<1>7. disk \in Markers \cup {None} /\ (disk # None => disk.pending = {} /\ disk.disc = 0 /\ disk.obs.state = "locked")
  BY <1>2, <1>3, <1>6 DEF Ids, Markers, Links
<1>8. StoreTyped BY <1>2, <1>7 DEF StoreTyped, OneOfAKind
<1>9. SessTyped /\ GhostTyped /\ hint \in 0..MaxRev
  BY <1>1, <1>2, <1>3, <1>5 DEF SessTyped, GhostTyped
<1>10. JobsTyped BY <1>2, IdleTyped DEF JobsTyped
<1>11. Typed BY <1>4, <1>8, <1>9, <1>10 DEF Typed
<1>12. \A p \in Calls : ljob[p] = LinkIdle BY <1>2
<1>13. \A p \in Calls : ljob[p].at = "idle" /\ ljob[p].live = FALSE
  BY <1>12, IdleTyped
<1>14. ~sess.open /\ sess.root = 0 /\ sess.locks = 0 BY <1>1
<1>15. Ordered BY <1>13, <1>14 DEF Ordered, LinkRunning, Live, At, Calls
<1>16. Retained BY <1>2 DEF Retained
<1>17. Revoking BY <1>2, <1>5, <1>7 DEF Revoking, Latching, EverRevoked
<1>18. Shared BY <1>14 DEF Shared, Outlived
<1>19. Monitored BY <1>14 DEF Monitored
<1>20. Fits
  BY <1>4, <1>12, IdleFits, IdleTyped, <1>13 DEF Calls, Unlocking, Acked, At, Fits
<1> QED BY <1>11, <1>15, <1>16, <1>17, <1>18, <1>19, <1>20 DEF LinkInv

(* Nothing changes. *)
LEMMA StutterHolds ==
    ASSUME LinkInv, UNCHANGED linkVars
    PROVE  Preserves
BY Quietly, WorldMoves DEF linkVars, Steady, LinkInv, Typed, StoreTyped

(* Every step of a flush.                                                    *)
LEMMA FlushHolds ==
    ASSUME LinkInv, NEW p \in Flushers, Flush(p)
    PROVE  Preserves
BY FlushBeginHolds, FlushReadHolds, FlushEndHolds, FlushOffHolds, FlushObserveHolds,
   ServeClosingHolds, RefuseClosingHolds, FlushAckHolds DEF Flush

(* Every step of the session.                                                *)
LEMMA SessionStepHolds ==
    ASSUME LinkInv,
           \/ SignIn \/ LinkUnlock \/ AutoLock \/ LinkRestart
           \/ \E action \in {"lock", "logout"} : Close(action)
           \/ UnlockSteps \/ CloseSteps
    PROVE  Preserves
BY ReadCheckpointHolds, AuthorizeHolds, NotAuthorizedHolds, PublishHolds, RecordClosingHolds,
   EndCloseHolds, SignInHolds, LinkUnlockHolds, AutoLockHolds, LinkRestartHolds, CloseHolds DEF
   UnlockSteps, CloseSteps

(* Every step of the unlock, of the monitor and of the settings.             *)
LEMMA LinkStepHolds ==
    ASSUME LinkInv, Settings \/ Monitor \/ Reconcile
    PROVE  Preserves
<1>1. CASE Settings
  BY <1>1, DisconnectHolds, RecordDisconnectHolds, ReconnectHolds, ReadRevokedHolds,
     ServeReconnectHolds, RefuseReconnectHolds, ClearBySettingsHolds DEF Settings
<1>2. CASE Monitor
  BY <1>2, MonitorReadHolds, MonitorCloseHolds, MonitorObserveHolds DEF Monitor
<1>3. CASE Reconcile
  BY <1>3, ReconcileBeginHolds, ReconcileReadHolds, ReconcileObserveHolds, ClearByMonitorHolds
     DEF Reconcile
<1> QED BY <1>1, <1>2, <1>3

(* Every step of the specification.                                          *)
LEMMA StepHolds == LinkInv /\ [LinkNext]_linkVars => Preserves
<1> SUFFICES ASSUME LinkInv, [LinkNext]_linkVars PROVE Preserves
  OBVIOUS
<1>1. CASE UNCHANGED linkVars BY <1>1, StutterHolds
<1>2. CASE \/ SignIn \/ LinkUnlock \/ AutoLock \/ LinkRestart
           \/ \E action \in {"lock", "logout"} : Close(action)
           \/ UnlockSteps \/ CloseSteps
  BY <1>2, SessionStepHolds
<1>3. CASE Settings \/ Monitor \/ Reconcile BY <1>3, LinkStepHolds
<1>4. CASE Source BY <1>4, SourceHolds
<1>5. CASE \E p \in Flushers : Flush(p) BY <1>5, FlushHolds
<1>6. CASE \E p \in {"settings", "reconnect"} : ClearFails(p)
  BY <1>6, ClearFailsHolds
<1>7. CASE \E p \in Calls : Stops(p) BY <1>7, StopsHolds
<1>8. CASE Peer BY <1>8, PeerHolds
<1> QED BY <1>1, <1>2, <1>3, <1>4, <1>5, <1>6, <1>7, <1>8 DEF LinkNext

(* The inductive invariant holds in every state of every behaviour. *)
THEOREM LinkInvariant == LinkSpec => []LinkInv
<1>1. LinkInv /\ [LinkNext]_linkVars => LinkInv' BY StepHolds DEF Preserves
<1> QED BY <1>1, InitHolds, PTL DEF LinkSpec

(* The invariant implies the property that the run checks.                   *)
LEMMA Sound == LinkInv => LinkIsSound
<1> SUFFICES ASSUME LinkInv PROVE LinkIsSound
  OBVIOUS
<1>1. Link \in Links /\ {idn.seq, idn.inval, idn.out, idn.recon} \subseteq Nat
  BY Facts DEF LinkInv, Typed
<1>2. disk \in Markers \cup {None} /\ ram \in Markers \cup {None} /\ hint \in 0..MaxRev
  BY DEF LinkInv, Typed, StoreTyped
<1>3. Marker # None => \A i, j \in Marker.pending :
         (i.action = "disconnect") = (j.action = "disconnect") => i = j
  BY DEF LinkInv, Typed, StoreTyped, OneOfAKind, Marker
<1>4. sess.open => sess.born # 0 /\ sess.mem BY DEF LinkInv, Ordered
<1>5. \A p \in Calls : ljob[p].todo \subseteq Intents /\ ljob[p].link \in Links
  BY CallTypes DEF LinkInv, Typed, JobsTyped
<1>6. SharingHasDelivered
  BY DEF SharingHasDelivered, LinkInv, Shared, NoneLeft
<1> QED BY <1>1, <1>2, <1>3, <1>4, <1>5, <1>6 DEF LinkIsSound, LinkTypeOK

(* The marker is one that can be read back, and a session that shares has     *)
(* delivered every closing the user asked for before it.                     *)
THEOREM LinkSound == LinkSpec => []LinkIsSound
BY LinkInvariant, Sound, PTL

(* A closing leaves the marker only when Identity has carried it out, or said *)
(* that sharing is off, or when the user has since asked to log out.         *)
THEOREM ClosingsKept == LinkSpec => ClosingsAreKept
<1>1. LinkInv /\ [LinkNext]_linkVars =>
        [disk # None => \A i \in disk.pending : i \in disk'.pending \/ ~Forgotten(i)]_linkVars
  BY StepHolds DEF Preserves, Kept
<1> QED BY <1>1, LinkInvariant, PTL DEF LinkSpec, ClosingsAreKept

(* A latch is cleared only after Identity has carried every disconnection of  *)
(* this device out and the link was reconnected explicitly since; one that   *)
(* could not be written lasts as long as the worker.                         *)
THEOREM Disconnected == LinkSpec => DisconnectSticks
<1>1. LinkInv /\ [LinkNext]_linkVars =>
        [/\ Latched(disk) => Latched(disk') \/ Reconnected
         /\ Latched(ram) => Latched(Marker') \/ Reconnected \/ LinkRestart]_linkVars
  BY StepHolds DEF Preserves, Sticks
<1> QED BY <1>1, LinkInvariant, PTL DEF LinkSpec, DisconnectSticks

(* The monitor closes a session that knows its barrier only for a barrier     *)
(* that Identity set after the session began.                                *)
LEMMA ClosesForNew ==
    ASSUME LinkInv, MonitorClose, sess.root # 0 \/ sess.locks # 0
    PROVE  idn.inval > ghost.known
BY DEF MonitorClose, Current, Captures, Live, LinkInv, Monitored

(* BarriersAreNotReplayed: a session that has delivered a root, or that knows  *)
(* of a lock, closes for no barrier that was set before it began.             *)
THEOREM NotReplayed == LinkSpec => BarriersAreNotReplayed
<1>1. LinkInv /\ [LinkNext]_linkVars =>
        [MonitorClose /\ (sess.root # 0 \/ sess.locks # 0) => idn.inval > ghost.known]_linkVars
  BY ClosesForNew
<1> QED BY <1>1, LinkInvariant, PTL DEF LinkSpec, BarriersAreNotReplayed

=============================================================================
