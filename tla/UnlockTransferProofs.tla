------------------------ MODULE UnlockTransferProofs ------------------------
(* Proofs about UnlockTransfer, for any accounts and bounds: a selection is  *)
(* tried once and both ends mean the same by a transfer under way, whatever  *)
(* Identity issues is settled, and an end that was locked or signed out is   *)
(* not opened again with the authority that it had.                          *)
(*                                                                           *)
(* Base joins the types with what the ends agree on; on it stand, each with  *)
(* an invariant of its own, the roots (EndedInv), what was issued and stored *)
(* (SettledInv), and what the ends have told each other (SoundInv).          *)
EXTENDS UnlockTransfer, TLAPS

-----------------------------------------------------------------------------
(* Types of what the actions make. *)

(* The other end is an end. *)
LEMMA FarEnd ==
    ASSUME NEW s \in Ends
    PROVE  Far(s) \in Ends /\ Far(s) # s /\ Far(Far(s)) = s /\ Ends = {s, Far(s)}
BY DEF Ends, Far

(* A cancelled coordinator has no attempt, and is otherwise as it was.       *)
LEMMA CancelledFacts ==
    ASSUME NEW c \in Coordinators
    PROVE  /\ Cancelled(c) \in Coordinators
           /\ Cancelled(c).att = Nobody
           /\ Cancelled(c).own = c.own /\ Cancelled(c).peer = c.peer
           /\ Cancelled(c).sel = c.sel /\ Cancelled(c).tried = c.tried
           /\ Cancelled(c).pick = c.pick /\ Cancelled(c).ref = c.ref
           /\ Cancelled(c).ids = c.ids /\ Cancelled(c).up = c.up
  <1>1. PICK b \in BOOLEAN : b = (c.again \/ (c.att # Nobody /\ c.att.dir = "receiver"))
    OBVIOUS
  <1>2. Cancelled(c) = [c EXCEPT !.att = Nobody, !.again = b]
    BY <1>1 DEF Cancelled, Coordinators
  <1> QED BY <1>2 DEF Coordinators

(* A renewed coordinator has agreed on nothing.                              *)
LEMMA RenewedFacts ==
    ASSUME NEW c \in Coordinators
    PROVE  /\ Renewed(c) \in Coordinators
           /\ Renewed(c).att = Nobody
           /\ Renewed(c).own = c.own /\ Renewed(c).peer = c.peer
           /\ Renewed(c).sel = Nobody /\ Renewed(c).tried = Nobody
           /\ Renewed(c).pick.at = c.pick.at /\ ~Renewed(c).pick.cur
           /\ Renewed(c).pick.link = c.pick.link /\ Renewed(c).ref = c.ref
           /\ Renewed(c).ids = c.ids /\ Renewed(c).up = c.up
  <1> DEFINE d == Cancelled(c)
             k == [d.pick EXCEPT !.cur = FALSE]
             r == [d EXCEPT !.sel = Nobody, !.tried = Nobody, !.pick = k]
  <1>1. /\ d \in Coordinators /\ d.att = Nobody /\ d.own = c.own /\ d.peer = c.peer
        /\ d.pick = c.pick /\ d.ref = c.ref /\ d.ids = c.ids /\ d.up = c.up
    BY CancelledFacts
  <1>2. Renewed(c) = r BY DEF Renewed
  <1>3. d.pick \in Picks BY <1>1 DEF Coordinators
  <1> HIDE DEF d
  <1>4. k \in Picks /\ k.at = d.pick.at /\ ~k.cur /\ k.link = d.pick.link
    BY <1>3 DEF Picks
  <1> HIDE DEF k
  <1>5. ASSUME NEW b \in Coordinators, NEW q \in Picks
        PROVE  [b EXCEPT !.sel = Nobody, !.tried = Nobody, !.pick = q] \in Coordinators
    BY DEF Coordinators
  <1>6. /\ r.att = Nobody /\ r.own = d.own /\ r.peer = d.peer /\ r.sel = Nobody
        /\ r.tried = Nobody /\ r.ref = d.ref /\ r.ids = d.ids /\ r.up = d.up
        /\ r.pick = k
    BY <1>1 DEF Coordinators
  <1>7. r \in Coordinators BY <1>1, <1>4, <1>5
  <1> QED BY <1>1, <1>2, <1>4, <1>6, <1>7

(* A closed coordinator. *)
LEMMA DownFacts ==
    ASSUME NEW c \in Coordinators
    PROVE  /\ Down(c) \in Coordinators
           /\ Down(c).att = Nobody /\ Down(c).own = c.own /\ Down(c).peer = c.peer
           /\ Down(c).sel = Nobody /\ Down(c).tried = Nobody
           /\ Down(c).pick.at = "idle" /\ ~Down(c).up /\ Down(c).ref = "idle"
           /\ Down(c).ids = c.ids
  <1> DEFINE d == Renewed(c)
  <1>1. /\ d \in Coordinators /\ d.att = Nobody /\ d.own = c.own /\ d.peer = c.peer
        /\ d.sel = Nobody /\ d.tried = Nobody /\ d.ids = c.ids
    BY RenewedFacts
  <1>2. NoPick \in Picks /\ NoPick.at = "idle" BY DEF NoPick, Picks
  <1>3. Down(c) = [d EXCEPT !.up = FALSE, !.ref = "idle", !.pick = NoPick, !.again = FALSE]
    BY DEF Down
  <1> HIDE DEF d
  <1> QED BY <1>1, <1>2, <1>3 DEF Coordinators

(* What a pair of states agrees on.                                          *)
LEMMA PairFacts ==
    ASSUME NEW w \in States \cup {Nobody}, NEW e \in States \cup {Nobody},
           PairFor([web |-> w, ext |-> e]) # Nobody
    PROVE  LET p == PairFor([web |-> w, ext |-> e]) IN
           /\ w # Nobody /\ e # Nobody /\ w \in States /\ e \in States
           /\ p.from \in Ends /\ p.acct \in People /\ p.web = w.id /\ p.ext = e.id
           /\ p.web \in Nat /\ p.ext \in Nat
  <1> DEFINE r == [web |-> w, ext |-> e]
             from == IF Shares(w) THEN "web" ELSE "ext"
             p == [from |-> from, acct |-> r[from].acct, web |-> w.id, ext |-> e.id]
  <1>1. r.web = w /\ r.ext = e OBVIOUS
  <1>2. /\ Nobody \notin {w, e} /\ (Shares(w) \/ Shares(e)) /\ PairFor(r) = p
    BY <1>1 DEF PairFor, Far
  <1>3. from \in Ends /\ (from = "web" => Shares(w)) /\ (from = "ext" => Shares(e))
    BY <1>2 DEF Ends
  <1>4. r[from].acct \in People BY <1>1, <1>2, <1>3 DEF Shares, States, Ends
  <1>5. w.id \in Nat /\ e.id \in Nat /\ w \in States /\ e \in States
    BY <1>2 DEF States
  <1>6. PairFor(r).from = from /\ PairFor(r).acct = r[from].acct
        /\ PairFor(r).web = w.id /\ PairFor(r).ext = e.id
    BY <1>2
  <1> QED BY <1>2, <1>3, <1>4, <1>5, <1>6

(* The selection of a link for a pair.                                       *)
LEMMA SelectionTyped ==
    ASSUME NEW p, p.acct \in People, p.web \in Nat, p.ext \in Nat, NEW k \in Nat
    PROVE  Selection(p, k) \in Selections
BY DEF Selection, Selections

(* The pair of an end.                                                       *)
LEMMA RolesOf ==
    ASSUME NEW s \in Ends, co[s] \in Coordinators
    PROVE  \E w, e \in States \cup {Nobody} :
              /\ PairOf(s) = PairFor([web |-> w, ext |-> e])
              /\ Roles(s) = [web |-> w, ext |-> e]
              /\ s = "web" => w = co[s].own /\ e = co[s].peer
              /\ s = "ext" => w = co[s].peer /\ e = co[s].own
  BY DEF Coordinators, PairOf, Roles, Ends

(* select: what it picks is a selection, and nothing else changes.           *)
LEMMA SelectingFacts ==
    ASSUME NEW s \in Ends, NEW c \in Coordinators
    PROVE  LET d == Selecting(s, c) IN
           /\ d \in Coordinators
           /\ d.att = c.att /\ d.own = c.own /\ d.peer = c.peer /\ d.up = c.up
           /\ d.sel = c.sel /\ d.tried = c.tried /\ d.ref = c.ref /\ d.ids = c.ids
           /\ d.pick.at = c.pick.at \/ (s = "ext" /\ d.pick.at = "pick")
           /\ d.again = c.again
  <1> DEFINE p == PairFor([web |-> c.peer, ext |-> c.own])
  <1>1. CASE s = "ext" /\ c.pick.at = "idle" /\ p # Nobody
    <2>1. c.peer \in States \cup {Nobody} /\ c.own \in States \cup {Nobody}
      BY DEF Coordinators
    <2>2. p.acct \in People /\ p.web \in Nat /\ p.ext \in Nat
      BY <1>1, <2>1, PairFacts
    <2>3. Selection(p, 0) \in Selections BY <2>2, SelectionTyped
    <2> DEFINE k == [at |-> "pick", cur |-> TRUE, link |-> Selection(p, 0)]
    <2>4. k \in Picks /\ k.at = "pick" BY <2>3, NobodyAssumption DEF Picks
    <2>5. Selecting(s, c) = [c EXCEPT !.pick = k] BY <1>1 DEF Selecting
    <2> HIDE DEF k, p
    <2> QED BY <1>1, <2>4, <2>5 DEF Coordinators
  <1>2. CASE ~(s = "ext" /\ c.pick.at = "idle" /\ p # Nobody)
    BY <1>2 DEF Selecting
  <1> QED BY <1>1, <1>2

(* An own change. *)
LEMMA ChangedFacts ==
    ASSUME NEW c \in Coordinators
    PROVE  LET d == Changed(c) IN
           /\ d \in Coordinators
           /\ d.own = c.own /\ d.peer = c.peer /\ d.up = c.up
           /\ d.sel = c.sel /\ d.tried = c.tried /\ d.ref = c.ref /\ d.ids = c.ids
           /\ d.pick.at = c.pick.at /\ d.pick.link = c.pick.link
           /\ d.att = c.att \/ (d.att = Nobody /\ c.att # Nobody /\ c.att.dir = "source")
  <1>1. CASE ~c.up BY <1>1 DEF Changed
  <1>2. CASE c.up /\ c.att # Nobody /\ c.att.dir = "source"
    <2> DEFINE b == Cancelled(c)
    <2>1. /\ b \in Coordinators /\ b.att = Nobody /\ b.own = c.own /\ b.peer = c.peer
          /\ b.sel = c.sel /\ b.tried = c.tried /\ b.pick = c.pick /\ b.ref = c.ref
          /\ b.ids = c.ids /\ b.up = c.up
      BY CancelledFacts
    <2>2. Changed(c) = [b EXCEPT !.again = TRUE, !.needed = TRUE]
      BY <1>2 DEF Changed
    <2> HIDE DEF b
    <2> QED BY ZenonT(30), <1>2, <2>1, <2>2 DEF Coordinators
  <1>3. CASE c.up /\ ~(c.att # Nobody /\ c.att.dir = "source")
    <2>1. PICK k : k = [c.pick EXCEPT !.cur = @ /\ c.pick.at # "adopt"]
      OBVIOUS
    <2>2. c.pick \in Picks BY DEF Coordinators
    <2>3. k \in Picks /\ k.at = c.pick.at /\ k.link = c.pick.link
      BY <2>1, <2>2 DEF Picks
    <2>4. Changed(c) = [c EXCEPT !.again = TRUE, !.pick = k]
      BY <1>3, <2>1 DEF Changed
    <2> QED BY <2>3, <2>4 DEF Coordinators
  <1> QED BY <1>1, <1>2, <1>3

(* A coordinator of a new route. *)
LEMMA NewFacts ==
    ASSUME NEW k \in Nat
    PROVE  LET d == NewCoordinator(k) IN
           /\ d \in Coordinators /\ d.up /\ d.own = Nobody /\ d.peer = Nobody
           /\ d.att = Nobody /\ d.pick.at = "idle" /\ d.ref = "idle" /\ d.ids = k
  BY DEF NoPick, Picks, NewCoordinator, Coordinators

-----------------------------------------------------------------------------
(* The route: what is on its way to an end was there before, in that order,  *)
(* or is one of M and comes last.                                            *)
Carried(e, M) ==
    \E k \in {0, 1} : \A i \in 1 .. Len(wire'[e]) :
      \/ i + k <= Len(wire[e]) /\ wire'[e][i] = wire[e][i + k]
      \/ i + k = Len(wire[e]) + 1 /\ wire'[e][i] \in M
WireTyped == wire \in [Ends -> Seq(Messages)]
Routed(s, M) ==
    /\ WireTyped'
    /\ Carried(s, {}) /\ Carried(Far(s), IF co[Far(s)].up THEN M ELSE {})

(* Nothing is carried beyond what was there. *)
LEMMA CarriedSame ==
    ASSUME WireTyped, NEW e \in Ends, NEW M, wire'[e] = wire[e]
    PROVE  Carried(e, M)
  BY DEF WireTyped, Carried

(* A message is taken. *)
LEMMA CarriedTail ==
    ASSUME WireTyped, NEW e \in Ends, NEW M, wire[e] # <<>>, wire'[e] = Tail(wire[e])
    PROVE  Carried(e, M) /\ wire'[e] \in Seq(Messages)
  BY DEF WireTyped, Carried

(* A message is sent. *)
LEMMA CarriedAppend ==
    ASSUME WireTyped, NEW e \in Ends, NEW m \in Messages, wire'[e] = Append(wire[e], m)
    PROVE  Carried(e, {m}) /\ wire'[e] \in Seq(Messages)
  BY DEF WireTyped, Carried

(* The route to an end is emptied. *)
LEMMA CarriedNothing ==
    ASSUME NEW e \in Ends, NEW M, wire'[e] = <<>>
    PROVE  Carried(e, M) /\ wire'[e] \in Seq(Messages)
BY DEF Carried

(* The ways of the messages, one for each that an action has. *)
LEMMA SendsRouted ==
    ASSUME WireTyped, NEW s \in Ends, NEW m \in Messages, Sends(s, m)
    PROVE  Routed(s, {m}) /\ wire'[s] = wire[s]
  BY FarEnd, CarriedSame, CarriedAppend DEF WireTyped, Sends, Heard, Routed

(* A message is taken off the route. *)
LEMMA TakesRouted ==
    ASSUME WireTyped, NEW s \in Ends, wire[s] # <<>>, Takes(s)
    PROVE  Routed(s, {})
  BY FarEnd, CarriedTail, CarriedSame DEF Takes, WireTyped, Routed

(* A message is taken and another is sent. *)
LEMMA AnswersRouted ==
    ASSUME WireTyped, NEW s \in Ends, wire[s] # <<>>, NEW m \in Messages, Answers(s, m)
    PROVE  Routed(s, {m})
  <1>1. Far(s) \in Ends /\ Far(s) # s /\ wire[Far(s)] \in Seq(Messages)
    BY FarEnd DEF WireTyped
  <1> DEFINE w == [wire EXCEPT ![s] = Tail(wire[s])]
  <1>2. wire' = [w EXCEPT ![Far(s)] = IF co[Far(s)].up THEN Append(w[Far(s)], m) ELSE w[Far(s)]]
    BY DEF Answers, Heard
  <1>3. w \in [Ends -> Seq(Messages)] /\ w[s] = Tail(wire[s]) /\ w[Far(s)] = wire[Far(s)]
    BY <1>1 DEF WireTyped
  <1> HIDE DEF w
  <1>4. /\ wire'[s] = Tail(wire[s])
        /\ wire'[Far(s)] = IF co[Far(s)].up THEN Append(wire[Far(s)], m) ELSE wire[Far(s)]
    BY <1>1, <1>2, <1>3
  <1>5. Carried(s, {}) /\ wire'[s] \in Seq(Messages) BY <1>4, CarriedTail
  <1>6. CASE co[Far(s)].up
    BY <1>1, <1>4, <1>6, CarriedAppend, <1>2, <1>3, <1>5 DEF WireTyped, Routed
  <1>7. CASE ~co[Far(s)].up
    BY <1>1, <1>4, <1>7, CarriedSame, <1>2, <1>3, <1>5 DEF WireTyped, Routed
  <1> QED BY <1>6, <1>7

(* What was on the way to an end is dropped. *)
LEMMA EmptiesRouted ==
    ASSUME WireTyped, NEW s \in Ends, wire' = [wire EXCEPT ![s] = <<>>]
    PROVE  Routed(s, {}) /\ wire'[s] = <<>>
  BY FarEnd, CarriedNothing, CarriedSame DEF WireTyped, Routed

(* The route is left as it is. *)
LEMMA SameRouted ==
    ASSUME WireTyped, NEW s \in Ends, UNCHANGED wire
    PROVE  Routed(s, {})
  BY FarEnd, CarriedSame DEF Routed, WireTyped

-----------------------------------------------------------------------------
(* What the two ends agree on.                                               *)
Ntry == Len(idy.tries)
On(s, kind) == {i \in 1 .. Len(wire[s]) : wire[s][i].kind = kind}

(* An attempt is for the selection that was tried, and that both mean.       *)
AttemptOK(s) ==
    LET a == co[s].att IN
    a # Nobody =>
      /\ co[s].up /\ a.id <= Ntry /\ a.sel = idy.tries[a.id] /\ Matches(s, a.sel)
      /\ a.at \in {"scope", "wait", "ack"} => a.dir = "source"
      /\ a.at \in {"hand", "install", "aborted"} => a.dir = "receiver"
PreparesOK ==
    \A s \in Ends : \A i \in On(s, "prepare") :
      wire[s][i].id <= Ntry /\ wire[s][i].sel = idy.tries[wire[s][i].id]
(* A transaction is its attempt's, and one under way has the end to itself.  *)
TxAgree(n) ==
    tx[n] # Nobody =>
      /\ n <= Ntry /\ tx[n].acct = idy.tries[n].acct
      /\ tx[n].cur =>
           LET s == tx[n].side  a == co[s].att IN
           /\ a # Nobody /\ a.id = n /\ a.at \in {"hand", "install"}
           /\ ~home[s].busy /\ home[s].acct \in {Nobody, tx[n].acct}
           /\ home[s].closing # tx[n].acct
(* A receiver that has answered has a transaction.                           *)
Begun(s) ==
    LET a == co[s].att IN
    a # Nobody /\ a.at \in {"hand", "install", "aborted"} =>
      /\ tx[a.id] # Nobody /\ tx[a.id].side = s
      /\ a.at = "hand" => tx[a.id].at = "hand"
(* A closed coordinator. *)
Silent(s) ==
    ~co[s].up => /\ co[s].att = Nobody /\ wire[s] = <<>>
                 /\ co[s].pick.at = "idle" /\ co[s].ref = "idle"
Agreed == /\ \A s \in Ends : AttemptOK(s) /\ Begun(s) /\ Silent(s)
          /\ PreparesOK
          /\ \A n \in Tries : TxAgree(n)
Base == TransferTypeOK /\ Agreed

-----------------------------------------------------------------------------
(* The step of a coordinator: its attempt stays, goes on or goes, and the    *)
(* transactions of its end stay or are cancelled.                            *)
GoesOn(a, b) ==
    /\ b \in Attempts /\ b.id = a.id /\ b.dir = a.dir /\ b.sel = a.sel
    /\ b.at = a.at \/ (a.dir = "source" /\ b.at \in {"wait", "offer", "ack"})
StaysOrGoes(c, d) ==
    d.att # Nobody =>
      /\ c.att # Nobody /\ GoesOn(c.att, d.att)
      /\ d.own = c.own /\ d.peer = c.peer /\ d.up = c.up
LikeTx(n) ==
    /\ (tx'[n] = Nobody) = (tx[n] = Nobody)
    /\ tx[n] # Nobody =>
         /\ tx'[n].side = tx[n].side /\ tx'[n].acct = tx[n].acct
         /\ tx'[n].root = tx[n].root /\ tx'[n].prev = tx[n].prev
         /\ tx'[n].cur => tx[n].cur
SameTx(n) == LikeTx(n) /\ (tx[n] # Nobody => tx'[n].at = tx[n].at)
TxTyped == tx \in [Tries -> Transactions \cup {Nobody}]
Loosely(s) ==
    /\ TxTyped'
    /\ \A n \in Tries :
         /\ LikeTx(n)
         /\ tx'[n] # Nobody /\ tx'[n].cur /\ tx'[n].side = s =>
              co'[s].att # Nobody /\ co'[s].att.id = n
Eased(s) == Loosely(s) /\ \A n \in Tries : SameTx(n)
(* A transaction leaves its first step with its attempt. *)
AtsAgree ==
    \A n \in Tries : tx[n] # Nobody /\ tx[n].at = "hand" /\ tx'[n].at # "hand" =>
      LET s == tx[n].side IN co'[s].att = Nobody \/ co'[s].att.id # n
(* An installation that is aborted keeps its attempt until it has ended.     *)
Aborted(s) ==
    LET a == co[s].att  b == co'[s].att IN
    /\ a # Nobody /\ a.at = "install"
    /\ b \in Attempts /\ b.id = a.id /\ b.dir = a.dir /\ b.sel = a.sel /\ b.at = "aborted"
    /\ co'[s].own = co[s].own /\ co'[s].peer = co[s].peer /\ co'[s].up = co[s].up
    /\ \A n \in Tries : tx'[n] # Nobody /\ tx'[n].side = s => ~tx'[n].cur
CoTyped == co \in [Ends -> Coordinators]
Steady(s) == StaysOrGoes(co[s], co'[s]) \/ Aborted(s)
Apart(s, M) ==
    /\ CoTyped' /\ co'[Far(s)] = co[Far(s)]
    /\ Silent(s)' /\ Routed(s, M) /\ Loosely(s)
Alone(s, M) == Apart(s, M) /\ Eased(s)
Moves(s, M) == Steady(s) /\ Alone(s, M)
(* An attempt begins. *)
Starting(s) ==
    /\ co[s].att = Nobody /\ co'[s].att # Nobody /\ co'[s].att.at \in {"scope", "offer"}
    /\ co'[s].own = co[s].own /\ co'[s].peer = co[s].peer /\ co'[s].up = co[s].up
    /\ AttemptOK(s)'
TriesGrow ==
    /\ Ntry' \in Nat /\ Ntry <= Ntry'
    /\ \A i \in 1 .. Ntry : idy'.tries[i] = idy.tries[i]

(* What is under way stays beside an end that does not change.               *)
HomesAgree ==
    \A n \in Tries : tx'[n] # Nobody /\ tx'[n].cur =>
      LET s == tx'[n].side IN
      /\ home'[s].busy = home[s].busy /\ home'[s].acct = home[s].acct
      /\ home'[s].closing \in {home[s].closing, Nobody}

(* The parts of the types. *)
LEMMA TypeFacts ==
    ASSUME TransferTypeOK
    PROVE  /\ CoTyped /\ TxTyped /\ WireTyped
           /\ \A s \in Ends : co[s] \in Coordinators /\ home[s] \in Homes
           /\ \A n \in Tries : tx[n] \in Transactions \cup {Nobody}
           /\ home \in [Ends -> Homes]
BY DEF TransferTypeOK, CoTyped, TxTyped, WireTyped

(* A pair is told by what the two have said. *)
LEMMA SamePair ==
    ASSUME NEW s \in Ends, co'[s].own = co[s].own, co'[s].peer = co[s].peer
    PROVE  /\ PairOf(s)' = PairOf(s)
           /\ \A sel : Matches(s, sel)' = Matches(s, sel)
  BY DEF Roles, PairOf, Matches

(* Messages of a kind that is not sent were there before. *)
LEMMA CarriedOld ==
    ASSUME NEW e \in Ends, NEW M, Carried(e, M), NEW kind, \A m \in M : m.kind # kind
    PROVE  \E k \in {0, 1} : \A i \in On(e, kind)' :
              i + k \in On(e, kind) /\ wire'[e][i] = wire[e][i + k]
  <1>1. PICK k \in {0, 1} : \A i \in 1 .. Len(wire'[e]) :
             \/ i + k <= Len(wire[e]) /\ wire'[e][i] = wire[e][i + k]
             \/ i + k = Len(wire[e]) + 1 /\ wire'[e][i] \in M
    BY DEF Carried
  <1>2. ASSUME NEW i \in On(e, kind)'
        PROVE  i + k \in On(e, kind) /\ wire'[e][i] = wire[e][i + k]
    BY <1>2, <1>1 DEF On
  <1> QED BY <1>2

(* A coordinator's step keeps what the ends agree on.                        *)
LEMMA AgreedStill ==
    ASSUME Base, NEW s \in Ends, NEW M, Apart(s, M), Steady(s) \/ Starting(s),
           AtsAgree, HomesAgree, TriesGrow,
           \A m \in M : m.kind = "prepare" => m.id \in 1 .. Ntry /\ m.sel = idy.tries[m.id]
    PROVE  Agreed'
  <1>0. Far(s) \in Ends /\ Far(s) # s /\ \A e \in Ends : e = s \/ e = Far(s)
    BY FarEnd
  <1>00. /\ \A e \in Ends : AttemptOK(e) /\ Begun(e) /\ Silent(e)
         /\ PreparesOK /\ \A n \in Tries : TxAgree(n)
         /\ \A e \in Ends : co[e] \in Coordinators
         /\ Ntry \in Nat
    BY DEF Base, Agreed, TransferTypeOK, Ntry
  <1>1. /\ co'[Far(s)] = co[Far(s)]
        /\ StaysOrGoes(co[s], co'[s]) \/ Aborted(s) \/ Starting(s)
        /\ Silent(s)' /\ Routed(s, M) /\ Loosely(s)
    BY DEF Apart, Steady
  <1>01. /\ Ntry' \in Nat /\ Ntry <= Ntry'
         /\ \A i \in 1 .. Ntry : idy'.tries[i] = idy.tries[i]
    BY DEF TriesGrow
  <1>02. \A e \in Ends : co[e].att # Nobody => co[e].att.id \in 1 .. Ntry
    BY <1>00 DEF AttemptOK, Coordinators, Attempts, Tries
  <1>2. AttemptOK(s)'
    <2>1. CASE co'[s].att = Nobody BY <2>1 DEF AttemptOK
    <2>2. CASE co'[s].att # Nobody
      <3>0. CASE Starting(s) BY <3>0 DEF Starting
      <3>1. CASE ~Starting(s)
        BY <1>1, <2>2, <3>1, SamePair, <1>00, <1>02, <1>01 DEF StaysOrGoes, Aborted, GoesOn,
           AttemptOK, Matches
      <3> QED BY <3>0, <3>1
    <2> QED BY <2>1, <2>2
  <1>3. AttemptOK(Far(s))'
    BY <1>0, <1>1, SamePair, <1>00, <1>02, <1>01 DEF AttemptOK
  <1>4. Begun(s)' /\ Begun(Far(s))'
    <2>1. ASSUME NEW e \in Ends PROVE Begun(e)'
      <3>1. SUFFICES ASSUME co'[e].att # Nobody,
                            co'[e].att.at \in {"hand", "install", "aborted"}
                     PROVE  /\ tx'[co'[e].att.id] # Nobody /\ tx'[co'[e].att.id].side = e
                            /\ co'[e].att.at = "hand" => tx'[co'[e].att.id].at = "hand"
        BY DEF Begun
      <3>2. /\ co[e].att # Nobody /\ co[e].att.id = co'[e].att.id
            /\ \/ co[e].att.at = co'[e].att.at
               \/ co[e].att.at = "install" /\ co'[e].att.at = "aborted"
        BY <1>0, <1>1, <3>1 DEF StaysOrGoes, GoesOn, Aborted, Starting
      <3>3. co[e].att.id \in Tries BY <1>00, <3>2 DEF Coordinators, Attempts
      <3>4. LikeTx(co[e].att.id) BY <1>1, <3>3 DEF Loosely
      <3> QED BY <1>00, <3>1, <3>2, <3>3, <3>4 DEF Begun, LikeTx, AtsAgree
    <2> QED BY <1>0, <2>1
  <1>5. Silent(Far(s))'
    <2>1. CASE ~co[Far(s)].up
      <3>1. wire[Far(s)] = <<>> /\ co[Far(s)].att = Nobody /\ co[Far(s)].pick.at = "idle"
            /\ co[Far(s)].ref = "idle"
        BY <1>0, <1>00, <2>1 DEF Silent
      <3>2. Carried(Far(s), {}) /\ wire'[Far(s)] \in Seq(Messages)
        BY <1>0, <1>1, <2>1 DEF Routed, WireTyped
      <3>3. Len(wire[Far(s)]) = 0 BY <3>1
      <3>4. \A i \in 1 .. Len(wire'[Far(s)]) : FALSE BY <3>2, <3>3 DEF Carried
      <3>5. wire'[Far(s)] = <<>> BY <3>2, <3>4
      <3> QED BY <1>1, <3>1, <3>5 DEF Silent
    <2>2. CASE co[Far(s)].up BY <1>1, <2>2 DEF Silent
    <2> QED BY <2>1, <2>2
  <1>6. PreparesOK'
    <2>1. SUFFICES ASSUME NEW e \in Ends, NEW i \in On(e, "prepare")'
                   PROVE  /\ wire'[e][i].id \in 1 .. Ntry
                          /\ wire'[e][i].sel = idy.tries[wire'[e][i].id]
      BY <1>00, <1>01 DEF PreparesOK
    <2>2. PICK L : Carried(e, L) /\ \A m \in L : m \in M
      BY <1>1, <1>0 DEF Routed
    <2>3. i \in 1 .. Len(wire'[e]) /\ wire'[e][i].kind = "prepare" BY DEF On
    <2>4. PICK k \in {0, 1} :
             \/ i + k <= Len(wire[e]) /\ wire'[e][i] = wire[e][i + k]
             \/ wire'[e][i] \in L
      BY <2>2, <2>3 DEF Carried
    <2>5. CASE wire'[e][i] \in L BY <2>2, <2>3, <2>5
    <2>6. CASE i + k <= Len(wire[e]) /\ wire'[e][i] = wire[e][i + k]
      <3>1. i + k \in On(e, "prepare")
        BY <2>3, <2>6 DEF On
      <3>2. wire[e] \in Seq(Messages) /\ k \in Nat
        BY TypeFacts DEF Base, WireTyped
      <3>3. wire[e][i + k] \in Messages
        BY <2>3, <2>6, <3>2
      <3>4. wire[e][i + k].id \in Tries
        BY <2>3, <2>6, <3>3 DEF Messages
      <3> QED BY <1>00, <2>6, <3>1, <3>4 DEF PreparesOK, Tries
    <2> QED BY <2>4, <2>5, <2>6
  <1>7. ASSUME NEW n \in Tries PROVE TxAgree(n)'
    <2>1. LikeTx(n) /\ TxAgree(n) BY <1>00, <1>1 DEF Loosely
    <2>2. CASE tx'[n] = Nobody BY <2>2 DEF TxAgree
    <2>3. CASE tx'[n] # Nobody
      <3>1. /\ tx[n] # Nobody /\ tx'[n].side = tx[n].side /\ tx'[n].acct = tx[n].acct
            /\ tx'[n].cur => tx[n].cur
        BY <2>1, <2>3 DEF LikeTx
      <3>2. n <= Ntry' /\ tx'[n].acct = idy'.tries[n].acct
        BY <1>00, <1>01, <2>1, <3>1 DEF TxAgree, Tries
      <3>3. ASSUME tx'[n].cur
            PROVE  LET e == tx[n].side a == co'[e].att IN
                   /\ a # Nobody /\ a.id = n /\ a.at \in {"hand", "install"}
                   /\ ~home'[e].busy /\ home'[e].acct \in {Nobody, tx[n].acct}
                   /\ home'[e].closing # tx[n].acct
        <4> DEFINE e == tx[n].side
        <4>1. e \in Ends BY <3>1 DEF Base, TransferTypeOK, Transactions
        <4>2. /\ co[e].att # Nobody /\ co[e].att.id = n /\ co[e].att.at \in {"hand", "install"}
              /\ ~home[e].busy /\ home[e].acct \in {Nobody, tx[n].acct}
              /\ home[e].closing # tx[n].acct
          BY <2>1, <3>1, <3>3 DEF TxAgree
        <4>3. /\ home'[e].busy = home[e].busy /\ home'[e].acct = home[e].acct
              /\ home'[e].closing \in {home[e].closing, Nobody} /\ tx[n].acct # Nobody
          BY <2>3, <3>1, <3>3, NobodyAssumption DEF HomesAgree, Base, TransferTypeOK, Transactions
        <4>4. co'[e].att # Nobody /\ co'[e].att.id = n /\ co'[e].att.at \in {"hand", "install"}
          <5>1. CASE e = s
            BY <1>1, <2>3, <3>1, <3>3, <5>1, <1>00, <4>2 DEF Loosely, AttemptOK, Aborted, Starting,
               StaysOrGoes, GoesOn
          <5>2. CASE e = Far(s) BY <1>1, <4>2, <5>2
          <5> QED BY <1>0, <4>1, <5>1, <5>2
        <4> QED BY <4>2, <4>3, <4>4
      <3> QED BY <3>1, <3>2, <3>3 DEF TxAgree
    <2> QED BY <2>2, <2>3
  <1> QED BY <1>0, <1>1, <1>2, <1>3, <1>4, <1>5, <1>6, <1>7 DEF Agreed


-----------------------------------------------------------------------------
(* What a coordinator's own steps come to.                                   *)

(* A cancelled transaction is otherwise as it was. *)
LEMMA CancelledTx ==
    ASSUME NEW t \in Transactions
    PROVE  LET u == [t EXCEPT !.cur = FALSE] IN
           /\ u \in Transactions /\ u # Nobody /\ ~u.cur
           /\ u.side = t.side /\ u.acct = t.acct /\ u.root = t.root /\ u.at = t.at
           /\ u.prev = t.prev
BY NobodyAssumption DEF Transactions

(* Abandoned: only what is still the attempt of the end goes on.             *)
LEMMA BecomesEased ==
    ASSUME TransferTypeOK, NEW s \in Ends, NEW c \in Coordinators, Becomes(s, c)
    PROVE  CoTyped' /\ co'[s] = c /\ co'[Far(s)] = co[Far(s)] /\ Eased(s)
  BY FarEnd, TypeFacts, CancelledTx DEF Becomes, CoTyped, Abandoned, SameTx, LikeTx, TxTyped, Eased,
     Loosely

(* A coordinator that keeps its attempt, lets it go on or drops it. *)
LEMMA BecomesMoves ==
    ASSUME TransferTypeOK, NEW s \in Ends, NEW c \in Coordinators, Becomes(s, c),
           StaysOrGoes(co[s], c), NEW M, Routed(s, M),
           ~c.up => /\ c.att = Nobody /\ wire'[s] = <<>>
                    /\ c.pick.at = "idle" /\ c.ref = "idle"
    PROVE  Moves(s, M) /\ co'[s] = c
BY BecomesEased DEF Moves, Alone, Apart, Eased, Steady, Silent

(* An attempt that stays. *)
LEMMA AttemptStays ==
    ASSUME NEW b \in Coordinators, NEW c \in Coordinators,
           c.att = Nobody \/ (c.att = b.att /\ c.own = b.own /\ c.peer = b.peer /\ c.up = b.up)
    PROVE  StaysOrGoes(b, c)
BY DEF StaysOrGoes, GoesOn, Coordinators

(* fail *)
LEMMA FailsMoves ==
    ASSUME TransferTypeOK, NEW s \in Ends, FailsAt(s)
    PROVE  Moves(s, {}) /\ co'[s] = Down(co[s])
  <1>1. co[s] \in Coordinators /\ Down(co[s]) \in Coordinators /\ WireTyped
    BY TypeFacts, DownFacts
  <1>2. StaysOrGoes(co[s], Down(co[s])) BY <1>1, DownFacts, AttemptStays
  <1>3. Routed(s, {}) /\ wire'[s] = <<>> BY <1>1, EmptiesRouted DEF FailsAt
  <1>4. Becomes(s, Down(co[s])) BY DEF FailsAt
  <1> QED BY <1>1, <1>2, <1>3, <1>4, BecomesMoves, DownFacts

(* cancel *)
LEMMA CancelsMoves ==
    ASSUME Base, NEW s \in Ends, GivesUp(s), co[s].att # Nobody, NEW M, Routed(s, M)
    PROVE  Moves(s, M) /\ co'[s] = Cancelled(co[s])
  BY TypeFacts, CancelledFacts, AttemptStays, BecomesMoves DEF Base, Agreed, AttemptOK, GivesUp

(* What else stays at a coordinator's step. *)
SameHomes ==
    /\ home' \in [Ends -> Homes]
    /\ \A e \in Ends :
         /\ home'[e].acct = home[e].acct /\ home'[e].status = home[e].status
         /\ home'[e].root = home[e].root /\ home'[e].busy = home[e].busy
         /\ home'[e].closing = home[e].closing /\ home'[e].sealed = home[e].sealed
         /\ home'[e].receipt = home[e].receipt
Plain(M) == \A m \in M : m.kind \notin {"prepare", "handoff"}
CoStep(s, M) ==
    /\ Moves(s, M) /\ SameHomes /\ UNCHANGED <<floor, idy, shut>>
    /\ events' \in 0 .. MaxEvents
QuietStep(s) == \E M : Plain(M) /\ CoStep(s, M)

(* Untouched homes are the same homes. *)
LEMMA SameHomesStay ==
    ASSUME TransferTypeOK, UNCHANGED home PROVE SameHomes
BY TypeFacts DEF SameHomes

(* The attempts stay. *)
LEMMA TriesStay ==
    ASSUME Base, idy'.tries = idy.tries PROVE TriesGrow /\ Ntry' = Ntry
BY DEF Base, TransferTypeOK, TriesGrow, Ntry

(* Transactions that stay where they are do not leave their first step. *)
LEMMA AtsStay ==
    ASSUME NEW s, Eased(s) PROVE AtsAgree
BY DEF Eased, SameTx, AtsAgree

(* A coordinator's step keeps the base. *)
LEMMA CoStepBase ==
    ASSUME Base, NEW s \in Ends, NEW M, CoStep(s, M),
           \A m \in M : m.kind = "prepare" => m.id \in 1 .. Ntry /\ m.sel = idy.tries[m.id]
    PROVE  Base'
  <1>1. HomesAgree
    BY DEF HomesAgree, CoStep, Moves, Alone, Apart, Loosely, TxTyped, Transactions, SameHomes
  <1>2. Agreed'
    BY <1>1, TriesStay, AtsStay, AgreedStill DEF CoStep, Moves, Alone
  <1>3. TransferTypeOK'
    BY DEF CoStep, Moves, Alone, Apart, SameHomes, Routed, Loosely, Base, TransferTypeOK, CoTyped, TxTyped,
           WireTyped
  <1> QED BY <1>2, <1>3 DEF Base

(* A step that neither offers nor hands over keeps what is agreed. *)
LEMMA QuietBase ==
    ASSUME Base, NEW s \in Ends, QuietStep(s) PROVE Base'
  <1>1. PICK M : Plain(M) /\ CoStep(s, M) BY DEF QuietStep
  <1>2. \A m \in M : m.kind = "prepare" => m.id \in 1 .. Ntry /\ m.sel = idy.tries[m.id]
    BY <1>1 DEF Plain
  <1> QED BY <1>1, <1>2, CoStepBase

(* Two of its forms. *)
LEMMA QuietSends ==
    ASSUME Base, NEW s \in Ends, NEW m, Moves(s, {m}), m.kind \notin {"prepare", "handoff"},
           Privately
    PROVE  QuietStep(s)
  BY SameHomesStay DEF Base, TransferTypeOK, Privately, Plain, CoStep, QuietStep

(* A coordinator step that sends nothing is such a step. *)
LEMMA QuietMoves ==
    ASSUME Base, NEW s \in Ends, Moves(s, {}), UNCHANGED <<home, floor, idy, shut>>,
           events' = events \/ Happens
    PROVE  QuietStep(s)
  BY TransferAssumption, SameHomesStay DEF Base, TransferTypeOK, Happens, Plain, CoStep, QuietStep

-----------------------------------------------------------------------------
(* The messages, by their kind. *)
LEMMA MessageTaken ==
    ASSUME Base, NEW s \in Ends, NEW kind, Gets(s, kind)
    PROVE  /\ co[s].up /\ wire[s] # <<>> /\ Msg(s) = wire[s][1] /\ Msg(s).kind = kind
           /\ Msg(s) \in Messages /\ 1 \in On(s, kind)
  BY TypeFacts DEF Base, Gets, WireTyped, Msg, On

(* What each kind of message carries. *)
LEMMA MessageParts ==
    ASSUME NEW m \in Messages
    PROVE  /\ m.kind = "state" => m.state \in States
           /\ m.kind \in {"link", "chosen", "prepare"} => m.sel \in Selections
           /\ m.kind \in {"prepare", "prepared", "offer", "answer", "ack", "cancel", "handoff"}
                => m.id \in Tries
           /\ m.kind = "handoff" => m.root \in Nat
BY DEF Messages

(* What is sent is a message. *)
LEMMA MessagesMade ==
    /\ \A x \in States : [kind |-> "state", state |-> x] \in Messages
    /\ \A x \in Selections : /\ [kind |-> "link", sel |-> x] \in Messages
                             /\ [kind |-> "chosen", sel |-> x] \in Messages
    /\ \A n \in Tries :
         /\ \A x \in Selections : [kind |-> "prepare", id |-> n, sel |-> x] \in Messages
         /\ \A k \in {"prepared", "offer", "answer", "ack", "cancel"} :
              [kind |-> k, id |-> n] \in Messages
         /\ \A r \in Nat : [kind |-> "handoff", id |-> n, root |-> r] \in Messages
BY DEF Messages

(* Status: what an end reads of itself. *)
LEMMA StatusTyped ==
    ASSUME TransferTypeOK, NEW s \in Ends, NEW k \in Nat
    PROVE  LET x == Status(s) IN
           [id |-> k, acct |-> x.acct, status |-> x.status, gen |-> x.gen] \in States
BY TypeFacts DEF Status, States, Homes

-----------------------------------------------------------------------------
(* The steps of a coordinator that leave its attempt or end it.              *)
LEMMA RefreshesQuiet ==
    ASSUME Base, NEW s \in Ends, Refreshes(s) PROVE QuietStep(s)
  <1>1. TransferTypeOK /\ co[s] \in Coordinators /\ WireTyped
    BY TypeFacts DEF Base
  <1> DEFINE c == [co[s] EXCEPT !.again = FALSE]
             x == [id |-> c.ids + 1, acct |-> Status(s).acct,
                   status |-> Status(s).status, gen |-> Status(s).gen]
             d == [Renewed(c) EXCEPT !.ref = "send", !.needed = FALSE, !.ids = @ + 1,
                                     !.own = x]
  <1>2. Becomes(s, IF Unchanged(c, Status(s)) THEN c ELSE d)
    BY Zenon DEF Refreshes
  <1>3. /\ c \in Coordinators /\ c.att = co[s].att /\ c.own = co[s].own /\ c.peer = co[s].peer
        /\ c.up = co[s].up /\ c.ids = co[s].ids /\ c.ref = co[s].ref
    BY <1>1 DEF Coordinators
  <1>4. c.up /\ Routed(s, {}) BY <1>1, SameRouted DEF Refreshes
  <1> HIDE DEF c
  <1>5. x \in States BY <1>3, <1>1, StatusTyped DEF Coordinators
  <1> HIDE DEF x
  <1>7. d \in Coordinators /\ d.att = Nobody /\ d.up = c.up
    <2>1. ASSUME NEW r \in Coordinators, NEW y \in States, NEW k \in Nat
          PROVE  LET e == [r EXCEPT !.ref = "send", !.needed = FALSE, !.ids = k, !.own = y]
                 IN e \in Coordinators /\ e.att = r.att /\ e.up = r.up
      BY DEF Coordinators
    <2>2. Renewed(c) \in Coordinators /\ Renewed(c).att = Nobody /\ Renewed(c).up = c.up
      BY <1>3, RenewedFacts
    <2>3. Renewed(c).ids + 1 \in Nat BY <2>2 DEF Coordinators
    <2> QED BY <1>5, <2>1, <2>2, <2>3
  <1> HIDE DEF d
  <1>8. c.up /\ (Becomes(s, c) \/ Becomes(s, d)) /\ Routed(s, {})
    BY <1>2, <1>4
  <1>9. StaysOrGoes(co[s], c) /\ StaysOrGoes(co[s], d)
    BY <1>1, <1>3, <1>7, AttemptStays
  <1>10. Moves(s, {}) BY <1>1, <1>3, <1>7, <1>8, <1>9, BecomesMoves
  <1> QED BY <1>10, QuietMoves DEF Refreshes, Privately

(* Telling a state offers nothing. *)
LEMMA TellsStateQuiet ==
    ASSUME Base, NEW s \in Ends, TellsState(s) PROVE QuietStep(s)
  <1>1. TransferTypeOK /\ co[s] \in Coordinators /\ WireTyped
    BY TypeFacts DEF Base
  <1>2. CASE FailsAt(s)
    BY <1>1, <1>2, FailsMoves, QuietMoves DEF TellsState, Privately
  <1>3. CASE co[s].own # Nobody
    <2>1. PICK b : b = [co[s] EXCEPT !.ref = "idle"] OBVIOUS
    <2>2. /\ b \in Coordinators /\ b.att = co[s].att /\ b.own = co[s].own
          /\ b.peer = co[s].peer /\ b.up = co[s].up
      BY <1>1, <2>1 DEF Coordinators
    <2>3. PICK c : c = Selecting(s, b) OBVIOUS
    <2>4. /\ c \in Coordinators /\ c.att = co[s].att /\ c.own = co[s].own
          /\ c.peer = co[s].peer /\ c.up = co[s].up
      BY <2>2, <2>3, SelectingFacts
    <2>5. co[s].up BY DEF TellsState, Base, Agreed, Silent
    <2>6. PICK m : m = [kind |-> "state", state |-> co[s].own] OBVIOUS
    <2>7. m \in Messages /\ m.kind = "state"
      BY <1>1, <1>3, <2>6, MessagesMade DEF Coordinators
    <2>8. Routed(s, {m}) BY <1>1, <1>3, <2>6, <2>7, SendsRouted DEF TellsState
    <2>9. Becomes(s, c) BY <1>3, <2>1, <2>3 DEF TellsState
    <2>10. Moves(s, {m})
      BY <1>1, <2>4, <2>5, <2>8, <2>9, AttemptStays, BecomesMoves
    <2> QED BY <2>7, <2>10, QuietSends DEF TellsState
  <1> QED BY <1>2, <1>3 DEF TellsState

(* Hearing a state offers nothing. *)
LEMMA GetsStateQuiet ==
    ASSUME Base, NEW s \in Ends, GetsState(s) PROVE QuietStep(s)
  <1>1. TransferTypeOK /\ co[s] \in Coordinators /\ WireTyped
    BY TypeFacts DEF Base
  <1>2. /\ co[s].up /\ wire[s] # <<>> /\ Msg(s).state \in States
    BY MessageTaken, MessageParts DEF GetsState
  <1>3. PICK r : r = Renewed(co[s]) OBVIOUS
  <1>4. r \in Coordinators /\ r.att = Nobody /\ r.up
    BY <1>1, <1>2, <1>3, RenewedFacts
  <1>5. PICK b : b = [r EXCEPT !.peer = Msg(s).state] OBVIOUS
  <1>6. b \in Coordinators /\ b.att = Nobody /\ b.up
    BY <1>2, <1>4, <1>5 DEF Coordinators
  <1>7. PICK c : c = Selecting(s, b) OBVIOUS
  <1>8. c \in Coordinators /\ c.att = Nobody /\ c.up
    BY <1>6, <1>7, SelectingFacts
  <1>9. Becomes(s, c) BY <1>3, <1>5, <1>7 DEF GetsState
  <1>10. Routed(s, {}) BY <1>1, <1>2, TakesRouted DEF GetsState
  <1>11. Moves(s, {}) BY <1>1, <1>8, <1>9, <1>10, AttemptStays, BecomesMoves
  <1> QED BY <1>11, QuietMoves DEF GetsState, Privately

(* A coordinator that is done selecting. *)
LEMMA DoneFacts ==
    ASSUME NEW c \in Coordinators
    PROVE  /\ Done(c) \in Coordinators /\ Done(c).att = c.att /\ Done(c).own = c.own
           /\ Done(c).peer = c.peer /\ Done(c).up = c.up /\ Done(c).pick.at = "idle"
           /\ Done(c).tried = c.tried /\ Done(c).ref = c.ref /\ Done(c).ids = c.ids
           /\ Done(c).sel = c.sel
  BY DEF NoPick, Picks, Done, Coordinators

(* The selection at hand. *)
LEMMA PickTyped ==
    ASSUME Base, NEW s \in Ends, co[s].pick.at # "idle"
    PROVE  /\ co[s].up /\ co[s].pick.link \in Selections
           /\ \A k \in Nat : [co[s].pick.link EXCEPT !.link = k] \in Selections
  BY TypeFacts DEF Base, Agreed, Silent, Coordinators, Picks, Selections

(* A selection is set. *)
LEMMA SelectedFacts ==
    ASSUME NEW c \in Coordinators, NEW x \in Selections
    PROVE  LET d == [Done(c) EXCEPT !.sel = x] IN
           /\ d \in Coordinators /\ d.att = c.att /\ d.own = c.own /\ d.sel = x
           /\ d.peer = c.peer /\ d.up = c.up /\ d.pick.at = "idle"
           /\ d.tried = c.tried /\ d.ref = c.ref /\ d.ids = c.ids
  <1>1. PICK e : e = Done(c) OBVIOUS
  <1>2. /\ e \in Coordinators /\ e.att = c.att /\ e.own = c.own
        /\ e.peer = c.peer /\ e.up = c.up /\ e.pick.at = "idle"
        /\ e.tried = c.tried /\ e.ref = c.ref /\ e.ids = c.ids
    BY <1>1, DoneFacts
  <1> QED BY <1>1, <1>2 DEF Coordinators

(* The extension selects a link: nothing is offered. *)
LEMMA PicksLinkQuiet ==
    ASSUME Base, NEW s \in Ends, PicksLink(s) PROVE QuietStep(s)
  <1>1. TransferTypeOK /\ co[s] \in Coordinators /\ WireTyped /\ home[s].mark \in Nat
    BY TypeFacts DEF Base, Homes
  <1>2. PICK x : x = [co[s].pick.link EXCEPT !.link = home[s].mark] OBVIOUS
  <1>3. x \in Selections /\ co[s].up BY <1>1, <1>2, PickTyped DEF PicksLink
  <1>4. CASE co[s].pick.cur /\ Admits(s, x)
    <2>1. PICK c : c = [Done(co[s]) EXCEPT !.sel = x] OBVIOUS
    <2>2. /\ c \in Coordinators /\ c.att = co[s].att /\ c.own = co[s].own
          /\ c.peer = co[s].peer /\ c.up = co[s].up
      BY <1>1, <1>3, <2>1, SelectedFacts
    <2>3. PICK m : m = [kind |-> "link", sel |-> x] OBVIOUS
    <2>4. m \in Messages /\ m.kind = "link" BY <1>3, <2>3, MessagesMade
    <2>5. Becomes(s, c) /\ Sends(s, m) BY <1>2, <1>4, <2>1, <2>3 DEF PicksLink
    <2>6. Routed(s, {m}) BY <1>1, <2>4, <2>5, SendsRouted
    <2>7. Moves(s, {m})
      BY <1>1, <1>3, <2>2, <2>5, <2>6, AttemptStays, BecomesMoves
    <2> QED BY <2>4, <2>7, QuietSends DEF PicksLink
  <1>5. CASE ~(co[s].pick.cur /\ Admits(s, x))
    <2>1. PICK c : c \in {Done(co[s]), Selecting(s, Done(co[s]))} /\ Becomes(s, c)
      BY <1>2, <1>5 DEF PicksLink
    <2>2. /\ c \in Coordinators /\ c.att = co[s].att /\ c.own = co[s].own
          /\ c.peer = co[s].peer /\ c.up = co[s].up
      BY <1>1, <2>1, DoneFacts, SelectingFacts
    <2>3. Routed(s, {}) BY <1>1, <1>2, <1>5, SameRouted DEF PicksLink
    <2>4. Moves(s, {})
      BY <1>1, <1>3, <2>1, <2>2, <2>3, AttemptStays, BecomesMoves
    <2> QED BY <2>4, QuietMoves DEF PicksLink, Privately
  <1> QED BY <1>4, <1>5

(* The selected link arrives: nothing is offered. *)
LEMMA GetsLinkQuiet ==
    ASSUME Base, NEW s \in Ends, GetsLink(s) PROVE QuietStep(s)
  <1>1. TransferTypeOK /\ co[s] \in Coordinators /\ WireTyped
    BY TypeFacts DEF Base
  <1>2. co[s].up /\ wire[s] # <<>> /\ Msg(s).sel \in Selections
    BY MessageTaken, MessageParts DEF GetsLink
  <1>3. CASE FailsAt(s)
    BY <1>1, <1>3, FailsMoves, QuietMoves DEF GetsLink, Privately
  <1>4. CASE ~FailsAt(s)
    <2>1. PICK k : k = [at |-> "pick", cur |-> TRUE, link |-> Msg(s).sel]
      OBVIOUS
    <2>2. k \in Picks BY <1>2, <2>1, NobodyAssumption DEF Picks
    <2>3. PICK c : c = IF co[s].sel = Msg(s).sel THEN co[s] ELSE [co[s] EXCEPT !.pick = k]
      OBVIOUS
    <2>4. /\ c \in Coordinators /\ c.att = co[s].att /\ c.own = co[s].own
          /\ c.peer = co[s].peer /\ c.up = co[s].up
      BY <1>1, <2>2, <2>3 DEF Coordinators
    <2>5. Becomes(s, c) /\ Takes(s) BY <1>4, <2>1, <2>3, Zenon DEF GetsLink
    <2>6. Routed(s, {}) BY <1>1, <1>2, <2>5, TakesRouted
    <2>7. Moves(s, {})
      BY <1>1, <1>2, <2>4, <2>5, <2>6, AttemptStays, BecomesMoves
    <2> QED BY <2>7, QuietMoves DEF GetsLink, Privately
  <1> QED BY <1>3, <1>4

(* The extension adopts a link: nothing is offered. *)
LEMMA AdoptsLinkQuiet ==
    ASSUME Base, NEW s \in Ends, AdoptsLink(s) PROVE QuietStep(s)
  <1>1. TransferTypeOK /\ co[s] \in Coordinators /\ WireTyped /\ home \in [Ends -> Homes]
    BY TypeFacts DEF Base
  <1>2. co[s].pick.link \in Selections /\ co[s].up BY PickTyped DEF AdoptsLink
  <1>3. CASE FailsAt(s) /\ UNCHANGED home
    BY <1>1, <1>3, FailsMoves, QuietMoves DEF AdoptsLink
  <1>4. CASE Becomes(s, Done(co[s])) /\ UNCHANGED <<home, wire>>
    BY <1>1, <1>2, <1>4, DoneFacts, SameRouted, AttemptStays, BecomesMoves, QuietMoves DEF
       AdoptsLink
  <1>5. CASE /\ Becomes(s, [Done(co[s]) EXCEPT !.sel = co[s].pick.link])
             /\ home' = [home EXCEPT ![s].mark = co[s].pick.link.link, ![s].used = TRUE]
             /\ Sends(s, [kind |-> "link", sel |-> co[s].pick.link])
    <2>1. PICK c : c = [Done(co[s]) EXCEPT !.sel = co[s].pick.link] OBVIOUS
    <2>2. /\ c \in Coordinators /\ c.att = co[s].att /\ c.own = co[s].own
          /\ c.peer = co[s].peer /\ c.up = co[s].up
      BY <1>1, <1>2, <2>1, SelectedFacts
    <2>3. PICK m : m = [kind |-> "link", sel |-> co[s].pick.link] OBVIOUS
    <2>4. m \in Messages /\ m.kind = "link" BY <1>2, <2>3, MessagesMade
    <2>5. Moves(s, {m})
      BY <1>1, <1>2, <1>5, <2>1, <2>2, <2>3, <2>4, SendsRouted, AttemptStays, BecomesMoves
    <2>6. SameHomes
      <3>1. PICK k \in Nat : k = co[s].pick.link.link BY <1>2 DEF Selections
      <3>2. PICK h : h = [home[s] EXCEPT !.mark = k, !.used = TRUE] OBVIOUS
      <3>3. /\ h \in Homes /\ h.acct = home[s].acct /\ h.status = home[s].status
            /\ h.root = home[s].root /\ h.busy = home[s].busy /\ h.sealed = home[s].sealed
            /\ h.closing = home[s].closing /\ h.receipt = home[s].receipt
        BY ZenonT(30), <1>1, <3>1, <3>2 DEF Homes
      <3>4. home' = [home EXCEPT ![s] = h] BY <1>1, <1>5, <3>1, <3>2
      <3> QED BY <1>1, <3>3, <3>4 DEF SameHomes
    <2>7. events' \in 0 .. MaxEvents BY <1>1 DEF AdoptsLink, TransferTypeOK
    <2>8. Plain({m}) /\ CoStep(s, {m})
      BY <2>4, <2>5, <2>6, <2>7 DEF Plain, CoStep, AdoptsLink
    <2> QED BY <2>8 DEF QuietStep
  <1> QED BY <1>3, <1>4, <1>5, Zenon DEF AdoptsLink

(* The route is seen to be gone: the attempt is dropped. *)
LEMMA SeesRouteGoneQuiet ==
    ASSUME Base, NEW s \in Ends, SeesRouteGone(s) PROVE QuietStep(s)
  BY FailsMoves, QuietMoves DEF SeesRouteGone, Base, Privately

(* The route breaks: the attempt is dropped. *)
LEMMA RouteBreaksQuiet ==
    ASSUME Base, NEW s \in Ends, RouteBreaks(s) PROVE QuietStep(s)
  BY FailsMoves, QuietMoves DEF RouteBreaks, Base

(* A preference or the link changed: the attempt is dropped. *)
LEMMA CancelsPendingQuiet ==
    ASSUME Base, NEW s \in Ends, CancelsPending(s) PROVE QuietStep(s)
  <1>1. TransferTypeOK /\ co[s] \in Coordinators /\ WireTyped
    BY TypeFacts DEF Base
  <1>2. PICK r : r = Renewed(co[s]) OBVIOUS
  <1>3. PICK c : c = [r EXCEPT !.again = TRUE, !.own = Nobody] OBVIOUS
  <1>4. r \in Coordinators /\ r.att = Nobody /\ r.up = co[s].up
    BY <1>1, <1>2, RenewedFacts
  <1>5. c \in Coordinators /\ c.att = Nobody /\ c.up
    BY <1>3, <1>4 DEF Coordinators, CancelsPending
  <1>6. Becomes(s, c) /\ Routed(s, {})
    BY <1>1, <1>2, <1>3, SameRouted DEF CancelsPending
  <1>7. Moves(s, {}) BY <1>1, <1>5, <1>6, AttemptStays, BecomesMoves
  <1> QED BY <1>7, QuietMoves DEF CancelsPending

(* An attempt that is not the message's: the message is dropped. *)
LEMMA DropsMoves ==
    ASSUME Base, NEW s \in Ends, wire[s] # <<>>, Takes(s), UNCHANGED <<co, tx>>, co[s].up
    PROVE  Moves(s, {})
  <1>1. TransferTypeOK /\ co[s] \in Coordinators /\ CoTyped /\ TxTyped
    BY TypeFacts DEF Base
  <1>2. Routed(s, {}) BY <1>1, TypeFacts, TakesRouted
  <1>3. StaysOrGoes(co[s], co'[s]) BY <1>1, AttemptStays
  <1>4. Eased(s)
    BY <1>1 DEF TxTyped, SameTx, LikeTx, Base, Agreed, TxAgree, Eased, Loosely
  <1> QED BY <1>1, <1>2, <1>3, <1>4 DEF Moves, Alone, Apart, Eased, Steady, CoTyped, Silent

(* The acknowledgement ends the attempt at its source. *)
LEMMA GetsAckQuiet ==
    ASSUME Base, NEW s \in Ends, GetsAck(s) PROVE QuietStep(s)
  BY MessageTaken, TypeFacts, TakesRouted, CancelsMoves, DropsMoves, QuietMoves DEF GetsAck, Base,
     Mine, Attempt, Privately

-----------------------------------------------------------------------------
(* The steps of an attempt at its source. *)
LEMMA ReachesMoves ==
    ASSUME Base, NEW s \in Ends, co[s].att # Nobody, co[s].att.dir = "source",
           NEW step \in {"wait", "offer", "ack"}, NEW r \in Nat,
           Becomes(s, [Reaches(s, step) EXCEPT !.att.root = r]) \/ Becomes(s, Reaches(s, step)),
           NEW M, Routed(s, M)
    PROVE  /\ Moves(s, M) /\ co'[s].att # Nobody /\ co'[s].att.at = step
           /\ co'[s].att.id = co[s].att.id
  <1>1. TransferTypeOK /\ co[s] \in Coordinators /\ co[s].att \in Attempts /\ co[s].up
    BY TypeFacts DEF Base, Coordinators, Agreed, AttemptOK
  <1>2. PICK a : a \in {[co[s].att EXCEPT !.at = step, !.root = r], [co[s].att EXCEPT !.at = step]}
                 /\ Becomes(s, [co[s] EXCEPT !.att = a])
    <2>1. CASE Becomes(s, Reaches(s, step)) BY <2>1 DEF Reaches
    <2>2. CASE Becomes(s, [Reaches(s, step) EXCEPT !.att.root = r])
      <3> DEFINE b == [co[s].att EXCEPT !.at = step]
                 d == [co[s] EXCEPT !.att = b]
      <3>1. Reaches(s, step) = d BY DEF Reaches
      <3>2. d.att = b BY <1>1 DEF Coordinators
      <3>3. [d EXCEPT !.att = [b EXCEPT !.root = r]] = [co[s] EXCEPT !.att = [b EXCEPT !.root = r]]
        BY <1>1 DEF Coordinators
      <3>4. [b EXCEPT !.root = r] = [co[s].att EXCEPT !.at = step, !.root = r]
        BY <1>1 DEF Attempts
      <3>5. [Reaches(s, step) EXCEPT !.att.root = r] = [d EXCEPT !.att = [d.att EXCEPT !.root = r]]
        BY <3>1
      <3> HIDE DEF b, d
      <3>6. Becomes(s, [d EXCEPT !.att = [d.att EXCEPT !.root = r]])
        BY <2>2, <3>5
      <3>7. Becomes(s, [co[s] EXCEPT !.att = [b EXCEPT !.root = r]])
        BY <3>2, <3>3, <3>6
      <3> QED BY <3>4, <3>7
    <2> QED BY <2>1, <2>2
  <1>3. /\ a \in Attempts /\ a.id = co[s].att.id /\ a.dir = co[s].att.dir
        /\ a.sel = co[s].att.sel /\ a.at = step /\ a # Nobody
    BY ZenonT(30), <1>1, <1>2, NobodyAssumption DEF Attempts
  <1>4. PICK c : c = [co[s] EXCEPT !.att = a] OBVIOUS
  <1>5. /\ c \in Coordinators /\ c.att = a /\ c.own = co[s].own /\ c.peer = co[s].peer
        /\ c.up = co[s].up
    BY <1>1, <1>3, <1>4 DEF Coordinators
  <1>6. StaysOrGoes(co[s], c) BY <1>3, <1>5 DEF StaysOrGoes, GoesOn
  <1>7. Moves(s, M) /\ co'[s] = c
    BY <1>1, <1>2, <1>4, <1>5, <1>6, BecomesMoves
  <1> QED BY <1>3, <1>5, <1>7

(* prepareSource offers the selection that was tried, once. *)
PreparedStep(s) ==
    \E m \in Messages :
      /\ CoStep(s, {m}) /\ m.kind = "prepare"
      /\ Sending(s, "scope") /\ m.id = Attempt(s).id /\ m.sel = Attempt(s).sel
      /\ co'[s].att # Nobody /\ co'[s].att.at = "wait"

(* prepareSource offers the attempt or gives it up. *)
LEMMA PreparesSteps ==
    ASSUME Base, NEW s \in Ends, Prepares(s) PROVE QuietStep(s) \/ PreparedStep(s)
  <1>1. /\ WireTyped /\ co[s].att # Nobody /\ co[s].att.dir = "source"
        /\ co[s].att \in Attempts /\ TransferTypeOK
    BY TypeFacts DEF Base, Prepares, Sending, Attempt, Coordinators
  <1>2. CASE GivesUp(s) /\ UNCHANGED wire
    BY <1>1, <1>2, SameRouted, CancelsMoves, QuietMoves DEF Prepares, Privately
  <1>3. CASE /\ Becomes(s, Reaches(s, "wait"))
             /\ Sends(s, [kind |-> "prepare", id |-> Attempt(s).id, sel |-> Attempt(s).sel])
    <2>1. PICK m : m = [kind |-> "prepare", id |-> Attempt(s).id, sel |-> Attempt(s).sel]
      OBVIOUS
    <2>2. /\ m \in Messages /\ m.kind = "prepare" /\ m.id = Attempt(s).id
          /\ m.sel = Attempt(s).sel
      BY <1>1, <2>1, MessagesMade DEF Attempt, Attempts
    <2>3. Routed(s, {m}) BY <1>1, <1>3, <2>1, <2>2, SendsRouted
    <2>4. Moves(s, {m}) /\ co'[s].att # Nobody /\ co'[s].att.at = "wait"
      BY <1>1, <1>3, <2>3, ReachesMoves
    <2>5. CoStep(s, {m})
      BY <1>1, <2>4, SameHomesStay DEF CoStep, Prepares, Privately, TransferTypeOK
    <2> QED BY <2>2, <2>4, <2>5 DEF PreparedStep, Prepares
  <1> QED BY <1>2, <1>3 DEF Prepares

(* The source goes on to its offer, or gives up. *)
LEMMA GetsPreparedQuiet ==
    ASSUME Base, NEW s \in Ends, GetsPrepared(s) PROVE QuietStep(s)
  <1>1. /\ WireTyped /\ co[s].up /\ wire[s] # <<>> /\ TransferTypeOK /\ home[s].root \in Nat
    BY MessageTaken, TypeFacts DEF Base, GetsPrepared, Homes
  <1>2. CASE Takes(s) /\ UNCHANGED <<co, tx>>
    BY <1>1, <1>2, DropsMoves, QuietMoves DEF GetsPrepared, Privately
  <1>3. CASE Sending(s, "wait") /\ GivesUp(s) /\ Takes(s)
    BY <1>1, <1>3, TakesRouted, CancelsMoves, QuietMoves DEF Sending, Attempt, GetsPrepared,
       Privately
  <1>4. CASE /\ Sending(s, "wait")
             /\ Becomes(s, [Reaches(s, "offer") EXCEPT !.att.root = home[s].root])
             /\ Answers(s, [kind |-> "offer", id |-> Attempt(s).id])
    <2>1. PICK m : m = [kind |-> "offer", id |-> Attempt(s).id] OBVIOUS
    <2>2. co[s].att # Nobody /\ co[s].att \in Attempts /\ co[s].att.dir = "source"
      BY <1>1, <1>4, TypeFacts DEF Sending, Attempt, Coordinators
    <2>3. m \in Messages /\ m.kind = "offer"
      BY <2>1, <2>2, MessagesMade DEF Attempt, Attempts
    <2>4. Routed(s, {m}) BY <1>1, <1>4, <2>1, <2>3, AnswersRouted
    <2>5. Moves(s, {m}) BY <1>1, <1>4, <2>2, <2>4, ReachesMoves
    <2> QED BY <2>3, <2>5, QuietSends DEF GetsPrepared
  <1> QED BY <1>2, <1>3, <1>4 DEF GetsPrepared

(* createOperation, seal: what is handed over is the authority of the open   *)
(* session of the account that is meant.                                     *)
HandedStep(s) ==
    \E m \in Messages :
      /\ CoStep(s, {m}) /\ m.kind = "handoff"
      /\ co[s].att # Nobody /\ m.id = co[s].att.id /\ m.root = home[s].root
      /\ home[s].root # 0 /\ home[s].acct = co[s].att.sel.acct

(* The source hands its keys over, or gives up. *)
LEMMA GetsAnswerSteps ==
    ASSUME Base, NEW s \in Ends, GetsAnswer(s) PROVE QuietStep(s) \/ HandedStep(s)
  <1>1. /\ WireTyped /\ co[s].up /\ wire[s] # <<>> /\ TransferTypeOK /\ home[s].root \in Nat
    BY MessageTaken, TypeFacts DEF Base, GetsAnswer, Homes
  <1>2. CASE Takes(s) /\ UNCHANGED <<co, tx>>
    BY <1>1, <1>2, DropsMoves, QuietMoves DEF GetsAnswer, Privately
  <1>3. CASE Mine(s) /\ GivesUp(s) /\ Takes(s)
    BY <1>1, <1>3, TakesRouted, CancelsMoves, QuietMoves DEF Mine, Attempt, GetsAnswer, Privately
  <1>4. CASE /\ Sending(s, "offer") /\ CanSend(s)
             /\ Becomes(s, Reaches(s, "ack"))
             /\ Answers(s, [kind |-> "handoff", id |-> Attempt(s).id, root |-> home[s].root])
    <2>1. PICK m : m = [kind |-> "handoff", id |-> Attempt(s).id, root |-> home[s].root]
      OBVIOUS
    <2>2. co[s].att # Nobody /\ co[s].att \in Attempts /\ co[s].att.dir = "source"
      BY <1>1, <1>4, TypeFacts DEF Sending, Attempt, Coordinators
    <2>3. m \in Messages /\ m.kind = "handoff" /\ m.id = co[s].att.id /\ m.root = home[s].root
      BY <1>1, <2>1, <2>2, MessagesMade DEF Attempt, Attempts
    <2>4. Routed(s, {m}) BY <1>1, <1>4, <2>1, <2>3, AnswersRouted
    <2>5. Moves(s, {m}) BY <1>1, <1>4, <2>2, <2>4, ReachesMoves
    <2>6. CoStep(s, {m})
      BY <1>1, <2>5, SameHomesStay DEF CoStep, GetsAnswer, Privately, TransferTypeOK
    <2> QED BY <1>4, <2>2, <2>3, <2>6 DEF HandedStep, CanSend, Attempt
  <1> QED BY <1>2, <1>3, <1>4 DEF GetsAnswer

(* An abort. *)
LEMMA AbortsMoves ==
    ASSUME Base, NEW s \in Ends, co[s].att # Nobody, Aborts(s), NEW M, Routed(s, M)
    PROVE  Moves(s, M)
  <1>1. /\ TransferTypeOK /\ co[s] \in Coordinators /\ co[s].att \in Attempts /\ co[s].up
        /\ Begun(s) /\ CoTyped /\ TxTyped
    BY TypeFacts DEF Base, Coordinators, Agreed, AttemptOK
  <1>2. CASE GivesUp(s) BY <1>1, <1>2, CancelsMoves
  <1>3. CASE /\ Receiving(s, "install")
             /\ co' = [co EXCEPT ![s] = Reaches(s, "aborted")]
             /\ tx' = [tx EXCEPT ![Attempt(s).id].cur = FALSE]
    <2>1. PICK n : n = co[s].att.id OBVIOUS
    <2>2. n \in Tries /\ tx[n] \in Transactions /\ tx[n].side = s
      BY <1>1, <1>3, <2>1, TypeFacts DEF Attempts, Begun, Receiving, Attempt
    <2>3. PICK u : u = [tx[n] EXCEPT !.cur = FALSE] OBVIOUS
    <2>4. /\ u \in Transactions /\ u # Nobody /\ ~u.cur
          /\ u.side = tx[n].side /\ u.acct = tx[n].acct /\ u.root = tx[n].root
          /\ u.at = tx[n].at /\ u.prev = tx[n].prev
      BY <2>2, <2>3, CancelledTx
    <2>5. tx' = [tx EXCEPT ![n] = u] BY <1>3, <2>1, <2>3 DEF Attempt
    <2>6. TxTyped' /\ tx'[n] = u /\ \A m \in Tries : m # n => tx'[m] = tx[m]
      BY <1>1, <2>2, <2>4, <2>5 DEF TxTyped
    <2>7. PICK a : a = [co[s].att EXCEPT !.at = "aborted"] OBVIOUS
    <2>8. /\ a \in Attempts /\ a.id = n /\ a.dir = co[s].att.dir /\ a.sel = co[s].att.sel
          /\ a.at = "aborted" /\ a # Nobody
      BY <1>1, <2>1, <2>7, NobodyAssumption DEF Attempts
    <2>9. PICK c : c = [co[s] EXCEPT !.att = a] OBVIOUS
    <2>10. /\ c \in Coordinators /\ c.att = a /\ c.own = co[s].own /\ c.peer = co[s].peer
           /\ c.up = co[s].up
      BY <1>1, <2>8, <2>9 DEF Coordinators
    <2>11. co' = [co EXCEPT ![s] = c] BY <1>3, <2>7, <2>9 DEF Reaches
    <2>12. CoTyped' /\ co'[s] = c /\ co'[Far(s)] = co[Far(s)]
      BY <1>1, <2>10, <2>11, FarEnd DEF CoTyped
    <2>13. \A m \in Tries : tx[m] # Nobody /\ tx[m].side = s /\ tx[m].cur => m = n
      BY <2>1 DEF Base, Agreed, TxAgree
    <2>14. \A m \in Tries : tx'[m] # Nobody /\ tx'[m].side = s => ~tx'[m].cur
      BY <1>1, <2>4, <2>6, <2>13 DEF TxTyped, Transactions
    <2>15. \A m \in Tries : SameTx(m)
      BY <2>2, <2>4, <2>6, NobodyAssumption DEF SameTx, LikeTx
    <2>16. Eased(s) BY <2>6, <2>14, <2>15 DEF Eased, Loosely, SameTx
    <2>17. Aborted(s)
      BY <1>3, <2>1, <2>8, <2>10, <2>12, <2>14 DEF Aborted, Receiving, Attempt
    <2> QED BY <1>1, <2>10, <2>12, <2>16, <2>17 DEF Moves, Alone, Apart, Eased, Steady, Silent
  <1> QED BY <1>2, <1>3 DEF Aborts

(* A cancellation drops the attempt, or aborts its installation. *)
LEMMA GetsCancelQuiet ==
    ASSUME Base, NEW s \in Ends, GetsCancel(s) PROVE QuietStep(s)
  BY MessageTaken, TypeFacts, TakesRouted, AbortsMoves, DropsMoves, QuietMoves DEF GetsCancel, Base,
     Mine, Attempt, Privately

(* So does a timeout. *)
LEMMA TimesOutQuiet ==
    ASSUME Base, NEW s \in Ends, TimesOut(s) PROVE QuietStep(s)
  BY TypeFacts, SameRouted, AbortsMoves, QuietMoves DEF TimesOut, Base, Attempt

-----------------------------------------------------------------------------
(* The beginning of an attempt at its source. *)
OpenedStep(s) ==
    \E M : /\ Plain(M) /\ Alone(s, M) /\ Starting(s)
           /\ co'[s].att.dir = "source" /\ co'[s].att.at = "scope"
           /\ co'[s].att.id = Ntry + 1 /\ Ntry + 1 \in Tries
           /\ co'[s].att.sel \in Selections
           /\ idy' = [idy EXCEPT !.tries = Append(idy.tries, co'[s].att.sel)]
           /\ UNCHANGED <<home, floor, shut, events>>

(* A selection appended leaves the earlier attempts their numbers. *)
LEMMA AttemptsAppended ==
    ASSUME Base, NEW x \in Selections, idy'.tries = Append(idy.tries, x)
    PROVE  /\ TriesGrow /\ Ntry \in Nat /\ Ntry' = Ntry + 1 /\ idy'.tries[Ntry + 1] = x
           /\ idy'.tries \in Seq(Selections)
  BY DEF Base, TransferTypeOK, TriesGrow, Ntry

(* startSource: the coordinator goes on as it was, or an attempt begins. *)
LEMMA OpensSteps ==
    ASSUME Base, NEW s \in Ends, NEW c \in Coordinators, c.att = co[s].att,
           c.own = co[s].own, c.peer = co[s].peer, c.up, co[s].up, Opens(s, c),
           NEW M, Routed(s, M), Plain(M), UNCHANGED <<home, floor, shut, events>>
    PROVE  QuietStep(s) \/ OpenedStep(s)
  <1>1. TransferTypeOK /\ co[s] \in Coordinators BY TypeFacts DEF Base
  <1>2. CASE Becomes(s, c) /\ UNCHANGED idy
    BY <1>1, <1>2, AttemptStays, BecomesMoves, SameHomesStay DEF CoStep, TransferTypeOK, QuietStep
  <1>3. CASE ~(Becomes(s, c) /\ UNCHANGED idy)
    <2> DEFINE a == [id |-> NextTry, dir |-> "source", at |-> "scope", sel |-> c.sel, root |-> 0]
               d == [c EXCEPT !.tried = c.sel, !.att = a]
    <2>1. /\ c.sel # Nobody /\ c.att = Nobody /\ Matches(s, c.sel) /\ NextTry <= MaxTries
          /\ Becomes(s, d) /\ idy' = [idy EXCEPT !.tries = Append(@, c.sel)]
      BY <1>3, Zenon DEF Opens
    <2>2. c.sel \in Selections /\ Ntry \in Nat /\ NextTry = Ntry + 1 /\ NextTry \in Tries
      BY <2>1, TransferAssumption DEF Coordinators, Base, TransferTypeOK, Ntry, NextTry, Tries
    <2>3. /\ a \in Attempts /\ a # Nobody /\ a.id = Ntry + 1 /\ a.dir = "source"
          /\ a.at = "scope" /\ a.sel = c.sel
      BY <2>2, NobodyAssumption DEF Attempts
    <2> HIDE DEF a
    <2>4. /\ d \in Coordinators /\ d.att = a /\ d.own = c.own /\ d.peer = c.peer /\ d.up
          /\ d.ref = c.ref
      BY <2>2, <2>3 DEF Coordinators
    <2> HIDE DEF d
    <2>5. CoTyped' /\ co'[s] = d /\ co'[Far(s)] = co[Far(s)] /\ Eased(s)
      BY <1>1, <2>1, <2>4, BecomesEased
    <2>6. Alone(s, M) BY <2>4, <2>5 DEF Alone, Apart, Eased, Silent
    <2>7. idy'.tries = Append(idy.tries, c.sel)
      BY <1>1, <2>1 DEF TransferTypeOK
    <2>8. Ntry' = Ntry + 1 /\ idy'.tries[Ntry + 1] = c.sel
      BY <2>2, <2>7, AttemptsAppended
    <2>9. PairOf(s)' = PairOf(s) BY <2>4, <2>5, SamePair
    <2>10. AttemptOK(s)'
      <3>1. a.id <= Ntry' /\ a.sel = idy'.tries[a.id] BY <2>2, <2>3, <2>8
      <3>2. co'[s].att = a /\ co'[s].up BY <2>4, <2>5
      <3>3. LET p == PairOf(s)' IN a.sel # Nobody /\ p # Nobody /\ a.sel = Selection(p, a.sel.link)
        BY <2>1, <2>3, <2>9 DEF Matches
      <3> QED BY <2>3, <3>1, <3>2, <3>3 DEF AttemptOK, Matches
    <2>11. Starting(s) BY <2>1, <2>3, <2>4, <2>5, <2>10 DEF Starting
    <2>12. idy' = [idy EXCEPT !.tries = Append(idy.tries, co'[s].att.sel)]
      BY <2>1, <2>3, <2>4, <2>5
    <2> QED BY <2>2, <2>3, <2>4, <2>5, <2>6, <2>11, <2>12 DEF OpenedStep
  <1> QED BY <1>2, <1>3

(* An attempt that begins is for what its end means. *)
LEMMA OpenedBase ==
    ASSUME Base, NEW s \in Ends, OpenedStep(s) PROVE Base'
  <1>1. PICK M : /\ Plain(M) /\ Alone(s, M) /\ Starting(s)
                 /\ co'[s].att.sel \in Selections /\ Ntry + 1 \in Tries
                 /\ idy' = [idy EXCEPT !.tries = Append(idy.tries, co'[s].att.sel)]
                 /\ UNCHANGED <<home, floor, shut, events>>
    BY DEF OpenedStep
  <1>2. PICK t : t = Append(idy.tries, co'[s].att.sel) OBVIOUS
  <1>3. idy' = [idy EXCEPT !.tries = t] /\ idy'.tries = t
    BY <1>1, <1>2 DEF Base, TransferTypeOK
  <1>4. TriesGrow /\ t \in Seq(Selections) /\ Ntry' = Ntry + 1
    BY <1>1, <1>2, <1>3, AttemptsAppended
  <1>5. HomesAgree BY <1>1 DEF HomesAgree
  <1>6. Agreed' BY <1>1, <1>4, <1>5, AtsStay, AgreedStill DEF Plain, Alone
  <1>7. Len(t) <= MaxTries BY <1>1, <1>3, <1>4 DEF Ntry, Tries
  <1>8. TransferTypeOK'
    BY <1>1, <1>3, <1>4, <1>7 DEF Alone, Apart, Routed, Loosely, Base, TransferTypeOK, CoTyped, TxTyped,
           WireTyped
  <1> QED BY <1>6, <1>8 DEF Base

(* The web application confirms the link, and may begin. *)
LEMMA ConfirmsLinkSteps ==
    ASSUME Base, NEW s \in Ends, ConfirmsLink(s) PROVE QuietStep(s) \/ OpenedStep(s)
  <1>1. TransferTypeOK /\ co[s] \in Coordinators /\ WireTyped /\ home[s].mark \in Nat
    BY TypeFacts DEF Base, Homes
  <1>2. PICK x : x = co[s].pick.link OBVIOUS
  <1>3. x \in Selections /\ co[s].up /\ \A k \in Nat : [x EXCEPT !.link = k] \in Selections
    BY <1>2, PickTyped DEF ConfirmsLink
  <1>4. CASE ~co[s].pick.cur \/ ~Admits(s, x)
    BY <1>2, <1>4, <1>1, <1>3, DoneFacts, SameRouted, AttemptStays, BecomesMoves, QuietMoves DEF
       ConfirmsLink
  <1>5. CASE co[s].pick.cur /\ Admits(s, x)
    <2>1. PICK m : m = [kind |-> "chosen", sel |-> [x EXCEPT !.link = home[s].mark]]
      OBVIOUS
    <2>2. m \in Messages /\ m.kind = "chosen" /\ Sends(s, m)
      BY <1>1, <1>2, <1>3, <1>5, <2>1, MessagesMade DEF ConfirmsLink
    <2>3. Routed(s, {m}) /\ Plain({m}) BY <1>1, <2>2, SendsRouted DEF Plain
    <2>4. CASE Becomes(s, Done(co[s])) /\ UNCHANGED idy
      <3>1. Moves(s, {m})
        BY <1>1, <1>3, <2>3, <2>4, DoneFacts, AttemptStays, BecomesMoves
      <3> QED BY <2>2, <2>4, <3>1, QuietSends DEF ConfirmsLink, Privately
    <2>5. CASE Opens(s, [Done(co[s]) EXCEPT !.sel = x])
      <3>1. PICK c : c = [Done(co[s]) EXCEPT !.sel = x] OBVIOUS
      <3>2. /\ c \in Coordinators /\ c.att = co[s].att /\ c.own = co[s].own
            /\ c.peer = co[s].peer /\ c.up = co[s].up
        BY <1>1, <1>3, <3>1, SelectedFacts
      <3>3. Opens(s, c) BY <2>5, <3>1
      <3> QED BY <1>3, <2>3, <3>2, <3>3, OpensSteps DEF ConfirmsLink
    <2> QED BY <1>2, <1>5, <2>4, <2>5 DEF ConfirmsLink
  <1> QED BY <1>4, <1>5

(* The extension hears the link that is confirmed, and may begin. *)
LEMMA GetsChosenSteps ==
    ASSUME Base, NEW s \in Ends, GetsChosen(s) PROVE QuietStep(s) \/ OpenedStep(s)
  <1>1. TransferTypeOK /\ co[s] \in Coordinators /\ WireTyped
    BY TypeFacts DEF Base
  <1>2. co[s].up /\ wire[s] # <<>> /\ Msg(s).sel \in Selections
    BY MessageTaken, MessageParts DEF GetsChosen
  <1>3. CASE FailsAt(s) /\ UNCHANGED idy
    BY <1>1, <1>3, FailsMoves, QuietMoves DEF GetsChosen
  <1>4. CASE Takes(s) /\ Opens(s, co[s])
    BY <1>1, <1>2, <1>4, TakesRouted, OpensSteps DEF GetsChosen, Plain
  <1>5. CASE /\ Takes(s) /\ UNCHANGED idy
             /\ Becomes(s, [co[s] EXCEPT !.pick = [at |-> "adopt", cur |-> TRUE,
                                                   link |-> Msg(s).sel]])
    <2>1. PICK k : k = [at |-> "adopt", cur |-> TRUE, link |-> Msg(s).sel]
      OBVIOUS
    <2>2. k \in Picks BY <1>2, <2>1, NobodyAssumption DEF Picks
    <2>3. PICK c : c = [co[s] EXCEPT !.pick = k] OBVIOUS
    <2>4. /\ c \in Coordinators /\ c.att = co[s].att /\ c.own = co[s].own
          /\ c.peer = co[s].peer /\ c.up = co[s].up
      BY <1>1, <2>2, <2>3 DEF Coordinators
    <2>5. Moves(s, {})
      BY <1>1, <1>2, <1>5, <2>1, <2>3, <2>4, TakesRouted, AttemptStays, BecomesMoves
    <2> QED BY <1>5, <2>5, QuietMoves DEF GetsChosen
  <1> QED BY <1>3, <1>4, <1>5, Zenon DEF GetsChosen

(* The beginning of an attempt at its receiver. *)
PreparedBy(s) ==
    \E m \in Messages :
      /\ m.kind = "prepared" /\ Alone(s, {m}) /\ Starting(s)
      /\ Gets(s, "prepare") /\ co'[s].att.id = Msg(s).id
      /\ co'[s].att.dir = "receiver" /\ co'[s].att.at = "offer"
      /\ wire'[s] = Tail(wire[s])
      /\ UNCHANGED <<home, floor, idy, shut, events>>

(* The receiver agrees to the attempt, or the route closes. *)
LEMMA GetsPrepareSteps ==
    ASSUME Base, NEW s \in Ends, GetsPrepare(s) PROVE QuietStep(s) \/ PreparedBy(s)
  <1>1. TransferTypeOK /\ co[s] \in Coordinators /\ WireTyped
    BY TypeFacts DEF Base
  <1>2. /\ co[s].up /\ wire[s] # <<>> /\ Msg(s).sel \in Selections /\ Msg(s).id \in Tries
        /\ Msg(s) = wire[s][1] /\ 1 \in On(s, "prepare")
    BY MessageTaken, MessageParts DEF GetsPrepare
  <1>3. CASE FailsAt(s)
    BY <1>1, <1>3, FailsMoves, QuietMoves DEF GetsPrepare, Privately
  <1>4. CASE ~FailsAt(s)
    <2> DEFINE a == [id |-> Msg(s).id, dir |-> "receiver", at |-> "offer",
                     sel |-> co[s].sel, root |-> 0]
               d == [co[s] EXCEPT !.att = a]
    <2>1. /\ co[s].att = Nobody /\ Matches(s, co[s].sel) /\ Msg(s).sel = co[s].sel
          /\ Becomes(s, d) /\ Answers(s, [kind |-> "prepared", id |-> Msg(s).id])
      BY <1>4, Zenon DEF GetsPrepare
    <2>2. /\ a \in Attempts /\ a # Nobody /\ a.id = Msg(s).id /\ a.dir = "receiver"
          /\ a.at = "offer" /\ a.sel = co[s].sel
      BY <1>2, <2>1, NobodyAssumption DEF Attempts
    <2> HIDE DEF a
    <2>3. /\ d \in Coordinators /\ d.att = a /\ d.own = co[s].own /\ d.peer = co[s].peer
          /\ d.up = co[s].up
      BY <1>1, <2>2 DEF Coordinators
    <2> HIDE DEF d
    <2>4. CoTyped' /\ co'[s] = d /\ co'[Far(s)] = co[Far(s)] /\ Eased(s)
      BY <1>1, <2>1, <2>3, BecomesEased
    <2>5. PICK m : m = [kind |-> "prepared", id |-> Msg(s).id] OBVIOUS
    <2>6. m \in Messages /\ m.kind = "prepared" BY <1>2, <2>5, MessagesMade
    <2>7. Routed(s, {m}) /\ wire'[s] = Tail(wire[s])
      BY <1>1, <1>2, <2>1, <2>5, <2>6, AnswersRouted, FarEnd DEF Answers, Heard, WireTyped
    <2>8. Alone(s, {m})
      BY <1>2, <2>3, <2>4, <2>7 DEF Alone, Apart, Eased, Silent
    <2>9. PairOf(s)' = PairOf(s) BY <2>3, <2>4, SamePair
    <2>10. Msg(s).id <= Ntry /\ co[s].sel = idy.tries[Msg(s).id]
      BY <1>2, <2>1 DEF Base, Agreed, PreparesOK
    <2>11. idy' = idy BY DEF GetsPrepare, Privately
    <2>12. AttemptOK(s)'
      BY <1>2, <2>1, <2>2, <2>3, <2>4, <2>9, <2>10, <2>11 DEF AttemptOK, Matches, Ntry
    <2>13. Starting(s) BY <2>1, <2>2, <2>3, <2>4, <2>12 DEF Starting
    <2> QED BY <2>2, <2>3, <2>4, <2>6, <2>7, <2>8, <2>13 DEF PreparedBy, GetsPrepare, Privately
  <1> QED BY <1>3, <1>4

(* What the receiver agrees to is what the source tried. *)
LEMMA PreparedByBase ==
    ASSUME Base, NEW s \in Ends, PreparedBy(s) PROVE Base'
  <1>1. PICK m : /\ m.kind = "prepared" /\ Alone(s, {m}) /\ Starting(s)
                 /\ UNCHANGED <<home, floor, idy, shut, events>>
    BY DEF PreparedBy
  <1>2. HomesAgree /\ TriesGrow BY <1>1, TriesStay DEF HomesAgree
  <1>3. Agreed' BY <1>1, <1>2, AtsStay, AgreedStill DEF Alone
  <1>4. TransferTypeOK'
    BY <1>1 DEF Alone, Apart, Routed, Loosely, Base, TransferTypeOK, CoTyped, TxTyped, WireTyped
  <1> QED BY <1>3, <1>4 DEF Base

-----------------------------------------------------------------------------
(* The transaction begins. *)
AttReaches(s, step) ==
    /\ CoTyped' /\ co'[Far(s)] = co[Far(s)]
    /\ co'[s].own = co[s].own /\ co'[s].peer = co[s].peer /\ co'[s].up = co[s].up
    /\ co'[s].pick = co[s].pick /\ co'[s].ref = co[s].ref /\ co'[s].ids = co[s].ids
    /\ co'[s].tried = co[s].tried /\ co'[s].sel = co[s].sel
    /\ co'[s].att # Nobody /\ co'[s].att.at = step /\ co'[s].att.id = co[s].att.id
    /\ co'[s].att.dir = co[s].att.dir /\ co'[s].att.sel = co[s].att.sel
Created(s) ==
    LET n == co[s].att.id IN
    /\ Receiving(s, "offer") /\ AttReaches(s, "hand")
    /\ TxTyped' /\ \A m \in Tries : m # n => tx'[m] = tx[m]
    /\ n \in Tries /\ tx'[n] # Nobody /\ tx'[n].side = s /\ tx'[n].acct = co[s].att.sel.acct
    /\ tx'[n].root = 0 /\ tx'[n].at = "hand" /\ tx'[n].prev = home[s].sealed
    /\ ~home[s].busy /\ home[s].status # "unlocked"
    /\ home[s].acct \in {Nobody, co[s].att.sel.acct}
    /\ home[s].closing # co[s].att.sel.acct
CreatedStep(s) ==
    /\ Created(s) /\ SameHomes /\ UNCHANGED <<floor, idy, shut, events>>
    /\ \E m \in Messages : m.kind = "answer" /\ Routed(s, {m})

(* The attempt of an end at its next step. *)
LEMMA ReachesFacts ==
    ASSUME Base, NEW s \in Ends, co[s].att # Nobody,
           NEW step \in {"hand", "install"}, co' = [co EXCEPT ![s] = Reaches(s, step)]
    PROVE  AttReaches(s, step)
  <1>1. co[s] \in Coordinators /\ co[s].att \in Attempts /\ CoTyped
    BY TypeFacts DEF Base, Coordinators
  <1>2. PICK a : a = [co[s].att EXCEPT !.at = step] OBVIOUS
  <1>3. /\ a \in Attempts /\ a # Nobody /\ a.at = step /\ a.id = co[s].att.id
        /\ a.dir = co[s].att.dir /\ a.sel = co[s].att.sel
    BY <1>1, <1>2, NobodyAssumption DEF Attempts
  <1>4. PICK c : c = [co[s] EXCEPT !.att = a] OBVIOUS
  <1>5. /\ c \in Coordinators /\ c.att = a /\ c.own = co[s].own /\ c.peer = co[s].peer
        /\ c.up = co[s].up /\ c.pick = co[s].pick /\ c.ref = co[s].ref /\ c.ids = co[s].ids
        /\ c.tried = co[s].tried /\ c.sel = co[s].sel
    BY <1>1, <1>3, <1>4 DEF Coordinators
  <1>6. co' = [co EXCEPT ![s] = c] BY <1>2, <1>4 DEF Reaches
  <1>7. CoTyped' /\ co'[s] = c /\ co'[Far(s)] = co[Far(s)]
    BY <1>1, <1>5, <1>6, FarEnd DEF CoTyped
  <1> QED BY <1>3, <1>5, <1>7 DEF AttReaches

(* The receiver begins a transaction, or refuses. *)
LEMMA GetsOfferSteps ==
    ASSUME Base, NEW s \in Ends, GetsOffer(s) PROVE QuietStep(s) \/ CreatedStep(s)
  <1>1. /\ TransferTypeOK /\ co[s] \in Coordinators /\ WireTyped /\ TxTyped
        /\ home[s] \in Homes /\ home \in [Ends -> Homes]
    BY TypeFacts DEF Base
  <1>2. co[s].up /\ wire[s] # <<>> BY MessageTaken DEF GetsOffer
  <1>3. CASE Takes(s) /\ UNCHANGED <<home, co, tx>>
    BY <1>2, <1>3, DropsMoves, QuietMoves DEF GetsOffer
  <1>4. CASE FailsAt(s) /\ UNCHANGED home
    BY <1>1, <1>4, FailsMoves, QuietMoves DEF GetsOffer
  <1>5. CASE ~(Takes(s) /\ UNCHANGED <<home, co, tx>>) /\ ~(FailsAt(s) /\ UNCHANGED home)
    <2> DEFINE n == Attempt(s).id
               t == [side |-> s, acct |-> Attempt(s).sel.acct, root |-> 0, at |-> "hand",
                     cur |-> TRUE, prev |-> home[s].sealed, cleared |-> FALSE]
    <2>1. /\ Receiving(s, "offer") /\ Admits(s, Attempt(s).sel) /\ Vacant(s)
          /\ home[s].acct \in {Nobody, Attempt(s).sel.acct}
          /\ co' = [co EXCEPT ![s] = Reaches(s, "hand")]
          /\ tx' = [tx EXCEPT ![n] = t]
          /\ home' = [home EXCEPT ![s].used = TRUE]
          /\ Answers(s, [kind |-> "answer", id |-> n])
      BY <1>5, Zenon DEF GetsOffer
    <2>2. co[s].att # Nobody /\ co[s].att \in Attempts
      BY <1>1, <2>1 DEF Receiving, Attempt, Coordinators
    <2>3. n \in Tries /\ Attempt(s).sel.acct \in People /\ home[s].sealed \in Nat
      BY <1>1, <2>2 DEF Attempt, Attempts, Selections, Homes
    <2>4. t \in Transactions /\ t # Nobody
      <3>1. \A a \in People, k \in Nat :
               [side |-> s, acct |-> a, root |-> 0, at |-> "hand",
                cur |-> TRUE, prev |-> k, cleared |-> FALSE] \in Transactions
        BY DEF Transactions
      <3>2. t \in Transactions BY <2>3, <3>1
      <3> QED BY <3>2, NobodyAssumption
    <2>5. TxTyped' /\ tx'[n] = t /\ \A m \in Tries : m # n => tx'[m] = tx[m]
      BY <1>1, <2>1, <2>3, <2>4 DEF TxTyped
    <2>6. AttReaches(s, "hand") BY <2>1, <2>2, ReachesFacts
    <2>7. Created(s)
      BY <2>1, <2>3, <2>4, <2>5, <2>6 DEF Created, Vacant, Admits, Attempt
    <2>8. SameHomes
      <3>1. PICK h : h = [home[s] EXCEPT !.used = TRUE] OBVIOUS
      <3>2. /\ h \in Homes /\ h.acct = home[s].acct /\ h.status = home[s].status
            /\ h.root = home[s].root /\ h.busy = home[s].busy /\ h.sealed = home[s].sealed
            /\ h.closing = home[s].closing /\ h.receipt = home[s].receipt
        BY <1>1, <3>1 DEF Homes
      <3>3. home' = [home EXCEPT ![s] = h] BY <2>1, <3>1
      <3> QED BY <1>1, <3>2, <3>3 DEF SameHomes
    <2>9. PICK m : m = [kind |-> "answer", id |-> n] OBVIOUS
    <2>10. m \in Messages /\ m.kind = "answer" BY <2>3, <2>9, MessagesMade
    <2>11. Routed(s, {m}) BY <1>1, <1>2, <2>1, <2>9, <2>10, AnswersRouted
    <2> QED BY <2>7, <2>8, <2>10, <2>11 DEF CreatedStep, GetsOffer
  <1> QED BY <1>3, <1>4, <1>5

(* The other routes. *)
LEMMA RoutedAgreed ==
    ASSUME Base, NEW s \in Ends, NEW M, Routed(s, M), idy'.tries = idy.tries,
           \A m \in M : m.kind # "prepare",
           \A e \in Ends : co[e].up => co'[e].up,
           \A e \in Ends : ~co[e].up => co'[e].att = Nobody /\ co'[e].pick.at = "idle"
                                        /\ co'[e].ref = "idle"
    PROVE  PreparesOK' /\ \A e \in Ends : Silent(e)'
  <1>1. /\ \A e \in Ends : Silent(e)
        /\ PreparesOK /\ Ntry' = Ntry
    BY TriesStay DEF Base, Agreed
  <1>2. ASSUME NEW e \in Ends
        PROVE  \E L : Carried(e, L) /\ L \subseteq M /\ (~co[e].up => L = {})
    BY FarEnd DEF Routed
  <1>3. ASSUME NEW e \in Ends PROVE Silent(e)'
    <2>1. CASE co[e].up BY <2>1 DEF Silent
    <2>2. CASE ~co[e].up
      <3>1. wire[e] = <<>> /\ Carried(e, {}) /\ wire'[e] \in Seq(Messages)
        BY <1>1, <1>2, <2>2 DEF Silent, Routed, WireTyped
      <3>2. Len(wire[e]) = 0 BY <3>1
      <3>3. \A i \in 1 .. Len(wire'[e]) : FALSE BY <3>1, <3>2 DEF Carried
      <3>4. wire'[e] = <<>> BY <3>1, <3>3
      <3> QED BY <2>2, <3>4 DEF Silent
    <2> QED BY <2>1, <2>2
  <1>4. PreparesOK'
    <2>1. SUFFICES ASSUME NEW e \in Ends, NEW i \in On(e, "prepare")'
                   PROVE  /\ wire'[e][i].id <= Ntry
                          /\ wire'[e][i].sel = idy.tries[wire'[e][i].id]
      BY <1>1 DEF PreparesOK
    <2>2. PICK L : Carried(e, L) /\ L \subseteq M BY <1>2
    <2>3. PICK k \in {0, 1} : \A j \in On(e, "prepare")' :
             j + k \in On(e, "prepare") /\ wire'[e][j] = wire[e][j + k]
      BY <2>2, CarriedOld
    <2> QED BY <1>1, <2>3 DEF PreparesOK
  <1> QED BY <1>3, <1>4

(* An attempt has one source; the prepared attempt, the receiver's attempt   *)
(* and the transaction are those of the other end.                           *)
Directed(src) ==
    /\ \A s \in Ends : co[s].att # Nobody =>
         src[co[s].att.id] = IF co[s].att.dir = "source" THEN s ELSE Far(s)
    /\ \A s \in Ends : \A i \in On(s, "prepare") : src[wire[s][i].id] = Far(s)
    /\ \A n \in Tries : tx[n] # Nobody => tx[n].side = Far(src[n])

(* A transaction begins at the receiver of its attempt, alone at its end. *)
LEMMA CreatedBase ==
    ASSUME Base, NEW src \in [Tries -> Ends], Directed(src), NEW s \in Ends, CreatedStep(s)
    PROVE  Base'
  <1>0. Far(s) \in Ends /\ Far(s) # s /\ \A e \in Ends : e = s \/ e = Far(s)
    BY FarEnd
  <1>1. /\ \A e \in Ends : AttemptOK(e) /\ Begun(e) /\ Silent(e)
        /\ \A n \in Tries : TxAgree(n)
        /\ \A e \in Ends : co[e] \in Coordinators
        /\ \A n \in Tries : tx[n] \in Transactions \cup {Nobody}
    BY TypeFacts DEF Base, Agreed
  <1>2. PICK n : n = co[s].att.id OBVIOUS
  <1>3. /\ AttReaches(s, "hand") /\ TxTyped' /\ n \in Tries
        /\ \A m \in Tries : m # n => tx'[m] = tx[m]
        /\ tx'[n] # Nobody /\ tx'[n].side = s /\ tx'[n].acct = co[s].att.sel.acct
        /\ tx'[n].root = 0 /\ tx'[n].at = "hand"
        /\ ~home[s].busy /\ home[s].acct \in {Nobody, co[s].att.sel.acct}
        /\ home[s].closing # co[s].att.sel.acct
        /\ co[s].att # Nobody /\ co[s].att.at = "offer" /\ co[s].att.dir = "receiver"
        /\ Ntry' = Ntry
    BY <1>2, TriesStay DEF CreatedStep, Created, Receiving, Attempt
  <1>4. /\ co'[Far(s)] = co[Far(s)]
        /\ co'[s].own = co[s].own /\ co'[s].peer = co[s].peer /\ co'[s].up = co[s].up
        /\ co'[s].pick = co[s].pick /\ co'[s].ref = co[s].ref
        /\ co'[s].att # Nobody /\ co'[s].att.at = "hand" /\ co'[s].att.id = n
        /\ co'[s].att.dir = co[s].att.dir /\ co'[s].att.sel = co[s].att.sel
    BY <1>2, <1>3 DEF AttReaches
  <1>5. co[s].up /\ n <= Ntry /\ co[s].att.sel = idy.tries[n] /\ Matches(s, co[s].att.sel)
    BY <1>1, <1>2, <1>3 DEF AttemptOK
  <1>6. PreparesOK' /\ \A e \in Ends : Silent(e)'
    <2>1. PICK m : m.kind = "answer" /\ Routed(s, {m}) BY DEF CreatedStep
    <2>2. \A e \in Ends : co'[e].up = co[e].up BY <1>0, <1>4
    <2>3. \A e \in Ends : ~co[e].up => co'[e] = co[e] BY <1>0, <1>4, <1>5
    <2> QED BY <1>1, <2>1, <2>2, <2>3, RoutedAgreed DEF CreatedStep, Silent
  <1>7. AttemptOK(s)'
    BY <1>4, SamePair, <1>3, <1>5 DEF AttemptOK, Matches, CreatedStep
  <1>8. AttemptOK(Far(s))'
    BY <1>0, <1>4, SamePair, <1>1, <1>3 DEF AttemptOK, Matches, CreatedStep
  <1>9. Begun(s)' BY <1>3, <1>4 DEF Begun
  <1>10. Begun(Far(s))'
    <2>1. SUFFICES ASSUME co[Far(s)].att # Nobody, co[Far(s)].att.at \in {"hand", "install", "aborted"}
                   PROVE  LET a == co[Far(s)].att IN
                          /\ tx'[a.id] # Nobody /\ tx'[a.id].side = Far(s)
                          /\ a.at = "hand" => tx'[a.id].at = "hand"
      BY <1>4 DEF Begun
    <2>2. /\ co[Far(s)].att.id \in Tries
          /\ tx[co[Far(s)].att.id] # Nobody /\ tx[co[Far(s)].att.id].side = Far(s)
          /\ co[Far(s)].att.at = "hand" => tx[co[Far(s)].att.id].at = "hand"
      BY <1>0, <1>1, <2>1 DEF Begun, Coordinators, Attempts
    <2>3. co[Far(s)].att.id # n
      BY <1>2, <1>3, <1>0, <1>1, <2>1, FarEnd DEF Directed, AttemptOK
    <2> QED BY <1>3, <2>2, <2>3
  <1>11. ASSUME NEW m \in Tries PROVE TxAgree(m)'
    <2>1. CASE m = n
      BY <1>3, <1>4, <1>5, <2>1 DEF CreatedStep, SameHomes, TxAgree
    <2>2. CASE m # n
      <3>1. tx'[m] = tx[m] /\ TxAgree(m) /\ idy'.tries = idy.tries
        BY <1>1, <1>3, <2>2 DEF CreatedStep
      <3>2. CASE tx[m] # Nobody /\ tx[m].cur
        <4>1. tx[m].side \in Ends BY <1>1, <3>2 DEF Transactions
        <4>2. tx[m].side = Far(s) BY <1>0, <1>3, <3>1, <3>2, <4>1 DEF TxAgree
        <4> QED BY <1>0, <1>3, <1>4, <3>1, <3>2, <4>2 DEF TxAgree, CreatedStep, SameHomes
      <3>3. CASE ~(tx[m] # Nobody /\ tx[m].cur)
        BY <1>3, <3>1, <3>3 DEF TxAgree
      <3> QED BY <3>2, <3>3
    <2> QED BY <2>1, <2>2
  <1>12. Agreed' BY <1>0, <1>6, <1>7, <1>8, <1>9, <1>10, <1>11 DEF Agreed
  <1>13. CoTyped' /\ TxTyped' /\ WireTyped' /\ home' \in [Ends -> Homes]
    BY <1>3 DEF CreatedStep, AttReaches, Routed, SameHomes
  <1>14. TransferTypeOK'
    BY <1>13 DEF Base, TransferTypeOK, CoTyped, TxTyped, WireTyped, CreatedStep
  <1> QED BY <1>12, <1>14 DEF Base

(* The keys arrive. *)
Handed(s) ==
    LET n == co[s].att.id IN
    /\ Receiving(s, "hand") /\ AttReaches(s, "install")
    /\ TxTyped' /\ \A m \in Tries : m # n => tx'[m] = tx[m]
    /\ n \in Tries /\ tx[n] # Nobody /\ tx'[n] # Nobody /\ tx'[n].side = tx[n].side
    /\ tx'[n].acct = tx[n].acct /\ tx'[n].cur = tx[n].cur /\ tx'[n].prev = tx[n].prev
    /\ tx'[n].at = "commit"
    /\ Gets(s, "handoff") /\ Msg(s).id = n /\ tx'[n].root = Msg(s).root
HandedOver(s) ==
    /\ Handed(s) /\ Routed(s, {}) /\ UNCHANGED <<home, floor, idy, shut, events>>

(* The keys arrive, or come too late. *)
LEMMA GetsHandoffSteps ==
    ASSUME Base, NEW s \in Ends, GetsHandoff(s) PROVE QuietStep(s) \/ HandedOver(s)
  <1>1. /\ TransferTypeOK /\ co[s] \in Coordinators /\ WireTyped /\ TxTyped
    BY TypeFacts DEF Base
  <1>2. /\ co[s].up /\ wire[s] # <<>> /\ Msg(s).id \in Tries /\ Msg(s).root \in Nat
    BY MessageTaken, MessageParts DEF GetsHandoff
  <1>3. CASE Takes(s) /\ UNCHANGED <<co, tx>>
    BY <1>2, <1>3, DropsMoves, QuietMoves DEF GetsHandoff, Privately
  <1>4. CASE FailsAt(s)
    BY <1>1, <1>4, FailsMoves, QuietMoves DEF GetsHandoff, Privately
  <1>5. CASE ~(Takes(s) /\ UNCHANGED <<co, tx>>) /\ ~FailsAt(s)
    <2> DEFINE n == Msg(s).id
    <2>1. /\ Mine(s) /\ Receiving(s, "hand") /\ Takes(s)
          /\ co' = [co EXCEPT ![s] = Reaches(s, "install")]
          /\ tx' = [tx EXCEPT ![n].at = "commit", ![n].root = Msg(s).root]
      BY <1>5, Zenon DEF GetsHandoff
    <2>2. co[s].att # Nobody /\ co[s].att.id = n BY <2>1 DEF Mine, Attempt
    <2>3. tx[n] \in Transactions
      BY <2>1, <2>2, <1>2, TypeFacts DEF Base, Agreed, Begun, Receiving, Attempt
    <2>4. PICK u : u = [tx[n] EXCEPT !.at = "commit", !.root = Msg(s).root]
      OBVIOUS
    <2>5. /\ u \in Transactions /\ u # Nobody /\ u.side = tx[n].side /\ u.acct = tx[n].acct
          /\ u.cur = tx[n].cur /\ u.prev = tx[n].prev /\ u.at = "commit" /\ u.root = Msg(s).root
      BY <1>2, <2>3, <2>4, NobodyAssumption DEF Transactions
    <2>6. tx' = [tx EXCEPT ![n] = u] BY <1>1, <1>2, <2>1, <2>4 DEF TxTyped
    <2>7. TxTyped' /\ tx'[n] = u /\ \A m \in Tries : m # n => tx'[m] = tx[m]
      BY <1>1, <1>2, <2>5, <2>6 DEF TxTyped
    <2>8. AttReaches(s, "install") /\ Routed(s, {})
      BY <1>1, <1>2, <2>1, <2>2, ReachesFacts, TakesRouted
    <2>9. tx[n] # Nobody BY <2>3, NobodyAssumption
    <2> QED BY <1>2, <2>1, <2>2, <2>5, <2>7, <2>8, <2>9 DEF HandedOver, Handed, GetsHandoff, Privately
  <1> QED BY <1>3, <1>4, <1>5

(* A transaction that goes on has the end to itself still. *)
LEMMA HandedOverBase ==
    ASSUME Base, NEW src \in [Tries -> Ends], Directed(src), NEW s \in Ends, HandedOver(s)
    PROVE  Base'
  <1>0. Far(s) \in Ends /\ Far(s) # s /\ \A e \in Ends : e = s \/ e = Far(s)
    BY FarEnd
  <1>1. /\ \A e \in Ends : AttemptOK(e) /\ Begun(e) /\ Silent(e)
        /\ \A n \in Tries : TxAgree(n)
        /\ \A e \in Ends : co[e] \in Coordinators
        /\ \A n \in Tries : tx[n] \in Transactions \cup {Nobody}
    BY TypeFacts DEF Base, Agreed
  <1>2. PICK n : n = co[s].att.id OBVIOUS
  <1>3. /\ AttReaches(s, "install") /\ TxTyped' /\ n \in Tries
        /\ \A m \in Tries : m # n => tx'[m] = tx[m]
        /\ tx[n] # Nobody /\ tx'[n] # Nobody /\ tx'[n].side = tx[n].side
        /\ tx'[n].acct = tx[n].acct /\ tx'[n].cur = tx[n].cur
        /\ co[s].att # Nobody /\ co[s].att.at = "hand" /\ co[s].att.dir = "receiver"
        /\ Ntry' = Ntry /\ idy'.tries = idy.tries /\ home' = home
    BY <1>2, TriesStay DEF HandedOver, Handed, Receiving, Attempt
  <1>4. /\ co'[Far(s)] = co[Far(s)]
        /\ co'[s].own = co[s].own /\ co'[s].peer = co[s].peer /\ co'[s].up = co[s].up
        /\ co'[s].pick = co[s].pick /\ co'[s].ref = co[s].ref
        /\ co'[s].att # Nobody /\ co'[s].att.at = "install" /\ co'[s].att.id = n
        /\ co'[s].att.dir = co[s].att.dir /\ co'[s].att.sel = co[s].att.sel
    BY <1>2, <1>3 DEF AttReaches
  <1>5. /\ co[s].up /\ n <= Ntry /\ co[s].att.sel = idy.tries[n] /\ Matches(s, co[s].att.sel)
        /\ tx[n].side = s
    BY <1>1, <1>2, <1>3 DEF AttemptOK, Begun
  <1>6. PreparesOK' /\ \A e \in Ends : Silent(e)'
    <2>1. \A e \in Ends : co'[e].up = co[e].up BY <1>0, <1>4
    <2>2. \A e \in Ends : ~co[e].up => co'[e] = co[e] BY <1>0, <1>4, <1>5
    <2> QED BY <1>1, <2>1, <2>2, RoutedAgreed DEF HandedOver, Silent
  <1>7. AttemptOK(s)' BY <1>4, SamePair, <1>3, <1>5 DEF AttemptOK, Matches
  <1>8. AttemptOK(Far(s))'
    BY <1>0, <1>4, SamePair, <1>1, <1>3 DEF AttemptOK, Matches
  <1>9. Begun(s)' BY <1>3, <1>4, <1>5 DEF Begun
  <1>10. Begun(Far(s))'
    BY <1>4, <1>0, <1>1, <1>5, <1>3 DEF Begun, Coordinators, Attempts
  <1>11. ASSUME NEW m \in Tries PROVE TxAgree(m)'
    <2>1. TxAgree(m) BY <1>1
    <2>2. CASE m = n BY <1>3, <1>4, <1>5, <2>1, <2>2 DEF TxAgree
    <2>3. CASE m # n
      <3>1. tx'[m] = tx[m] BY <1>3, <2>3
      <3>2. CASE tx[m] # Nobody /\ tx[m].cur
        <4>1. tx[m].side \in Ends BY <1>1, <3>2 DEF Transactions
        <4>2. tx[m].side = Far(s)
          BY <1>0, <1>2, <1>3, <2>1, <2>3, <3>2, <4>1 DEF TxAgree
        <4> QED BY <1>0, <1>3, <1>4, <2>1, <3>1, <3>2, <4>2 DEF TxAgree
      <3>3. CASE ~(tx[m] # Nobody /\ tx[m].cur)
        BY <1>3, <2>1, <3>1, <3>3 DEF TxAgree
      <3> QED BY <3>2, <3>3
    <2> QED BY <2>2, <2>3
  <1>12. Agreed' BY <1>0, <1>6, <1>7, <1>8, <1>9, <1>10, <1>11 DEF Agreed
  <1>13. CoTyped' /\ TxTyped' /\ WireTyped'
    BY <1>3 DEF HandedOver, AttReaches, Routed
  <1>14. TransferTypeOK'
    BY <1>13 DEF Base, TransferTypeOK, CoTyped, TxTyped, WireTyped, HandedOver
  <1> QED BY <1>12, <1>14 DEF Base

(* What is offered or handed over is for the attempt that was opened. *)
LEMMA PreparedBase ==
    ASSUME Base, NEW s \in Ends, PreparedStep(s) PROVE Base'
  <1>1. PICK m \in Messages :
          /\ CoStep(s, {m}) /\ m.kind = "prepare" /\ Sending(s, "scope")
          /\ m.id = Attempt(s).id /\ m.sel = Attempt(s).sel
    BY DEF PreparedStep
  <1>2. co[s].att # Nobody /\ AttemptOK(s) /\ co[s] \in Coordinators
    BY <1>1, TypeFacts DEF Base, Agreed, Sending, Attempt
  <1>3. m.id \in 1 .. Ntry /\ m.sel = idy.tries[m.id]
    BY <1>1, <1>2 DEF AttemptOK, Attempt, Coordinators, Attempts, Tries
  <1> QED BY <1>1, <1>3, CoStepBase

(* The keys that a source hands over change nothing that is agreed. *)
LEMMA HandedBase ==
    ASSUME Base, NEW s \in Ends, HandedStep(s) PROVE Base'
  <1>1. PICK m \in Messages : CoStep(s, {m}) /\ m.kind = "handoff"
    BY DEF HandedStep
  <1> QED BY <1>1, CoStepBase

-----------------------------------------------------------------------------
(* The receiver's transaction. *)
TxSteps == {"hand", "commit", "stage", "fresh", "publish", "late", "over"}
TxGoes(n, step) ==
    /\ TxTyped' /\ tx'[n] # Nobody /\ tx'[n].at = step
    /\ \A m \in Tries : LikeTx(m) /\ (m # n => tx'[m] = tx[m])

(* A transaction at its next step. *)
LEMMA TxToGoes ==
    ASSUME TxTyped, NEW n \in Tries, tx[n] # Nobody, NEW step \in TxSteps, tx' = TxTo(n, step)
    PROVE  TxGoes(n, step)
  <1>1. tx[n] \in Transactions BY DEF TxTyped
  <1>2. PICK u : u = [tx[n] EXCEPT !.at = step] OBVIOUS
  <1>3. /\ u \in Transactions /\ u # Nobody /\ u.at = step /\ u.side = tx[n].side
        /\ u.acct = tx[n].acct /\ u.root = tx[n].root /\ u.prev = tx[n].prev
        /\ u.cur = tx[n].cur
    BY <1>1, <1>2, NobodyAssumption DEF Transactions, TxSteps
  <1>4. tx' = [tx EXCEPT ![n] = u] BY <1>2 DEF TxTo, TxTyped
  <1>5. TxTyped' /\ tx'[n] = u /\ \A m \in Tries : m # n => tx'[m] = tx[m]
    BY <1>3, <1>4 DEF TxTyped
  <1> QED BY <1>3, <1>5 DEF TxGoes, LikeTx

(* A transaction that is over, or that waits for a late answer, is no longer *)
(* under way.                                                                *)
LEMMA TxOverGoes ==
    ASSUME TxTyped, NEW n \in Tries, tx[n] # Nobody, NEW step \in TxSteps,
           tx' = [TxTo(n, step) EXCEPT ![n].cur = FALSE]
    PROVE  TxGoes(n, step) /\ ~tx'[n].cur
  <1>1. tx[n] \in Transactions BY DEF TxTyped
  <1>2. PICK u : u = [tx[n] EXCEPT !.at = step] OBVIOUS
  <1>3. PICK v : v = [u EXCEPT !.cur = FALSE] OBVIOUS
  <1>4. /\ u \in Transactions /\ u.at = step /\ u.side = tx[n].side
        /\ u.acct = tx[n].acct /\ u.root = tx[n].root /\ u.prev = tx[n].prev
    BY <1>1, <1>2 DEF Transactions, TxSteps
  <1>5. /\ v \in Transactions /\ v # Nobody /\ v.at = step /\ v.side = tx[n].side
        /\ v.acct = tx[n].acct /\ v.root = tx[n].root /\ v.prev = tx[n].prev /\ ~v.cur
    BY <1>3, <1>4, CancelledTx DEF Transactions
  <1>6. TxTo(n, step) = [tx EXCEPT ![n] = u] BY <1>2 DEF TxTo, TxTyped
  <1>7. tx' = [tx EXCEPT ![n] = v] BY <1>3, <1>6 DEF TxTyped
  <1>8. TxTyped' /\ tx'[n] = v /\ \A m \in Tries : m # n => tx'[m] = tx[m]
    BY <1>5, <1>7 DEF TxTyped
  <1> QED BY <1>5, <1>8 DEF TxGoes, LikeTx

(* A transaction that works alone changes nothing that is agreed. *)
SameUsers ==
    /\ home' \in [Ends -> Homes]
    /\ \A e \in Ends :
         /\ home'[e].acct = home[e].acct /\ home'[e].busy = home[e].busy
         /\ home'[e].closing = home[e].closing

(* A transaction at work leaves the two ends agreed. *)
LEMMA WorkBase ==
    ASSUME Base, UNCHANGED <<co, wire, events, shut>>, SameUsers,
           idy' \in [seq : Nat, bar : [People -> Nat], tries : Seq(Selections),
                     issued : [Tries -> {"no", "issued", "live", "asked", "lost"}]],
           idy'.tries = idy.tries,
           floor' \in [Ends -> [People -> [through : Nat, ckpt : Nat]]], TxTyped',
           \A n \in Tries : LikeTx(n) /\ (tx[n] # Nobody /\ tx[n].at = "hand" => tx'[n] = tx[n])
    PROVE  Base'
  <1>1. /\ \A e \in Ends : AttemptOK(e) /\ Begun(e) /\ Silent(e)
        /\ PreparesOK /\ \A n \in Tries : TxAgree(n)
        /\ \A e \in Ends : co[e] \in Coordinators
        /\ \A n \in Tries : tx[n] \in Transactions \cup {Nobody}
    BY TypeFacts DEF Base, Agreed
  <1>2. Ntry' = Ntry BY DEF Ntry
  <1>3. ASSUME NEW e \in Ends PROVE AttemptOK(e)' /\ Begun(e)' /\ Silent(e)'
    <2>1. PairOf(e)' = PairOf(e) BY SamePair
    <2>2. AttemptOK(e)' BY <1>1, <1>2, <2>1 DEF AttemptOK, Matches
    <2>3. co[e].att # Nobody => co[e].att.id \in Tries
      BY <1>1 DEF Coordinators, Attempts
    <2>4. co' = co OBVIOUS
    <2>5. Begun(e)'
      <3>1. CASE co[e].att # Nobody /\ co[e].att.at \in {"hand", "install", "aborted"}
        <4>1. PICK k \in Tries : k = co[e].att.id BY <2>3, <3>1
        <4>2. /\ tx[k] # Nobody /\ tx[k].side = e
              /\ co[e].att.at = "hand" => tx[k].at = "hand"
          BY <1>1, <3>1, <4>1 DEF Begun
        <4>3. LikeTx(k) /\ (tx[k].at = "hand" => tx'[k] = tx[k]) BY <4>2
        <4>4. /\ tx'[k] # Nobody /\ tx'[k].side = e
              /\ co[e].att.at = "hand" => tx'[k].at = "hand"
          BY <4>2, <4>3 DEF LikeTx
        <4> QED BY <2>4, <4>1, <4>4 DEF Begun
      <3>2. CASE ~(co[e].att # Nobody /\ co[e].att.at \in {"hand", "install", "aborted"})
        BY <2>4, <3>2 DEF Begun
      <3> QED BY <3>1, <3>2
    <2> QED BY <1>1, <2>2, <2>5 DEF Silent
  <1>4. PreparesOK'
    <2>1. wire' = wire /\ idy'.tries = idy.tries /\ \A e \in Ends : On(e, "prepare")' = On(e, "prepare")
      BY DEF On
    <2> QED BY <1>1, <1>2, <2>1 DEF PreparesOK, Ntry
  <1>5. ASSUME NEW n \in Tries PROVE TxAgree(n)'
    <2>1. LikeTx(n) /\ TxAgree(n) /\ (tx[n] # Nobody => tx[n].side \in Ends)
      BY <1>1 DEF Transactions
    <2> QED BY <1>2, <2>1 DEF TxAgree, LikeTx, SameUsers
  <1>6. Agreed' BY <1>3, <1>4, <1>5 DEF Agreed
  <1>7. TransferTypeOK' BY DEF Base, TransferTypeOK, TxTyped, SameUsers
  <1> QED BY <1>6, <1>7 DEF Base

IdyTyped ==
    idy \in [seq : Nat, bar : [People -> Nat], tries : Seq(Selections),
             issued : [Tries -> {"no", "issued", "live", "asked", "lost"}]]
IssueGoes(n, v) ==
    /\ IdyTyped' /\ idy'.tries = idy.tries /\ idy'.seq = idy.seq /\ idy'.bar = idy.bar
    /\ idy'.issued[n] = v /\ \A m \in Tries : m # n => idy'.issued[m] = idy.issued[m]

(* What Identity knows of one attempt. *)
LEMMA IssueSet ==
    ASSUME TransferTypeOK, NEW n \in Tries, NEW v \in {"no", "issued", "live", "asked", "lost"},
           idy' = [idy EXCEPT !.issued[n] = v]
    PROVE  IssueGoes(n, v)
  <1>1. PICK g : g = [idy.issued EXCEPT ![n] = v] OBVIOUS
  <1>2. idy' = [idy EXCEPT !.issued = g] BY <1>1 DEF TransferTypeOK
  <1>3. /\ g \in [Tries -> {"no", "issued", "live", "asked", "lost"}]
        /\ g[n] = v /\ \A m \in Tries : m # n => g[m] = idy.issued[m]
    BY <1>1 DEF TransferTypeOK
  <1> QED BY <1>2, <1>3 DEF IssueGoes, IdyTyped, TransferTypeOK

(* A step of Identity that changes nothing. *)
LEMMA IssueStays ==
    ASSUME TransferTypeOK, NEW n \in Tries, UNCHANGED idy
    PROVE  IssueGoes(n, idy.issued[n])
  BY DEF TransferTypeOK, IssueGoes, IdyTyped

(* What is stored at an end, while its session and its user do nothing. *)
SealedSome(s, k) ==
    /\ home' \in [Ends -> Homes] /\ home'[Far(s)] = home[Far(s)]
    /\ home'[s].sealed = k
    /\ home'[s].acct = home[s].acct /\ home'[s].status = home[s].status
    /\ home'[s].root = home[s].root /\ home'[s].busy = home[s].busy
    /\ home'[s].closing = home[s].closing /\ home'[s].receipt = home[s].receipt

(* Only what is stored at the end is set. *)
LEMMA SealSet ==
    ASSUME TransferTypeOK, NEW s \in Ends, NEW k \in Nat,
           home' = [home EXCEPT ![s].sealed = k]
    PROVE  SealedSome(s, k) /\ SameUsers
  <1>0. Far(s) \in Ends /\ Far(s) # s /\ \A e \in Ends : e = s \/ e = Far(s)
    BY FarEnd
  <1>1. PICK h : h = [home[s] EXCEPT !.sealed = k] OBVIOUS
  <1>2. home' = [home EXCEPT ![s] = h] BY <1>1 DEF TransferTypeOK
  <1>3. /\ h \in Homes /\ h.sealed = k /\ h.acct = home[s].acct /\ h.status = home[s].status
        /\ h.root = home[s].root /\ h.busy = home[s].busy /\ h.closing = home[s].closing
        /\ h.receipt = home[s].receipt
    <2>1. home[s] \in Homes BY DEF TransferTypeOK
    <2> QED BY <1>1, <2>1 DEF Homes
  <1>4. /\ home' \in [Ends -> Homes] /\ home'[s] = h /\ home'[Far(s)] = home[Far(s)]
    BY ZenonT(30), <1>0, <1>2, <1>3 DEF TransferTypeOK
  <1>5. SealedSome(s, k) BY <1>3, <1>4 DEF SealedSome
  <1>6. SameUsers BY <1>0, <1>3, <1>4 DEF SameUsers
  <1> QED BY <1>5, <1>6

(* An end where nothing is stored. *)
LEMMA SealStays ==
    ASSUME TransferTypeOK, NEW s \in Ends, UNCHANGED home
    PROVE  SealedSome(s, home[s].sealed) /\ SameUsers
  BY DEF TransferTypeOK, SealedSome, SameUsers

Serves(n) == Issues(n) \/ Commits(n) \/ Stages(n) \/ Freshens(n) \/ AnswersLate(n) \/ LosesAnswer(n)

(* Identity's work and the receiver's change nothing that is agreed. *)
LEMMA ServesBase ==
    ASSUME Base, NEW n \in Tries, Serves(n) PROVE Base'
  <1>1. /\ TransferTypeOK /\ TxTyped /\ home \in [Ends -> Homes]
        /\ \A m \in Tries : tx[m] \in Transactions \cup {Nobody}
    BY TypeFacts DEF Base
  <1>2. UNCHANGED <<co, wire, events, shut>> /\ tx[n] # Nobody
    BY DEF Serves, Issues, Commits, Stages, Freshens, AnswersLate, LosesAnswer, Working, Tx
  <1>3. tx[n].side \in Ends /\ tx[n].acct \in People /\ tx[n].root \in Nat /\ n \in Nat
    BY <1>1, <1>2 DEF Transactions, Tries
  <1>4. SameUsers
    BY <1>1, <1>3, SealSet, SealStays DEF Serves, Issues, Commits, Stages, Freshens, AnswersLate,
       LosesAnswer, Working
  <1>5. IdyTyped' /\ idy'.tries = idy.tries
    <2>1. \E v \in {"no", "issued", "live", "asked", "lost"} : idy' = idy \/ idy' = [idy EXCEPT !.issued[n] = v]
      <3>1. CASE AnswersLate(n)
        <4>1. PICK v : v = IF idy.issued[n] = "issued" THEN "asked" ELSE idy.issued[n]
          OBVIOUS
        <4>2. v \in {"no", "issued", "live", "asked", "lost"}
          BY <1>1, <4>1 DEF TransferTypeOK
        <4>3. idy' = [idy EXCEPT !.issued[n] = v]
          BY <1>1, <3>1, <4>1 DEF AnswersLate, TransferTypeOK
        <4> QED BY <4>2, <4>3
      <3>2. CASE ~AnswersLate(n)
        BY <3>2 DEF Serves, Issues, Commits, Stages, Freshens, LosesAnswer
      <3> QED BY <3>1, <3>2
    <2>2. CASE idy' = idy BY <1>1, <2>2 DEF TransferTypeOK, IdyTyped
    <2>3. CASE \E v \in {"no", "issued", "live", "asked", "lost"} : idy' = [idy EXCEPT !.issued[n] = v]
      BY <1>1, <2>3, IssueSet DEF IssueGoes
    <2> QED BY <2>1, <2>2, <2>3
  <1>6. floor' \in [Ends -> [People -> [through : Nat, ckpt : Nat]]]
    <2>1. floor' = floor \/ floor' = [floor EXCEPT ![tx[n].side][tx[n].acct].ckpt = tx[n].root]
      BY DEF Serves, Issues, Commits, Stages, Freshens, AnswersLate, LosesAnswer, Working
    <2>2. PICK f : f = [floor[tx[n].side][tx[n].acct] EXCEPT !.ckpt = tx[n].root]
      OBVIOUS
    <2>3. f \in [through : Nat, ckpt : Nat]
      <3>1. floor[tx[n].side][tx[n].acct] \in [through : Nat, ckpt : Nat]
        BY <1>1, <1>3 DEF TransferTypeOK
      <3> QED BY <1>3, <2>2, <3>1
    <2>4. PICK g : g = [floor[tx[n].side] EXCEPT ![tx[n].acct] = f] OBVIOUS
    <2>5. g \in [People -> [through : Nat, ckpt : Nat]]
      BY <1>1, <1>3, <2>3, <2>4 DEF TransferTypeOK
    <2>6. floor' = floor \/ floor' = [floor EXCEPT ![tx[n].side] = g]
      BY <2>1, <2>2, <2>4
    <2> QED BY <1>1, <1>3, <2>5, <2>6 DEF TransferTypeOK
  <1>7. TxTyped' /\ \A m \in Tries : LikeTx(m) /\ (tx[m] # Nobody /\ tx[m].at = "hand" => tx'[m] = tx[m])
    BY <1>1, <1>2, TxToGoes DEF TxTyped, LikeTx, TxGoes, Serves, Issues, Commits, Stages, Freshens,
       AnswersLate, LosesAnswer, Tx, TxSteps
  <1> QED BY <1>2, <1>4, <1>5, <1>6, <1>7, WorkBase DEF IdyTyped

(* A transaction that ends, well or not, takes its attempt with it. *)
LEMMA EndsTxAgreed ==
    ASSUME Base, NEW n \in Tries, tx[n] # Nobody, NEW s \in Ends, s = tx[n].side,
           NEW step \in TxSteps, step # "hand", TxGoes(n, step), ~tx'[n].cur,
           CoTyped', co'[Far(s)] = co[Far(s)], Silent(s)',
           Holds(n) => co'[s].att = Nobody, ~Holds(n) => co'[s] = co[s],
           NEW M, Routed(s, M), \A m \in M : m.kind # "prepare",
           home' \in [Ends -> Homes],
           \A e \in Ends : (e # s \/ ~Holds(n)) =>
              /\ home'[e].acct = home[e].acct /\ home'[e].busy = home[e].busy
              /\ home'[e].closing = home[e].closing,
           idy'.tries = idy.tries
    PROVE  Agreed'
  <1>1. /\ \A m \in Tries : TxAgree(m) /\ (tx[m] # Nobody => tx[m].side \in Ends)
        /\ co[s] \in Coordinators /\ co'[s] \in Coordinators
    BY TypeFacts DEF Base, Agreed, Transactions, CoTyped
  <1>2. /\ TxTyped' /\ tx'[n] # Nobody /\ tx'[n].at = step
        /\ \A m \in Tries : LikeTx(m) /\ (m # n => tx'[m] = tx[m])
    BY DEF TxGoes
  <1>3. ASSUME NEW m \in Tries, tx'[m] # Nobody, tx'[m].cur, tx'[m].side = s
        PROVE  ~Holds(n) /\ co'[s].att # Nobody /\ co'[s].att.id = m
    BY <1>3, <1>2, <1>1 DEF TxAgree, Holds
  <1>4. Apart(s, M) BY <1>2, <1>3 DEF Loosely, Apart
  <1>5. Steady(s) BY <1>1, AttemptStays DEF Steady
  <1>6. AtsAgree BY <1>2 DEF AtsAgree, Holds
  <1>7. HomesAgree BY <1>1, <1>2, <1>3 DEF HomesAgree, LikeTx
  <1>8. TriesGrow BY TriesStay
  <1> QED BY <1>4, <1>5, <1>6, <1>7, <1>8, AgreedStill

(* What is put back is stored at the transaction's end. *)
LEMMA PutBackSealed ==
    ASSUME TransferTypeOK, NEW n \in Tries, tx[n] # Nobody, NEW s \in Ends, s = tx[n].side,
           home' = PutBack(n)
    PROVE  \E k \in Nat :
              /\ SealedSome(s, k) /\ SameUsers
              /\ home[s].sealed # n => k = home[s].sealed
              /\ home[s].sealed = n => k = 0 \/ k = tx[n].prev
  <1>1. tx[n].prev \in Nat /\ home[s].sealed \in Nat
    BY TypeFacts DEF Transactions, Homes
  <1>2. CASE home[s].sealed # n BY <1>1, <1>2, SealStays DEF PutBack
  <1>3. CASE home[s].sealed = n
    <2>1. PICK k : k = IF tx[n].cleared THEN 0 ELSE tx[n].prev OBVIOUS
    <2>2. k \in Nat /\ (k = 0 \/ k = tx[n].prev) BY <1>1, <2>1
    <2>3. home' = [home EXCEPT ![s].sealed = k] BY <1>3, <2>1 DEF PutBack
    <2> QED BY <1>3, <2>2, <2>3, SealSet
  <1> QED BY <1>2, <1>3

(* What is revoked was issued. *)
LEMMA RevokedIssue ==
    ASSUME TransferTypeOK, NEW n \in Tries, idy' = Revoked(n)
    PROVE  \E v \in {"no", "issued", "live", "asked", "lost"} :
              /\ IssueGoes(n, v)
              /\ v = IF idy.issued[n] = "issued" /\ tx[n].at \notin {"commit", "late"}
                     THEN "asked" ELSE idy.issued[n]
  BY IssueSet, IssueStays DEF TransferTypeOK, Revoked

(* The step of a transaction that ends: what it leaves at its end. *)
Closes(n, s, step) ==
    /\ tx[n] # Nobody /\ s = tx[n].side /\ TxGoes(n, step) /\ ~tx'[n].cur
    /\ CoTyped' /\ co'[Far(s)] = co[Far(s)] /\ Silent(s)'
    /\ Holds(n) => co'[s] \in {Cancelled(co[s]), Down(co[s])}
    /\ ~Holds(n) => co'[s] = co[s]
    /\ \E M : Routed(s, M) /\ \A m \in M : m.kind \in {"ack", "cancel"}
    /\ \E k \in Nat : /\ SealedSome(s, k) /\ SameUsers
                      /\ home[s].sealed # n => k = home[s].sealed
                      /\ home[s].sealed = n => k = 0 \/ k = tx[n].prev
    /\ \E v \in {"no", "issued", "live", "asked", "lost"} :
         /\ IssueGoes(n, v)
         /\ v = IF idy.issued[n] = "issued" /\ tx[n].at \notin {"commit", "late"}
                THEN "asked" ELSE idy.issued[n]
    /\ UNCHANGED <<floor, shut>> /\ events' \in 0 .. MaxEvents

(* A rollback closes its transaction. *)
LEMMA RollsBackCloses ==
    ASSUME Base, NEW n \in Tries, RollsBack(n)
    PROVE  \E s \in Ends : \E step \in {"late", "over"} :
              /\ tx[n].at \notin {"over", "late"} /\ (step = "late") = (tx[n].at = "commit")
              /\ Closes(n, s, step)
  <1>1. TransferTypeOK /\ TxTyped /\ WireTyped /\ CoTyped /\ tx[n] # Nobody /\ tx[n] \in Transactions
    BY TypeFacts DEF Base, RollsBack
  <1>2. PICK s \in Ends : s = tx[n].side BY <1>1 DEF Transactions
  <1>3. PICK step \in {"late", "over"} : step = IF tx[n].at = "commit" THEN "late" ELSE "over"
    OBVIOUS
  <1>4. tx' = [TxTo(n, step) EXCEPT ![n].cur = FALSE] BY <1>3 DEF RollsBack
  <1>5. TxGoes(n, step) /\ ~tx'[n].cur BY <1>1, <1>4, TxOverGoes DEF TxSteps
  <1>6. co[s] \in Coordinators /\ Far(s) # s /\ Far(s) \in Ends
    BY <1>1, FarEnd DEF CoTyped
  <1>7. /\ CoTyped' /\ co'[Far(s)] = co[Far(s)] /\ Silent(s)'
        /\ Holds(n) => co'[s] \in {Cancelled(co[s]), Down(co[s])}
        /\ ~Holds(n) => co'[s] = co[s]
        /\ Routed(s, {})
    BY <1>2, <1>1, <1>6, DownFacts, EmptiesRouted, SameRouted, CancelledFacts DEF Base, Agreed,
       RollsBack, CoTyped, Silent
  <1>8. \E k \in Nat : /\ SealedSome(s, k) /\ SameUsers
                       /\ home[s].sealed # n => k = home[s].sealed
                       /\ home[s].sealed = n => k = 0 \/ k = tx[n].prev
    BY <1>1, <1>2, PutBackSealed DEF RollsBack
  <1>9. \E v \in {"no", "issued", "live", "asked", "lost"} :
          /\ IssueGoes(n, v)
          /\ v = IF idy.issued[n] = "issued" /\ tx[n].at \notin {"commit", "late"}
                 THEN "asked" ELSE idy.issued[n]
    BY <1>1, RevokedIssue DEF RollsBack
  <1>10. UNCHANGED <<floor, shut>> /\ events' \in 0 .. MaxEvents
    BY <1>1, TransferAssumption DEF RollsBack, Happens, TransferTypeOK
  <1>11. Closes(n, s, step)
    BY <1>1, <1>2, <1>5, <1>7, <1>8, <1>9, <1>10 DEF Closes
  <1> QED BY <1>3, <1>11 DEF RollsBack

(* So does a refusal of a retired root. *)
LEMMA RefusesCloses ==
    ASSUME Base, NEW n \in Tries, Refuses(n)
    PROVE  \E s \in Ends : Closes(n, s, "over") /\ tx[n].at = "fresh"
  <1>1. /\ TransferTypeOK /\ TxTyped /\ WireTyped /\ CoTyped /\ tx[n] # Nobody
        /\ tx[n] \in Transactions /\ tx[n].at = "fresh" /\ tx[n].cur
    BY TypeFacts DEF Base, Refuses, Tx, Live
  <1>2. PICK s \in Ends : s = tx[n].side BY <1>1 DEF Transactions
  <1>3. TxGoes(n, "over") /\ ~tx'[n].cur
    BY <1>1, TxOverGoes DEF TxSteps, Refuses
  <1>4. co[s] \in Coordinators /\ Far(s) # s /\ Far(s) \in Ends
    BY <1>1, FarEnd DEF CoTyped
  <1>5. Silent(s) /\ TxAgree(n) /\ AttemptOK(s) BY DEF Base, Agreed
  <1>6. Holds(n) /\ co[s].up BY <1>1, <1>2, <1>5 DEF TxAgree, Holds, AttemptOK
  <1>7. PICK m : m = [kind |-> "cancel", id |-> n] OBVIOUS
  <1>8. m \in Messages /\ m.kind = "cancel" BY <1>7, MessagesMade
  <1>9. Routed(s, {m}) BY <1>1, <1>2, <1>7, <1>8, SendsRouted DEF Refuses
  <1>10. co' = [co EXCEPT ![s] = Cancelled(@)] BY <1>2 DEF Refuses
  <1>11. CoTyped' /\ co'[Far(s)] = co[Far(s)] /\ co'[s] = Cancelled(co[s])
    BY <1>1, <1>4, <1>10, CancelledFacts DEF CoTyped
  <1>12. Silent(s)' BY <1>4, <1>6, <1>11, CancelledFacts DEF Silent
  <1>13. /\ \E k \in Nat : /\ SealedSome(s, k) /\ SameUsers
                           /\ home[s].sealed # n => k = home[s].sealed
                           /\ home[s].sealed = n => k = 0 \/ k = tx[n].prev
         /\ \E v \in {"no", "issued", "live", "asked", "lost"} :
              /\ IssueGoes(n, v)
              /\ v = IF idy.issued[n] = "issued" /\ tx[n].at \notin {"commit", "late"}
                     THEN "asked" ELSE idy.issued[n]
    BY <1>1, <1>2, PutBackSealed, RevokedIssue DEF Refuses
  <1>14. UNCHANGED <<floor, shut>> /\ events' \in 0 .. MaxEvents
    BY <1>1 DEF Refuses, TransferTypeOK
  <1>15. Closes(n, s, "over")
    BY <1>1, <1>2, <1>3, <1>6, <1>8, <1>9, <1>11, <1>12, <1>13, <1>14 DEF Closes
  <1> QED BY <1>1, <1>15

(* A transaction that fails leaves both ends agreed. *)
LEMMA ClosesBase ==
    ASSUME Base, NEW n \in Tries, NEW s \in Ends, NEW step \in {"late", "over"}, Closes(n, s, step)
    PROVE  Base'
  <1>1. PICK M : Routed(s, M) /\ \A m \in M : m.kind \in {"ack", "cancel"}
    BY DEF Closes
  <1>2. PICK k \in Nat : SealedSome(s, k) /\ SameUsers BY DEF Closes
  <1>3. PICK v : IssueGoes(n, v) BY DEF Closes
  <1>4. co[s] \in Coordinators BY TypeFacts DEF Base
  <1>5. /\ tx[n] # Nobody /\ s = tx[n].side /\ TxGoes(n, step) /\ ~tx'[n].cur
        /\ CoTyped' /\ co'[Far(s)] = co[Far(s)] /\ Silent(s)'
        /\ Holds(n) => co'[s].att = Nobody
        /\ ~Holds(n) => co'[s] = co[s]
    BY <1>4, CancelledFacts, DownFacts DEF Closes
  <1>6. Agreed'
    BY <1>1, <1>2, <1>3, <1>5, EndsTxAgreed DEF SameUsers, IssueGoes, TxSteps
  <1>7. TransferTypeOK'
    BY <1>1, <1>2, <1>3, <1>5
       DEF Base, TransferTypeOK, Closes, TxGoes, TxTyped, CoTyped, Routed, WireTyped, SameUsers,
           IssueGoes, IdyTyped
  <1> QED BY <1>6, <1>7 DEF Base

(* The keys are published: the session is open, and the route is told. *)
Published(n, s) ==
    /\ tx[n] # Nobody /\ tx[n].at = "publish" /\ tx[n].cur /\ Vacant(s) /\ s = tx[n].side
    /\ TxGoes(n, "over") /\ ~tx'[n].cur /\ IssueGoes(n, "live")
    /\ home' \in [Ends -> Homes] /\ home'[Far(s)] = home[Far(s)]
    /\ home'[s].acct = tx[n].acct /\ home'[s].status = "unlocked" /\ home'[s].root = tx[n].root
    /\ home'[s].receipt = [acct |-> tx[n].acct, seq |-> tx[n].root]
    /\ home'[s].busy = home[s].busy /\ home'[s].closing = home[s].closing
    /\ home'[s].sealed = home[s].sealed
    /\ CoTyped' /\ co'[Far(s)] = co[Far(s)] /\ Silent(s)' /\ co'[s].att = Nobody
    /\ co'[s].own = co[s].own /\ co'[s].peer = co[s].peer /\ co'[s].sel = co[s].sel
    /\ co'[s].tried = co[s].tried /\ co'[s].pick = co[s].pick /\ co'[s].ref = co[s].ref
    /\ co'[s].ids = co[s].ids /\ co'[s].up = co[s].up
    /\ \E m \in Messages : m.kind = "ack" /\ Routed(s, {m})
    /\ UNCHANGED <<floor, shut, events>>

(* What the publication does. *)
LEMMA PublishesPublished ==
    ASSUME Base, NEW n \in Tries, Publishes(n)
    PROVE  \E s \in Ends : Published(n, s)
  <1>1. /\ TransferTypeOK /\ TxTyped /\ WireTyped /\ CoTyped /\ tx[n] # Nobody
        /\ tx[n] \in Transactions /\ tx[n].at = "publish" /\ tx[n].cur
    BY TypeFacts DEF Base, Publishes, Tx, Live
  <1>2. PICK s \in Ends : s = tx[n].side BY <1>1 DEF Transactions
  <1>3. TxGoes(n, "over") /\ ~tx'[n].cur
    BY <1>1, TxOverGoes DEF TxSteps, Publishes
  <1>4. co[s] \in Coordinators /\ Far(s) # s /\ Far(s) \in Ends /\ home[s] \in Homes
    BY <1>1, FarEnd, TypeFacts DEF CoTyped
  <1>5. Silent(s) /\ TxAgree(n) /\ AttemptOK(s) BY DEF Base, Agreed
  <1>6. Holds(n) /\ co[s].up BY <1>1, <1>2, <1>5 DEF TxAgree, Holds, AttemptOK
  <1>7. PICK m : m = [kind |-> "ack", id |-> n] OBVIOUS
  <1>8. m \in Messages /\ m.kind = "ack" BY <1>7, MessagesMade
  <1>9. Routed(s, {m}) BY <1>1, <1>2, <1>7, <1>8, SendsRouted DEF Publishes
  <1>10. PICK c : c = [Cancelled(co[s]) EXCEPT !.again = TRUE] OBVIOUS
  <1>11. /\ c \in Coordinators /\ c.att = Nobody /\ c.own = co[s].own /\ c.peer = co[s].peer
         /\ c.sel = co[s].sel /\ c.tried = co[s].tried /\ c.pick = co[s].pick
         /\ c.ref = co[s].ref /\ c.ids = co[s].ids /\ c.up = co[s].up
    <2>1. PICK b \in Coordinators : b = Cancelled(co[s])
      BY <1>4, CancelledFacts
    <2>2. c = [b EXCEPT !.again = TRUE] BY <1>10, <2>1
    <2>3. /\ c \in Coordinators /\ c.att = b.att /\ c.own = b.own /\ c.peer = b.peer
          /\ c.sel = b.sel /\ c.tried = b.tried /\ c.pick = b.pick
          /\ c.ref = b.ref /\ c.ids = b.ids /\ c.up = b.up
      BY <2>2 DEF Coordinators
    <2> QED BY <1>4, <2>1, <2>3, CancelledFacts
  <1>12. co' = [co EXCEPT ![s] = c] BY <1>2, <1>10 DEF Publishes
  <1>13. CoTyped' /\ co'[Far(s)] = co[Far(s)] /\ co'[s] = c
    BY <1>1, <1>4, <1>11, <1>12 DEF CoTyped
  <1>14. Silent(s)' BY <1>6, <1>11, <1>13 DEF Silent
  <1>15. PICK h : h = [home[s] EXCEPT !.acct = tx[n].acct, !.status = "unlocked",
                         !.root = tx[n].root,
                         !.receipt = [acct |-> tx[n].acct, seq |-> tx[n].root]]
    OBVIOUS
  <1>16. /\ h.acct = tx[n].acct /\ h.status = "unlocked" /\ h.root = tx[n].root
         /\ h.receipt = [acct |-> tx[n].acct, seq |-> tx[n].root]
         /\ h.busy = home[s].busy /\ h.closing = home[s].closing /\ h.sealed = home[s].sealed
         /\ h \in Homes
    BY <1>1, NobodyAssumption, <1>4, <1>15 DEF Transactions, Homes, Statuses
  <1>17. home' = [home EXCEPT ![s] = h] BY <1>2, <1>15 DEF Publishes
  <1>18. home' \in [Ends -> Homes] /\ home'[Far(s)] = home[Far(s)] /\ home'[s] = h
    BY <1>1, <1>4, <1>16, <1>17 DEF TransferTypeOK
  <1>19. IssueGoes(n, "live") BY <1>1, IssueSet DEF Publishes
  <1>20. Vacant(s) /\ UNCHANGED <<floor, shut, events>>
    BY <1>2 DEF Publishes, Live
  <1> QED BY <1>1, <1>2, <1>3, <1>8, <1>9, <1>11, <1>13, <1>14, <1>16, <1>18, <1>19, <1>20
          DEF Published

(* Both ends are agreed when the keys are published. *)
LEMMA PublishedBase ==
    ASSUME Base, NEW n \in Tries, NEW s \in Ends, Published(n, s)
    PROVE  Base'
  <1>0. Far(s) \in Ends /\ Far(s) # s /\ \A e \in Ends : e = s \/ e = Far(s)
    BY FarEnd
  <1>1. PICK m \in Messages : m.kind = "ack" /\ Routed(s, {m})
    BY DEF Published
  <1>2. /\ tx[n] # Nobody /\ s = tx[n].side /\ TxGoes(n, "over") /\ ~tx'[n].cur /\ tx[n].cur
        /\ CoTyped' /\ co'[Far(s)] = co[Far(s)] /\ Silent(s)' /\ co'[s].att = Nobody
        /\ IssueGoes(n, "live") /\ home' \in [Ends -> Homes] /\ home'[Far(s)] = home[Far(s)]
    BY DEF Published
  <1>3. Holds(n) BY <1>2 DEF Base, Agreed, TxAgree, Holds
  <1>4. Agreed'
    <2>1. \A x \in {m} : x.kind # "prepare" BY <1>1
    <2>2. \A e \in Ends : (e # s \/ ~Holds(n)) =>
              /\ home'[e].acct = home[e].acct /\ home'[e].busy = home[e].busy
              /\ home'[e].closing = home[e].closing
      BY <1>0, <1>2, <1>3
    <2>3. idy'.tries = idy.tries /\ "over" \in TxSteps
      BY <1>2 DEF IssueGoes, TxSteps
    <2> QED BY ZenonT(30), <1>1, <1>2, <1>3, <2>1, <2>2, <2>3, EndsTxAgreed
  <1>5. TransferTypeOK'
    BY <1>1, <1>2
       DEF Base, TransferTypeOK, Published, TxGoes, TxTyped, CoTyped, Routed, WireTyped,
           IssueGoes, IdyTyped
  <1> QED BY <1>4, <1>5 DEF Base

-----------------------------------------------------------------------------
(* The user at an end. *)
Advertised(s) ==
    /\ CoTyped' /\ co'[Far(s)] = co[Far(s)] /\ co'[s] \in {co[s], Changed(co[s])}
    /\ wire' = wire
Beside(s) ==
    /\ TxTyped' /\ \A n \in Tries : SameTx(n)
    /\ \A n \in Tries : tx'[n] # Nobody /\ tx'[n].cur /\ tx'[n].side = s =>
         /\ home'[s].busy = home[s].busy /\ home'[s].acct = home[s].acct
         /\ home'[s].closing \in {home[s].closing, Nobody}
HomeOnly(s) ==
    /\ home' \in [Ends -> Homes] /\ home'[Far(s)] = home[Far(s)]
    /\ home'[s].mark = home[s].mark
    /\ home'[s].sealed \in {home[s].sealed, 0, MaxTries + 1}
UserStep(s) ==
    /\ Advertised(s) /\ Beside(s) /\ HomeOnly(s)
    /\ IdyTyped' /\ idy'.tries = idy.tries /\ idy'.issued = idy.issued
    /\ floor' \in [Ends -> [People -> [through : Nat, ckpt : Nat]]]
    /\ shut' \subseteq Ends \X Nat /\ events' \in 0 .. MaxEvents

(* What a user does leaves both ends agreed. *)
LEMMA UserBase ==
    ASSUME Base, NEW s \in Ends, UserStep(s) PROVE Base'
  <1>0. Far(s) \in Ends /\ Far(s) # s /\ \A e \in Ends : e = s \/ e = Far(s)
    BY FarEnd
  <1>1. /\ AttemptOK(s) /\ Silent(s) /\ co[s] \in Coordinators /\ WireTyped /\ TxTyped
        /\ \A n \in Tries : TxAgree(n)
    BY TypeFacts DEF Base, Agreed
  <1>2. /\ CoTyped' /\ co'[Far(s)] = co[Far(s)] /\ co'[s] \in {co[s], Changed(co[s])}
        /\ wire' = wire /\ TxTyped' /\ \A n \in Tries : SameTx(n)
    BY DEF UserStep, Advertised, Beside
  <1>3. /\ co'[s].own = co[s].own /\ co'[s].peer = co[s].peer /\ co'[s].up = co[s].up
        /\ co'[s].pick.at = co[s].pick.at /\ co'[s].ref = co[s].ref
        /\ \/ co'[s].att = co[s].att
           \/ co'[s].att = Nobody /\ co[s].att # Nobody /\ co[s].att.dir = "source"
    BY <1>1, <1>2, ChangedFacts
  <1>4. Steady(s) BY <1>1, <1>2, <1>3, AttemptStays DEF CoTyped, Steady
  <1>5. Loosely(s)
    BY <1>2, <1>1, <1>3 DEF Loosely, SameTx, LikeTx, TxAgree, AttemptOK
  <1>6. Apart(s, {}) BY <1>1, <1>2, <1>3, SameRouted, <1>5 DEF Silent, Apart
  <1>7. AtsAgree BY <1>2 DEF AtsAgree, SameTx
  <1>8. HomesAgree
    BY <1>2, <1>0 DEF HomesAgree, TxTyped, Transactions, UserStep, Beside, HomeOnly
  <1>9. TriesGrow BY TriesStay DEF UserStep
  <1>10. Agreed' BY <1>4, <1>6, <1>7, <1>8, <1>9, AgreedStill
  <1>11. TransferTypeOK'
    BY <1>2, <1>1 DEF Base, TransferTypeOK, UserStep, HomeOnly, TxTyped, CoTyped, WireTyped, IdyTyped
  <1> QED BY <1>10, <1>11 DEF Base

(* No installation of the end stays under way. *)
Stopped(s) ==
    /\ TxTyped' /\ \A n \in Tries : SameTx(n)
    /\ \A n \in Tries : tx'[n] # Nobody /\ tx'[n].side = s => ~tx'[n].cur

(* Cancelling the installers of an end stops all of them. *)
LEMMA CancelsStop ==
    ASSUME TxTyped, NEW s \in Ends, NEW b \in BOOLEAN, CancelsInstalls(s, b)
    PROVE  Stopped(s)
  <1>1. ASSUME NEW n \in Tries
        PROVE  /\ SameTx(n) /\ tx'[n] \in Transactions \cup {Nobody}
               /\ tx'[n] # Nobody /\ tx'[n].side = s => ~tx'[n].cur
    <2>1. CASE tx[n] # Nobody /\ tx[n].side = s
      <3>1. tx[n] \in Transactions BY <2>1 DEF TxTyped
      <3>2. PICK u : u = [tx[n] EXCEPT !.cur = FALSE, !.cleared = @ \/ b]
        OBVIOUS
      <3>3. tx'[n] = u BY <2>1, <3>2 DEF CancelsInstalls
      <3>4. tx[n].cleared \/ b \in BOOLEAN OBVIOUS
      <3>5. /\ u \in Transactions /\ u.side = tx[n].side /\ u.acct = tx[n].acct
            /\ u.root = tx[n].root /\ u.prev = tx[n].prev /\ u.at = tx[n].at /\ ~u.cur
        BY <3>1, <3>2, <3>4 DEF Transactions
      <3>6. u # Nobody BY <3>5, NobodyAssumption
      <3> QED BY <2>1, <3>3, <3>5, <3>6 DEF SameTx, LikeTx
    <2>2. CASE ~(tx[n] # Nobody /\ tx[n].side = s)
      BY <2>2 DEF CancelsInstalls, SameTx, LikeTx, TxTyped
    <2> QED BY <2>1, <2>2
  <1>2. TxTyped' BY <1>1 DEF CancelsInstalls, TxTyped
  <1> QED BY <1>1, <1>2 DEF Stopped

(* An end that advertises a change. *)
LEMMA AdvertisesMakes ==
    ASSUME TransferTypeOK, NEW s \in Ends, Advertises(s)
    PROVE  Advertised(s) /\ co'[s] = Changed(co[s])
  BY FarEnd, TypeFacts, ChangedFacts DEF Advertises, TransferTypeOK, Advertised, CoTyped

(* An end that says nothing. *)
LEMMA SilentMakes ==
    ASSUME TransferTypeOK, NEW s \in Ends, UNCHANGED <<co, wire>>
    PROVE  Advertised(s)
  BY DEF Advertised, TransferTypeOK, CoTyped

(* A busy end has nothing under way. *)
LEMMA BusyAlone ==
    ASSUME Base, NEW s \in Ends, home[s].busy, NEW n \in Tries, tx[n] # Nobody, tx[n].side = s
    PROVE  ~tx[n].cur
  BY DEF Base, Agreed, TxAgree

(* What a user's step does to the roots: nothing, ends one, authorizes one,  *)
(* or closes those that Identity knows.                                      *)
SameRoots(s) ==
    /\ home'[s].root = home[s].root /\ home'[s].acct = home[s].acct
    /\ home'[s].receipt = home[s].receipt /\ home'[s].closing = home[s].closing
    /\ UNCHANGED <<floor, shut, idy>>
RootEnded(s) ==
    /\ home[s].acct \in People /\ home'[s].root = 0 /\ Stopped(s)
    /\ shut' = IF home[s].root = 0 THEN shut ELSE shut \cup {<<s, home[s].root>>}
    /\ UNCHANGED idy
    /\ home'[s].closing = home[s].closing \/ home[s].closing = Nobody
    /\ \/ floor' = Retires(s)
       \/ floor' = floor /\ home'[s].closing = home[s].acct
RootNew(s, p) ==
    /\ home'[s].acct = p /\ home'[s].closing = home[s].closing /\ UNCHANGED <<shut, tx>>
    /\ \/ home'[s].root = 0 /\ UNCHANGED <<floor, idy>>
       \/ /\ home'[s].root = idy.seq + 1
          /\ home'[s].receipt = [acct |-> p, seq |-> idy.seq + 1]
          /\ idy'.seq = idy.seq + 1 /\ idy'.bar = idy.bar
          /\ floor' = [floor EXCEPT ![s][p].ckpt = idy.seq + 1]
ClosingDelivered(s) ==
    /\ home[s].closing \in People /\ home'[s].closing = Nobody
    /\ home'[s].root = home[s].root /\ home'[s].acct = home[s].acct
    /\ home'[s].receipt = home[s].receipt
    /\ idy'.seq = idy.seq /\ idy'.bar = [idy.bar EXCEPT ![home[s].closing] = idy.seq]
    /\ UNCHANGED <<floor, shut, tx>>

(* One field of the end. *)
LEMMA HomeSet ==
    ASSUME TransferTypeOK, NEW s \in Ends, NEW h \in Homes, home' = [home EXCEPT ![s] = h],
           h.mark = home[s].mark, h.sealed \in {home[s].sealed, 0, MaxTries + 1}
    PROVE  HomeOnly(s) /\ home'[s] = h
  BY FarEnd DEF HomeOnly, TransferTypeOK

(* What stays for a user's step. *)
LEMMA EventsSpent ==
    ASSUME TransferTypeOK, Happens \/ events' = events PROVE events' \in 0 .. MaxEvents
  BY TransferAssumption DEF TransferTypeOK, Happens

(* Identity is left as it is. *)
LEMMA IdyStays ==
    ASSUME TransferTypeOK, UNCHANGED idy
    PROVE  IdyTyped' /\ idy'.tries = idy.tries /\ idy'.issued = idy.issued
  BY DEF TransferTypeOK, IdyTyped

(* Transactions left as they are go on beside the user. *)
LEMMA TxBeside ==
    ASSUME TransferTypeOK, NEW s, UNCHANGED tx,
           \A n \in Tries : tx[n] # Nobody /\ tx[n].side = s => ~tx[n].cur
    PROVE  Beside(s)
  BY TypeFacts DEF Beside, TxTyped, SameTx, LikeTx

(* So do those that are stopped. *)
LEMMA StoppedBeside ==
    ASSUME NEW s, Stopped(s) PROVE Beside(s)
  BY DEF Stopped, Beside

(* A sign-in or an unlock begins: no root of an end changes. *)
LEMMA StartsManualSteps ==
    ASSUME Base, NEW s \in Ends, StartsManual(s) PROVE UserStep(s) /\ SameRoots(s)
  <1>1. TransferTypeOK /\ TxTyped /\ home[s] \in Homes BY TypeFacts DEF Base
  <1>2. PICK h : h = [home[s] EXCEPT !.busy = TRUE] OBVIOUS
  <1>3. /\ h \in Homes /\ h.mark = home[s].mark /\ h.sealed = home[s].sealed
        /\ h.root = home[s].root /\ h.acct = home[s].acct /\ h.receipt = home[s].receipt
        /\ h.closing = home[s].closing
    BY <1>1, <1>2 DEF Homes
  <1>4. home' = [home EXCEPT ![s] = h] BY <1>2 DEF StartsManual
  <1>5. HomeOnly(s) /\ home'[s] = h BY <1>1, <1>3, <1>4, HomeSet
  <1>6. Beside(s) BY <1>1, CancelsStop, StoppedBeside DEF StartsManual
  <1>7. Advertised(s) BY <1>1, SilentMakes DEF StartsManual
  <1>8. events' \in 0 .. MaxEvents /\ IdyTyped' /\ idy'.tries = idy.tries /\ idy'.issued = idy.issued
    BY <1>1, EventsSpent, IdyStays DEF StartsManual
  <1>9. UserStep(s)
    BY <1>1, <1>5, <1>6, <1>7, <1>8 DEF UserStep, StartsManual, TransferTypeOK
  <1> QED BY <1>3, <1>5, <1>9 DEF SameRoots, StartsManual

(* It fails: no root of an end changes. *)
LEMMA FailsManualSteps ==
    ASSUME Base, NEW s \in Ends, FailsManual(s) PROVE UserStep(s) /\ SameRoots(s)
  <1>1. TransferTypeOK /\ TxTyped /\ home[s] \in Homes BY TypeFacts DEF Base
  <1>2. PICK h : h = [home[s] EXCEPT !.busy = FALSE] OBVIOUS
  <1>3. /\ h \in Homes /\ h.mark = home[s].mark /\ h.sealed = home[s].sealed
        /\ h.root = home[s].root /\ h.acct = home[s].acct /\ h.receipt = home[s].receipt
        /\ h.closing = home[s].closing
    BY <1>1, <1>2 DEF Homes
  <1>4. home' = [home EXCEPT ![s] = h] BY <1>2 DEF FailsManual
  <1>5. HomeOnly(s) /\ home'[s] = h BY <1>1, <1>3, <1>4, HomeSet
  <1>6. Beside(s) BY <1>1, TxBeside, BusyAlone DEF FailsManual
  <1>7. Advertised(s) BY <1>1, SilentMakes DEF FailsManual
  <1>8. events' \in 0 .. MaxEvents /\ IdyTyped' /\ idy'.tries = idy.tries /\ idy'.issued = idy.issued
    BY <1>1, EventsSpent, IdyStays DEF FailsManual
  <1>9. UserStep(s)
    BY <1>1, <1>5, <1>6, <1>7, <1>8 DEF UserStep, FailsManual, TransferTypeOK
  <1> QED BY <1>3, <1>5, <1>9 DEF SameRoots, FailsManual

(* The authority is renewed: no root of an end changes. *)
LEMMA NotifiesSteps ==
    ASSUME Base, NEW s \in Ends, Notifies(s) PROVE UserStep(s) /\ SameRoots(s)
  BY TypeFacts, AdvertisesMakes, EventsSpent, IdyStays DEF Base, Notifies, HomeOnly, TransferTypeOK,
     Beside, SameTx, LikeTx, TxTyped, UserStep, SameRoots

(* A closing is delivered: its roots are barred at Identity. *)
LEMMA DeliversClosingSteps ==
    ASSUME Base, NEW s \in Ends, DeliversClosing(s) PROVE UserStep(s) /\ ClosingDelivered(s)
  <1>1. TransferTypeOK /\ TxTyped /\ home[s] \in Homes BY TypeFacts DEF Base
  <1>2. PICK h : h = [home[s] EXCEPT !.closing = Nobody] OBVIOUS
  <1>3. /\ h \in Homes /\ h.mark = home[s].mark /\ h.sealed = home[s].sealed
        /\ h.root = home[s].root /\ h.acct = home[s].acct /\ h.receipt = home[s].receipt
        /\ h.closing = Nobody /\ h.busy = home[s].busy
    BY <1>1, <1>2 DEF Homes
  <1>4. home' = [home EXCEPT ![s] = h] BY <1>2 DEF DeliversClosing
  <1>5. HomeOnly(s) /\ home'[s] = h BY <1>1, <1>3, <1>4, HomeSet
  <1>6. home[s].closing \in People BY <1>1 DEF DeliversClosing, Homes
  <1>7. Beside(s)
    BY <1>1, <1>3, <1>5 DEF Beside, SameTx, LikeTx, TxTyped, DeliversClosing
  <1>8. Advertised(s) BY <1>1, SilentMakes DEF DeliversClosing
  <1>9. PICK b : b = [idy.bar EXCEPT ![home[s].closing] = idy.seq] OBVIOUS
  <1>10. idy' = [idy EXCEPT !.bar = b] /\ b \in [People -> Nat]
    BY <1>1, <1>6, <1>9 DEF DeliversClosing, TransferTypeOK
  <1>11. /\ IdyTyped' /\ idy'.tries = idy.tries /\ idy'.issued = idy.issued
         /\ idy'.bar = b /\ idy'.seq = idy.seq
    BY <1>1, <1>10 DEF IdyTyped, TransferTypeOK
  <1>12. events' \in 0 .. MaxEvents BY <1>1, EventsSpent DEF DeliversClosing
  <1>13. UserStep(s)
    BY <1>1, <1>5, <1>7, <1>8, <1>11, <1>12 DEF UserStep, DeliversClosing, TransferTypeOK
  <1> QED BY <1>3, <1>5, <1>6, <1>9, <1>11, <1>13 DEF ClosingDelivered, DeliversClosing

(* The remembered root is retired. *)
LEMMA RetiresTyped ==
    ASSUME TransferTypeOK, NEW s \in Ends
    PROVE  /\ Retires(s) \in [Ends -> [People -> [through : Nat, ckpt : Nat]]]
           /\ \A e \in Ends : \A p \in People :
                floor[e][p].through <= Retires(s)[e][p].through
           /\ home[s].receipt.acct = home[s].acct /\ home[s].acct \in People =>
                home[s].receipt.seq <= Retires(s)[s][home[s].acct].through
  <1> DEFINE r == home[s].receipt
  <1>1. /\ home[s] \in Homes /\ r \in [acct : People \cup {Nobody}, seq : Nat]
        /\ home[s].acct \in People \cup {Nobody}
        /\ floor \in [Ends -> [People -> [through : Nat, ckpt : Nat]]]
    BY TypeFacts DEF Homes, TransferTypeOK
  <1>2. \A e \in Ends : \A p \in People :
           floor[e][p] \in [through : Nat, ckpt : Nat] /\ floor[e][p].through \in Nat
    BY <1>1
  <1>3. CASE r.acct # home[s].acct BY <1>1, <1>2, <1>3 DEF Retires
  <1>4. CASE r.acct = home[s].acct /\ r.acct \in People
    <2>1. PICK k : k = IF r.seq > floor[s][r.acct].through THEN r.seq ELSE floor[s][r.acct].through
      OBVIOUS
    <2>2. k \in Nat /\ floor[s][r.acct].through <= k /\ r.seq <= k
      BY <1>1, <1>2, <1>4, <2>1
    <2>3. PICK f : f = [floor[s][r.acct] EXCEPT !.through = k] OBVIOUS
    <2>4. f \in [through : Nat, ckpt : Nat] /\ f.through = k
      BY <1>2, <1>4, <2>2, <2>3
    <2>5. PICK g : g = [floor[s] EXCEPT ![r.acct] = f] OBVIOUS
    <2>6. g \in [People -> [through : Nat, ckpt : Nat]] /\ g[r.acct] = f
          /\ \A p \in People : p # r.acct => g[p] = floor[s][p]
      BY <1>1, <1>4, <2>4, <2>5
    <2>7. Retires(s) = [floor EXCEPT ![s] = g]
      BY <1>1, <1>4, <2>1, <2>3, <2>5 DEF Retires
    <2>8. /\ Retires(s) \in [Ends -> [People -> [through : Nat, ckpt : Nat]]]
          /\ Retires(s)[s] = g /\ \A e \in Ends : e # s => Retires(s)[e] = floor[e]
      BY <1>1, <2>6, <2>7
    <2>9. \A e \in Ends : \A p \in People : floor[e][p].through <= Retires(s)[e][p].through
      <3>1. SUFFICES ASSUME NEW e \in Ends, NEW p \in People
                     PROVE  floor[e][p].through <= Retires(s)[e][p].through
        OBVIOUS
      <3>2. CASE e = s /\ p = r.acct BY <2>2, <2>4, <2>6, <2>8, <3>2
      <3>3. CASE ~(e = s /\ p = r.acct) BY <1>2, <2>6, <2>8, <3>3
      <3> QED BY <3>2, <3>3
    <2> QED BY <1>4, <2>2, <2>4, <2>6, <2>8, <2>9
  <1>5. CASE r.acct = home[s].acct /\ r.acct = Nobody
    <2>2. Nobody \notin People BY NobodyAssumption
    <2>3. Retires(s) = [floor EXCEPT ![s][r.acct].through = IF r.seq > @ THEN r.seq ELSE @]
      BY <1>5 DEF Retires
    <2>4. PICK g : g = [floor[s] EXCEPT ![r.acct].through = IF r.seq > @ THEN r.seq ELSE @]
      OBVIOUS
    <2>5. g = floor[s] BY <1>1, <1>5, <2>2, <2>4
    <2>6. Retires(s) = floor BY <2>3, <2>4, <1>1, <2>5
    <2> QED BY <1>1, <1>2, <1>5, <2>2, <2>6
  <1> QED BY <1>1, <1>3, <1>4, <1>5

(* A session that ends. *)
LEMMA EndsSessionSteps ==
    ASSUME Base, NEW s \in Ends, NEW h \in Homes, EndsSession(s, h), UNCHANGED idy,
           h.mark = home[s].mark, h.sealed \in {home[s].sealed, 0}, h.root = 0,
           home[s].acct \in People,
           h.closing = home[s].closing \/ home[s].closing = Nobody,
           floor' = Retires(s) \/ (floor' = floor /\ h.closing = home[s].acct),
           Happens \/ events' = events
    PROVE  UserStep(s) /\ RootEnded(s)
  <1>1. TransferTypeOK /\ TxTyped /\ home[s] \in Homes BY TypeFacts DEF Base
  <1>2. HomeOnly(s) /\ home'[s] = h BY <1>1, HomeSet DEF EndsSession
  <1>3. Stopped(s) /\ Beside(s)
    <2>1. PICK b \in BOOLEAN : CancelsInstalls(s, b) BY DEF EndsSession
    <2> QED BY <1>1, <2>1, CancelsStop, StoppedBeside
  <1>4. Advertised(s) BY <1>1, AdvertisesMakes DEF EndsSession
  <1>5. events' \in 0 .. MaxEvents /\ IdyTyped' /\ idy'.tries = idy.tries /\ idy'.issued = idy.issued
    BY <1>1, EventsSpent, IdyStays
  <1>6. floor' \in [Ends -> [People -> [through : Nat, ckpt : Nat]]]
    BY <1>1, RetiresTyped DEF TransferTypeOK
  <1>7. /\ shut' = IF home[s].root = 0 THEN shut ELSE shut \cup {<<s, home[s].root>>}
        /\ shut' \subseteq Ends \X Nat
    BY <1>1 DEF EndsSession, TransferTypeOK, Homes
  <1>8. UserStep(s) BY <1>2, <1>3, <1>4, <1>5, <1>6, <1>7 DEF UserStep
  <1> QED BY <1>2, <1>3, <1>7, <1>8 DEF RootEnded

(* A locked end. *)
LEMMA LockedTyped ==
    ASSUME TransferTypeOK, NEW s \in Ends, home[s].status = "unlocked"
    PROVE  LET h == Locked(home[s]) IN
           /\ h \in Homes /\ h.mark = home[s].mark /\ h.sealed = home[s].sealed /\ h.root = 0
           /\ h.closing = home[s].closing /\ home[s].acct \in People
           /\ [h EXCEPT !.closing = home[s].acct] \in Homes
  <1>1. home[s] \in Homes /\ home[s].acct \in People BY TypeFacts DEF Homes
  <1>2. PICK h : h = Locked(home[s]) OBVIOUS
  <1>3. /\ h \in Homes /\ h.mark = home[s].mark /\ h.sealed = home[s].sealed /\ h.root = 0
        /\ h.closing = home[s].closing
    BY <1>1, <1>2 DEF Homes, Locked, Statuses
  <1>4. PICK g : g = [h EXCEPT !.closing = home[s].acct] OBVIOUS
  <1>5. g \in Homes BY <1>1, <1>3, <1>4 DEF Homes
  <1> QED BY <1>1, <1>2, <1>3, <1>4, <1>5

(* An automatic lock ends the root of its end. *)
LEMMA AutoLocksSteps ==
    ASSUME Base, NEW s \in Ends, AutoLocks(s) \/ MonitorLocks(s)
    PROVE  UserStep(s) /\ RootEnded(s)
  <1>1. TransferTypeOK BY DEF Base
  <1>2. /\ home[s].status = "unlocked" /\ floor' = Retires(s) /\ UNCHANGED idy
        /\ EndsSession(s, Locked(home[s])) /\ (Happens \/ events' = events)
    BY DEF AutoLocks, MonitorLocks
  <1>3. PICK h : h = Locked(home[s]) OBVIOUS
  <1>4. /\ h \in Homes /\ h.mark = home[s].mark /\ h.sealed = home[s].sealed /\ h.root = 0
        /\ h.closing = home[s].closing /\ home[s].acct \in People
    BY <1>1, <1>2, <1>3, LockedTyped
  <1>5. EndsSession(s, h) BY <1>2, <1>3
  <1> QED BY <1>2, <1>4, <1>5, EndsSessionSteps

(* So does a lock by the user. *)
LEMMA LocksSteps ==
    ASSUME Base, NEW s \in Ends, Locks(s) PROVE UserStep(s) /\ RootEnded(s)
  <1>1. TransferTypeOK BY DEF Base
  <1>2. PICK h : h = Locked(home[s]) OBVIOUS
  <1>3. PICK g : g = [h EXCEPT !.closing = home[s].acct] OBVIOUS
  <1>4. /\ home[s].status = "unlocked" /\ floor' = Retires(s) /\ UNCHANGED idy
        /\ EndsSession(s, g) /\ Happens /\ home[s].closing = Nobody
    BY <1>2, <1>3 DEF Locks
  <1>5. /\ h \in Homes /\ h.mark = home[s].mark /\ h.sealed = home[s].sealed /\ h.root = 0
        /\ home[s].acct \in People /\ g \in Homes
    BY <1>1, <1>2, <1>3, <1>4, LockedTyped
  <1>6. g.mark = home[s].mark /\ g.sealed = home[s].sealed /\ g.root = 0
    BY <1>3, <1>5 DEF Homes
  <1> QED BY <1>4, <1>5, <1>6, EndsSessionSteps

(* So does a sign-out. *)
LEMMA LogsOutSteps ==
    ASSUME Base, NEW s \in Ends, LogsOut(s) PROVE UserStep(s) /\ RootEnded(s)
  <1>1. TransferTypeOK /\ home[s] \in Homes BY TypeFacts DEF Base
  <1>2. PICK h : h = [home[s] EXCEPT !.status = "out", !.acct = Nobody, !.root = 0,
                                !.sealed = 0, !.closing = home[s].acct]
    OBVIOUS
  <1>3. /\ home[s].status # "out" /\ floor' = floor /\ UNCHANGED idy
        /\ EndsSession(s, h) /\ Happens /\ home[s].closing = Nobody
    BY <1>2 DEF LogsOut
  <1>4. home[s].acct \in People BY <1>1, <1>3 DEF Homes
  <1>5. /\ h \in Homes /\ h.mark = home[s].mark /\ h.sealed = 0 /\ h.root = 0
        /\ h.closing = home[s].acct
    BY <1>1, <1>2, <1>4 DEF Homes, Statuses
  <1> QED BY <1>3, <1>4, <1>5, EndsSessionSteps

(* A sign-in or an unlock of the user's own. *)
LEMMA CheckpointTyped ==
    ASSUME TransferTypeOK, NEW s \in Ends, NEW p \in People, NEW k \in Nat,
           floor' = [floor EXCEPT ![s][p].ckpt = k]
    PROVE  /\ floor' \in [Ends -> [People -> [through : Nat, ckpt : Nat]]]
           /\ \A e \in Ends : \A q \in People : floor'[e][q].through = floor[e][q].through
  <1>1. floor \in [Ends -> [People -> [through : Nat, ckpt : Nat]]]
    BY DEF TransferTypeOK
  <1>2. floor[s][p] \in [through : Nat, ckpt : Nat] /\ floor[s] \in [People -> [through : Nat, ckpt : Nat]]
    BY <1>1
  <1>3. PICK f : f = [floor[s][p] EXCEPT !.ckpt = k] OBVIOUS
  <1>4. f \in [through : Nat, ckpt : Nat] /\ f.through = floor[s][p].through
    BY <1>2, <1>3
  <1>5. PICK g : g = [floor[s] EXCEPT ![p] = f] OBVIOUS
  <1>6. /\ g \in [People -> [through : Nat, ckpt : Nat]]
        /\ \A q \in People : g[q].through = floor[s][q].through
    BY <1>2, <1>4, <1>5
  <1>7. floor' = [floor EXCEPT ![s] = g] BY <1>1, <1>3, <1>5
  <1> QED BY <1>1, <1>6, <1>7

(* A sign-in or an unlock that succeeds has a root of its own, if any. *)
LEMMA EndsManualSteps ==
    ASSUME Base, NEW s \in Ends, NEW p \in People, EndsManual(s, p)
    PROVE  UserStep(s) /\ RootNew(s, p)
  <1>1. TransferTypeOK /\ TxTyped /\ home[s] \in Homes /\ idy.seq \in Nat /\ idy.seq + 1 \in Nat
    <2>1. TransferTypeOK /\ TxTyped /\ home[s] \in Homes BY TypeFacts DEF Base
    <2>2. idy.seq \in Nat BY <2>1 DEF TransferTypeOK
    <2> QED BY <2>1, <2>2
  <1>2. PICK root \in {0} \cup (IF home[s].closing = p THEN {} ELSE {idy.seq + 1}) :
          /\ idy' = [idy EXCEPT !.seq = IF root = 0 THEN @ ELSE idy.seq + 1]
          /\ floor' = IF root = 0 THEN floor ELSE [floor EXCEPT ![s][p].ckpt = root]
          /\ home' = [home EXCEPT ![s] = [@ EXCEPT
                !.busy = FALSE, !.acct = p, !.status = "unlocked", !.root = root,
                !.sealed = IF home[s].acct = Nobody THEN MaxTries + 1 ELSE home[s].sealed,
                !.receipt = IF root = 0 THEN home[s].receipt ELSE [acct |-> p, seq |-> root]]]
    BY DEF EndsManual
  <1>20. root \in {0, idy.seq + 1} BY <1>2
  <1>3. home[s].busy /\ Advertises(s) /\ UNCHANGED <<tx, events, shut>>
    BY DEF EndsManual
  <1>4. PICK k : k = IF home[s].acct = Nobody THEN MaxTries + 1 ELSE home[s].sealed
    OBVIOUS
  <1>5. PICK c : c = IF root = 0 THEN home[s].receipt ELSE [acct |-> p, seq |-> root]
    OBVIOUS
  <1>6. k \in Nat /\ k \in {home[s].sealed, 0, MaxTries + 1} /\ root \in Nat
        /\ c \in [acct : People \cup {Nobody}, seq : Nat]
    BY <1>1, <1>20, TransferAssumption, <1>4, <1>5 DEF Homes
  <1>7. PICK h : h = [home[s] EXCEPT
                !.busy = FALSE, !.acct = p, !.status = "unlocked", !.root = root,
                !.sealed = IF home[s].acct = Nobody THEN MaxTries + 1 ELSE home[s].sealed,
                !.receipt = IF root = 0 THEN home[s].receipt ELSE [acct |-> p, seq |-> root]]
    OBVIOUS
  <1>8. /\ h \in Homes /\ h.mark = home[s].mark /\ h.sealed = k /\ h.root = root
        /\ h.acct = p /\ h.receipt = c /\ h.closing = home[s].closing
    BY <1>1, <1>4, <1>5, <1>7, <1>6, NobodyAssumption DEF Homes, Statuses
  <1>9. home' = [home EXCEPT ![s] = h] BY <1>2, <1>7
  <1>10. HomeOnly(s) /\ home'[s] = h BY <1>1, <1>6, <1>8, <1>9, HomeSet
  <1>11. Beside(s) BY <1>1, <1>3, TxBeside, BusyAlone
  <1>12. Advertised(s) BY <1>1, <1>3, AdvertisesMakes
  <1>13. events' \in 0 .. MaxEvents BY <1>1, <1>3, EventsSpent
  <1>14. /\ IdyTyped' /\ idy'.tries = idy.tries /\ idy'.issued = idy.issued /\ idy'.bar = idy.bar
         /\ root = 0 => idy' = idy
         /\ root # 0 => idy'.seq = idy.seq + 1
    BY <1>1, <1>2, IdyStays DEF TransferTypeOK, IdyTyped
  <1>15. floor' \in [Ends -> [People -> [through : Nat, ckpt : Nat]]]
    BY <1>1, <1>2, <1>6, CheckpointTyped DEF TransferTypeOK
  <1>16. UserStep(s)
    BY <1>1, <1>3, <1>10, <1>11, <1>12, <1>13, <1>14, <1>15 DEF UserStep, TransferTypeOK
  <1>17. RootNew(s, p)
    BY <1>2, <1>20, <1>3, <1>5, <1>8, <1>10, <1>14 DEF RootNew
  <1> QED BY <1>16, <1>17

-----------------------------------------------------------------------------
(* The coordinators connect again: nothing was under way. *)
LEMMA ConnectsAgainBase ==
    ASSUME Base, ConnectsAgain
    PROVE  /\ Base' /\ \A s \in Ends : co'[s].att = Nobody /\ wire'[s] = <<>>
           /\ \A n \in Tries : tx[n] # Nobody => ~tx[n].cur
  <1>1. /\ TransferTypeOK /\ \A n \in Tries : TxAgree(n) /\ tx[n] \in Transactions \cup {Nobody}
        /\ \A s \in Ends : Silent(s) /\ co[s] \in Coordinators
    BY TypeFacts DEF Base, Agreed
  <1>2. /\ \A s \in Ends : ~co[s].up
        /\ co' = [s \in Ends |-> NewCoordinator(co[s].ids)]
        /\ wire' = [s \in Ends |-> <<>>]
        /\ UNCHANGED <<home, floor, tx, idy, shut>> /\ events' \in 0 .. MaxEvents
    BY <1>1, EventsSpent DEF ConnectsAgain
  <1>3. \A n \in Tries : tx[n] # Nobody => ~tx[n].cur
    BY <1>1, <1>2 DEF TxAgree, Silent, Transactions
  <1>4. \A s \in Ends : co[s].ids \in Nat BY <1>1 DEF Coordinators
  <1>5. \A s \in Ends : /\ co'[s] \in Coordinators /\ co'[s].up /\ co'[s].att = Nobody
                        /\ wire'[s] = <<>>
    BY <1>2, <1>4, NewFacts
  <1>6. /\ \A s \in Ends : AttemptOK(s)' /\ Begun(s)' /\ Silent(s)'
        /\ PreparesOK'
    BY <1>5 DEF AttemptOK, Begun, Silent, PreparesOK, On
  <1>7. \A n \in Tries : TxAgree(n)' BY <1>1, <1>2, <1>3 DEF TxAgree, Ntry
  <1>8. TransferTypeOK' BY <1>1, <1>2, <1>5 DEF TransferTypeOK
  <1> QED BY <1>3, <1>5, <1>6, <1>7, <1>8 DEF Base, Agreed

(* The steps that leave everything. *)
LEMMA StutterBase ==
    ASSUME Base, UNCHANGED transferVars PROVE Base'
  <1>1. /\ \A n \in Tries : TxAgree(n)' = TxAgree(n)
        /\ \A s \in Ends : Silent(s)' = Silent(s) /\ Begun(s)' = Begun(s)
        /\ \A s \in Ends : PairOf(s)' = PairOf(s)
        /\ PreparesOK' = PreparesOK /\ TransferTypeOK' = TransferTypeOK
    BY DEF transferVars, TxAgree, Silent, Begun, PairOf, PairFor, Roles, PreparesOK, TransferTypeOK, On, Ntry
  <1>2. \A s \in Ends : AttemptOK(s)' = AttemptOK(s)
    BY <1>1 DEF AttemptOK, Matches, transferVars, Ntry
  <1> QED BY <1>1, <1>2 DEF Base, Agreed

-----------------------------------------------------------------------------
(* Every step is one of a few kinds. *)
ClosesTx(n) ==
    \E s \in Ends : \E step \in {"late", "over"} :
      /\ Closes(n, s, step)
      /\ tx[n].at \notin {"over", "late"} /\ (step = "late") = (tx[n].at = "commit")
UserActs(s) ==
    UserStep(s) /\ (\/ SameRoots(s) \/ RootEnded(s) \/ ClosingDelivered(s)
                    \/ \E p \in People : home[s].busy /\ RootNew(s, p))
CoActs(s) ==
    \/ QuietStep(s) \/ PreparedStep(s) \/ HandedStep(s) \/ OpenedStep(s)
    \/ PreparedBy(s) \/ CreatedStep(s) \/ HandedOver(s)

(* What a step of a coordinator is. *)
LEMMA CoordinatorsAct ==
    ASSUME Base, NEW s \in Ends, Coordinates(s) \/ Sources(s) \/ Receives(s)
    PROVE  CoActs(s)
  <1>1. CASE Coordinates(s)
    BY <1>1, RefreshesQuiet, TellsStateQuiet, GetsStateQuiet, PicksLinkQuiet, GetsLinkQuiet,
       ConfirmsLinkSteps, GetsChosenSteps, AdoptsLinkQuiet, GetsCancelQuiet, TimesOutQuiet,
       SeesRouteGoneQuiet, Zenon DEF Coordinates, CoActs
  <1>2. CASE Sources(s)
    BY <1>2, PreparesSteps, GetsPreparedQuiet, GetsAnswerSteps, GetsAckQuiet, Zenon DEF Sources, CoActs
  <1>3. CASE Receives(s)
    BY <1>3, GetsPrepareSteps, GetsOfferSteps, GetsHandoffSteps, Zenon DEF Receives, CoActs
  <1> QED BY <1>1, <1>2, <1>3

(* What a step of a transaction is. *)
LEMMA TransactionsAct ==
    ASSUME Base, NEW n \in Tries, Installs(n)
    PROVE  Serves(n) \/ ClosesTx(n) \/ \E s \in Ends : Published(n, s)
  <1>1. CASE Publishes(n)
    <2>1. PICK s : Published(n, s) BY <1>1, PublishesPublished
    <2>2. s \in Ends BY <2>1, TypeFacts DEF Published, Base, Transactions
    <2> QED BY <2>1, <2>2
  <1>2. CASE RollsBack(n) BY <1>2, RollsBackCloses DEF ClosesTx
  <1>3. CASE Refuses(n)
    <2>1. PICK s \in Ends : Closes(n, s, "over") /\ tx[n].at = "fresh"
      BY <1>3, RefusesCloses
    <2> QED BY <2>1 DEF ClosesTx
  <1>4. CASE ~Publishes(n) /\ ~RollsBack(n) /\ ~Refuses(n)
    BY <1>4, Zenon DEF Installs, Serves
  <1> QED BY <1>1, <1>2, <1>3, <1>4

(* What a step of a user, of Identity or of the route is. *)
LEMMA UsersAct ==
    ASSUME Base, NEW s \in Ends, Lives(s) PROVE UserActs(s) \/ QuietStep(s)
  <1>1. CASE \E p \in People : EndsManual(s, p)
    <2>1. PICK p \in People : EndsManual(s, p) BY <1>1
    <2>2. UserStep(s) /\ RootNew(s, p) BY <2>1, EndsManualSteps
    <2>3. home[s].busy BY <2>1 DEF EndsManual
    <2> QED BY <2>2, <2>3 DEF UserActs
  <1>2. CASE ~\E p \in People : EndsManual(s, p)
    BY <1>2, StartsManualSteps, FailsManualSteps, AutoLocksSteps, LocksSteps, LogsOutSteps,
       DeliversClosingSteps, NotifiesSteps, CancelsPendingQuiet, RouteBreaksQuiet, Zenon
       DEF Lives, UserActs
  <1> QED BY <1>1, <1>2

(* No step makes the ends disagree. *)
LEMMA NextActs ==
    ASSUME Base, TransferNext
    PROVE  \/ \E s \in Ends : CoActs(s) \/ UserActs(s)
           \/ \E n \in Tries : Serves(n) \/ ClosesTx(n) \/ \E s \in Ends : Published(n, s)
           \/ ConnectsAgain
  BY CoordinatorsAct, UsersAct, TransactionsAct DEF CoActs, TransferNext

(* Which end opened an attempt, for the whole of it. *)
LEMMA DirectedKept ==
    ASSUME Base, NEW src \in [Tries -> Ends], Directed(src), NEW s \in Ends,
           co'[Far(s)] = co[Far(s)],
           co'[s].att # Nobody =>
             src[co'[s].att.id] = IF co'[s].att.dir = "source" THEN s ELSE Far(s),
           NEW M, Routed(s, M), \A m \in M : m.kind = "prepare" => src[m.id] = s,
           \A n \in Tries : tx'[n] # Nobody =>
              (tx[n] # Nobody /\ tx'[n].side = tx[n].side) \/ tx'[n].side = Far(src[n])
    PROVE  Directed(src)'
  <1>0. Far(s) \in Ends /\ Far(s) # s /\ Far(Far(s)) = s /\ \A e \in Ends : e = s \/ e = Far(s)
    BY FarEnd
  <1>1. ASSUME NEW e \in Ends, co'[e].att # Nobody
        PROVE  src[co'[e].att.id] = IF co'[e].att.dir = "source" THEN e ELSE Far(e)
    BY <1>0, <1>1 DEF Directed
  <1>2. ASSUME NEW e \in Ends, NEW i \in On(e, "prepare")'
        PROVE  src[wire'[e][i].id] = Far(e)
    <2>0. i \in 1 .. Len(wire'[e]) /\ wire'[e][i].kind = "prepare"
      BY <1>2 DEF On
    <2>1. PICK L : Carried(e, L) /\ (L = {} \/ (L = M /\ e = Far(s)))
      BY <1>0 DEF Routed
    <2>2. PICK k \in {0, 1} :
             \/ i + k <= Len(wire[e]) /\ wire'[e][i] = wire[e][i + k]
             \/ wire'[e][i] \in L
      BY <2>0, <2>1 DEF Carried
    <2>3. CASE wire'[e][i] \in L BY <1>0, <2>0, <2>1, <2>3
    <2>4. CASE i + k <= Len(wire[e]) /\ wire'[e][i] = wire[e][i + k]
      BY <2>0, <2>4 DEF On, Directed
    <2> QED BY <2>2, <2>3, <2>4
  <1>3. \A n \in Tries : tx'[n] # Nobody => tx'[n].side = Far(src[n])
    BY DEF Directed
  <1> QED BY <1>1, <1>2, <1>3 DEF Directed

(* The attempt of a coordinator that goes on keeps its direction. *)
LEMMA CoStepDirected ==
    ASSUME Base, NEW src \in [Tries -> Ends], Directed(src), NEW s \in Ends, NEW M, CoStep(s, M),
           \A m \in M : m.kind = "prepare" => src[m.id] = s
    PROVE  Directed(src)'
  <1>1. /\ co'[Far(s)] = co[Far(s)] /\ Routed(s, M) /\ Steady(s)
        /\ \A n \in Tries : SameTx(n)
    BY DEF CoStep, Moves, Alone, Apart, Eased
  <1>2. ASSUME co'[s].att # Nobody
        PROVE  src[co'[s].att.id] = IF co'[s].att.dir = "source" THEN s ELSE Far(s)
    BY <1>1, <1>2 DEF Steady, StaysOrGoes, GoesOn, Aborted, Directed
  <1>3. \A n \in Tries : tx'[n] # Nobody => tx[n] # Nobody /\ tx'[n].side = tx[n].side
    BY <1>1 DEF SameTx, LikeTx
  <1> QED BY <1>1, <1>2, <1>3, DirectedKept

(* An attempt that is opened is its end's own. *)
LEMMA OpenedDirected ==
    ASSUME Base, NEW src \in [Tries -> Ends], Directed(src), NEW s \in Ends, OpenedStep(s)
    PROVE  \E t \in [Tries -> Ends] :
              /\ t[Ntry + 1] = s /\ \A n \in Tries : n <= Ntry => t[n] = src[n]
              /\ Directed(t)'
  <1>1. PICK M : /\ Plain(M) /\ Alone(s, M) /\ Starting(s)
                 /\ co'[s].att.dir = "source" /\ co'[s].att.at = "scope"
                 /\ co'[s].att.id = Ntry + 1 /\ Ntry + 1 \in Tries
    BY DEF OpenedStep
  <1>2. PICK t : t = [src EXCEPT ![Ntry + 1] = s] OBVIOUS
  <1>3. /\ t \in [Tries -> Ends] /\ t[Ntry + 1] = s /\ Ntry \in Nat
        /\ \A n \in Tries : n <= Ntry => t[n] = src[n]
    BY <1>1, <1>2 DEF Base, TransferTypeOK, Ntry, Tries
  <1>4. Directed(t)
    <2>1. ASSUME NEW e \in Ends, co[e].att # Nobody
          PROVE  t[co[e].att.id] = IF co[e].att.dir = "source" THEN e ELSE Far(e)
      BY <2>1, TypeFacts, <1>3 DEF Base, Agreed, AttemptOK, Coordinators, Attempts, Directed
    <2>2. ASSUME NEW e \in Ends, NEW i \in On(e, "prepare") PROVE t[wire[e][i].id] = Far(e)
      BY <2>2, MessageParts, <1>3 DEF On, Base, TransferTypeOK, Agreed, PreparesOK, Directed
    <2>3. ASSUME NEW n \in Tries, tx[n] # Nobody PROVE tx[n].side = Far(t[n])
      BY <1>3, <2>3 DEF Base, Agreed, TxAgree, Directed
    <2> QED BY <2>1, <2>2, <2>3 DEF Directed
  <1>5. Directed(t)'
    BY <1>1, <1>3, <1>4, DirectedKept DEF Alone, Apart, Eased, SameTx, LikeTx, Plain
  <1> QED BY <1>3, <1>5

(* So are all that a receiver does for an attempt. *)
LEMMA ReceiverDirected ==
    ASSUME Base, NEW src \in [Tries -> Ends], Directed(src), NEW s \in Ends,
           PreparedBy(s) \/ CreatedStep(s) \/ HandedOver(s)
    PROVE  Directed(src)'
  <1>0. Far(s) \in Ends /\ Far(s) # s /\ Far(Far(s)) = s BY FarEnd
  <1>1. CASE PreparedBy(s)
    <2>1. PICK m \in Messages : m.kind = "prepared" /\ Alone(s, {m})
      BY <1>1 DEF PreparedBy
    <2>2. /\ Gets(s, "prepare") /\ co'[s].att.id = Msg(s).id /\ co'[s].att.dir = "receiver"
      BY <1>1 DEF PreparedBy
    <2>3. Msg(s) = wire[s][1] /\ 1 \in On(s, "prepare") BY <2>2, MessageTaken
    <2>4. src[co'[s].att.id] = Far(s) BY <2>2, <2>3 DEF Directed
    <2>5. co'[Far(s)] = co[Far(s)] /\ Routed(s, {m}) /\ \A n \in Tries : SameTx(n)
      BY <2>1 DEF Alone, Apart, Eased
    <2>6. \A n \in Tries : tx'[n] # Nobody => tx[n] # Nobody /\ tx'[n].side = tx[n].side
      BY <2>5 DEF SameTx, LikeTx
    <2> QED BY <2>1, <2>2, <2>4, <2>5, <2>6, DirectedKept
  <1>2. CASE CreatedStep(s)
    <2>1. PICK m \in Messages : m.kind = "answer" /\ Routed(s, {m})
      BY <1>2 DEF CreatedStep
    <2>2. PICK n : n = co[s].att.id OBVIOUS
    <2>3. /\ AttReaches(s, "hand") /\ co[s].att # Nobody /\ co[s].att.dir = "receiver"
          /\ \A k \in Tries : k # n => tx'[k] = tx[k]
          /\ tx'[n].side = s
      BY <1>2, <2>2 DEF CreatedStep, Created, Receiving, Attempt
    <2>4. src[n] = Far(s) BY <2>2, <2>3 DEF Directed
    <2>5. /\ co'[Far(s)] = co[Far(s)] /\ co'[s].att.id = n /\ co'[s].att.dir = "receiver"
      BY <2>2, <2>3 DEF AttReaches
    <2> QED BY <1>0, <2>1, <2>3, <2>4, <2>5, DirectedKept
  <1>3. CASE HandedOver(s)
    <2>1. PICK n : n = co[s].att.id OBVIOUS
    <2>2. /\ AttReaches(s, "install") /\ co[s].att # Nobody /\ co[s].att.dir = "receiver"
          /\ \A k \in Tries : k # n => tx'[k] = tx[k]
          /\ tx[n] # Nobody /\ tx'[n].side = tx[n].side /\ Routed(s, {})
      BY <1>3, <2>1 DEF HandedOver, Handed, Receiving, Attempt
    <2>3. src[n] = Far(s) BY <2>1, <2>2 DEF Directed
    <2>4. /\ co'[Far(s)] = co[Far(s)] /\ co'[s].att.id = n /\ co'[s].att.dir = "receiver"
      BY <2>1, <2>2 DEF AttReaches
    <2>5. \A k \in Tries : tx'[k] # Nobody => tx[k] # Nobody /\ tx'[k].side = tx[k].side
      BY <2>2
    <2> QED BY <2>2, <2>3, <2>4, <2>5, DirectedKept
  <1> QED BY <1>1, <1>2, <1>3

(* A coordinator's step. *)
LEMMA CoActsKeep ==
    ASSUME Base, NEW src \in [Tries -> Ends], Directed(src), NEW s \in Ends, CoActs(s)
    PROVE  Base' /\ \E t \in [Tries -> Ends] : Directed(t)'
  <1>1. CASE QuietStep(s)
    <2>1. PICK M : Plain(M) /\ CoStep(s, M) BY <1>1 DEF QuietStep
    <2>2. \A m \in M : m.kind # "prepare" BY <2>1 DEF Plain
    <2>3. Directed(src)' BY <2>1, <2>2, CoStepDirected
    <2> QED BY <1>1, <2>3, QuietBase
  <1>2. CASE PreparedStep(s)
    <2>1. PICK m \in Messages :
            /\ CoStep(s, {m}) /\ Sending(s, "scope") /\ m.id = Attempt(s).id
      BY <1>2 DEF PreparedStep
    <2>2. src[m.id] = s BY <2>1 DEF Directed, Sending, Attempt
    <2>3. Directed(src)' BY <2>1, <2>2, CoStepDirected
    <2> QED BY <1>2, <2>3, PreparedBase
  <1>3. CASE HandedStep(s)
    <2>1. PICK m \in Messages : CoStep(s, {m}) /\ m.kind = "handoff"
      BY <1>3 DEF HandedStep
    <2>2. Directed(src)' BY <2>1, CoStepDirected
    <2> QED BY <1>3, <2>2, HandedBase
  <1>4. CASE OpenedStep(s)
    <2>1. PICK t \in [Tries -> Ends] : Directed(t)' BY <1>4, OpenedDirected
    <2> QED BY <1>4, <2>1, OpenedBase
  <1>5. CASE PreparedBy(s) \/ CreatedStep(s) \/ HandedOver(s)
    BY <1>5, ReceiverDirected, PreparedByBase, CreatedBase, HandedOverBase
  <1> QED BY <1>1, <1>2, <1>3, <1>4, <1>5 DEF CoActs

(* An end whose attempt is unchanged or gone, and says nothing of one. *)
LEMMA DirectedStays ==
    ASSUME Base, NEW src \in [Tries -> Ends], Directed(src), NEW s \in Ends,
           co'[Far(s)] = co[Far(s)], co'[s].att \in {Nobody, co[s].att},
           NEW M, Routed(s, M), \A m \in M : m.kind # "prepare",
           \A n \in Tries : LikeTx(n)
    PROVE  Directed(src)'
  BY DirectedKept DEF LikeTx, Directed

(* Every step. *)
LEMMA NextKeeps ==
    ASSUME Base, NEW src \in [Tries -> Ends], Directed(src), TransferNext
    PROVE  Base' /\ \E t \in [Tries -> Ends] : Directed(t)'
  <1>0. /\ WireTyped /\ \A s \in Ends : co[s] \in Coordinators
        /\ \A n \in Tries : tx[n] \in Transactions \cup {Nobody}
    BY TypeFacts DEF Base
  <1>1. CASE \E s \in Ends : CoActs(s) BY <1>1, CoActsKeep
  <1>2. ASSUME NEW s \in Ends, UserActs(s) PROVE Base' /\ Directed(src)'
    <2>1. UserStep(s) BY <1>2 DEF UserActs
    <2>2. /\ co'[Far(s)] = co[Far(s)] /\ co'[s].att \in {Nobody, co[s].att}
          /\ UNCHANGED wire /\ \A n \in Tries : LikeTx(n)
      BY <1>0, <2>1, ChangedFacts DEF UserStep, Advertised, Beside, SameTx
    <2>3. Routed(s, {}) BY <1>0, <2>2, SameRouted
    <2> QED BY <2>1, <2>2, <2>3, UserBase, DirectedStays
  <1>3. ASSUME NEW n \in Tries, Serves(n) PROVE Base' /\ Directed(src)'
    <2>1. UNCHANGED <<co, wire>>
      BY <1>3 DEF Serves, Issues, Commits, Stages, Freshens, AnswersLate, LosesAnswer, Working
    <2>2. \A m \in Tries : tx'[m] # Nobody => tx[m] # Nobody /\ tx'[m].side = tx[m].side
      BY <1>0, TypeFacts, TxToGoes, <1>3 DEF Base, TxGoes, LikeTx, Serves, Issues, Commits, Stages,
         Freshens, AnswersLate, LosesAnswer, Tx, TxSteps
    <2>3. Directed(src)' BY <2>1, <2>2 DEF Directed, On
    <2> QED BY <1>3, <2>3, ServesBase
  <1>4. ASSUME NEW n \in Tries, ClosesTx(n) PROVE Base' /\ Directed(src)'
    <2>1. PICK s \in Ends, step \in {"late", "over"} : Closes(n, s, step)
      BY <1>4 DEF ClosesTx
    <2>2. PICK M : Routed(s, M) /\ \A m \in M : m.kind \in {"ack", "cancel"}
      BY <2>1 DEF Closes
    <2>3. co'[Far(s)] = co[Far(s)] /\ co'[s].att \in {Nobody, co[s].att}
      BY <1>0, <2>1, CancelledFacts, DownFacts DEF Closes
    <2>4. \A m \in Tries : LikeTx(m) BY <2>1 DEF Closes, TxGoes
    <2> QED BY <2>1, <2>2, <2>3, <2>4, ClosesBase, DirectedStays
  <1>5. ASSUME NEW n \in Tries, NEW s \in Ends, Published(n, s) PROVE Base' /\ Directed(src)'
    <2>1. PICK m \in Messages : m.kind = "ack" /\ Routed(s, {m})
      BY <1>5 DEF Published
    <2>2. co'[Far(s)] = co[Far(s)] /\ co'[s].att = Nobody /\ \A k \in Tries : LikeTx(k)
      BY <1>5 DEF Published, TxGoes
    <2>3. Directed(src)' BY <2>1, <2>2, DirectedStays
    <2> QED BY <1>5, <2>3, PublishedBase
  <1>6. CASE ConnectsAgain
    BY <1>6, ConnectsAgainBase DEF ConnectsAgain, Directed, On
  <1> QED BY <1>1, <1>2, <1>3, <1>4, <1>5, <1>6, NextActs

-----------------------------------------------------------------------------
(* The roots.  own is who each of them was authorized for: a root is used    *)
(* only for that account, wherever it is, and one that an end has shut is    *)
(* retired there, closed at Identity, or its closing is still to be          *)
(* delivered.                                                                *)
HomeRooted(s, own) ==
    home[s].root # 0 =>
      /\ own[home[s].root] = home[s].acct /\ home[s].root <= idy.seq
      /\ home[s].receipt = [acct |-> home[s].acct, seq |-> home[s].root]
      /\ <<s, home[s].root>> \notin shut
WireRooted(s, own) ==
    \A i \in On(s, "handoff") :
      LET m == wire[s][i] IN
      /\ m.root \in 1 .. idy.seq /\ m.id <= Ntry /\ own[m.root] = idy.tries[m.id].acct
TxRooted(n, own) ==
    tx[n] # Nobody =>
      /\ tx[n].root <= idy.seq
      /\ tx[n].root # 0 => own[tx[n].root] = tx[n].acct
      /\ tx[n].at \in {"commit", "stage", "fresh", "publish", "late"} => tx[n].root # 0
      /\ tx[n].at = "publish" /\ tx[n].cur => <<tx[n].side, tx[n].root>> \notin shut
ShutBehind(own) ==
    \A e \in Ends : \A r \in Nat : <<e, r>> \in shut =>
      /\ r \in 1 .. idy.seq
      /\ \/ r <= floor[e][own[r]].through
         \/ r <= idy.bar[own[r]]
         \/ home[e].closing = own[r]
Rooted(own) ==
    /\ \A s \in Ends : HomeRooted(s, own) /\ WireRooted(s, own)
    /\ \A n \in Tries : TxRooted(n, own)
    /\ \A p \in People : idy.bar[p] <= idy.seq
    /\ ShutBehind(own)

(* The keys on the route are of roots that Identity knows. *)
LEMMA WireRootedKept ==
    ASSUME Base, NEW own \in [Nat -> People], Rooted(own),
           NEW own2 \in [Nat -> People], \A r \in 1 .. idy.seq : own2[r] = own[r],
           idy.seq <= idy'.seq, idy'.seq \in Nat, TriesGrow, NEW s \in Ends, NEW M, Routed(s, M),
           \A m \in M : m.kind = "handoff" =>
              /\ m.root \in 1 .. idy.seq /\ m.id \in 1 .. Ntry
              /\ own[m.root] = idy.tries[m.id].acct
    PROVE  \A e \in Ends : WireRooted(e, own2)'
  <1>0. Far(s) \in Ends /\ Far(s) # s /\ \A e \in Ends : e = s \/ e = Far(s)
    BY FarEnd
  <1>00. idy.seq \in Nat /\ Ntry \in Nat /\ \A e \in Ends : WireRooted(e, own) /\ wire[e] \in Seq(Messages)
    <2>1. idy.seq \in Nat /\ Ntry \in Nat BY DEF Base, TransferTypeOK, Ntry
    <2>2. \A e \in Ends : wire[e] \in Seq(Messages)
      BY TypeFacts DEF Base, WireTyped
    <2> QED BY <2>1, <2>2 DEF Rooted
  <1>1. SUFFICES ASSUME NEW e \in Ends, NEW i \in On(e, "handoff")'
                 PROVE  /\ wire'[e][i].root \in 1 .. idy'.seq /\ wire'[e][i].id <= Ntry'
                        /\ own2[wire'[e][i].root] = idy'.tries[wire'[e][i].id].acct
    BY DEF WireRooted
  <1>2. i \in 1 .. Len(wire'[e]) /\ wire'[e][i].kind = "handoff" BY DEF On
  <1>3. PICK L : Carried(e, L) /\ \A m \in L : m \in M BY <1>0 DEF Routed
  <1>4. PICK k \in {0, 1} :
           \/ i + k <= Len(wire[e]) /\ wire'[e][i] = wire[e][i + k]
           \/ wire'[e][i] \in L
    BY <1>2, <1>3 DEF Carried
  <1>5. /\ wire'[e][i].root \in 1 .. idy.seq /\ wire'[e][i].id \in 1 .. Ntry
        /\ own[wire'[e][i].root] = idy.tries[wire'[e][i].id].acct
    <2>1. CASE wire'[e][i] \in L BY <1>2, <1>3, <2>1
    <2>2. CASE i + k <= Len(wire[e]) /\ wire'[e][i] = wire[e][i + k]
      BY <1>2, <2>2, <1>00, MessageParts DEF On, WireRooted, Tries
    <2> QED BY <1>4, <2>1, <2>2
  <1> QED BY SMTT(30), <1>00, <1>5 DEF TriesGrow

(* A step that leaves the roots alone. *)
LEMMA RootedKept ==
    ASSUME Base, NEW own \in [Nat -> People], Rooted(own), NEW s \in Ends, NEW M, Routed(s, M),
           \A m \in M : m.kind = "handoff" =>
              /\ m.root \in 1 .. idy.seq /\ m.id \in 1 .. Ntry
              /\ own[m.root] = idy.tries[m.id].acct,
           TriesGrow, idy'.seq = idy.seq, idy'.bar = idy.bar, shut' = shut,
           \A e \in Ends : \A p \in People : floor[e][p].through = floor'[e][p].through,
           \A e \in Ends : /\ home'[e].root = home[e].root /\ home'[e].acct = home[e].acct
                           /\ home'[e].receipt = home[e].receipt
                           /\ home'[e].closing = home[e].closing,
           \A n \in Tries : SameTx(n) \/ TxRooted(n, own)'
    PROVE  Rooted(own)'
  <1>0. idy.seq \in Nat BY DEF Base, TransferTypeOK
  <1>1. \A e \in Ends : WireRooted(e, own)' BY <1>0, WireRootedKept
  <1>2. \A e \in Ends : HomeRooted(e, own)' BY DEF Rooted, HomeRooted
  <1>3. \A n \in Tries : TxRooted(n, own)'
    <2>1. SUFFICES ASSUME NEW n \in Tries, SameTx(n) PROVE TxRooted(n, own)'
      OBVIOUS
    <2>2. TxRooted(n, own) BY DEF Rooted
    <2> QED BY <2>1, <2>2 DEF TxRooted, SameTx, LikeTx
  <1>4. ShutBehind(own)' BY DEF Rooted, ShutBehind
  <1> QED BY <1>1, <1>2, <1>3, <1>4 DEF Rooted

(* Homes that stay. *)
LEMMA RootsSame ==
    ASSUME SameHomes \/ UNCHANGED home
    PROVE  \A e \in Ends : /\ home'[e].root = home[e].root /\ home'[e].acct = home[e].acct
                           /\ home'[e].receipt = home[e].receipt
                           /\ home'[e].closing = home[e].closing
  BY DEF SameHomes

(* A coordinator's step that goes on with its attempt. *)
LEMMA CoStepRooted ==
    ASSUME Base, NEW own \in [Nat -> People], Rooted(own), NEW s \in Ends, NEW M, CoStep(s, M),
           \A m \in M : m.kind = "handoff" =>
              /\ m.root \in 1 .. idy.seq /\ m.id \in 1 .. Ntry
              /\ own[m.root] = idy.tries[m.id].acct
    PROVE  Rooted(own)'
  BY TriesStay, RootsSame, RootedKept DEF CoStep, Moves, Alone, Apart, Eased

(* Keys are handed over for the account that the attempt is for. *)
LEMMA HandedRooted ==
    ASSUME Base, NEW own \in [Nat -> People], Rooted(own), NEW s \in Ends, HandedStep(s)
    PROVE  Rooted(own)'
  <1>1. PICK m \in Messages :
          /\ CoStep(s, {m}) /\ m.kind = "handoff"
          /\ co[s].att # Nobody /\ m.id = co[s].att.id /\ m.root = home[s].root
          /\ home[s].root # 0 /\ home[s].acct = co[s].att.sel.acct
    BY DEF HandedStep
  <1>2. AttemptOK(s) /\ co[s] \in Coordinators /\ home[s] \in Homes /\ idy.seq \in Nat
    BY TypeFacts DEF Base, TransferTypeOK, Agreed
  <1>3. m.id \in 1 .. Ntry /\ idy.tries[m.id].acct = home[s].acct
    BY <1>1, <1>2 DEF AttemptOK, Coordinators, Attempts, Tries
  <1>4. m.root \in 1 .. idy.seq /\ own[m.root] = home[s].acct
    <2>1. HomeRooted(s, own) /\ home[s].root \in Nat BY <1>2 DEF Rooted, Homes
    <2> QED BY <1>1, <1>2, <2>1 DEF HomeRooted
  <1> QED BY <1>1, <1>3, <1>4, CoStepRooted

(* Every step of a coordinator. *)
LEMMA CoActsRooted ==
    ASSUME Base, NEW own \in [Nat -> People], Rooted(own), NEW s \in Ends, CoActs(s)
    PROVE  Rooted(own)'
  <1>0. idy.seq \in Nat /\ \A n \in Tries : TxRooted(n, own) /\ TxAgree(n) /\ tx[n] \in Transactions \cup {Nobody}
    BY TypeFacts DEF Base, TransferTypeOK, Agreed, Rooted
  <1>1. CASE QuietStep(s)
    <2>1. PICK M : Plain(M) /\ CoStep(s, M) BY <1>1 DEF QuietStep
    <2>2. \A m \in M : m.kind # "handoff" BY <2>1 DEF Plain
    <2> QED BY <2>1, <2>2, CoStepRooted
  <1>2. CASE PreparedStep(s)
    <2>1. PICK m \in Messages : CoStep(s, {m}) /\ m.kind = "prepare"
      BY <1>2 DEF PreparedStep
    <2> QED BY <2>1, CoStepRooted
  <1>3. CASE HandedStep(s) BY <1>3, HandedRooted
  <1>4. CASE OpenedStep(s)
    <2>1. PICK M : Plain(M) /\ Alone(s, M) BY <1>4 DEF OpenedStep
    <2>2. PICK x \in Selections : idy' = [idy EXCEPT !.tries = Append(idy.tries, x)]
      BY <1>4 DEF OpenedStep
    <2>3. /\ idy'.tries = Append(idy.tries, x) /\ idy'.seq = idy.seq /\ idy'.bar = idy.bar
          /\ idy'.issued = idy.issued
      BY <2>2 DEF Base, TransferTypeOK
    <2>4. TriesGrow BY <2>3, AttemptsAppended
    <2>5. Routed(s, M) /\ \A n \in Tries : SameTx(n)
      BY <2>1 DEF Alone, Apart, Eased
    <2>6. \A m \in M : m.kind # "handoff" BY <2>1 DEF Plain
    <2>7. UNCHANGED <<home, floor, shut>> BY <1>4 DEF OpenedStep
    <2> QED BY <2>3, <2>4, <2>5, <2>6, <2>7, RootsSame, RootedKept
  <1>5. CASE PreparedBy(s)
    <2>1. PICK m \in Messages : m.kind = "prepared" /\ Alone(s, {m})
      BY <1>5 DEF PreparedBy
    <2>2. UNCHANGED <<home, floor, idy, shut>> BY <1>5 DEF PreparedBy
    <2>3. TriesGrow /\ Routed(s, {m}) /\ \A n \in Tries : SameTx(n)
      BY <2>1, <2>2, TriesStay DEF Alone, Apart, Eased
    <2> QED BY <2>1, <2>2, <2>3, RootsSame, RootedKept
  <1>6. CASE CreatedStep(s)
    <2>1. PICK m \in Messages : m.kind = "answer" /\ Routed(s, {m})
      BY <1>6 DEF CreatedStep
    <2>2. SameHomes /\ UNCHANGED <<floor, idy, shut>> BY <1>6 DEF CreatedStep
    <2>3. PICK n : n = co[s].att.id OBVIOUS
    <2>4. /\ \A k \in Tries : k # n => tx'[k] = tx[k]
          /\ tx'[n].root = 0 /\ tx'[n].at = "hand"
      BY <1>6, <2>3 DEF CreatedStep, Created
    <2>5. TxRooted(n, own)' BY <1>0, <2>2, <2>4 DEF TxRooted
    <2>6. \A k \in Tries : k # n => SameTx(k) BY <2>4 DEF SameTx, LikeTx
    <2> QED BY <2>1, <2>2, <2>5, <2>6, TriesStay, RootsSame, RootedKept
  <1>7. CASE HandedOver(s)
    <2>1. PICK n : n = co[s].att.id OBVIOUS
    <2>2. /\ n \in Tries /\ tx[n] # Nobody /\ tx'[n] # Nobody
          /\ tx'[n].acct = tx[n].acct /\ tx'[n].at = "commit"
          /\ Gets(s, "handoff") /\ Msg(s).id = n /\ tx'[n].root = Msg(s).root
          /\ \A k \in Tries : k # n => tx'[k] = tx[k]
          /\ Routed(s, {}) /\ UNCHANGED <<home, floor, idy, shut>>
      BY <1>7, <2>1 DEF HandedOver, Handed
    <2>3. Msg(s) = wire[s][1] /\ 1 \in On(s, "handoff") BY <2>2, MessageTaken
    <2>4. /\ Msg(s).root \in 1 .. idy.seq /\ own[Msg(s).root] = idy.tries[n].acct
      BY <2>2, <2>3 DEF Rooted, WireRooted
    <2>5. TxRooted(n, own)'
      <3>1. tx[n].acct = idy.tries[n].acct BY <1>0, <2>2 DEF TxAgree
      <3>2. /\ tx'[n].root \in 1 .. idy.seq /\ own[tx'[n].root] = tx'[n].acct
            /\ tx'[n].root # 0 /\ idy' = idy
        BY <1>0, <2>2, <2>4, <3>1
      <3> QED BY <1>0, <2>2, <3>2 DEF TxRooted
    <2>6. \A k \in Tries : k # n => SameTx(k) BY <2>2 DEF SameTx, LikeTx
    <2> QED BY <2>2, <2>5, <2>6, TriesStay, RootsSame, RootedKept
  <1> QED BY <1>1, <1>2, <1>3, <1>4, <1>5, <1>6, <1>7 DEF CoActs

(* A root that is still good here and at Identity was not shut here. *)
LEMMA FreshIsOpen ==
    ASSUME Base, NEW own \in [Nat -> People], Rooted(own), NEW n \in Tries, Freshens(n)
    PROVE  <<tx[n].side, tx[n].root>> \notin shut
  <1>1. /\ tx[n] # Nobody /\ tx[n].at = "fresh" /\ tx[n].cur
        /\ ~Retired(tx[n].side, tx[n].acct, tx[n].root) /\ tx[n].root > idy.bar[tx[n].acct]
    BY DEF Freshens, Tx, Live
  <1>2. /\ tx[n].side \in Ends /\ tx[n].acct \in People /\ tx[n].root \in Nat
        /\ TxAgree(n) /\ TxRooted(n, own) /\ ShutBehind(own)
    BY <1>1, TypeFacts DEF Base, Agreed, Rooted, Transactions
  <1>3. own[tx[n].root] = tx[n].acct /\ home[tx[n].side].closing # tx[n].acct
    BY <1>1, <1>2 DEF TxRooted, TxAgree
  <1>4. floor[tx[n].side][tx[n].acct].through \in Nat /\ idy.bar[tx[n].acct] \in Nat
    BY ZenonT(30), <1>2 DEF Base, TransferTypeOK
  <1>5. ~(tx[n].root <= floor[tx[n].side][tx[n].acct].through) /\ ~(tx[n].root <= idy.bar[tx[n].acct])
    BY <1>1, <1>2, <1>4 DEF Retired
  <1> QED BY <1>2, <1>3, <1>5 DEF ShutBehind

(* A transaction at work keeps the roots apart from those shut. *)
LEMMA ServesRooted ==
    ASSUME Base, NEW own \in [Nat -> People], Rooted(own), NEW n \in Tries, Serves(n)
    PROVE  Rooted(own)'
  <1>1. /\ TransferTypeOK /\ TxTyped /\ home \in [Ends -> Homes] /\ WireTyped
        /\ \A m \in Tries : tx[m] \in Transactions \cup {Nobody}
    BY TypeFacts DEF Base
  <1>2. UNCHANGED <<wire, shut>> /\ tx[n] # Nobody
    BY DEF Serves, Issues, Commits, Stages, Freshens, AnswersLate, LosesAnswer, Working, Tx
  <1>3. PICK s \in Ends : s = tx[n].side BY <1>1, <1>2 DEF Transactions
  <1>4. tx[n].acct \in People /\ tx[n].root \in Nat /\ n \in Nat
    BY <1>1, <1>2 DEF Transactions, Tries
  <1>5. Routed(s, {}) BY <1>1, <1>2, SameRouted
  <1>6. idy'.seq = idy.seq /\ idy'.bar = idy.bar /\ idy'.tries = idy.tries
    BY <1>1 DEF Serves, Issues, Commits, Stages, Freshens, AnswersLate, LosesAnswer, TransferTypeOK
  <1>7. \A e \in Ends : /\ home'[e].root = home[e].root /\ home'[e].acct = home[e].acct
                        /\ home'[e].receipt = home[e].receipt
                        /\ home'[e].closing = home[e].closing
    BY <1>3, <1>1, <1>4, SealSet, FarEnd DEF Serves, Issues, Commits, Stages, Freshens, AnswersLate,
       LosesAnswer, Working, SealedSome
  <1>8. \A e \in Ends : \A p \in People : floor[e][p].through = floor'[e][p].through
    BY SMTT(30), <1>3, <1>1, <1>4, CheckpointTyped DEF Serves, Issues, Commits, Stages, Freshens, AnswersLate,
       LosesAnswer, Working
  <1>9. \A m \in Tries : SameTx(m) \/ TxRooted(m, own)'
    <2>1. CASE tx' = tx BY <2>1 DEF SameTx, LikeTx
    <2>2. ASSUME NEW step \in TxSteps, tx' = TxTo(n, step),
                 tx[n].at \in {"commit", "stage", "fresh", "late"},
                 step = "publish" => Freshens(n)
          PROVE  \A m \in Tries : SameTx(m) \/ TxRooted(m, own)'
      <3>1. /\ \A m \in Tries : LikeTx(m) /\ (m # n => tx'[m] = tx[m])
            /\ tx'[n].at = step
        BY <1>1, <1>2, <2>2, TxToGoes DEF TxGoes
      <3>2. TxRooted(n, own) BY DEF Rooted
      <3>3. step = "publish" => <<tx[n].side, tx[n].root>> \notin shut
        BY <2>2, FreshIsOpen
      <3>4. TxRooted(n, own)'
        BY <1>2, <1>6, <2>2, <3>1, <3>2, <3>3 DEF TxRooted, LikeTx
      <3> QED BY <3>1, <3>4 DEF SameTx
    <2> QED BY <2>1, <2>2 DEF Serves, Issues, Commits, Stages, Freshens, AnswersLate, LosesAnswer, Tx, TxSteps
  <1> QED BY <1>2, <1>5, <1>6, <1>7, <1>8, <1>9, TriesStay, RootedKept

(* A transaction that ends opens no root. *)
LEMMA ClosesRooted ==
    ASSUME Base, NEW own \in [Nat -> People], Rooted(own), NEW n \in Tries, ClosesTx(n)
    PROVE  Rooted(own)'
  <1>1. PICK s \in Ends, step \in {"late", "over"} :
          /\ Closes(n, s, step) /\ (step = "late") = (tx[n].at = "commit")
    BY DEF ClosesTx
  <1>2. PICK M : Routed(s, M) /\ \A m \in M : m.kind \in {"ack", "cancel"}
    BY <1>1 DEF Closes
  <1>3. PICK k \in Nat : SealedSome(s, k) BY <1>1 DEF Closes
  <1>4. PICK v : IssueGoes(n, v) BY <1>1 DEF Closes
  <1>5. /\ tx[n] # Nobody /\ TxGoes(n, step) /\ ~tx'[n].cur /\ UNCHANGED <<floor, shut>>
    BY <1>1 DEF Closes
  <1>6. \A e \in Ends : /\ home'[e].root = home[e].root /\ home'[e].acct = home[e].acct
                        /\ home'[e].receipt = home[e].receipt
                        /\ home'[e].closing = home[e].closing
    BY <1>3, FarEnd DEF SealedSome
  <1>7. \A m \in Tries : SameTx(m) \/ TxRooted(m, own)'
    BY <1>1, <1>4, <1>5 DEF Rooted, TxRooted, TxGoes, LikeTx, IssueGoes, SameTx
  <1>8. TriesGrow /\ idy'.seq = idy.seq /\ idy'.bar = idy.bar
    BY <1>4, TriesStay DEF IssueGoes
  <1> QED BY <1>2, <1>5, <1>6, <1>7, <1>8, RootedKept

(* The root that is published is the account's, and was not shut here. *)
LEMMA PublishedRooted ==
    ASSUME Base, NEW own \in [Nat -> People], Rooted(own), NEW n \in Tries, NEW s \in Ends,
           Published(n, s)
    PROVE  Rooted(own)'
  <1>0. Far(s) \in Ends /\ Far(s) # s /\ \A e \in Ends : e = s \/ e = Far(s)
    BY FarEnd
  <1>1. PICK m \in Messages : m.kind = "ack" /\ Routed(s, {m})
    BY DEF Published
  <1>2. /\ tx[n] # Nobody /\ tx[n].at = "publish" /\ tx[n].cur /\ s = tx[n].side
        /\ TxGoes(n, "over") /\ ~tx'[n].cur /\ IssueGoes(n, "live")
        /\ home'[Far(s)] = home[Far(s)]
        /\ home'[s].acct = tx[n].acct /\ home'[s].root = tx[n].root
        /\ home'[s].receipt = [acct |-> tx[n].acct, seq |-> tx[n].root]
        /\ home'[s].closing = home[s].closing
        /\ UNCHANGED <<floor, shut>>
    BY DEF Published
  <1>3. TriesGrow /\ idy'.seq = idy.seq /\ idy'.bar = idy.bar /\ idy.seq \in Nat
    BY <1>2, TriesStay DEF Base, TransferTypeOK, IssueGoes
  <1>4. \A e \in Ends : WireRooted(e, own)' BY <1>1, <1>3, WireRootedKept
  <1>5. TxRooted(n, own) /\ \A e \in Ends : HomeRooted(e, own) BY DEF Rooted
  <1>6. \A e \in Ends : HomeRooted(e, own)'
    BY <1>2, <1>3, <1>5, <1>0 DEF TxRooted, HomeRooted
  <1>7. \A k \in Tries : TxRooted(k, own)'
    BY <1>2, <1>3 DEF Rooted, TxRooted, TxGoes, LikeTx
  <1>8. ShutBehind(own)' BY <1>0, <1>2, <1>3 DEF Rooted, ShutBehind
  <1>9. \A p \in People : idy'.bar[p] <= idy'.seq BY <1>3 DEF Rooted
  <1> QED BY <1>4, <1>6, <1>7, <1>8, <1>9 DEF Rooted

(* The session of an end is over: its root is retired there, or a closing of *)
(* it is to be delivered.                                                    *)
LEMMA EndedRooted ==
    ASSUME Base, NEW own \in [Nat -> People], Rooted(own), NEW s \in Ends,
           UserStep(s), RootEnded(s)
    PROVE  Rooted(own)'
  <1>0. Far(s) \in Ends /\ Far(s) # s /\ \A e \in Ends : e = s \/ e = Far(s)
    BY FarEnd
  <1>1. /\ TransferTypeOK /\ WireTyped /\ home[s] \in Homes /\ home[s].root \in Nat
        /\ idy.seq \in Nat /\ \A n \in Tries : tx[n] \in Transactions \cup {Nobody}
    BY TypeFacts DEF Base, TransferTypeOK, Homes
  <1>2. /\ home'[Far(s)] = home[Far(s)] /\ wire' = wire /\ idy' = idy
        /\ home[s].acct \in People /\ home'[s].root = 0
        /\ shut' = IF home[s].root = 0 THEN shut ELSE shut \cup {<<s, home[s].root>>}
        /\ home'[s].closing = home[s].closing \/ home[s].closing = Nobody
        /\ \/ floor' = Retires(s)
           \/ floor' = floor /\ home'[s].closing = home[s].acct
        /\ \A n \in Tries : SameTx(n)
        /\ \A n \in Tries : tx'[n] # Nobody /\ tx'[n].side = s => ~tx'[n].cur
    BY DEF UserStep, HomeOnly, Advertised, RootEnded, Stopped
  <1>3. TriesGrow BY <1>2, TriesStay
  <1>4. Routed(s, {}) BY <1>1, <1>2, SameRouted
  <1>5. \A e \in Ends : WireRooted(e, own)'
    BY <1>1, <1>2, <1>3, <1>4, WireRootedKept
  <1>6. \A e \in Ends : HomeRooted(e, own)'
    BY <1>2, <1>0 DEF HomeRooted, Rooted
  <1>7. ASSUME NEW n \in Tries PROVE TxRooted(n, own)'
    BY <1>2 DEF Rooted, TxRooted, SameTx, LikeTx
  <1>8. ShutBehind(own)'
    <2>1. SUFFICES ASSUME NEW e \in Ends, NEW r \in Nat, <<e, r>> \in shut'
                   PROVE  /\ r \in 1 .. idy.seq
                          /\ \/ r <= floor'[e][own[r]].through
                             \/ r <= idy.bar[own[r]]
                             \/ home'[e].closing = own[r]
      BY <1>2 DEF ShutBehind
    <2>2. own[r] \in People /\ own[r] # Nobody BY NobodyAssumption
    <2>3. /\ \A p \in People : floor[e][p].through \in Nat /\ floor'[e][p].through \in Nat
          /\ \A p \in People : floor[e][p].through <= floor'[e][p].through
      <3>1. CASE floor' = Retires(s)
        <4>1. Retires(s) \in [Ends -> [People -> [through : Nat, ckpt : Nat]]]
          BY <1>1, RetiresTyped
        <4>2. floor \in [Ends -> [People -> [through : Nat, ckpt : Nat]]]
          BY <1>1 DEF TransferTypeOK
        <4>3. \A p \in People : floor[e][p].through <= Retires(s)[e][p].through
          BY <1>1, RetiresTyped
        <4>4. \A p \in People : floor[e][p].through \in Nat /\ Retires(s)[e][p].through \in Nat
          BY <4>1, <4>2
        <4> QED BY <3>1, <4>3, <4>4
      <3>2. CASE floor' = floor
        <4>1. \A p \in People : floor[e][p].through \in Nat
          BY <1>1 DEF TransferTypeOK
        <4> QED BY <3>2, <4>1
      <3> QED BY <1>2, <3>1, <3>2
    <2>4. CASE <<e, r>> \in shut
      BY <2>4, <1>0, <1>2, <2>2, <2>3 DEF Rooted, ShutBehind
    <2>5. CASE <<e, r>> \notin shut
      <3>1. e = s /\ r = home[s].root /\ home[s].root # 0 BY <1>2, <2>1, <2>5
      <3>2. own[r] = home[s].acct /\ r <= idy.seq
            /\ home[s].receipt = [acct |-> home[s].acct, seq |-> r]
        BY <3>1 DEF Rooted, HomeRooted
      <3>3. r \in 1 .. idy.seq BY <1>1, <3>1, <3>2
      <3>4. CASE floor' = Retires(s)
        <4>1. home[s].receipt.acct = home[s].acct /\ home[s].receipt.seq = r
          BY <3>2
        <4>2. r <= floor'[e][own[r]].through
          BY <1>1, <1>2, <3>1, <3>2, <3>4, <4>1, RetiresTyped
        <4> QED BY <3>3, <4>2
      <3>5. CASE home'[s].closing = home[s].acct BY <3>1, <3>2, <3>3, <3>5
      <3> QED BY <1>2, <3>4, <3>5
    <2> QED BY <2>4, <2>5
  <1>9. \A p \in People : idy'.bar[p] <= idy'.seq BY <1>2 DEF Rooted
  <1> QED BY <1>5, <1>6, <1>7, <1>8, <1>9 DEF Rooted

(* A new root is the account's from now on. *)
LEMMA NewRooted ==
    ASSUME Base, NEW own \in [Nat -> People], Rooted(own), NEW s \in Ends, NEW p \in People,
           UserStep(s), RootNew(s, p)
    PROVE  \E own2 \in [Nat -> People] : Rooted(own2)'
  <1>0. Far(s) \in Ends /\ Far(s) # s /\ \A e \in Ends : e = s \/ e = Far(s)
    BY FarEnd
  <1>1. /\ TransferTypeOK /\ WireTyped /\ home[s] \in Homes /\ home[s].root \in Nat
        /\ idy.seq \in Nat /\ \A n \in Tries : tx[n] \in Transactions \cup {Nobody}
    BY TypeFacts DEF Base, TransferTypeOK, Homes
  <1>2. PICK k : k = idy.seq + 1 OBVIOUS
  <1>3. PICK own2 : own2 = [own EXCEPT ![k] = p] OBVIOUS
  <1>4. /\ own2 \in [Nat -> People] /\ own2[k] = p /\ k \in Nat /\ k # 0
        /\ \A r \in Nat : r <= idy.seq => own2[r] = own[r]
    BY <1>1, <1>2, <1>3
  <1>5. /\ home'[Far(s)] = home[Far(s)] /\ wire' = wire /\ shut' = shut /\ tx' = tx
        /\ idy'.tries = idy.tries
        /\ home'[s].acct = p /\ home'[s].closing = home[s].closing
        /\ \/ home'[s].root = 0 /\ UNCHANGED <<floor, idy>>
           \/ /\ home'[s].root = k /\ home'[s].receipt = [acct |-> p, seq |-> k]
              /\ idy'.seq = k /\ idy'.bar = idy.bar
              /\ floor' = [floor EXCEPT ![s][p].ckpt = k]
    BY <1>2 DEF UserStep, HomeOnly, Advertised, RootNew
  <1>6. /\ idy'.seq \in Nat /\ idy.seq <= idy'.seq /\ idy'.bar = idy.bar
        /\ \A e \in Ends : \A q \in People : floor'[e][q].through = floor[e][q].through
    BY <1>1, <1>2, <1>4, <1>5, CheckpointTyped
  <1>7. TriesGrow /\ Routed(s, {}) BY <1>1, <1>5, TriesStay, SameRouted
  <1>8. \A e \in Ends : WireRooted(e, own2)'
    BY <1>4, <1>6, <1>7, WireRootedKept
  <1>9. \A e \in Ends : HomeRooted(e, own2)'
    BY <1>1, <1>2, <1>4, <1>5, <1>0, TypeFacts, <1>6 DEF Rooted, ShutBehind, HomeRooted, Base, Homes
  <1>10. ASSUME NEW n \in Tries PROVE TxRooted(n, own2)'
    BY <1>1, <1>4, <1>5, <1>6 DEF Rooted, Transactions, TxRooted
  <1>11. ShutBehind(own2)'
    BY <1>5, <1>4, <1>0, <1>1, <1>6 DEF ShutBehind, Rooted
  <1>12. \A q \in People : idy'.bar[q] <= idy'.seq
    <2>1. \A q \in People : idy.bar[q] <= idy.seq /\ idy.bar[q] \in Nat
      BY DEF Rooted, Base, TransferTypeOK
    <2> QED BY <1>1, <1>6, <2>1
  <1> QED BY <1>4, <1>8, <1>9, <1>10, <1>11, <1>12 DEF Rooted

(* A closing that is delivered closes every root that Identity knows. *)
LEMMA DeliveredRooted ==
    ASSUME Base, NEW own \in [Nat -> People], Rooted(own), NEW s \in Ends,
           UserStep(s), ClosingDelivered(s)
    PROVE  Rooted(own)'
  <1>0. Far(s) \in Ends /\ Far(s) # s /\ \A e \in Ends : e = s \/ e = Far(s)
    BY FarEnd
  <1>1. /\ TransferTypeOK /\ WireTyped /\ idy.seq \in Nat /\ idy.bar \in [People -> Nat]
    BY TypeFacts DEF Base, TransferTypeOK
  <1>2. /\ home'[Far(s)] = home[Far(s)] /\ wire' = wire /\ shut' = shut /\ tx' = tx
        /\ floor' = floor /\ idy'.tries = idy.tries /\ idy'.seq = idy.seq
        /\ home[s].closing \in People
        /\ home'[s].root = home[s].root /\ home'[s].acct = home[s].acct
        /\ home'[s].receipt = home[s].receipt
        /\ idy'.bar = [idy.bar EXCEPT ![home[s].closing] = idy.seq]
    BY DEF UserStep, HomeOnly, Advertised, ClosingDelivered
  <1>3. /\ \A p \in People : idy.bar[p] <= idy'.bar[p] /\ idy'.bar[p] <= idy'.seq
        /\ \A p \in People : idy.bar[p] \in Nat /\ idy'.bar[p] \in Nat
        /\ idy'.bar[home[s].closing] = idy.seq
    BY <1>1, <1>2 DEF Rooted
  <1>4. TriesGrow /\ Routed(s, {}) BY <1>1, <1>2, TriesStay, SameRouted
  <1>5. \A e \in Ends : WireRooted(e, own)'
    BY <1>1, <1>2, <1>4, WireRootedKept
  <1>6. \A e \in Ends : HomeRooted(e, own)'
    BY <1>0, <1>2 DEF Rooted, HomeRooted
  <1>7. \A n \in Tries : TxRooted(n, own)' BY <1>2 DEF Rooted, TxRooted
  <1>8. ShutBehind(own)' BY <1>2, <1>0, <1>3, <1>1 DEF ShutBehind, Rooted
  <1> QED BY <1>3, <1>5, <1>6, <1>7, <1>8 DEF Rooted

(* Nothing that happens opens an end with what it has shut. *)
LEMMA NextRooted ==
    ASSUME Base, NEW own \in [Nat -> People], Rooted(own), TransferNext
    PROVE  \E own2 \in [Nat -> People] : Rooted(own2)'
  <1>1. CASE \E s \in Ends : CoActs(s) BY <1>1, CoActsRooted
  <1>2. ASSUME NEW s \in Ends, UserActs(s) PROVE \E own2 \in [Nat -> People] : Rooted(own2)'
    <2>1. UserStep(s) BY <1>2 DEF UserActs
    <2>2. CASE SameRoots(s)
      <3>1. /\ WireTyped /\ UNCHANGED <<wire, floor, shut, idy>> /\ \A n \in Tries : SameTx(n)
        BY <2>1, <2>2, TypeFacts DEF Base, UserStep, Advertised, Beside, SameRoots
      <3>2. Routed(s, {}) /\ TriesGrow BY <3>1, SameRouted, TriesStay
      <3>3. \A e \in Ends : /\ home'[e].root = home[e].root /\ home'[e].acct = home[e].acct
                            /\ home'[e].receipt = home[e].receipt
                            /\ home'[e].closing = home[e].closing
        BY <2>1, <2>2, FarEnd DEF UserStep, HomeOnly, SameRoots
      <3>4. Rooted(own)' BY <3>1, <3>2, <3>3, RootedKept
      <3> QED BY <3>4
    <2>3. CASE RootEnded(s) BY <2>1, <2>3, EndedRooted
    <2>4. CASE ClosingDelivered(s) BY <2>1, <2>4, DeliveredRooted
    <2>5. CASE \E p \in People : RootNew(s, p) BY <2>1, <2>5, NewRooted
    <2> QED BY <1>2, <2>2, <2>3, <2>4, <2>5 DEF UserActs
  <1>3. CASE \E n \in Tries : Serves(n) BY <1>3, ServesRooted
  <1>4. CASE \E n \in Tries : ClosesTx(n) BY <1>4, ClosesRooted
  <1>5. CASE \E n \in Tries : \E s \in Ends : Published(n, s)
    BY <1>5, PublishedRooted
  <1>6. CASE ConnectsAgain
    <2>1. \A e \in Ends : wire'[e] = <<>> BY <1>6, ConnectsAgainBase
    <2>2. UNCHANGED <<home, floor, tx, idy, shut>> BY <1>6 DEF ConnectsAgain
    <2>3. \A e \in Ends : WireRooted(e, own)' /\ HomeRooted(e, own)'
      BY <2>1, <2>2 DEF WireRooted, HomeRooted, On, Rooted
    <2>4. (\A n \in Tries : TxRooted(n, own)') /\ ShutBehind(own)'
      BY <2>2 DEF Rooted, TxRooted, ShutBehind
    <2> QED BY <2>2, <2>3, <2>4 DEF Rooted
  <1> QED BY <1>1, <1>2, <1>3, <1>4, <1>5, <1>6, NextActs

-----------------------------------------------------------------------------
(* The beginning. *)
LEMMA InitBase ==
    ASSUME TransferInit
    PROVE  Base /\ \A src \in [Tries -> Ends] : Directed(src)
  <1>1. /\ co = [s \in Ends |-> NewCoordinator(0)] /\ tx = [n \in Tries |-> Nobody]
        /\ wire = [s \in Ends |-> <<>>]
        /\ idy = [seq |-> 1, bar |-> [p \in People |-> 0], tries |-> <<>>,
                  issued |-> [n \in Tries |-> "no"]]
        /\ events = MaxEvents
    BY DEF TransferInit
  <1>2. PICK s \in Ends, p \in People :
          \E other \in {Session(Nobody, "out", 0, 2), Session(p, "locked", 1, 1)} :
           /\ home = [e \in Ends |-> IF e = s THEN Session(p, "unlocked", 1, 1)
                                            ELSE [other EXCEPT !.root = 0]]
           /\ floor = [e \in Ends |-> [q \in People |->
                [through |-> IF e # s /\ q = p THEN other.receipt.seq ELSE 0,
                 ckpt |-> IF q = p /\ (e = s \/ other.receipt.seq = 1) THEN 1 ELSE 0]]]
           /\ shut = {<<e, 1>> : e \in {e \in Ends \ {s} : e = s \/ other.receipt.seq = 1}}
    BY DEF TransferInit
  <1>3. PICK other \in {Session(Nobody, "out", 0, 2), Session(p, "locked", 1, 1)} :
           /\ home = [e \in Ends |-> IF e = s THEN Session(p, "unlocked", 1, 1)
                                            ELSE [other EXCEPT !.root = 0]]
           /\ floor = [e \in Ends |-> [q \in People |->
                [through |-> IF e # s /\ q = p THEN other.receipt.seq ELSE 0,
                 ckpt |-> IF q = p /\ (e = s \/ other.receipt.seq = 1) THEN 1 ELSE 0]]]
           /\ shut = {<<e, 1>> : e \in {e \in Ends \ {s} : e = s \/ other.receipt.seq = 1}}
    BY <1>2
  <1>4. MaxTries + 1 \in Nat /\ MaxEvents \in Nat /\ Nobody \notin People
    BY TransferAssumption, NobodyAssumption
  <1>5. home \in [Ends -> Homes]
    <2>1. Session(p, "unlocked", 1, 1) \in Homes
      BY <1>4 DEF Session, Homes, Statuses
    <2>2. [other EXCEPT !.root = 0] \in Homes
      <3>1. CASE other = Session(Nobody, "out", 0, 2)
        BY <1>4, <3>1 DEF Session, Homes, Statuses
      <3>2. CASE other = Session(p, "locked", 1, 1)
        BY <1>4, <3>2 DEF Session, Homes, Statuses
      <3> QED BY <3>1, <3>2
    <2> QED BY <1>3, <2>1, <2>2
  <1>6. floor \in [Ends -> [People -> [through : Nat, ckpt : Nat]]]
    BY <1>3 DEF Session
  <1>7. shut \subseteq Ends \X Nat BY <1>3
  <1>8. \A e \in Ends : co[e] \in Coordinators /\ co[e].up /\ co[e].att = Nobody /\ wire[e] = <<>>
    BY <1>1, NewFacts
  <1>9. TransferTypeOK
    BY <1>1, <1>8, TransferAssumption, <1>4, <1>5, <1>6, <1>7 DEF TransferTypeOK
  <1>10. \A e \in Ends : AttemptOK(e) /\ Begun(e) /\ Silent(e)
    BY <1>8 DEF AttemptOK, Begun, Silent
  <1>11. PreparesOK /\ \A n \in Tries : TxAgree(n)
    BY <1>1, <1>8 DEF PreparesOK, On, TxAgree
  <1>12. \A src \in [Tries -> Ends] : Directed(src)
    BY <1>1, <1>8 DEF Directed, On
  <1> QED BY <1>9, <1>10, <1>11, <1>12 DEF Base, Agreed

(* The first root is of one account, and open at one end. *)
LEMMA InitRooted ==
    ASSUME TransferInit
    PROVE  \E own \in [Nat -> People] : Rooted(own)
  <1>1. PICK s \in Ends, p \in People :
          \E other \in {Session(Nobody, "out", 0, 2), Session(p, "locked", 1, 1)} :
           /\ home = [e \in Ends |-> IF e = s THEN Session(p, "unlocked", 1, 1)
                                            ELSE [other EXCEPT !.root = 0]]
           /\ floor = [e \in Ends |-> [q \in People |->
                [through |-> IF e # s /\ q = p THEN other.receipt.seq ELSE 0,
                 ckpt |-> IF q = p /\ (e = s \/ other.receipt.seq = 1) THEN 1 ELSE 0]]]
           /\ shut = {<<e, 1>> : e \in {e \in Ends \ {s} : e = s \/ other.receipt.seq = 1}}
    BY DEF TransferInit
  <1>2. PICK other \in {Session(Nobody, "out", 0, 2), Session(p, "locked", 1, 1)} :
           /\ home = [e \in Ends |-> IF e = s THEN Session(p, "unlocked", 1, 1)
                                            ELSE [other EXCEPT !.root = 0]]
           /\ floor = [e \in Ends |-> [q \in People |->
                [through |-> IF e # s /\ q = p THEN other.receipt.seq ELSE 0,
                 ckpt |-> IF q = p /\ (e = s \/ other.receipt.seq = 1) THEN 1 ELSE 0]]]
           /\ shut = {<<e, 1>> : e \in {e \in Ends \ {s} : e = s \/ other.receipt.seq = 1}}
    BY <1>1
  <1>3. /\ tx = [n \in Tries |-> Nobody] /\ wire = [e \in Ends |-> <<>>]
        /\ idy.seq = 1 /\ idy.bar = [q \in People |-> 0]
    BY DEF TransferInit
  <1>4. PICK own : own = [r \in Nat |-> p] OBVIOUS
  <1>5. own \in [Nat -> People] /\ \A r \in Nat : own[r] = p BY <1>4
  <1>6. /\ home[s].root = 1 /\ home[s].acct = p /\ home[s].receipt = [acct |-> p, seq |-> 1]
        /\ \A e \in Ends : e # s => home[e].root = 0
    BY <1>2 DEF Session
  <1>7. \A e \in Ends : \A r \in Nat : <<e, r>> \in shut =>
           e # s /\ r = 1 /\ floor[e][p].through = 1
    BY <1>2
  <1>8. \A e \in Ends : HomeRooted(e, own) /\ WireRooted(e, own)
    BY <1>7, <1>3, <1>5, <1>6 DEF HomeRooted, WireRooted, On
  <1>9. ShutBehind(own) BY <1>3, <1>5, <1>7 DEF ShutBehind
  <1>10. \A n \in Tries : TxRooted(n, own) BY <1>3 DEF TxRooted
  <1> QED BY <1>3, <1>5, <1>8, <1>9, <1>10 DEF Rooted

(* A step that leaves everything leaves the roots. *)
LEMMA StutterRooted ==
    ASSUME NEW own, Rooted(own), UNCHANGED transferVars PROVE Rooted(own)'
  BY DEF Rooted, transferVars, HomeRooted, WireRooted, TxRooted, ShutBehind, On, Ntry

(* A step that leaves everything leaves the direction of each attempt. *)
LEMMA StutterDirected ==
    ASSUME NEW src, Directed(src), UNCHANGED transferVars PROVE Directed(src)'
  BY DEF Directed, transferVars, On

(* What the proof of EndedStaysEnded is by induction on: some assignment of  *)
(* accounts to roots, and of a source to each attempt, fits the state.       *)
EndedInv ==
    /\ Base /\ \E src \in [Tries -> Ends] : Directed(src)
    /\ \E own \in [Nat -> People] : Rooted(own)

(* EndedStaysEnded: an end that was locked or signed out is not opened again *)
(* by its peer with the authority that it had, because a root that an end    *)
(* shut is retired there, closed at Identity, or its closing still waits to  *)
(* be delivered, and a transaction looks at all three before it publishes.   *)
THEOREM EndedForever == TransferSpec => []EndedStaysEnded
  <1>1. TransferInit => EndedInv
    <2>1. SUFFICES ASSUME TransferInit PROVE EndedInv OBVIOUS
    <2>2. PICK src : src = [n \in Tries |-> "web"] OBVIOUS
    <2>3. src \in [Tries -> Ends] BY <2>2 DEF Ends
    <2> QED BY <2>1, <2>3, InitBase, InitRooted DEF EndedInv
  <1>2. EndedInv /\ [TransferNext]_transferVars => EndedInv'
    <2>1. SUFFICES ASSUME EndedInv, [TransferNext]_transferVars PROVE EndedInv'
      OBVIOUS
    <2>2. PICK src \in [Tries -> Ends] : Directed(src) BY <2>1 DEF EndedInv
    <2>3. PICK own \in [Nat -> People] : Rooted(own) BY <2>1 DEF EndedInv
    <2>4. Base BY <2>1 DEF EndedInv
    <2>5. CASE TransferNext
      BY <2>2, <2>4, <2>5, NextKeeps, <2>3, NextRooted DEF EndedInv
    <2>6. CASE UNCHANGED transferVars
      BY <2>2, <2>3, <2>4, <2>6, StutterBase, StutterDirected, StutterRooted DEF EndedInv
    <2> QED BY <2>1, <2>5, <2>6
  <1>3. EndedInv => EndedStaysEnded
    <2>1. SUFFICES ASSUME EndedInv PROVE EndedStaysEnded OBVIOUS
    <2>2. PICK own \in [Nat -> People] : Rooted(own) BY <2>1 DEF EndedInv
    <2>3. \A s \in Ends : HomeRooted(s, own) BY <2>2 DEF Rooted
    <2> QED BY <2>3 DEF HomeRooted, EndedStaysEnded
  <1> QED BY <1>1, <1>2, <1>3, PTL DEF TransferSpec

-----------------------------------------------------------------------------
(* An attempt begins one transaction: until then exactly one of them holds   *)
(* it, the source that has not offered it, the offer on the route, and the   *)
(* receiver that has agreed to it.                                           *)
OneOffer == \A s \in Ends : \A i, j \in On(s, "prepare") : wire[s][i].id = wire[s][j].id => i = j
Unoffered(s) ==
    LET a == co[s].att  b == co[Far(s)].att IN
    a # Nobody /\ a.at = "scope" =>
      /\ \A i \in On(Far(s), "prepare") : wire[Far(s)][i].id # a.id
      /\ b # Nobody => b.id # a.id
      /\ tx[a.id] = Nobody
Offered(s) ==
    \A i \in On(s, "prepare") :
      /\ co[s].att # Nobody => co[s].att.id # wire[s][i].id
      /\ tx[wire[s][i].id] = Nobody
Taken(s) ==
    LET a == co[s].att IN
    a # Nobody /\ a.at = "offer" /\ a.dir = "receiver" => tx[a.id] = Nobody
Once == OneOffer /\ \A s \in Ends : Unoffered(s) /\ Offered(s) /\ Taken(s)

(* The offers on the route are those that were there. *)
LEMMA OffersCarried ==
    ASSUME Base, NEW s \in Ends, NEW M, Routed(s, M), \A m \in M : m.kind # "prepare"
    PROVE  \A e \in Ends : \E k \in {0, 1} : \A i \in On(e, "prepare")' :
              i + k \in On(e, "prepare") /\ wire'[e][i] = wire[e][i + k]
  <1>0. Far(s) \in Ends /\ Far(s) # s /\ \A e \in Ends : e = s \/ e = Far(s)
    BY FarEnd
  <1>1. SUFFICES ASSUME NEW e \in Ends
                 PROVE  \E k \in {0, 1} : \A i \in On(e, "prepare")' :
                           i + k \in On(e, "prepare") /\ wire'[e][i] = wire[e][i + k]
    OBVIOUS
  <1>2. PICK L : Carried(e, L) /\ \A m \in L : m \in M BY <1>0 DEF Routed
  <1> QED BY <1>2, CarriedOld

(* A step that offers nothing keeps one holder of an attempt not begun. *)
LEMMA OnceKept ==
    ASSUME Base, Once, NEW s \in Ends, co'[Far(s)] = co[Far(s)],
           co'[s].att # Nobody =>
             /\ co[s].att # Nobody /\ co'[s].att.id = co[s].att.id
             /\ co'[s].att.dir = co[s].att.dir
             /\ co'[s].att.at = "scope" => co[s].att.at = "scope"
             /\ co'[s].att.at = "offer" /\ co'[s].att.dir = "receiver" => co[s].att.at = "offer",
           NEW M, Routed(s, M), \A m \in M : m.kind # "prepare",
           \A n \in Tries : (tx'[n] = Nobody) = (tx[n] = Nobody)
    PROVE  Once'
  <1>0. Far(s) \in Ends /\ Far(s) # s /\ Far(Far(s)) = s /\ \A e \in Ends : e = s \/ e = Far(s)
    BY FarEnd
  <1>1. /\ \A e \in Ends : Unoffered(e) /\ Offered(e) /\ Taken(e)
        /\ \A e \in Ends : co[e] \in Coordinators /\ wire[e] \in Seq(Messages)
    BY TypeFacts DEF Once, Base, WireTyped
  <1>2. \A e \in Ends : co[e].att # Nobody => co[e].att.id \in Tries
    BY <1>1 DEF Coordinators, Attempts
  <1>3. \A e \in Ends : \A i \in On(e, "prepare") : wire[e][i].id \in Tries
    BY <1>1, MessageParts DEF On
  <1>4. \A e \in Ends : co'[e].att # Nobody =>
             /\ co[e].att # Nobody /\ co'[e].att.id = co[e].att.id
             /\ co'[e].att.dir = co[e].att.dir
             /\ co'[e].att.at = "scope" => co[e].att.at = "scope"
             /\ co'[e].att.at = "offer" /\ co'[e].att.dir = "receiver" => co[e].att.at = "offer"
    BY <1>0
  <1>5. \A e \in Ends : \E k \in {0, 1} : \A i \in On(e, "prepare")' :
              i + k \in On(e, "prepare") /\ wire'[e][i] = wire[e][i + k]
    BY OffersCarried
  <1>6. \A e \in Ends : \A i \in On(e, "prepare")' : \E j \in On(e, "prepare") :
           wire'[e][i] = wire[e][j]
    BY <1>5
  <1>7. OneOffer'
    <2>1. SUFFICES ASSUME NEW e \in Ends, NEW i \in On(e, "prepare")', NEW j \in On(e, "prepare")',
                          wire'[e][i].id = wire'[e][j].id
                   PROVE  i = j
      BY DEF OneOffer
    <2>2. PICK k \in {0, 1} : \A x \in On(e, "prepare")' :
              x + k \in On(e, "prepare") /\ wire'[e][x] = wire[e][x + k]
      BY <1>5
    <2>3. i + k = j + k BY <2>1, <2>2 DEF Once, OneOffer
    <2>4. i \in Nat /\ j \in Nat BY DEF On
    <2> QED BY <2>3, <2>4
  <1>8. ASSUME NEW e \in Ends PROVE Unoffered(e)'
    BY FarEnd, <1>2, <1>4, <1>1, <1>6 DEF Unoffered
  <1>9. ASSUME NEW e \in Ends PROVE Offered(e)'
    <2>1. SUFFICES ASSUME NEW i \in On(e, "prepare")'
                   PROVE  /\ co'[e].att # Nobody => co'[e].att.id # wire'[e][i].id
                          /\ tx'[wire'[e][i].id] = Nobody
      BY DEF Offered
    <2>2. PICK j \in On(e, "prepare") : wire'[e][i] = wire[e][j] BY <1>6
    <2>3. /\ co[e].att # Nobody => co[e].att.id # wire[e][j].id
          /\ tx[wire[e][j].id] = Nobody /\ wire[e][j].id \in Tries
      BY <1>1, <1>3 DEF Offered
    <2> QED BY <1>4, <2>2, <2>3
  <1>10. ASSUME NEW e \in Ends PROVE Taken(e)' BY <1>1, <1>2, <1>4 DEF Taken
  <1> QED BY <1>7, <1>8, <1>9, <1>10 DEF Once

(* What an end does alone, or goes on with. *)
LEMMA CoStepOnce ==
    ASSUME Base, Once, NEW s \in Ends, NEW M, CoStep(s, M), \A m \in M : m.kind # "prepare"
    PROVE  Once'
  BY OnceKept DEF CoStep, Moves, Alone, Apart, Eased, Steady, StaysOrGoes, GoesOn, Aborted, SameTx,
     LikeTx

(* The identifiers that attempts and offers have. *)
LEMMA IdsTyped ==
    ASSUME Base
    PROVE  /\ \A e \in Ends : co[e].att # Nobody => co[e].att.id \in Tries /\ co[e].att.id <= Ntry
           /\ \A e \in Ends : \A i \in On(e, "prepare") :
                wire[e][i].id \in Tries /\ wire[e][i].id <= Ntry
           /\ \A n \in Tries : tx[n] # Nobody => n <= Ntry
           /\ Ntry \in Nat
  <1>1. \A e \in Ends : co[e].att # Nobody => co[e].att.id \in Tries /\ co[e].att.id <= Ntry
    BY TypeFacts DEF Base, Agreed, AttemptOK, Coordinators, Attempts
  <1>2. \A e \in Ends : \A i \in On(e, "prepare") :
                wire[e][i].id \in Tries /\ wire[e][i].id <= Ntry
    BY TypeFacts, MessageParts DEF Base, WireTyped, On, Agreed, PreparesOK
  <1>3. \A n \in Tries : tx[n] # Nobody => n <= Ntry
    BY DEF Base, Agreed, TxAgree
  <1>4. Ntry \in Nat BY DEF Base, TransferTypeOK, Ntry
  <1> QED BY <1>1, <1>2, <1>3, <1>4

(* The source offers its attempt. *)
LEMMA PreparedOnce ==
    ASSUME Base, Once, NEW s \in Ends, PreparedStep(s) PROVE Once'
  <1>0. Far(s) \in Ends /\ Far(s) # s /\ Far(Far(s)) = s /\ \A e \in Ends : e = s \/ e = Far(s)
    BY FarEnd
  <1>1. PICK m \in Messages :
          /\ CoStep(s, {m}) /\ m.kind = "prepare" /\ Sending(s, "scope") /\ m.id = co[s].att.id
          /\ co'[s].att # Nobody /\ co'[s].att.at = "wait"
    BY DEF PreparedStep, Attempt
  <1>2. /\ co'[Far(s)] = co[Far(s)] /\ Routed(s, {m}) /\ Steady(s)
        /\ \A n \in Tries : (tx'[n] = Nobody) = (tx[n] = Nobody)
    BY <1>1 DEF CoStep, Moves, Alone, Apart, Eased, SameTx, LikeTx
  <1>3. co[s].att # Nobody /\ co'[s].att.id = co[s].att.id /\ co[s].att.at = "scope"
    BY <1>1, <1>2 DEF Steady, StaysOrGoes, GoesOn, Aborted, Sending, Attempt
  <1>4. /\ Unoffered(s) /\ Unoffered(Far(s)) /\ Offered(s) /\ Offered(Far(s)) /\ Taken(Far(s))
        /\ OneOffer
    BY <1>0 DEF Once
  <1>5. /\ \A i \in On(Far(s), "prepare") : wire[Far(s)][i].id # m.id
        /\ co[Far(s)].att # Nobody => co[Far(s)].att.id # m.id
        /\ tx[m.id] = Nobody /\ m.id \in Tries
    BY <1>1, <1>3, <1>4, IdsTyped DEF Unoffered
  <1>6. \E k \in {0, 1} : \A i \in On(s, "prepare")' :
           i + k \in On(s, "prepare") /\ wire'[s][i] = wire[s][i + k]
    BY <1>2, CarriedOld DEF Routed
  <1>7. \E k \in {0, 1} : \A i \in On(Far(s), "prepare")' :
           \/ i + k \in On(Far(s), "prepare") /\ wire'[Far(s)][i] = wire[Far(s)][i + k]
           \/ i + k = Len(wire[Far(s)]) + 1 /\ wire'[Far(s)][i] = m
    <2>1. PICK L : Carried(Far(s), L) /\ (L = {m} \/ L = {})
      BY <1>2 DEF Routed
    <2>2. PICK k \in {0, 1} : \A i \in 1 .. Len(wire'[Far(s)]) :
            \/ i + k <= Len(wire[Far(s)]) /\ wire'[Far(s)][i] = wire[Far(s)][i + k]
            \/ i + k = Len(wire[Far(s)]) + 1 /\ wire'[Far(s)][i] \in L
      BY <2>1 DEF Carried
    <2>3. ASSUME NEW i \in On(Far(s), "prepare")'
          PROVE  \/ i + k \in On(Far(s), "prepare") /\ wire'[Far(s)][i] = wire[Far(s)][i + k]
                 \/ i + k = Len(wire[Far(s)]) + 1 /\ wire'[Far(s)][i] = m
      BY <2>3, <2>1, <2>2 DEF On
    <2> QED BY <2>3
  <1>8. OneOffer'
    <2>1. SUFFICES ASSUME NEW e \in Ends, NEW i \in On(e, "prepare")', NEW j \in On(e, "prepare")',
                          wire'[e][i].id = wire'[e][j].id
                   PROVE  i = j
      BY DEF OneOffer
    <2>2. i \in Nat /\ j \in Nat BY DEF On
    <2>3. CASE e = s
      <3>1. PICK k \in {0, 1} : \A x \in On(s, "prepare")' :
              x + k \in On(s, "prepare") /\ wire'[s][x] = wire[s][x + k]
        BY <1>6
      <3>2. i + k = j + k BY <1>4, <2>1, <2>3, <3>1 DEF OneOffer
      <3> QED BY <2>2, <3>2
    <2>4. CASE e = Far(s)
      <3>1. PICK k \in {0, 1} : \A x \in On(Far(s), "prepare")' :
           \/ x + k \in On(Far(s), "prepare") /\ wire'[Far(s)][x] = wire[Far(s)][x + k]
           \/ x + k = Len(wire[Far(s)]) + 1 /\ wire'[Far(s)][x] = m
        BY <1>7
      <3>2. i + k = j + k BY <1>0, <1>4, <1>5, <2>1, <2>4, <3>1 DEF OneOffer
      <3> QED BY <2>2, <3>2
    <2> QED BY <1>0, <2>3, <2>4
  <1>9. \A i \in On(s, "prepare")' : \E j \in On(s, "prepare") : wire'[s][i] = wire[s][j]
    BY <1>6
  <1>10. \A i \in On(Far(s), "prepare")' :
           (\E j \in On(Far(s), "prepare") : wire'[Far(s)][i] = wire[Far(s)][j]) \/ wire'[Far(s)][i] = m
    BY <1>7
  <1>11. Unoffered(s)' /\ Taken(s)' BY <1>1 DEF Unoffered, Taken
  <1>12. Unoffered(Far(s))' /\ Taken(Far(s))'
    BY <1>0, IdsTyped, <1>2, <1>3, <1>4, <1>9 DEF Unoffered, Taken
  <1>13. Offered(s)' BY IdsTyped, <1>2, <1>3, <1>4, <1>9 DEF Offered
  <1>14. Offered(Far(s))'
    BY <1>0, IdsTyped, <1>2, <1>4, <1>5, <1>10 DEF Offered
  <1> QED BY <1>0, <1>8, <1>11, <1>12, <1>13, <1>14 DEF Once

(* A new attempt has an identifier of its own. *)
LEMMA OpenedOnce ==
    ASSUME Base, Once, NEW s \in Ends, OpenedStep(s) PROVE Once'
  <1>0. Far(s) \in Ends /\ Far(s) # s /\ Far(Far(s)) = s /\ \A e \in Ends : e = s \/ e = Far(s)
    BY FarEnd
  <1>1. PICK M : /\ Plain(M) /\ Alone(s, M) /\ Starting(s)
                 /\ co'[s].att.dir = "source" /\ co'[s].att.at = "scope"
                 /\ co'[s].att.id = Ntry + 1 /\ Ntry + 1 \in Tries
    BY DEF OpenedStep
  <1>2. /\ co'[Far(s)] = co[Far(s)] /\ Routed(s, M)
        /\ \A n \in Tries : (tx'[n] = Nobody) = (tx[n] = Nobody)
        /\ \A m \in M : m.kind # "prepare"
        /\ co[s].att = Nobody
    BY <1>1 DEF Alone, Apart, Eased, SameTx, LikeTx, Plain, Starting
  <1>3. \A e \in Ends : \E k \in {0, 1} : \A i \in On(e, "prepare")' :
              i + k \in On(e, "prepare") /\ wire'[e][i] = wire[e][i + k]
    BY <1>2, OffersCarried
  <1>4. \A e \in Ends : \A i \in On(e, "prepare")' : \E j \in On(e, "prepare") :
           wire'[e][i] = wire[e][j]
    BY <1>3
  <1>5. OneOffer'
    <2>1. SUFFICES ASSUME NEW e \in Ends, NEW i \in On(e, "prepare")', NEW j \in On(e, "prepare")',
                          wire'[e][i].id = wire'[e][j].id
                   PROVE  i = j
      BY DEF OneOffer
    <2>2. PICK k \in {0, 1} : \A x \in On(e, "prepare")' :
              x + k \in On(e, "prepare") /\ wire'[e][x] = wire[e][x + k]
      BY <1>3
    <2>3. i + k = j + k BY <2>1, <2>2 DEF Once, OneOffer
    <2>4. i \in Nat /\ j \in Nat BY DEF On
    <2> QED BY <2>3, <2>4
  <1>6. /\ \A e \in Ends : \A i \in On(e, "prepare")' :
             wire'[e][i].id \in Tries /\ wire'[e][i].id # Ntry + 1 /\ tx[wire'[e][i].id] = Nobody
        /\ \A e \in Ends : \A i \in On(e, "prepare")' : co[e].att # Nobody => co[e].att.id # wire'[e][i].id
        /\ tx[Ntry + 1] = Nobody
        /\ co[Far(s)].att # Nobody => co[Far(s)].att.id # Ntry + 1 /\ co[Far(s)].att.id \in Tries
    BY IdsTyped, <1>0, <1>1, <1>4 DEF Tries, Once, Offered
  <1>7. Unoffered(s)' BY <1>0, <1>1, <1>2, <1>6 DEF Unoffered
  <1>8. Unoffered(Far(s))' BY <1>0, <1>2, <1>1, <1>4, <1>6 DEF Unoffered, Once
  <1>9. Offered(s)' /\ Offered(Far(s))' BY <1>0, <1>1, <1>2, <1>6 DEF Offered
  <1>10. Taken(s)' /\ Taken(Far(s))' BY <1>0, <1>1, <1>2, <1>6 DEF Taken, Once
  <1> QED BY <1>0, <1>5, <1>7, <1>8, <1>9, <1>10 DEF Once

(* A receiver takes the one offer of the attempt that it agrees to. *)
LEMMA PreparedByOnce ==
    ASSUME Base, Once, NEW s \in Ends, PreparedBy(s) PROVE Once'
  <1>0. Far(s) \in Ends /\ Far(s) # s /\ Far(Far(s)) = s /\ \A e \in Ends : e = s \/ e = Far(s)
    BY FarEnd
  <1>1. PICK m \in Messages : m.kind = "prepared" /\ Alone(s, {m})
    BY DEF PreparedBy
  <1>2. /\ Starting(s) /\ Gets(s, "prepare") /\ co'[s].att.id = Msg(s).id
        /\ co'[s].att.dir = "receiver" /\ co'[s].att.at = "offer"
        /\ wire'[s] = Tail(wire[s])
    BY DEF PreparedBy
  <1>3. /\ co'[Far(s)] = co[Far(s)] /\ Routed(s, {m})
        /\ \A n \in Tries : (tx'[n] = Nobody) = (tx[n] = Nobody)
        /\ co[s].att = Nobody /\ co'[s].att # Nobody
    BY <1>1, <1>2 DEF Alone, Apart, Eased, SameTx, LikeTx, Starting
  <1>4. wire[s] # <<>> /\ Msg(s) = wire[s][1] /\ 1 \in On(s, "prepare") /\ wire[s] \in Seq(Messages)
    BY <1>2, MessageTaken, TypeFacts DEF Base, WireTyped
  <1>5. \A e \in Ends : \E k \in {0, 1} : \A i \in On(e, "prepare")' :
              i + k \in On(e, "prepare") /\ wire'[e][i] = wire[e][i + k]
    BY <1>1, <1>3, OffersCarried
  <1>6. \A e \in Ends : \A i \in On(e, "prepare")' : \E j \in On(e, "prepare") :
           wire'[e][i] = wire[e][j]
    BY <1>5
  <1>7. OneOffer'
    <2>1. SUFFICES ASSUME NEW e \in Ends, NEW i \in On(e, "prepare")', NEW j \in On(e, "prepare")',
                          wire'[e][i].id = wire'[e][j].id
                   PROVE  i = j
      BY DEF OneOffer
    <2>2. PICK k \in {0, 1} : \A x \in On(e, "prepare")' :
              x + k \in On(e, "prepare") /\ wire'[e][x] = wire[e][x + k]
      BY <1>5
    <2>3. i + k = j + k BY <2>1, <2>2 DEF Once, OneOffer
    <2>4. i \in Nat /\ j \in Nat BY DEF On
    <2> QED BY <2>3, <2>4
  <1>8. \A i \in On(s, "prepare")' : wire'[s][i].id # Msg(s).id
    <2>1. SUFFICES ASSUME NEW i \in On(s, "prepare")' PROVE wire'[s][i].id # Msg(s).id
      OBVIOUS
    <2>2. i \in 1 .. Len(Tail(wire[s])) /\ wire'[s][i].kind = "prepare"
      BY <1>2 DEF On
    <2>3. /\ i + 1 \in 1 .. Len(wire[s]) /\ wire'[s][i] = wire[s][i + 1] /\ i \in Nat /\ i + 1 # 1
      BY <1>2, <1>4, <2>2
    <2>4. i + 1 \in On(s, "prepare")
      BY <2>2, <2>3 DEF On
    <2> QED BY <1>4, <2>3, <2>4 DEF Once, OneOffer
  <1>9. tx[Msg(s).id] = Nobody /\ Msg(s).id \in Tries
    BY <1>4, IdsTyped DEF Once, Offered
  <1>10. Unoffered(s)' /\ Taken(s)' BY <1>2, <1>3, <1>9 DEF Unoffered, Taken
  <1>11. Unoffered(Far(s))'
    <2>1. SUFFICES ASSUME co[Far(s)].att # Nobody, co[Far(s)].att.at = "scope"
                   PROVE  /\ \A i \in On(s, "prepare")' : wire'[s][i].id # co[Far(s)].att.id
                          /\ co'[s].att.id # co[Far(s)].att.id
                          /\ tx'[co[Far(s)].att.id] = Nobody
      BY <1>0, <1>3 DEF Unoffered
    <2>2. /\ \A i \in On(s, "prepare") : wire[s][i].id # co[Far(s)].att.id
          /\ tx[co[Far(s)].att.id] = Nobody /\ co[Far(s)].att.id \in Tries
      BY <1>0, <2>1, IdsTyped DEF Once, Unoffered
    <2> QED BY <1>2, <1>3, <1>4, <1>6, <2>2
  <1>12. Taken(Far(s))' BY <1>0, IdsTyped, <1>3 DEF Once, Taken
  <1>13. ASSUME NEW e \in Ends PROVE Offered(e)'
    <2>1. SUFFICES ASSUME NEW i \in On(e, "prepare")'
                   PROVE  /\ co'[e].att # Nobody => co'[e].att.id # wire'[e][i].id
                          /\ tx'[wire'[e][i].id] = Nobody
      BY DEF Offered
    <2>2. PICK j \in On(e, "prepare") : wire'[e][i] = wire[e][j] BY <1>6
    <2>3. /\ co[e].att # Nobody => co[e].att.id # wire[e][j].id
          /\ tx[wire[e][j].id] = Nobody /\ wire[e][j].id \in Tries
      BY IdsTyped DEF Once, Offered
    <2>4. e = s => co'[s].att.id # wire'[s][i].id BY <1>2, <1>8
    <2> QED BY <1>0, <1>3, <2>2, <2>3, <2>4
  <1> QED BY <1>0, <1>7, <1>10, <1>11, <1>12, <1>13 DEF Once

(* The transaction that begins is the only one of its attempt. *)
LEMMA CreatedOnce ==
    ASSUME Base, Once, NEW src \in [Tries -> Ends], Directed(src), NEW s \in Ends, CreatedStep(s)
    PROVE  Once'
  <1>0. Far(s) \in Ends /\ Far(s) # s /\ Far(Far(s)) = s /\ \A e \in Ends : e = s \/ e = Far(s)
    BY FarEnd
  <1>1. PICK m \in Messages : m.kind = "answer" /\ Routed(s, {m})
    BY DEF CreatedStep
  <1>2. PICK n : n = co[s].att.id OBVIOUS
  <1>3. /\ co[s].att # Nobody /\ co[s].att.dir = "receiver" /\ n \in Tries
        /\ \A k \in Tries : k # n => tx'[k] = tx[k]
        /\ co'[Far(s)] = co[Far(s)] /\ co'[s].att # Nobody /\ co'[s].att.at = "hand"
        /\ co'[s].att.id = n
    BY <1>2 DEF CreatedStep, Created, Receiving, Attempt, AttReaches
  <1>4. src[n] = Far(s) BY <1>2, <1>3 DEF Directed
  <1>5. \A e \in Ends : \E k \in {0, 1} : \A i \in On(e, "prepare")' :
              i + k \in On(e, "prepare") /\ wire'[e][i] = wire[e][i + k]
    BY <1>1, OffersCarried
  <1>6. \A e \in Ends : \A i \in On(e, "prepare")' : \E j \in On(e, "prepare") :
           wire'[e][i] = wire[e][j]
    BY <1>5
  <1>7. OneOffer'
    <2>1. SUFFICES ASSUME NEW e \in Ends, NEW i \in On(e, "prepare")', NEW j \in On(e, "prepare")',
                          wire'[e][i].id = wire'[e][j].id
                   PROVE  i = j
      BY DEF OneOffer
    <2>2. PICK k \in {0, 1} : \A x \in On(e, "prepare")' :
              x + k \in On(e, "prepare") /\ wire'[e][x] = wire[e][x + k]
      BY <1>5
    <2>3. i + k = j + k BY <2>1, <2>2 DEF Once, OneOffer
    <2>4. i \in Nat /\ j \in Nat BY DEF On
    <2> QED BY <2>3, <2>4
  <1>8. \A e \in Ends : \A j \in On(e, "prepare") :
           /\ wire[e][j].id # n /\ wire[e][j].id \in Tries /\ tx[wire[e][j].id] = Nobody
           /\ co[e].att # Nobody => co[e].att.id # wire[e][j].id
    BY IdsTyped, <1>2, <1>3, <1>0, <1>4 DEF Once, Offered, Directed
  <1>9. Unoffered(s)' /\ Taken(s)' BY <1>3 DEF Unoffered, Taken
  <1>10. \A e \in Ends : Offered(e)'
    <2>1. SUFFICES ASSUME NEW e \in Ends, NEW i \in On(e, "prepare")'
                   PROVE  /\ co'[e].att # Nobody => co'[e].att.id # wire'[e][i].id
                          /\ tx'[wire'[e][i].id] = Nobody
      BY DEF Offered
    <2>2. PICK j \in On(e, "prepare") : wire'[e][i] = wire[e][j] BY <1>6
    <2> QED BY <1>0, <1>2, <1>3, <1>8, <2>2
  <1>11. Unoffered(Far(s))'
    BY <1>0, <1>3, <1>2, IdsTyped, <1>6 DEF Unoffered, Once
  <1>12. Taken(Far(s))'
    BY <1>3, <1>0, IdsTyped, <1>4 DEF Taken, Once, Directed
  <1> QED BY <1>0, <1>7, <1>9, <1>10, <1>11, <1>12 DEF Once

(* The keys arrive for a transaction that has begun. *)
LEMMA HandedOverOnce ==
    ASSUME Base, Once, NEW s \in Ends, HandedOver(s) PROVE Once'
  <1>1. PICK n : n = co[s].att.id OBVIOUS
  <1>2. /\ n \in Tries /\ tx[n] # Nobody /\ tx'[n] # Nobody
        /\ \A k \in Tries : k # n => tx'[k] = tx[k]
        /\ Routed(s, {})
        /\ co'[Far(s)] = co[Far(s)] /\ co'[s].att # Nobody /\ co'[s].att.at = "install"
        /\ co'[s].att.id = co[s].att.id /\ co[s].att # Nobody
        /\ co'[s].att.dir = co[s].att.dir
    BY <1>1 DEF HandedOver, Handed, AttReaches, Receiving, Attempt
  <1>3. \A k \in Tries : (tx'[k] = Nobody) = (tx[k] = Nobody) BY <1>2
  <1> QED BY <1>2, <1>3, OnceKept

(* An attempt has one transaction. *)
LEMMA NextOnce ==
    ASSUME Base, Once, NEW src \in [Tries -> Ends], Directed(src), TransferNext
    PROVE  Once'
  <1>0. /\ WireTyped /\ \A s \in Ends : co[s] \in Coordinators
        /\ \A n \in Tries : tx[n] \in Transactions \cup {Nobody}
    BY TypeFacts DEF Base
  <1>1. ASSUME NEW s \in Ends, CoActs(s) PROVE Once'
    <2>1. CASE QuietStep(s)
      <3>1. PICK M : Plain(M) /\ CoStep(s, M) BY <2>1 DEF QuietStep
      <3>2. \A m \in M : m.kind # "prepare" BY <3>1 DEF Plain
      <3> QED BY <3>1, <3>2, CoStepOnce
    <2>2. CASE HandedStep(s)
      <3>1. PICK m \in Messages : CoStep(s, {m}) /\ m.kind = "handoff"
        BY <2>2 DEF HandedStep
      <3> QED BY <3>1, CoStepOnce
    <2>3. CASE PreparedStep(s) \/ OpenedStep(s) \/ PreparedBy(s) \/ CreatedStep(s) \/ HandedOver(s)
      BY <2>3, PreparedOnce, OpenedOnce, PreparedByOnce, CreatedOnce, HandedOverOnce
    <2> QED BY <1>1, <2>1, <2>2, <2>3 DEF CoActs
  <1>2. ASSUME NEW s \in Ends, NEW M, co'[Far(s)] = co[Far(s)],
               co'[s].att = Nobody \/ co'[s].att = co[s].att,
               Routed(s, M), \A m \in M : m.kind # "prepare", \A n \in Tries : LikeTx(n)
        PROVE  Once'
    BY <1>2, OnceKept DEF LikeTx
  <1>3. ASSUME NEW s \in Ends, UserActs(s) PROVE Once'
    BY <1>3, <1>0, ChangedFacts, SameRouted, <1>2 DEF UserActs, UserStep, Advertised, Beside, SameTx
  <1>4. ASSUME NEW n \in Tries, Serves(n) PROVE Once'
    <2>1. UNCHANGED <<co, wire>>
      BY <1>4 DEF Serves, Issues, Commits, Stages, Freshens, AnswersLate, LosesAnswer, Working
    <2>2. \A m \in Tries : LikeTx(m)
      BY <1>0, TypeFacts, TxToGoes, <1>4 DEF Base, LikeTx, TxGoes, Serves, Issues, Commits, Stages,
         Freshens, AnswersLate, LosesAnswer, Tx, TxSteps
    <2>3. PICK s \in Ends : TRUE BY DEF Ends
    <2>4. Routed(s, {}) BY <1>0, <2>1, SameRouted
    <2> QED BY <1>2, <2>1, <2>2, <2>4
  <1>5. ASSUME NEW n \in Tries, ClosesTx(n) PROVE Once'
    <2>1. PICK s \in Ends, step \in {"late", "over"} : Closes(n, s, step)
      BY <1>5 DEF ClosesTx
    <2>2. PICK M : Routed(s, M) /\ \A m \in M : m.kind \in {"ack", "cancel"}
      BY <2>1 DEF Closes
    <2>3. co'[Far(s)] = co[Far(s)] /\ (co'[s].att = Nobody \/ co'[s].att = co[s].att)
      BY <1>0, <2>1, CancelledFacts, DownFacts DEF Closes
    <2>4. \A m \in Tries : LikeTx(m) BY <2>1 DEF Closes, TxGoes
    <2> QED BY <1>2, <2>2, <2>3, <2>4
  <1>6. ASSUME NEW n \in Tries, NEW s \in Ends, Published(n, s) PROVE Once'
    <2>1. PICK m \in Messages : m.kind = "ack" /\ Routed(s, {m})
      BY <1>6 DEF Published
    <2>2. co'[Far(s)] = co[Far(s)] /\ co'[s].att = Nobody /\ \A k \in Tries : LikeTx(k)
      BY <1>6 DEF Published, TxGoes
    <2> QED BY <1>2, <2>1, <2>2
  <1>7. CASE ConnectsAgain
    BY <1>7, ConnectsAgainBase DEF Once, OneOffer, Unoffered, Offered, Taken, On
  <1> QED BY <1>1, <1>3, <1>4, <1>5, <1>6, <1>7, NextActs

-----------------------------------------------------------------------------
(* What Identity has issued to an attempt, by the step of its transaction,   *)
(* and what is stored at an end: an issued session is stored only while its  *)
(* transaction is under way or has published it, unless a later transaction  *)
(* put it back.                                                              *)
IssueOK(n) ==
    /\ tx[n] = Nobody => idy.issued[n] = "no"
    /\ tx[n] # Nobody =>
         /\ tx[n].at = "hand" => idy.issued[n] = "no"
         /\ tx[n].at \in {"stage", "fresh", "publish"} => idy.issued[n] = "issued"
         /\ tx[n].at = "over" => idy.issued[n] # "issued"
SealedBy(s, n) ==
    /\ tx[n] # Nobody /\ tx[n].side = s
    /\ tx[n].at \in {"fresh", "publish"} \/ (tx[n].at = "over" /\ idy.issued[n] = "live")
Restored(n) == \E m \in Tries : PutBackBy(m, n)
SealOK(s, n) == home[s].sealed = n => Restored(n) \/ SealedBy(s, n)
Settled == (\A n \in Tries : IssueOK(n)) /\ \A s \in Ends : \A n \in Tries : SealOK(s, n)

(* A transaction that can be put back to stays so. *)
LEMMA RestoredKept ==
    ASSUME \A m \in Tries : LikeTx(m), NEW n \in Tries, Restored(n) PROVE Restored(n)'
  <1>1. PICK m \in Tries : PutBackBy(m, n) BY DEF Restored
  <1>2. PutBackBy(m, n)' BY <1>1 DEF PutBackBy, LikeTx
  <1> QED BY <1>2 DEF Restored

(* Steps beside the transactions and Identity: storage stays, is emptied or  *)
(* takes the session of the user's own sign-in.                              *)
LEMMA SettledKept ==
    ASSUME Settled, \A n \in Tries : SameTx(n), idy'.issued = idy.issued,
           \A e \in Ends : home'[e].sealed \in {home[e].sealed, 0, MaxTries + 1}
    PROVE  Settled'
  BY TransferAssumption, RestoredKept DEF Settled, IssueOK, SameTx, LikeTx, SealOK, Tries, SealedBy

(* One transaction's step: the others, and what is stored of them, stay.     *)
LEMMA SettledOne ==
    ASSUME Settled, NEW n \in Tries, \A m \in Tries : m # n => tx'[m] = tx[m],
           \A m \in Tries : m # n => idy'.issued[m] = idy.issued[m],
           \A m \in Tries : Restored(m) => Restored(m)', IssueOK(n)',
           \A e \in Ends : SealOK(e, n)',
           \A e \in Ends : \A k \in Tries :
              home'[e].sealed = k /\ k \notin {home[e].sealed, n} => Restored(k)'
    PROVE  Settled'
  BY DEF Settled, IssueOK, SealOK, SealedBy

(* The steps of the transactions. *)
LEMMA CreatedSettled ==
    ASSUME Base, Once, Settled, NEW s \in Ends, CreatedStep(s) PROVE Settled'
  <1>1. PICK n : n = co[s].att.id OBVIOUS
  <1>2. /\ n \in Tries /\ tx'[n] # Nobody /\ tx'[n].at = "hand"
        /\ \A m \in Tries : m # n => tx'[m] = tx[m]
        /\ UNCHANGED idy /\ \A e \in Ends : home'[e].sealed = home[e].sealed
        /\ co[s].att # Nobody /\ co[s].att.dir = "receiver" /\ co[s].att.at = "offer"
    BY <1>1 DEF CreatedStep, Created, SameHomes, Receiving, Attempt
  <1>3. tx[n] = Nobody BY <1>1, <1>2 DEF Once, Taken
  <1>4. IssueOK(n)' BY <1>2, <1>3 DEF Settled, IssueOK
  <1>5. ASSUME NEW m \in Tries, Restored(m) PROVE Restored(m)'
    BY <1>2, <1>3, <1>5 DEF Restored, PutBackBy
  <1>6. ASSUME NEW e \in Ends PROVE SealOK(e, n)'
    BY <1>3, <1>2, <1>5 DEF SealedBy, Settled, SealOK
  <1> QED BY <1>2, <1>4, <1>5, <1>6, SettledOne

(* A transaction that goes on to the issue keeps what is settled. *)
LEMMA HandedSettled ==
    ASSUME Base, Settled, NEW s \in Ends, HandedOver(s) PROVE Settled'
  <1>1. PICK n : n = co[s].att.id OBVIOUS
  <1>2. /\ n \in Tries /\ tx[n] # Nobody /\ tx'[n] # Nobody /\ tx'[n].at = "commit"
        /\ tx'[n].prev = tx[n].prev
        /\ \A m \in Tries : m # n => tx'[m] = tx[m]
        /\ UNCHANGED idy /\ UNCHANGED home
        /\ co[s].att # Nobody /\ co[s].att.at = "hand"
    BY <1>1 DEF HandedOver, Handed, Receiving, Attempt
  <1>3. tx[n].at = "hand" BY <1>1, <1>2 DEF Base, Agreed, Begun
  <1>4. IssueOK(n)' BY <1>2, <1>3 DEF Settled, IssueOK
  <1>5. ASSUME NEW m \in Tries, Restored(m) PROVE Restored(m)'
    BY <1>2, <1>5 DEF Restored, PutBackBy
  <1>6. ASSUME NEW e \in Ends PROVE SealOK(e, n)'
    BY <1>3, <1>2, <1>5 DEF SealedBy, Settled, SealOK
  <1> QED BY <1>2, <1>4, <1>5, <1>6, SettledOne

(* What a transaction does at its end and at Identity on the way.            *)
LEMMA WorkSettled ==
    ASSUME Base, Settled, NEW n \in Tries, tx[n] # Nobody, NEW step \in TxSteps, TxGoes(n, step),
           NEW v, IssueGoes(n, v), NEW s \in Ends, s = tx[n].side, NEW k \in Nat, SealedSome(s, k),
           step = "hand" => v = "no",
           step \in {"stage", "fresh", "publish"} => v = "issued",
           step = "over" => v # "issued",
           k = home[s].sealed \/ k = 0 \/ k = n \/ k = tx[n].prev,
           k = n => \/ tx[n].prev = n
                    \/ step \in {"fresh", "publish"} \/ (step = "over" /\ v = "live")
                    \/ k = home[s].sealed /\ ~SealedBy(s, n)
    PROVE  Settled'
  <1>0. Far(s) \in Ends /\ Far(s) # s /\ \A e \in Ends : e = s \/ e = Far(s)
    BY FarEnd
  <1>1. /\ tx'[n] # Nobody /\ tx'[n].at = step /\ tx'[n].side = s /\ tx'[n].prev = tx[n].prev
        /\ \A m \in Tries : LikeTx(m) /\ (m # n => tx'[m] = tx[m])
    BY DEF TxGoes, LikeTx
  <1>2. /\ idy'.issued[n] = v /\ \A m \in Tries : m # n => idy'.issued[m] = idy.issued[m]
    BY DEF IssueGoes
  <1>3. home'[s].sealed = k /\ home'[Far(s)].sealed = home[Far(s)].sealed
    BY DEF SealedSome
  <1>4. IssueOK(n)' BY <1>1, <1>2 DEF IssueOK
  <1>5. ASSUME NEW m \in Tries, Restored(m) PROVE Restored(m)'
    BY <1>1, <1>5, RestoredKept
  <1>7. ASSUME NEW m \in Tries, m = tx[n].prev PROVE Restored(m)'
    BY <1>1, <1>7 DEF Restored, PutBackBy
  <1>8. SealOK(s, n)'
    BY <1>3, <1>7, <1>1, <1>2, <1>5 DEF SealOK, SealedBy, Settled
  <1>9. SealOK(Far(s), n)'
    <2>1. ~SealedBy(Far(s), n) BY <1>0 DEF SealedBy
    <2>2. home'[Far(s)].sealed = n => Restored(n)
      BY <1>0, <1>3, <2>1 DEF Settled, SealOK
    <2> QED BY <1>0, <1>3, <1>5, <2>2 DEF SealOK
  <1>10. ASSUME NEW e \in Ends, NEW m \in Tries, home'[e].sealed = m, m \notin {home[e].sealed, n}
         PROVE  Restored(m)'
    BY <1>0, <1>3, <1>10, <1>7 DEF Tries
  <1> QED BY <1>0, <1>1, <1>2, <1>4, <1>5, <1>8, <1>9, <1>10, SettledOne

(* The receiver's work, and Identity's for it. *)
LEMMA ServesSettled ==
    ASSUME Base, Settled, NEW n \in Tries, Serves(n) PROVE Settled'
  <1>1. TransferTypeOK /\ TxTyped BY TypeFacts DEF Base, TxTyped
  <1>2. tx[n] # Nobody
    BY DEF Serves, Issues, Commits, Stages, Freshens, AnswersLate, LosesAnswer, Tx
  <1>3. PICK s \in Ends : s = tx[n].side
    BY <1>1, <1>2 DEF TxTyped, Transactions
  <1>4. tx[n].at \in TxSteps /\ idy.issued[n] \in {"no", "issued", "live", "asked", "lost"}
        /\ home[s].sealed \in Nat /\ n \in Nat
    <2>1. tx[n].at \in TxSteps
      BY <1>1, <1>2 DEF TxTyped, Transactions, TxSteps
    <2>2. idy.issued[n] \in {"no", "issued", "live", "asked", "lost"}
      BY <1>1 DEF TransferTypeOK
    <2>3. home[s] \in Homes BY <1>1 DEF TransferTypeOK
    <2> QED BY <2>1, <2>2, <2>3 DEF Homes, Tries
  <1>5. ASSUME UNCHANGED tx PROVE TxGoes(n, tx[n].at)
    BY <1>1, <1>2, <1>5 DEF TxGoes, TxTyped, LikeTx
  <1>6. ASSUME NEW step \in TxSteps, tx' = TxTo(n, step) PROVE TxGoes(n, step)
    BY <1>1, <1>2, <1>6, TxToGoes
  <1>7. ASSUME UNCHANGED home PROVE SealedSome(s, home[s].sealed)
    BY <1>1, <1>7, SealStays
  <1>8. ASSUME UNCHANGED idy PROVE IssueGoes(n, idy.issued[n])
    BY <1>1, <1>8, IssueStays
  <1>9. IssueOK(n) BY DEF Settled
  <1>10. CASE Issues(n)
    <2>1. IssueGoes(n, "issued") BY <1>1, <1>10, IssueSet DEF Issues
    <2>2. tx[n].at \in {"commit", "late"} /\ UNCHANGED tx /\ UNCHANGED home
      BY <1>10 DEF Issues
    <2>3. ~SealedBy(s, n) BY <2>2 DEF SealedBy
    <2>4. TxGoes(n, tx[n].at) /\ SealedSome(s, home[s].sealed)
      BY <1>5, <1>7, <2>2
    <2> QED BY <1>2, <1>3, <1>4, <2>1, <2>2, <2>3, <2>4, WorkSettled
  <1>11. CASE Commits(n)
    BY <1>11, <1>6, <1>7, <1>8, <1>2, <1>3, <1>4, WorkSettled DEF Commits, Tx, SealedBy, TxSteps
  <1>12. CASE Stages(n)
    <2>1. /\ tx[n].at = "stage" /\ home' = [home EXCEPT ![s].sealed = n]
          /\ tx' = TxTo(n, "fresh") /\ UNCHANGED idy
      BY <1>3, <1>12 DEF Stages, Tx
    <2>2. idy.issued[n] = "issued" BY <1>2, <1>9, <2>1 DEF IssueOK
    <2>3. "fresh" \in TxSteps BY DEF TxSteps
    <2>4. TxGoes(n, "fresh") /\ IssueGoes(n, "issued")
      BY <1>6, <1>8, <2>1, <2>2, <2>3
    <2>5. SealedSome(s, n) BY <1>1, <1>4, <2>1, SealSet
    <2> QED BY <1>2, <1>3, <1>4, <2>3, <2>4, <2>5, WorkSettled
  <1>13. CASE Freshens(n)
    <2>1. /\ tx[n].at = "fresh" /\ tx' = TxTo(n, "publish") /\ UNCHANGED home /\ UNCHANGED idy
      BY <1>13 DEF Freshens, Tx
    <2>2. idy.issued[n] = "issued" BY <1>2, <1>9, <2>1 DEF IssueOK
    <2>3. "publish" \in TxSteps BY DEF TxSteps
    <2>4. TxGoes(n, "publish") /\ SealedSome(s, home[s].sealed) /\ IssueGoes(n, "issued")
      BY <1>6, <1>7, <1>8, <2>1, <2>2, <2>3
    <2> QED BY <1>2, <1>3, <1>4, <2>3, <2>4, WorkSettled
  <1>14. ASSUME AnswersLate(n) \/ LosesAnswer(n) PROVE Settled'
    <2>1. /\ tx[n].at = "late" /\ tx' = TxTo(n, "over") /\ UNCHANGED home
      BY <1>14 DEF AnswersLate, LosesAnswer, Tx
    <2>2. PICK v \in {"no", "live", "asked", "lost"} : idy' = [idy EXCEPT !.issued[n] = v]
      <3>1. CASE AnswersLate(n)
        <4>1. PICK v : v = IF idy.issued[n] = "issued" THEN "asked" ELSE idy.issued[n]
          OBVIOUS
        <4>2. v \in {"no", "live", "asked", "lost"} BY <1>4, <4>1
        <4>3. idy' = [idy EXCEPT !.issued[n] = v]
          BY <3>1, <4>1 DEF AnswersLate
        <4> QED BY <4>2, <4>3
      <3>2. CASE LosesAnswer(n) BY <3>2 DEF LosesAnswer
      <3> QED BY <1>14, <3>1, <3>2
    <2>3. IssueGoes(n, v) /\ v # "issued" BY <1>1, <2>2, IssueSet
    <2>4. ~SealedBy(s, n) BY <2>1 DEF SealedBy
    <2>5. "over" \in TxSteps BY DEF TxSteps
    <2>6. TxGoes(n, "over") /\ SealedSome(s, home[s].sealed)
      BY <1>6, <1>7, <2>1, <2>5
    <2> QED BY <1>2, <1>3, <1>4, <2>3, <2>4, <2>5, <2>6, WorkSettled
  <1> QED BY <1>10, <1>11, <1>12, <1>13, <1>14 DEF Serves

(* A transaction that ends without its keys. *)
LEMMA ClosesSettled ==
    ASSUME Base, Settled, NEW n \in Tries, ClosesTx(n) PROVE Settled'
  <1>1. PICK s \in Ends, step \in {"late", "over"} :
           /\ Closes(n, s, step)
           /\ tx[n].at \notin {"over", "late"} /\ (step = "late") = (tx[n].at = "commit")
    BY DEF ClosesTx
  <1>2. tx[n] # Nobody /\ s = tx[n].side /\ TxGoes(n, step) BY <1>1 DEF Closes
  <1>3. PICK k \in Nat : /\ SealedSome(s, k)
                         /\ home[s].sealed # n => k = home[s].sealed
                         /\ home[s].sealed = n => k = 0 \/ k = tx[n].prev
    BY <1>1 DEF Closes
  <1>4. PICK v : /\ IssueGoes(n, v)
                 /\ v = IF idy.issued[n] = "issued" /\ tx[n].at \notin {"commit", "late"}
                        THEN "asked" ELSE idy.issued[n]
    BY <1>1 DEF Closes
  <1>5. step = "over" => v # "issued" BY <1>1, <1>4
  <1>6. step \in TxSteps /\ step \notin {"hand", "stage", "fresh", "publish"} /\ n # 0
    BY <1>1 DEF TxSteps, Tries
  <1>7. k = n => tx[n].prev = n BY <1>3, <1>6
  <1> QED BY <1>2, <1>3, <1>4, <1>5, <1>6, <1>7, WorkSettled

(* The published session is the one that is stored. *)
LEMMA PublishedSettled ==
    ASSUME Base, Settled, NEW n \in Tries, NEW s \in Ends, Published(n, s) PROVE Settled'
  <1>1. /\ tx[n] # Nobody /\ s = tx[n].side /\ tx[n].at = "publish"
        /\ TxGoes(n, "over") /\ IssueGoes(n, "live")
        /\ home'[Far(s)] = home[Far(s)] /\ home'[s].sealed = home[s].sealed
    BY DEF Published
  <1>2. \A e \in Ends : home'[e].sealed = home[e].sealed BY <1>1, FarEnd
  <1>3. /\ tx'[n] # Nobody /\ tx'[n].at = "over" /\ tx'[n].side = s /\ idy'.issued[n] = "live"
        /\ \A m \in Tries : LikeTx(m) /\ (m # n => tx'[m] = tx[m])
        /\ \A m \in Tries : m # n => idy'.issued[m] = idy.issued[m]
    BY <1>1 DEF TxGoes, IssueGoes, LikeTx
  <1>4. IssueOK(n)' BY <1>3 DEF IssueOK
  <1>5. ASSUME NEW m \in Tries, Restored(m) PROVE Restored(m)'
    BY <1>3, <1>5, RestoredKept
  <1>6. ASSUME NEW e \in Ends PROVE SealOK(e, n)'
    BY <1>2, <1>6, <1>1, <1>3, <1>5 DEF SealOK, Settled, SealedBy
  <1> QED BY <1>2, <1>3, <1>4, <1>5, <1>6, SettledOne

(* Every step. *)
LEMMA NextSettled ==
    ASSUME Base, Once, Settled, TransferNext PROVE Settled'
  <1>1. ASSUME NEW s \in Ends, CoActs(s) PROVE Settled'
    <2>1. ASSUME NEW M, Alone(s, M), SameHomes, idy'.issued = idy.issued PROVE Settled'
      BY <2>1, SettledKept DEF Alone, Eased, SameHomes
    <2>2. ASSUME NEW M, CoStep(s, M) PROVE Settled'
      BY <2>2, <2>1 DEF CoStep, Moves
    <2>3. CASE QuietStep(s) \/ PreparedStep(s) \/ HandedStep(s)
      BY <2>2, <2>3 DEF QuietStep, PreparedStep, HandedStep
    <2>4. CASE OpenedStep(s)
      <3>1. PICK M : /\ Alone(s, M) /\ UNCHANGED home
                     /\ idy' = [idy EXCEPT !.tries = Append(idy.tries, co'[s].att.sel)]
        BY <2>4 DEF OpenedStep
      <3>2. idy'.issued = idy.issued BY <3>1 DEF Base, TransferTypeOK
      <3> QED BY <2>1, <3>1, <3>2, SameHomesStay DEF Base
    <2>5. CASE PreparedBy(s)
      <3>1. PICK M : Alone(s, M) /\ UNCHANGED home /\ UNCHANGED idy
        BY <2>5 DEF PreparedBy
      <3> QED BY <2>1, <3>1, SameHomesStay DEF Base
    <2> QED BY <1>1, <2>3, <2>4, <2>5, CreatedSettled, HandedSettled DEF CoActs
  <1>2. ASSUME NEW s \in Ends, UserActs(s) PROVE Settled'
    BY <1>2, FarEnd, SettledKept DEF UserActs, UserStep, HomeOnly, Beside
  <1>3. CASE ConnectsAgain
    BY <1>3, SettledKept DEF ConnectsAgain, SameTx, LikeTx
  <1> QED BY <1>1, <1>2, <1>3, ServesSettled, ClosesSettled, PublishedSettled, NextActs

(* The beginning, where only the sessions of users are stored. *)
LEMMA InitSettled ==
    ASSUME TransferInit PROVE Once /\ Settled
  <1>1. /\ \A s \in Ends : co[s].att = Nobody /\ wire[s] = <<>>
        /\ \A n \in Tries : tx[n] = Nobody /\ idy.issued[n] = "no"
    BY DEF TransferInit, NewCoordinator
  <1>2. PICK s \in Ends, p \in People :
          \E other \in {Session(Nobody, "out", 0, 2), Session(p, "locked", 1, 1)} :
            home = [e \in Ends |-> IF e = s THEN Session(p, "unlocked", 1, 1)
                                            ELSE [other EXCEPT !.root = 0]]
    BY ZenonT(30) DEF TransferInit
  <1>3. PICK other \in {Session(Nobody, "out", 0, 2), Session(p, "locked", 1, 1)} :
            home = [e \in Ends |-> IF e = s THEN Session(p, "unlocked", 1, 1)
                                            ELSE [other EXCEPT !.root = 0]]
    BY <1>2
  <1>4. \A e \in Ends : home[e].sealed \in {0, MaxTries + 1}
    BY <1>3 DEF Session
  <1>5. \A n \in Tries : n # 0 /\ n # MaxTries + 1
    BY TransferAssumption DEF Tries
  <1>6. Settled BY <1>1, <1>4, <1>5 DEF Settled, IssueOK, SealOK
  <1>7. Once BY <1>1 DEF Once, OneOffer, Unoffered, Offered, Taken, On
  <1> QED BY <1>6, <1>7

(* A step that leaves everything. *)
LEMMA StutterSettled ==
    ASSUME Once, Settled, UNCHANGED transferVars PROVE Once' /\ Settled'
  <1>1. Once'
    BY DEF transferVars, Once, OneOffer, Unoffered, Offered, Taken, On
  <1>2. Settled'
    BY DEF transferVars, Settled, IssueOK, SealOK, SealedBy, Restored, PutBackBy
  <1> QED BY <1>1, <1>2

(* What the proof of IssuedAreSettled is by induction on. *)
SettledInv ==
    /\ Base /\ \E src \in [Tries -> Ends] : Directed(src)
    /\ Once /\ Settled

(* IssuedAreSettled: what Identity issued to a transfer becomes the own      *)
(* session of its end, or Identity is asked to revoke it, or its answer was  *)
(* lost; and one that is to be revoked stays in storage only where a later   *)
(* transaction put it back.  An attempt has one transaction, so nothing is   *)
(* issued before it begins, and its own step tells what Identity issued and  *)
(* what it stored.                                                           *)
THEOREM IssuedSettled == TransferSpec => []IssuedAreSettled
  <1>1. TransferInit => SettledInv
    <2>1. SUFFICES ASSUME TransferInit PROVE SettledInv OBVIOUS
    <2>2. PICK src : src = [n \in Tries |-> "web"] OBVIOUS
    <2>3. src \in [Tries -> Ends] BY <2>2 DEF Ends
    <2> QED BY <2>1, <2>3, InitBase, InitSettled DEF SettledInv
  <1>2. SettledInv /\ [TransferNext]_transferVars => SettledInv'
    <2>1. SUFFICES ASSUME SettledInv, [TransferNext]_transferVars PROVE SettledInv'
      OBVIOUS
    <2>2. PICK src \in [Tries -> Ends] : Directed(src) BY <2>1 DEF SettledInv
    <2>3. Base /\ Once /\ Settled BY <2>1 DEF SettledInv
    <2>4. CASE TransferNext
      BY <2>2, <2>3, <2>4, NextKeeps, NextOnce, NextSettled DEF SettledInv
    <2>5. CASE UNCHANGED transferVars
      BY <2>2, <2>3, <2>5, StutterBase, StutterDirected, StutterSettled DEF SettledInv
    <2> QED BY <2>1, <2>4, <2>5
  <1>3. SettledInv => IssuedAreSettled
    BY DEF SettledInv, Settled, IssueOK, SealOK, SealedBy, Restored, IssuedAreSettled
  <1> QED BY <1>1, <1>2, <1>3, PTL DEF TransferSpec

-----------------------------------------------------------------------------
(* What the ends tell each other. *)

(* Steps at which an end neither says nor hears anything new of a state: its *)
(* own state and the one it knows stay, or its own is forgotten; what it     *)
(* tried stays while both do.                                                *)
Keeps(c, d) ==
    /\ d.ids = c.ids /\ d.peer = c.peer /\ d.own \in {c.own, Nobody}
    /\ d.ref \in {c.ref, "idle"} /\ (d.up => c.up)
    /\ d.up /\ d.own # Nobody => d.tried = c.tried
Calm(s) ==
    /\ co'[Far(s)] = co[Far(s)] /\ Keeps(co[s], co'[s])
    /\ co'[s].pick.at = "adopt" => co[s].pick.at = "adopt"
Hushed(s) == \E M : Routed(s, M) /\ \A m \in M : m.kind \notin {"state", "chosen"}
SameMark == home'["web"].mark = home["web"].mark
CalmStep(s) == Calm(s) /\ Hushed(s) /\ idy'.tries = idy.tries /\ SameMark

(* The route of such a step. *)
LEMMA HushedForms ==
    ASSUME WireTyped, NEW s \in Ends
    PROVE  /\ UNCHANGED wire => Hushed(s)
           /\ wire[s] # <<>> /\ Takes(s) => Hushed(s)
           /\ wire' = [wire EXCEPT ![s] = <<>>] => Hushed(s)
           /\ \A m \in Messages : m.kind \notin {"state", "chosen"} =>
                /\ Sends(s, m) => Hushed(s)
                /\ wire[s] # <<>> /\ Answers(s, m) => Hushed(s)
  <1>1. ASSUME Routed(s, {}) PROVE Hushed(s) BY <1>1 DEF Hushed
  <1>2. ASSUME NEW m \in Messages, m.kind \notin {"state", "chosen"}, Routed(s, {m}) PROVE Hushed(s)
    BY <1>2 DEF Hushed
  <1>3. UNCHANGED wire => Hushed(s) BY <1>1, SameRouted
  <1>4. wire[s] # <<>> /\ Takes(s) => Hushed(s) BY <1>1, TakesRouted
  <1>5. wire' = [wire EXCEPT ![s] = <<>>] => Hushed(s) BY <1>1, EmptiesRouted
  <1>6. ASSUME NEW m \in Messages, m.kind \notin {"state", "chosen"}
        PROVE  /\ Sends(s, m) => Hushed(s)
               /\ wire[s] # <<>> /\ Answers(s, m) => Hushed(s)
    BY <1>2, <1>6, SendsRouted, AnswersRouted
  <1> QED BY <1>3, <1>4, <1>5, <1>6

(* A coordinator set anew. *)
LEMMA CalmSet ==
    ASSUME CoTyped, NEW s \in Ends, NEW c, co' = [co EXCEPT ![s] = c], Keeps(co[s], c),
           c.pick.at = "adopt" => co[s].pick.at = "adopt"
    PROVE  Calm(s)
  BY FarEnd DEF CoTyped, Calm

(* A coordinator left as it is. *)
LEMMA SameCalm ==
    ASSUME NEW s \in Ends, UNCHANGED co PROVE Calm(s)
  BY DEF Calm, Keeps

(* fail and cancel *)
LEMMA FailsCalm ==
    ASSUME TransferTypeOK, NEW s \in Ends, FailsAt(s) PROVE Calm(s) /\ Hushed(s)
  BY TypeFacts, DownFacts, CalmSet, HushedForms DEF FailsAt, Becomes, Keeps

(* An attempt given up says nothing. *)
LEMMA GivesUpCalm ==
    ASSUME TransferTypeOK, NEW s \in Ends, GivesUp(s) PROVE Calm(s)
  BY TypeFacts, CancelledFacts, CalmSet DEF GivesUp, Becomes, Keeps

(* Only the attempt is set. *)
LEMMA AttemptCalm ==
    ASSUME TransferTypeOK, NEW s \in Ends, NEW a, co' = [co EXCEPT ![s] = [co[s] EXCEPT !.att = a]]
    PROVE  Calm(s)
  <1>1. CoTyped /\ co[s] \in Coordinators BY TypeFacts
  <1>2. PICK c : c = [co[s] EXCEPT !.att = a] OBVIOUS
  <1>3. /\ c.own = co[s].own /\ c.peer = co[s].peer /\ c.ids = co[s].ids /\ c.ref = co[s].ref
        /\ c.up = co[s].up /\ c.tried = co[s].tried /\ c.pick = co[s].pick
    BY <1>1, <1>2 DEF Coordinators
  <1>4. Keeps(co[s], c) /\ co' = [co EXCEPT ![s] = c] BY <1>2, <1>3 DEF Keeps
  <1> QED BY <1>1, <1>3, <1>4, CalmSet

(* An attempt that goes on says nothing of a state. *)
LEMMA ReachesCalm ==
    ASSUME TransferTypeOK, NEW s \in Ends, NEW step, NEW r,
           \/ co' = [co EXCEPT ![s] = Reaches(s, step)]
           \/ co' = [co EXCEPT ![s] = [Reaches(s, step) EXCEPT !.att.root = r]]
    PROVE  Calm(s)
  <1>1. Reaches(s, step) = [co[s] EXCEPT !.att = [co[s].att EXCEPT !.at = step]]
    BY DEF Reaches
  <1>2. CASE co' = [co EXCEPT ![s] = Reaches(s, step)]
    BY <1>1, <1>2, AttemptCalm
  <1>3. CASE co' = [co EXCEPT ![s] = [Reaches(s, step) EXCEPT !.att.root = r]]
    <2>1. PICK b : b = [co[s].att EXCEPT !.at = step] OBVIOUS
    <2>2. PICK d : d = [co[s] EXCEPT !.att = b] OBVIOUS
    <2>3. Reaches(s, step) = d BY <1>1, <2>1, <2>2
    <2>4. PICK a : a = [d.att EXCEPT !.root = r] OBVIOUS
    <2>5. [d EXCEPT !.att.root = r] = [d EXCEPT !.att = a] BY <2>4
    <2>6. [d EXCEPT !.att = a] = [co[s] EXCEPT !.att = a]
      BY TypeFacts, <2>2 DEF Coordinators
    <2>7. co' = [co EXCEPT ![s] = [co[s] EXCEPT !.att = a]]
      BY <1>3, <2>3, <2>5, <2>6
    <2> QED BY <2>7, AttemptCalm
  <1> QED BY <1>2, <1>3

(* Nor does one that is aborted. *)
LEMMA AbortsCalm ==
    ASSUME TransferTypeOK, NEW s \in Ends, Aborts(s) PROVE Calm(s)
  BY GivesUpCalm, ReachesCalm DEF Aborts

(* The steps of an attempt at its source say nothing of a state. *)
LEMMA SourcesCalm ==
    ASSUME Base, NEW s \in Ends, Sources(s) PROVE CalmStep(s)
  <1>1. TransferTypeOK /\ WireTyped BY TypeFacts DEF Base
  <1>2. UNCHANGED <<home, idy>>
    BY Zenon DEF Sources, Prepares, GetsPrepared, GetsAnswer, GetsAck, Privately
  <1>3. \A kind : Gets(s, kind) => wire[s] # <<>> BY DEF Gets
  <1>4. ASSUME Attempt(s) # Nobody PROVE Attempt(s).id \in Tries /\ Attempt(s).sel \in Selections
    BY <1>1, <1>4, TypeFacts DEF Attempt, Coordinators, Attempts
  <1>5. home[s].root \in Nat BY <1>1, TypeFacts DEF Homes
  <1>6. CASE Prepares(s)
    <2>1. Attempt(s).id \in Tries /\ Attempt(s).sel \in Selections
      BY <1>4, <1>6 DEF Prepares, Sending
    <2>2. CASE GivesUp(s) /\ UNCHANGED wire
      BY <1>1, <1>2, <2>2, GivesUpCalm, HushedForms DEF CalmStep, SameMark
    <2>3. CASE /\ Becomes(s, Reaches(s, "wait"))
               /\ Sends(s, [kind |-> "prepare", id |-> Attempt(s).id, sel |-> Attempt(s).sel])
      <3>1. PICK m : m = [kind |-> "prepare", id |-> Attempt(s).id, sel |-> Attempt(s).sel]
        OBVIOUS
      <3>2. m \in Messages /\ m.kind \notin {"state", "chosen"}
        BY <2>1, <3>1, MessagesMade
      <3>3. Hushed(s) BY <1>1, <2>3, <3>1, <3>2, HushedForms
      <3>4. Calm(s) BY <1>1, <2>3, ReachesCalm DEF Becomes
      <3> QED BY <1>2, <3>3, <3>4 DEF CalmStep, SameMark
    <2> QED BY <1>6, <2>2, <2>3 DEF Prepares
  <1>7. ASSUME wire[s] # <<>>, Takes(s), UNCHANGED co \/ GivesUp(s) PROVE CalmStep(s)
    BY <1>1, <1>2, <1>7, SameCalm, GivesUpCalm, HushedForms DEF CalmStep, SameMark
  <1>8. CASE GetsPrepared(s)
    <2>1. wire[s] # <<>> BY <1>3, <1>8 DEF GetsPrepared
    <2>2. CASE Takes(s) /\ (UNCHANGED co \/ GivesUp(s)) BY <1>7, <2>1, <2>2
    <2>3. CASE /\ Sending(s, "wait")
               /\ Becomes(s, [Reaches(s, "offer") EXCEPT !.att.root = home[s].root])
               /\ Answers(s, [kind |-> "offer", id |-> Attempt(s).id])
      <3>1. PICK m : m = [kind |-> "offer", id |-> Attempt(s).id] OBVIOUS
      <3>2. m \in Messages /\ m.kind \notin {"state", "chosen"}
        BY <1>4, <2>3, <3>1, MessagesMade DEF Sending
      <3>3. Hushed(s) BY <1>1, <2>1, <2>3, <3>1, <3>2, HushedForms
      <3>4. Calm(s) BY <1>1, <2>3, ReachesCalm DEF Becomes
      <3> QED BY <1>2, <3>3, <3>4 DEF CalmStep, SameMark
    <2> QED BY <1>8, <2>2, <2>3, Zenon DEF GetsPrepared
  <1>9. CASE GetsAnswer(s)
    <2>1. wire[s] # <<>> BY <1>3, <1>9 DEF GetsAnswer
    <2>2. CASE Takes(s) /\ (UNCHANGED co \/ GivesUp(s)) BY <1>7, <2>1, <2>2
    <2>3. CASE /\ Sending(s, "offer")
               /\ Becomes(s, Reaches(s, "ack"))
               /\ Answers(s, [kind |-> "handoff", id |-> Attempt(s).id, root |-> home[s].root])
      <3>1. PICK m : m = [kind |-> "handoff", id |-> Attempt(s).id, root |-> home[s].root]
        OBVIOUS
      <3>2. m \in Messages /\ m.kind \notin {"state", "chosen"}
        BY <1>4, <1>5, <2>3, <3>1, MessagesMade DEF Sending
      <3>3. Hushed(s) BY <1>1, <2>1, <2>3, <3>1, <3>2, HushedForms
      <3>4. Calm(s) BY <1>1, <2>3, ReachesCalm DEF Becomes
      <3> QED BY <1>2, <3>3, <3>4 DEF CalmStep, SameMark
    <2> QED BY <1>9, <2>2, <2>3, Zenon DEF GetsAnswer
  <1>10. CASE GetsAck(s) BY <1>3, <1>10, <1>7 DEF GetsAck
  <1> QED BY <1>6, <1>8, <1>9, <1>10 DEF Sources

(* Nor do those at its receiver. *)
LEMMA ReceivesCalm ==
    ASSUME Base, NEW s \in Ends, Receives(s) PROVE CalmStep(s)
  <1>1. TransferTypeOK /\ WireTyped /\ home \in [Ends -> Homes]
    BY TypeFacts DEF Base
  <1>2. UNCHANGED idy
    BY Zenon DEF Receives, GetsPrepare, GetsOffer, GetsHandoff, Privately
  <1>3. \A kind : Gets(s, kind) => wire[s] # <<>> BY DEF Gets
  <1>4. ASSUME Attempt(s) # Nobody PROVE Attempt(s).id \in Tries
    BY <1>1, <1>4, TypeFacts DEF Attempt, Coordinators, Attempts
  <1>5. ASSUME UNCHANGED home,
               FailsAt(s) \/ (wire[s] # <<>> /\ Takes(s) /\ UNCHANGED co)
        PROVE  CalmStep(s)
    BY <1>1, <1>2, <1>5, FailsCalm, SameCalm, HushedForms DEF CalmStep, SameMark
  <1>6. CASE GetsPrepare(s)
    <2>1. wire[s] # <<>> /\ Msg(s).id \in Tries /\ UNCHANGED home
      BY <1>6, MessageTaken, MessageParts DEF GetsPrepare, Gets, Privately
    <2>2. CASE FailsAt(s) BY <1>5, <2>1, <2>2
    <2>3. CASE \E a : /\ Becomes(s, [co[s] EXCEPT !.att = a])
                      /\ Answers(s, [kind |-> "prepared", id |-> Msg(s).id])
      <3>1. PICK m : m = [kind |-> "prepared", id |-> Msg(s).id] OBVIOUS
      <3>2. m \in Messages /\ m.kind \notin {"state", "chosen"}
        BY <2>1, <3>1, MessagesMade
      <3>3. Hushed(s) BY <1>1, <2>1, <2>3, <3>1, <3>2, HushedForms
      <3>4. Calm(s) BY <1>1, <2>3, AttemptCalm DEF Becomes
      <3> QED BY <1>2, <2>1, <3>3, <3>4 DEF CalmStep, SameMark
    <2> QED BY <1>6, <2>2, <2>3, Zenon DEF GetsPrepare
  <1>7. CASE GetsOffer(s)
    <2>1. wire[s] # <<>> BY <1>3, <1>7 DEF GetsOffer
    <2>2. CASE UNCHANGED home /\ (FailsAt(s) \/ (Takes(s) /\ UNCHANGED co))
      BY <1>5, <2>1, <2>2
    <2>3. CASE /\ Receiving(s, "offer") /\ co' = [co EXCEPT ![s] = Reaches(s, "hand")]
               /\ home' = [home EXCEPT ![s].used = TRUE]
               /\ Answers(s, [kind |-> "answer", id |-> Attempt(s).id])
      <3>1. PICK m : m = [kind |-> "answer", id |-> Attempt(s).id] OBVIOUS
      <3>2. m \in Messages /\ m.kind \notin {"state", "chosen"}
        BY <1>4, <2>3, <3>1, MessagesMade DEF Receiving
      <3>3. Hushed(s) BY <1>1, <2>1, <2>3, <3>1, <3>2, HushedForms
      <3>4. Calm(s) BY <1>1, <2>3, ReachesCalm
      <3>5. SameMark
        <4>1. PICK h : h = [home[s] EXCEPT !.used = TRUE] OBVIOUS
        <4>2. h.mark = home[s].mark BY <1>1, <4>1 DEF Homes
        <4>3. home' = [home EXCEPT ![s] = h] /\ "web" \in Ends
          BY <2>3, <4>1 DEF Ends
        <4> QED BY <1>1, <4>2, <4>3 DEF SameMark
      <3> QED BY <1>2, <3>3, <3>4, <3>5 DEF CalmStep
    <2> QED BY <1>7, <2>2, <2>3, Zenon DEF GetsOffer
  <1>8. CASE GetsHandoff(s)
    BY <1>3, <1>8, <1>5, <1>1, ReachesCalm, HushedForms, <1>2 DEF GetsHandoff, Privately, CalmStep,
       SameMark
  <1> QED BY <1>6, <1>7, <1>8 DEF Receives

(* The links of the pair: the web application's link is what it was, and     *)
(* what it has said of it is that link; it adopts none itself.               *)
NoAdopt == co["web"].pick.at # "adopt"
ChosenOK ==
    /\ On("web", "chosen") = {} /\ NoAdopt
    /\ \A k \in On("ext", "chosen") : wire["ext"][k].sel.link = home["web"].mark

(* What the web application says of its link stays the link it has. *)
LEMMA ChosenKept ==
    ASSUME ChosenOK, NEW s \in Ends, NEW M, Routed(s, M), NoAdopt', SameMark,
           \A m \in M : m.kind = "chosen" => s = "web" /\ m.sel.link = home["web"].mark
    PROVE  ChosenOK'
  <1>1. ASSUME NEW e \in Ends, NEW L, Carried(e, L), NEW i \in On(e, "chosen")'
        PROVE  \/ \E j \in On(e, "chosen") : wire'[e][i] = wire[e][j]
               \/ wire'[e][i] \in L /\ wire'[e][i].kind = "chosen"
    <2>1. PICK k \in {0, 1} : \A x \in 1 .. Len(wire'[e]) :
             \/ x + k <= Len(wire[e]) /\ wire'[e][x] = wire[e][x + k]
             \/ x + k = Len(wire[e]) + 1 /\ wire'[e][x] \in L
      BY <1>1 DEF Carried
    <2>2. i \in 1 .. Len(wire'[e]) /\ wire'[e][i].kind = "chosen"
      BY <1>1 DEF On
    <2>3. CASE i + k <= Len(wire[e]) /\ wire'[e][i] = wire[e][i + k]
      BY <2>2, <2>3 DEF On
    <2>4. CASE wire'[e][i] \in L BY <2>2, <2>4
    <2> QED BY <2>1, <2>2, <2>3, <2>4
  <1>2. \A i \in On("web", "chosen")' : FALSE
    <2>1. SUFFICES ASSUME NEW i \in On("web", "chosen")' PROVE FALSE OBVIOUS
    <2>2. PICK L : Carried("web", L) /\ \A m \in L : m.kind = "chosen" => m \in M /\ s # "web"
      BY DEF Routed, Far, Ends
    <2>3. "web" \in Ends /\ On("web", "chosen") = {} BY DEF Ends, ChosenOK
    <2>4. wire'["web"][i] \in L /\ wire'["web"][i].kind = "chosen"
      BY <1>1, <2>2, <2>3
    <2> QED BY <2>2, <2>4
  <1>3. \A i \in On("ext", "chosen")' : wire'["ext"][i].sel.link = home["web"].mark
    <2>1. SUFFICES ASSUME NEW i \in On("ext", "chosen")'
                   PROVE  wire'["ext"][i].sel.link = home["web"].mark
      OBVIOUS
    <2>2. PICK L : Carried("ext", L) /\ \A m \in L : m \in M
      BY DEF Routed, Far, Ends
    <2>3. "ext" \in Ends BY DEF Ends
    <2>4. \/ \E j \in On("ext", "chosen") : wire'["ext"][i] = wire["ext"][j]
          \/ wire'["ext"][i] \in L /\ wire'["ext"][i].kind = "chosen"
      BY <1>1, <2>2, <2>3
    <2> QED BY <2>2, <2>4 DEF ChosenOK
  <1>4. On("web", "chosen")' = {} BY <1>2
  <1> QED BY <1>3, <1>4 DEF ChosenOK, SameMark

(* The end that adopts is the extension. *)
LEMMA CalmNoAdopt ==
    ASSUME NoAdopt, NEW s \in Ends, Calm(s) PROVE NoAdopt'
  BY DEF Ends, Far, Calm, NoAdopt

(* The selection of a link, but for what the web application says of it.     *)
LEMMA PicksLinkCalm ==
    ASSUME Base, NEW s \in Ends, PicksLink(s) PROVE CalmStep(s)
  <1>1. /\ TransferTypeOK /\ WireTyped /\ CoTyped /\ co[s] \in Coordinators
        /\ home[s].mark \in Nat /\ UNCHANGED <<home, idy>>
    BY TypeFacts DEF Base, Homes, PicksLink, Privately
  <1>2. PICK x : x = [co[s].pick.link EXCEPT !.link = home[s].mark] OBVIOUS
  <1>3. x \in Selections BY <1>1, <1>2, PickTyped DEF PicksLink
  <1>4. CASE /\ Becomes(s, [Done(co[s]) EXCEPT !.sel = x])
             /\ Sends(s, [kind |-> "link", sel |-> x])
    <2>1. PICK c : c = [Done(co[s]) EXCEPT !.sel = x] OBVIOUS
    <2>2. Keeps(co[s], c) /\ c.pick.at = "idle"
      BY <1>1, <1>3, <2>1, SelectedFacts DEF Keeps
    <2>3. Calm(s) BY <1>1, <1>4, <2>1, <2>2, CalmSet DEF Becomes
    <2>4. PICK m : m = [kind |-> "link", sel |-> x] OBVIOUS
    <2>5. m \in Messages /\ m.kind \notin {"state", "chosen"} /\ Sends(s, m)
      BY <1>3, <1>4, <2>4, MessagesMade
    <2>6. Hushed(s) BY <1>1, <2>5, HushedForms
    <2> QED BY <1>1, <2>3, <2>6 DEF CalmStep, SameMark
  <1>5. CASE UNCHANGED wire /\ \E c \in {Done(co[s]), Selecting(s, Done(co[s]))} : Becomes(s, c)
    <2>1. PICK c \in {Done(co[s]), Selecting(s, Done(co[s]))} : Becomes(s, c)
      BY <1>5
    <2>2. Keeps(co[s], c) /\ c.pick.at # "adopt"
      BY <1>1, <2>1, DoneFacts, SelectingFacts DEF Keeps
    <2>3. Calm(s) BY <1>1, <2>1, <2>2, CalmSet DEF Becomes
    <2>4. Hushed(s) BY <1>1, <1>5, HushedForms
    <2> QED BY <1>1, <2>3, <2>4 DEF CalmStep, SameMark
  <1> QED BY <1>2, <1>4, <1>5 DEF PicksLink

(* The selected link arrives. *)
LEMMA GetsLinkCalm ==
    ASSUME Base, NEW s \in Ends, GetsLink(s) PROVE CalmStep(s)
  <1>1. /\ TransferTypeOK /\ WireTyped /\ CoTyped /\ co[s] \in Coordinators
        /\ UNCHANGED <<home, idy>> /\ wire[s] # <<>>
    BY TypeFacts DEF Base, GetsLink, Privately, Gets
  <1>2. CASE FailsAt(s) BY <1>1, <1>2, FailsCalm DEF CalmStep, SameMark
  <1>3. CASE ~FailsAt(s)
    <2>1. PICK k : k = [at |-> "pick", cur |-> TRUE, link |-> Msg(s).sel]
      OBVIOUS
    <2>2. PICK c : c = IF co[s].sel = Msg(s).sel THEN co[s] ELSE [co[s] EXCEPT !.pick = k]
      OBVIOUS
    <2>3. Becomes(s, c) /\ Takes(s) BY <1>3, <2>1, <2>2, Zenon DEF GetsLink
    <2>4. Keeps(co[s], c) /\ (c.pick = co[s].pick \/ c.pick.at = "pick")
      BY <1>1, <2>1, <2>2 DEF Coordinators, Keeps
    <2>5. Calm(s) /\ Hushed(s)
      BY <1>1, <2>3, <2>4, CalmSet, HushedForms DEF Becomes
    <2> QED BY <1>1, <2>5 DEF CalmStep, SameMark
  <1> QED BY <1>2, <1>3

(* The extension adopts the link it was told. *)
LEMMA AdoptsLinkCalm ==
    ASSUME Base, NoAdopt, NEW s \in Ends, AdoptsLink(s) PROVE CalmStep(s)
  <1>1. /\ TransferTypeOK /\ WireTyped /\ CoTyped /\ co[s] \in Coordinators
        /\ UNCHANGED idy /\ co[s].pick.at = "adopt" /\ s # "web"
        /\ home \in [Ends -> Homes]
    BY TypeFacts DEF Base, AdoptsLink, NoAdopt
  <1>2. CASE FailsAt(s) /\ UNCHANGED home
    BY <1>1, <1>2, FailsCalm DEF CalmStep, SameMark
  <1>3. CASE Becomes(s, Done(co[s])) /\ UNCHANGED <<home, wire>>
    BY <1>1, DoneFacts, <1>3, CalmSet, HushedForms DEF Keeps, Becomes, CalmStep, SameMark
  <1>4. CASE /\ Becomes(s, [Done(co[s]) EXCEPT !.sel = co[s].pick.link])
             /\ home' = [home EXCEPT ![s].mark = co[s].pick.link.link, ![s].used = TRUE]
             /\ Sends(s, [kind |-> "link", sel |-> co[s].pick.link])
    <2>0. co[s].pick.link \in Selections BY <1>1, PickTyped
    <2>1. PICK c : c = [Done(co[s]) EXCEPT !.sel = co[s].pick.link] OBVIOUS
    <2>2. Keeps(co[s], c) BY <1>1, <2>0, <2>1, SelectedFacts DEF Keeps
    <2>3. Calm(s) BY <1>1, <1>4, <2>1, <2>2, CalmSet DEF Becomes
    <2>4. PICK m : m = [kind |-> "link", sel |-> co[s].pick.link] OBVIOUS
    <2>5. m \in Messages /\ m.kind \notin {"state", "chosen"} /\ Sends(s, m)
      BY <1>4, <2>0, <2>4, MessagesMade
    <2>6. Hushed(s) BY <1>1, <2>5, HushedForms
    <2>7. SameMark
      <3>1. PICK h : h = [home[s] EXCEPT !.mark = co[s].pick.link.link, !.used = TRUE]
        OBVIOUS
      <3>2. home' = [home EXCEPT ![s] = h] /\ "web" \in Ends
        BY <1>1, <1>4, <3>1 DEF Ends
      <3> QED BY <1>1, <3>2 DEF SameMark
    <2> QED BY <1>1, <2>3, <2>6, <2>7 DEF CalmStep
  <1> QED BY <1>2, <1>3, <1>4, Zenon DEF AdoptsLink

(* The attempt that is cancelled, the route that goes. *)
LEMMA CancelsCalm ==
    ASSUME Base, NEW s \in Ends,
           \/ GetsCancel(s) \/ TimesOut(s) \/ SeesRouteGone(s) \/ RouteBreaks(s)
    PROVE  CalmStep(s)
  BY TypeFacts, FailsCalm, AbortsCalm, HushedForms, SameCalm DEF Base, GetsCancel, TimesOut,
     SeesRouteGone, RouteBreaks, Privately, CalmStep, SameMark, Gets

(* A changed preference makes an end forget what it said. *)
LEMMA CancelsPendingCalm ==
    ASSUME Base, NEW s \in Ends, CancelsPending(s) PROVE CalmStep(s)
  <1>1. /\ TransferTypeOK /\ WireTyped /\ CoTyped /\ co[s] \in Coordinators
        /\ UNCHANGED <<home, idy, wire>>
    BY TypeFacts DEF Base, CancelsPending
  <1>2. PICK r : r = Renewed(co[s]) OBVIOUS
  <1>3. PICK c : c = [r EXCEPT !.again = TRUE, !.own = Nobody] OBVIOUS
  <1>4. /\ r \in Coordinators /\ r.up = co[s].up /\ r.ids = co[s].ids /\ r.peer = co[s].peer
        /\ r.ref = co[s].ref /\ r.pick.at = co[s].pick.at
    BY <1>1, <1>2, RenewedFacts
  <1>5. Keeps(co[s], c) /\ c.pick.at = co[s].pick.at
    BY <1>3, <1>4 DEF Coordinators, Keeps
  <1>6. co' = [co EXCEPT ![s] = c] BY <1>2, <1>3 DEF CancelsPending, Becomes
  <1>7. Calm(s) /\ Hushed(s) BY <1>1, <1>5, <1>6, CalmSet, HushedForms
  <1> QED BY <1>1, <1>7 DEF CalmStep, SameMark

(* What the users do says nothing either, until it is read. *)
LEMMA LivesCalm ==
    ASSUME Base, NEW s \in Ends, Lives(s) PROVE CalmStep(s)
  <1>1. CASE CancelsPending(s) \/ RouteBreaks(s)
    BY <1>1, CancelsPendingCalm, CancelsCalm
  <1>2. ASSUME UserStep(s) PROVE CalmStep(s)
    BY <1>2, TypeFacts, ChangedFacts, HushedForms DEF Base, UserStep, Advertised, Keeps, HomeOnly,
       SameMark, Ends, Far, CalmStep, Calm
  <1>3. ASSUME NEW p \in People, EndsManual(s, p) PROVE CalmStep(s)
    BY <1>2, <1>3, EndsManualSteps
  <1>4. CASE \/ StartsManual(s) \/ FailsManual(s) \/ AutoLocks(s) \/ Locks(s) \/ LogsOut(s)
             \/ DeliversClosing(s) \/ MonitorLocks(s) \/ Notifies(s)
    BY <1>2, <1>4, StartsManualSteps, FailsManualSteps, AutoLocksSteps, LocksSteps, LogsOutSteps,
       DeliversClosingSteps, NotifiesSteps, Zenon
  <1> QED BY <1>1, <1>3, <1>4, Zenon DEF Lives

(* Nor do the transactions. *)
LEMMA SealMark ==
    ASSUME TransferTypeOK, NEW s \in Ends, NEW k, home' = [home EXCEPT ![s].sealed = k]
    PROVE  SameMark
  <1>1. PICK h : h = [home[s] EXCEPT !.sealed = k] OBVIOUS
  <1>2. h.mark = home[s].mark BY <1>1, TypeFacts DEF Homes
  <1>3. home' = [home EXCEPT ![s] = h] /\ "web" \in Ends BY <1>1 DEF Ends
  <1> QED BY <1>2, <1>3, TypeFacts DEF SameMark

(* A session put back leaves the link. *)
LEMMA PutBackMark ==
    ASSUME TransferTypeOK, NEW n \in Tries, tx[n] # Nobody, home' = PutBack(n)
    PROVE  SameMark
  <1>1. PICK s \in Ends : s = tx[n].side BY TypeFacts DEF Transactions
  <1>2. CASE home[s].sealed # n BY <1>1, <1>2 DEF PutBack, SameMark
  <1>3. CASE home[s].sealed = n
    <2>1. PICK k : k = IF tx[n].cleared THEN 0 ELSE tx[n].prev OBVIOUS
    <2>2. home' = [home EXCEPT ![s].sealed = k]
      BY <1>1, <1>3, <2>1 DEF PutBack
    <2> QED BY <2>2, SealMark
  <1> QED BY <1>2, <1>3

(* The steps of a transaction say nothing of a state. *)
LEMMA InstallsCalm ==
    ASSUME Base, NEW n \in Tries, Installs(n) PROVE \E s \in Ends : CalmStep(s)
  <1>1. TransferTypeOK /\ WireTyped /\ \A s \in Ends : co[s] \in Coordinators
    BY TypeFacts DEF Base
  <1>2. CASE Serves(n)
    <2>1. tx[n] # Nobody
      BY <1>2 DEF Serves, Issues, Commits, Stages, Freshens, AnswersLate, LosesAnswer, Tx
    <2>2. PICK s \in Ends : s = tx[n].side
      BY <1>1, <2>1, TypeFacts DEF Transactions
    <2>3. UNCHANGED <<co, wire>>
      BY <1>2 DEF Serves, Issues, Commits, Stages, Freshens, AnswersLate, LosesAnswer, Working
    <2>4. Calm(s) /\ Hushed(s) BY <1>1, <2>3, SameCalm, HushedForms
    <2>5. SameMark
      BY <1>1, <2>2, SealMark, <1>2 DEF SameMark, Stages, Serves, Issues, Commits, Freshens,
         AnswersLate, LosesAnswer
    <2>6. idy'.tries = idy.tries
      BY <1>1, <1>2 DEF TransferTypeOK, AnswersLate, Serves, Issues, Commits, Stages, Freshens,
         LosesAnswer
    <2> QED BY <2>4, <2>5, <2>6 DEF CalmStep
  <1>3. ASSUME NEW s \in Ends, NEW step \in {"late", "over"}, Closes(n, s, step), home' = PutBack(n)
        PROVE  \E e \in Ends : CalmStep(e)
    <2>1. /\ tx[n] # Nobody /\ co'[Far(s)] = co[Far(s)]
          /\ co'[s] \in {co[s], Cancelled(co[s]), Down(co[s])}
      BY <1>3 DEF Closes
    <2>2. Keeps(co[s], co'[s]) /\ (co'[s].pick = co[s].pick \/ co'[s].pick.at = "idle")
      BY <1>1, <2>1, CancelledFacts, DownFacts DEF Keeps
    <2>3. Calm(s) BY <2>1, <2>2 DEF Calm
    <2>4. Hushed(s)
      <3>1. PICK M : Routed(s, M) /\ \A m \in M : m.kind \in {"ack", "cancel"}
        BY <1>3 DEF Closes
      <3> QED BY <3>1 DEF Hushed
    <2>5. SameMark BY <1>1, <1>3, <2>1, PutBackMark
    <2>6. idy'.tries = idy.tries BY <1>3 DEF Closes, IssueGoes
    <2> QED BY <2>3, <2>4, <2>5, <2>6 DEF CalmStep
  <1>4. CASE RollsBack(n)
    <2>1. PICK s \in Ends, step \in {"late", "over"} : Closes(n, s, step)
      BY <1>4, RollsBackCloses
    <2>2. home' = PutBack(n) BY <1>4 DEF RollsBack
    <2> QED BY <1>3, <2>1, <2>2
  <1>5. CASE Refuses(n)
    <2>1. PICK s \in Ends : Closes(n, s, "over") BY <1>5, RefusesCloses
    <2>2. home' = PutBack(n) BY <1>5 DEF Refuses
    <2> QED BY <1>3, <2>1, <2>2
  <1>6. CASE Publishes(n)
    <2>1. PICK s \in Ends : Published(n, s)
      BY <1>1, <1>6, PublishesPublished, TypeFacts DEF Published, Transactions
    <2>2. Calm(s) BY <2>1 DEF Published, Calm, Keeps
    <2>3. Hushed(s)
      <3>1. PICK m \in Messages : m.kind = "ack" /\ Routed(s, {m})
        BY <2>1 DEF Published
      <3> QED BY <3>1 DEF Hushed
    <2>4. SameMark
      <3>1. s = tx[n].side BY <2>1 DEF Published
      <3>2. PICK h : h = [home[s] EXCEPT
               !.acct = tx[n].acct, !.status = "unlocked", !.root = tx[n].root,
               !.receipt = [acct |-> tx[n].acct, seq |-> tx[n].root]]
        OBVIOUS
      <3>3. home' = [home EXCEPT ![s] = h] /\ "web" \in Ends
        BY <1>6, <3>1, <3>2 DEF Publishes, Ends
      <3>4. h.mark = home[s].mark BY <1>1, <3>2, TypeFacts DEF Homes
      <3> QED BY <1>1, <3>3, <3>4, TypeFacts DEF SameMark
    <2>5. idy'.tries = idy.tries BY <2>1 DEF Published, IssueGoes
    <2> QED BY <2>2, <2>3, <2>4, <2>5 DEF CalmStep
  <1> QED BY <1>2, <1>4, <1>5, <1>6, Zenon DEF Installs, Serves

-----------------------------------------------------------------------------
(* What an end has said: st[s][k] is the state of s with the id k.  What the *)
(* other end knows, what is on its way to it and what s is about to say      *)
(* follow each other in that order.                                          *)
Says(s) == co[s].ref = "send" /\ co[s].own # Nobody
OwnSaid(st, s) ==
    co[s].own # Nobody => /\ co[s].own.id \in 1 .. co[s].ids
                          /\ co[s].own = st[s][co[s].own.id]
PeerSaid(st, s) ==
    LET p == co[Far(s)].peer IN
    p # Nobody => /\ p.id \in 1 .. co[s].ids /\ p = st[s][p.id]
                  /\ Says(s) => p.id < co[s].own.id
WireSaid(st, s) ==
    LET f == Far(s) IN
    \A i \in On(f, "state") :
      LET x == wire[f][i].state IN
      /\ x.id \in 1 .. co[s].ids /\ x = st[s][x.id]
      /\ Says(s) => x.id < co[s].own.id
      /\ co[f].peer # Nobody => co[f].peer.id < x.id
      /\ \A j \in On(f, "state") : i < j => x.id < wire[f][j].state.id
Said(st, s) == OwnSaid(st, s) /\ PeerSaid(st, s) /\ WireSaid(st, s)

(* Each selection that was tried is the pair of two states that were said,   *)
(* under the web application's link; the end that tried it remembers it for  *)
(* as long as both are current, and once one is not, it is not again.        *)
IdOf(e, t) == IF e = "web" THEN t.web ELSE t.ext
PairAt(st, t) == PairFor([web |-> st["web"][t.web], ext |-> st["ext"][t.ext]])
Meant(st, s, t) ==
    /\ \A e \in Ends : IdOf(e, t) \in 1 .. co[e].ids
    /\ PairAt(st, t) # Nobody /\ PairAt(st, t).from = s
    /\ t = Selection(PairAt(st, t), home["web"].mark)
Passed(s, t) ==
    LET f == Far(s) IN
    /\ \A k \in On(s, "state") : IdOf(f, t) < wire[s][k].state.id
    /\ co[s].peer # Nobody => IdOf(f, t) <= co[s].peer.id
    /\ Says(f) => IdOf(f, t) < co[f].own.id
Remembered(s, t) ==
    LET f == Far(s) IN
    /\ co[s].up /\ co[s].own # Nobody /\ co[s].peer # Nobody
    /\ co[s].own.id = IdOf(s, t) /\ co[s].peer.id = IdOf(f, t)
    => co[s].tried = t
Told(st, src) ==
    /\ ChosenOK /\ OneTransferPerSelection
    /\ \A s \in Ends : Said(st, s)
    /\ \A i \in 1 .. Ntry : \A t \in Selections : t = idy.tries[i] =>
         Meant(st, src[i], t) /\ Passed(src[i], t) /\ Remembered(src[i], t)

(* Each attempt has its number. *)
LEMMA TriesIndexed ==
    ASSUME Base
    PROVE  Ntry \in Nat /\ \A i \in 1 .. Ntry : i \in Tries /\ idy.tries[i] \in Selections
  BY TransferAssumption DEF Base, TransferTypeOK, Ntry, Tries

(* A step that tries nothing new, from what it does to what was said.        *)
LEMMA ToldFrom ==
    ASSUME Base, NEW st, NEW z, NEW src \in [Tries -> Ends], Told(st, src),
           idy'.tries = idy.tries, ChosenOK', \A e \in Ends : Said(z, e)',
           \A e \in Ends : \A t \in Selections :
              Meant(st, e, t) /\ Passed(e, t) /\ Remembered(e, t)
                => Meant(z, e, t)' /\ Passed(e, t)' /\ Remembered(e, t)'
    PROVE  Told(z, src)'
  <1>1. Ntry' = Ntry /\ OneTransferPerSelection'
    BY DEF Told, Ntry, OneTransferPerSelection
  <1>2. ASSUME NEW i \in (1 .. Ntry)', NEW t \in Selections, t = idy'.tries[i]
        PROVE  Meant(z, src[i], t)' /\ Passed(src[i], t)' /\ Remembered(src[i], t)'
    <2>1. i \in 1 .. Ntry /\ t = idy.tries[i] BY <1>1, <1>2
    <2>2. PICK e \in Ends : e = src[i] BY <2>1, TriesIndexed
    <2>3. Meant(st, e, t) /\ Passed(e, t) /\ Remembered(e, t)
      BY <2>1, <2>2 DEF Told
    <2>4. Meant(z, e, t)' /\ Passed(e, t)' /\ Remembered(e, t)' BY <2>3
    <2> QED BY <2>2, <2>4
  <1> QED BY <1>1, <1>2 DEF Told

(* What was said stays so when nothing is said anew, but for what is         *)
(* forgotten.                                                                *)
Forgets(c, d) ==
    /\ d.ids = c.ids /\ d.peer = c.peer
    /\ d.own \in {c.own, Nobody} /\ d.ref \in {c.ref, "idle"}

(* Such a step keeps the order of what was said. *)
LEMMA SaidStays ==
    ASSUME NEW st, \A e \in Ends : Said(st, e) /\ Forgets(co[e], co'[e]),
           NEW s \in Ends, NEW M, Routed(s, M), \A m \in M : m.kind # "state"
    PROVE  /\ \A e \in Ends : Said(st, e)'
           /\ \A e \in Ends : \A t \in Selections :
                /\ SameMark /\ Meant(st, e, t) => Meant(st, e, t)'
                /\ Passed(e, t) => Passed(e, t)'
  <1>0. \A e \in Ends : Far(e) \in Ends /\ Far(e) # e BY FarEnd
  <1>1. ASSUME NEW e \in Ends
        PROVE  \E k \in {0, 1} : \A i \in On(e, "state")' :
                  i + k \in On(e, "state") /\ wire'[e][i] = wire[e][i + k]
    <2>1. PICK L : Carried(e, L) /\ \A m \in L : m \in M BY FarEnd DEF Routed
    <2> QED BY <2>1, CarriedOld
  <1>2. ASSUME NEW e \in Ends
        PROVE  /\ co'[e].ids = co[e].ids /\ co'[e].peer = co[e].peer
               /\ co'[e].own \in {co[e].own, Nobody}
               /\ Says(e)' => Says(e) /\ co'[e].own = co[e].own
    BY DEF Forgets, Says
  <1>3. ASSUME NEW e \in Ends PROVE Said(st, e)'
    <2>1. Said(st, e) /\ Far(e) \in Ends BY <1>0
    <2>2. OwnSaid(st, e)' BY <1>2, <2>1 DEF Said, OwnSaid
    <2>3. PeerSaid(st, e)' BY <1>2, <2>1 DEF Said, PeerSaid
    <2>4. PICK k \in {0, 1} : \A i \in On(Far(e), "state")' :
              i + k \in On(Far(e), "state") /\ wire'[Far(e)][i] = wire[Far(e)][i + k]
      BY <1>1, <2>1
    <2>5. ASSUME NEW i \in On(Far(e), "state")', NEW j \in On(Far(e), "state")', i < j
          PROVE  i + k < j + k
      BY <2>5 DEF On
    <2>6. WireSaid(st, e)' BY <1>2, <2>1, <2>4, <2>5 DEF Said, WireSaid
    <2> QED BY <2>2, <2>3, <2>6 DEF Said
  <1>4. ASSUME NEW e \in Ends, NEW t \in Selections
        PROVE  /\ SameMark /\ Meant(st, e, t) => Meant(st, e, t)'
               /\ Passed(e, t) => Passed(e, t)'
    BY <1>2, <1>0, <1>1 DEF Meant, SameMark, Passed
  <1> QED BY <1>3, <1>4

(* A step at which nothing is said. *)
LEMMA ToldCalm ==
    ASSUME Base, NEW st, NEW src \in [Tries -> Ends], Told(st, src),
           \A e \in Ends : Keeps(co[e], co'[e]), NEW s \in Ends, NEW M, Routed(s, M),
           \A m \in M : m.kind # "state", idy'.tries = idy.tries, SameMark, ChosenOK'
    PROVE  Told(st, src)'
  <1>1. \A e \in Ends : Said(st, e) /\ Forgets(co[e], co'[e])
    BY DEF Told, Keeps, Forgets
  <1>2. \A e \in Ends : \A t \in Selections : Remembered(e, t) => Remembered(e, t)'
    BY DEF Keeps, Remembered
  <1> QED BY <1>1, <1>2, SaidStays, ToldFrom

(* refresh: an end has a new state to tell. *)
Renews(s) ==
    /\ co'[Far(s)] = co[Far(s)] /\ co'[s].ids = co[s].ids + 1
    /\ co'[s].own \in States /\ co'[s].own.id = co[s].ids + 1
    /\ co'[s].peer = co[s].peer /\ co'[s].pick.at = co[s].pick.at
    /\ UNCHANGED <<wire, home, idy>>

(* A refresh that finds nothing new says nothing. *)
LEMMA RefreshesTalk ==
    ASSUME Base, NEW s \in Ends, Refreshes(s) PROVE CalmStep(s) \/ Renews(s)
  <1>1. /\ TransferTypeOK /\ co[s] \in Coordinators /\ WireTyped /\ CoTyped
        /\ UNCHANGED <<wire, home, idy>> /\ Far(s) # s /\ Far(s) \in Ends
    BY TypeFacts, FarEnd DEF Base, Refreshes, Privately
  <1> DEFINE c == [co[s] EXCEPT !.again = FALSE]
             x == [id |-> c.ids + 1, acct |-> Status(s).acct,
                   status |-> Status(s).status, gen |-> Status(s).gen]
             d == [Renewed(c) EXCEPT !.ref = "send", !.needed = FALSE, !.ids = @ + 1,
                                     !.own = x]
  <1>2. Becomes(s, IF Unchanged(c, Status(s)) THEN c ELSE d)
    BY Zenon DEF Refreshes
  <1>3. /\ c \in Coordinators /\ c.own = co[s].own /\ c.peer = co[s].peer
        /\ c.up = co[s].up /\ c.ids = co[s].ids /\ c.ref = co[s].ref
        /\ c.tried = co[s].tried /\ c.pick = co[s].pick
    BY <1>1 DEF Coordinators
  <1> HIDE DEF c
  <1>4. x \in States /\ x.id = co[s].ids + 1
    BY <1>3, <1>1, StatusTyped DEF Coordinators
  <1> HIDE DEF x
  <1>5. /\ d.own = x /\ d.ids = co[s].ids + 1 /\ d.peer = co[s].peer
        /\ d.pick.at = co[s].pick.at
    <2>1. PICK r : r = Renewed(c) OBVIOUS
    <2>2. /\ r \in Coordinators /\ r.ids = co[s].ids /\ r.peer = co[s].peer
          /\ r.pick.at = co[s].pick.at
      BY <1>3, <2>1, RenewedFacts
    <2>3. PICK e : e = [r EXCEPT !.ref = "send", !.needed = FALSE, !.ids = @ + 1, !.own = x]
      OBVIOUS
    <2>4. e.own = x /\ e.ids = r.ids + 1 /\ e.peer = r.peer /\ e.pick = r.pick
      BY <2>2, <2>3 DEF Coordinators
    <2>5. d = e BY <2>1, <2>3
    <2> QED BY <2>2, <2>4, <2>5
  <1> HIDE DEF d
  <1>6. CASE Becomes(s, c)
    BY <1>3, <1>1, <1>6, CalmSet, HushedForms DEF Keeps, Becomes, CalmStep, SameMark
  <1>7. CASE Becomes(s, d)
    BY <1>1, <1>7, <1>4, <1>5 DEF Becomes, CoTyped, Renews
  <1> QED BY <1>2, <1>6, <1>7

(* What an end tells is its state of the moment. *)
Utters(s) ==
    /\ co'[Far(s)] = co[Far(s)] /\ Keeps(co[s], co'[s]) /\ Says(s)
    /\ co'[s].own = co[s].own /\ co'[s].ref = "idle"
    /\ co'[s].pick.at = "adopt" => co[s].pick.at = "adopt"
    /\ UNCHANGED <<home, idy>>
    /\ \E m \in Messages : m.kind = "state" /\ m.state = co[s].own /\ Routed(s, {m})

(* TellsState tells the state of the moment, or the route fails. *)
LEMMA TellsStateTalk ==
    ASSUME Base, NEW s \in Ends, TellsState(s) PROVE CalmStep(s) \/ Utters(s)
  <1>1. /\ TransferTypeOK /\ co[s] \in Coordinators /\ WireTyped /\ CoTyped
        /\ UNCHANGED <<home, idy>> /\ Far(s) # s /\ Far(s) \in Ends
    BY TypeFacts, FarEnd DEF Base, TellsState, Privately
  <1>2. CASE FailsAt(s) BY <1>1, <1>2, FailsCalm DEF CalmStep, SameMark
  <1>3. CASE co[s].own # Nobody
    <2>1. PICK b : b = [co[s] EXCEPT !.ref = "idle"] OBVIOUS
    <2>2. /\ b \in Coordinators /\ b.own = co[s].own /\ b.peer = co[s].peer /\ b.up = co[s].up
          /\ b.ids = co[s].ids /\ b.tried = co[s].tried /\ b.pick = co[s].pick /\ b.ref = "idle"
      BY <1>1, <2>1 DEF Coordinators
    <2>3. PICK c : c = Selecting(s, b) OBVIOUS
    <2>4. /\ Keeps(co[s], c) /\ c.own = co[s].own /\ c.ref = "idle"
          /\ c.pick.at = "adopt" => co[s].pick.at = "adopt"
      BY <2>2, <2>3, SelectingFacts DEF Keeps
    <2>5. PICK m : m = [kind |-> "state", state |-> co[s].own] OBVIOUS
    <2>6. m \in Messages /\ m.kind = "state" /\ m.state = co[s].own
      BY <1>1, <1>3, <2>5, MessagesMade DEF Coordinators
    <2>7. Routed(s, {m}) BY <1>1, <1>3, <2>5, <2>6, SendsRouted DEF TellsState
    <2>8. co'[s] = c /\ co'[Far(s)] = co[Far(s)]
      BY <1>1, <1>3, <2>1, <2>3 DEF TellsState, Becomes, CoTyped
    <2>9. Says(s) BY <1>3 DEF TellsState, Says
    <2> QED BY <1>1, <2>4, <2>6, <2>7, <2>8, <2>9 DEF Utters
  <1> QED BY <1>2, <1>3 DEF TellsState

(* What an end hears is the first of the states on their way to it.          *)
Learns(s) ==
    /\ co'[Far(s)] = co[Far(s)] /\ 1 \in On(s, "state") /\ co'[s].peer = wire[s][1].state
    /\ co'[s].own = co[s].own /\ co'[s].ids = co[s].ids /\ co'[s].ref = co[s].ref
    /\ co'[s].pick.at = "adopt" => co[s].pick.at = "adopt"
    /\ wire' = [wire EXCEPT ![s] = Tail(wire[s])]
    /\ UNCHANGED <<home, idy>>

(* GetsState takes the state that comes first. *)
LEMMA GetsStateTalk ==
    ASSUME Base, NEW s \in Ends, GetsState(s) PROVE Learns(s)
  <1>1. /\ TransferTypeOK /\ co[s] \in Coordinators /\ WireTyped /\ CoTyped
        /\ UNCHANGED <<home, idy>> /\ Far(s) # s /\ Far(s) \in Ends
    BY TypeFacts, FarEnd DEF Base, GetsState, Privately
  <1>2. /\ wire[s] # <<>> /\ Msg(s).state \in States /\ Msg(s) = wire[s][1] /\ 1 \in On(s, "state")
    BY MessageTaken, MessageParts DEF GetsState
  <1>3. PICK r : r = Renewed(co[s]) OBVIOUS
  <1>4. /\ r \in Coordinators /\ r.own = co[s].own /\ r.ids = co[s].ids /\ r.ref = co[s].ref
        /\ r.pick.at = co[s].pick.at
    BY <1>1, <1>3, RenewedFacts
  <1>5. PICK b : b = [r EXCEPT !.peer = Msg(s).state] OBVIOUS
  <1>6. /\ b \in Coordinators /\ b.own = r.own /\ b.ids = r.ids /\ b.ref = r.ref /\ b.pick = r.pick
        /\ b.peer = Msg(s).state
    BY <1>2, <1>4, <1>5 DEF Coordinators
  <1>7. PICK c : c = Selecting(s, b) OBVIOUS
  <1>8. /\ c.own = b.own /\ c.ids = b.ids /\ c.ref = b.ref /\ c.peer = b.peer
        /\ c.pick.at = "adopt" => b.pick.at = "adopt"
    BY <1>6, <1>7, SelectingFacts
  <1>9. co'[s] = c /\ co'[Far(s)] = co[Far(s)]
    BY <1>1, <1>3, <1>5, <1>7 DEF GetsState, Becomes, CoTyped
  <1>10. wire' = [wire EXCEPT ![s] = Tail(wire[s])] BY DEF GetsState, Takes
  <1> QED BY <1>1, <1>2, <1>4, <1>6, <1>8, <1>9, <1>10 DEF Learns

(* A new state has an id of its own, greater than every one before it.       *)
LEMMA ToldRenews ==
    ASSUME Base, NEW st \in [Ends -> [Nat -> States]], NEW src \in [Tries -> Ends],
           Told(st, src), NEW s \in Ends, Renews(s)
    PROVE  \E z \in [Ends -> [Nat -> States]] : Told(z, src)'
  <1> DEFINE k == co[s].ids + 1
  <1>1. PICK z : z = [st EXCEPT ![s] = [st[s] EXCEPT ![k] = co'[s].own]]
    OBVIOUS
  <1>2. /\ TransferTypeOK /\ WireTyped /\ \A e \in Ends : co[e].ids \in Nat
        /\ Far(s) \in Ends /\ Far(s) # s /\ Far(Far(s)) = s /\ Ends = {s, Far(s)}
    BY TypeFacts, FarEnd DEF Base, Coordinators
  <1>3. /\ co'[s].own \in States /\ co'[s].own.id = k /\ co'[s].ids = k
        /\ co'[Far(s)] = co[Far(s)] /\ co'[s].peer = co[s].peer
        /\ UNCHANGED <<wire, home, idy>>
    BY DEF Renews
  <1>4. /\ z \in [Ends -> [Nat -> States]] /\ z[s][k] = co'[s].own
        /\ \A e \in Ends : \A i \in 1 .. co[e].ids : z[e][i] = st[e][i]
    BY <1>1, <1>2, <1>3
  <1>5. \A e \in Ends : 1 .. co[e].ids \subseteq 1 .. co'[e].ids BY <1>2, <1>3
  <1>6. ChosenOK'
    BY <1>2, <1>3, SameRouted, ChosenKept DEF SameMark, Told, ChosenOK, NoAdopt, Renews, Ends
  <1>7. Said(st, s) /\ Said(st, Far(s)) BY <1>2 DEF Told
  <1>8. Said(z, s)'
    <2>1. OwnSaid(z, s)' BY <1>2, <1>3, <1>4 DEF OwnSaid
    <2>2. PeerSaid(z, s)' BY <1>2, <1>3, <1>4, <1>5, <1>7 DEF Said, PeerSaid
    <2>3. WireSaid(z, s)'
      <3>1. On(Far(s), "state")' = On(Far(s), "state") BY <1>3 DEF On
      <3> QED BY <1>2, <1>3, <1>4, <1>5, <1>7, <3>1 DEF Said, WireSaid
    <2> QED BY <2>1, <2>2, <2>3 DEF Said
  <1>9. Said(z, Far(s))'
    <2>1. PICK f \in Ends : f = Far(s) /\ Far(f) = s /\ co'[f] = co[f] /\ Said(st, f)
      BY <1>2, <1>3, <1>7
    <2>2. Says(f)' = Says(f) BY <2>1 DEF Says
    <2>3. OwnSaid(z, f)' BY <1>4, <2>1 DEF Said, OwnSaid
    <2>4. PeerSaid(z, f)' BY <1>3, <1>4, <2>1, <2>2 DEF Said, PeerSaid
    <2>5. WireSaid(z, f)' BY <1>3, <1>4, <2>1, <2>2 DEF On, Said, WireSaid
    <2> QED BY <2>1, <2>3, <2>4, <2>5 DEF Said
  <1>10. ASSUME NEW e \in Ends, NEW t \in Selections,
                Meant(st, e, t), Passed(e, t), Remembered(e, t)
         PROVE  Meant(z, e, t)' /\ Passed(e, t)' /\ Remembered(e, t)'
    <2>1. \A d \in Ends : IdOf(d, t) \in 1 .. co[d].ids BY <1>10 DEF Meant
    <2>2. Meant(z, e, t)'
      BY <2>1, <1>4, <1>3, <1>5, <1>10 DEF IdOf, Ends, PairAt, Meant
    <2>3. Passed(e, t)' BY <1>2, <1>3, <1>10, <2>1 DEF On, Passed, Says
    <2>4. Remembered(e, t)' BY <1>2, <1>3, <2>1, <1>10 DEF Remembered
    <2> QED BY <2>2, <2>3, <2>4
  <1>11. idy'.tries = idy.tries BY <1>3
  <1>12. \A e \in Ends : Said(z, e)' BY <1>2, <1>8, <1>9
  <1>13. Told(z, src)' BY <1>6, <1>10, <1>11, <1>12, ToldFrom
  <1> QED BY <1>4, <1>13

(* What an end tells comes after all that it told before.                    *)
LEMMA ToldUtters ==
    ASSUME Base, NEW st, NEW src \in [Tries -> Ends],
           Told(st, src), NEW s \in Ends, Utters(s)
    PROVE  Told(st, src)'
  <1>1. PICK m \in Messages : m.kind = "state" /\ m.state = co[s].own /\ Routed(s, {m})
    BY DEF Utters
  <1>2. PICK f \in Ends : f = Far(s) /\ Far(f) = s /\ f # s /\ Ends = {s, f} /\ co'[f] = co[f]
    BY FarEnd DEF Utters
  <1>3. /\ co'[s].own = co[s].own /\ co'[s].peer = co[s].peer /\ co'[s].ids = co[s].ids
        /\ ~Says(s)' /\ Says(s) /\ (co'[s].up => co[s].up)
        /\ co'[s].up /\ co'[s].own # Nobody => co'[s].tried = co[s].tried
        /\ UNCHANGED <<home, idy>> /\ (Says(f)' = Says(f))
    BY <1>2 DEF Utters, Keeps, Says
  <1>4. PICK k \in {0, 1} : \A i \in On(f, "state")' :
           \/ i + k \in On(f, "state") /\ wire'[f][i] = wire[f][i + k]
           \/ i + k = Len(wire[f]) + 1 /\ wire'[f][i].state = co[s].own
    <2>1. Carried(f, {m}) BY <1>1, <1>2 DEF Routed, Carried
    <2>2. PICK k \in {0, 1} : \A i \in 1 .. Len(wire'[f]) :
             \/ i + k <= Len(wire[f]) /\ wire'[f][i] = wire[f][i + k]
             \/ i + k = Len(wire[f]) + 1 /\ wire'[f][i] \in {m}
      BY <2>1 DEF Carried
    <2>3. ASSUME NEW i \in On(f, "state")'
          PROVE  \/ i + k \in On(f, "state") /\ wire'[f][i] = wire[f][i + k]
                 \/ i + k = Len(wire[f]) + 1 /\ wire'[f][i].state = co[s].own
      BY <1>1, <2>2 DEF On
    <2> QED BY <2>3
  <1>5. PICK l \in {0, 1} : \A i \in On(s, "state")' :
           i + l \in On(s, "state") /\ wire'[s][i] = wire[s][i + l]
    BY <1>1, CarriedOld DEF Routed
  <1>6. ChosenOK'
    BY <1>2, <1>1, <1>3, ChosenKept DEF Told, ChosenOK, NoAdopt, Utters, Ends, SameMark
  <1>7. Said(st, s) /\ Said(st, f) BY DEF Told
  <1>8. OwnSaid(st, s)' /\ PeerSaid(st, s)'
    BY <1>2, <1>3, <1>7 DEF Said, OwnSaid, PeerSaid
  <1>9. WireSaid(st, s)'
    <2>1. ASSUME NEW i \in On(f, "state")'
          PROVE  LET x == wire'[f][i].state IN
                 /\ x.id \in 1 .. co'[s].ids /\ x = st[s][x.id]
                 /\ co'[f].peer # Nobody => co'[f].peer.id < x.id
      <3>1. CASE i + k \in On(f, "state") /\ wire'[f][i] = wire[f][i + k]
        BY <1>2, <1>3, <1>7, <3>1 DEF Said, WireSaid
      <3>2. CASE wire'[f][i].state = co[s].own
        BY <1>2, <1>3, <1>7, <3>2 DEF Said, OwnSaid, PeerSaid, Says
      <3> QED BY <1>4, <3>1, <3>2
    <2>2. ASSUME NEW i \in On(f, "state")', NEW j \in On(f, "state")', i < j
          PROVE  wire'[f][i].state.id < wire'[f][j].state.id
      <3>0. Len(wire[f]) \in Nat BY TypeFacts DEF Base, WireTyped
      <3>1. i + k < j + k /\ j + k <= Len(wire[f]) + 1 /\ i + k # Len(wire[f]) + 1
        BY <1>4, <2>2, <3>0 DEF On
      <3>2. i + k \in On(f, "state") /\ wire'[f][i] = wire[f][i + k]
        BY <1>4, <3>1
      <3>3. CASE j + k \in On(f, "state") /\ wire'[f][j] = wire[f][j + k]
        BY <1>2, <1>7, <3>1, <3>2, <3>3 DEF Said, WireSaid
      <3>4. CASE wire'[f][j].state = co[s].own
        BY <1>2, <1>3, <1>7, <3>2, <3>4 DEF Said, WireSaid
      <3> QED BY <1>4, <3>3, <3>4
    <2> QED BY <1>2, <1>3, <2>1, <2>2 DEF WireSaid
  <1>10. Said(st, f)'
    <2>1. OwnSaid(st, f)' /\ PeerSaid(st, f)'
      BY <1>2, <1>3, <1>7 DEF Said, OwnSaid, PeerSaid
    <2>2. ASSUME NEW i \in On(s, "state")', NEW j \in On(s, "state")', i < j
          PROVE  i + l < j + l
      BY <2>2 DEF On
    <2>3. WireSaid(st, f)' BY <1>2, <1>3, <1>5, <1>7, <2>2 DEF Said, WireSaid
    <2> QED BY <2>1, <2>3 DEF Said
  <1>11. ASSUME NEW e \in Ends, NEW t \in Selections,
                Meant(st, e, t), Passed(e, t), Remembered(e, t)
         PROVE  Meant(st, e, t)' /\ Passed(e, t)' /\ Remembered(e, t)'
    <2>1. Meant(st, e, t)' BY <1>2, <1>3, <1>11 DEF Meant
    <2>2. Passed(e, t)' BY <1>2, <1>3, <1>5, <1>11, <1>4 DEF Passed
    <2>3. Remembered(e, t)' BY <1>2, <1>3, <1>11 DEF Remembered
    <2> QED BY <2>1, <2>2, <2>3
  <1>12. \A e \in Ends : Said(st, e)' BY <1>2, <1>8, <1>9, <1>10 DEF Said
  <1>13. idy'.tries = idy.tries BY <1>3
  <1> QED BY <1>6, <1>11, <1>12, <1>13, ToldFrom

(* What an end hears is later than what it knew, and than what was tried.    *)
LEMMA ToldLearns ==
    ASSUME Base, NEW st, NEW src \in [Tries -> Ends],
           Told(st, src), NEW s \in Ends, Learns(s)
    PROVE  Told(st, src)'
  <1>1. PICK f \in Ends : f = Far(s) /\ Far(f) = s /\ f # s /\ Ends = {s, f} /\ co'[f] = co[f]
    BY FarEnd DEF Learns
  <1>2. /\ co'[s].own = co[s].own /\ co'[s].ids = co[s].ids /\ (Says(s)' = Says(s))
        /\ (Says(f)' = Says(f)) /\ co'[s].peer = wire[s][1].state /\ 1 \in On(s, "state")
        /\ UNCHANGED <<home, idy>>
    BY <1>1 DEF Learns, Says
  <1>3. WireTyped BY TypeFacts DEF Base
  <1>4. /\ wire'[f] = wire[f] /\ wire'[s] = Tail(wire[s]) /\ wire[s] \in Seq(Messages)
        /\ wire[s] # <<>>
    BY <1>1, <1>2, <1>3 DEF Learns, WireTyped, On
  <1>5. /\ On(f, "state")' = On(f, "state")
        /\ \A i \in On(s, "state")' :
              /\ i + 1 \in On(s, "state") /\ 1 < i + 1 /\ wire'[s][i] = wire[s][i + 1]
              /\ i \in Nat
    BY <1>4 DEF On
  <1>6. ChosenOK'
    BY <1>3, <1>4, TakesRouted, <1>1, <1>2, ChosenKept DEF Takes, Learns, Told, ChosenOK, NoAdopt,
       Ends, SameMark
  <1>7. Said(st, s) /\ Said(st, f) BY DEF Told
  <1>8. Said(st, s)'
    <2>1. OwnSaid(st, s)' /\ PeerSaid(st, s)'
      BY <1>1, <1>2, <1>7 DEF Said, OwnSaid, PeerSaid
    <2>2. WireSaid(st, s)' BY <1>1, <1>2, <1>4, <1>5, <1>7 DEF Said, WireSaid
    <2> QED BY <2>1, <2>2 DEF Said
  <1>9. Said(st, f)'
    <2>1. OwnSaid(st, f)' /\ PeerSaid(st, f)'
      BY <1>1, <1>2, <1>7 DEF Said, OwnSaid, PeerSaid, WireSaid
    <2>2. ASSUME NEW i \in On(s, "state")', NEW j \in On(s, "state")', i < j
          PROVE  i + 1 < j + 1
      BY <1>5, <2>2
    <2>3. WireSaid(st, f)' BY <1>1, <1>2, <1>5, <1>7, <2>2 DEF Said, WireSaid
    <2> QED BY <2>1, <2>3 DEF Said
  <1>10. ASSUME NEW e \in Ends, NEW t \in Selections,
                Meant(st, e, t), Passed(e, t), Remembered(e, t)
         PROVE  Meant(st, e, t)' /\ Passed(e, t)' /\ Remembered(e, t)'
    <2>1. Meant(st, e, t)' BY <1>1, <1>2, <1>10 DEF Meant
    <2>2. IdOf(Far(e), t) \in Nat BY FarEnd DEF IdOf, Selections
    <2>3. CASE e = s
      <3>1. IdOf(f, t) < wire[s][1].state.id
        BY <1>1, <1>2, <1>10, <2>3 DEF Passed
      <3>2. wire[s][1].state.id \in Nat BY <1>1, <1>2, <1>7 DEF Said, WireSaid
      <3>3. Passed(s, t)'
        BY <1>1, <1>2, <1>5, <1>10, <2>2, <2>3, <3>1, <3>2 DEF Passed
      <3>4. Remembered(s, t)'
        BY <1>1, <1>2, <2>2, <2>3, <3>1, <3>2 DEF Remembered
      <3> QED BY <2>1, <2>3, <3>3, <3>4
    <2>4. CASE e = f
      BY <1>1, <1>2, <1>4, <1>5, <1>10, <2>1, <2>4 DEF Passed, Remembered
    <2> QED BY <1>1, <2>3, <2>4
  <1>11. \A e \in Ends : Said(st, e)' BY <1>1, <1>8, <1>9
  <1>12. idy'.tries = idy.tries BY <1>2
  <1> QED BY <1>6, <1>10, <1>11, <1>12, ToldFrom

(* An attempt begins: a selection of the moment that was not the last.       *)
Opening(s, x) ==
    /\ co[s].up /\ Matches(s, x) /\ PairOf(s).from = s /\ x # co[s].tried
    /\ x \in Selections /\ x.link = home["web"].mark
    /\ Ntry < MaxTries /\ idy'.tries = Append(idy.tries, x)
    /\ co'[Far(s)] = co[Far(s)] /\ Forgets(co[s], co'[s]) /\ co'[s].tried = x
    /\ SameMark /\ ChosenOK'
    /\ \E M : Routed(s, M) /\ \A m \in M : m.kind # "state"

(* What an end agrees to is the pair of the states that were said last.      *)
LEMMA MatchMeant ==
    ASSUME TransferTypeOK, NEW st, \A e \in Ends : Said(st, e), NEW s \in Ends,
           NEW x \in Selections, Matches(s, x), PairOf(s).from = s,
           x.link = home["web"].mark
    PROVE  /\ Meant(st, s, x) /\ Passed(s, x)
           /\ co[s].own # Nobody /\ co[s].own.id = IdOf(s, x)
           /\ co[s].peer # Nobody /\ co[s].peer.id = IdOf(Far(s), x)
  <1>1. PICK f \in Ends : f = Far(s) /\ Far(f) = s /\ f # s /\ Ends = {s, f}
    BY FarEnd
  <1>2. PICK w, e \in States \cup {Nobody} :
           /\ PairOf(s) = PairFor([web |-> w, ext |-> e])
           /\ s = "web" => w = co[s].own /\ e = co[s].peer
           /\ s = "ext" => w = co[s].peer /\ e = co[s].own
    BY RolesOf, TypeFacts
  <1>3. PICK p : p = PairOf(s) /\ p # Nobody /\ p.from = s /\ x = Selection(p, home["web"].mark)
    BY DEF Matches
  <1>4. w # Nobody /\ e # Nobody /\ p.web = w.id /\ p.ext = e.id
    BY <1>2, <1>3, PairFacts
  <1>5. x.web = w.id /\ x.ext = e.id BY <1>3, <1>4 DEF Selection
  <1>6. Said(st, s) /\ Said(st, f) BY <1>1
  <1>7. /\ co[s].own # Nobody /\ co[s].own.id = IdOf(s, x)
        /\ co[s].peer # Nobody /\ co[s].peer.id = IdOf(f, x)
    BY <1>1, <1>2, <1>4, <1>5 DEF IdOf, Ends, Far
  <1>8. /\ co[s].own.id \in 1 .. co[s].ids /\ co[s].own = st[s][co[s].own.id]
        /\ co[s].peer.id \in 1 .. co[f].ids /\ co[s].peer = st[f][co[s].peer.id]
        /\ Says(f) => co[s].peer.id < co[f].own.id
        /\ \A k \in On(s, "state") : co[s].peer.id < wire[s][k].state.id
    BY <1>1, <1>6, <1>7 DEF Said, OwnSaid, PeerSaid, WireSaid
  <1>9. w = st["web"][x.web] /\ e = st["ext"][x.ext]
    BY <1>1, <1>2, <1>5, <1>8 DEF Ends, Far
  <1>10. PairAt(st, x) = p BY <1>2, <1>3, <1>9 DEF PairAt
  <1>11. Meant(st, s, x) BY <1>1, <1>7, <1>8, <1>3, <1>10 DEF Meant
  <1>12. Passed(s, x) BY <1>1, <1>7, <1>8 DEF Passed
  <1> QED BY <1>1, <1>7, <1>11, <1>12

(* Two selections of the same states are the same.                           *)
LEMMA MeantOnce ==
    ASSUME NEW st, NEW s, NEW d, NEW x, NEW t, Meant(st, s, x), Meant(st, d, t),
           \A e \in Ends : IdOf(e, t) = IdOf(e, x)
    PROVE  t = x
  BY DEF IdOf, Ends, PairAt, Meant

(* The selection tried is new: its end would remember it. *)
LEMMA ToldOpens ==
    ASSUME Base, NEW st, NEW src \in [Tries -> Ends], Told(st, src),
           NEW s \in Ends, NEW x, Opening(s, x)
    PROVE  \E z \in [Tries -> Ends] : Told(st, z)'
  <1>1. PICK f \in Ends : f = Far(s) /\ Far(f) = s /\ f # s /\ Ends = {s, f}
    BY FarEnd
  <1>2. /\ x \in Selections /\ SameMark /\ ChosenOK' /\ co'[s].tried = x /\ x # co[s].tried
        /\ co[s].up /\ co'[f] = co[f] /\ Forgets(co[s], co'[s])
    BY <1>1 DEF Opening
  <1>3. /\ Ntry \in Nat /\ Ntry + 1 \in Tries /\ idy.tries \in Seq(Selections)
    BY TransferAssumption DEF Base, TransferTypeOK, Opening, Tries, Ntry
  <1>4. /\ Ntry' = Ntry + 1 /\ idy'.tries[Ntry + 1] = x
        /\ \A i \in 1 .. Ntry : idy'.tries[i] = idy.tries[i]
    BY <1>3 DEF Opening, Ntry
  <1>5. PICK z : z = [src EXCEPT ![Ntry + 1] = s] OBVIOUS
  <1>6. /\ z \in [Tries -> Ends] /\ z[Ntry + 1] = s
        /\ \A i \in 1 .. Ntry : z[i] = src[i]
    BY <1>3, <1>5 DEF Tries
  <1>7. \A e \in Ends : Said(st, e) /\ Forgets(co[e], co'[e])
    BY <1>1, <1>2 DEF Told, Forgets
  <1>8. /\ Meant(st, s, x) /\ Passed(s, x)
        /\ co[s].own # Nobody /\ co[s].own.id = IdOf(s, x)
        /\ co[s].peer # Nobody /\ co[s].peer.id = IdOf(Far(s), x)
    BY <1>2, <1>7, MatchMeant DEF Opening, Base
  <1>9. /\ \A e \in Ends : Said(st, e)'
        /\ \A e \in Ends : \A t \in Selections :
             /\ Meant(st, e, t) => Meant(st, e, t)'
             /\ Passed(e, t) => Passed(e, t)'
    <2>1. PICK M : Routed(s, M) /\ \A m \in M : m.kind # "state"
      BY DEF Opening
    <2> QED BY <1>2, <1>7, <2>1, SaidStays
  <1>10. ASSUME NEW i \in 1 .. Ntry, NEW t \in Selections, t = idy.tries[i], NEW e \in Ends, e = src[i]
         PROVE  /\ t # x
                /\ Meant(st, e, t)' /\ Passed(e, t)' /\ Remembered(e, t)'
    BY <1>10, <1>8, <1>2, <1>1, MeantOnce, <1>9 DEF Told, Meant, Remembered, Forgets
  <1>11. Meant(st, s, x)' /\ Passed(s, x)' /\ Remembered(s, x)'
    BY <1>2, <1>8, <1>9 DEF Remembered
  <1>12. ASSUME NEW i \in 1 .. Ntry + 1, NEW t \in Selections, t = idy'.tries[i]
         PROVE  Meant(st, z[i], t)' /\ Passed(z[i], t)' /\ Remembered(z[i], t)'
    <2>1. CASE i = Ntry + 1 BY <1>4, <1>6, <1>11, <1>12, <2>1
    <2>2. CASE i \in 1 .. Ntry
      <3>1. PICK e \in Ends : e = src[i] BY <2>2, TriesIndexed
      <3>2. t = idy.tries[i] /\ z[i] = e BY <1>4, <1>6, <1>12, <2>2, <3>1
      <3> QED BY <1>10, <2>2, <3>1, <3>2
    <2> QED BY <1>3, <2>1, <2>2
  <1>13. OneTransferPerSelection'
    <2>1. \A i, j \in 1 .. Ntry : i # j => idy.tries[i] # idy.tries[j]
      BY DEF Told, OneTransferPerSelection, Ntry
    <2>2. \A i \in 1 .. Ntry : idy.tries[i] # x
      <3>1. \A i \in 1 .. Ntry : src[i] \in Ends /\ idy.tries[i] \in Selections
        BY TriesIndexed
      <3> QED BY <1>10, <3>1
    <2>3. ASSUME NEW i \in 1 .. Ntry + 1, NEW j \in 1 .. Ntry + 1, i # j
          PROVE  idy'.tries[i] # idy'.tries[j]
      <3>1. i \in 1 .. Ntry \/ i = Ntry + 1
        BY <1>3
      <3>2. j \in 1 .. Ntry \/ j = Ntry + 1
        BY <1>3
      <3> QED BY <1>4, <2>1, <2>2, <2>3, <3>1, <3>2
    <2> QED BY <1>4, <2>3 DEF OneTransferPerSelection, Ntry
  <1>14. Told(st, z)' BY <1>2, <1>4, <1>9, <1>12, <1>13 DEF Told
  <1> QED BY <1>6, <1>14

(* startSource: the coordinator that agrees begins an attempt or goes on.    *)
LEMMA OpensTalk ==
    ASSUME TransferTypeOK, NEW s \in Ends, NEW c \in Coordinators, Opens(s, c),
           Keeps(co[s], c), c.own = co[s].own, c.tried = co[s].tried
    PROVE  /\ co'[Far(s)] = co[Far(s)] /\ co'[s].pick = c.pick
           /\ \/ Keeps(co[s], co'[s]) /\ UNCHANGED idy
              \/ /\ c.sel \in Selections /\ Matches(s, c.sel) /\ PairOf(s).from = s
                 /\ c.sel # co[s].tried /\ Forgets(co[s], co'[s]) /\ co'[s].tried = c.sel
                 /\ Ntry < MaxTries /\ idy'.tries = Append(idy.tries, c.sel)
  <1>1. CoTyped /\ Far(s) # s BY TypeFacts, FarEnd
  <1>2. CASE Becomes(s, c) /\ UNCHANGED idy BY <1>1, <1>2 DEF Becomes, CoTyped
  <1>3. CASE ~(Becomes(s, c) /\ UNCHANGED idy)
    <2>1. PICK a : a = [id |-> NextTry, dir |-> "source", at |-> "scope", sel |-> c.sel, root |-> 0]
      OBVIOUS
    <2>2. PICK d : d = [c EXCEPT !.tried = c.sel, !.att = a] OBVIOUS
    <2>3. /\ c.sel # Nobody /\ c.tried # c.sel /\ Matches(s, c.sel) /\ PairOf(s).from = s
          /\ NextTry <= MaxTries /\ Becomes(s, d)
          /\ idy' = [idy EXCEPT !.tries = Append(idy.tries, c.sel)]
      BY <1>3, <2>1, <2>2 DEF Opens
    <2>4. co'[s] = d /\ co'[Far(s)] = co[Far(s)]
      BY <1>1, <2>3 DEF Becomes, CoTyped
    <2>5. /\ d.tried = c.sel /\ d.pick = c.pick /\ d.own = c.own /\ d.peer = c.peer
          /\ d.ids = c.ids /\ d.ref = c.ref /\ c.sel \in Selections
      BY <2>2, <2>3 DEF Coordinators
    <2>6. Forgets(co[s], d) BY <2>5 DEF Keeps, Forgets
    <2>7. Len(idy.tries) \in Nat /\ idy'.tries = Append(idy.tries, c.sel)
      BY <2>3 DEF TransferTypeOK
    <2>8. Ntry < MaxTries BY <2>3, <2>7, TransferAssumption DEF NextTry, Ntry
    <2> QED BY <2>3, <2>4, <2>5, <2>6, <2>7, <2>8
  <1> QED BY <1>2, <1>3

(* The same, over a route on which nothing of a state is said.               *)
LEMMA ToldAgrees ==
    ASSUME Base, NEW st, NEW src \in [Tries -> Ends], Told(st, src),
           NEW s \in Ends, NEW c \in Coordinators, Opens(s, c), co[s].up,
           Keeps(co[s], c), c.own = co[s].own, c.tried = co[s].tried,
           s = "web" => c.pick.at # "adopt", SameMark, c.sel # Nobody => c.sel.link = home["web"].mark,
           NEW M, Routed(s, M), \A m \in M : m.kind # "state",
           \A m \in M : m.kind = "chosen" => s = "web" /\ m.sel.link = home["web"].mark
    PROVE  \E z \in [Tries -> Ends] : Told(st, z)'
  <1>1. TransferTypeOK BY DEF Base
  <1>2. ChosenOK'
    BY <1>1, OpensTalk, ChosenKept DEF Ends, Far, NoAdopt, Told, ChosenOK
  <1>3. CASE Keeps(co[s], co'[s]) /\ UNCHANGED idy
    BY <1>1, OpensTalk, <1>3, FarEnd, <1>2, ToldCalm DEF Keeps
  <1>4. CASE ~(Keeps(co[s], co'[s]) /\ UNCHANGED idy)
    BY <1>1, <1>4, OpensTalk, NobodyAssumption, <1>2, ToldOpens DEF Opening
  <1> QED BY <1>3, <1>4

(* The web application says which link it has.                               *)
LEMMA ConfirmsLinkTold ==
    ASSUME Base, NEW st, NEW src \in [Tries -> Ends], Told(st, src),
           NEW s \in Ends, ConfirmsLink(s)
    PROVE  \E z \in [Tries -> Ends] : Told(st, z)'
  <1>1. /\ TransferTypeOK /\ co[s] \in Coordinators /\ WireTyped /\ CoTyped
        /\ home[s].mark \in Nat /\ UNCHANGED home /\ s = "web" /\ Far(s) # s
    BY TypeFacts, FarEnd DEF Base, Homes, ConfirmsLink
  <1>2. PICK x : x = co[s].pick.link OBVIOUS
  <1>3. x \in Selections /\ co[s].up /\ \A k \in Nat : [x EXCEPT !.link = k] \in Selections
    BY <1>2, PickTyped DEF ConfirmsLink
  <1>4. /\ Done(co[s]) \in Coordinators /\ Keeps(co[s], Done(co[s]))
        /\ Done(co[s]).pick.at # "adopt"
    BY <1>1, DoneFacts DEF Keeps
  <1>5. Becomes(s, Done(co[s])) => Calm(s) /\ (NoAdopt => NoAdopt') /\ \A e \in Ends : Keeps(co[e], co'[e])
    BY FarEnd, CalmNoAdopt, <1>1, <1>4, CalmSet DEF Calm, Keeps, Becomes
  <1>6. CASE ~co[s].pick.cur \/ ~Admits(s, x)
    BY <1>2, <1>6, <1>1, SameRouted, <1>5, ChosenKept, ToldCalm DEF ConfirmsLink, SameMark, Told,
       ChosenOK
  <1>7. CASE co[s].pick.cur /\ Admits(s, x)
    <2>1. PICK y : y = [x EXCEPT !.link = home[s].mark] OBVIOUS
    <2>2. y \in Selections /\ y.link = home["web"].mark
      BY <1>1, <1>3, <2>1 DEF Selections
    <2>3. PICK m : m = [kind |-> "chosen", sel |-> y] OBVIOUS
    <2>4. m \in Messages /\ m.kind = "chosen" /\ m.sel = y /\ Sends(s, m)
      BY <1>2, <1>7, <2>1, <2>2, <2>3, MessagesMade DEF ConfirmsLink
    <2>5. Routed(s, {m}) /\ SameMark BY <1>1, <2>4, SendsRouted DEF SameMark
    <2>6. CASE Becomes(s, Done(co[s])) /\ UNCHANGED idy
      <3>1. ChosenOK'
        BY <1>1, <1>5, <2>2, <2>4, <2>5, <2>6, ChosenKept DEF Told, ChosenOK
      <3>2. Told(st, src)' BY <1>5, <2>4, <2>5, <2>6, <3>1, ToldCalm
      <3> QED BY <3>2
    <2>7. CASE home[s].mark = x.link /\ Opens(s, [Done(co[s]) EXCEPT !.sel = x])
      <3>1. PICK c : c = [Done(co[s]) EXCEPT !.sel = x] OBVIOUS
      <3>2. /\ c \in Coordinators /\ c.own = co[s].own /\ c.tried = co[s].tried /\ c.sel = x
            /\ c.pick.at # "adopt" /\ Keeps(co[s], c)
        BY <1>1, <1>3, <3>1, SelectedFacts DEF Keeps
      <3>3. Opens(s, c) /\ x.link = home["web"].mark BY <1>1, <2>7, <3>1
      <3> QED BY <1>1, <1>3, <2>2, <2>4, <2>5, <3>2, <3>3, ToldAgrees
    <2> QED BY <1>2, <1>7, <2>6, <2>7 DEF ConfirmsLink
  <1> QED BY <1>6, <1>7

(* The extension is told which link the web application has.                 *)
LEMMA GetsChosenTold ==
    ASSUME Base, NEW st, NEW src \in [Tries -> Ends], Told(st, src),
           NEW s \in Ends, GetsChosen(s)
    PROVE  \E z \in [Tries -> Ends] : Told(st, z)'
  <1>1. /\ TransferTypeOK /\ co[s] \in Coordinators /\ WireTyped /\ CoTyped
        /\ UNCHANGED home /\ Far(s) # s /\ SameMark
    BY TypeFacts, FarEnd DEF Base, GetsChosen, SameMark
  <1>2. /\ co[s].up /\ wire[s] # <<>> /\ Msg(s).sel \in Selections
        /\ Msg(s) = wire[s][1] /\ 1 \in On(s, "chosen")
    BY MessageTaken, MessageParts DEF GetsChosen
  <1>3. s = "ext" /\ Msg(s).sel.link = home["web"].mark
    BY <1>2 DEF Told, ChosenOK, Ends
  <1>4. Takes(s) => Routed(s, {}) BY <1>1, <1>2, TakesRouted
  <1>5. CASE FailsAt(s) /\ UNCHANGED idy
    <2>1. Calm(s) /\ Routed(s, {})
      BY <1>1, <1>5, FailsCalm, EmptiesRouted DEF FailsAt
    <2>2. \A e \in Ends : Keeps(co[e], co'[e]) BY <2>1, FarEnd DEF Calm, Keeps
    <2>3. ChosenOK' BY <1>1, <2>1, CalmNoAdopt, ChosenKept DEF Told, ChosenOK
    <2>4. Told(st, src)' BY <1>1, <1>5, <2>1, <2>2, <2>3, ToldCalm
    <2> QED BY <2>4
  <1>6. CASE Takes(s) /\ Msg(s).sel = co[s].sel /\ Opens(s, co[s])
    BY <1>1, <1>2, <1>3, <1>4, <1>6, ToldAgrees DEF Keeps
  <1>7. CASE /\ Takes(s) /\ UNCHANGED idy
             /\ Becomes(s, [co[s] EXCEPT !.pick = [at |-> "adopt", cur |-> TRUE,
                                                   link |-> Msg(s).sel]])
    <2>1. PICK k : k = [at |-> "adopt", cur |-> TRUE, link |-> Msg(s).sel]
      OBVIOUS
    <2>2. PICK c : c = [co[s] EXCEPT !.pick = k] OBVIOUS
    <2>3. /\ c.own = co[s].own /\ c.peer = co[s].peer /\ c.up = co[s].up
          /\ c.ids = co[s].ids /\ c.ref = co[s].ref /\ c.tried = co[s].tried
      BY <1>1, <2>2 DEF Coordinators
    <2>4. co'[s] = c /\ co'[Far(s)] = co[Far(s)]
      BY <1>1, <1>7, <2>1, <2>2 DEF Becomes, CoTyped
    <2>5. Keeps(co[s], co'[s]) /\ Keeps(co[Far(s)], co'[Far(s)])
      BY <2>3, <2>4 DEF Keeps
    <2>6. NoAdopt' BY <1>3, <2>4 DEF Told, ChosenOK, NoAdopt, Far
    <2>7. ChosenOK' BY <1>1, <1>4, <1>7, <2>6, ChosenKept DEF Told
    <2>8. \A e \in Ends : Keeps(co[e], co'[e]) BY <2>5, FarEnd
    <2>9. Told(st, src)' BY <1>1, <1>4, <1>7, <2>7, <2>8, ToldCalm
    <2> QED BY <2>9
  <1> QED BY <1>5, <1>6, <1>7, Zenon DEF GetsChosen

(* Steps at which nothing is said of a state or of a link.                   *)
LEMMA ToldStill ==
    ASSUME Base, NEW st, NEW src \in [Tries -> Ends], Told(st, src),
           NEW s \in Ends, CalmStep(s)
    PROVE  Told(st, src)'
  <1>1. Calm(s) /\ idy'.tries = idy.tries /\ SameMark BY DEF CalmStep
  <1>2. PICK M : Routed(s, M) /\ \A m \in M : m.kind \notin {"state", "chosen"}
    BY DEF CalmStep, Hushed
  <1>3. \A e \in Ends : Keeps(co[e], co'[e]) BY <1>1, FarEnd DEF Calm, Keeps
  <1>4. ChosenOK' BY <1>1, <1>2, CalmNoAdopt, ChosenKept DEF Told, ChosenOK
  <1>5. \A m \in M : m.kind # "state" BY <1>2
  <1> QED BY <1>1, <1>2, <1>3, <1>4, <1>5, ToldCalm

(* A new connection: nothing is on its way, and new ids follow the old.      *)
LEMMA ToldConnects ==
    ASSUME Base, NEW st, NEW src \in [Tries -> Ends], Told(st, src), ConnectsAgain
    PROVE  Told(st, src)'
  <1>1. \A e \in Ends : Far(e) \in Ends /\ co[e].ids \in Nat
    BY FarEnd, TypeFacts DEF Base, Coordinators
  <1>2. UNCHANGED <<home, idy>> /\ \A e \in Ends : co'[e] = NewCoordinator(co[e].ids) /\ wire'[e] = <<>>
    BY DEF ConnectsAgain
  <1>3. \A e \in Ends : /\ co'[e].own = Nobody /\ co'[e].peer = Nobody /\ co'[e].ids = co[e].ids
                        /\ co'[e].pick.at = "idle" /\ co'[e].ref = "idle"
    BY <1>1, <1>2, NewFacts
  <1>4. \A e \in Ends : \A kind : On(e, kind)' = {} BY <1>2 DEF On
  <1>5. ChosenOK' BY <1>3, <1>4 DEF ChosenOK, NoAdopt, Ends
  <1>6. \A e \in Ends : Said(st, e)'
    BY <1>1, <1>3, <1>4 DEF Said, OwnSaid, PeerSaid, WireSaid
  <1>7. ASSUME NEW e \in Ends, NEW t \in Selections, Meant(st, e, t)
        PROVE  Meant(st, e, t)' /\ Passed(e, t)' /\ Remembered(e, t)'
    BY <1>2, <1>3, <1>7, <1>1, <1>4 DEF Meant, Passed, Remembered, Says
  <1>8. idy'.tries = idy.tries BY <1>2
  <1> QED BY <1>5, <1>6, <1>7, <1>8, ToldFrom

(* What the ends say of their states stays ordered, and what was tried is    *)
(* remembered, at every step.                                                *)
LEMMA NextTold ==
    ASSUME Base, NEW st \in [Ends -> [Nat -> States]], NEW src \in [Tries -> Ends],
           Told(st, src), TransferNext
    PROVE  \E z \in [Ends -> [Nat -> States]] : \E y \in [Tries -> Ends] : Told(z, y)'
  <1> DEFINE Goal == \E z \in [Ends -> [Nat -> States]] : \E y \in [Tries -> Ends] : Told(z, y)'
  <1>1. ASSUME NEW s \in Ends, CalmStep(s) PROVE Goal BY <1>1, ToldStill
  <1>2. NoAdopt BY DEF Told, ChosenOK
  <1>3. ASSUME NEW s \in Ends, Coordinates(s) PROVE Goal
    <2>1. CASE Refreshes(s) BY <1>1, ToldRenews, <2>1, RefreshesTalk
    <2>2. CASE TellsState(s) BY <1>1, ToldUtters, <2>2, TellsStateTalk
    <2>3. CASE GetsState(s) BY <2>3, GetsStateTalk, ToldLearns
    <2>4. CASE ConfirmsLink(s) BY <2>4, ConfirmsLinkTold
    <2>5. CASE GetsChosen(s) BY <2>5, GetsChosenTold
    <2>6. CASE PicksLink(s) BY <1>1, <2>6, PicksLinkCalm
    <2>7. CASE GetsLink(s) BY <1>1, <2>7, GetsLinkCalm
    <2>8. CASE AdoptsLink(s) BY <1>1, <1>2, <2>8, AdoptsLinkCalm
    <2>9. CASE GetsCancel(s) \/ TimesOut(s) \/ SeesRouteGone(s)
      BY <1>1, <2>9, CancelsCalm
    <2> HIDE DEF Goal
    <2> QED BY <1>3, <2>1, <2>2, <2>3, <2>4, <2>5, <2>6, <2>7, <2>8, <2>9, Zenon DEF Coordinates
  <1>4. ASSUME NEW s \in Ends, Sources(s) \/ Receives(s) \/ Lives(s) PROVE Goal
    BY <1>4, SourcesCalm, ReceivesCalm, LivesCalm, <1>1
  <1>5. ASSUME NEW n \in Tries, Installs(n) PROVE Goal
    <2>1. PICK s \in Ends : CalmStep(s) BY <1>5, InstallsCalm
    <2> QED BY <1>1, <2>1
  <1>6. ASSUME ConnectsAgain PROVE Goal BY <1>6, ToldConnects
  <1> HIDE DEF Goal
  <1>7. Goal BY <1>3, <1>4, <1>5, <1>6 DEF TransferNext
  <1> QED BY <1>7 DEF Goal

(* Nothing has been said at first. *)
LEMMA InitTold ==
    ASSUME TransferInit, NEW st, NEW src PROVE Told(st, src)
  BY FarEnd, NewFacts DEF TransferInit, On, ChosenOK, NoAdopt, Ends, Said, OwnSaid, PeerSaid,
     WireSaid, Told, OneTransferPerSelection, Ntry

(* A step that leaves everything. *)
LEMMA StutterTold ==
    ASSUME NEW st, NEW src, Told(st, src), UNCHANGED transferVars PROVE Told(st, src)'
  <1>1. /\ \A e, kind : On(e, kind)' = On(e, kind)
        /\ \A e : Says(e)' = Says(e)
        /\ ChosenOK' = ChosenOK /\ OneTransferPerSelection' = OneTransferPerSelection
    BY DEF transferVars, On, Says, ChosenOK, NoAdopt, OneTransferPerSelection
  <1>2. \A e \in Ends : Said(st, e)' = Said(st, e)
    BY <1>1 DEF Said, OwnSaid, PeerSaid, WireSaid, transferVars
  <1>3. \A e : \A t \in Selections : Meant(st, e, t)' = Meant(st, e, t) /\ Passed(e, t)' = Passed(e, t)
                 /\ Remembered(e, t)' = Remembered(e, t)
    BY <1>1 DEF Meant, Passed, Remembered, transferVars
  <1> QED BY <1>1, <1>2, <1>3 DEF Told, transferVars, Ntry

(* The own states that were said, and the end that opened each attempt, are  *)
(* of no variable: the invariant says that some fit.                         *)
SoundInv ==
    /\ Base /\ \E src \in [Tries -> Ends] : Directed(src)
    /\ \E st \in [Ends -> [Nat -> States]] : \E src \in [Tries -> Ends] : Told(st, src)

(* startSource and the installer: a selection is tried once, however the     *)
(* states of the two ends change, and a transaction under way is for what    *)
(* both ends still mean, whatever was said, cancelled or delayed between.    *)
THEOREM TransfersSound == TransferSpec => []TransfersAreSound
  <1>1. TransferInit => SoundInv
    <2>1. SUFFICES ASSUME TransferInit PROVE SoundInv OBVIOUS
    <2>2. PICK src : src = [n \in Tries |-> "web"] OBVIOUS
    <2>3. PICK x : x = [id |-> 0, acct |-> Nobody, status |-> "out", gen |-> 0]
      OBVIOUS
    <2>4. PICK st : st = [e \in Ends |-> [k \in Nat |-> x]] OBVIOUS
    <2>5. src \in [Tries -> Ends] /\ x \in States
      BY <2>2, <2>3 DEF Ends, States, Statuses
    <2>6. st \in [Ends -> [Nat -> States]] BY <2>4, <2>5
    <2>7. Base /\ Directed(src) BY <2>1, <2>5, InitBase
    <2>8. Told(st, src) BY <2>1, InitTold
    <2> QED BY <2>5, <2>6, <2>7, <2>8 DEF SoundInv
  <1>2. SoundInv /\ [TransferNext]_transferVars => SoundInv'
    <2>1. SUFFICES ASSUME SoundInv, [TransferNext]_transferVars PROVE SoundInv'
      OBVIOUS
    <2>2. PICK dir \in [Tries -> Ends] : Directed(dir) BY <2>1 DEF SoundInv
    <2>3. PICK st \in [Ends -> [Nat -> States]], src \in [Tries -> Ends] : Told(st, src)
      BY <2>1 DEF SoundInv
    <2>4. Base BY <2>1 DEF SoundInv
    <2>5. CASE TransferNext
      BY <2>2, <2>4, <2>5, NextKeeps, <2>3, NextTold DEF SoundInv
    <2>6. CASE UNCHANGED transferVars
      BY <2>2, <2>3, <2>4, <2>6, StutterBase, StutterDirected, StutterTold DEF SoundInv
    <2> QED BY <2>1, <2>5, <2>6
  <1>3. SoundInv => TransfersAreSound
    <2>1. SUFFICES ASSUME SoundInv PROVE TransfersAreSound OBVIOUS
    <2>2. OneTransferPerSelection BY <2>1 DEF SoundInv, Told
    <2>3. Base BY <2>1 DEF SoundInv
    <2>4. ASSUME NEW n \in Tries, tx[n] # Nobody, tx[n].cur
          PROVE  LET s == tx[n].side IN
                 /\ Holds(n) /\ co[s].att.sel = idy.tries[n] /\ Matches(s, idy.tries[n])
                 /\ idy.tries[n].acct = tx[n].acct
                 /\ home[s].acct \in {Nobody, tx[n].acct}
      <3>1. PICK s \in Ends : s = tx[n].side
        BY <2>3, <2>4, TypeFacts DEF Base, Transactions
      <3>2. AttemptOK(s) /\ TxAgree(n) BY <2>3, <3>1 DEF Base, Agreed
      <3> QED BY <2>4, <3>1, <3>2 DEF AttemptOK, TxAgree, Holds
    <2> QED BY <2>2, <2>3, <2>4 DEF TransfersAreSound, TransfersAreAgreed, Base
  <1> QED BY <1>1, <1>2, <1>3, PTL DEF TransferSpec
=============================================================================
