------------------------ MODULE AgentOperationsProofs ------------------------
(* What AgentOperations guarantees for any slots, tabs, transactions and     *)
(* bounds.                                                                   *)
(*                                                                           *)
(* First, that a port can always be opened again. Then the types, in a form  *)
(* that is inductive: an operation is edited, At(i, Edit(...)), its call is  *)
(* at a place of its script and has what that place needs. Then, that a      *)
(* transaction reaches a page once: it is a token that the replay guard      *)
(* gives to one call, that the call passes on with its letter, and that the  *)
(* page spends. Last, that the pages are owned: a letter on its way and what *)
(* a page holds belong to the operation that has reserved the tab, and it    *)
(* waits for the one and knows of the other, or a cancellation follows.      *)
EXTENDS AgentOperations, FiniteSetTheorems, TLAPS

-----------------------------------------------------------------------------
(* The host can always come back. The port's numbers are numbers, so that    *)
(* one that is opened is there, and the flags of the bridge are Booleans.    *)
BridgeOK ==
    /\ port \in Nat /\ opened \in Nat
    /\ attempt \in BOOLEAN /\ alarm \in BOOLEAN

Reach == BridgeOK /\ NeverStranded

(* Whatever takes the port away leaves something that opens the next.        *)
LEMMA Lost ==
    ASSUME Reach
    PROVE  /\ DropPort => Reach'
           /\ HandshakeTimeout => Reach'
           /\ HostDisconnects => Reach'
           /\ Restart => Reach'
<1>1. DropPort => Reach'
  BY DEF Reach, BridgeOK, NeverStranded, DropPort, Dispose
<1>2. HandshakeTimeout => Reach'
  BY DEF Reach, BridgeOK, NeverStranded, HandshakeTimeout, Dispose
<1>3. ASSUME HostDisconnects PROVE Reach'
  BY <1>3 DEF HostDisconnects, Recovers, Dispose, Reach, BridgeOK, NeverStranded
<1>4. ASSUME Restart PROVE Reach'
  BY <1>4 DEF Restart, Reach, BridgeOK, NeverStranded
<1> QED BY <1>1, <1>2, <1>3, <1>4

(* What opens the next port gives way only to a port, or to what will.       *)
LEMMA Regained ==
    ASSUME Reach
    PROVE  /\ Startup => Reach'
           /\ AlarmFires => Reach'
           /\ OpenPort => Reach'
           /\ Handshake => Reach'
<1>1. ASSUME Startup PROVE Reach'
  BY <1>1 DEF Reach, BridgeOK, NeverStranded, Startup, Connects
<1>2. ASSUME AlarmFires PROVE Reach'
  BY <1>2 DEF AlarmFires, Connects, Reach, BridgeOK, NeverStranded
<1>3. ASSUME OpenPort PROVE Reach'
  <2>1. /\ due' = due /\ attempt' = FALSE
        /\ \/ port' = opened + 1 /\ opened' = opened + 1 /\ alarm' = alarm
           \/ alarm' = TRUE /\ port' = port /\ opened' = opened
    BY <1>3, Zenon DEF OpenPort
  <2>2. opened + 1 \in Nat /\ opened + 1 # 0 /\ opened \in Nat /\ port \in Nat
    BY DEF Reach, BridgeOK
  <2>3. alarm \in BOOLEAN BY Zenon DEF Reach, BridgeOK
  <2>4. CASE port' = opened + 1 /\ opened' = opened + 1 /\ alarm' = alarm
    BY <2>1, <2>2, <2>3, <2>4, Zenon DEF Reach, BridgeOK, NeverStranded
  <2>5. CASE alarm' = TRUE /\ port' = port /\ opened' = opened
    BY <2>1, <2>2, <2>3, <2>5, Zenon DEF Reach, BridgeOK, NeverStranded
  <2> QED BY <2>1, <2>4, <2>5
<1>4. ASSUME Handshake PROVE Reach'
  BY <1>4 DEF Handshake, Reach, BridgeOK, NeverStranded
<1> QED BY <1>1, <1>2, <1>3, <1>4

(* Nothing else touches the bridge, but for what closes the port.            *)
LEMMA Untouched == ASSUME Reach, UNCHANGED <<port, opened, attempt, due, alarm>>
                   PROVE  Reach'
BY DEF Reach, BridgeOK, NeverStranded

LEMMA Elsewhere ==
    ASSUME NEW i \in Slots,
           Worker(i) \/ Host(i) \/ TimesOut(i) \/ CancelSubmit(i)
    PROVE  UNCHANGED <<port, opened, attempt, due, alarm>>
<1>1. Worker(i) => UNCHANGED <<port, opened, attempt, due, alarm>>
  BY Zenon DEF Worker, Looked, ReadUsed, Continue, FinishClose, bridge
<1>2. Host(i) => UNCHANGED <<port, opened, attempt, due, alarm>>
  BY Zenon DEF Host, LegacySession, Prepare, Close, NewOperation, Commit, Use,
               Stays, bridge
<1>3. TimesOut(i) \/ CancelSubmit(i) => UNCHANGED <<port, opened, attempt, due, alarm>>
  BY Zenon DEF TimesOut, CancelSubmit, bridge
<1> QED BY <1>1, <1>2, <1>3

LEMMA OnPages ==
    ASSUME NEW t \in Tabs,
           PageTakes(t) \/ PageReady(t) \/ PageDrops(t) \/ Navigate(t)
    PROVE  UNCHANGED <<port, opened, attempt, due, alarm>>
BY Zenon DEF PageTakes, PageReady, PageDrops, Navigate, bridge

LEMMA ReachNext == Reach /\ [Next]_vars => Reach'
<1> SUFFICES ASSUME Reach, [Next]_vars PROVE Reach'
  OBVIOUS
<1>1. CASE UNCHANGED vars BY <1>1, Untouched, Zenon DEF vars, bridge
<1>2. CASE Startup \/ AlarmFires \/ OpenPort \/ Handshake BY <1>2, Regained
<1>3. CASE HandshakeTimeout \/ HostDisconnects \/ Restart \/ BadFrame
  BY <1>3, Lost DEF BadFrame
<1>4. CASE Deliver BY <1>4, Lost, Untouched DEF Deliver, bridge
<1>5. CASE Seal BY <1>5, Untouched, Zenon DEF Seal, bridge
<1>6. CASE \E r \in reads : WriteUsed(r)
  BY <1>6, Untouched, Zenon DEF WriteUsed, bridge
<1>7. ASSUME NEW i \in Slots, Worker(i) \/ Host(i) \/ TimesOut(i) \/ CancelSubmit(i)
      PROVE  Reach'
  BY <1>7, Elsewhere, Untouched
<1>8. ASSUME NEW t \in Tabs,
             PageTakes(t) \/ PageReady(t) \/ PageDrops(t) \/ Navigate(t)
      PROVE  Reach'
  BY <1>8, OnPages, Untouched
<1> QED BY <1>1, <1>2, <1>3, <1>4, <1>5, <1>6, <1>7, <1>8, Zenon DEF Next

(* However often the port is dropped, times out or ends, and the worker with *)
(* it, something is due that opens a port, unless the worker could not read  *)
(* its alarm when it started and has made no attempt since.                  *)
THEOREM HostReturns == Spec => []NeverStranded
<1>1. ASSUME Init PROVE Reach BY <1>1 DEF Init, Reach, BridgeOK, NeverStranded
<1>2. Reach => NeverStranded BY DEF Reach
<1> QED BY <1>1, <1>2, ReachNext, PTL DEF Spec

-----------------------------------------------------------------------------
(* The scripts: where a call consumes its transaction (Guarded, at 1), and   *)
(* where what it sends is done to the page (Doing, at ReachAt).              *)
Guarded == {"capture", "inject", "relay", "fill", "commit"}
Doing == {"capture", "step", "fill", "commit"}
ReachAt == [capture |-> 3, inject |-> 4, relay |-> 4, fill |-> 3, commit |-> 3]
KindNames == {"probe", "plain", "pinned", "live", "capture", "inject", "relay", "fill", "commit"}

LEMMA KindsAre == DOMAIN Script = KindNames
  BY DEF Script, KindNames

LEMMA Lengths ==
    /\ Len(Script["probe"]) = 1 /\ Len(Script["plain"]) = 1 /\ Len(Script["pinned"]) = 2
    /\ Len(Script["live"]) = 3 /\ Len(Script["capture"]) = 4 /\ Len(Script["inject"]) = 4
    /\ Len(Script["relay"]) = 5 /\ Len(Script["fill"]) = 4 /\ Len(Script["commit"]) = 4
  BY DEF Script

LEMMA Stages ==
    ASSUME NEW k \in KindNames, NEW n \in 1..Len(Script[k])
    PROVE  /\ Script[k][n] \in {"active", "look", "consume"} \cup PageWork
           /\ Script[k][n] = "active" <=> k = "pinned" /\ n = 1
           /\ Script[k][n] = "consume" <=> k \in Guarded /\ n = 1
           /\ Script[k][n] \in Doing <=> k \in Guarded /\ n = ReachAt[k]
           /\ Script[k][n] = "fill" <=> k = "fill" /\ n = 3
           /\ Script[k][n] = "commit" <=> k = "commit" /\ n = 3
           /\ Script[k][n] = "capture" <=> k = "capture" /\ n = 3
           /\ k \in Guarded /\ n # 1 /\ n < ReachAt[k] => Script[k][n] = "look"
           /\ k \in Preparations /\ n = Len(Script[k]) => Script[k][n] = "look"
           /\ k \in {"relay", "commit"} /\ n = Len(Script[k]) => Script[k][n] = "survey"
           /\ k = "fill" /\ n = 4 => Script[k][n] = "look"
           /\ k = "live" /\ n = 1 => Script[k][n] = "look"
<1>1. CASE k = "probe"
  BY <1>1 DEF Script, Guarded, Doing, ReachAt, PageWork, Preparations
<1>2. CASE k = "plain"
  BY <1>2 DEF Script, Guarded, Doing, ReachAt, PageWork, Preparations
<1>3. CASE k = "pinned"
  BY <1>3 DEF Script, Guarded, Doing, ReachAt, PageWork, Preparations
<1>4. CASE k = "live"
  BY <1>4 DEF Script, Guarded, Doing, ReachAt, PageWork, Preparations
<1>5. CASE k = "capture"
  BY <1>5 DEF Script, Guarded, Doing, ReachAt, PageWork, Preparations
<1>6. CASE k = "inject"
  BY <1>6 DEF Script, Guarded, Doing, ReachAt, PageWork, Preparations
<1>7. CASE k = "relay"
  BY <1>7 DEF Script, Guarded, Doing, ReachAt, PageWork, Preparations
<1>8. CASE k = "fill"
  BY <1>8 DEF Script, Guarded, Doing, ReachAt, PageWork, Preparations
<1>9. CASE k = "commit"
  BY <1>9 DEF Script, Guarded, Doing, ReachAt, PageWork, Preparations
<1> QED BY <1>1, <1>2, <1>3, <1>4, <1>5, <1>6, <1>7, <1>8, <1>9 DEF KindNames

HasCall(i) == op[i] # None /\ op[i].call # None
CallOK(c) ==
    /\ c \in Calls
    /\ c.at <= Len(Script[c.kind])
    /\ c.kind \in Guarded => c.tx \in Txs
    /\ c.kind = "commit" => c.for \in Txs
    /\ c.tab = None => Stage(c) = "active" /\ c.ans \in {Waiting, 0}
SlotOK(o) == o = None \/ (o \in Operations /\ (o.call # None => CallOK(o.call)))
IsFcn(f, S) == f = [x \in S |-> f[x]]
OpsOK == IsFcn(op, Slots) /\ \A i \in Slots : SlotOK(op[i])

At(i, o) == IsFcn(op', Slots) /\ op'[i] = o /\ \A j \in Slots \ {i} : op'[j] = op[j]
Edit(i, tab, active, closing, prep, sub, call) ==
    [id |-> op[i].id, port |-> op[i].port, tab |-> tab, active |-> active,
     closing |-> closing, prep |-> prep, sub |-> sub, call |-> call]
Ans(c, a) == [kind |-> c.kind, at |-> c.at, tab |-> c.tab, tx |-> c.tx, doc |-> c.doc,
              plan |-> c.plan, for |-> c.for, ans |-> a]

LEMMA EditPrepare ==
    ASSUME OpsOK, NEW i \in Slots, op[i] # None, NEW c, op' = [op EXCEPT ![i].sub = None, ![i].call = c]
    PROVE  At(i, Edit(i, op[i].tab, op[i].active, op[i].closing, op[i].prep, None, c))
  BY DEF OpsOK, SlotOK, At, Edit, Operations, IsFcn

LEMMA EditUse ==
    ASSUME OpsOK, NEW i \in Slots, op[i] # None, NEW c, op' = [op EXCEPT ![i].sub = None, ![i].prep = None, ![i].call = c]
    PROVE  At(i, Edit(i, op[i].tab, op[i].active, op[i].closing, None, None, c))
  BY DEF OpsOK, SlotOK, At, Edit, Operations, IsFcn
LEMMA EditSub ==
    ASSUME OpsOK, NEW i \in Slots, op[i] # None, op' = [op EXCEPT ![i].sub = None]
    PROVE  At(i, Edit(i, op[i].tab, op[i].active, op[i].closing, op[i].prep, None, op[i].call))
  BY DEF OpsOK, SlotOK, At, Edit, Operations, IsFcn
LEMMA EditClose ==
    ASSUME OpsOK, NEW i \in Slots, op[i] # None, op' = [op EXCEPT ![i] = Revoked(@)]
    PROVE  At(i, Edit(i, op[i].tab, FALSE, op[i].closing, op[i].prep, None, op[i].call))
  BY DEF OpsOK, SlotOK, At, Edit, Operations, IsFcn, Revoked
LEMMA EditAns ==
    ASSUME OpsOK, NEW i \in Slots, HasCall(i), NEW a, op' = Answer(op, i, a)
    PROVE  At(i, Edit(i, op[i].tab, op[i].active, op[i].closing, op[i].prep, op[i].sub, Ans(op[i].call, a)))
  BY SMTT(30) DEF OpsOK, SlotOK, At, Edit, Operations, IsFcn, Answer, Ans, HasCall, CallOK, Calls

(* The call at i, when it goes on, ends or fails. *)
GoesTo(c) ==
    [kind |-> c.kind, at |-> c.at + 1, tab |-> c.tab, tx |-> c.tx,
     doc |-> IF Stage(c) = "look" THEN c.ans ELSE c.doc,
     plan |-> IF c.kind = "live" /\ c.at = 1 THEN c.ans ELSE c.plan,
     for |-> c.for, ans |-> Waiting]
LEMMA AdvancedIs == ASSUME NEW c \in Calls, NEW r, r = Advanced(c) PROVE r = GoesTo(c)
  BY DEF Advanced, GoesTo, Calls
FillSub(d) == [tab |-> d.tab, tx |-> d.tx, doc |-> d.doc, ready |-> FALSE]
LEMMA EditGoes ==
    ASSUME OpsOK, NEW i \in Slots, HasCall(i), Goes(i, op[i].call)
    PROVE  LET c == op[i].call  d == GoesTo(c) IN
           /\ At(i, Edit(i, IF Stage(c) = "active" /\ op[i].id # None THEN c.tab ELSE op[i].tab,
                          op[i].active, op[i].closing, op[i].prep,
                          IF Stage(d) = "fill" THEN FillSub(d) ELSE op[i].sub, d))
           /\ mail' = IF Stage(d) \in PageWork THEN Posted(mail, d.tab, Message(Stage(d), i, d)) ELSE mail
           /\ out' = out
<1> DEFINE c == op[i].call
<1> DEFINE d == GoesTo(c)
<1>1. c \in Calls /\ op[i] \in Operations
  BY DEF OpsOK, SlotOK, CallOK, HasCall
<1>2. PICK r : r = Advanced(c) OBVIOUS
<1>7. r = d BY <1>1, <1>2, AdvancedIs
<1> HIDE DEF d
<1>3. /\ op' = [op EXCEPT ![i].call = d,
        ![i].tab = IF Stage(c) = "active" /\ op[i].id # None THEN c.tab ELSE @,
        ![i].sub = IF Stage(d) = "fill"
                   THEN [tab |-> d.tab, tx |-> d.tx, doc |-> d.doc, ready |-> FALSE]
                   ELSE @]
      /\ mail' = IF Stage(d) \in PageWork THEN Posted(mail, d.tab, Message(Stage(d), i, d)) ELSE mail
      /\ out' = out
  BY <1>2, <1>7, Zenon DEF Goes
<1>4. At(i, Edit(i, IF Stage(c) = "active" /\ op[i].id # None THEN c.tab ELSE op[i].tab,
                          op[i].active, op[i].closing, op[i].prep,
                          IF Stage(d) = "fill" THEN FillSub(d) ELSE op[i].sub, d))
  BY <1>1, <1>3 DEF OpsOK, At, Edit, Operations, IsFcn, FillSub
<1> QED BY <1>3, <1>4 DEF d

EndPrep(i, c) == IF c.kind \in Preparations THEN Prepared(c, c.kind)
                 ELSE IF c.kind \in {"relay", "commit"} THEN Prepared(c, "live") ELSE op[i].prep
EndSub(i, c) == IF c.kind = "fill" THEN [op[i].sub EXCEPT !.ready = TRUE] ELSE op[i].sub
LEMMA EditEnds ==
    ASSUME OpsOK, NEW i \in Slots, HasCall(i), Ends(i, op[i].call)
    PROVE  At(i, Edit(i, op[i].tab, op[i].active, op[i].closing,
                      EndPrep(i, op[i].call), EndSub(i, op[i].call), None))
<1> DEFINE c == op[i].call
           over == Edit(i, op[i].tab, op[i].active, op[i].closing, op[i].prep, op[i].sub, None)
<1>1. op[i] \in Operations BY DEF OpsOK, SlotOK, HasCall
<1>2. Over(op[i]) = over
  <2>1. PICK r : r = [op[i] EXCEPT !.call = None] OBVIOUS
  <2>2. r = over BY <1>1, <2>1 DEF Operations, Edit
  <2> QED BY <2>1, <2>2, Zenon DEF Over
<1>0. over = Edit(i, op[i].tab, op[i].active, op[i].closing, op[i].prep, op[i].sub, None)
  OBVIOUS
<1> HIDE DEF over
<1>3. PICK r : op' = [op EXCEPT ![i] = r] /\ r = Edit(i, op[i].tab, op[i].active,
                      op[i].closing, EndPrep(i, c), EndSub(i, c), None)
  <2>3. CASE c.kind \in Preparations
    <3>3. PICK x : x = Prepared(c, c.kind) OBVIOUS
    <3>1. PICK r : op' = [op EXCEPT ![i] = r] /\ r = [over EXCEPT !.prep = x]
      BY <1>2, <2>3, <3>3 DEF Ends, Preparations
    <3>2. EndPrep(i, c) = Prepared(c, c.kind) /\ EndSub(i, c) = op[i].sub
      BY <2>3 DEF EndPrep, EndSub, Preparations
    <3>4. r = Edit(i, op[i].tab, op[i].active, op[i].closing, x, op[i].sub, None)
      BY <1>0, <3>1 DEF Edit
    <3> QED BY <3>1, <3>2, <3>3, <3>4
  <2>4. CASE c.kind \in {"relay", "commit"}
    <3>3. PICK x : x = Prepared(c, "live") OBVIOUS
    <3>1. PICK r : op' = [op EXCEPT ![i] = r] /\ r = [over EXCEPT !.prep = x]
      BY <1>2, <2>4, <3>3 DEF Ends, Preparations
    <3>2. EndPrep(i, c) = Prepared(c, "live") /\ EndSub(i, c) = op[i].sub
      BY <2>4 DEF EndPrep, EndSub, Preparations
    <3>4. r = Edit(i, op[i].tab, op[i].active, op[i].closing, x, op[i].sub, None)
      BY <1>0, <3>1 DEF Edit
    <3> QED BY <3>1, <3>2, <3>3, <3>4
  <2>5. CASE c.kind = "fill"
    <3>1. PICK r : op' = [op EXCEPT ![i] = r] /\ r = [over EXCEPT !.sub.ready = TRUE]
      BY <1>2, <2>5 DEF Ends, Preparations
    <3>2. EndPrep(i, c) = op[i].prep /\ EndSub(i, c) = [op[i].sub EXCEPT !.ready = TRUE]
      BY <2>5 DEF EndPrep, EndSub, Preparations
    <3>3. PICK x : x = [op[i].sub EXCEPT !.ready = TRUE] OBVIOUS
    <3>4. r = Edit(i, op[i].tab, op[i].active, op[i].closing, op[i].prep, x, None)
      BY <1>0, <3>1, <3>3 DEF Edit
    <3> QED BY <3>1, <3>2, <3>3, <3>4
  <2>6. CASE c.kind \notin Preparations \cup {"relay", "commit", "fill"}
    BY <1>2, <2>6 DEF Ends, Preparations, EndPrep, EndSub, over
  <2> QED BY <2>3, <2>4, <2>5, <2>6
<1> QED BY <1>3 DEF OpsOK, At, IsFcn

LEMMA EditFails ==
    ASSUME OpsOK, NEW i \in Slots, HasCall(i), Fails(i, op[i].call)
    PROVE  At(i, Edit(i, op[i].tab, op[i].active, op[i].closing,
                      IF op[i].call.kind \in Preparations THEN None ELSE op[i].prep,
                      IF op[i].call.kind = "fill" THEN None ELSE op[i].sub, None))
  BY ZenonT(30) DEF OpsOK, SlotOK, HasCall, Fails, At, IsFcn, Edit, Operations

LEMMA EditActive ==
    ASSUME OpsOK, NEW i \in Slots, HasCall(i), NEW t,
           op' = [op EXCEPT ![i].call.tab = t, ![i].call.ans = 1]
    PROVE  LET c == op[i].call IN
           At(i, Edit(i, op[i].tab, op[i].active, op[i].closing, op[i].prep, op[i].sub,
              [kind |-> c.kind, at |-> c.at, tab |-> t, tx |-> c.tx, doc |-> c.doc,
               plan |-> c.plan, for |-> c.for, ans |-> 1]))
<1> DEFINE c == op[i].call
<1>1. c \in Calls /\ op[i] \in Operations
  BY DEF OpsOK, SlotOK, CallOK, HasCall
<1>2. PICK d : d = [c EXCEPT !.tab = t, !.ans = 1] OBVIOUS
<1>3. d = [kind |-> c.kind, at |-> c.at, tab |-> t, tx |-> c.tx, doc |-> c.doc,
           plan |-> c.plan, for |-> c.for, ans |-> 1]
  BY <1>1, <1>2 DEF Calls
<1>4. PICK r : r = [op[i] EXCEPT !.call = d] OBVIOUS
<1>5. op' = [op EXCEPT ![i] = r]
  BY <1>1, <1>2, <1>4 DEF OpsOK, IsFcn, Operations
<1>6. r = Edit(i, op[i].tab, op[i].active, op[i].closing, op[i].prep, op[i].sub, d)
  BY <1>1, <1>4 DEF Edit, Operations
<1> QED BY <1>3, <1>5, <1>6 DEF OpsOK, At, IsFcn

-----------------------------------------------------------------------------
GoodLetters == {m \in Letters : m.kind \in Doing => m.tx \in Txs}
MailOK == mail \in [Tabs -> Seq(GoodLetters)]
PagesOK == page \in [Tabs -> [doc : 1..MaxDocs, held : {None} \cup Held]]
BridgeTyped ==
    /\ port \in 0..MaxPorts /\ opened \in port..MaxPorts
    /\ channel \in {"offer", "ready", "open"}
    /\ mode \in {None, "operations", "legacy"}
    /\ attempt \in BOOLEAN /\ due \in {"due", "done", "failed"} /\ alarm \in BOOLEAN
Frames == [by : Slots, id : Ids \cup {None}, sealed : BOOLEAN]
OutOK == out \in Seq(Frames)
GuardOK == used \subseteq Txs /\ reads \subseteq [by : Slots, tx : Txs, new : BOOLEAN]
EffectsOK == effects \in [Txs -> Nat]
Typed == BridgeTyped /\ OutOK /\ OpsOK /\ GuardOK /\ PagesOK /\ MailOK /\ EffectsOK

LEMMA SeqElement ==
    ASSUME NEW S, NEW s \in Seq(S), NEW n \in DOMAIN s PROVE s[n] \in S
  OBVIOUS

LEMMA TypedIsOK == Typed => TypeOK
<1> SUFFICES ASSUME Typed PROVE TypeOK
  OBVIOUS
<1>1. op \in [Slots -> {None} \cup Operations]
  BY DEF Typed, OpsOK, IsFcn, SlotOK
<1>2. \A i \in Slots : op[i] # None /\ op[i].call # None =>
         op[i].call.tab # None \/ Stage(op[i].call) = "active"
  BY DEF Typed, OpsOK, SlotOK, CallOK
<1>3. \A t \in Tabs : \A n \in DOMAIN mail[t] : mail[t][n] \in Letters
  BY SeqElement DEF Typed, MailOK, GoodLetters
<1>4. \A n \in DOMAIN out : out[n] \in Frames BY SeqElement DEF Typed, OutOK
<1> QED BY <1>1, <1>2, <1>3, <1>4 DEF Typed, TypeOK, BridgeTyped, Frames, GuardOK, PagesOK, EffectsOK

LEMMA CallNew ==
    ASSUME NEW kind \in KindNames, NEW t \in Tabs \cup {None}, NEW tx \in Txs \cup {None},
           NEW doc \in 0..MaxDocs, NEW for \in Txs \cup {None},
           t = None => kind = "pinned", kind \in Guarded => tx \in Txs,
           kind = "commit" => for \in Txs
    PROVE  CallOK(Call(kind, t, tx, doc, for))
<1> DEFINE c == Call(kind, t, tx, doc, for)
<1>1. c \in Calls /\ c.at = 1 /\ c.kind = kind /\ c.tx = tx /\ c.tab = t /\ c.for = for
      /\ c.ans = Waiting
  BY AgentAssumption, KindsAre DEF Call, Calls, Waiting
<1>2. Len(Script[kind]) \in 1..5 BY Lengths DEF KindNames
<1>3. kind = "pinned" => Script[kind][1] = "active" BY DEF Script
<1> HIDE DEF c
<1>4. c.at <= Len(Script[c.kind])
  <2>1. PICK n : n = Len(Script[kind]) OBVIOUS
  <2>2. n \in 1..5 BY <1>2, <2>1
  <2>3. c.at <= n BY <1>1, <2>2
  <2> QED BY <1>1, <2>1, <2>3, Zenon
<1>5. c.tab = None => Stage(c) = "active" /\ c.ans \in {Waiting, 0}
  BY <1>1, <1>3 DEF Stage
<1>6. c \in Calls /\ (c.kind \in Guarded => c.tx \in Txs) /\ (c.kind = "commit" => c.for \in Txs)
  BY <1>1
<1>7. CallOK(c) BY <1>4, <1>5, <1>6, Zenon DEF CallOK
<1> QED BY <1>7 DEF c

LEMMA AnsOK ==
    ASSUME NEW c, CallOK(c), NEW a \in Waiting..MaxDocs, c.tab = None => a \in {Waiting, 0}
    PROVE  CallOK(Ans(c, a))
BY DEF CallOK, Calls, Ans, Stage

LEMMA CallKind == ASSUME NEW c, CallOK(c)
                  PROVE  c.kind \in KindNames /\ c.at \in 1..Len(Script[c.kind]) /\ c.at \in 1..5
                         /\ Len(Script[c.kind]) \in 1..5
BY KindsAre, Lengths DEF CallOK, Calls, KindNames

LEMMA GoesOK ==
    ASSUME NEW c, CallOK(c), c.at < Len(Script[c.kind]), c.ans # Waiting, Found(c)
    PROVE  /\ CallOK(GoesTo(c))
           /\ Stage(GoesTo(c)) = Script[c.kind][c.at + 1]
           /\ c.tab # None
           /\ Stage(GoesTo(c)) = "fill" => FillSub(GoesTo(c)) \in Pending
<1> DEFINE d == GoesTo(c)
<1>0. c.kind \in KindNames /\ c.at \in 1..Len(Script[c.kind]) /\ c.at \in 1..5
      /\ Len(Script[c.kind]) \in 1..5
  BY CallKind
<1>1. c.kind \in KindNames /\ c.at \in 1..Len(Script[c.kind]) /\ c.at + 1 \in 1..Len(Script[c.kind])
      /\ c.at + 1 \in 1..5
  <2>1. PICK n : n = Len(Script[c.kind]) OBVIOUS
  <2>2. n \in 1..5 /\ c.at \in 1..n /\ c.at < n BY <1>0, <2>1, Zenon
  <2>3. c.at + 1 \in 1..n /\ c.at + 1 \in 1..5 BY <2>2
  <2> QED BY <1>0, <2>1, <2>3, Zenon
<1>2. c.tab \in Tabs BY DEF CallOK, Found, Calls
<1>3. c.ans \in 1..MaxDocs
  BY AgentAssumption DEF CallOK, Found, Calls, Waiting
<1>4. d \in Calls /\ d.kind = c.kind /\ d.at = c.at + 1 /\ d.tx = c.tx /\ d.tab = c.tab
      /\ d.for = c.for
  BY <1>1, <1>3, AgentAssumption DEF GoesTo, CallOK, Calls, Waiting
<1>5. Stage(d) = Script[c.kind][c.at + 1] BY <1>4 DEF Stage
<1>6. CallOK(d) BY <1>1, <1>2, <1>4, AgentAssumption DEF CallOK
<1>7. ASSUME Stage(d) = "fill" PROVE FillSub(d) \in Pending
  <2>0. Script[c.kind][c.at + 1] = "fill" <=> c.kind = "fill" /\ c.at + 1 = 3
    BY <1>1, Stages
  <2>1. c.kind = "fill" /\ c.at = 2 BY <1>0, <1>5, <1>7, <2>0
  <2>2. Stage(c) = "look" BY <2>1 DEF Script, Stage
  <2>3. d.doc = c.ans /\ c.tx \in Txs
    BY <2>1, <2>2 DEF GoesTo, CallOK, Guarded
  <2> HIDE DEF d
  <2> QED BY <1>2, <1>3, <1>4, <2>3 DEF FillSub, Pending
<1> QED BY <1>2, <1>5, <1>6, <1>7, AgentAssumption

-----------------------------------------------------------------------------
(* The sequence of a finite set. *)
LEMMA SeqOfSet ==
    ASSUME NEW S, IsFiniteSet(S)
    PROVE  /\ SetToSeq(S) \in Seq(S)
           /\ \A x \in S : \E n \in DOMAIN SetToSeq(S) : SetToSeq(S)[n] = x
<1> DEFINE n == Cardinality(S)
           f == SetToSeq(S)
<1>1. n \in Nat /\ ExistsBijection(1..n, S) BY FS_CardinalityType
<1>2. \E g \in [1..n -> S] : IsInjective(g)
  BY <1>1 DEF ExistsBijection, Bijection, Injection, IsInjective
<1>3. f \in [1..n -> S] /\ IsInjective(f) BY <1>2 DEF SetToSeq
<1> HIDE DEF f
<1>4. f \in Injection(1..n, S) BY <1>3 DEF Injection, IsInjective
<1>5. Cardinality(1..n) = n BY <1>1, FS_Interval
<1>6. f \in Surjection(1..n, S) BY <1>4, <1>5, FS_Injection
<1>7. f \in Seq(S) /\ DOMAIN f = 1..n BY <1>1, <1>3
<1>8. \A x \in S : \E k \in 1..n : f[k] = x BY <1>6 DEF Surjection
<1> QED BY <1>7, <1>8 DEF f

LEMMA PostedOK ==
    ASSUME MailOK, NEW m \in GoodLetters, NEW t
    PROVE  Posted(mail, t, m) \in [Tabs -> Seq(GoodLetters)]
<1> DEFINE a == Append(mail[t], m)
<1>1. t \in Tabs => a \in Seq(GoodLetters) BY DEF MailOK
<1>2. Posted(mail, t, m) = [mail EXCEPT ![t] = a] BY DEF Posted
<1> HIDE DEF a
<1> QED BY <1>1, <1>2 DEF MailOK

LEMMA CancelIsGood ==
    ASSUME NEW i \in Slots, NEW s, s.tx \in Txs PROVE CancelFor(i, s) \in GoodLetters
  BY AgentAssumption DEF CancelFor, GoodLetters, Letters, Doing

LEMMA CancelledOK ==
    ASSUME Typed, NEW i \in Slots, op[i] # None
    PROVE  Cancelled(mail, i) \in [Tabs -> Seq(GoodLetters)]
BY CancelIsGood, PostedOK DEF Cancelled, Typed, MailOK, OpsOK, SlotOK, Operations, Pending

(* The cancellations of the sessions ps, by tab. *)
Withdrawing(ps, t) ==
    {CancelFor(i, op[i].sub) : i \in {j \in ps : op[j].sub # None /\ op[j].sub.tab = t}}
LEMMA WithdrawnIs ==
    ASSUME Typed, NEW ps \in SUBSET Slots, \A i \in ps : op[i] # None, NEW t \in Tabs
    PROVE  /\ Withdrawn(ps)[t] = mail[t] \o SetToSeq(Withdrawing(ps, t))
           /\ SetToSeq(Withdrawing(ps, t)) \in Seq(GoodLetters)
           /\ SetToSeq(Withdrawing(ps, t)) \in Seq(Withdrawing(ps, t))
           /\ \A m \in Withdrawing(ps, t) : \E n \in DOMAIN SetToSeq(Withdrawing(ps, t)) :
                 SetToSeq(Withdrawing(ps, t))[n] = m
<1> DEFINE P == {j \in ps : op[j].sub # None /\ op[j].sub.tab = t}
           W == Withdrawing(ps, t)
           f == [i \in P |-> CancelFor(i, op[i].sub)]
<1>1. IsFiniteSet(P) BY AgentAssumption, FS_Subset
<1>2. W = {CancelFor(i, op[i].sub) : i \in P} BY DEF Withdrawing
<1> HIDE DEF P, W
<1>3. f \in Surjection(P, W) BY <1>2 DEF Surjection
<1>4. IsFiniteSet(W) BY <1>1, <1>3, FS_Surjection
<1>5. \A m \in W : m \in GoodLetters
  BY <1>2, CancelIsGood DEF P, Typed, OpsOK, SlotOK, Operations, Pending
<1>6. SetToSeq(W) \in Seq(W) /\ \A x \in W : \E n \in DOMAIN SetToSeq(W) : SetToSeq(W)[n] = x
  BY <1>4, SeqOfSet
<1>7. SetToSeq(W) \in Seq(GoodLetters)
  <2>1. PICK q : q = SetToSeq(W) OBVIOUS
  <2>2. q \in Seq(W) BY <1>6, <2>1
  <2>3. q \in Seq(GoodLetters) BY <1>5, <2>2
  <2> QED BY <2>1, <2>3
<1>8. Withdrawn(ps)[t] = mail[t] \o SetToSeq(W)
  BY Zenon DEF Withdrawn, W, Withdrawing
<1> QED BY <1>6, <1>7, <1>8 DEF W

LEMMA WithdrawnOK ==
    ASSUME Typed, NEW ps \in SUBSET Slots, \A i \in ps : op[i] # None
    PROVE  Withdrawn(ps) \in [Tabs -> Seq(GoodLetters)]
<1>1. \A t \in Tabs : Withdrawn(ps)[t] \in Seq(GoodLetters)
  <2> SUFFICES ASSUME NEW t \in Tabs PROVE Withdrawn(ps)[t] \in Seq(GoodLetters)
    OBVIOUS
  <2>1. PICK q : q = SetToSeq(Withdrawing(ps, t)) OBVIOUS
  <2>2. q \in Seq(GoodLetters) /\ Withdrawn(ps)[t] = mail[t] \o q
    BY <2>1, WithdrawnIs
  <2>3. mail[t] \in Seq(GoodLetters) BY DEF Typed, MailOK
  <2> QED BY <2>2, <2>3
<1>2. Withdrawn(ps) = [t \in Tabs |-> Withdrawn(ps)[t]] BY Zenon DEF Withdrawn
<1> QED BY <1>1, <1>2

-----------------------------------------------------------------------------
LEMMA Put ==
    ASSUME OpsOK, NEW i \in Slots, NEW o, SlotOK(o), At(i, o) PROVE OpsOK'
  BY DEF OpsOK, At, SlotOK, IsFcn, CallOK, Stage

LEMMA EditOK ==
    ASSUME OpsOK, NEW i \in Slots, op[i] # None, NEW tab \in Tabs \cup {None},
           NEW act \in BOOLEAN, NEW clo \in BOOLEAN, NEW pr \in {None} \cup Plans,
           NEW su \in {None} \cup Pending, NEW ca, ca = None \/ CallOK(ca),
           At(i, Edit(i, tab, act, clo, pr, su, ca))
    PROVE  OpsOK'
<1> DEFINE o == Edit(i, tab, act, clo, pr, su, ca)
<1>1. op[i] \in Operations BY DEF OpsOK, SlotOK
<1>2. ca \in {None} \cup Calls BY DEF CallOK
<1>3. o \in Operations /\ o.call = ca BY <1>1, <1>2 DEF Operations, Edit
<1>4. SlotOK(o) BY <1>3 DEF SlotOK
<1> QED BY <1>4, Put

LEMMA OpFields ==
    ASSUME OpsOK, NEW i \in Slots, op[i] # None
    PROVE  /\ op[i].tab \in Tabs \cup {None} /\ op[i].active \in BOOLEAN
           /\ op[i].closing \in BOOLEAN /\ op[i].prep \in {None} \cup Plans
           /\ op[i].sub \in {None} \cup Pending
           /\ op[i].call = None \/ CallOK(op[i].call)
           /\ op[i].id \in Ids \cup {None} /\ op[i].port \in 1..MaxPorts
  BY DEF OpsOK, SlotOK, Operations

LEMMA CallPlain ==
    ASSUME NEW kind \in Preparations \cup {"probe"}, NEW t \in Tabs \cup {None},
           t = None => kind = "pinned"
    PROVE  CallOK(Call(kind, t, None, 0, None))
BY AgentAssumption, CallNew DEF KindNames, Guarded, Preparations

LEMMA OpsHost ==
    ASSUME Typed, NEW i \in Slots, Host(i) \/ CancelSubmit(i) PROVE OpsOK'
<1>1. OpsOK BY DEF Typed
<1>2. CASE LegacySession(i)
  <2>1. Operation(None, None, None) \in Operations /\ Operation(None, None, None).call = None
    BY <1>2, AgentAssumption DEF LegacySession, Usable, Operation, Operations, Typed, BridgeTyped
  <2>2. SlotOK(Operation(None, None, None)) BY <2>1 DEF SlotOK
  <2>3. At(i, Operation(None, None, None))
    BY <1>1, <1>2 DEF LegacySession, At, IsFcn, OpsOK
  <2> QED BY <1>1, <2>2, <2>3, Put
<1>3. ASSUME NEW id \in Ids, NewOperation(i, id) PROVE OpsOK'
  <2>1. PICK t \in Tabs \cup {None} : \E c :
          op' = [op EXCEPT ![i] = Operation(id, t, c)] /\ CallOK(c)
    BY CallPlain, AgentAssumption, <1>3 DEF Preparations, NewOperation
  <2>11. PICK c : op' = [op EXCEPT ![i] = Operation(id, t, c)] /\ CallOK(c)
    BY <2>1
  <2>2. port \in 1..MaxPorts
    BY <1>3, AgentAssumption DEF NewOperation, Usable, Typed, BridgeTyped
  <2>3. Operation(id, t, c) \in Operations /\ Operation(id, t, c).call = c
    BY <2>11, <2>2 DEF Operation, Operations, CallOK
  <2>4. SlotOK(Operation(id, t, c)) BY <2>11, <2>3 DEF SlotOK
  <2>5. At(i, Operation(id, t, c)) BY <1>1, <2>11 DEF At, IsFcn, OpsOK
  <2> QED BY <1>1, <2>4, <2>5, Put
<1>4. CASE Prepare(i)
  <2>1. op[i] # None BY <1>4 DEF Prepare, Turn, Of
  <2>2. PICK kind \in Preparations, t \in Tabs \cup {None} :
          /\ op' = [op EXCEPT ![i].sub = None, ![i].call = Call(kind, t, None, 0, None)]
          /\ t = None => kind = "pinned"
    BY <1>4, AgentAssumption DEF Prepare
  <2>3. CallOK(Call(kind, t, None, 0, None)) BY <2>2, CallPlain
  <2>4. PICK c : c = Call(kind, t, None, 0, None) OBVIOUS
  <2>5. At(i, Edit(i, op[i].tab, op[i].active, op[i].closing, op[i].prep, None, c))
    BY <1>1, <2>1, <2>2, <2>4, EditPrepare
  <2> QED BY <1>1, <2>1, <2>3, <2>4, <2>5, EditOK, OpFields
<1>5. CASE Close(i) BY <1>5, <1>1, EditClose, EditOK, OpFields DEF Close, Of
<1>6. CASE CancelSubmit(i)
  <2> QED BY <1>1, <1>6, EditSub, EditOK, OpFields DEF CancelSubmit
<1>7. ASSUME NEW tx \in Txs, Commit(i, tx) PROVE OpsOK'
  <2>1. op[i] # None /\ op[i].sub # None BY <1>7 DEF Commit, Turn, Of
  <2>2. op[i].sub \in Pending BY <1>1, <2>1, OpFields
  <2>3. CASE op' = [op EXCEPT ![i].sub = None]
    BY <1>1, <2>1, <2>3, EditSub, EditOK, OpFields
  <2>4. CASE op' = [op EXCEPT ![i].sub = None,
              ![i].call = Call("commit", op[i].sub.tab, tx, op[i].sub.doc, op[i].sub.tx)]
    <3>1. CallOK(Call("commit", op[i].sub.tab, tx, op[i].sub.doc, op[i].sub.tx))
      BY <2>2, CallNew, AgentAssumption DEF KindNames, Pending
    <3>2. PICK c : c = Call("commit", op[i].sub.tab, tx, op[i].sub.doc, op[i].sub.tx)
      OBVIOUS
    <3>3. At(i, Edit(i, op[i].tab, op[i].active, op[i].closing, op[i].prep, None, c))
      BY <1>1, <2>1, <2>4, <3>2, EditPrepare
    <3> QED BY <1>1, <2>1, <3>1, <3>2, <3>3, EditOK, OpFields
  <2> QED BY <1>7, <2>3, <2>4, Zenon DEF Commit
<1>8. ASSUME NEW tx \in Txs, NEW k \in DOMAIN Needs, Use(i, k, tx) PROVE OpsOK'
  <2>1. op[i] # None BY <1>8 DEF Use, Turn, Of
  <2>2. k \in {"capture", "inject", "relay", "fill"} BY DEF Needs
  <2>3. PICK c : /\ op' = [op EXCEPT ![i].sub = None, ![i].prep = None, ![i].call = c]
                 /\ c = None \/ CallOK(c)
    <3>1. PICK c \in {Call(k, q.tab, tx, q.doc, None) :
                        q \in {r \in {op[i].prep} \ {None} : r.how \in Needs[k]}} \cup {None} :
            op' = [op EXCEPT ![i].sub = None, ![i].prep = None, ![i].call = c]
      BY <1>8, Zenon DEF Use
    <3>2. ASSUME c # None PROVE CallOK(c)
      BY <1>1, <2>1, <3>1, <3>2, OpFields, <2>2, CallNew, AgentAssumption DEF KindNames, Plans
    <3> QED BY <3>1, <3>2
  <2>4. At(i, Edit(i, op[i].tab, op[i].active, op[i].closing, None, None, c))
    BY <1>1, <2>1, <2>3, EditUse
  <2>5. /\ op[i].tab \in Tabs \cup {None} /\ op[i].active \in BOOLEAN
        /\ op[i].closing \in BOOLEAN
    BY <1>1, <2>1, OpFields
  <2> QED BY <1>1, <2>1, <2>3, <2>4, <2>5, EditOK
<1> QED BY <1>2, <1>3, <1>4, <1>5, <1>6, <1>7, <1>8 DEF Host

(* Who reads the stored transactions waits for them. *)
ReadsOK == \A r \in reads : /\ Waits(r.by, {"consume"}) /\ op[r.by].call.tx = r.tx
                            /\ r.new => r.tx \notin used
                            /\ \A q \in reads : q = r

LEMMA OpAnswered ==
    ASSUME OpsOK, NEW i \in Slots, HasCall(i), NEW a \in Waiting..MaxDocs,
           op[i].call.tab = None => a \in {Waiting, 0}, op' = Answer(op, i, a)
    PROVE  OpsOK'
<1>1. CallOK(op[i].call) BY OpFields DEF HasCall
<1>2. CallOK(Ans(op[i].call, a)) BY <1>1, AnsOK
<1>3. PICK c : c = Ans(op[i].call, a) OBVIOUS
<1>4. At(i, Edit(i, op[i].tab, op[i].active, op[i].closing, op[i].prep, op[i].sub, c))
  BY <1>3, EditAns
<1> QED BY <1>2, <1>3, <1>4, EditOK, OpFields DEF HasCall

LEMMA OpsTold ==
    ASSUME OpsOK, NEW by \in Slots \cup {Gone}, NEW kind \in PageWork, NEW tx,
           NEW a \in 0..MaxDocs, Told(by, kind, tx, a)
    PROVE  OpsOK'
<1>1. CASE op' = op BY <1>1 DEF OpsOK, IsFcn, SlotOK, CallOK, Stage
<1>2. CASE by # Gone /\ Waits(by, {kind}) /\ op' = Answer(op, by, a)
  BY <1>2, OpFields, AgentAssumption, OpAnswered DEF Waits, HasCall, CallOK, PageWork, Waiting
<1> QED BY <1>1, <1>2 DEF Told

LEMMA OpsContinue ==
    ASSUME OpsOK, NEW i \in Slots, Continue(i) PROVE OpsOK'
<1> DEFINE c == op[i].call
<1>1. HasCall(i) /\ c.ans # Waiting BY DEF Continue, HasCall
<1>2. CallOK(c) BY <1>1, OpFields DEF HasCall
<1>3. c.ans \in 0..MaxDocs
  BY <1>1, <1>2, AgentAssumption DEF CallOK, Calls, Waiting
<1>4. CASE Fails(i, c) BY <1>1, <1>4, EditFails, EditOK, OpFields DEF HasCall
<1>5. CASE Good(i, c) /\ c.at < Len(Script[c.kind]) /\ Goes(i, c)
  <2> DEFINE tab == IF Stage(c) = "active" /\ op[i].id # None THEN c.tab ELSE op[i].tab
             sub == IF Stage(GoesTo(c)) = "fill" THEN FillSub(GoesTo(c)) ELSE op[i].sub
  <2>1. CallOK(GoesTo(c)) /\ c.tab # None
        /\ (Stage(GoesTo(c)) = "fill" => FillSub(GoesTo(c)) \in Pending)
    BY <1>1, <1>2, <1>5, GoesOK DEF Good
  <2>2. At(i, Edit(i, tab, op[i].active, op[i].closing, op[i].prep, sub, GoesTo(c)))
    BY <1>1, <1>5, EditGoes
  <2>3. tab \in Tabs \cup {None} /\ sub \in {None} \cup Pending
    BY <1>1, <1>2, <2>1, OpFields DEF HasCall, CallOK, Calls
  <2> HIDE DEF tab, sub
  <2> QED BY <1>1, <2>1, <2>2, <2>3, EditOK, OpFields DEF HasCall
<1>6. CASE Good(i, c) /\ ~(c.at < Len(Script[c.kind])) /\ Ends(i, c)
  <2>1. c.tab \in Tabs /\ c.ans \in 1..MaxDocs
    BY <1>1, <1>2, <1>3, <1>6 DEF Good, Found, CallOK, Calls
  <2>2. EndPrep(i, c) \in {None} \cup Plans
    BY <1>1, <2>1, OpFields DEF EndPrep, Prepared, Plans, Preparations, HasCall
  <2>3. EndSub(i, c) \in {None} \cup Pending
    <3>1. CASE c.kind = "fill"
      <4>1. c.at = 4
        <5>1. PICK n : n = Len(Script[c.kind]) OBVIOUS
        <5>2. n = 4 /\ c.at \in 1..n /\ ~(c.at < n)
          BY <1>2, <1>6, <3>1, <5>1, Lengths, CallKind
        <5> QED BY <5>2
      <4>2. op[i].sub # None BY <1>6, <3>1, <4>1 DEF Good
      <4>3. op[i].sub \in Pending BY <1>1, <4>2, OpFields DEF HasCall
      <4> QED BY <3>1, <4>3 DEF EndSub, Pending
    <3>2. CASE c.kind # "fill" BY <1>1, <3>2, OpFields DEF EndSub, HasCall
    <3> QED BY <3>1, <3>2
  <2>4. At(i, Edit(i, op[i].tab, op[i].active, op[i].closing, EndPrep(i, c), EndSub(i, c), None))
    BY <1>1, <1>6, EditEnds
  <2> QED BY <1>1, <2>2, <2>3, <2>4, EditOK, OpFields DEF HasCall
<1> QED BY <1>4, <1>5, <1>6, Zenon DEF Continue

LEMMA EditFinish ==
    ASSUME OpsOK, NEW i \in Slots, FinishClose(i)
    PROVE  /\ op[i] # None /\ ~op[i].active /\ op[i].call = None
           /\ op[i].closing => At(i, None)
           /\ ~op[i].closing =>
                At(i, Edit(i, op[i].tab, op[i].active, TRUE, op[i].prep, None, op[i].call))
<1>1. op[i] # None /\ ~op[i].active /\ op[i].call = None
  BY DEF FinishClose, PageSettled
<1>2. CASE op[i].closing BY <1>1, <1>2 DEF FinishClose, At, IsFcn, OpsOK
<1>3. CASE ~op[i].closing
  <2>1. PICK r : r = [op[i] EXCEPT !.closing = TRUE, !.sub = None] OBVIOUS
  <2>2. op' = [op EXCEPT ![i] = r] BY <1>3, <2>1 DEF FinishClose
  <2>3. r = Edit(i, op[i].tab, op[i].active, TRUE, op[i].prep, None, op[i].call)
    BY <1>1, <2>1 DEF Edit, Operations, OpsOK, SlotOK
  <2> QED BY <1>1, <1>3, <2>2, <2>3 DEF At, IsFcn, OpsOK
<1> QED BY <1>1, <1>2, <1>3

LEMMA OpsWorker ==
    ASSUME Typed, NEW i \in Slots, Worker(i) \/ TimesOut(i) PROVE OpsOK'
<1>1. OpsOK BY DEF Typed
<1>2. CASE Looked(i)
  <2>1. CASE Waits(i, {"look"})
    <3>1. HasCall(i) /\ op[i].call.tab \in Tabs /\ op[i].call.tab # None
      BY <1>1, <2>1, OpFields, AgentAssumption DEF Waits, HasCall, CallOK, Calls
    <3>2. PICK d \in {0, page[op[i].call.tab].doc} : op' = Answer(op, i, d)
      BY <1>2, <2>1, Zenon DEF Looked, Waits
    <3>3. d \in Waiting..MaxDocs
      BY <3>1, <3>2, AgentAssumption DEF Typed, PagesOK, Waiting
    <3> QED BY <1>1, <3>1, <3>2, <3>3, OpAnswered
  <2>2. CASE Waits(i, {"active"})
    <3>1. HasCall(i) BY <2>2 DEF Waits, HasCall
    <3>2. CASE op' = Answer(op, i, 0)
      BY AgentAssumption, <1>1, <3>1, <3>2, OpAnswered DEF Waiting
    <3>3. ASSUME NEW t \in Tabs, op' = [op EXCEPT ![i].call.tab = t, ![i].call.ans = 1]
          PROVE  OpsOK'
      <4> DEFINE c == op[i].call
                 d == [kind |-> c.kind, at |-> c.at, tab |-> t, tx |-> c.tx, doc |-> c.doc,
                       plan |-> c.plan, for |-> c.for, ans |-> 1]
      <4>1. CallOK(c) BY <1>1, <3>1, OpFields DEF HasCall
      <4>2. d \in Calls BY <4>1, AgentAssumption DEF CallOK, Calls, Waiting
      <4>3. CallOK(d) BY <4>1, <4>2, AgentAssumption DEF CallOK
      <4>4. At(i, Edit(i, op[i].tab, op[i].active, op[i].closing, op[i].prep, op[i].sub, d))
        BY <1>1, <3>1, <3>3, EditActive
      <4> HIDE DEF d
      <4> QED BY <1>1, <3>1, <4>3, <4>4, EditOK, OpFields DEF HasCall
    <3> QED BY <1>2, <2>2, <3>2, <3>3, Zenon DEF Looked, Waits
  <2> QED BY <1>2, <2>1, <2>2 DEF Looked
<1>3. CASE ReadUsed(i)
  BY <1>1, <1>3 DEF ReadUsed, OpsOK, IsFcn, SlotOK, CallOK, Stage
<1>4. CASE Continue(i) BY <1>1, <1>4, OpsContinue
<1>5. CASE FinishClose(i)
  BY <1>1, <1>5, EditFinish, Put, EditOK, OpFields DEF SlotOK
<1>6. CASE TimesOut(i)
  <2>1. HasCall(i) /\ op' = Answer(op, i, 0) /\ 0 \in Waiting..MaxDocs
    BY <1>6, AgentAssumption DEF TimesOut, Waits, HasCall, Waiting
  <2> QED BY <1>1, <2>1, OpAnswered
<1> QED BY <1>2, <1>3, <1>4, <1>5, <1>6 DEF Worker

LEMMA OpsWrite ==
    ASSUME Typed, ReadsOK, NEW r \in reads, WriteUsed(r) PROVE OpsOK'
<1>1. r.by \in Slots /\ HasCall(r.by) /\ Waits(r.by, {"consume"})
  BY DEF ReadsOK, Waits, HasCall, Typed, GuardOK
<1>2. op[r.by].call.tab # None
  BY <1>1, OpFields DEF Waits, HasCall, CallOK, Typed
<1>3. PICK a \in {0, 1} : op' = Answer(op, r.by, a) BY Zenon DEF WriteUsed
<1>4. a \in Waiting..MaxDocs BY AgentAssumption DEF Waiting
<1> QED BY <1>1, <1>2, <1>3, <1>4, OpAnswered DEF Typed

LEMMA HeldTyped ==
    ASSUME Typed, NEW t \in Tabs
    PROVE  /\ page[t].doc \in 1..MaxDocs
           /\ page[t].held # None => page[t].held \in Held /\ page[t].held.by \in Slots \cup {Gone}
  BY DEF Typed, PagesOK, Held

LEMMA HeadTyped ==
    ASSUME Typed, NEW t \in Tabs, mail[t] # <<>>
    PROVE  Head(mail[t]) \in GoodLetters /\ Head(mail[t]) \in Letters
           /\ Head(mail[t]).by \in Slots \cup {Gone}
<1>1. mail[t] \in Seq(GoodLetters) BY DEF Typed, MailOK
<1>2. Head(mail[t]) \in GoodLetters BY <1>1
<1> QED BY <1>2 DEF GoodLetters, Letters

LEMMA OpsDrops ==
    ASSUME Typed, NEW t \in Tabs, Drops(t) PROVE OpsOK'
<1> DEFINE h == page[t].held
<1>0. OpsOK BY DEF Typed
<1>1. CASE h # None /\ ~h.ready
  BY <1>1, <1>0, HeldTyped, OpsTold, AgentAssumption DEF Drops, PageWork
<1>2. CASE ~(h # None /\ ~h.ready)
  BY <1>2, <1>0 DEF Drops, OpsOK, IsFcn, SlotOK, CallOK, Stage
<1> QED BY <1>1, <1>2

LEMMA OpsPages ==
    ASSUME Typed, NEW t \in Tabs,
           PageTakes(t) \/ PageReady(t) \/ PageDrops(t) \/ Navigate(t)
    PROVE  OpsOK'
<1>0. OpsOK /\ (op' = op => OpsOK')
  BY DEF Typed, OpsOK, IsFcn, SlotOK, CallOK, Stage
<1>1. CASE PageTakes(t)
  <2> DEFINE m == Head(mail[t])
  <2>0. mail[t] # <<>> BY <1>1 DEF PageTakes
  <2>1. m.by \in Slots \cup {Gone} /\ {0, 1} \subseteq 0..MaxDocs
    BY <2>0, HeadTyped, AgentAssumption
  <2>2. CASE Cancels(t, m) BY <1>0, <2>2, OpsDrops DEF Cancels
  <2>3. CASE Inspects(t, m)
    <3>1. PICK d \in {0, page[t].doc} : Told(m.by, m.kind, m.tx, d)
      BY <2>3, Zenon DEF Inspects
    <3>2. m.kind \in PageWork /\ d \in 0..MaxDocs
      BY <2>1, <2>3, <3>1, HeldTyped DEF Inspects, PageWork
    <3> QED BY <1>0, <2>1, <3>1, <3>2, OpsTold
  <2>4. CASE Reads(t, m)
    <3>1. PICK d \in {0, 1} : Told(m.by, m.kind, m.tx, d)
      BY <2>4, Zenon DEF Reads
    <3>2. m.kind \in PageWork BY <2>4 DEF Reads, PageWork
    <3> QED BY <1>0, <2>1, <3>1, <3>2, OpsTold
  <2>5. CASE Fills(t, m) BY <2>5, <1>0, <2>1, OpsTold DEF Fills, PageWork
  <2>6. CASE Submits(t, m)
    <3>1. PICK d \in {0, 1} : Told(m.by, "commit", m.tx, d)
      BY <2>6, Zenon DEF Submits
    <3>2. "commit" \in PageWork BY DEF PageWork
    <3> QED BY <1>0, <2>1, <3>1, <3>2, OpsTold
  <2> QED BY <1>1, <2>2, <2>3, <2>4, <2>5, <2>6, Zenon DEF PageTakes
<1>2. CASE PageReady(t)
  BY <1>2, <1>0, HeldTyped, OpsTold, AgentAssumption DEF PageReady, PageWork
<1>3. CASE PageDrops(t) BY <1>3, OpsDrops DEF PageDrops
<1>4. CASE Navigate(t)
  <2>1. op' = [i \in Slots |-> IF Waits(i, PageWork) /\ op[i].call.tab = t
                               THEN [op[i] EXCEPT !.call.ans = 0] ELSE op[i]]
    BY <1>4 DEF Navigate
  <2> SUFFICES ASSUME NEW i \in Slots PROVE SlotOK(op'[i])
    BY <2>1 DEF OpsOK, IsFcn, SlotOK, CallOK, Stage
  <2>2. CASE op'[i] = op[i] BY <1>0, <2>2 DEF OpsOK
  <2>3. CASE Waits(i, PageWork) /\ op'[i] = [op[i] EXCEPT !.call.ans = 0]
    <3>1. HasCall(i) /\ CallOK(op[i].call) /\ op[i] \in Operations
      BY <1>0, <2>3, OpFields DEF Waits, HasCall, OpsOK, SlotOK
    <3>2. PICK c : c = Ans(op[i].call, 0) OBVIOUS
    <3>3. CallOK(c) BY <3>1, <3>2, AnsOK, AgentAssumption DEF Waiting
    <3>4. PICK r : r = [op[i] EXCEPT !.call.ans = 0] OBVIOUS
    <3>5. r = Edit(i, op[i].tab, op[i].active, op[i].closing, op[i].prep, op[i].sub, c)
      BY <3>1, <3>2, <3>4 DEF Edit, Operations, Ans, CallOK, Calls
    <3>6. r \in Operations /\ r.call = c
      BY <3>1, <3>3, <3>5 DEF Edit, Operations, CallOK
    <3> QED BY <2>3, <3>3, <3>4, <3>6 DEF SlotOK
  <2> QED BY <2>1, <2>2, <2>3
<1> QED BY <1>1, <1>2, <1>3, <1>4

LEMMA OpsDispose ==
    ASSUME OpsOK, Dispose
    PROVE  /\ OpsOK' /\ IsFcn(op', Slots)
           /\ \A i \in Slots : op'[i] = IF i \in Of(port)
                THEN Edit(i, op[i].tab, FALSE, op[i].closing, op[i].prep, None, op[i].call)
                ELSE op[i]
<1>1. op' = [i \in Slots |-> IF i \in Of(port) THEN Revoked(op[i]) ELSE op[i]]
  BY DEF Dispose
<1>2. ASSUME NEW i \in Slots
      PROVE  /\ op'[i] = IF i \in Of(port)
                THEN Edit(i, op[i].tab, FALSE, op[i].closing, op[i].prep, None, op[i].call)
                ELSE op[i]
             /\ SlotOK(op'[i])
  <2>1. CASE i \in Of(port)
    <3>1. op[i] \in Operations /\ (op[i].call # None => CallOK(op[i].call))
      BY <2>1 DEF Of, OpsOK, SlotOK
    <3>2. PICK r : r = [op[i] EXCEPT !.active = FALSE, !.sub = None] OBVIOUS
    <3>3. r = Edit(i, op[i].tab, FALSE, op[i].closing, op[i].prep, None, op[i].call)
      BY <3>1, <3>2 DEF Edit, Operations
    <3>4. r \in Operations /\ r.call = op[i].call
      BY <3>1, <3>3 DEF Edit, Operations
    <3> QED BY <1>1, <2>1, <3>1, <3>2, <3>3, <3>4 DEF Revoked, SlotOK
  <2>2. CASE i \notin Of(port) BY <1>1, <2>2 DEF OpsOK
  <2> QED BY <2>1, <2>2
<1>3. IsFcn(op', Slots) BY <1>1 DEF IsFcn
<1> QED BY <1>2, <1>3, Zenon DEF OpsOK, SlotOK, CallOK, Stage

(* Steps that leave the operations alone. *)
Bystanders == Startup \/ AlarmFires \/ OpenPort \/ Handshake \/ Seal

LEMMA OpsNext == ASSUME Typed, ReadsOK, [Next]_vars PROVE OpsOK'
<1>0. OpsOK /\ (op' = op => OpsOK')
  BY DEF Typed, OpsOK, IsFcn, SlotOK, CallOK, Stage
<1>1. CASE Bystanders \/ UNCHANGED vars
  BY <1>0, <1>1, Zenon DEF Bystanders, Startup, AlarmFires, OpenPort, Handshake, Seal, vars
<1>2. CASE HandshakeTimeout \/ HostDisconnects \/ BadFrame
  BY <1>0, <1>2, OpsDispose DEF HandshakeTimeout, HostDisconnects, BadFrame, DropPort
<1>3. CASE Deliver BY <1>3, <1>0, OpsDispose DEF Deliver, DropPort
<1>4. CASE Restart BY <1>4 DEF Restart, OpsOK, IsFcn, SlotOK
<1>5. ASSUME NEW i \in Slots, Worker(i) \/ Host(i) \/ TimesOut(i) \/ CancelSubmit(i)
      PROVE  OpsOK'
  BY <1>5, OpsWorker, OpsHost
<1>6. ASSUME NEW r \in reads, WriteUsed(r) PROVE OpsOK' BY <1>6, OpsWrite
<1>7. ASSUME NEW t \in Tabs,
             PageTakes(t) \/ PageReady(t) \/ PageDrops(t) \/ Navigate(t)
      PROVE  OpsOK'
  BY <1>7, OpsPages
<1> QED BY <1>1, <1>2, <1>3, <1>4, <1>5, <1>6, <1>7, Zenon DEF Next, Bystanders

-----------------------------------------------------------------------------
(* The letters. *)
LEMMA MessageIsGood ==
    ASSUME NEW i \in Slots, NEW c, CallOK(c), Stage(c) \in PageWork
    PROVE  Message(Stage(c), i, c) \in GoodLetters
<1>1. c \in Calls /\ c.kind \in KindNames /\ c.at \in 1..Len(Script[c.kind])
  BY CallKind DEF CallOK
<1>2. Stage(c) \in Doing => c.kind \in Guarded BY <1>1, Stages DEF Stage
<1>3. Stage(c) \in Doing => c.tx \in Txs BY <1>2 DEF CallOK
<1>4. PICK s : s = Stage(c) OBVIOUS
<1>5. Message(s, i, c) \in Letters /\ Message(s, i, c).kind = s /\ Message(s, i, c).tx = c.tx
  BY <1>1, <1>4 DEF Message, Letters, Calls
<1> QED BY <1>3, <1>4, <1>5 DEF GoodLetters

LEMMA CommitFor ==
    ASSUME NEW i \in Slots, NEW c, CallOK(c)
    PROVE  /\ c.kind = "commit" => CancelFor(i, [tx |-> c.for]) \in GoodLetters
           /\ c.kind = "fill" => CancelFor(i, c) \in GoodLetters
<1>1. ASSUME c.kind = "commit" PROVE CancelFor(i, [tx |-> c.for]) \in GoodLetters
  BY <1>1, CancelIsGood DEF CallOK
<1>2. ASSUME c.kind = "fill" PROVE CancelFor(i, c) \in GoodLetters
  BY <1>2, CancelIsGood DEF CallOK, Guarded
<1> QED BY <1>1, <1>2

LEMMA MailContinue ==
    ASSUME Typed, NEW i \in Slots, Continue(i) PROVE MailOK'
<1> DEFINE c == op[i].call
<1>1. HasCall(i) /\ c.ans # Waiting /\ op[i] # None BY DEF Continue, HasCall
<1>2. CallOK(c) /\ OpsOK /\ MailOK BY <1>1, OpFields DEF HasCall, Typed
<1>3. CASE Fails(i, c)
  <2>1. CASE c.kind = "commit"
    BY <1>2, <1>3, <2>1, CommitFor, PostedOK DEF Fails, MailOK
  <2>2. CASE c.kind # "commit" /\ TakesBack(i, c)
    <3>1. c.kind = "fill" BY <1>2, <2>2, CallKind, Stages DEF TakesBack, Stage
    <3> QED BY <1>2, <1>3, <2>2, <3>1, CommitFor, PostedOK DEF Fails, MailOK
  <2>3. CASE c.kind # "commit" /\ ~TakesBack(i, c)
    BY <1>3, <2>3, <1>1, <1>2, CancelledOK DEF Fails, MailOK
  <2> QED BY <2>1, <2>2, <2>3
<1>5. CASE Good(i, c) /\ c.at < Len(Script[c.kind]) /\ Goes(i, c)
  <2>1. CallOK(GoesTo(c)) BY <1>1, <1>2, <1>5, GoesOK DEF Good
  <2>2. PICK d : d = GoesTo(c) OBVIOUS
  <2>3. mail' = IF Stage(d) \in PageWork THEN Posted(mail, d.tab, Message(Stage(d), i, d)) ELSE mail
    BY <1>1, <1>2, <1>5, <2>2, EditGoes
  <2> QED BY <1>2, <2>1, <2>2, <2>3, MessageIsGood, PostedOK DEF MailOK
<1>6. CASE Ends(i, c) BY <1>2, <1>6, CommitFor, PostedOK DEF Ends, MailOK
<1> QED BY <1>3, <1>5, <1>6, Zenon DEF Continue

LEMMA Renamed ==
    ASSUME NEW s \in Seq(GoodLetters), NEW S, NEW r,
           r = [n \in DOMAIN s |-> IF n \in S THEN [s[n] EXCEPT !.by = Gone] ELSE s[n]]
    PROVE  r \in Seq(GoodLetters)
<1>1. ASSUME NEW n \in DOMAIN s PROVE r[n] \in GoodLetters
  <2>1. s[n] \in GoodLetters BY SeqElement
  <2>2. PICK m : m = [s[n] EXCEPT !.by = Gone] OBVIOUS
  <2>3. m \in Letters /\ m.kind = s[n].kind /\ m.tx = s[n].tx
    BY <2>1, <2>2 DEF GoodLetters, Letters
  <2>4. m \in GoodLetters BY <2>1, <2>3 DEF GoodLetters
  <2> QED BY <2>1, <2>2, <2>4
<1>2. DOMAIN s = 1..Len(s) /\ Len(s) \in Nat OBVIOUS
<1>3. r \in [1..Len(s) -> GoodLetters] BY <1>1, <1>2
<1> QED BY <1>2, <1>3

LEMMA MailNext == ASSUME Typed, [Next]_vars PROVE MailOK'
<1>0. MailOK /\ OpsOK /\ (mail' = mail => MailOK') BY DEF Typed, MailOK
<1>1. CASE Bystanders \/ UNCHANGED vars \/ \E r \in reads : WriteUsed(r)
  BY <1>0, <1>1, Zenon DEF Bystanders, Startup, AlarmFires, OpenPort, Handshake, Seal, WriteUsed,
     vars, pages
<1>2. CASE Dispose BY <1>2, WithdrawnOK DEF Of, Dispose, MailOK
<1>3. CASE HandshakeTimeout \/ HostDisconnects \/ BadFrame
  BY <1>2, <1>3 DEF HandshakeTimeout, HostDisconnects, BadFrame, DropPort
<1>4. CASE Deliver BY <1>4, <1>0, <1>2 DEF Deliver, DropPort, pages
<1>5. CASE Restart
  <2>1. mail' = [t \in Tabs |-> [n \in DOMAIN mail[t] |-> [mail[t][n] EXCEPT !.by = Gone]]]
    BY <1>5 DEF Restart
  <2>2. ASSUME NEW t \in Tabs PROVE mail'[t] \in Seq(GoodLetters)
    <3>1. PICK s : s = mail[t] OBVIOUS
    <3>2. s \in Seq(GoodLetters) BY <1>0, <3>1 DEF MailOK
    <3>3. mail'[t] = [n \in DOMAIN s |-> IF n \in DOMAIN s THEN [s[n] EXCEPT !.by = Gone] ELSE s[n]]
      BY <2>1, <3>1
    <3> QED BY <3>2, <3>3, Renamed
  <2> QED BY <2>1, <2>2 DEF MailOK
<1>6. ASSUME NEW i \in Slots, Worker(i) \/ Host(i) \/ TimesOut(i) \/ CancelSubmit(i)
      PROVE  MailOK'
  <2>1. CASE mail' = mail BY <1>0, <2>1
  <2>2. CASE op[i] # None /\ mail' = Cancelled(mail, i)
    BY <2>2, CancelledOK DEF MailOK
  <2>3. CASE Continue(i) BY <2>3, MailContinue
  <2>4. CASE TimesOut(i)
    <3> DEFINE c == op[i].call
    <3>1. mail' = [mail EXCEPT ![c.tab] =
                  [n \in DOMAIN @ |-> IF @[n].by = i /\ @[n].kind = "inspect"
                                      THEN [@[n] EXCEPT !.by = Gone] ELSE @[n]]]
      BY <2>4 DEF TimesOut
    <3>2. PICK s : s = mail[c.tab] OBVIOUS
    <3>6. PICK S : S = {k \in DOMAIN s : s[k].by = i /\ s[k].kind = "inspect"}
      OBVIOUS
    <3>3. PICK r : r = [n \in DOMAIN s |-> IF n \in S THEN [s[n] EXCEPT !.by = Gone] ELSE s[n]]
      OBVIOUS
    <3>4. mail' = [mail EXCEPT ![c.tab] = r] BY <3>1, <3>2, <3>3, <3>6
    <3>5. ASSUME c.tab \in Tabs PROVE r \in Seq(GoodLetters)
      BY <1>0, <3>2, <3>5, <3>3, Renamed DEF MailOK
    <3> QED BY <1>0, <3>4, <3>5 DEF MailOK
  <2>5. CASE Host(i)
    BY <2>5, <2>1, <2>2 DEF Host, LegacySession, NewOperation, Prepare, Use, Commit, Close, Turn,
       Of, pages
  <2>6. CASE Looked(i) \/ ReadUsed(i) \/ FinishClose(i) \/ CancelSubmit(i)
    BY <2>6, <2>1, <2>2 DEF Looked, ReadUsed, FinishClose, CancelSubmit, pages
  <2> QED BY <1>6, <2>3, <2>4, <2>5, <2>6 DEF Worker
<1>7. ASSUME NEW t \in Tabs,
             PageTakes(t) \/ PageReady(t) \/ PageDrops(t) \/ Navigate(t)
      PROVE  MailOK'
  <2>1. CASE mail' = mail BY <1>0, <2>1
  <2>2. CASE PageTakes(t)
    <3>1. mail[t] # <<>> /\ mail' = [mail EXCEPT ![t] = Tail(mail[t])]
      BY <2>2, Zenon DEF PageTakes
    <3>2. PICK s : s = Tail(mail[t]) OBVIOUS
    <3>3. s \in Seq(GoodLetters) BY <1>0, <3>1, <3>2 DEF MailOK
    <3> QED BY <1>0, <3>1, <3>2, <3>3 DEF MailOK
  <2>3. CASE Navigate(t) BY <2>3, <1>0 DEF Navigate, MailOK
  <2> QED BY <1>7, <2>1, <2>2, <2>3, Zenon DEF PageReady, PageDrops
<1> QED BY <1>1, <1>3, <1>4, <1>5, <1>6, <1>7, Zenon DEF Next, Bystanders

-----------------------------------------------------------------------------
(* The rest of the types. *)
LEMMA BridgeNext == ASSUME Typed, [Next]_vars PROVE BridgeTyped'
<1> USE DEF BridgeTyped
<1>0. BridgeTyped /\ (UNCHANGED bridge => BridgeTyped') BY DEF Typed, bridge
<1>1. CASE Startup \/ AlarmFires
  BY <1>1, <1>0 DEF Startup, AlarmFires, Connects
<1>2. CASE OpenPort
  <2>1. /\ UNCHANGED <<channel, mode, due>> /\ attempt' = FALSE
        /\ \/ opened < MaxPorts /\ port' = opened + 1 /\ opened' = opened + 1 /\ alarm' = alarm
           \/ alarm' = TRUE /\ port' = port /\ opened' = opened
    BY <1>2, Zenon DEF OpenPort
  <2>2. due' \in {"due", "done", "failed"} /\ alarm' \in BOOLEAN BY <1>0, <2>1, Zenon
  <2>3. port' \in 0..MaxPorts /\ opened' \in port'..MaxPorts
    BY <1>0, <2>1, AgentAssumption
  <2> QED BY <1>0, <2>1, <2>2, <2>3
<1>3. CASE Handshake BY <1>3, <1>0 DEF Handshake
<1>4. CASE HandshakeTimeout \/ DropPort
  <2>1. 0 \in 0..MaxPorts /\ opened \in 0..MaxPorts BY <1>0, AgentAssumption
  <2> QED BY <1>0, <1>4, <2>1 DEF HandshakeTimeout, DropPort, Dispose
<1>5. CASE HostDisconnects
  <2>1. 0 \in 0..MaxPorts /\ opened \in 0..MaxPorts BY <1>0, AgentAssumption
  <2>2. /\ port' = 0 /\ channel' = "offer" /\ mode' = None /\ UNCHANGED <<opened, due>>
        /\ attempt' = TRUE \/ attempt' = attempt
        /\ alarm' = TRUE \/ alarm' = alarm
    BY <1>5, Zenon DEF HostDisconnects, Dispose, Recovers
  <2> QED BY <1>0, <2>1, <2>2
<1>6. CASE Restart
  <2>1. 0 \in 0..MaxPorts /\ opened \in 0..MaxPorts BY <1>0, AgentAssumption
  <2> QED BY <1>0, <1>6, <2>1 DEF Restart
<1>7. CASE BadFrame \/ Deliver BY <1>7, <1>0, <1>4 DEF BadFrame, Deliver
<1>8. CASE Seal \/ (\E r \in reads : WriteUsed(r)) \/ UNCHANGED vars
  BY <1>0, <1>8, Zenon DEF Seal, WriteUsed, vars
<1>9. ASSUME NEW i \in Slots, Worker(i) \/ Host(i) \/ TimesOut(i) \/ CancelSubmit(i)
      PROVE  BridgeTyped'
  <2>1. CASE UNCHANGED bridge BY <1>0, <2>1
  <2>2. CASE Stays /\ mode' \in {mode, "operations", "legacy"}
    BY <1>0, <2>2 DEF Stays
  <2> QED BY <1>9, <2>1, <2>2, Zenon DEF Worker, Host, TimesOut, CancelSubmit, Looked, ReadUsed,
     Continue, FinishClose, LegacySession, Prepare, Close, NewOperation, Commit, Use, Usable, Turn
<1>10. ASSUME NEW t \in Tabs,
             PageTakes(t) \/ PageReady(t) \/ PageDrops(t) \/ Navigate(t)
      PROVE  BridgeTyped'
  BY <1>0, <1>10, Zenon DEF PageTakes, PageReady, PageDrops, Navigate
<1> QED BY <1>1, <1>2, <1>3, <1>4, <1>5, <1>6, <1>7, <1>8, <1>9, <1>10, Zenon DEF Next

LEMMA OutNext == ASSUME Typed, [Next]_vars PROVE OutOK'
<1>0. OutOK /\ (out' = out => OutOK') BY DEF Typed, OutOK
<1>1. CASE out' = <<>> BY <1>1 DEF OutOK
<1>2. CASE Startup \/ AlarmFires \/ OpenPort \/ Handshake \/ (\E r \in reads : WriteUsed(r)) \/ UNCHANGED vars
  BY <1>0, <1>2, Zenon DEF Startup, AlarmFires, OpenPort, Handshake, WriteUsed, vars
<1>3. CASE HandshakeTimeout \/ HostDisconnects \/ BadFrame \/ Restart
  BY <1>1, <1>3, Zenon DEF HandshakeTimeout, HostDisconnects, BadFrame, Restart, Dispose, DropPort
<1>4. CASE Seal
  <2>1. out # <<>> BY <1>4 DEF Seal
  <2>2. Tail(out) \in Seq(Frames) /\ out[1] \in Frames /\ 1 \in DOMAIN out
    BY <1>0, <2>1 DEF OutOK
  <2>3. CASE out' = [out EXCEPT ![1].sealed = TRUE]
    <3>1. PICK r : r = [out[1] EXCEPT !.sealed = TRUE] OBVIOUS
    <3>2. r \in Frames BY <2>2, <3>1 DEF Frames
    <3>3. out' = [out EXCEPT ![1] = r] BY <2>3, <3>1
    <3> QED BY <1>0, <2>2, <3>2, <3>3 DEF OutOK
  <2> QED BY <1>4, <2>2, <2>3 DEF Seal, OutOK
<1>5. CASE Deliver BY <1>5, <1>0, <1>1 DEF Deliver, OutOK, DropPort, Dispose
<1>6. ASSUME NEW i \in Slots, Continue(i) PROVE OutOK'
  <2> DEFINE c == op[i].call
  <2>1. HasCall(i) /\ c.ans # Waiting BY <1>6 DEF Continue, HasCall
  <2>2. op[i].id \in Ids \cup {None} BY <2>1, OpFields DEF HasCall, Typed
  <2>3. [by |-> i, id |-> op[i].id, sealed |-> FALSE] \in Frames
    BY <2>2 DEF Frames
  <2>4. out' \in {out, Append(out, [by |-> i, id |-> op[i].id, sealed |-> FALSE])}
    BY <1>6, <2>1, Zenon DEF Continue, Goes, Ends, Fails
  <2> QED BY <1>0, <2>3, <2>4 DEF OutOK
<1>7. ASSUME NEW i \in Slots, Worker(i) \/ Host(i) \/ TimesOut(i) \/ CancelSubmit(i)
      PROVE  OutOK'
  BY <1>0, <1>6, <1>7, Zenon DEF Worker, Host, TimesOut, CancelSubmit, Looked, ReadUsed,
     FinishClose, LegacySession, Prepare, Close, NewOperation, Commit, Use
<1>8. ASSUME NEW t \in Tabs,
             PageTakes(t) \/ PageReady(t) \/ PageDrops(t) \/ Navigate(t)
      PROVE  OutOK'
  BY <1>0, <1>8, Zenon DEF PageTakes, PageReady, PageDrops, Navigate
<1> QED BY <1>2, <1>3, <1>4, <1>5, <1>7, <1>8, Zenon DEF Next

LEMMA GuardNext == ASSUME Typed, ReadsOK, [Next]_vars PROVE GuardOK'
<1>0. GuardOK /\ (UNCHANGED guard => GuardOK') BY DEF Typed, GuardOK, guard
<1>1. ASSUME NEW i \in Slots, ReadUsed(i) PROVE GuardOK'
  <2>1. HasCall(i) /\ Stage(op[i].call) = "consume"
    BY <1>1 DEF ReadUsed, Waits, HasCall
  <2>2. CallOK(op[i].call) BY <2>1, OpFields DEF HasCall, Typed
  <2>3. op[i].call.kind \in Guarded BY <2>1, <2>2, CallKind, Stages DEF Stage
  <2>4. op[i].call.tx \in Txs BY <2>2, <2>3 DEF CallOK
  <2>5. PICK b \in BOOLEAN : reads' = reads \cup {[by |-> i, tx |-> op[i].call.tx, new |-> b]}
    BY <1>1 DEF ReadUsed
  <2>6. used' = used BY <1>1 DEF ReadUsed
  <2> QED BY <1>0, <2>4, <2>5, <2>6 DEF GuardOK
<1>2. ASSUME NEW r \in reads, WriteUsed(r) PROVE GuardOK'
  BY <1>0, <1>2 DEF WriteUsed, GuardOK
<1>3. CASE Restart BY <1>0, <1>3 DEF Restart, GuardOK, Stored
<1>4. CASE Startup \/ AlarmFires \/ OpenPort \/ Handshake \/ Seal \/ HandshakeTimeout \/ HostDisconnects
           \/ BadFrame \/ Deliver \/ UNCHANGED vars
  BY <1>0, <1>4, Zenon DEF Startup, AlarmFires, OpenPort, Handshake, Seal, HandshakeTimeout,
     HostDisconnects, BadFrame, Deliver, DropPort, vars
<1>5. ASSUME NEW i \in Slots, Worker(i) \/ Host(i) \/ TimesOut(i) \/ CancelSubmit(i)
      PROVE  GuardOK'
  BY <1>0, <1>1, <1>5, Zenon DEF Worker, Host, TimesOut, CancelSubmit, Looked, Continue,
     FinishClose, LegacySession, Prepare, Close, NewOperation, Commit, Use
<1>6. ASSUME NEW t \in Tabs,
             PageTakes(t) \/ PageReady(t) \/ PageDrops(t) \/ Navigate(t)
      PROVE  GuardOK'
  BY <1>0, <1>6, Zenon DEF PageTakes, PageReady, PageDrops, Navigate
<1> QED BY <1>2, <1>3, <1>4, <1>5, <1>6, Zenon DEF Next

LEMMA HoldingOK ==
    ASSUME PagesOK, NEW t \in Tabs, NEW h \in {None} \cup Held, page' = Holding(t, h)
    PROVE  PagesOK'
  BY DEF PagesOK, Holding

LEMMA PagesNext == ASSUME Typed, [Next]_vars PROVE PagesOK' /\ EffectsOK'
<1>0. PagesOK /\ (page' = page => PagesOK') /\ EffectsOK /\ (effects' = effects => EffectsOK')
  BY DEF Typed, PagesOK, EffectsOK
<1>1. CASE Startup \/ AlarmFires \/ OpenPort \/ Handshake \/ Seal \/ HandshakeTimeout \/ HostDisconnects
           \/ BadFrame \/ Deliver \/ UNCHANGED vars \/ \E r \in reads : WriteUsed(r)
  BY <1>0, <1>1, Zenon DEF Startup, AlarmFires, OpenPort, Handshake, Seal, HandshakeTimeout,
     HostDisconnects, BadFrame, Deliver, DropPort, WriteUsed, vars, pages
<1>2. CASE Restart
  <2>1. page' = [t \in Tabs |-> IF page[t].held = None THEN page[t]
                               ELSE [page[t] EXCEPT !.held.by = Gone]] /\ effects' = effects
    BY <1>2 DEF Restart
  <2>2. ASSUME NEW t \in Tabs PROVE page'[t] \in [doc : 1..MaxDocs, held : {None} \cup Held]
    <3>1. CASE page[t].held = None BY <1>0, <2>1, <3>1 DEF PagesOK
    <3>2. CASE page[t].held # None
      <4>1. PICK h : h = [page[t].held EXCEPT !.by = Gone] OBVIOUS
      <4>2. page[t].held \in Held /\ page[t] \in [doc : 1..MaxDocs, held : {None} \cup Held]
        BY <1>0, <3>2 DEF PagesOK
      <4>3. h \in Held BY <4>1, <4>2 DEF Held
      <4>4. page'[t] = [page[t] EXCEPT !.held = h] BY <2>1, <3>2, <4>1, <4>2
      <4> QED BY <4>2, <4>3, <4>4
    <3> QED BY <3>1, <3>2
  <2> QED BY <1>0, <2>1, <2>2 DEF PagesOK
<1>3. ASSUME NEW i \in Slots, Worker(i) \/ Host(i) \/ TimesOut(i) \/ CancelSubmit(i)
      PROVE  PagesOK' /\ EffectsOK'
  <2>1. page' = page /\ effects' = effects
    BY <1>3, Zenon DEF Worker, Host, TimesOut, CancelSubmit, Looked, Continue, ReadUsed,
     FinishClose, LegacySession, Prepare, Close, NewOperation, Commit, Use, pages
  <2> QED BY <1>0, <2>1
<1>4. ASSUME NEW t \in Tabs, PageTakes(t) PROVE PagesOK' /\ EffectsOK'
  <2> DEFINE m == Head(mail[t])
             h == page[t].held
  <2>0. mail[t] # <<>> BY <1>4 DEF PageTakes
  <2>1. m \in GoodLetters /\ m.by \in Slots \cup {Gone} BY <2>0, HeadTyped
  <2>2. effects' = effects \/ Reached(m.tx)
    BY <1>4, Zenon DEF PageTakes, Cancels, Inspects, Reads, Fills, Submits, Unreached
  <2>3. EffectsOK' BY <1>0, <2>2 DEF Reached, EffectsOK
  <2>4. page' \in {page, Holding(t, None)} \/ (m.kind = "fill" /\ page' = Holding(t, [by |-> m.by, tx |-> m.tx, ready |-> FALSE]))
    BY <1>4, Zenon DEF PageTakes, Cancels, Inspects, Reads, Fills, Submits, Drops
  <2>5. m.kind = "fill" => [by |-> m.by, tx |-> m.tx, ready |-> FALSE] \in Held
    BY <2>1 DEF Held, GoodLetters, Doing
  <2> QED BY <1>0, <2>3, <2>4, <2>5, HoldingOK
<1>5. ASSUME NEW t \in Tabs, PageReady(t) PROVE PagesOK' /\ EffectsOK'
  <2>1. page[t].held \in Held /\ effects' = effects
        /\ page' = Holding(t, [page[t].held EXCEPT !.ready = TRUE])
    BY <1>5, HeldTyped DEF PageReady
  <2>2. PICK h : h = [page[t].held EXCEPT !.ready = TRUE] OBVIOUS
  <2>3. h \in Held BY <2>1, <2>2 DEF Held
  <2> QED BY <1>0, <2>1, <2>2, <2>3, HoldingOK
<1>6. ASSUME NEW t \in Tabs, PageDrops(t) PROVE PagesOK' /\ EffectsOK'
  BY <1>0, <1>6, HoldingOK DEF PageDrops, Drops
<1>7. ASSUME NEW t \in Tabs, Navigate(t) PROVE PagesOK' /\ EffectsOK'
  BY <1>7, HeldTyped, AgentAssumption, <1>0 DEF Navigate, PagesOK
<1> QED BY <1>1, <1>2, <1>3, <1>4, <1>5, <1>6, <1>7, Zenon DEF Next

LEMMA TypedNext == ASSUME Typed, ReadsOK, [Next]_vars PROVE Typed'
  BY OpsNext, MailNext, BridgeNext, OutNext, GuardNext, PagesNext DEF Typed

LEMMA TypedInit == ASSUME Init PROVE Typed
<1>1. BridgeTyped /\ OutOK /\ GuardOK /\ EffectsOK
  <2>1. 0 \in 0..MaxPorts BY AgentAssumption
  <2>2. port = 0 /\ opened = 0 /\ channel = "offer" /\ mode = None /\ attempt = FALSE
        /\ due = "due" /\ alarm = FALSE /\ out = <<>> /\ used = {} /\ reads = {}
        /\ effects = [x \in Txs |-> 0]
    BY Zenon DEF Init
  <2>3. BridgeTyped BY <2>1, <2>2 DEF BridgeTyped
  <2> QED BY <2>2, <2>3 DEF OutOK, GuardOK, EffectsOK
<1>2. OpsOK BY DEF Init, OpsOK, IsFcn, SlotOK
<1>3. PagesOK /\ MailOK BY AgentAssumption DEF Init, PagesOK, MailOK
<1> QED BY <1>1, <1>2, <1>3 DEF Typed

-----------------------------------------------------------------------------
(* A transaction on its way to a page: a call that has passed the guard and  *)
(* not yet sent its work, or the letter with that work.                      *)
Passed(c) == /\ c.kind \in Guarded
             /\ \/ c.at = 1 /\ c.ans \notin {Waiting, 0}
                \/ c.at \in 2 .. ReachAt[c.kind] - 1
Carries(i, x) == HasCall(i) /\ Passed(op[i].call) /\ op[i].call.tx = x
Carried(t, n, x) == n \in DOMAIN mail[t] /\ mail[t][n].kind \in Doing /\ mail[t][n].tx = x
Unspent(x) == x \in used /\ effects[x] = 0

EffectsSpent == \A x \in Txs : effects[x] <= 1 /\ (effects[x] = 1 => x \in used)
CallsAlone == \A x \in Txs, i \in Slots : Carries(i, x) =>
    /\ Unspent(x)
    /\ \A j \in Slots : Carries(j, x) => j = i
    /\ \A t \in Tabs : \A n : ~Carried(t, n, x)
LettersAlone == \A x \in Txs, t \in Tabs : \A n : Carried(t, n, x) =>
    /\ Unspent(x)
    /\ \A u \in Tabs : \A k : Carried(u, k, x) => u = t /\ k = n
Once == EffectsSpent /\ CallsAlone /\ LettersAlone

(* No call comes to pass the guard, and no letter is new but in its place.   *)
NoneNewPassed == \A i \in Slots, x \in Txs : Carries(i, x)' => Carries(i, x)
ReadersWait == \A i \in Slots : Waits(i, {"consume"}) =>
                  op'[i] # None /\ op'[i].call = op[i].call
NoneNewSent == \A x \in Txs, t \in Tabs : \A n : Carried(t, n, x)' => Carried(t, n, x)

LEMMA OnceQuiet ==
    ASSUME Once, NoneNewPassed, NoneNewSent, used' = used, effects' = effects
    PROVE  Once'
<1> USE DEF Once
<1>1. EffectsSpent' BY DEF EffectsSpent
<1>2. CallsAlone' BY DEF CallsAlone, NoneNewPassed, NoneNewSent, Unspent
<1>3. LettersAlone' BY DEF LettersAlone, NoneNewSent, Unspent
<1> QED BY <1>1, <1>2, <1>3

LEMMA ReadsQuiet ==
    ASSUME ReadsOK, ReadersWait, reads' = reads, used' = used, reads \subseteq [by : Slots, tx : Txs, new : BOOLEAN] PROVE ReadsOK'
  BY DEF ReadsOK, ReadersWait, Waits, Stage

(* What a change of one operation means for both. *)
Calm(i, o) ==
    /\ Waits(i, {"consume"}) => o # None /\ o.call = op[i].call
    /\ o # None /\ o.call # None /\ Passed(o.call) =>
         HasCall(i) /\ Passed(op[i].call) /\ o.call.tx = op[i].call.tx
LEMMA CalmAt ==
    ASSUME NEW i \in Slots, NEW o, At(i, o), Calm(i, o) PROVE NoneNewPassed /\ ReadersWait
BY DEF NoneNewPassed, At, Calm, Carries, HasCall, Passed, ReadersWait, Waits

(* A record is not None. *)
LEMMA CallIsSome == ASSUME NEW c, CallOK(c) PROVE c # None
  BY NoneIsNoRecord DEF CallOK

(* A call that is new has still to pass the guard. *)
LEMMA EditKeeps ==
    ASSUME OpsOK, NEW i \in Slots, op[i] # None, NEW act \in BOOLEAN, NEW clo \in BOOLEAN,
           NEW pr, pr = None \/ pr = op[i].prep, NEW su, su = None \/ su = op[i].sub
    PROVE  /\ Edit(i, op[i].tab, act, clo, pr, su, op[i].call) # None
           /\ Edit(i, op[i].tab, act, clo, pr, su, op[i].call).call = op[i].call
<1> DEFINE o == Edit(i, op[i].tab, act, clo, pr, su, op[i].call)
<1>1. op[i] \in Operations BY DEF OpsOK, SlotOK
<1>2. o \in Operations /\ o.call = op[i].call BY <1>1 DEF Operations, Edit
<1> QED BY <1>2, NoneIsNoRecord

LEMMA CallStarts ==
    ASSUME NEW kind, NEW t, NEW tx, NEW doc, NEW for
    PROVE  ~Passed(Call(kind, t, tx, doc, for))
  BY DEF Passed, Call, Waiting

(* Keeping the call, losing it, or starting one where there was none. *)
LEMMA CalmEdit ==
    ASSUME OpsOK, NEW i \in Slots, op[i] # None, NEW o, NEW ca, o # None, o.call = ca, At(i, o),
           \/ ca = op[i].call
           \/ ~Waits(i, {"consume"}) /\ (ca = None \/ ~Passed(ca))
    PROVE  NoneNewPassed /\ ReadersWait
BY CalmAt DEF Calm, HasCall

LEMMA CalmOp == ASSUME op' = op PROVE NoneNewPassed /\ ReadersWait
  BY DEF NoneNewPassed, ReadersWait, Carries, HasCall, Waits

(* One answer more does not pass the guard, unless it is the guard's. *)
LEMMA CalmAnswer ==
    ASSUME OpsOK, NEW i \in Slots, NEW K, Waits(i, K), "consume" \notin K,
           NEW a, op' = Answer(op, i, a)
    PROVE  NoneNewPassed /\ ReadersWait
<1> DEFINE c == op[i].call
<1>1. HasCall(i) /\ Stage(c) \in K BY DEF Waits, HasCall
<1>2. CallOK(c) BY <1>1, OpFields DEF HasCall
<1>3. At(i, Edit(i, op[i].tab, op[i].active, op[i].closing, op[i].prep, op[i].sub, Ans(c, a)))
  BY <1>1, EditAns
<1>4. c.kind \in Guarded => c.at # 1 BY <1>1, <1>2, CallKind, Stages DEF Stage
<1>5. Passed(Ans(c, a)) => Passed(c) BY <1>4 DEF Passed, Ans
<1>6. ~Waits(i, {"consume"}) BY <1>1 DEF Waits
<1>7. PICK o : o = Edit(i, op[i].tab, op[i].active, op[i].closing, op[i].prep, op[i].sub, Ans(c, a))
  OBVIOUS
<1>8. o.call = Ans(c, a) /\ Ans(c, a).tx = c.tx BY <1>7 DEF Edit, Ans
<1> QED BY <1>1, <1>3, <1>5, <1>6, <1>7, <1>8, CalmAt DEF Calm

LEMMA CalmTold ==
    ASSUME OpsOK, NEW by \in Slots \cup {Gone}, NEW kind \in PageWork, NEW tx, NEW a,
           Told(by, kind, tx, a)
    PROVE  NoneNewPassed /\ ReadersWait
BY CalmOp, CalmAnswer DEF PageWork, Told

(* Going on: the call keeps its transaction, and what has still to be sent   *)
(* has passed the guard before.                                              *)
LEMMA GoesPassed ==
    ASSUME NEW c, CallOK(c), c.at < Len(Script[c.kind]), c.ans # Waiting, Found(c)
    PROVE  /\ Passed(GoesTo(c)) => Passed(c)
           /\ Stage(GoesTo(c)) \in Doing => Passed(c) /\ ~Passed(GoesTo(c))
           /\ GoesTo(c).tx = c.tx
<1> DEFINE d == GoesTo(c)
<1>1. d.at = c.at + 1 /\ d.kind = c.kind /\ d.tx = c.tx /\ c.at \in 1..5
  BY CallKind DEF GoesTo
<1>2. c.ans \notin {Waiting, 0} BY DEF Found
<1>3. CallOK(d) /\ Stage(d) = Script[d.kind][d.at] BY GoesOK DEF Stage
<1> HIDE DEF d
<1>4. d.kind \in Guarded => ReachAt[d.kind] \in {3, 4} BY DEF Guarded, ReachAt
<1>5. Passed(d) => Passed(c) BY <1>1, <1>2, <1>4 DEF Passed
<1>6. ASSUME Stage(d) \in Doing PROVE Passed(c) /\ ~Passed(d)
  <2>1. d.kind \in KindNames /\ d.at \in 1..Len(Script[d.kind])
    BY <1>3, CallKind
  <2>2. d.kind \in Guarded /\ d.at = ReachAt[d.kind]
    BY <1>3, <1>6, <2>1, Stages
  <2> QED BY <1>1, <1>2, <1>4, <2>2 DEF Passed
<1> QED BY <1>1, <1>5, <1>6 DEF d

LEMMA CalmContinue ==
    ASSUME OpsOK, NEW i \in Slots, Continue(i) PROVE NoneNewPassed /\ ReadersWait
<1> DEFINE c == op[i].call
<1>1. HasCall(i) /\ c.ans # Waiting BY DEF Continue, HasCall
<1>2. CallOK(c) /\ ~Waits(i, {"consume"}) BY <1>1, OpFields DEF HasCall, Waits
<1>3. CASE Fails(i, c)
  <2>1. PICK o : o = Edit(i, op[i].tab, op[i].active, op[i].closing,
                   IF c.kind \in Preparations THEN None ELSE op[i].prep,
                   IF c.kind = "fill" THEN None ELSE op[i].sub, None)
    OBVIOUS
  <2>2. At(i, o) /\ o.call = None BY <1>1, <1>3, <2>1, EditFails DEF Edit
  <2> QED BY <1>2, <2>2, CalmAt DEF Calm
<1>4. CASE Good(i, c) /\ c.at < Len(Script[c.kind]) /\ Goes(i, c)
  <2>1. PICK o : o = Edit(i, IF Stage(c) = "active" /\ op[i].id # None THEN c.tab ELSE op[i].tab,
                          op[i].active, op[i].closing, op[i].prep,
                          IF Stage(GoesTo(c)) = "fill" THEN FillSub(GoesTo(c)) ELSE op[i].sub, GoesTo(c))
    OBVIOUS
  <2>2. At(i, o) /\ o.call = GoesTo(c) BY <1>1, <1>4, <2>1, EditGoes DEF Edit
  <2>3. (Passed(GoesTo(c)) => Passed(c)) /\ GoesTo(c).tx = c.tx
    BY <1>1, <1>2, <1>4, GoesPassed DEF Good
  <2> QED BY <1>1, <1>2, <2>2, <2>3, CalmAt DEF Calm
<1>5. CASE Ends(i, c)
  <2>1. PICK o : o = Edit(i, op[i].tab, op[i].active, op[i].closing, EndPrep(i, c), EndSub(i, c), None)
    OBVIOUS
  <2>2. At(i, o) /\ o.call = None BY <1>1, <1>5, <2>1, EditEnds DEF Edit
  <2> QED BY <1>2, <2>2, CalmAt DEF Calm
<1> QED BY <1>3, <1>4, <1>5, Zenon DEF Continue

LEMMA CalmHost ==
    ASSUME Typed, NEW i \in Slots, Host(i) \/ CancelSubmit(i)
    PROVE  NoneNewPassed /\ ReadersWait
<1>0. OpsOK BY DEF Typed
<1>1. ASSUME op[i] # None, NEW c, op' = [op EXCEPT ![i].sub = None, ![i].call = c],
             op[i].call = None, c = None \/ ~Passed(c)
      PROVE  NoneNewPassed /\ ReadersWait
  <2>1. PICK o : o = Edit(i, op[i].tab, op[i].active, op[i].closing, op[i].prep, None, c)
    OBVIOUS
  <2>2. At(i, o) /\ o.call = c BY <1>0, <1>1, <2>1, EditPrepare DEF Edit
  <2> QED BY <1>1, <2>2, CalmAt DEF Calm, Waits
<1>2. ASSUME op[i] # None, op' = [op EXCEPT ![i].sub = None]
      PROVE  NoneNewPassed /\ ReadersWait
  <2>1. PICK o : o = Edit(i, op[i].tab, op[i].active, op[i].closing, op[i].prep, None, op[i].call)
    OBVIOUS
  <2>2. At(i, o) BY <1>0, <1>2, <2>1, EditSub
  <2>3. o.call = op[i].call /\ o # None
    BY <1>0, <1>2, <2>1, NoneIsNoRecord DEF OpsOK, SlotOK, Operations, Edit
  <2> QED BY <1>0, <1>2, <2>2, <2>3, CalmEdit
<1>3. CASE LegacySession(i)
  BY <1>3, <1>0, CalmAt DEF LegacySession, Fresh, At, IsFcn, OpsOK, Operation, Calm, Waits
<1>4. ASSUME NEW id \in Ids, NewOperation(i, id) PROVE NoneNewPassed /\ ReadersWait
  <2>1. op[i] = None BY <1>4 DEF NewOperation, Fresh
  <2>2. \E t, u, kind : op' = [op EXCEPT ![i] = Operation(id, t, Call(kind, u, None, 0, None))]
    BY <1>4, Zenon DEF NewOperation
  <2>3. PICK t, u, kind : op' = [op EXCEPT ![i] = Operation(id, t, Call(kind, u, None, 0, None))]
    BY <2>2
  <2>4. PICK c : c = Call(kind, u, None, 0, None) OBVIOUS
  <2>5. At(i, Operation(id, t, c)) /\ Operation(id, t, c).call = c /\ ~Passed(c)
    BY <1>0, <2>3, <2>4, CallStarts DEF At, IsFcn, OpsOK, Operation
  <2> QED BY <2>1, <2>5, CalmAt DEF Calm, Waits
<1>5. CASE Prepare(i)
  <2>1. op[i] # None /\ op[i].call = None BY <1>5 DEF Prepare, Turn, Of
  <2>2. \E kind, t : op' = [op EXCEPT ![i].sub = None, ![i].call = Call(kind, t, None, 0, None)]
    BY <1>5, Zenon DEF Prepare
  <2>3. PICK c : op' = [op EXCEPT ![i].sub = None, ![i].call = c] /\ ~Passed(c)
    BY <2>2, CallStarts
  <2> QED BY <1>1, <2>1, <2>3
<1>6. CASE Close(i)
  <2>1. op[i] # None /\ op' = [op EXCEPT ![i] = Revoked(@)]
    BY <1>6 DEF Close, Of
  <2>2. PICK o : o = Edit(i, op[i].tab, FALSE, op[i].closing, op[i].prep, None, op[i].call)
    OBVIOUS
  <2>3. At(i, o) BY <1>0, <2>1, <2>2, EditClose
  <2>4. o.call = op[i].call /\ o # None
    BY ZenonT(30), <1>0, <2>1, <2>2, OpFields, EditKeeps
  <2> QED BY <1>0, <2>1, <2>3, <2>4, CalmEdit
<1>7. CASE CancelSubmit(i) BY <1>2, <1>7 DEF CancelSubmit
<1>8. ASSUME NEW tx \in Txs, Commit(i, tx) PROVE NoneNewPassed /\ ReadersWait
  BY <1>8, <1>1, <1>2, CallStarts DEF Commit, Turn, Of
<1>9. ASSUME NEW tx \in Txs, NEW k \in DOMAIN Needs, Use(i, k, tx) PROVE NoneNewPassed /\ ReadersWait
  <2>1. op[i] # None /\ op[i].call = None BY <1>9 DEF Use, Turn, Of
  <2>2. PICK c : /\ op' = [op EXCEPT ![i].sub = None, ![i].prep = None, ![i].call = c]
                 /\ c = None \/ ~Passed(c)
    <3>1. PICK c \in {Call(k, q.tab, tx, q.doc, None) :
                        q \in {r \in {op[i].prep} \ {None} : r.how \in Needs[k]}} \cup {None} :
            op' = [op EXCEPT ![i].sub = None, ![i].prep = None, ![i].call = c]
      BY <1>9, Zenon DEF Use
    <3> QED BY <3>1, CallStarts
  <2>3. PICK o : o = Edit(i, op[i].tab, op[i].active, op[i].closing, None, None, c)
    OBVIOUS
  <2>4. At(i, o) /\ o.call = c BY <1>0, <2>1, <2>2, <2>3, EditUse DEF Edit
  <2> QED BY <2>1, <2>2, <2>4, CalmAt DEF Calm, Waits
<1> QED BY <1>3, <1>4, <1>5, <1>6, <1>7, <1>8, <1>9 DEF Host

LEMMA CalmWorker ==
    ASSUME Typed, NEW i \in Slots, Worker(i) \/ TimesOut(i)
    PROVE  NoneNewPassed /\ ReadersWait
<1>0. OpsOK BY DEF Typed
<1>1. CASE Looked(i)
  <2>1. CASE Waits(i, {"look"}) /\ \E d : op' = Answer(op, i, d)
    BY <1>0, <2>1, CalmAnswer
  <2>2. CASE Waits(i, {"active"}) /\ op' = Answer(op, i, 0)
    BY <1>0, <2>2, CalmAnswer
  <2>3. ASSUME NEW t \in Tabs, Waits(i, {"active"}),
               op' = [op EXCEPT ![i].call.tab = t, ![i].call.ans = 1]
        PROVE  NoneNewPassed /\ ReadersWait
    <3> DEFINE c == op[i].call
    <3>1. HasCall(i) /\ Stage(c) = "active" /\ CallOK(c)
      BY <1>0, <2>3, OpFields DEF Waits, HasCall
    <3>2. PICK d : d = [kind |-> c.kind, at |-> c.at, tab |-> t, tx |-> c.tx, doc |-> c.doc,
                       plan |-> c.plan, for |-> c.for, ans |-> 1]
      OBVIOUS
    <3>3. PICK o : o = Edit(i, op[i].tab, op[i].active, op[i].closing, op[i].prep, op[i].sub, d)
      OBVIOUS
    <3>4. At(i, o) /\ o.call = d
      BY <1>0, <2>3, <3>1, <3>2, <3>3, EditActive DEF Edit
    <3>5. c.kind \notin Guarded BY <3>1, CallKind, Stages DEF Stage, Guarded
    <3>6. ~Passed(d) BY <3>2, <3>5 DEF Passed
    <3>7. ~Waits(i, {"consume"}) BY <3>1 DEF Waits
    <3> QED BY <3>4, <3>6, <3>7, CalmAt DEF Calm
  <2> QED BY <1>1, <2>1, <2>2, <2>3, Zenon DEF Looked
<1>2. CASE ReadUsed(i) BY <1>2, CalmOp DEF ReadUsed
<1>3. CASE Continue(i) BY <1>0, <1>3, CalmContinue
<1>4. CASE FinishClose(i)
  <2>1. op[i] # None /\ op[i].call = None BY <1>0, <1>4, EditFinish
  <2>2. CASE op[i].closing
    BY <1>0, <1>4, <2>1, <2>2, EditFinish, CalmAt DEF Calm, Waits
  <2>3. CASE ~op[i].closing
    <3>1. PICK o : o = Edit(i, op[i].tab, op[i].active, TRUE, op[i].prep, None, op[i].call)
      OBVIOUS
    <3>2. At(i, o) /\ o.call = op[i].call
      BY <1>0, <1>4, <2>3, <3>1, EditFinish DEF Edit
    <3> QED BY <2>1, <3>2, CalmAt DEF Calm, Waits
  <2> QED BY <2>2, <2>3
<1>5. CASE TimesOut(i) BY <1>5, <1>0, CalmAnswer DEF TimesOut, TimedWork
<1> QED BY <1>1, <1>2, <1>3, <1>4, <1>5 DEF Worker

LEMMA CalmPages ==
    ASSUME Typed, NEW t \in Tabs,
           PageTakes(t) \/ PageReady(t) \/ PageDrops(t) \/ Navigate(t)
    PROVE  NoneNewPassed /\ ReadersWait
<1>0. OpsOK BY DEF Typed
<1>1. \/ op' = op
      \/ \E by \in Slots \cup {Gone}, kind \in PageWork : \E tx, a : Told(by, kind, tx, a)
      \/ Navigate(t)
  <2>0. page[t].held # None => page[t].held.by \in Slots \cup {Gone}
    BY HeldTyped
  <2>1. "fill" \in PageWork /\ "commit" \in PageWork BY DEF PageWork
  <2>2. CASE Drops(t) BY <2>0, <2>1, <2>2, Zenon DEF Drops
  <2>3. CASE PageTakes(t)
    <3> DEFINE m == Head(mail[t])
    <3>1. mail[t] # <<>> BY <2>3 DEF PageTakes
    <3>2. m.by \in Slots \cup {Gone} BY <3>1, HeadTyped
    <3>3. CASE Cancels(t, m) BY <2>2, <3>3 DEF Cancels
    <3>4. CASE Inspects(t, m) \/ Reads(t, m)
      BY <3>4, <3>2 DEF Inspects, Reads, PageWork
    <3>5. CASE Fills(t, m) \/ Submits(t, m)
      BY <2>1, <3>2, <3>5, Zenon DEF Fills, Submits
    <3> QED BY <2>3, <3>3, <3>4, <3>5, Zenon DEF PageTakes
  <2>4. CASE PageReady(t) BY <2>0, <2>1, <2>4, Zenon DEF PageReady
  <2>5. CASE PageDrops(t) BY <2>2, <2>5 DEF PageDrops
  <2> QED BY <2>3, <2>4, <2>5
<1>2. CASE Navigate(t)
  <2>1. \A i \in Slots : \/ op'[i] = op[i]
                         \/ Waits(i, PageWork) /\ op'[i] = [op[i] EXCEPT !.call.ans = 0]
    BY <1>2 DEF Navigate
  <2>2. ASSUME NEW i \in Slots, NEW x \in Txs, Carries(i, x)' PROVE Carries(i, x)
    <3>1. CASE op'[i] = op[i] BY <2>2, <3>1 DEF Carries, HasCall
    <3>2. CASE Waits(i, PageWork) /\ op'[i] = [op[i] EXCEPT !.call.ans = 0]
      <4> DEFINE c == op[i].call
      <4>1. HasCall(i) /\ CallOK(c) /\ op[i] \in Operations /\ Stage(c) \in PageWork
        BY <1>0, <3>2, OpFields DEF Waits, HasCall, OpsOK, SlotOK
      <4>2. op'[i].call.kind = c.kind /\ op'[i].call.at = c.at /\ op'[i].call.tx = c.tx
        BY <3>2, <4>1 DEF Operations, CallOK, Calls
      <4>3. c.kind \in Guarded => c.at # 1
        BY <4>1, CallKind, Stages DEF Stage, PageWork
      <4> QED BY <2>2, <4>1, <4>2, <4>3 DEF Carries, Passed
    <3> QED BY <2>1, <3>1, <3>2
  <2>3. ASSUME NEW i \in Slots, Waits(i, {"consume"})
        PROVE  op'[i] # None /\ op'[i].call = op[i].call
    BY <2>1, <2>3 DEF Waits, PageWork
  <2> QED BY <2>2, <2>3 DEF NoneNewPassed, ReadersWait
<1> QED BY <1>0, <1>1, <1>2, CalmOp, CalmTold

LEMMA CalmDispose ==
    ASSUME OpsOK, Dispose PROVE NoneNewPassed /\ ReadersWait
<1> SUFFICES ASSUME NEW i \in Slots
             PROVE  /\ op'[i] # None => op[i] # None /\ op'[i].call = op[i].call
                    /\ op[i] # None => op'[i] # None
  BY DEF NoneNewPassed, ReadersWait, Carries, HasCall, Waits
<1>1. CASE i \in Of(port)
  <2>1. op[i] # None BY <1>1 DEF Of
  <2>2. PICK o : o = Edit(i, op[i].tab, FALSE, op[i].closing, op[i].prep, None, op[i].call)
    OBVIOUS
  <2>3. op'[i] = o BY <1>1, <2>1, <2>2, OpsDispose
  <2>4. o.call = op[i].call /\ o # None BY ZenonT(30), <2>1, <2>2, OpFields, EditKeeps
  <2> QED BY <2>1, <2>3, <2>4
<1>2. CASE i \notin Of(port) BY <1>2, OpsDispose
<1> QED BY <1>1, <1>2

-----------------------------------------------------------------------------
(* What leaves the letters alone. *)
LEMMA Appended ==
    ASSUME NEW s \in Seq(GoodLetters), NEW m
    PROVE  /\ \A n \in DOMAIN Append(s, m) : \/ n \in DOMAIN s /\ Append(s, m)[n] = s[n]
                                             \/ n = Len(s) + 1 /\ Append(s, m)[n] = m
           /\ \A n \in DOMAIN s : n \in DOMAIN Append(s, m) /\ Append(s, m)[n] = s[n]
           /\ Len(s) + 1 \in DOMAIN Append(s, m) /\ Append(s, m)[Len(s) + 1] = m
  OBVIOUS

LEMMA PostedAt ==
    ASSUME MailOK, NEW t, NEW m
    PROVE  \A u \in Tabs : /\ mail[u] \in Seq(GoodLetters)
                           /\ Posted(mail, t, m)[u] = IF u = t THEN Append(mail[u], m) ELSE mail[u]
  BY DEF MailOK, Posted

(* What a page is not to do is not sent.                                     *)
LEMMA QuietPost ==
    ASSUME MailOK, NEW t, NEW m, m.kind \notin Doing, mail' = Posted(mail, t, m)
    PROVE  NoneNewSent
<1> SUFFICES ASSUME NEW x \in Txs, NEW u \in Tabs, NEW n, Carried(u, n, x)'
             PROVE  Carried(u, n, x)
  BY DEF NoneNewSent
<1>1. mail[u] \in Seq(GoodLetters) /\ mail'[u] = IF u = t THEN Append(mail[u], m) ELSE mail[u]
  BY PostedAt
<1>2. CASE u = t BY <1>1, <1>2, Appended DEF Carried
<1>3. CASE u # t BY <1>1, <1>3 DEF Carried
<1> QED BY <1>2, <1>3

LEMMA QuietMail == ASSUME mail' = mail PROVE NoneNewSent
  BY DEF NoneNewSent, Carried

LEMMA QuietCancelled ==
    ASSUME MailOK, NEW i, mail' = Cancelled(mail, i) PROVE NoneNewSent
BY QuietMail, QuietPost DEF Cancelled, CancelFor, Doing

(* The letters of a sequence are joined by others that are not to be done.   *)
LEMMA QuietWithdrawn ==
    ASSUME Typed, NEW ps \in SUBSET Slots, \A i \in ps : op[i] # None, mail' = Withdrawn(ps)
    PROVE  NoneNewSent
<1> SUFFICES ASSUME NEW x \in Txs, NEW u \in Tabs, NEW n, Carried(u, n, x)'
             PROVE  Carried(u, n, x)
  BY DEF NoneNewSent
<1> DEFINE w == Withdrawing(ps, u)
<1>1. PICK s : s = SetToSeq(w) OBVIOUS
<1>2. /\ mail'[u] = mail[u] \o s /\ s \in Seq(GoodLetters) /\ s \in Seq(w)
      /\ mail[u] \in Seq(GoodLetters)
  BY <1>1, WithdrawnIs DEF Typed, MailOK
<1>3. n \in DOMAIN (mail[u] \o s) /\ (mail[u] \o s)[n].kind \in Doing /\ (mail[u] \o s)[n].tx = x
  BY <1>2 DEF Carried
<1>4. CASE n \in DOMAIN mail[u] BY <1>2, <1>4, <1>3 DEF Carried
<1>5. CASE n \notin DOMAIN mail[u]
  <2>1. n - Len(mail[u]) \in DOMAIN s /\ (mail[u] \o s)[n] = s[n - Len(mail[u])]
    BY <1>2, <1>3, <1>5
  <2>2. s[n - Len(mail[u])] \in w BY <1>2, <2>1, SeqElement
  <2>3. s[n - Len(mail[u])].kind = "cancel"
    <3>1. PICK m : m = s[n - Len(mail[u])] OBVIOUS
    <3>2. PICK j \in ps : m = CancelFor(j, op[j].sub)
      BY <2>2, <3>1 DEF Withdrawing
    <3> QED BY <3>1, <3>2 DEF CancelFor
  <2> QED BY <1>3, <2>1, <2>3 DEF Doing
<1> QED BY <1>4, <1>5

(* A letter whose sender is forgotten is the same to the page.               *)
LEMMA QuietRenamed ==
    ASSUME MailOK, \A t \in Tabs : \E S : mail'[t] = [n \in DOMAIN mail[t] |->
                     IF n \in S THEN [mail[t][n] EXCEPT !.by = Gone] ELSE mail[t][n]]
    PROVE  NoneNewSent
<1> SUFFICES ASSUME NEW x \in Txs, NEW u \in Tabs, NEW n, Carried(u, n, x)'
             PROVE  Carried(u, n, x)
  BY DEF NoneNewSent
<1>1. PICK S : mail'[u] = [k \in DOMAIN mail[u] |->
                     IF k \in S THEN [mail[u][k] EXCEPT !.by = Gone] ELSE mail[u][k]]
  OBVIOUS
<1>2. n \in DOMAIN mail[u] BY <1>1 DEF Carried
<1>3. mail[u][n] \in Letters
  <2>1. mail[u] \in Seq(GoodLetters) BY DEF MailOK
  <2>2. mail[u][n] \in GoodLetters BY <1>2, <2>1, SeqElement
  <2> QED BY <2>2 DEF GoodLetters
<1>4. mail'[u][n].kind = mail[u][n].kind /\ mail'[u][n].tx = mail[u][n].tx
  BY <1>1, <1>2, <1>3 DEF Letters
<1> QED BY <1>2, <1>4 DEF Carried

-----------------------------------------------------------------------------
(* A message that sends its transaction to a page spends its own pass.       *)
LEMMA OnceSends ==
    ASSUME Typed, Once, NEW i \in Slots, Continue(i), op[i].call.ans # Waiting,
           Goes(i, op[i].call), Good(i, op[i].call),
           op[i].call.at < Len(Script[op[i].call.kind]), Stage(GoesTo(op[i].call)) \in Doing
    PROVE  Once'
<1> DEFINE c == op[i].call
           d == GoesTo(c)
           m == Message(Stage(d), i, d)
<1>1. HasCall(i) /\ OpsOK /\ CallOK(c)
  BY OpFields DEF Continue, HasCall, Typed
<1>2. Passed(c) /\ ~Passed(d) /\ d.tx = c.tx /\ c.tx \in Txs
  BY <1>1, GoesPassed DEF Good, Passed, CallOK
<1>3. Carries(i, c.tx) BY <1>1, <1>2 DEF Carries
<1>4. \A j \in Slots, x \in Txs : Carries(j, x)' => Carries(j, x) /\ j # i
  <2>1. NoneNewPassed BY <1>1, CalmContinue DEF Typed
  <2>2. PICK o : o = Edit(i, IF Stage(c) = "active" /\ op[i].id # None THEN c.tab ELSE op[i].tab,
                          op[i].active, op[i].closing, op[i].prep,
                          IF Stage(d) = "fill" THEN FillSub(d) ELSE op[i].sub, d)
    OBVIOUS
  <2>3. op'[i].call = d BY <1>1, <2>2, EditGoes DEF Edit, At
  <2> QED BY <1>2, <2>1, <2>3 DEF NoneNewPassed, Carries
<1>5. mail' = Posted(mail, d.tab, m) /\ m.tx = c.tx
  BY <1>1, <1>2, EditGoes DEF Doing, PageWork, Message
<1>6. ASSUME NEW u \in Tabs, NEW n, NEW x \in Txs, Carried(u, n, x)'
      PROVE  Carried(u, n, x) \/ (u = d.tab /\ n = Len(mail[u]) + 1 /\ x = c.tx)
  <2>1. mail[u] \in Seq(GoodLetters) /\ mail'[u] = IF u = d.tab THEN Append(mail[u], m) ELSE mail[u]
    BY <1>5, PostedAt DEF Typed
  <2>2. CASE u = d.tab
    <3>1. n \in DOMAIN Append(mail[u], m) /\ Append(mail[u], m)[n].kind \in Doing
          /\ Append(mail[u], m)[n].tx = x
      BY <1>6, <2>1, <2>2 DEF Carried
    <3>2. PICK y : y = m OBVIOUS
    <3>3. \/ n \in DOMAIN mail[u] /\ Append(mail[u], y)[n] = mail[u][n]
          \/ n = Len(mail[u]) + 1 /\ Append(mail[u], y)[n] = y
      BY <2>1, <3>1, <3>2, Appended
    <3> QED BY <1>5, <2>2, <3>1, <3>2, <3>3 DEF Carried
  <2>3. CASE u # d.tab BY <1>6, <2>1, <2>3 DEF Carried
  <2> QED BY <2>2, <2>3
<1>7. used' = used /\ effects' = effects BY DEF Continue, guard
<1>8. \A x \in Txs : Unspent(x)' <=> Unspent(x) BY <1>7 DEF Unspent
<1>9. Unspent(c.tx) /\ (\A j \in Slots : Carries(j, c.tx) => j = i)
      /\ \A t \in Tabs : \A n : ~Carried(t, n, c.tx)
  BY <1>2, <1>3 DEF Once, CallsAlone
<1>10. EffectsSpent' BY <1>7 DEF Once, EffectsSpent
<1>11. CallsAlone' BY <1>4, <1>9, <1>6, <1>8 DEF CallsAlone, Once
<1>12. LettersAlone' BY <1>6, <1>8, <1>9 DEF LettersAlone, Once
<1> QED BY <1>10, <1>11, <1>12 DEF Once

(* What is written down for the first time has reached nothing before.       *)
LEMMA OnceWrites ==
    ASSUME Typed, ReadsOK, Once, NEW r \in reads, WriteUsed(r) PROVE Once'
<1> DEFINE i == r.by
           a == IF r.new THEN 1 ELSE 0
<1>1. /\ i \in Slots /\ r.tx \in Txs /\ r.new \in BOOLEAN
      /\ Waits(i, {"consume"}) /\ op[i].call.tx = r.tx /\ (r.new => r.tx \notin used)
  BY DEF ReadsOK, Typed, GuardOK
<1>2. OpsOK /\ HasCall(i) /\ CallOK(op[i].call) /\ EffectsOK
  BY <1>1, OpFields DEF Waits, HasCall, Typed
<1>3. /\ op' = Answer(op, i, a) /\ mail' = mail /\ effects' = effects
      /\ used' = used \cup {r.tx}
  BY DEF WriteUsed, pages
<1>4. PICK o : o = Edit(i, op[i].tab, op[i].active, op[i].closing, op[i].prep, op[i].sub, Ans(op[i].call, a))
  OBVIOUS
<1>5. At(i, o) /\ o.call = Ans(op[i].call, a)
  BY <1>1, <1>2, <1>3, <1>4, EditAns DEF Edit
<1>6. op[i].call.at = 1 BY <1>1, <1>2, CallKind, Stages DEF Waits, Stage
<1>7. ASSUME NEW x \in Txs, NEW j \in Slots, Carries(j, x)'
      PROVE  Carries(j, x) \/ (j = i /\ x = r.tx /\ r.new)
  <2>1. CASE j = i
    <3>1. PICK c : c = Ans(op[i].call, a) OBVIOUS
    <3>2. op'[i].call = c /\ c.at = 1 /\ c.ans = a /\ c.tx = r.tx
      BY <1>1, <1>5, <1>6, <3>1 DEF At, Ans
    <3>3. a # 0 BY <1>7, <2>1, <3>2 DEF Carries, Passed
    <3> QED BY <1>1, <1>7, <2>1, <3>2, <3>3 DEF Carries
  <2>2. CASE j # i BY <1>5, <1>7, <2>2 DEF At, Carries, HasCall
  <2> QED BY <2>1, <2>2
<1>8. \A x \in Txs, t \in Tabs : \A n : Carried(t, n, x)' <=> Carried(t, n, x)
  BY <1>3 DEF Carried
<1>9. \A x \in Txs : Unspent(x) => Unspent(x)' BY <1>3 DEF Unspent
<1>10. r.new => /\ Unspent(r.tx)'
                /\ \A j \in Slots : ~Carries(j, r.tx)
                /\ \A t \in Tabs : \A n : ~Carried(t, n, r.tx)
  BY <1>1, <1>2, <1>3 DEF Once, EffectsSpent, EffectsOK, CallsAlone, Unspent, LettersAlone
<1>11. EffectsSpent' BY <1>3 DEF Once, EffectsSpent
<1>12. CallsAlone' BY <1>10, <1>7, <1>8, <1>9 DEF CallsAlone, Once
<1>13. LettersAlone' BY <1>8, <1>9 DEF Once, LettersAlone
<1> QED BY <1>11, <1>12, <1>13 DEF Once

(* A letter that the page acts on leaves the box in the same step.           *)
LEMMA OnceTakes ==
    ASSUME Typed, Once, NEW t \in Tabs, PageTakes(t) PROVE Once'
<1> DEFINE m == Head(mail[t])
<1>1. mail[t] # <<>> /\ mail' = [mail EXCEPT ![t] = Tail(mail[t])] /\ used' = used
  BY Zenon DEF PageTakes, guard
<1>2. NoneNewPassed BY CalmPages
<1>3. mail \in [Tabs -> Seq(GoodLetters)] /\ effects \in [Txs -> Nat] /\ m \in GoodLetters
  BY <1>1, HeadTyped DEF Typed, MailOK, EffectsOK
<1>4. ASSUME NEW u \in Tabs, NEW n, NEW x \in Txs, Carried(u, n, x)'
      PROVE  IF u = t THEN Carried(u, n + 1, x) /\ n \in Nat \ {0} ELSE Carried(u, n, x)
  BY <1>1, <1>3, <1>4 DEF Carried
<1>5. ASSUME NEW u \in Tabs, NEW n, NEW x \in Txs, Carried(u, n, x)'
      PROVE  \E k : Carried(u, k, x)
  BY <1>4, <1>5
<1>6. ASSUME NEW x \in Txs, NEW u \in Tabs, NEW n, Carried(u, n, x)', LettersAlone
      PROVE  /\ Unspent(x)
             /\ \A v \in Tabs : \A k : Carried(v, k, x)' => v = u /\ k = n
  <2>1. PICK p : Carried(u, p, x) /\ (IF u = t THEN p = n + 1 /\ n \in Nat \ {0} ELSE p = n)
    BY <1>4, <1>6
  <2>2. Unspent(x) /\ \A v \in Tabs : \A k : Carried(v, k, x) => v = u /\ k = p
    BY <1>6, <2>1 DEF LettersAlone
  <2>3. ASSUME NEW v \in Tabs, NEW k, Carried(v, k, x)' PROVE v = u /\ k = n
    BY <1>4, <2>1, <2>2, <2>3
  <2> QED BY <2>2, <2>3
<1>7. CASE effects' = effects
  BY <1>1, <1>7, <1>2, <1>5, <1>6 DEF Unspent, Once, CallsAlone, NoneNewPassed, LettersAlone,
     EffectsSpent
<1>8. CASE m.kind \in Doing /\ Reached(m.tx)
  <2>0. PICK y \in Txs : y = m.tx BY <1>3, <1>8 DEF GoodLetters
  <2>1. Carried(t, 1, y) BY <1>1, <1>3, <1>8, <2>0 DEF Carried
  <2>2. Unspent(y) /\ \A u \in Tabs : \A k : Carried(u, k, y) => u = t /\ k = 1
    BY <2>1 DEF Once, LettersAlone
  <2>3. effects' = [effects EXCEPT ![y] = 1]
    BY <1>3, <1>8, <2>0, <2>2 DEF Reached, Unspent
  <2>4. \A x \in Txs : x # y => effects'[x] = effects[x] BY <1>3, <2>3
  <2>5. EffectsSpent'
    BY <1>3, <2>1, <2>2, <2>3, <1>1, <2>4 DEF Unspent, Once, EffectsSpent
  <2>6. \A x \in Txs : x # y => (Unspent(x)' <=> Unspent(x))
    BY <1>1, <2>4 DEF Unspent
  <2>7. \A u \in Tabs : \A n : ~Carried(u, n, y)' BY <1>4, <2>2
  <2>8. \A j \in Slots : ~Carries(j, y)'
    BY <2>1, <1>2 DEF Once, CallsAlone, NoneNewPassed
  <2>9. CallsAlone'
    BY <1>2, <2>8, <1>5, <2>6 DEF CallsAlone, NoneNewPassed, Once
  <2>10. LettersAlone' BY <2>7, <1>6, <2>6 DEF LettersAlone, Once
  <2> QED BY <2>5, <2>9, <2>10 DEF Once
<1>9. effects' = effects \/ (m.kind \in Doing /\ Reached(m.tx))
  BY DEF Doing, PageTakes, Cancels, Inspects, Reads, Fills, Submits, Unreached
<1> QED BY <1>7, <1>8, <1>9

LEMMA OnceContinues ==
    ASSUME Typed, Once, NEW i \in Slots, Continue(i) PROVE Once'
<1> DEFINE c == op[i].call
<1>1. HasCall(i) /\ c.ans # Waiting /\ OpsOK /\ MailOK
  BY DEF Continue, HasCall, Typed
<1>2. CallOK(c) /\ used' = used /\ effects' = effects
  BY <1>1, OpFields DEF Continue, guard, HasCall
<1>3. NoneNewPassed BY <1>1, CalmContinue
<1>4. ASSUME NoneNewSent PROVE Once' BY <1>2, <1>3, <1>4, OnceQuiet
<1>5. "cancel" \notin Doing /\ \A s : CancelFor(i, s).kind = "cancel"
  BY DEF Doing, CancelFor
<1>6. CASE Fails(i, c)
  BY <1>6, <1>1, <1>4, <1>5, QuietPost, QuietCancelled, QuietMail DEF Fails
<1>7. CASE Good(i, c) /\ c.at < Len(Script[c.kind]) /\ Goes(i, c)
  <2> DEFINE d == GoesTo(c)
             m == Message(Stage(d), i, d)
  <2>1. CASE Stage(d) \in Doing BY <1>1, <1>7, <2>1, OnceSends
  <2>2. CASE Stage(d) \notin Doing
    <3>1. mail' = mail \/ mail' = Posted(mail, d.tab, m)
      BY <1>1, <1>7, EditGoes
    <3>2. m.kind \notin Doing BY <2>2 DEF Message
    <3> QED BY <1>1, <1>4, <3>1, <3>2, QuietPost, QuietMail
  <2> QED BY <2>1, <2>2
<1>8. CASE Ends(i, c) BY <1>8, <1>1, <1>4, <1>5, QuietPost, QuietMail DEF Ends
<1> QED BY <1>6, <1>7, <1>8, Zenon DEF Continue

LEMMA CalmNext ==
    ASSUME Typed, [Next]_vars, ~Restart, \A r \in reads : ~WriteUsed(r)
    PROVE  NoneNewPassed /\ ReadersWait
<1>0. OpsOK BY DEF Typed
<1>1. CASE Bystanders \/ UNCHANGED vars
  BY <1>1, CalmOp DEF Bystanders, Startup, AlarmFires, OpenPort, Handshake, Seal, vars
<1>2. CASE HandshakeTimeout \/ HostDisconnects \/ BadFrame
  BY <1>0, <1>2, CalmDispose DEF HandshakeTimeout, HostDisconnects, BadFrame, DropPort
<1>3. CASE Deliver BY <1>3, <1>0, CalmDispose, CalmOp DEF Deliver, DropPort
<1>4. ASSUME NEW i \in Slots, Worker(i) \/ Host(i) \/ TimesOut(i) \/ CancelSubmit(i)
      PROVE  NoneNewPassed /\ ReadersWait
  BY <1>4, CalmHost, CalmWorker
<1>5. ASSUME NEW t \in Tabs,
             PageTakes(t) \/ PageReady(t) \/ PageDrops(t) \/ Navigate(t)
      PROVE  NoneNewPassed /\ ReadersWait
  BY <1>5, CalmPages
<1> QED BY <1>1, <1>2, <1>3, <1>4, <1>5, Zenon DEF Next, Bystanders

LEMMA ReadsNext == ASSUME Typed, ReadsOK, [Next]_vars PROVE ReadsOK'
<1>0. reads \subseteq [by : Slots, tx : Txs, new : BOOLEAN]
  BY DEF Typed, GuardOK
<1>1. CASE Restart BY <1>1 DEF Restart, ReadsOK
<1>2. ASSUME NEW r \in reads, WriteUsed(r) PROVE ReadsOK'
  BY <1>2 DEF WriteUsed, ReadsOK
<1>3. ASSUME NEW i \in Slots, ReadUsed(i) PROVE ReadsOK'
  <2>1. /\ Waits(i, {"consume"}) /\ op' = op /\ used' = used
        /\ reads' = {[by |-> i, tx |-> op[i].call.tx, new |-> op[i].call.tx \notin used]}
    BY <1>3 DEF ReadUsed
  <2>2. Waits(i, {"consume"})' BY <2>1 DEF Waits
  <2>3. PICK r : r = [by |-> i, tx |-> op[i].call.tx, new |-> op[i].call.tx \notin used]
    OBVIOUS
  <2>4. reads' = {r} /\ r.by = i /\ r.tx = op[i].call.tx /\ (r.new => op[i].call.tx \notin used)
    BY <2>1, <2>3
  <2> QED BY <2>1, <2>2, <2>4 DEF ReadsOK
<1>4. CASE /\ ~Restart /\ (\A r \in reads : ~WriteUsed(r)) /\ (\A i \in Slots : ~ReadUsed(i))
  <2>1. ReadersWait BY <1>4, CalmNext
  <2>2. UNCHANGED guard
    BY <1>4, ZenonT(40) DEF Next, vars, Startup, AlarmFires, OpenPort, Handshake, HandshakeTimeout,
       BadFrame, DropPort, HostDisconnects, Seal, Deliver, Worker, Looked, Continue, FinishClose,
       Host, LegacySession, Prepare, Close, NewOperation, Commit, Use, TimesOut, CancelSubmit,
       PageTakes, PageReady, PageDrops, Navigate
  <2> QED BY <1>0, <2>1, <2>2, ReadsQuiet DEF guard
<1> QED BY <1>1, <1>2, <1>3, <1>4

LEMMA OnceNext == ASSUME Typed, ReadsOK, Once, [Next]_vars PROVE Once'
<1>0. MailOK BY DEF Typed
<1>1. CASE Restart
  BY <1>1, <1>0, QuietRenamed, OnceQuiet DEF Restart, NoneNewPassed, Carries, HasCall, Stored
<1>2. ASSUME NEW r \in reads, WriteUsed(r) PROVE Once' BY <1>2, OnceWrites
<1>3. ASSUME NEW i \in Slots, Continue(i) PROVE Once' BY <1>3, OnceContinues
<1>4. ASSUME NEW t \in Tabs, PageTakes(t) PROVE Once' BY <1>4, OnceTakes
<1>5. CASE /\ ~Restart /\ (\A r \in reads : ~WriteUsed(r))
           /\ (\A i \in Slots : ~Continue(i)) /\ \A t \in Tabs : ~PageTakes(t)
  <2>1. NoneNewPassed BY <1>5, CalmNext
  <2>2. used' = used /\ effects' = effects
    BY <1>5, ZenonT(40) DEF Next, vars, guard, Startup, AlarmFires, OpenPort, Handshake, HandshakeTimeout,
       BadFrame, DropPort, HostDisconnects, Seal, Deliver, Worker, Looked, ReadUsed, FinishClose,
       Host, LegacySession, Prepare, Close, NewOperation, Commit, Use, TimesOut, CancelSubmit,
       PageReady, PageDrops, Navigate
  <2>3. \/ mail' = mail
        \/ Dispose
        \/ \E i \in Slots : mail' = Cancelled(mail, i) \/ TimesOut(i)
        \/ \E t \in Tabs : mail' = [mail EXCEPT ![t] = <<>>]
    BY <1>5, Zenon DEF Next, vars, pages, Startup, AlarmFires, OpenPort, Handshake, HandshakeTimeout,
       BadFrame, DropPort, HostDisconnects, Seal, Deliver, Worker, Looked, ReadUsed, FinishClose,
       Host, LegacySession, Prepare, Close, NewOperation, Commit, Use, CancelSubmit,
       PageReady, PageDrops, Navigate
  <2>4. ASSUME mail' = mail PROVE NoneNewSent BY <2>4, QuietMail
  <2>5. ASSUME Dispose PROVE NoneNewSent
    BY <2>5, QuietWithdrawn DEF Dispose, Of
  <2>6. ASSUME NEW i \in Slots, TimesOut(i) PROVE NoneNewSent
    <3> DEFINE c == op[i].call
    <3>1. mail' = [mail EXCEPT ![c.tab] =
                  [n \in DOMAIN @ |-> IF @[n].by = i /\ @[n].kind = "inspect"
                                      THEN [@[n] EXCEPT !.by = Gone] ELSE @[n]]]
      BY <2>6 DEF TimesOut
    <3>2. ASSUME NEW t \in Tabs
          PROVE  \E S : mail'[t] = [n \in DOMAIN mail[t] |->
                     IF n \in S THEN [mail[t][n] EXCEPT !.by = Gone] ELSE mail[t][n]]
      <4>1. CASE t = c.tab
        <5>1. PICK S : S = {k \in DOMAIN mail[t] : mail[t][k].by = i /\ mail[t][k].kind = "inspect"}
          OBVIOUS
        <5>2. mail'[t] = [n \in DOMAIN mail[t] |->
                     IF n \in S THEN [mail[t][n] EXCEPT !.by = Gone] ELSE mail[t][n]]
          BY <1>0, <3>1, <4>1, <5>1 DEF MailOK
        <5> QED BY <5>2
      <4>2. CASE t # c.tab
        <5>1. mail'[t] = mail[t] /\ mail[t] \in Seq(GoodLetters)
          BY <1>0, <3>1, <4>2 DEF MailOK
        <5>2. mail[t] = [n \in DOMAIN mail[t] |-> IF n \in {} THEN [mail[t][n] EXCEPT !.by = Gone] ELSE mail[t][n]]
          BY <5>1
        <5>0. PICK S : S = {} OBVIOUS
        <5>3. mail'[t] = [n \in DOMAIN mail[t] |-> IF n \in S THEN [mail[t][n] EXCEPT !.by = Gone] ELSE mail[t][n]]
          BY <5>0, <5>1, <5>2
        <5> QED BY <5>3
      <4> QED BY <4>1, <4>2
    <3> QED BY <1>0, <3>2, QuietRenamed
  <2>7. ASSUME NEW t \in Tabs, mail' = [mail EXCEPT ![t] = <<>>] PROVE NoneNewSent
    BY <1>0, <2>7 DEF MailOK, NoneNewSent, Carried
  <2>8. NoneNewSent BY <1>0, <2>3, <2>4, <2>5, <2>6, <2>7, QuietCancelled
  <2> QED BY <2>1, <2>2, <2>8, OnceQuiet
<1> QED BY <1>1, <1>2, <1>3, <1>4, <1>5

LEMMA OnceInit == ASSUME Init PROVE Once /\ ReadsOK
  BY DEF Init, Once, EffectsSpent, CallsAlone, LettersAlone, Carries, HasCall, Carried, ReadsOK

(* The types hold, and a transaction has one effect at most.                 *)
OInv == Typed /\ ReadsOK /\ Once
LEMMA OnceInvariant == Spec => []OInv
<1>1. Init => OInv BY TypedInit, OnceInit DEF OInv
<1>2. OInv /\ [Next]_vars => OInv' BY TypedNext, ReadsNext, OnceNext DEF OInv
<1> QED BY <1>1, <1>2, PTL DEF Spec

(* EffectsAreOnce: a transaction reaches a page at most once, whatever calls,  *)
(* ports, restarts and navigations come between.                             *)
THEOREM OneEffect == Spec => []EffectsAreOnce
<1>1. OInv => EffectsAreOnce BY DEF OInv, Once, EffectsSpent, EffectsAreOnce
<1> QED BY <1>1, OnceInvariant, PTL

(* TypeOK: every variable is well typed in every reachable state.            *)
THEOREM WellTyped == Spec => []TypeOK
<1>1. OInv => TypeOK BY TypedIsOK DEF OInv
<1> QED BY <1>1, OnceInvariant, PTL

-----------------------------------------------------------------------------
(* Who works on a tab. An operation by itself: it works on the tab that it   *)
(* has reserved, a submit is pending beside no call but its own fill, and an *)
(* operation that is closed has none.                                        *)
Unreserved(c) == c.kind = "probe" \/ (c.kind = "pinned" /\ c.at = 1)
Fits(o) ==
    /\ o.id = None => o.tab = None
    /\ o.id # None =>
         /\ o.prep # None => o.prep.tab = o.tab
         /\ o.sub # None => o.sub.tab = o.tab
         /\ o.call # None => IF Unreserved(o.call) THEN o.tab = None ELSE o.call.tab = o.tab
    /\ o.call # None /\ o.sub # None =>
         /\ o.call.kind = "fill" /\ o.call.at \in {3, 4}
         /\ o.sub.tx = o.call.tx /\ o.sub.tab = o.call.tab
    /\ o.closing => o.call = None /\ ~o.active
    /\ ~o.active => o.sub = None
Fitting == \A i \in Slots : op[i] # None => Fits(op[i])

(* The operations beside each other: all are of the last port, of one        *)
(* protocol, a serial one is alone, and no two have reserved one tab.        *)
Protocol(o) == IF o.id = None THEN "legacy" ELSE "operations"
Beside(o, j) ==
    op[j] # None => o.id # None /\ (o.tab # None => op[j].tab # o.tab)
Apart ==
    /\ port \in {0, opened}
    /\ \A i \in Slots : op[i] # None =>
         /\ op[i].port = opened
         /\ op[i].active => port # 0
         /\ port # 0 => mode = Protocol(op[i])
         /\ \A j \in Slots \ {i} : Beside(op[i], j)

(* A letter on its way to the page is of a call that waits for it, or the    *)
(* cancellation of what it does follows behind it.                           *)
Owns(t, o) == o # None /\ (o.id # None => o.tab = t)
Touches(m) == m.by # Gone /\ m.kind \in Doing \cup {"cancel"}
CancelsOf(m, i, x) == m.kind = "cancel" /\ m.by = i /\ m.for = x
CancelAfter(t, n, i, x) == \E k \in DOMAIN mail[t] : k > n /\ CancelsOf(mail[t][k], i, x)
Reaching(o, m, t) ==
    /\ o.call # None /\ o.call.kind \in Guarded /\ o.call.at = ReachAt[o.call.kind]
    /\ Stage(o.call) = m.kind /\ o.call.tx = m.tx /\ o.call.for = m.for /\ o.call.tab = t
    /\ o.call.ans = Waiting \/ (o.call.ans = 0 /\ m.kind \in {"fill", "commit"})
    /\ m.kind = "fill" => o.sub # None \/ ~o.active
Backed(t, n, m, o) ==
    /\ Owns(t, o)
    /\ m.kind \in {"capture", "step"} => Reaching(o, m, t)
    /\ m.kind = "commit" => Reaching(o, m, t) \/ CancelAfter(t, n, m.by, m.for)
    /\ m.kind = "fill" => Reaching(o, m, t) \/ CancelAfter(t, n, m.by, m.tx)
LettersBacked ==
    \A t \in Tabs : \A n \in DOMAIN mail[t] :
        Touches(mail[t][n]) => Backed(t, n, mail[t][n], op[mail[t][n].by])

(* What a page holds is known to its operation, or a cancellation comes.     *)
Knows(o, t, x) ==
    \/ o.sub # None /\ o.sub.tx = x /\ o.sub.tab = t
    \/ /\ o.call # None /\ o.call.tab = t
       /\ \/ o.call.kind = "commit" /\ o.call.for = x
          \/ o.call.kind = "fill" /\ o.call.at = 3 /\ o.call.tx = x /\ ~o.active
Keeps(t, x, i) == Owns(t, op[i]) /\ (Knows(op[i], t, x) \/ CancelAfter(t, 0, i, x))
HeldBacked ==
    \A t \in Tabs : page[t].held # None =>
        /\ effects[page[t].held.tx] = 1
        /\ page[t].held.by # Gone => Keeps(t, page[t].held.tx, page[t].held.by)

Owning == Fitting /\ Apart /\ LettersBacked /\ HeldBacked
(* When the mail only grows, a cancellation stays behind what it follows.    *)
Remains(t, n) ==
    /\ n \in DOMAIN mail'[t]
    /\ \/ mail'[t][n] = mail[t][n]
       \/ ~Touches(mail[t][n]) /\ ~Touches(mail'[t][n])
Grows == \A t \in Tabs : \A n \in DOMAIN mail[t] : Remains(t, n)
New(t, n) == n \in DOMAIN mail'[t] /\ n \notin DOMAIN mail[t]

(* A cancellation that follows a letter still follows it when the mail       *)
(* grows.                                                                    *)
LEMMA CancelStays ==
    ASSUME Grows, NEW t \in Tabs, NEW n, NEW i, NEW x, i # Gone, CancelAfter(t, n, i, x)
    PROVE  CancelAfter(t, n, i, x)'
<1>1. PICK k \in DOMAIN mail[t] : k > n /\ CancelsOf(mail[t][k], i, x)
  BY DEF CancelAfter
<1>2. Remains(t, k) BY <1>1 DEF Grows
<1>3. mail'[t][k] = mail[t][k] /\ k \in DOMAIN mail'[t]
  BY <1>1, <1>2 DEF Remains, Touches, CancelsOf
<1>4. CancelsOf(mail'[t][k], i, x) BY <1>1, <1>3
<1> QED BY <1>1, <1>3, <1>4 DEF CancelAfter

(* A letter that is backed stays so when the mail grows.                     *)
LEMMA BackedStays ==
    ASSUME Grows, NEW t \in Tabs, NEW n, NEW m, NEW o, m.by # Gone, Backed(t, n, m, o)
    PROVE  Backed(t, n, m, o)'
BY CancelStays DEF Backed

(* What the operation i, that is edited to o, has in the mail stays backed.  *)
Yields(i, o) ==
    \A t \in Tabs : \A n \in DOMAIN mail[t] : \A m :
        m = mail[t][n] /\ Touches(m) /\ m.by = i /\ Backed(t, n, m, op[i]) => Backed(t, n, m, o)'

(* The letters stay backed when the mail grows, if every edited operation    *)
(* yields to them.                                                           *)
LEMMA LettersAfter ==
    ASSUME LettersBacked, MailOK, MailOK', Grows,
           \A i \in Slots : \A o : o = op'[i] => o = op[i] \/ Yields(i, o),
           \A t \in Tabs : \A n : New(t, n) => 
               \A m, o : m = mail'[t][n] /\ Touches(m) /\ o = op'[m.by] => Backed(t, n, m, o)'
    PROVE  LettersBacked'
<1> SUFFICES ASSUME NEW t \in Tabs, NEW n \in DOMAIN mail'[t], Touches(mail'[t][n])
             PROVE  Backed(t, n, mail[t][n], op[mail[t][n].by])'
  BY DEF LettersBacked, Touches
<1>1. PICK m : m = mail'[t][n] OBVIOUS
<1>2. PICK o : o = op'[m.by] OBVIOUS
<1>3. SUFFICES Backed(t, n, m, o)' BY <1>1, <1>2
<1>4. CASE New(t, n) BY <1>1, <1>2, <1>4
<1>5. CASE n \in DOMAIN mail[t]
  <2>1. m = mail[t][n] BY <1>1, <1>5 DEF Grows, Remains
  <2>2. Touches(m) BY <1>1
  <2>3. m \in GoodLetters BY <1>5, <2>1, SeqElement DEF MailOK
  <2>4. m.by \in Slots /\ m.by # Gone
    BY <2>2, <2>3 DEF GoodLetters, Letters, Touches
  <2>5. Backed(t, n, m, op[m.by]) BY <1>5, <2>1, <2>2 DEF LettersBacked
  <2>6. CASE o = op[m.by] BY <2>4, <2>5, <2>6, BackedStays
  <2>7. CASE Yields(m.by, o) BY <1>5, <2>1, <2>2, <2>5, <2>7 DEF Yields
  <2> QED BY <1>2, <2>4, <2>6, <2>7
<1> QED BY <1>4, <1>5 DEF New

(* The same of what the pages hold.                                          *)
Holds(i, o) ==
    \A t \in Tabs : \A x : Keeps(t, x, i) =>
        Owns(t, o) /\ (Knows(o, t, x) \/ CancelAfter(t, 0, i, x)')

(* What the pages hold stays backed when the mail grows.                     *)
LEMMA HeldAfter ==
    ASSUME HeldBacked, PagesOK, Grows, effects' = effects,
           \A t \in Tabs : page'[t].held = page[t].held \/ page'[t].held = None \/
                (page'[t].held.tx = page[t].held.tx /\ page'[t].held.by = page[t].held.by /\ page[t].held # None),
           \A i \in Slots : \A o : o = op'[i] => o = op[i] \/ Holds(i, o)
    PROVE  HeldBacked'
<1> SUFFICES ASSUME NEW t \in Tabs, page'[t].held # None
             PROVE  /\ effects'[page'[t].held.tx] = 1
                    /\ page'[t].held.by # Gone => Keeps(t, page[t].held.tx, page[t].held.by)'
  BY DEF HeldBacked
<1>1. PICK x : x = page'[t].held.tx OBVIOUS
<1>2. PICK i : i = page'[t].held.by OBVIOUS
<1>3. page[t].held # None /\ x = page[t].held.tx /\ i = page[t].held.by
  BY <1>1, <1>2
<1>4. effects[x] = 1 /\ (i # Gone => Keeps(t, x, i)) BY <1>3 DEF HeldBacked
<1>5. ASSUME i # Gone PROVE Keeps(t, x, i)'
  <2>1. i \in Slots BY <1>3, <1>5 DEF PagesOK, Held
  <2>2. PICK o : o = op'[i] OBVIOUS
  <2>3. CASE o = op[i] BY <1>4, <1>5, <2>2, <2>3, CancelStays DEF Keeps
  <2>4. CASE Holds(i, o) BY <1>4, <1>5, <2>4, <2>2 DEF Holds, Keeps
  <2> QED BY <2>1, <2>2, <2>3, <2>4
<1> QED BY <1>1, <1>2, <1>4, <1>5
(* A cancellation that is added comes after every letter.                    *)
Covers(t, i, x) == \E k : New(t, k) /\ CancelsOf(mail'[t][k], i, x)

(* A cancellation that is added follows every letter there was.              *)
LEMMA Covering ==
    ASSUME MailOK, MailOK', NEW t \in Tabs, NEW i, NEW x, Covers(t, i, x),
           NEW n, n = 0 \/ n \in DOMAIN mail[t]
    PROVE  CancelAfter(t, n, i, x)'
<1>1. PICK k : New(t, k) /\ CancelsOf(mail'[t][k], i, x) BY DEF Covers
<1>2. mail[t] \in Seq(GoodLetters) /\ mail'[t] \in Seq(GoodLetters)
  BY DEF MailOK
<1>3. k \in DOMAIN mail'[t] /\ k > n BY <1>1, <1>2 DEF New
<1> QED BY <1>1, <1>3 DEF CancelAfter

(* What an edit of i to o may lose of a call or of a submit that is pending, *)
(* a cancellation covers.                                                    *)
Gives(i, o) ==
    /\ o # None /\ o.id = op[i].id /\ (op[i].tab # None => o.tab = op[i].tab)
    /\ \A t \in Tabs : \A x : Knows(op[i], t, x) => Knows(o, t, x) \/ Covers(t, i, x)
    /\ \A t \in Tabs : \A m : Reaching(op[i], m, t) =>
         \/ Reaching(o, m, t)
         \/ m.kind = "commit" /\ Covers(t, i, m.for)
         \/ m.kind = "fill" /\ Covers(t, i, m.tx)

(* An edit that gives on what the operation knows leaves its letters backed. *)
LEMMA GivesOn ==
    ASSUME MailOK, MailOK', Grows, NEW i \in Slots, NEW o, op[i] # None, Gives(i, o), None \notin Tabs,
           i # Gone
    PROVE  Yields(i, o) /\ Holds(i, o)
<1>1. \A t : Owns(t, op[i]) /\ t \in Tabs => Owns(t, o) BY DEF Owns, Gives
<1>2. \A t \in Tabs : \A x, n : (n = 0 \/ n \in DOMAIN mail[t]) /\ Covers(t, i, x) => CancelAfter(t, n, i, x)'
  BY Covering
<1>3. \A t \in Tabs : \A x, n : CancelAfter(t, n, i, x) => CancelAfter(t, n, i, x)'
  BY CancelStays
<1>4. Yields(i, o) BY <1>1, <1>3, <1>2 DEF Yields, Backed, Gives
<1>5. Holds(i, o) BY <1>1, <1>3, <1>2 DEF Holds, Keeps, Gives
<1> QED BY <1>4, <1>5

(* One operation is edited, and only it posts letters.                       *)
Posts(i, o) ==
    \A t \in Tabs : \A n : New(t, n) => \A m : m = mail'[t][n] /\ Touches(m) =>
        /\ m.by = i /\ Owns(t, o)
        /\ m.kind = "cancel" \/ Reaching(o, m, t)

(* What the edited operation posts is backed.                                *)
LEMMA PostsBacked ==
    ASSUME NEW i \in Slots, NEW o, At(i, o), Posts(i, o), i # Gone
    PROVE  \A t \in Tabs : \A n : New(t, n) =>
             \A m, p : m = mail'[t][n] /\ Touches(m) /\ p = op'[m.by] => Backed(t, n, m, p)'
BY DEF Posts, At, Backed

(* One operation is edited, and only it posts: who works on which tab stays  *)
(* sound.                                                                    *)
LEMMA OneEdit ==
    ASSUME MailOK, MailOK', PagesOK, Owning, NEW i \in Slots, NEW o, At(i, o), op[i] # None,
           Grows, Gives(i, o), Posts(i, o), Fits(o), o.port = op[i].port, o.active => op[i].active,
           o.tab = op[i].tab \/ (o.id # None /\ \A j \in Slots \ {i} : op[j] # None => op[j].tab # o.tab),
           port' = port, opened' = opened, mode' = mode, page' = page, effects' = effects,
           None \notin Tabs, Gone \notin Slots
    PROVE  Owning'
<1>1. Yields(i, o) /\ Holds(i, o) BY GivesOn DEF Owning
<1>2. \A j \in Slots : \A p : p = op'[j] => p = op[j] \/ (Yields(j, p) /\ Holds(j, p))
  BY <1>1 DEF At
<1>3. LettersBacked' BY <1>2, LettersAfter, PostsBacked DEF Owning
<1>4. HeldBacked' BY <1>2, HeldAfter DEF Owning
<1>5. Fitting' BY DEF Owning, Fitting, At
<1>6. o # None /\ o.id = op[i].id /\ Protocol(o) = Protocol(op[i])
  BY DEF Gives, Protocol
<1>7. Apart' BY <1>6 DEF Owning, Apart, At, Beside, Protocol
<1> QED BY <1>3, <1>4, <1>5, <1>7 DEF Owning
(* What the mail becomes. *)
LEMMA Sorts ==
    ASSUME Typed
    PROVE  /\ None \notin Tabs /\ None \notin Slots /\ Gone \notin Slots /\ None \notin Txs
           /\ None \notin Ids
           /\ MailOK /\ PagesOK /\ OpsOK
  BY AgentAssumption DEF Typed

(* Nothing is posted.                                                        *)
LEMMA Unsent ==
    ASSUME mail' = mail
    PROVE  Grows /\ \A t \in Tabs : \A n : ~New(t, n)
  BY DEF Grows, Remains, New

(* One letter is posted, behind all others.                                  *)
LEMMA Sent ==
    ASSUME MailOK, NEW t \in Tabs, NEW m, mail' = Posted(mail, t, m)
    PROVE  /\ Grows /\ New(t, Len(mail[t]) + 1) /\ mail'[t][Len(mail[t]) + 1] = m
           /\ \A u \in Tabs : \A n : New(u, n) => u = t /\ mail'[u][n] = m
<1>1. \A u \in Tabs : /\ mail[u] \in Seq(GoodLetters)
                      /\ mail'[u] = IF u = t THEN Append(mail[u], m) ELSE mail[u]
  BY PostedAt
<1>2. /\ \A n \in DOMAIN mail'[t] : \/ n \in DOMAIN mail[t] /\ mail'[t][n] = mail[t][n]
                                    \/ n = Len(mail[t]) + 1 /\ mail'[t][n] = m
      /\ \A n \in DOMAIN mail[t] : n \in DOMAIN mail'[t] /\ mail'[t][n] = mail[t][n]
      /\ Len(mail[t]) + 1 \in DOMAIN mail'[t] /\ mail'[t][Len(mail[t]) + 1] = m
  <2>1. mail[t] \in Seq(GoodLetters) /\ mail'[t] = Append(mail[t], m) BY <1>1
  <2> QED BY <2>1, Appended
<1>3. \A u \in Tabs \ {t} : mail'[u] = mail[u] BY <1>1
<1>4. Grows BY <1>2, <1>3 DEF Grows, Remains
<1>5. Len(mail[t]) + 1 \notin DOMAIN mail[t] BY <1>1
<1>6. ASSUME NEW u \in Tabs, NEW n, New(u, n) PROVE u = t /\ mail'[u][n] = m
  BY <1>2, <1>3, <1>6 DEF New
<1> QED BY <1>2, <1>4, <1>5, <1>6 DEF New

(* DEFERRED_CANCEL names the operation and its submit.                       *)
LEMMA CancelIs ==
    ASSUME NEW i, NEW s, NEW m, m = CancelFor(i, s)
    PROVE  CancelsOf(m, i, s.tx) /\ m.kind = "cancel" /\ m.by = i
  BY DEF CancelFor, CancelsOf

(* The mail has grown by cancellations of i, for the submit s.               *)
SentCancel(i, t, s) ==
    /\ Grows /\ Covers(t, i, s.tx)
    /\ \A u \in Tabs : \A n : New(u, n) =>
         u = t /\ mail'[u][n].kind = "cancel" /\ mail'[u][n].by = i
(* One cancellation is posted.                                               *)
LEMMA CancelSent ==
    ASSUME MailOK, NEW t \in Tabs, NEW i, NEW s, mail' = Posted(mail, t, CancelFor(i, s))
    PROVE  SentCancel(i, t, s)
<1>1. PICK m : m = CancelFor(i, s) OBVIOUS
<1>2. CancelsOf(m, i, s.tx) /\ m.kind = "cancel" /\ m.by = i BY <1>1, CancelIs
<1>3. /\ Grows /\ New(t, Len(mail[t]) + 1) /\ mail'[t][Len(mail[t]) + 1] = m
      /\ \A u \in Tabs : \A n : New(u, n) => u = t /\ mail'[u][n] = m
  BY <1>1, Sent
<1>4. CancelsOf(mail'[t][Len(mail[t]) + 1], i, s.tx) BY <1>2, <1>3
<1>5. Covers(t, i, s.tx) BY <1>3, <1>4 DEF Covers
<1> QED BY <1>2, <1>3, <1>5 DEF SentCancel

(* cancelPendingDeferred posts a cancellation if a submit is pending.        *)
LEMMA CancelledShape ==
    ASSUME Typed, NEW i \in Slots, op[i] # None, mail' = Cancelled(mail, i)
    PROVE  /\ op[i].sub = None => mail' = mail
           /\ op[i].sub # None => op[i].sub.tab \in Tabs /\ SentCancel(i, op[i].sub.tab, op[i].sub)
BY OpFields, CancelSent DEF Typed, Pending, Cancelled

(* The fields of an edited operation.                                        *)
LEMMA EditHas ==
    ASSUME NEW i, NEW tab, NEW act, NEW clo, NEW pr, NEW su, NEW ca,
           NEW o, o = Edit(i, tab, act, clo, pr, su, ca)
    PROVE  /\ o.id = op[i].id /\ o.port = op[i].port /\ o.tab = tab
           /\ o.active = act /\ o.closing = clo /\ o.prep = pr /\ o.sub = su /\ o.call = ca
  BY DEF Edit

-----------------------------------------------------------------------------
(* The submit that is pending is withdrawn. *)
World == port' = port /\ opened' = opened /\ page' = page /\ effects' = effects

(* An operation withdraws its submit and goes on.                            *)
LEMMA Withdraws ==
    ASSUME Typed, MailOK', Owning, NEW i \in Slots, op[i] # None, NEW o, At(i, o), o # None,
           mail' = Cancelled(mail, i), World, mode' = mode,
           o.id = op[i].id, o.port = op[i].port, o.tab = op[i].tab, o.active => op[i].active,
           o.sub = None, op[i].call = None \/ o.call = op[i].call, Fits(o),
           o.active \in BOOLEAN
    PROVE  Owning'
<1>1. /\ op[i].sub = None => mail' = mail
      /\ op[i].sub # None => op[i].sub.tab \in Tabs /\ SentCancel(i, op[i].sub.tab, op[i].sub)
  BY CancelledShape
<1>2. Fits(op[i]) BY DEF Owning, Fitting
<1>3. Grows BY <1>1, Unsent DEF SentCancel
<1>4. \A t \in Tabs : \A n : New(t, n) =>
         op[i].sub # None /\ t = op[i].sub.tab /\ mail'[t][n].kind = "cancel" /\ mail'[t][n].by = i
  BY <1>1, Unsent DEF SentCancel
<1>5. Posts(i, o) BY <1>4, <1>2 DEF Posts, Owns, Fits
<1>6. Gives(i, o) BY <1>1, <1>2 DEF SentCancel, Knows, Reaching, Fits, Gives
<1> QED BY <1>3, <1>5, <1>6, OneEdit, Sorts DEF World
(* The messages of the host. *)
LEMMA CallHas ==
    ASSUME NEW kind, NEW t, NEW tx, NEW doc, NEW for, NEW c, c = Call(kind, t, tx, doc, for)
    PROVE  /\ c.kind = kind /\ c.at = 1 /\ c.tab = t /\ c.tx = tx /\ c.doc = doc /\ c.for = for
           /\ c.ans = Waiting
  BY DEF Call

(* An edited operation with typed fields is not None.                        *)
LEMMA EditSome ==
    ASSUME NEW i, op[i] \in Operations, NEW tab, tab \in Tabs \cup {None},
           NEW act, act \in BOOLEAN, NEW clo, clo \in BOOLEAN, NEW pr, pr \in {None} \cup Plans,
           NEW su, su \in {None} \cup Pending, NEW ca, ca \in {None} \cup Calls,
           NEW o, o = Edit(i, tab, act, clo, pr, su, ca)
    PROVE  o # None
BY NoneIsNoRecord DEF Operations, Edit

(* The fields of an operation whose submit is withdrawn.                     *)
LEMMA EditNow ==
    ASSUME Typed, NEW i \in Slots, op[i] # None,
           NEW act, act \in BOOLEAN, NEW clo, clo \in BOOLEAN,
           NEW pr, pr = None \/ pr = op[i].prep,
           NEW ca, ca = None \/ CallOK(ca),
           NEW o, o = Edit(i, op[i].tab, act, clo, pr, None, ca)
    PROVE  /\ o # None /\ o.id = op[i].id /\ o.port = op[i].port /\ o.tab = op[i].tab
           /\ o.active = act /\ o.closing = clo /\ o.prep = pr /\ o.sub = None /\ o.call = ca
<1>0. PICK tb, su : tb = op[i].tab /\ su = None OBVIOUS
<1>1. o = Edit(i, tb, act, clo, pr, su, ca) BY <1>0
<1>2. op[i] \in Operations /\ ca \in {None} \cup Calls
  BY DEF Typed, OpsOK, SlotOK, CallOK
<1>3. tb \in Tabs \cup {None} /\ pr \in {None} \cup Plans /\ su \in {None} \cup Pending
  BY <1>0, OpFields DEF Typed
<1>4. o # None
  BY ONLY <1>1, <1>2, <1>3, EditSome, act \in BOOLEAN, clo \in BOOLEAN
<1> QED BY <1>0, <1>1, <1>4, EditHas

(* What the invariant says of one operation.                                 *)
LEMMA FitsNow ==
    ASSUME Owning, NEW i \in Slots, op[i] # None
    PROVE  /\ Fits(op[i]) /\ op[i].port = opened /\ (op[i].active => port # 0)
           /\ (port # 0 => mode = Protocol(op[i]) /\ port = opened)
  BY DEF Owning, Fitting, Apart

(* A message of the host that withdraws the submit keeps the invariant.      *)
LEMMA HostWithdraws ==
    ASSUME Typed, MailOK', Owning, NEW i \in Slots, op[i] # None,
           NEW act \in BOOLEAN, act => op[i].active, NEW clo \in BOOLEAN,
           NEW pr \in {None, op[i].prep}, NEW ca, ca = None \/ CallOK(ca),
           op[i].call = None \/ ca = op[i].call,
           At(i, Edit(i, op[i].tab, act, clo, pr, None, ca)),
           mail' = Cancelled(mail, i), World, mode' = mode,
           clo => ca = None /\ ~act,
           ca # None /\ op[i].id # None =>
              IF Unreserved(ca) THEN op[i].tab = None ELSE ca.tab = op[i].tab
    PROVE  Owning'
<1>1. PICK o : o = Edit(i, op[i].tab, act, clo, pr, None, ca) OBVIOUS
<1>2. act \in BOOLEAN /\ clo \in BOOLEAN /\ (pr = None \/ pr = op[i].prep)
  OBVIOUS
<1>3. /\ o # None /\ o.id = op[i].id /\ o.port = op[i].port /\ o.tab = op[i].tab
      /\ o.active = act /\ o.closing = clo /\ o.prep = pr /\ o.sub = None /\ o.call = ca
  BY SMTT(30), <1>1, <1>2, EditNow
<1>4. Fits(op[i]) BY FitsNow
<1>5. Fits(o) BY <1>3, <1>4 DEF Fits
<1>6. At(i, o) BY <1>1
<1> QED BY <1>3, <1>5, <1>6, Withdraws

(* An operation that takes a message is active and has nothing under way.    *)
LEMMA Turned ==
    ASSUME Typed, Owning, NEW i \in Slots, Turn(i)
    PROVE  /\ op[i] # None /\ op[i].active /\ op[i].call = None /\ ~op[i].closing
           /\ mode' = mode
BY FitsNow DEF Turn, Live, Usable, Fits, Protocol

(* A serial preparation withdraws the submit before it looks.                *)
LEMMA PrepareOwns ==
    ASSUME Typed, MailOK', Owning, NEW i \in Slots, Prepare(i) PROVE Owning'
<1>1. Turn(i) /\ op[i].id = None /\ mail' = Cancelled(mail, i) /\ World
  BY DEF Prepare, Stays, World
<1>2. /\ op[i] # None /\ op[i].active /\ op[i].call = None /\ ~op[i].closing
      /\ mode' = mode
  BY <1>1, Turned
<1>3. PICK kind \in Preparations, t \in Tabs \cup {None} :
        /\ op' = [op EXCEPT ![i].sub = None, ![i].call = Call(kind, t, None, 0, None)]
        /\ t = None => kind = "pinned"
  BY AgentAssumption DEF Prepare
<1>4. PICK c : c = Call(kind, t, None, 0, None) OBVIOUS
<1>5. CallOK(c) BY <1>3, <1>4, CallPlain
<1>6. At(i, Edit(i, op[i].tab, op[i].active, op[i].closing, op[i].prep, None, c))
  BY <1>2, <1>3, <1>4, EditPrepare DEF Typed
<1>7. op[i].active \in BOOLEAN /\ op[i].closing \in BOOLEAN
  BY <1>2, OpFields DEF Typed
<1> QED BY <1>1, <1>2, <1>5, <1>6, <1>7, HostWithdraws

(* A message that uses the preparation up works on its tab.                  *)
LEMMA UseOwns ==
    ASSUME Typed, MailOK', Owning, NEW i \in Slots, NEW tx \in Txs, NEW k \in DOMAIN Needs,
           Use(i, k, tx)
    PROVE  Owning'
<1>1. Turn(i) /\ mail' = Cancelled(mail, i) /\ World BY DEF Use, Stays, World
<1>2. /\ op[i] # None /\ op[i].active /\ op[i].call = None /\ ~op[i].closing
      /\ mode' = mode
  BY <1>1, Turned
<1>3. PICK c \in {Call(k, q.tab, tx, q.doc, None) :
                    q \in {r \in {op[i].prep} \ {None} : r.how \in Needs[k]}} \cup {None} :
        op' = [op EXCEPT ![i].sub = None, ![i].prep = None, ![i].call = c]
  BY Zenon DEF Use
<1>4. k \in {"capture", "inject", "relay", "fill"} BY DEF Needs
<1>5. ASSUME c # None
      PROVE  CallOK(c) /\ op[i].prep # None /\ c.tab = op[i].prep.tab /\ c.kind = k
  BY <1>3, <1>5, <1>2, OpFields, <1>4, CallNew, AgentAssumption, CallHas DEF Typed, KindNames, Plans
<1>6. At(i, Edit(i, op[i].tab, op[i].active, op[i].closing, None, None, c))
  BY <1>2, <1>3, EditUse DEF Typed
<1>7. op[i].active \in BOOLEAN /\ op[i].closing \in BOOLEAN
  BY <1>2, OpFields DEF Typed
<1>8. ASSUME c # None, op[i].id # None
      PROVE  ~Unreserved(c) /\ c.tab = op[i].tab
  BY <1>2, <1>4, <1>5, <1>8, FitsNow DEF Fits, Unreserved
<1>9. c = None \/ CallOK(c) BY <1>5
<1> QED BY <1>1, <1>2, <1>6, <1>7, <1>8, <1>9, HostWithdraws

(* close and cancel withdraw the submit.                                     *)
LEMMA CloseOwns ==
    ASSUME Typed, MailOK', Owning, NEW i \in Slots, Close(i) \/ CancelSubmit(i) PROVE Owning'
BY OpFields, FitsNow, EditClose, HostWithdraws, EditSub DEF Close, CancelSubmit, World, bridge, Of,
   Typed, Fits

(* A commit takes the submit over from the operation.                        *)
LEMMA CommitOwns ==
    ASSUME Typed, MailOK', Owning, NEW i \in Slots, NEW tx \in Txs, Commit(i, tx)
    PROVE  Owning'
<1>1. Turn(i) /\ World /\ op[i].sub # None BY DEF Commit, Stays, World
<1>2. /\ op[i] # None /\ op[i].active /\ op[i].call = None /\ ~op[i].closing
      /\ mode' = mode
  BY <1>1, Turned
<1>3. op[i].active \in BOOLEAN /\ op[i].closing \in BOOLEAN /\ op[i].sub \in Pending
      /\ op[i].tab \in Tabs \cup {None} /\ op[i].prep \in {None} \cup Plans /\ OpsOK
  BY <1>1, <1>2, OpFields DEF Typed
<1>4. CASE op' = [op EXCEPT ![i].sub = None] /\ mail' = Cancelled(mail, i)
  BY <1>2, <1>4, EditSub, <1>1, <1>3, HostWithdraws DEF Typed
<1>5. CASE /\ op' = [op EXCEPT ![i].sub = None,
                ![i].call = Call("commit", op[i].sub.tab, tx, op[i].sub.doc, op[i].sub.tx)]
           /\ mail' = mail
  <2>1. PICK c : c = Call("commit", op[i].sub.tab, tx, op[i].sub.doc, op[i].sub.tx)
    OBVIOUS
  <2>2. CallOK(c)
    BY <1>3, <2>1, CallNew, AgentAssumption DEF KindNames, Pending
  <2>0. PICK act, clo, pr : act = op[i].active /\ clo = op[i].closing /\ pr = op[i].prep
    OBVIOUS
  <2>3. PICK o : o = Edit(i, op[i].tab, act, clo, pr, None, c) OBVIOUS
  <2>4. At(i, o) BY <1>2, <1>3, <1>5, <2>0, <2>1, <2>3, EditPrepare
  <2>5. /\ o # None /\ o.id = op[i].id /\ o.port = op[i].port /\ o.tab = op[i].tab
        /\ o.active = op[i].active /\ o.closing = op[i].closing /\ o.prep = op[i].prep
        /\ o.sub = None /\ o.call = c
    <3>1. act \in BOOLEAN /\ clo \in BOOLEAN /\ pr = op[i].prep /\ op[i] # None
      BY <1>2, <1>3, <2>0
    <3>2. /\ o # None /\ o.id = op[i].id /\ o.port = op[i].port /\ o.tab = op[i].tab
          /\ o.active = act /\ o.closing = clo /\ o.prep = pr /\ o.sub = None /\ o.call = c
      BY ONLY <3>1, <2>2, <2>3, EditNow, Typed, i \in Slots
    <3> QED BY <3>2, <2>0
  <2>6. c.kind = "commit" /\ c.tab = op[i].sub.tab /\ c.for = op[i].sub.tx /\ c # None
    BY <2>1, <2>2, CallHas, CallIsSome
  <2>7. Fits(op[i]) BY <1>2, FitsNow
  <2>8. Fits(o) BY <1>1, <1>2, <2>5, <2>6, <2>7 DEF Fits, Unreserved
  <2>9. Gives(i, o) BY <1>2, <2>5, <2>6 DEF Gives, Knows, Reaching
  <2>10. Grows /\ Posts(i, o) BY <1>5, Unsent DEF Posts
  <2> QED BY <1>1, <1>2, <2>4, <2>5, <2>8, <2>9, <2>10, OneEdit, Sorts DEF World
<1> QED BY <1>4, <1>5, Zenon DEF Commit
(* The answers. *)
LEMMA AnsHas ==
    ASSUME NEW c, NEW a, NEW d, d = Ans(c, a)
    PROVE  /\ d.kind = c.kind /\ d.at = c.at /\ d.tab = c.tab /\ d.tx = c.tx /\ d.for = c.for
           /\ d.ans = a /\ Stage(d) = Stage(c)
  BY DEF Ans, Stage

Answered(i, o, d) ==
    /\ o # None /\ o.id = op[i].id /\ o.port = op[i].port /\ o.tab = op[i].tab
    /\ o.active = op[i].active /\ o.closing = op[i].closing /\ o.prep = op[i].prep
    /\ o.sub = op[i].sub /\ o.call = d

(* What an answered operation is.                                            *)
LEMMA AnswerIs ==
    ASSUME OpsOK, NEW i \in Slots, HasCall(i), NEW a \in Waiting..MaxDocs,
           op[i].call.tab = None => a \in {Waiting, 0}, op' = Answer(op, i, a)
    PROVE  \E o : At(i, o) /\ Answered(i, o, Ans(op[i].call, a)) /\ CallOK(Ans(op[i].call, a))
<1>1. op[i] # None /\ op[i].call # None BY DEF HasCall
<1>2. CallOK(op[i].call) BY <1>1, OpFields
<1>3. PICK d : d = Ans(op[i].call, a) OBVIOUS
<1>4. CallOK(d) BY <1>2, <1>3, AnsOK
<1>5. PICK tb, ac, cl, pr, su : /\ tb = op[i].tab /\ ac = op[i].active /\ cl = op[i].closing
                                /\ pr = op[i].prep /\ su = op[i].sub
  OBVIOUS
<1>6. PICK o : o = Edit(i, tb, ac, cl, pr, su, d) OBVIOUS
<1>7. At(i, o) BY <1>3, <1>5, <1>6, EditAns
<1>8. op[i] \in Operations /\ d \in {None} \cup Calls
  BY <1>1, <1>4 DEF OpsOK, SlotOK, CallOK
<1>9. /\ tb \in Tabs \cup {None} /\ ac \in BOOLEAN /\ cl \in BOOLEAN
      /\ pr \in {None} \cup Plans /\ su \in {None} \cup Pending
  BY <1>1, <1>5, OpFields
<1>10. o # None BY ONLY <1>6, <1>8, <1>9, EditSome
<1>11. Answered(i, o, d) BY <1>5, <1>6, <1>10, EditHas DEF Answered
<1> QED BY <1>3, <1>4, <1>7, <1>11

\* An answer that changes nothing for a letter on its way.
Harmless(c, a) == Stage(c) \notin Doing \/ (a = 0 /\ Stage(c) \in {"fill", "commit"})

(* An answer leaves the operation on its tab.                                *)
LEMMA AnsweredFits ==
    ASSUME NEW i \in Slots, NEW a, NEW o, op[i].call # None, CallOK(Ans(op[i].call, a)),
           Answered(i, o, Ans(op[i].call, a)), Fits(op[i])
    PROVE  Fits(o)
<1>1. PICK d : d = Ans(op[i].call, a) OBVIOUS
<1>2. /\ d.kind = op[i].call.kind /\ d.at = op[i].call.at /\ d.tab = op[i].call.tab
      /\ d.tx = op[i].call.tx /\ d # None
  BY <1>1, AnsHas, CallIsSome
<1>3. Answered(i, o, d) BY <1>1
<1> QED BY <1>2, <1>3 DEF Fits, Answered, Unreserved

(* A call that a letter reaches for is at its work on the page.              *)
LEMMA ReachingDoes ==
    ASSUME NEW o, NEW m, NEW t, Reaching(o, m, t), CallOK(o.call)
    PROVE  Stage(o.call) \in Doing /\ m.kind \in Doing
BY CallKind, Stages DEF Reaching, Stage

(* An answer lets the operation forget nothing.                              *)
LEMMA AnsweredKnows ==
    ASSUME NEW i \in Slots, NEW a, NEW o, op[i].call # None, CallOK(Ans(op[i].call, a)),
           Answered(i, o, Ans(op[i].call, a)), NEW t, NEW x, Knows(op[i], t, x)
    PROVE  Knows(o, t, x)
<1>1. PICK d : d = Ans(op[i].call, a) OBVIOUS
<1>2. /\ d.kind = op[i].call.kind /\ d.at = op[i].call.at /\ d.tab = op[i].call.tab
      /\ d.tx = op[i].call.tx /\ d.for = op[i].call.for /\ d # None
  BY <1>1, AnsHas, CallIsSome
<1>3. Answered(i, o, d) BY <1>1
<1> QED BY <1>2, <1>3 DEF Knows, Answered

(* A fill or a commit that failed is still known to its call.                *)
LEMMA AnsweredReaches ==
    ASSUME NEW i \in Slots, NEW a, NEW o, op[i].call # None, CallOK(Ans(op[i].call, a)),
           Answered(i, o, Ans(op[i].call, a)), NEW t, NEW m, Reaching(op[i], m, t),
           a = 0 /\ Stage(op[i].call) \in {"fill", "commit"}
    PROVE  Reaching(o, m, t)
<1>1. PICK d : d = Ans(op[i].call, a) OBVIOUS
<1>2. /\ d.kind = op[i].call.kind /\ d.at = op[i].call.at /\ d.tab = op[i].call.tab
      /\ d.tx = op[i].call.tx /\ d.for = op[i].call.for /\ d # None /\ d.ans = 0
      /\ Stage(d) = Stage(op[i].call)
  BY <1>1, AnsHas, CallIsSome
<1>3. Answered(i, o, d) BY <1>1
<1> QED BY <1>2, <1>3 DEF Reaching, Answered

(* A harmless answer gives on all that the operation knows.                  *)
LEMMA AnsweredGives ==
    ASSUME NEW i \in Slots, NEW a, NEW o, op[i].call # None, CallOK(op[i].call),
           CallOK(Ans(op[i].call, a)),
           Answered(i, o, Ans(op[i].call, a)), Harmless(op[i].call, a)
    PROVE  Gives(i, o)
BY AnsweredKnows, AnsweredReaches, ReachingDoes DEF Harmless, Gives, Answered

NothingSent == Grows /\ \A t \in Tabs : \A n : New(t, n) => ~Touches(mail'[t][n])

(* A harmless answer keeps the invariant.                                    *)
LEMMA AnswerOwns ==
    ASSUME Typed, MailOK', Owning, NEW i \in Slots, HasCall(i), NEW a \in Waiting..MaxDocs,
           op[i].call.tab = None => a \in {Waiting, 0}, op' = Answer(op, i, a),
           Harmless(op[i].call, a), NothingSent, World, mode' = mode
    PROVE  Owning'
<1>1. PICK o : At(i, o) /\ Answered(i, o, Ans(op[i].call, a)) /\ CallOK(Ans(op[i].call, a))
  BY AnswerIs DEF Typed
<1>2. op[i] # None /\ op[i].call # None BY DEF HasCall
<1>3. CallOK(op[i].call) BY <1>2, OpFields DEF Typed
<1>4. Fits(op[i]) BY <1>2, FitsNow
<1>5. Fits(o) BY <1>1, <1>2, <1>4, AnsweredFits
<1>6. Gives(i, o) BY <1>1, <1>2, <1>3, AnsweredGives
<1>7. Grows /\ Posts(i, o) BY DEF NothingSent, Posts
<1>8. o.port = op[i].port /\ (o.active => op[i].active) /\ o.tab = op[i].tab
  BY <1>1 DEF Answered
<1> QED BY <1>1, <1>2, <1>5, <1>6, <1>7, <1>8, OneEdit, Sorts DEF World

(* A step beside the operations and the pages keeps the invariant.           *)
LEMMA SameOwns ==
    ASSUME Typed, MailOK', Owning, op' = op, mail' = mail, World, mode' = mode
    PROVE  Owning'
BY Unsent, LettersAfter, HeldAfter DEF Owning, Typed, World, Fitting, Apart, Beside

(* An answer of the tabs API keeps the invariant.                            *)
LEMMA LookedOwns ==
    ASSUME Typed, MailOK', Owning, NEW i \in Slots, Looked(i) PROVE Owning'
<1>1. World /\ mode' = mode /\ mail' = mail
  BY DEF Looked, World, bridge, pages
<1>2. NothingSent BY <1>1, Unsent DEF NothingSent
<1>3. HasCall(i) BY DEF Looked, Waits, HasCall
<1>4. CallOK(op[i].call) BY <1>3, OpFields DEF Typed, HasCall
<1>5. CASE /\ Waits(i, {"look"})
           /\ \E d \in {0, page[op[i].call.tab].doc} : op' = Answer(op, i, d)
  <2>1. Stage(op[i].call) = "look" BY <1>5 DEF Waits
  <2>2. op[i].call.tab \in Tabs BY <2>1, <1>4 DEF CallOK, Calls
  <2>3. page[op[i].call.tab].doc \in 1..MaxDocs BY <2>2 DEF Typed, PagesOK
  <2>4. PICK d \in {0, page[op[i].call.tab].doc} : op' = Answer(op, i, d)
    BY <1>5
  <2>5. d \in Waiting..MaxDocs BY <2>3, <2>4, AgentAssumption DEF Waiting
  <2>6. Harmless(op[i].call, d) BY <2>1 DEF Harmless, Doing
  <2>7. op[i].call.tab # None BY <2>2, Sorts
  <2> QED BY <1>1, <1>2, <1>3, <2>4, <2>5, <2>6, <2>7, AnswerOwns
<1>6. CASE Waits(i, {"active"}) /\ op' = Answer(op, i, 0)
  BY <1>6, AgentAssumption, <1>1, <1>2, <1>3, AnswerOwns DEF Waits, Harmless, Doing, Waiting
<1>7. CASE /\ Waits(i, {"active"})
           /\ \E t \in Tabs : op' = [op EXCEPT ![i].call.tab = t, ![i].call.ans = 1]
  <2>1. PICK t \in Tabs : op' = [op EXCEPT ![i].call.tab = t, ![i].call.ans = 1]
    BY <1>7
  <2>2. op[i].call.kind = "pinned" /\ op[i].call.at = 1
    BY <1>4, <1>7, CallKind, Stages DEF Waits, Stage
  <2>3. PICK d : d = [kind |-> op[i].call.kind, at |-> op[i].call.at, tab |-> t, tx |-> op[i].call.tx,
                      doc |-> op[i].call.doc, plan |-> op[i].call.plan, for |-> op[i].call.for,
                      ans |-> 1]
    OBVIOUS
  <2>4. d.kind = "pinned" /\ d.at = 1 BY <2>2, <2>3
  <2>5. PICK tb, ac, cl, pr, su : /\ tb = op[i].tab /\ ac = op[i].active /\ cl = op[i].closing
                                  /\ pr = op[i].prep /\ su = op[i].sub
    OBVIOUS
  <2>6. PICK o : o = Edit(i, tb, ac, cl, pr, su, d) OBVIOUS
  <2>7. At(i, o) BY <1>3, <2>1, <2>3, <2>5, <2>6, EditActive DEF Typed
  <2>8. d \in {None} \cup Calls
    BY <1>4, <2>1, <2>3, AgentAssumption DEF CallOK, Calls, Waiting
  <2>9. op[i] # None /\ op[i] \in Operations
    BY <1>3 DEF HasCall, Typed, OpsOK, SlotOK
  <2>10. /\ tb \in Tabs \cup {None} /\ ac \in BOOLEAN /\ cl \in BOOLEAN
         /\ pr \in {None} \cup Plans /\ su \in {None} \cup Pending
    BY <2>5, <2>9, OpFields DEF Typed
  <2>11. o # None BY ONLY <2>6, <2>8, <2>9, <2>10, EditSome
  <2>12. Answered(i, o, d) BY <2>5, <2>6, <2>11, EditHas DEF Answered
  <2>13. Fits(op[i]) BY <2>9, FitsNow
  <2>14. op[i].call # None BY <1>3 DEF HasCall
  <2>15. Fits(o)
    BY <2>2, <2>4, <2>12, <2>13, <2>14 DEF Fits, Answered, Unreserved
  <2>16. \A m : ~Reaching(op[i], m, t) BY <2>2 DEF Reaching, Guarded
  <2>17. Gives(i, o)
    BY <2>2, <2>4, <2>12 DEF Gives, Knows, Reaching, Guarded, Answered
  <2>18. Grows /\ Posts(i, o) BY <1>2 DEF NothingSent, Posts
  <2>19. o.port = op[i].port /\ (o.active => op[i].active) /\ o.tab = op[i].tab
    BY <2>12 DEF Answered
  <2> QED BY <1>1, <2>7, <2>9, <2>15, <2>17, <2>18, <2>19, OneEdit, Sorts DEF World
<1> QED BY <1>5, <1>6, <1>7 DEF Looked

(* The replay guard's answer keeps the invariant.                            *)
LEMMA WriteOwns ==
    ASSUME Typed, ReadsOK, MailOK', Owning, NEW r \in reads, WriteUsed(r) PROVE Owning'
<1>1. World /\ mode' = mode /\ mail' = mail
  BY DEF WriteUsed, World, bridge, pages
<1>2. NothingSent BY <1>1, Unsent DEF NothingSent
<1>3. PICK i : i = r.by OBVIOUS
<1>4. i \in Slots BY <1>3 DEF Typed, GuardOK
<1>5. Waits(i, {"consume"}) BY <1>3 DEF ReadsOK
<1>6. HasCall(i) /\ Stage(op[i].call) = "consume" BY <1>5 DEF Waits, HasCall
<1>7. CallOK(op[i].call) BY <1>4, <1>6, OpFields DEF Typed, HasCall
<1>8. op[i].call.tab # None BY <1>6, <1>7 DEF CallOK
<1>9. PICK a \in {0, 1} : op' = Answer(op, i, a) BY <1>3 DEF WriteUsed
<1>10. a \in Waiting..MaxDocs BY <1>9, AgentAssumption DEF Waiting
<1>11. Harmless(op[i].call, a) BY <1>6 DEF Harmless, Doing
<1> QED BY <1>1, <1>2, <1>4, <1>6, <1>8, <1>9, <1>10, <1>11, AnswerOwns
(* Waiting ends, and operations come and go. *)
LEMMA TimesOutOwns ==
    ASSUME Typed, MailOK', Owning, NEW i \in Slots, TimesOut(i) PROVE Owning'
<1>1. World /\ mode' = mode /\ op' = Answer(op, i, 0)
  BY DEF TimesOut, World, bridge
<1>2. HasCall(i) /\ Stage(op[i].call) \in TimedWork
  BY DEF TimesOut, Waits, HasCall
<1>3. CallOK(op[i].call) BY <1>2, OpFields DEF Typed, HasCall
<1>4. PICK u : u = op[i].call.tab OBVIOUS
<1>5. u \in Tabs /\ op[i].call.tab # None
  BY <1>2, <1>3, <1>4, Sorts DEF CallOK, Calls, TimedWork
<1>6. mail' = [mail EXCEPT ![u] = [n \in DOMAIN @ |-> IF @[n].by = i /\ @[n].kind = "inspect"
                                      THEN [@[n] EXCEPT !.by = Gone] ELSE @[n]]]
  BY <1>4 DEF TimesOut
<1>7. MailOK BY DEF Typed
<1>8. NothingSent
  <2>1. ASSUME NEW t \in Tabs
        PROVE  DOMAIN mail'[t] = DOMAIN mail[t] /\ \A n \in DOMAIN mail[t] : Remains(t, n)
    <3>1. CASE t # u BY <1>5, <1>6, <1>7, <3>1 DEF MailOK, Remains
    <3>2. CASE t = u
      <4>1. mail'[t] = [n \in DOMAIN mail[t] |-> IF mail[t][n].by = i /\ mail[t][n].kind = "inspect"
                                      THEN [mail[t][n] EXCEPT !.by = Gone] ELSE mail[t][n]]
        BY <1>5, <1>6, <1>7, <3>2 DEF MailOK
      <4>2. ASSUME NEW n \in DOMAIN mail[t] PROVE Remains(t, n)
        <5>1. PICK m : m = mail[t][n] OBVIOUS
        <5>2. m \in Letters BY <1>7, <5>1, SeqElement DEF MailOK, GoodLetters
        <5>3. PICK w : w = [m EXCEPT !.by = Gone] OBVIOUS
        <5>4. w.kind = m.kind BY <5>2, <5>3 DEF Letters
        <5>5. CASE m.by = i /\ m.kind = "inspect"
          BY <4>1, <5>1, <5>3, <5>5, <5>4 DEF Touches, Doing, Remains
        <5>6. CASE ~(m.by = i /\ m.kind = "inspect")
          BY <4>1, <5>1, <5>6 DEF Remains
        <5> QED BY <5>5, <5>6
      <4> QED BY <4>1, <4>2
    <3> QED BY <3>1, <3>2
  <2> QED BY <2>1 DEF NothingSent, Grows, New
<1>9. Harmless(op[i].call, 0) BY <1>2 DEF Harmless, TimedWork, Doing
<1>10. 0 \in Waiting..MaxDocs BY AgentAssumption DEF Waiting
<1> QED BY <1>1, <1>2, <1>5, <1>8, <1>9, <1>10, AnswerOwns

(* A slot is filled or emptied, and nothing is posted.                       *)
LEMMA OnePut ==
    ASSUME MailOK, MailOK', PagesOK, Owning, NEW i \in Slots, NEW o, At(i, o),
           Yields(i, o), Holds(i, o), mail' = mail, page' = page, effects' = effects,
           o # None => Fits(o), Apart'
    PROVE  Owning'
BY Unsent, LettersAfter, HeldAfter DEF At, Owning, Fitting

(* An empty slot has nothing on its way and nothing on a page.               *)
LEMMA Absent ==
    ASSUME NEW i \in Slots, op[i] = None, NEW o
    PROVE  Yields(i, o) /\ Holds(i, o)
  BY DEF Yields, Holds, Backed, Keeps, Owns

(* While a port is open every operation is of it, and of its protocol.       *)
LEMMA Everyone ==
    ASSUME Owning, port # 0, NEW j \in Slots, op[j] # None
    PROVE  j \in Of(port) /\ mode = Protocol(op[j]) /\ op[j].port = opened /\ port = opened
  BY DEF Of, Owning, Apart

(* An operation comes: the tab that it reserves is free.                     *)
LEMMA Comes ==
    ASSUME Typed, MailOK', Owning, NEW i \in Slots, op[i] = None, port # 0,
           NEW id, id \in Ids \cup {None}, NEW t, t \in Tabs \cup {None},
           NEW c, c = None \/ CallOK(c),
           op' = [op EXCEPT ![i] = Operation(id, t, c)], mail' = mail, World,
           mode' = IF id = None THEN "legacy" ELSE "operations", mode \in {None, mode'},
           t # None => FreeTab(t), id = None => t = None /\ c = None /\ Of(port) = {},
           c # None => IF Unreserved(c) THEN t = None ELSE c.tab = t
    PROVE  Owning'
<1>1. PICK o : o = Operation(id, t, c) OBVIOUS
<1>2. /\ o # None /\ o.id = id /\ o.port = port /\ o.tab = t /\ o.active = TRUE
      /\ o.closing = FALSE /\ o.prep = None /\ o.sub = None /\ o.call = c
  <2>1. o # None
    <3>1. port \in 1..MaxPorts BY AgentAssumption DEF Typed, BridgeTyped
    <3>2. c \in {None} \cup Calls BY DEF CallOK
    <3>3. o \in Operations BY <1>1, <3>1, <3>2 DEF Operations, Operation
    <3> QED BY ONLY <3>3, NoneIsNoRecord
  <2>2. /\ o.id = id /\ o.port = port /\ o.tab = t /\ o.active = TRUE
        /\ o.closing = FALSE /\ o.prep = None /\ o.sub = None /\ o.call = c
    BY ONLY <1>1 DEF Operation
  <2> QED BY <2>1, <2>2
<1>3. At(i, o) BY <1>1 DEF At, IsFcn, Typed, OpsOK
<1>4. Fits(o) BY <1>2 DEF Fits
<1>5. Yields(i, o) /\ Holds(i, o) BY Absent
<1>6. Apart'
  BY <1>2, Everyone, AgentAssumption, <1>3 DEF Owning, Apart, World, Protocol, FreeTab, At, Beside
<1> QED BY <1>3, <1>4, <1>5, <1>6, OnePut, Sorts DEF World

(* dispatch reserves a free tab.                                             *)
LEMMA NewOwns ==
    ASSUME Typed, MailOK', Owning, NEW i \in Slots, NEW id \in Ids, NewOperation(i, id)
    PROVE  Owning'
<1>1. /\ port # 0 /\ mode \in {None, "operations"} /\ mode' = "operations" /\ op[i] = None
      /\ World /\ mail' = mail /\ id # None
  BY AgentAssumption DEF NewOperation, Usable, Fresh, Stays, World, pages
<1>2. ASSUME NEW t \in Tabs, NEW kind \in {"plain", "live"}, FreeTab(t),
             op' = [op EXCEPT ![i] = Operation(id, t, Call(kind, t, None, 0, None))]
      PROVE  Owning'
  <2>1. PICK c : c = Call(kind, t, None, 0, None) OBVIOUS
  <2>2. t # None BY Sorts
  <2>3. CallOK(c) BY <2>1, <2>2, CallPlain DEF Preparations
  <2>4. ~Unreserved(c) /\ c.tab = t BY <2>1, CallHas DEF Unreserved
  <2>5. t \in Tabs \cup {None} /\ id \in Ids \cup {None} /\ mode \in {None, mode'}
        /\ mode' = (IF id = None THEN "legacy" ELSE "operations")
    BY <1>1
  <2>6. op' = [op EXCEPT ![i] = Operation(id, t, c)] BY <1>2, <2>1
  <2> QED BY ONLY Typed, MailOK', Owning, i \in Slots, <1>1, <1>2, <2>3, <2>4, <2>5, <2>6, Comes
<1>3. ASSUME op' = [op EXCEPT ![i] = Operation(id, None, Call("pinned", None, None, 0, None))]
      PROVE  Owning'
  <2>1. PICK c, t : c = Call("pinned", t, None, 0, None) /\ t = None OBVIOUS
  <2>2. t \in Tabs \cup {None} BY <2>1
  <2>3. CallOK(c) BY <2>1, <2>2, CallPlain DEF Preparations
  <2>4. Unreserved(c) BY <2>1, CallHas DEF Unreserved
  <2>5. t \in Tabs \cup {None} /\ id \in Ids \cup {None} /\ mode \in {None, mode'}
        /\ mode' = (IF id = None THEN "legacy" ELSE "operations")
    BY <1>1, <2>1
  <2>6. op' = [op EXCEPT ![i] = Operation(id, t, c)] /\ t = None BY <1>3, <2>1
  <2> QED BY ONLY Typed, MailOK', Owning, i \in Slots, <1>1, <2>3, <2>4, <2>5, <2>6, Comes
<1>4. ASSUME NEW t \in Tabs,
             op' = [op EXCEPT ![i] = Operation(id, None, Call("probe", t, None, 0, None))]
      PROVE  Owning'
  <2>1. PICK c, s : c = Call("probe", t, None, 0, None) /\ s = None OBVIOUS
  <2>2. t # None /\ s \in Tabs \cup {None} BY <2>1, Sorts
  <2>3. CallOK(c) BY <2>1, <2>2, CallPlain DEF Preparations
  <2>4. Unreserved(c) BY <2>1, CallHas DEF Unreserved
  <2>5. s \in Tabs \cup {None} /\ id \in Ids \cup {None} /\ mode \in {None, mode'}
        /\ mode' = (IF id = None THEN "legacy" ELSE "operations")
    BY <1>1, <2>1
  <2>6. op' = [op EXCEPT ![i] = Operation(id, s, c)] /\ s = None BY <1>4, <2>1
  <2> QED BY ONLY Typed, MailOK', Owning, i \in Slots, <1>1, <2>3, <2>4, <2>5, <2>6, Comes
<1> QED BY <1>2, <1>3, <1>4 DEF NewOperation

(* The serial session comes alone.                                           *)
LEMMA LegacyOwns ==
    ASSUME Typed, MailOK', Owning, NEW i \in Slots, LegacySession(i) PROVE Owning'
<1>1. /\ port # 0 /\ mode \in {None, "legacy"} /\ mode' = "legacy" /\ op[i] = None
      /\ World /\ mail' = mail /\ Of(port) = {}
      /\ op' = [op EXCEPT ![i] = Operation(None, None, None)]
  BY DEF LegacySession, Usable, Fresh, Stays, World, pages
<1>2. PICK id, t, c : id = None /\ t = None /\ c = None OBVIOUS
<1>3. id \in Ids \cup {None} /\ t \in Tabs \cup {None} BY <1>2
<1> QED BY <1>1, <1>2, <1>3, Comes

(* finishClose: the pages have done with what it asked of them.              *)
LEMMA Settled ==
    ASSUME NEW i \in Slots, op[i] # None, op[i].call = None, op[i].sub = None, ~Cancelling(i), NEW o
    PROVE  Yields(i, o) /\ Holds(i, o)
<1>1. \A t \in Tabs : \A n : \A x : ~CancelAfter(t, n, i, x)
  BY DEF CancelAfter, Cancelling, CancelsOf
<1>2. \A m, t : ~Reaching(op[i], m, t) BY DEF Reaching
<1>3. \A t, x : ~Knows(op[i], t, x) BY DEF Knows
<1>4. \A t \in Tabs : \A n \in DOMAIN mail[t] : \A m :
        m = mail[t][n] /\ Touches(m) /\ m.by = i => ~Backed(t, n, m, op[i])
  BY <1>1, <1>2 DEF Cancelling, Touches, Doing, Backed
<1> QED BY <1>1, <1>3, <1>4 DEF Yields, Holds, Keeps

(* finishClose gives the reservation up only when the page has done.         *)
LEMMA FinishOwns ==
    ASSUME Typed, MailOK', Owning, NEW i \in Slots, FinishClose(i) PROVE Owning'
<1>1. World /\ mode' = mode /\ mail' = Cancelled(mail, i) /\ ~Cancelling(i)
  BY DEF FinishClose, World, bridge, PageSettled
<1>2. op[i] # None /\ ~op[i].active /\ op[i].call = None
  BY EditFinish DEF Typed
<1>3. Fits(op[i]) BY <1>2, FitsNow
<1>4. op[i].sub = None BY <1>2, <1>3 DEF Fits
<1>5. CASE op[i].closing
  <2>1. At(i, None) BY <1>5, EditFinish DEF Typed
  <2>2. mail' = mail BY <1>1, <1>2, <1>4, CancelledShape
  <2>3. PICK o : o = None OBVIOUS
  <2>4. Yields(i, o) /\ Holds(i, o) BY <1>1, <1>2, <1>4, Settled
  <2>5. Apart' BY <1>1, <2>1 DEF Owning, Apart, Beside, At, World
  <2> QED BY <1>1, <2>1, <2>2, <2>3, <2>4, <2>5, OnePut, Sorts DEF World
<1>6. CASE ~op[i].closing
  BY <1>6, EditFinish, <1>2, OpFields, <1>1, HostWithdraws DEF Typed
<1> QED BY <1>5, <1>6
(* One await after another. *)
Becomes(i, o, tab, pr, su, ca) ==
    /\ o # None /\ o.id = op[i].id /\ o.port = op[i].port
    /\ o.active = op[i].active /\ o.closing = op[i].closing
    /\ o.tab = tab /\ o.prep = pr /\ o.sub = su /\ o.call = ca

(* The fields of an operation that goes on.                                  *)
LEMMA EditAt ==
    ASSUME Typed, NEW i \in Slots, op[i] # None, NEW tab, tab \in Tabs \cup {None},
           NEW pr, pr \in {None} \cup Plans, NEW su, su \in {None} \cup Pending,
           NEW ca, ca = None \/ CallOK(ca),
           At(i, Edit(i, tab, op[i].active, op[i].closing, pr, su, ca))
    PROVE  \E o : At(i, o) /\ Becomes(i, o, tab, pr, su, ca)
<1>1. PICK ac, cl : ac = op[i].active /\ cl = op[i].closing OBVIOUS
<1>2. PICK o : o = Edit(i, tab, ac, cl, pr, su, ca) OBVIOUS
<1>3. At(i, o) BY <1>1, <1>2
<1>4. op[i] \in Operations /\ ca \in {None} \cup Calls
  BY DEF Typed, OpsOK, SlotOK, CallOK
<1>5. ac \in BOOLEAN /\ cl \in BOOLEAN BY <1>1, OpFields DEF Typed
<1>6. o # None
  BY ONLY <1>2, <1>4, <1>5, EditSome, tab \in Tabs \cup {None}, pr \in {None} \cup Plans,
          su \in {None} \cup Pending
<1>7. Becomes(i, o, tab, pr, su, ca) BY <1>1, <1>2, <1>6, EditHas DEF Becomes
<1> QED BY <1>3, <1>7

(* A call that was answered is only reached for when a fill or a commit      *)
(* failed.                                                                   *)
LEMMA NotWaiting ==
    ASSUME NEW o, NEW m, NEW t, o.call.ans # Waiting, Reaching(o, m, t)
    PROVE  o.call.ans = 0 /\ m.kind \in {"fill", "commit"} /\ o.call.kind = m.kind
           /\ Stage(o.call) = m.kind /\ o.call.tx = m.tx /\ o.call.for = m.for /\ o.call.tab = t
           /\ (m.kind = "fill" => o.sub # None \/ ~o.active)
<1>1. o.call.kind \in Guarded /\ o.call.at = ReachAt[o.call.kind] /\ Stage(o.call) = m.kind
  BY DEF Reaching
<1>2. m.kind \in {"fill", "commit"} /\ o.call.ans = 0 BY DEF Reaching
<1>3. o.call.kind \in KindNames /\ o.call.at \in 1..Len(Script[o.call.kind])
  <2>1. PICK k, n : k = o.call.kind /\ n = o.call.at OBVIOUS
  <2>2. k \in Guarded /\ n = ReachAt[k] BY <1>1, <2>1
  <2>3. PICK len : len = Len(Script[k]) OBVIOUS
  <2>4. n \in 3..4 /\ len \in 4..5 BY <2>2, <2>3, Lengths DEF Guarded, ReachAt
  <2>5. n \in 1..len BY <2>4
  <2>6. k \in KindNames BY <2>2 DEF Guarded, KindNames
  <2> QED BY <2>1, <2>3, <2>5, <2>6
<1>4. o.call.kind = m.kind BY <1>1, <1>2, <1>3, Stages DEF Stage
<1> QED BY <1>1, <1>2, <1>4 DEF Reaching

(* A message that fails takes back what its page may have been given.        *)
LEMMA FailsOwns ==
    ASSUME Typed, MailOK', Owning, NEW i \in Slots, HasCall(i), op[i].call.ans # Waiting,
           Fails(i, op[i].call), World, mode' = mode
    PROVE  Owning'
<1>1. op[i] # None /\ op[i].call # None BY DEF HasCall
<1>2. PICK c : c = op[i].call OBVIOUS
<1>3. CallOK(c) BY <1>1, <1>2, OpFields DEF Typed
<1>4. Fits(op[i]) BY <1>1, FitsNow
<1>5. PICK pr, su : /\ pr = IF c.kind \in Preparations THEN None ELSE op[i].prep
                    /\ su = IF c.kind = "fill" THEN None ELSE op[i].sub
  OBVIOUS
<1>6. At(i, Edit(i, op[i].tab, op[i].active, op[i].closing, pr, su, None))
  BY <1>2, <1>5, EditFails DEF Typed
<1>7. op[i].tab \in Tabs \cup {None} /\ pr \in {None} \cup Plans /\ su \in {None} \cup Pending
  BY <1>1, <1>5, OpFields DEF Typed
<1>8. PICK o : At(i, o) /\ Becomes(i, o, op[i].tab, pr, su, None)
  BY <1>1, <1>6, <1>7, EditAt
<1>9. Fits(o) BY <1>1, <1>4, <1>5, <1>8 DEF Fits, Becomes
<1>10. c.tab \in Tabs \/ c.kind = "pinned"
  BY <1>3, CallKind, Stages DEF CallOK, Calls, Stage
<1>11. c.kind \in {"commit", "fill"} => c.tab \in Tabs /\ (op[i].id # None => c.tab = op[i].tab)
  BY <1>1, <1>2, <1>4, <1>10 DEF Fits, Unreserved
<1>12. op[i].sub # None => op[i].sub.tab \in Tabs /\ (op[i].id # None => op[i].sub.tab = op[i].tab)
  BY <1>1, <1>4, OpFields DEF Fits, Typed, Pending
\* What is told to the pages.
<1>13. \/ c.kind = "commit" /\ SentCancel(i, c.tab, [tx |-> c.for])
       \/ c.kind = "fill" /\ ~op[i].active /\ Stage(c) = "fill" /\ SentCancel(i, c.tab, c)
       \/ /\ c.kind = "fill" /\ (op[i].active \/ Stage(c) # "fill") /\ op[i].sub # None
          /\ SentCancel(i, op[i].sub.tab, op[i].sub)
       \/ /\ c.kind # "commit" /\ mail' = mail
          /\ c.kind = "fill" => op[i].sub = None /\ (op[i].active \/ Stage(c) # "fill")
  <2>1. CASE c.kind = "commit"
    <3>1. mail' = Posted(mail, c.tab, CancelFor(i, [tx |-> c.for]))
      BY <1>2, <2>1 DEF Fails
    <3> QED BY <1>11, <2>1, <3>1, CancelSent, Sorts
  <2>2. CASE c.kind = "fill" /\ TakesBack(i, c)
    <3>1. mail' = Posted(mail, c.tab, CancelFor(i, c)) BY <1>2, <2>2 DEF Fails
    <3>2. SentCancel(i, c.tab, c) BY <1>11, <2>2, <3>1, CancelSent, Sorts
    <3> QED BY <2>2, <3>2 DEF TakesBack
  <2>3. CASE c.kind = "fill" /\ ~TakesBack(i, c)
    <3>1. mail' = Cancelled(mail, i) BY <1>2, <2>3 DEF Fails
    <3>2. /\ op[i].sub = None => mail' = mail
          /\ op[i].sub # None => SentCancel(i, op[i].sub.tab, op[i].sub)
      BY <1>1, <3>1, CancelledShape
    <3> QED BY <2>3, <3>2 DEF TakesBack
  <2>4. CASE c.kind \notin {"commit", "fill"}
    <3>1. ~TakesBack(i, c)
      BY <1>3, <2>4, CallKind, Stages DEF TakesBack, Stage
    <3> QED BY <1>2, <2>4, <3>1 DEF Fails
  <2> QED BY <2>1, <2>2, <2>3, <2>4
<1>14. Grows BY <1>13, Unsent DEF SentCancel
<1>15. ASSUME NEW t \in Tabs, NEW n, New(t, n)
       PROVE  mail'[t][n].kind = "cancel" /\ mail'[t][n].by = i /\ (op[i].id # None => t = op[i].tab)
  BY <1>11, <1>12, <1>13, <1>15, Unsent DEF SentCancel
<1>16. Posts(i, o) BY <1>8, <1>15 DEF Posts, Owns, Becomes
<1>17. ASSUME NEW t \in Tabs, NEW x, Knows(op[i], t, x)
       PROVE  Knows(o, t, x) \/ Covers(t, i, x)
  <2>1. CASE op[i].sub # None /\ op[i].sub.tx = x /\ op[i].sub.tab = t
    <3>1. CASE c.kind # "fill" BY <1>5, <1>8, <2>1, <3>1 DEF Knows, Becomes
    <3>2. CASE c.kind = "fill"
      <4>1. op[i].active BY <1>1, <1>4, <2>1 DEF Fits
      <4>2. SentCancel(i, op[i].sub.tab, op[i].sub) BY <1>13, <2>1, <3>2, <4>1
      <4> QED BY <2>1, <4>2 DEF SentCancel
    <3> QED BY <3>1, <3>2
  <2>2. CASE c.tab = t /\ c.kind = "commit" /\ c.for = x
    <3>1. SentCancel(i, c.tab, [tx |-> c.for]) BY <1>13, <2>2
    <3> QED BY <2>2, <3>1 DEF SentCancel
  <2>3. CASE c.tab = t /\ c.kind = "fill" /\ c.at = 3 /\ c.tx = x /\ ~op[i].active
    <3>1. Stage(c) = "fill" BY <1>3, <2>3, CallKind, Stages DEF Stage
    <3>2. SentCancel(i, c.tab, c) BY <1>1, <1>4, <1>13, <2>3, <3>1 DEF Fits
    <3> QED BY <2>3, <3>2 DEF SentCancel
  <2> QED BY <1>2, <1>17, <2>1, <2>2, <2>3 DEF Knows
<1>18. ASSUME NEW t \in Tabs, NEW m, Reaching(op[i], m, t)
       PROVE  \/ m.kind = "commit" /\ Covers(t, i, m.for)
              \/ m.kind = "fill" /\ Covers(t, i, m.tx)
  <2>1. /\ m.kind \in {"fill", "commit"} /\ c.kind = m.kind /\ Stage(c) = m.kind
        /\ c.tx = m.tx /\ c.for = m.for /\ c.tab = t
        /\ (m.kind = "fill" => op[i].sub # None \/ ~op[i].active)
    BY <1>2, <1>18, NotWaiting
  <2>2. CASE m.kind = "commit"
    <3>1. SentCancel(i, c.tab, [tx |-> c.for]) BY <1>13, <2>1, <2>2
    <3> QED BY <2>1, <2>2, <3>1 DEF SentCancel
  <2>3. CASE m.kind = "fill" /\ ~op[i].active
    <3>1. SentCancel(i, c.tab, c) BY <1>13, <2>1, <2>3
    <3> QED BY <2>1, <2>3, <3>1 DEF SentCancel
  <2>4. CASE m.kind = "fill" /\ op[i].active
    <3>1. op[i].sub # None BY <2>1, <2>4
    <3>2. SentCancel(i, op[i].sub.tab, op[i].sub) BY <1>13, <2>1, <2>4, <3>1
    <3>3. op[i].sub.tx = m.tx /\ op[i].sub.tab = t
      BY <1>1, <1>2, <1>4, <2>1, <3>1 DEF Fits
    <3> QED BY <2>4, <3>2, <3>3 DEF SentCancel
  <2> QED BY <2>1, <2>2, <2>3, <2>4
<1>19. Gives(i, o) BY <1>8, <1>17, <1>18 DEF Gives, Becomes
<1>20. o.port = op[i].port /\ (o.active => op[i].active) /\ o.tab = op[i].tab
  BY <1>8 DEF Becomes
<1> QED BY <1>1, <1>8, <1>9, <1>14, <1>16, <1>19, <1>20, OneEdit, Sorts DEF World

(* A message that is done leaves what it gave to the page to its operation.  *)
LEMMA EndsOwns ==
    ASSUME Typed, MailOK', Owning, NEW i \in Slots, HasCall(i), op[i].call.ans # Waiting,
           Good(i, op[i].call), Allowed(i), ~(op[i].call.at < Len(Script[op[i].call.kind])),
           Ends(i, op[i].call), World, mode' = mode
    PROVE  Owning'
<1>1. op[i] # None /\ op[i].call # None /\ op[i].active
  BY DEF HasCall, Allowed
<1>2. PICK c : c = op[i].call OBVIOUS
<1>3. CallOK(c) BY <1>1, <1>2, OpFields DEF Typed
<1>4. Fits(op[i]) BY <1>1, FitsNow
<1>5. PICK pr, su : pr = EndPrep(i, c) /\ su = EndSub(i, c) OBVIOUS
<1>6. At(i, Edit(i, op[i].tab, op[i].active, op[i].closing, pr, su, None))
  BY <1>2, <1>5, EditEnds DEF Typed
<1>7. PICK len : len = Len(Script[c.kind]) OBVIOUS
<1>8. c.at \in 1..len /\ c.at = len /\ c.kind \in KindNames
  BY <1>2, <1>3, <1>7, CallKind
<1>9. c.kind = "pinned" => c.at = 2 BY <1>7, <1>8, Lengths
<1>10. c.tab \in Tabs /\ c.ans # 0
  BY <1>2, <1>3 DEF Good, Found, CallOK, Calls
<1>11. c.ans \in 1..MaxDocs
  BY <1>2, <1>3, <1>10, AgentAssumption DEF CallOK, Calls, Waiting
<1>12. c.kind = "fill" => op[i].sub # None
  BY <1>2, <1>7, <1>8, Lengths DEF Good
<1>13. op[i].tab \in Tabs \cup {None} /\ op[i].prep \in {None} \cup Plans
       /\ op[i].sub \in {None} \cup Pending
  BY <1>1, OpFields DEF Typed
<1>14. /\ pr \in {None} \cup Plans
       /\ pr = op[i].prep \/ (pr # None /\ pr.tab = c.tab /\ c.kind # "probe")
  <2>1. CASE c.kind \in Preparations \cup {"relay", "commit"}
    <3>1. PICK h \in Preparations : pr = [tab |-> c.tab, doc |-> c.ans, how |-> h]
      BY <1>5, <2>1 DEF EndPrep, Prepared, Preparations
    <3>2. pr \in Plans /\ pr.tab = c.tab BY <1>10, <1>11, <3>1 DEF Plans
    <3>3. pr # None BY <3>2, NoneIsNoRecord
    <3> QED BY <2>1, <3>2, <3>3 DEF Preparations
  <2>2. CASE c.kind \notin Preparations \cup {"relay", "commit"}
    BY <1>5, <1>13, <2>2 DEF EndPrep
  <2> QED BY <2>1, <2>2
<1>15. /\ su \in {None} \cup Pending
       /\ op[i].sub = None => su = None
       /\ op[i].sub # None => su # None /\ su.tab = op[i].sub.tab /\ su.tx = op[i].sub.tx
  <2>1. CASE c.kind = "fill"
    <3>1. PICK s : s = op[i].sub OBVIOUS
    <3>2. s \in Pending /\ s # None BY <1>12, <1>13, <2>1, <3>1
    <3>3. su = [s EXCEPT !.ready = TRUE] BY <1>5, <2>1, <3>1 DEF EndSub
    <3>4. su \in Pending /\ su.tab = s.tab /\ su.tx = s.tx
      BY <3>2, <3>3 DEF Pending
    <3>5. su # None BY <3>4, NoneIsNoRecord
    <3> QED BY <3>1, <3>2, <3>4, <3>5
  <2>2. CASE c.kind # "fill" BY <1>5, <1>13, <2>2 DEF EndSub
  <2> QED BY <2>1, <2>2
<1>16. PICK o : At(i, o) /\ Becomes(i, o, op[i].tab, pr, su, None)
  BY <1>1, <1>6, <1>13, <1>14, <1>15, EditAt
<1>17. op[i].id # None => IF c.kind = "probe" THEN op[i].tab = None ELSE c.tab = op[i].tab
  BY <1>1, <1>2, <1>4, <1>9 DEF Fits, Unreserved
<1>18. Fits(o) BY <1>1, <1>4, <1>14, <1>15, <1>16, <1>17 DEF Fits, Becomes
<1>19. IF c.kind = "commit" THEN SentCancel(i, c.tab, [tx |-> c.for]) ELSE mail' = mail
  BY <1>2, <1>10, CancelSent, Sorts DEF Ends
<1>20. Grows BY <1>19, Unsent DEF SentCancel
<1>21. Posts(i, o)
  BY <1>16, <1>17, <1>19, Unsent DEF Posts, Owns, Becomes, SentCancel
<1>22. ASSUME NEW t \in Tabs, NEW x, Knows(op[i], t, x)
       PROVE  Knows(o, t, x) \/ Covers(t, i, x)
  BY <1>15, <1>16, <1>19, <1>1, <1>2, <1>22 DEF Knows, Becomes, SentCancel
<1>23. ASSUME NEW t \in Tabs, NEW m PROVE ~Reaching(op[i], m, t)
  BY <1>2, <1>10, NotWaiting
<1>24. Gives(i, o) BY <1>16, <1>22, <1>23 DEF Gives, Becomes
<1>25. o.port = op[i].port /\ (o.active => op[i].active) /\ o.tab = op[i].tab
  BY <1>16 DEF Becomes
<1> QED BY <1>1, <1>16, <1>18, <1>20, <1>21, <1>24, <1>25, OneEdit, Sorts DEF World
(* The next await: what it posts is backed by the call that waits for it.    *)
LEMMA GoesOwns ==
    ASSUME Typed, MailOK', Owning, NEW i \in Slots, HasCall(i), op[i].call.ans # Waiting,
           Good(i, op[i].call), Allowed(i), op[i].call.at < Len(Script[op[i].call.kind]),
           Goes(i, op[i].call), World, mode' = mode
    PROVE  Owning'
<1>1. op[i] # None /\ op[i].call # None /\ op[i].active
  BY DEF HasCall, Allowed
<1>2. PICK c : c = op[i].call OBVIOUS
<1>3. CallOK(c) BY <1>1, <1>2, OpFields DEF Typed
<1>4. Fits(op[i]) BY <1>1, FitsNow
<1>5. PICK d : d = GoesTo(c) OBVIOUS
<1>6. /\ CallOK(d) /\ Stage(d) = Script[c.kind][c.at + 1] /\ c.tab # None
      /\ Stage(d) = "fill" => FillSub(d) \in Pending
  BY <1>2, <1>3, <1>5, GoesOK DEF Good
<1>7. /\ d.kind = c.kind /\ d.at = c.at + 1 /\ d.tab = c.tab /\ d.tx = c.tx /\ d.for = c.for
      /\ d.ans = Waiting /\ d # None
  BY <1>5, <1>6, CallIsSome DEF GoesTo
<1>8. PICK tab, su : /\ tab = IF Stage(c) = "active" /\ op[i].id # None THEN c.tab ELSE op[i].tab
                     /\ su = IF Stage(d) = "fill" THEN FillSub(d) ELSE op[i].sub
  OBVIOUS
<1>9. /\ At(i, Edit(i, tab, op[i].active, op[i].closing, op[i].prep, su, d))
      /\ mail' = IF Stage(d) \in PageWork THEN Posted(mail, d.tab, Message(Stage(d), i, d)) ELSE mail
  BY <1>2, <1>5, <1>8, EditGoes DEF Typed
<1>10. op[i].tab \in Tabs \cup {None} /\ op[i].prep \in {None} \cup Plans
       /\ op[i].sub \in {None} \cup Pending
  BY <1>1, OpFields DEF Typed
<1>11. c.tab \in Tabs /\ c.at \in 1..5 /\ c.kind \in KindNames /\ d.at \in 1..Len(Script[d.kind])
  BY <1>3, <1>6, CallKind DEF CallOK, Calls
<1>12. tab \in Tabs \cup {None} /\ su \in {None} \cup Pending
  BY <1>6, <1>8, <1>10, <1>11
<1>13. PICK o : At(i, o) /\ Becomes(i, o, tab, op[i].prep, su, d)
  <2>1. PICK pr : pr = op[i].prep OBVIOUS
  <2>2. PICK o : At(i, o) /\ Becomes(i, o, tab, pr, su, d)
    BY <1>1, <1>6, <1>9, <1>10, <1>12, <2>1, EditAt
  <2> QED BY <2>1, <2>2
<1>14. Stage(c) = "active" <=> c.kind = "pinned" /\ c.at = 1
  BY <1>3, CallKind, Stages DEF Stage
<1>15. Stage(d) = "fill" <=> c.kind = "fill" /\ c.at = 2
  BY <1>6, <1>7, <1>11, Stages DEF Stage
<1>16. c.kind # "probe" /\ (c.kind = "pinned" => c.at = 1)
  <2>1. PICK len : len = Len(Script[c.kind]) OBVIOUS
  <2>2. c.at < len /\ c.at \in 1..5 BY <1>2, <1>11, <2>1
  <2>3. (c.kind = "probe" => len = 1) /\ (c.kind = "pinned" => len = 2)
    BY <2>1, Lengths
  <2> QED BY <2>2, <2>3
<1>17. ~Unreserved(d) /\ (Unreserved(c) <=> Stage(c) = "active")
  BY <1>7, <1>11, <1>14, <1>16 DEF Unreserved
<1>18. op[i].id # None => IF Stage(c) = "active" THEN op[i].tab = None ELSE c.tab = op[i].tab
  BY <1>1, <1>2, <1>4, <1>17 DEF Fits
<1>19. /\ op[i].id # None => d.tab = tab
       /\ op[i].id = None => tab = None
  BY <1>4, <1>7, <1>8, <1>18 DEF Fits
<1>20. op[i].sub # None => /\ c.kind = "fill" /\ c.at = 3 /\ op[i].sub.tx = c.tx
                           /\ op[i].sub.tab = c.tab
  <2>1. ASSUME op[i].sub # None, c.at = 4, c.kind = "fill" PROVE FALSE
    BY <1>2, <2>1, Lengths
  <2> QED BY <1>1, <1>2, <1>4, <2>1 DEF Fits
<1>21. Stage(d) = "fill" => su # None /\ su.tx = d.tx /\ su.tab = d.tab
  BY <1>6, <1>8, NoneIsNoRecord DEF FillSub
<1>22. op[i].sub # None => su = op[i].sub BY <1>8, <1>15, <1>20
<1>23. su # None => /\ d.kind = "fill" /\ d.at \in {3, 4} /\ su.tx = d.tx /\ su.tab = d.tab
  BY <1>7, <1>8, <1>15, <1>20, <1>21
<1>24. op[i].prep # None => (op[i].id # None => op[i].prep.tab = tab)
  BY <1>1, <1>4, <1>10, <1>8, <1>18, Sorts DEF Fits, Plans
<1>25. Fits(o)
  BY <1>1, <1>4, <1>13, <1>17, <1>19, <1>23, <1>24 DEF Fits, Becomes
<1>26. o.tab = op[i].tab \/ (o.id # None /\ \A j \in Slots \ {i} : op[j] # None => op[j].tab # o.tab)
  BY <1>1, <1>2, FitsNow, Everyone, <1>8, <1>13 DEF Good, FreeTab, Becomes
<1>27. Gives(i, o)
  BY <1>13, <1>22, <1>7, <1>1, <1>2, NotWaiting, <1>8, <1>18 DEF Knows, Becomes, Good, Found, Gives
<1>28. CASE Stage(d) \in PageWork
  <2>1. PICK m : m = Message(Stage(d), i, d) OBVIOUS
  <2>2. m.kind = Stage(d) /\ m.by = i /\ m.tx = d.tx /\ m.for = d.for
    BY <2>1 DEF Message
  <2>3. mail' = Posted(mail, d.tab, m) BY <1>9, <1>28, <2>1
  <2>4. /\ Grows
        /\ \A u \in Tabs : \A n : New(u, n) => u = d.tab /\ mail'[u][n] = m
    BY <1>7, <1>11, <2>3, Sent, Sorts
  <2>5. Owns(d.tab, o) BY <1>13, <1>19 DEF Owns, Becomes
  <2>6. ASSUME Touches(m) PROVE Reaching(o, m, d.tab)
    BY <1>28, <2>2, <2>6, <1>7, <1>11, Stages, <1>13, <1>21 DEF Touches, PageWork, Stage, Reaching,
       Becomes
  <2>7. Posts(i, o) BY <2>2, <2>4, <2>5, <2>6 DEF Posts
  <2>8. o.port = op[i].port /\ (o.active => op[i].active) BY <1>13 DEF Becomes
  <2> QED BY <1>1, <1>13, <1>25, <1>26, <1>27, <2>4, <2>7, <2>8, OneEdit, Sorts DEF World
<1>29. CASE Stage(d) \notin PageWork
  BY <1>9, <1>29, Unsent, <1>13, <1>1, <1>25, <1>26, <1>27, OneEdit, Sorts DEF Posts, Becomes, World
<1> QED BY <1>28, <1>29

(* Every continuation of a message keeps the invariant.                      *)
LEMMA ContinueOwns ==
    ASSUME Typed, MailOK', Owning, NEW i \in Slots, Continue(i) PROVE Owning'
BY FailsOwns, GoesOwns, EndsOwns DEF Continue, HasCall, World, bridge
(* The port goes, and comes back. *)
LEMMA AtEnd ==
    ASSUME NEW S, NEW s \in Seq(S), NEW r \in Seq(S), NEW q, q = s \o r
    PROVE  /\ \A n \in DOMAIN s : n \in DOMAIN q /\ q[n] = s[n]
           /\ \A n \in DOMAIN q : n \notin DOMAIN s => \E k \in DOMAIN r : q[n] = r[k]
           /\ \A k \in DOMAIN r : Len(s) + k \in DOMAIN q /\ Len(s) + k \notin DOMAIN s
                                  /\ q[Len(s) + k] = r[k]
<1>1. DOMAIN s = 1..Len(s) /\ DOMAIN r = 1..Len(r) /\ Len(s) \in Nat /\ Len(r) \in Nat
  OBVIOUS
<1>2. DOMAIN q = 1..(Len(s) + Len(r)) /\ \A n \in DOMAIN q : q[n] = IF n <= Len(s) THEN s[n] ELSE r[n - Len(s)]
  OBVIOUS
<1>3. \A n \in DOMAIN s : n \in DOMAIN q /\ q[n] = s[n] BY <1>1, <1>2
<1>4. ASSUME NEW n \in DOMAIN q, n \notin DOMAIN s PROVE \E k \in DOMAIN r : q[n] = r[k]
  BY <1>1, <1>2, <1>4
<1>5. \A k \in DOMAIN r : Len(s) + k \in DOMAIN q /\ Len(s) + k \notin DOMAIN s
                          /\ q[Len(s) + k] = r[k]
  BY <1>1, <1>2
<1> QED BY <1>3, <1>4, <1>5

(* Every submit that is pending on the port has its cancellation posted.     *)
LEMMA WithdrawnSent ==
    ASSUME Typed, NEW ps \in SUBSET Slots, \A i \in ps : op[i] # None, mail' = Withdrawn(ps)
    PROVE  /\ Grows
           /\ \A t \in Tabs : \A n : New(t, n) => \E i \in ps :
                /\ op[i].sub # None /\ op[i].sub.tab = t
                /\ mail'[t][n].kind = "cancel" /\ mail'[t][n].by = i
           /\ \A i \in ps : op[i].sub # None => Covers(op[i].sub.tab, i, op[i].sub.tx)
<1>1. ASSUME NEW t \in Tabs
      PROVE  /\ \A n \in DOMAIN mail[t] : n \in DOMAIN mail'[t] /\ mail'[t][n] = mail[t][n]
             /\ \A n : New(t, n) => mail'[t][n] \in Withdrawing(ps, t)
             /\ \A m \in Withdrawing(ps, t) : \E n : New(t, n) /\ mail'[t][n] = m
  <2>1. PICK s, r, q : s = mail[t] /\ r = SetToSeq(Withdrawing(ps, t)) /\ q = mail'[t]
    OBVIOUS
  <2>2. /\ q = s \o r /\ r \in Seq(GoodLetters) /\ r \in Seq(Withdrawing(ps, t))
        /\ \A m \in Withdrawing(ps, t) : \E n \in DOMAIN r : r[n] = m
    BY SMTT(30), <2>1, WithdrawnIs
  <2>3. s \in Seq(GoodLetters) BY <2>1 DEF Typed, MailOK
  <2>4. /\ \A n \in DOMAIN s : n \in DOMAIN q /\ q[n] = s[n]
        /\ \A n \in DOMAIN q : n \notin DOMAIN s => \E k \in DOMAIN r : q[n] = r[k]
        /\ \A k \in DOMAIN r : Len(s) + k \in DOMAIN q /\ Len(s) + k \notin DOMAIN s
                               /\ q[Len(s) + k] = r[k]
    BY <2>2, <2>3, AtEnd
  <2>5. \A k \in DOMAIN r : r[k] \in Withdrawing(ps, t) BY <2>2, SeqElement
  <2>6. \A n : New(t, n) => mail'[t][n] \in Withdrawing(ps, t)
    BY <2>1, <2>4, <2>5 DEF New
  <2>7. ASSUME NEW m \in Withdrawing(ps, t)
        PROVE  \E n : New(t, n) /\ mail'[t][n] = m
    <3>1. PICK k \in DOMAIN r : r[k] = m BY <2>2
    <3> QED BY <2>1, <2>4, <3>1 DEF New
  <2> QED BY <2>1, <2>4, <2>6, <2>7
<1>2. Grows BY <1>1 DEF Grows, Remains
<1>3. ASSUME NEW t \in Tabs, NEW n, New(t, n)
      PROVE  \E i \in ps : /\ op[i].sub # None /\ op[i].sub.tab = t
                           /\ mail'[t][n].kind = "cancel" /\ mail'[t][n].by = i
  <2>1. PICK i \in ps : /\ op[i].sub # None /\ op[i].sub.tab = t
                        /\ mail'[t][n] = CancelFor(i, op[i].sub)
    BY <1>1, <1>3 DEF Withdrawing
  <2> QED BY <2>1, CancelIs
<1>4. ASSUME NEW i \in ps, op[i].sub # None PROVE Covers(op[i].sub.tab, i, op[i].sub.tx)
  <2>1. PICK s : s = op[i].sub OBVIOUS
  <2>2. PICK t : t = s.tab OBVIOUS
  <2>3. t \in Tabs BY <1>4, <2>1, <2>2, OpFields DEF Typed, Pending
  <2>4. CancelFor(i, s) \in Withdrawing(ps, t)
    BY <1>4, <2>1, <2>2 DEF Withdrawing
  <2>5. PICK n : New(t, n) /\ mail'[t][n] = CancelFor(i, s)
    BY <1>1, <2>3, <2>4
  <2>6. CancelsOf(mail'[t][n], i, s.tx) BY <2>5, CancelIs
  <2> QED BY <2>1, <2>2, <2>5, <2>6 DEF Covers
<1> QED BY <1>2, <1>3, <1>4

(* A revoked operation gives on what it knows, or cancels it.                *)
LEMMA RevokedGives ==
    ASSUME Owning, NEW i \in Slots, op[i] # None, NEW o,
           o # None, o.id = op[i].id, o.tab = op[i].tab, o.active = FALSE, o.sub = None,
           o.call = op[i].call, op[i].sub # None => Covers(op[i].sub.tab, i, op[i].sub.tx)
    PROVE  Gives(i, o)
BY DEF Knows, Reaching, Gives

(* disposeSecureSession keeps the invariant.                                 *)
LEMMA DisposeOwns ==
    ASSUME Typed, MailOK', Owning, Dispose, opened' = opened, page' = page, effects' = effects
    PROVE  Owning'
<1>1. PICK ps : ps = Of(port) OBVIOUS
<1>2. ps \in SUBSET Slots /\ \A i \in ps : op[i] # None BY <1>1 DEF Of
<1>3. port' = 0 /\ mail' = Withdrawn(ps) BY <1>1 DEF Dispose
<1>4. ASSUME NEW i \in Slots
      PROVE  op'[i] = IF i \in ps THEN Edit(i, op[i].tab, FALSE, op[i].closing, op[i].prep, None, op[i].call)
                      ELSE op[i]
  BY <1>1, OpsDispose DEF Typed
<1>5. /\ Grows
      /\ \A t \in Tabs : \A n : New(t, n) => \E i \in ps :
           /\ op[i].sub # None /\ op[i].sub.tab = t
           /\ mail'[t][n].kind = "cancel" /\ mail'[t][n].by = i
      /\ \A i \in ps : op[i].sub # None => Covers(op[i].sub.tab, i, op[i].sub.tx)
  BY <1>2, <1>3, WithdrawnSent
<1>6. ASSUME NEW i \in ps, NEW o, o = op'[i]
      PROVE  /\ o # None /\ o.id = op[i].id /\ o.port = op[i].port /\ o.tab = op[i].tab
             /\ o.active = FALSE /\ o.closing = op[i].closing /\ o.prep = op[i].prep
             /\ o.sub = None /\ o.call = op[i].call
  <2>1. op[i] # None /\ i \in Slots BY <1>2
  <2>2. PICK ac, cl, pr, ca : ac = FALSE /\ cl = op[i].closing /\ pr = op[i].prep /\ ca = op[i].call
    OBVIOUS
  <2>3. o = Edit(i, op[i].tab, ac, cl, pr, None, ca) BY <1>4, <1>6, <2>1, <2>2
  <2>4. ac \in BOOLEAN /\ cl \in BOOLEAN /\ (ca = None \/ CallOK(ca))
    BY <2>1, <2>2, OpFields DEF Typed
  <2>5. /\ o # None /\ o.id = op[i].id /\ o.port = op[i].port /\ o.tab = op[i].tab
        /\ o.active = ac /\ o.closing = cl /\ o.prep = pr /\ o.sub = None /\ o.call = ca
    BY ONLY <2>1, <2>2, <2>3, <2>4, EditNow, Typed
  <2> QED BY <2>2, <2>5
<1>7. ASSUME NEW i \in ps, NEW o, o = op'[i] PROVE Yields(i, o) /\ Holds(i, o)
  <2>1. Gives(i, o)
    <3>1. /\ o # None /\ o.id = op[i].id /\ o.tab = op[i].tab /\ o.active = FALSE
          /\ o.sub = None /\ o.call = op[i].call
      BY <1>6, <1>7
    <3>2. i \in Slots /\ op[i] # None /\ (op[i].sub # None => Covers(op[i].sub.tab, i, op[i].sub.tx))
      BY <1>2, <1>5
    <3> QED BY ONLY <3>1, <3>2, Owning, RevokedGives
  <2>2. i \in Slots /\ op[i] # None /\ i # Gone /\ None \notin Tabs /\ MailOK /\ Grows
    BY <1>2, <1>5, Sorts
  <2> QED BY ONLY <2>1, <2>2, MailOK', GivesOn
<1>8. \A i \in Slots : \A o : o = op'[i] => o = op[i] \/ (Yields(i, o) /\ Holds(i, o))
  BY <1>4, <1>7
<1>9. ASSUME NEW t \in Tabs, NEW n, New(t, n), NEW m, NEW o, m = mail'[t][n], o = op'[m.by]
      PROVE  Backed(t, n, m, o)'
  <2>1. PICK i \in ps : /\ op[i].sub # None /\ op[i].sub.tab = t /\ m.kind = "cancel" /\ m.by = i
    BY <1>5, <1>9
  <2>2. Fits(op[i]) BY <1>2, FitsNow
  <2>3. o # None /\ o.id = op[i].id /\ o.tab = op[i].tab BY <1>6, <1>9, <2>1
  <2>4. Owns(t, o) BY <1>2, <2>1, <2>2, <2>3 DEF Fits, Owns
  <2> QED BY <2>1, <2>4 DEF Backed
<1>10. LettersBacked' BY <1>5, <1>8, <1>9, LettersAfter, Sorts DEF Owning
<1>11. HeldBacked' BY <1>5, <1>8, HeldAfter, Sorts DEF Owning
<1>12. Fitting'
  <2>1. ASSUME NEW i \in Slots, NEW o, o = op'[i], o # None PROVE Fits(o)
    <3>1. CASE i \in ps
      <4>1. Fits(op[i]) BY <1>2, <3>1, FitsNow
      <4>2. /\ o.id = op[i].id /\ o.tab = op[i].tab /\ o.active = FALSE /\ o.prep = op[i].prep
            /\ o.sub = None /\ o.call = op[i].call /\ o.closing = op[i].closing
        BY <1>6, <2>1, <3>1
      <4> QED BY <4>1, <4>2 DEF Fits
    <3>2. CASE i \notin ps BY <1>4, <2>1, <3>2, FitsNow
    <3> QED BY <3>1, <3>2
  <2> QED BY <2>1 DEF Fitting
<1>13. ASSUME NEW i \in Slots, op'[i] # None
       PROVE  /\ op[i] # None /\ op'[i].port = opened /\ ~op'[i].active
              /\ op'[i].id = op[i].id /\ op'[i].tab = op[i].tab
  <2>1. CASE i \in ps BY ZenonT(30), <1>2, <1>6, <2>1, FitsNow
  <2>2. CASE i \notin ps BY <1>4, <2>2, <1>1, <1>13, FitsNow, Everyone
  <2> QED BY <2>1, <2>2
<1>14. Apart' BY <1>3, <1>13 DEF Owning, Apart, Beside
<1> QED BY <1>10, <1>11, <1>12, <1>14 DEF Owning

(* However the port is lost, the invariant is kept.                          *)
LEMMA DropOwns ==
    ASSUME Typed, MailOK', Owning, DropPort \/ HandshakeTimeout \/ HostDisconnects \/ BadFrame
    PROVE  Owning'
  BY DisposeOwns DEF DropPort, HandshakeTimeout, HostDisconnects, BadFrame

(* A delivery, or the port that it closes, keeps the invariant.              *)
LEMMA SealDelivers ==
    ASSUME Typed, MailOK', Owning, Deliver
    PROVE  Owning'
BY DropOwns, SameOwns DEF bridge, pages, World, Deliver

(* A port is opened when the operations of the last one are gone.            *)
LEMMA OpenOwns ==
    ASSUME Typed, MailOK', Owning, OpenPort PROVE Owning'
BY Unsent, LettersAfter, HeldAfter DEF OpenPort, Drained, pages, Owning, Typed, Fitting, Apart

(* The worker ends: the pages keep what nobody awaits.                       *)
LEMMA RestartOwns ==
    ASSUME Typed, MailOK', Owning, Restart PROVE Owning'
<1>1. port' = 0 /\ \A i \in Slots : op'[i] = None BY DEF Restart
<1>2. Fitting' /\ Apart' BY <1>1 DEF Fitting, Apart
<1>3. ASSUME NEW t \in Tabs, NEW n \in DOMAIN mail'[t] PROVE ~Touches(mail'[t][n])
  <2>1. mail'[t] = [k \in DOMAIN mail[t] |-> [mail[t][k] EXCEPT !.by = Gone]]
    BY DEF Restart
  <2>2. n \in DOMAIN mail[t] BY <2>1
  <2>3. PICK m, w : m = mail[t][n] /\ w = [m EXCEPT !.by = Gone] OBVIOUS
  <2>4. m \in Letters BY <2>2, <2>3, SeqElement DEF Typed, MailOK, GoodLetters
  <2>5. w.by = Gone BY <2>3, <2>4 DEF Letters
  <2> QED BY <2>1, <2>2, <2>3, <2>5 DEF Touches
<1>4. LettersBacked' BY <1>3 DEF LettersBacked, Touches
<1>5. ASSUME NEW t \in Tabs, page'[t].held # None
      PROVE  page'[t].held.by = Gone /\ effects'[page'[t].held.tx] = 1
  <2>1. PICK p, q : p = page[t] /\ q = page'[t] OBVIOUS
  <2>2. q = IF p.held = None THEN p ELSE [p EXCEPT !.held.by = Gone]
    BY <2>1 DEF Restart
  <2>3. p \in [doc : 1..MaxDocs, held : {None} \cup Held]
    BY <2>1 DEF Typed, PagesOK
  <2>4. p.held # None BY <1>5, <2>1, <2>2
  <2>5. PICK h, g : h = p.held /\ g = [h EXCEPT !.by = Gone] OBVIOUS
  <2>6. h \in Held BY <2>3, <2>4, <2>5
  <2>7. g.by = Gone /\ g.tx = h.tx BY <2>5, <2>6 DEF Held
  <2>8. q.held = g BY <2>2, <2>3, <2>4, <2>5
  <2>9. effects[h.tx] = 1 /\ effects' = effects
    BY <2>1, <2>4, <2>5 DEF Owning, HeldBacked, Restart
  <2> QED BY <2>1, <2>7, <2>8, <2>9
<1>6. HeldBacked' BY <1>5 DEF HeldBacked
<1> QED BY <1>2, <1>4, <1>6 DEF Owning
(* The mail gets shorter at its front. *)
Was(u, n, k) ==
    /\ k \in DOMAIN mail[u] /\ mail'[u][n] = mail[u][k]
    /\ \A i, x : CancelAfter(u, k, i, x) => CancelAfter(u, n, i, x)'
Shrinks == \A u \in Tabs : \A n \in DOMAIN mail'[u] : \E k : Was(u, n, k)

\* The answer a of the call of i is one that no letter left on its way needs.
QuietAnswer(i, a) ==
    \A u \in Tabs : \A n \in DOMAIN mail'[u] : \A m :
        m = mail'[u][n] /\ m.by = i /\ Touches(m) /\ Reaching(op[i], m, u) =>
            a = 0 /\ Stage(op[i].call) \in {"fill", "commit"}
Ticks(i, o) ==
    /\ op[i] # None /\ op[i].call # None
    /\ \E a : /\ CallOK(Ans(op[i].call, a)) /\ Answered(i, o, Ans(op[i].call, a))
              /\ QuietAnswer(i, a)
Ticking == \A i \in Slots : \A o : o = op'[i] => o = op[i] \/ Ticks(i, o)

(* The letters that are left stay backed.                                    *)
LEMMA LettersShrink ==
    ASSUME LettersBacked, MailOK', Shrinks, Ticking, Gone \notin Slots
    PROVE  LettersBacked'
<1> SUFFICES ASSUME NEW t \in Tabs, NEW n \in DOMAIN mail'[t], Touches(mail'[t][n])
             PROVE  Backed(t, n, mail[t][n], op[mail[t][n].by])'
  BY DEF LettersBacked, Touches
<1>1. PICK m : m = mail'[t][n] OBVIOUS
<1>2. PICK o : o = op'[m.by] OBVIOUS
<1>3. SUFFICES Backed(t, n, m, o)' BY <1>1, <1>2
<1>4. PICK k : Was(t, n, k) BY DEF Shrinks
<1>5. k \in DOMAIN mail[t] /\ m = mail[t][k] /\ Touches(m)
  BY <1>1, <1>4 DEF Was
<1>6. m \in GoodLetters BY <1>1, SeqElement DEF MailOK
<1>7. m.by \in Slots /\ m.by # Gone
  BY <1>5, <1>6 DEF GoodLetters, Letters, Touches
<1>8. Backed(t, k, m, op[m.by]) BY <1>5 DEF LettersBacked
<1>9. \A x : CancelAfter(t, k, m.by, x) => CancelAfter(t, n, m.by, x)'
  BY <1>4 DEF Was
<1>10. CASE o = op[m.by] BY <1>8, <1>9, <1>10 DEF Backed
<1>11. CASE Ticks(m.by, o)
  <2>1. PICK i : i = m.by OBVIOUS
  <2>2. PICK a : CallOK(Ans(op[i].call, a)) /\ Answered(i, o, Ans(op[i].call, a)) /\ QuietAnswer(i, a)
    BY <1>11, <2>1 DEF Ticks
  <2>3. op[i].call # None /\ i \in Slots BY <1>7, <1>11, <2>1 DEF Ticks
  <2>4. ASSUME Reaching(op[i], m, t) PROVE Reaching(o, m, t)
    BY <1>1, <1>5, <2>1, <2>2, <2>4, <2>3, AnsweredReaches DEF QuietAnswer
  <2>5. Owns(t, o) BY <1>8, <2>1, <2>2 DEF Backed, Owns, Answered
  <2> QED BY <1>8, <1>9, <2>1, <2>4, <2>5 DEF Backed
<1> QED BY <1>2, <1>7, <1>10, <1>11 DEF Ticking

(* What a page holds stays there, or it gets what a letter brings.           *)
StaysHeld(u, x, i) ==
    /\ page[u].held # None /\ page[u].held.by = i /\ page[u].held.tx = x
    /\ i # Gone => (CancelAfter(u, 0, i, x) => CancelAfter(u, 0, i, x)')
GetsHeld(u, x, i) == i # Gone => Keeps(u, x, i)'
HeldGoesOn ==
    \A u \in Tabs : page'[u].held # None => \A x, i :
        x = page'[u].held.tx /\ i = page'[u].held.by =>
            effects'[x] = 1 /\ (StaysHeld(u, x, i) \/ GetsHeld(u, x, i))

(* What the pages still hold stays backed.                                   *)
LEMMA HeldShrinks ==
    ASSUME HeldBacked, PagesOK, Ticking, HeldGoesOn
    PROVE  HeldBacked'
<1> SUFFICES ASSUME NEW t \in Tabs, page'[t].held # None
             PROVE  /\ effects'[page'[t].held.tx] = 1
                    /\ page'[t].held.by # Gone => Keeps(t, page[t].held.tx, page[t].held.by)'
  BY DEF HeldBacked
<1>1. PICK x, i : x = page'[t].held.tx /\ i = page'[t].held.by OBVIOUS
<1>2. effects'[x] = 1 /\ (StaysHeld(t, x, i) \/ GetsHeld(t, x, i))
  BY <1>1 DEF HeldGoesOn
<1>3. SUFFICES ASSUME i # Gone PROVE Keeps(t, x, i)' BY <1>1, <1>2
<1>4. CASE GetsHeld(t, x, i) BY <1>3, <1>4 DEF GetsHeld
<1>5. CASE StaysHeld(t, x, i)
  <2>1. Keeps(t, x, i) /\ i \in Slots
    BY <1>3, <1>5 DEF StaysHeld, HeldBacked, PagesOK, Held
  <2>2. CancelAfter(t, 0, i, x) => CancelAfter(t, 0, i, x)'
    BY <1>3, <1>5 DEF StaysHeld
  <2>3. PICK o : o = op'[i] OBVIOUS
  <2>4. CASE o = op[i] BY <2>1, <2>2, <2>3, <2>4 DEF Keeps
  <2>5. CASE Ticks(i, o)
    <3>1. PICK a : CallOK(Ans(op[i].call, a)) /\ Answered(i, o, Ans(op[i].call, a))
      BY <2>5 DEF Ticks
    <3>2. op[i].call # None BY <2>5 DEF Ticks
    <3>3. Knows(op[i], t, x) => Knows(o, t, x)
      BY <2>1, <3>1, <3>2, AnsweredKnows
    <3>4. Owns(t, o) BY <2>1, <3>1 DEF Keeps, Owns, Answered
    <3> QED BY <2>1, <2>2, <2>3, <3>3, <3>4 DEF Keeps
  <2> QED BY <2>1, <2>3, <2>4, <2>5 DEF Ticking
<1> QED BY <1>2, <1>4, <1>5

(* A step of the pages keeps the invariant.                                  *)
LEMMA PagesOwn ==
    ASSUME Typed, MailOK', Owning, Shrinks, Ticking, HeldGoesOn,
           port' = port, opened' = opened, mode' = mode
    PROVE  Owning'
<1>1. LettersBacked' BY LettersShrink, Sorts DEF Owning
<1>2. HeldBacked' BY HeldShrinks, Sorts DEF Owning
<1>3. ASSUME NEW i \in Slots, NEW o, o = op'[i], o # op[i]
      PROVE  /\ op[i] # None /\ op[i].call # None /\ Fits(o)
             /\ o.id = op[i].id /\ o.port = op[i].port /\ o.tab = op[i].tab
             /\ o.active = op[i].active
  <2>1. Ticks(i, o) BY <1>3 DEF Ticking
  <2>2. PICK a : CallOK(Ans(op[i].call, a)) /\ Answered(i, o, Ans(op[i].call, a))
    BY <2>1 DEF Ticks
  <2>3. op[i] # None /\ op[i].call # None BY <2>1 DEF Ticks
  <2>4. Fits(op[i]) BY <2>3, FitsNow
  <2>5. Fits(o) BY <2>2, <2>3, <2>4, AnsweredFits
  <2> QED BY <2>2, <2>3, <2>5 DEF Answered
<1>4. Fitting' BY <1>3 DEF Owning, Fitting
<1>5. ASSUME NEW i \in Slots, op'[i] # None
      PROVE  /\ op[i] # None /\ op'[i].id = op[i].id /\ op'[i].port = op[i].port
             /\ op'[i].tab = op[i].tab /\ op'[i].active = op[i].active
  BY <1>3, <1>5
<1>6. Apart' BY <1>5 DEF Owning, Apart, Beside, Protocol
<1> QED BY <1>1, <1>2, <1>4, <1>6 DEF Owning

-----------------------------------------------------------------------------
(* The mail is left alone.                                                   *)
LEMMA SameMail == ASSUME mail' = mail PROVE Shrinks
BY DEF Was, CancelAfter, Shrinks

(* The first letter is taken, the others move up.                            *)
LEMMA TakenMail ==
    ASSUME MailOK, NEW t \in Tabs, mail[t] # <<>>, mail' = [mail EXCEPT ![t] = Tail(@)]
    PROVE  /\ 1 \in DOMAIN mail[t] /\ mail[t][1] = Head(mail[t])
           /\ Shrinks
           /\ \A u \in Tabs : \A n \in DOMAIN mail'[u] :
                 \E k : Was(u, n, k) /\ (u = t => k # 1)
           /\ \A i, x : CancelAfter(t, 1, i, x) => CancelAfter(t, 0, i, x)'
           /\ \A u \in Tabs \ {t} : mail'[u] = mail[u]
<1>1. PICK s, q : s = mail[t] /\ q = Tail(s) OBVIOUS
<1>2. s \in Seq(GoodLetters) /\ s # <<>> /\ mail'[t] = q BY <1>1 DEF MailOK
<1>3. /\ 1 \in DOMAIN s /\ s[1] = Head(s) /\ Len(s) \in Nat /\ Len(q) = Len(s) - 1
      /\ DOMAIN s = 1..Len(s) /\ DOMAIN q = 1..(Len(s) - 1)
      /\ \A n \in DOMAIN q : q[n] = s[n + 1]
  BY <1>1, <1>2
<1>4. ASSUME NEW n, n = 0 \/ n \in DOMAIN q, NEW i, NEW x, CancelAfter(t, n + 1, i, x)
      PROVE  CancelAfter(t, n, i, x)'
  <2>1. PICK k \in DOMAIN s : k > n + 1 /\ CancelsOf(s[k], i, x)
    BY <1>1, <1>4 DEF CancelAfter
  <2>2. n \in Nat BY <1>3, <1>4
  <2>3. k - 1 \in DOMAIN q /\ k - 1 > n /\ q[k - 1] = s[k] BY <1>3, <2>1, <2>2
  <2> QED BY <1>2, <2>1, <2>3 DEF CancelAfter
<1>5. ASSUME NEW n \in DOMAIN mail'[t] PROVE Was(t, n, n + 1) /\ n + 1 # 1
  <2>1. n + 1 \in DOMAIN s /\ q[n] = s[n + 1] /\ n + 1 # 1 BY <1>2, <1>3
  <2> QED BY <1>1, <1>2, <1>4, <2>1 DEF Was
<1>6. \A u \in Tabs \ {t} : mail'[u] = mail[u] BY DEF MailOK
<1>7. ASSUME NEW u \in Tabs \ {t}, NEW n \in DOMAIN mail'[u] PROVE Was(u, n, n)
  BY <1>6 DEF Was, CancelAfter
<1>8. \A u \in Tabs : \A n \in DOMAIN mail'[u] : \E k : Was(u, n, k) /\ (u = t => k # 1)
  BY <1>5, <1>7
<1>9. \A i, x : CancelAfter(t, 1, i, x) => CancelAfter(t, 0, i, x)'
  <2>1. ASSUME NEW i, NEW x, CancelAfter(t, 1, i, x) PROVE CancelAfter(t, 0, i, x)'
    <3>1. PICK n : n = 0 OBVIOUS
    <3>2. CancelAfter(t, n + 1, i, x) BY <2>1, <3>1
    <3>3. CancelAfter(t, n, i, x)' BY <1>4, <3>1, <3>2
    <3> QED BY <3>1, <3>3
  <2> QED BY <2>1
<1> QED BY <1>1, <1>3, <1>6, <1>8, <1>9 DEF Shrinks
(* What the pages do. *)
NoLetterOf(x) ==
    \A u \in Tabs : \A n \in DOMAIN mail'[u] :
        ~(mail'[u][n].kind \in Doing /\ mail'[u][n].tx = x)

(* Nobody is told.                                                           *)
LEMMA NobodyTold == ASSUME op' = op PROVE Ticking
  BY DEF Ticking

(* Who is told has no other letter on its way that needs its call waiting.   *)
LEMMA ToldTicks ==
    ASSUME Typed, NEW by \in Slots \cup {Gone}, NEW kind \in PageWork, NEW tx,
           NEW a \in 0..MaxDocs, Told(by, kind, tx, a),
           (a = 0 /\ kind \in {"fill", "commit"}) \/ kind \notin Doing \/ NoLetterOf(tx)
    PROVE  Ticking
<1>1. CASE op' = op BY <1>1, NobodyTold
<1>2. CASE /\ by # Gone /\ Waits(by, {kind}) /\ op[by].call.tx = tx
           /\ op' = Answer(op, by, a)
  <2>1. by \in Slots /\ HasCall(by) /\ Stage(op[by].call) = kind
    BY <1>2 DEF Waits, HasCall
  <2>2. op[by] # None /\ op[by].call # None BY <2>1 DEF HasCall
  <2>3. CallOK(op[by].call) BY <2>1, <2>2, OpFields DEF Typed
  <2>4. op[by].call.tab # None BY <2>1, <2>3 DEF CallOK, PageWork
  <2>5. a \in Waiting..MaxDocs BY AgentAssumption DEF Waiting
  <2>6. PICK o : At(by, o) /\ Answered(by, o, Ans(op[by].call, a)) /\ CallOK(Ans(op[by].call, a))
    BY <1>2, <2>1, <2>4, <2>5, AnswerIs DEF Typed
  <2>7. ASSUME NEW u \in Tabs, NEW n \in DOMAIN mail'[u], NEW m, m = mail'[u][n], Touches(m),
               Reaching(op[by], m, u)
        PROVE  a = 0 /\ Stage(op[by].call) \in {"fill", "commit"}
    BY <2>3, <2>7, ReachingDoes, <1>2, <2>1 DEF Reaching, NoLetterOf
  <2>8. QuietAnswer(by, a) BY <2>7 DEF QuietAnswer
  <2>9. Ticks(by, o) BY <2>2, <2>6, <2>8 DEF Ticks
  <2> QED BY <2>6, <2>9 DEF At, Ticking
<1> QED BY <1>1, <1>2 DEF Told

(* What the invariant says of what a page holds.                             *)
LEMMA HeldIs ==
    ASSUME Typed, Owning, NEW t \in Tabs, page[t].held # None
    PROVE  /\ page[t].held \in Held /\ page[t].held.by \in Slots \cup {Gone}
           /\ page[t].held.tx \in Txs /\ effects[page[t].held.tx] = 1
  BY DEF Typed, PagesOK, Held, Owning, HeldBacked

(* One page changes what it holds.                                           *)
LEMMA HoldingIs ==
    ASSUME Typed, NEW t \in Tabs, NEW h, page' = Holding(t, h)
    PROVE  page'[t].held = h /\ \A u \in Tabs \ {t} : page'[u] = page[u]
  BY DEF Holding, Typed, PagesOK

(* The letter that the page takes. *)
Takes(t, m) ==
    /\ mail[t] # <<>> /\ m = Head(mail[t]) /\ mail' = [mail EXCEPT ![t] = Tail(@)]

(* A working letter that is taken was the only one of its transaction.       *)
LEMMA TakenOnce ==
    ASSUME Typed, Once, NEW t \in Tabs, NEW m, Takes(t, m), m.kind \in Doing
    PROVE  m.tx \in Txs /\ effects[m.tx] = 0 /\ NoLetterOf(m.tx)
<1>1. /\ 1 \in DOMAIN mail[t] /\ mail[t][1] = m
      /\ \A u \in Tabs : \A n \in DOMAIN mail'[u] : \E k : Was(u, n, k) /\ (u = t => k # 1)
  BY TakenMail DEF Takes, Typed
<1>2. m \in GoodLetters BY HeadTyped DEF Takes
<1>3. m.tx \in Txs BY <1>2 DEF GoodLetters
<1>4. Carried(t, 1, m.tx) BY <1>1 DEF Carried
<1>5. Unspent(m.tx) /\ \A u \in Tabs : \A k : Carried(u, k, m.tx) => u = t /\ k = 1
  BY <1>3, <1>4 DEF Once, LettersAlone
<1>6. ASSUME NEW u \in Tabs, NEW n \in DOMAIN mail'[u], mail'[u][n].kind \in Doing,
             mail'[u][n].tx = m.tx
      PROVE  FALSE
  <2>1. PICK k : Was(u, n, k) /\ (u = t => k # 1) BY <1>1
  <2>2. Carried(u, k, m.tx) BY <1>6, <2>1 DEF Was, Carried
  <2> QED BY <1>5, <2>1, <2>2
<1> QED BY <1>3, <1>5, <1>6 DEF Unspent, NoLetterOf

(* A cancellation that is not taken moves up.                                *)
LEMMA CancelOnward ==
    ASSUME Typed, NEW t \in Tabs, NEW m, Takes(t, m), NEW u \in Tabs, NEW i, NEW x,
           ~(u = t /\ CancelsOf(m, i, x)), CancelAfter(u, 0, i, x)
    PROVE  CancelAfter(u, 0, i, x)'
<1>1. /\ 1 \in DOMAIN mail[t] /\ mail[t][1] = m
      /\ \A j, y : CancelAfter(t, 1, j, y) => CancelAfter(t, 0, j, y)'
      /\ \A v \in Tabs \ {t} : mail'[v] = mail[v]
  BY TakenMail DEF Takes, Typed
<1>2. CASE u # t BY <1>1, <1>2 DEF CancelAfter
<1>3. CASE u = t
  <2>1. PICK k \in DOMAIN mail[t] : k > 0 /\ CancelsOf(mail[t][k], i, x)
    BY <1>3 DEF CancelAfter
  <2>2. k # 1 BY <1>1, <1>3, <2>1
  <2>3. k \in Nat BY <2>1 DEF Typed, MailOK
  <2>4. CancelAfter(t, 1, i, x) BY <2>1, <2>2, <2>3 DEF CancelAfter
  <2> QED BY <1>1, <1>3, <2>4
<1> QED BY <1>2, <1>3

(* What a page still holds after a letter is accounted for.                  *)
LEMMA TakeHeld ==
    ASSUME Typed, Owning, Once, NEW t \in Tabs, NEW m, Takes(t, m),
           \A u \in Tabs : page'[u].held # None => page'[u].held = page[u].held,
           m.kind = "cancel" /\ page'[t].held # None => page[t].held.tx # m.for,
           effects' = effects \/ (m.kind \in Doing /\ effects' = [effects EXCEPT ![m.tx] = @ + 1])
    PROVE  HeldGoesOn
BY HeldIs, TakenOnce, CancelOnward DEF HeldGoesOn, Typed, EffectsOK, CancelsOf, StaysHeld

Still == port' = port /\ opened' = opened /\ mode' = mode

(* What a taken letter is.                                                   *)
LEMMA TakeShrinks ==
    ASSUME Typed, NEW t \in Tabs, NEW m, Takes(t, m)
    PROVE  /\ Shrinks /\ m \in GoodLetters /\ m \in Letters /\ m.by \in Slots \cup {Gone}
           /\ 1 \in DOMAIN mail[t] /\ mail[t][1] = m
BY TakenMail, HeadTyped DEF Takes, Typed

(* A page drops what it held, and tells a fill that waits.                   *)
LEMMA DropsTicks ==
    ASSUME Typed, Owning, NEW t \in Tabs, Drops(t)
    PROVE  Ticking /\ page' = Holding(t, None)
<1>1. CASE op' = op BY <1>1, NobodyTold DEF Drops
<1>2. CASE page[t].held # None /\ Told(page[t].held.by, "fill", page[t].held.tx, 0)
  <2>1. PICK h : h = page[t].held OBVIOUS
  <2>2. h.by \in Slots \cup {Gone} /\ Told(h.by, "fill", h.tx, 0)
    BY <1>2, <2>1, HeldIs
  <2>3. 0 \in 0..MaxDocs BY AgentAssumption
  <2>4. Ticking BY <2>2, <2>3, ToldTicks DEF PageWork
  <2> QED BY <2>4 DEF Drops
<1> QED BY <1>1, <1>2 DEF Drops

(* DEFERRED_CANCEL at the page keeps the invariant.                          *)
LEMMA CancelsOwn ==
    ASSUME Typed, MailOK', Owning, Once, NEW t \in Tabs, NEW m, Takes(t, m), Cancels(t, m), Still
    PROVE  Owning'
BY DropsTicks, HoldingIs, TakeHeld, TakeShrinks, PagesOwn, NobodyTold DEF Cancels, Unreached, Still

(* A look at the form keeps the invariant.                                   *)
LEMMA InspectsOwn ==
    ASSUME Typed, MailOK', Owning, Once, NEW t \in Tabs, NEW m, Takes(t, m), Inspects(t, m), Still
    PROVE  Owning'
<1>1. m.kind \in {"inspect", "survey"} /\ effects' = effects /\ page' = Holding(t, None)
  BY DEF Inspects, Unreached
<1>2. PICK d \in {0, page[t].doc} : Told(m.by, m.kind, m.tx, d)
  BY DEF Inspects
<1>3. d \in 0..MaxDocs BY <1>2, HeldTyped, AgentAssumption
<1>4. m.kind \in PageWork /\ m.kind \notin Doing /\ m.by \in Slots \cup {Gone}
  BY <1>1, TakeShrinks DEF PageWork, Doing
<1>5. Ticking BY <1>2, <1>3, <1>4, ToldTicks
<1>6. page'[t].held = None /\ \A u \in Tabs \ {t} : page'[u] = page[u]
  BY <1>1, HoldingIs
<1>7. HeldGoesOn BY <1>1, <1>6, TakeHeld
<1> QED BY <1>5, <1>7, TakeShrinks, PagesOwn DEF Still

(* A capture or a step at the page keeps the invariant.                      *)
LEMMA ReadsOwn ==
    ASSUME Typed, MailOK', Owning, Once, NEW t \in Tabs, NEW m, Takes(t, m), Reads(t, m), Still
    PROVE  Owning'
<1>1. m.kind \in {"capture", "step"} /\ (page' = page \/ page' = Holding(t, None))
      /\ (effects' = effects \/ effects' = [effects EXCEPT ![m.tx] = @ + 1])
  BY DEF Reads, Reached, Unreached
<1>2. PICK d \in {0, 1} : Told(m.by, m.kind, m.tx, d) BY DEF Reads
<1>3. d \in 0..MaxDocs BY <1>2, AgentAssumption
<1>4. m.kind \in PageWork /\ m.kind \in Doing /\ m.by \in Slots \cup {Gone}
  BY <1>1, TakeShrinks DEF PageWork, Doing
<1>5. NoLetterOf(m.tx) BY <1>4, TakenOnce
<1>6. Ticking BY <1>2, <1>3, <1>4, <1>5, ToldTicks
<1>7. \A u \in Tabs : page'[u].held # None => page'[u].held = page[u].held
  BY <1>1, HoldingIs
<1>8. HeldGoesOn BY <1>1, <1>4, <1>7, TakeHeld
<1> QED BY <1>6, <1>8, TakeShrinks, PagesOwn DEF Still

(* A commit at the page keeps the invariant.                                 *)
LEMMA SubmitsOwn ==
    ASSUME Typed, MailOK', Owning, Once, NEW t \in Tabs, NEW m, Takes(t, m), Submits(t, m), Still
    PROVE  Owning'
<1>1. m.kind = "commit" /\ page' = Holding(t, None)
      /\ (effects' = effects \/ effects' = [effects EXCEPT ![m.tx] = @ + 1])
  BY DEF Submits, Reached, Unreached
<1>2. PICK d \in {0, 1} : Told(m.by, "commit", m.tx, d) BY DEF Submits
<1>3. d \in 0..MaxDocs BY <1>2, AgentAssumption
<1>4. "commit" \in PageWork /\ m.kind \in Doing /\ m.by \in Slots \cup {Gone}
  BY <1>1, TakeShrinks DEF PageWork, Doing
<1>5. NoLetterOf(m.tx) BY <1>4, TakenOnce
<1>6. Ticking BY <1>2, <1>3, <1>4, <1>5, ToldTicks
<1>7. \A u \in Tabs : page'[u].held # None => page'[u].held = page[u].held
  BY <1>1, HoldingIs
<1>8. HeldGoesOn BY <1>1, <1>4, <1>7, TakeHeld
<1> QED BY <1>6, <1>8, TakeShrinks, PagesOwn DEF Still
(* Values that a page takes are known to the operation, or a cancellation    *)
(* follows.                                                                  *)
LEMMA FilledKeeps ==
    ASSUME Typed, Owning, NEW t \in Tabs, NEW m, Takes(t, m), m.kind = "fill", m.by # Gone, op' = op
    PROVE  Keeps(t, m.tx, m.by)'
<1>1. PICK i, x : i = m.by /\ x = m.tx OBVIOUS
<1>2. i \in Slots /\ Touches(m) /\ 1 \in DOMAIN mail[t] /\ mail[t][1] = m
  BY <1>1, TakeShrinks DEF Touches, Doing
<1>3. Backed(t, 1, m, op[i]) BY <1>1, <1>2 DEF Owning, LettersBacked
<1>4. Owns(t, op[i]) BY <1>3 DEF Backed
<1>5. CASE CancelAfter(t, 1, i, x)
  BY <1>5, TakenMail, <1>1, <1>4 DEF Takes, Typed, Keeps
<1>6. CASE Reaching(op[i], m, t)
  <2>1. PICK c : c = op[i].call OBVIOUS
  <2>2. /\ c # None /\ c.kind \in Guarded /\ c.at = ReachAt[c.kind] /\ Stage(c) = "fill"
        /\ c.tx = x /\ c.tab = t /\ (op[i].sub # None \/ ~op[i].active)
    BY <1>1, <1>6, <2>1 DEF Reaching
  <2>3. op[i] # None BY <1>4 DEF Owns
  <2>4. CallOK(c) BY <1>2, <2>1, <2>2, <2>3, OpFields DEF Typed
  <2>5. c.kind = "fill" /\ c.at = 3 BY <2>2, <2>4, CallKind, Stages DEF Stage
  <2>6. Fits(op[i]) BY <1>2, <2>3, FitsNow
  <2>7. Knows(op[i], t, x) BY <2>1, <2>2, <2>5, <2>6 DEF Knows, Fits
  <2> QED BY <1>1, <1>4, <2>7 DEF Keeps
<1> QED BY <1>1, <1>3, <1>5, <1>6 DEF Backed

(* A fill at the page keeps the invariant.                                   *)
LEMMA FillsOwn ==
    ASSUME Typed, MailOK', Owning, Once, NEW t \in Tabs, NEW m, Takes(t, m), Fills(t, m), Still
    PROVE  Owning'
<1>1. m.kind = "fill" /\ m.kind \in Doing /\ "fill" \in PageWork /\ 0 \in 0..MaxDocs
  BY AgentAssumption DEF Fills, Doing, PageWork
<1>2. CASE page' = page /\ effects' = effects /\ Told(m.by, "fill", m.tx, 0)
  BY <1>1, <1>2, ToldTicks, TakeShrinks, TakeHeld, PagesOwn DEF Still
<1>3. CASE /\ page[t].held = None /\ page' = Holding(t, [by |-> m.by, tx |-> m.tx, ready |-> FALSE])
           /\ effects' = [effects EXCEPT ![m.tx] = @ + 1] /\ op' = op
  <2>1. Ticking BY <1>3, NobodyTold
  <2>2. m.tx \in Txs /\ effects[m.tx] = 0 BY <1>1, TakenOnce
  <2>3. PICK h : h = [by |-> m.by, tx |-> m.tx, ready |-> FALSE] OBVIOUS
  <2>4. page'[t].held = h /\ \A u \in Tabs \ {t} : page'[u] = page[u]
    BY <1>3, <2>3, HoldingIs
  <2>5. ASSUME NEW u \in Tabs, page'[u].held # None, NEW x, NEW i,
               x = page'[u].held.tx, i = page'[u].held.by
        PROVE  effects'[x] = 1 /\ (StaysHeld(u, x, i) \/ GetsHeld(u, x, i))
    <3>1. CASE u = t
      BY <2>3, <2>4, <2>5, <3>1, <1>3, <2>2, <1>1, FilledKeeps DEF Typed, EffectsOK, GetsHeld
    <3>2. CASE u # t
      <4>1. page[u].held # None /\ x = page[u].held.tx /\ i = page[u].held.by
        BY <2>4, <2>5, <3>2
      <4>2. x \in Txs /\ effects[x] = 1 BY <4>1, HeldIs
      <4>3. effects'[x] = 1 BY <1>3, <2>2, <4>2 DEF Typed, EffectsOK
      <4>4. CancelAfter(u, 0, i, x) => CancelAfter(u, 0, i, x)'
        BY <3>2, CancelOnward
      <4> QED BY <4>1, <4>3, <4>4 DEF StaysHeld
    <3> QED BY <3>1, <3>2
  <2>6. HeldGoesOn BY <2>5 DEF HeldGoesOn
  <2> QED BY <2>1, <2>6, TakeShrinks, PagesOwn DEF Still
<1> QED BY <1>2, <1>3 DEF Fills, Reached, Unreached

(* Whatever letter the page takes, the invariant is kept.                    *)
LEMMA TakesOwn ==
    ASSUME Typed, MailOK', Owning, Once, NEW t \in Tabs, PageTakes(t) PROVE Owning'
<1>1. PICK m : m = Head(mail[t]) OBVIOUS
<1>2. Takes(t, m) /\ Still BY <1>1 DEF PageTakes, Takes, Still, bridge
<1>3. Cancels(t, m) \/ Inspects(t, m) \/ Reads(t, m) \/ Fills(t, m) \/ Submits(t, m)
  BY <1>1 DEF PageTakes
<1> QED BY <1>2, <1>3, CancelsOwn, InspectsOwn, ReadsOwn, FillsOwn, SubmitsOwn

(* The pages hold what they held, or drop it.                                *)
LEMMA HoldingOn ==
    ASSUME Typed, Owning, mail' = mail, effects' = effects,
           \A u \in Tabs : page'[u].held # None =>
              /\ page[u].held # None /\ page'[u].held.tx = page[u].held.tx
              /\ page'[u].held.by = page[u].held.by
    PROVE  HeldGoesOn
BY HeldIs DEF HeldGoesOn, CancelAfter, StaysHeld

(* A submit that gets ready keeps the invariant.                             *)
LEMMA ReadyOwns ==
    ASSUME Typed, MailOK', Owning, Once, NEW t \in Tabs, PageReady(t) PROVE Owning'
<1>1. PICK h, g : h = page[t].held /\ g = [h EXCEPT !.ready = TRUE] OBVIOUS
<1>2. /\ h # None /\ page' = Holding(t, g) /\ Told(h.by, "fill", h.tx, 1)
      /\ mail' = mail /\ effects' = effects /\ Still
  BY <1>1 DEF PageReady, Still, bridge
<1>3. h \in Held /\ h.by \in Slots \cup {Gone} /\ h.tx \in Txs /\ effects[h.tx] = 1
  BY <1>1, <1>2, HeldIs
<1>4. g.tx = h.tx /\ g.by = h.by BY <1>1, <1>3 DEF Held
<1>5. NoLetterOf(h.tx)
  BY <1>3, <1>2 DEF Carried, Once, LettersAlone, Unspent, NoLetterOf
<1>6. 1 \in 0..MaxDocs /\ "fill" \in PageWork BY AgentAssumption DEF PageWork
<1>7. Ticking BY <1>2, <1>3, <1>5, <1>6, ToldTicks
<1>8. page'[t].held = g /\ \A u \in Tabs \ {t} : page'[u] = page[u]
  BY <1>2, HoldingIs
<1>9. HeldGoesOn BY <1>1, <1>2, <1>4, <1>8, HoldingOn
<1> QED BY <1>2, <1>7, <1>9, SameMail, PagesOwn DEF Still

(* A page that drops what it held keeps the invariant.                       *)
LEMMA DropsOwn ==
    ASSUME Typed, MailOK', Owning, NEW t \in Tabs, PageDrops(t) PROVE Owning'
BY DropsTicks, HoldingIs, HoldingOn, SameMail, PagesOwn DEF PageDrops, Still, bridge

(* The answered operation, written as one record.                            *)
LEMMA AnsEdit ==
    ASSUME Typed, NEW i \in Slots, HasCall(i), NEW a \in Waiting..MaxDocs, op[i].call.tab # None,
           NEW o, o = [op[i] EXCEPT !.call.ans = a]
    PROVE  Answered(i, o, Ans(op[i].call, a)) /\ CallOK(Ans(op[i].call, a))
<1>1. op[i] # None /\ op[i].call # None BY DEF HasCall
<1>2. op[i] \in Operations /\ op[i].call \in Calls /\ CallOK(op[i].call)
  BY <1>1 DEF Typed, OpsOK, SlotOK, CallOK
<1>3. PICK p, c, d : p = op[i] /\ c = p.call /\ d = [c EXCEPT !.ans = a]
  OBVIOUS
<1>4. d = Ans(c, a) BY <1>2, <1>3 DEF Calls, Ans
<1>5. CallOK(d) BY <1>2, <1>3, <1>4, AnsOK
<1>6. o = [p EXCEPT !.call = d] BY <1>3
<1>7. /\ o.id = p.id /\ o.port = p.port /\ o.tab = p.tab /\ o.active = p.active
      /\ o.closing = p.closing /\ o.prep = p.prep /\ o.sub = p.sub /\ o.call = d
      /\ o \in Operations
  BY <1>2, <1>3, <1>5, <1>6 DEF Operations, CallOK
<1>8. o # None BY <1>7, NoneIsNoRecord
<1> QED BY <1>3, <1>4, <1>5, <1>7, <1>8 DEF Answered

(* A new document keeps the invariant.                                       *)
LEMMA NavigateOwns ==
    ASSUME Typed, MailOK', Owning, NEW t \in Tabs, Navigate(t) PROVE Owning'
<1>1. effects' = effects /\ Still BY DEF Navigate, Still, bridge
<1>2. mail'[t] = <<>> /\ \A u \in Tabs \ {t} : mail'[u] = mail[u] /\ page'[u] = page[u]
  BY DEF Navigate, Typed, MailOK, PagesOK
<1>3. page'[t].held = None BY DEF Navigate, Typed, PagesOK
<1>4. Shrinks
  <2>1. ASSUME NEW u \in Tabs, NEW n \in DOMAIN mail'[u] PROVE Was(u, n, n)
    BY <1>2, <2>1 DEF Was, CancelAfter
  <2> QED BY <2>1 DEF Shrinks
<1>5. ASSUME NEW i \in Slots, NEW o, o = op'[i], o # op[i] PROVE Ticks(i, o)
  <2>1. Waits(i, PageWork) /\ op[i].call.tab = t /\ o = [op[i] EXCEPT !.call.ans = 0]
    BY <1>5 DEF Navigate
  <2>2. HasCall(i) /\ op[i].call.tab # None /\ 0 \in Waiting..MaxDocs
    BY <2>1, Sorts, AgentAssumption DEF Waits, HasCall, Waiting
  <2>3. Answered(i, o, Ans(op[i].call, 0)) /\ CallOK(Ans(op[i].call, 0))
    BY <2>1, <2>2, AnsEdit
  <2>4. ASSUME NEW u \in Tabs, NEW n \in DOMAIN mail'[u], NEW m, Reaching(op[i], m, u)
        PROVE  FALSE
    BY <1>2, <2>1, <2>4 DEF Reaching
  <2>5. QuietAnswer(i, 0) BY <2>4 DEF QuietAnswer
  <2> QED BY <2>2, <2>3, <2>5 DEF Ticks, HasCall
<1>6. Ticking BY <1>5 DEF Ticking
<1>7. HeldGoesOn
  BY <1>3, <1>2, <1>1, HeldIs DEF HeldGoesOn, CancelAfter, StaysHeld
<1> QED BY <1>1, <1>4, <1>6, <1>7, PagesOwn DEF Still

-----------------------------------------------------------------------------
(* Every step of the worker and of the host keeps the invariant.             *)
LEMMA SlotOwns ==
    ASSUME Typed, MailOK', Owning, NEW i \in Slots,
           Worker(i) \/ Host(i) \/ TimesOut(i) \/ CancelSubmit(i)
    PROVE  Owning'
<1>1. CASE Worker(i)
  BY SameOwns, <1>1, LookedOwns, ContinueOwns, FinishOwns DEF ReadUsed, World, bridge, pages, Worker
<1>2. CASE Host(i)
  BY <1>2, LegacyOwns, PrepareOwns, CloseOwns, NewOwns, CommitOwns, UseOwns DEF Host
<1> QED BY <1>1, <1>2, TimesOutOwns, CloseOwns

(* Every step keeps the invariant.                                           *)
LEMMA OwningNext ==
    ASSUME Typed, ReadsOK, Once, Owning, [Next]_vars PROVE Owning'
<1>1. MailOK' BY MailNext
<1>2. CASE Startup \/ AlarmFires \/ Handshake \/ Seal \/ UNCHANGED vars
  BY <1>2, <1>1, SameOwns DEF Startup, AlarmFires, Handshake, Seal, World, vars, bridge, pages
<1>3. CASE OpenPort BY <1>1, <1>3, OpenOwns
<1>4. CASE HandshakeTimeout \/ BadFrame \/ HostDisconnects
  BY <1>1, <1>4, DropOwns
<1>5. CASE Restart BY <1>1, <1>5, RestartOwns
<1>6. CASE Deliver BY <1>1, <1>6, SealDelivers
<1>7. CASE \E i \in Slots : Worker(i) \/ Host(i) \/ TimesOut(i) \/ CancelSubmit(i)
  BY <1>1, <1>7, SlotOwns
<1>8. CASE \E r \in reads : WriteUsed(r) BY <1>1, <1>8, WriteOwns
<1>9. CASE \E t \in Tabs : PageTakes(t) \/ PageReady(t) \/ PageDrops(t) \/ Navigate(t)
  BY <1>1, <1>9, TakesOwn, ReadyOwns, DropsOwn, NavigateOwns
<1> QED BY <1>2, <1>3, <1>4, <1>5, <1>6, <1>7, <1>8, <1>9 DEF Next

(* Nothing is under way at first.                                            *)
LEMMA OwningInit == ASSUME Init PROVE Owning
BY DEF Init, Owning, Fitting, Apart, LettersBacked, HeldBacked

(* Who is at work on a page owns its tab.                                    *)
LEMMA WorkersOwn ==
    ASSUME Typed, Owning, NEW t \in Tabs, NEW i \in AtWork(t) \ {Gone}
    PROVE  i \in Slots /\ Owns(t, op[i])
<1>1. CASE \E n \in DOMAIN mail[t] :
             mail[t][n].kind \in {"fill", "capture", "step", "commit", "cancel"} /\ mail[t][n].by = i
  <2>1. PICK n \in DOMAIN mail[t] :
             mail[t][n].kind \in {"fill", "capture", "step", "commit", "cancel"} /\ mail[t][n].by = i
    BY <1>1
  <2>2. mail[t][n] \in Letters BY SeqElement DEF Typed, MailOK, GoodLetters
  <2>3. i \in Slots BY <2>1, <2>2 DEF Letters
  <2>4. Touches(mail[t][n]) BY <2>1 DEF Touches, Doing
  <2> QED BY <2>1, <2>3, <2>4 DEF Owning, LettersBacked, Backed
<1>2. CASE page[t].held # None /\ page[t].held.by = i
  BY <1>2, HeldIs DEF Owning, HeldBacked, Keeps
<1> QED BY <1>1, <1>2 DEF AtWork

(* The invariant reserves the tabs.                                          *)
LEMMA OwningReserves == ASSUME Typed, Owning PROVE TabsAreReserved
BY WorkersOwn, Sorts DEF TabsAreReserved, Owns, Owning, Apart, Beside

(* The invariant remembers what the pages hold.                              *)
LEMMA OwningRemembers == ASSUME Typed, Owning PROVE NoValuesForgotten
BY DEF NoValuesForgotten, Owning, HeldBacked, Keeps, Owns, Accounted, Knows, CancelAfter, CancelsOf

(* PagesAreOwned: the variables are well typed, a page is worked with by the *)
(* operation that has reserved its tab and by no other, and values that a    *)
(* page holds for a submit are known to someone who will submit or withdraw  *)
(* them, through every answer, navigation, lost port and restart.            *)
THEOREM PagesOwned == Spec => []PagesAreOwned
<1>1. Init => Owning BY OwningInit
<1>2. OInv /\ OInv' /\ Owning /\ [Next]_vars => Owning' BY OwningNext DEF OInv
<1>3. OInv /\ Owning => PagesAreOwned
  BY TypedIsOK, OwningReserves, OwningRemembers DEF OInv, PagesAreOwned
<1>4. Spec => []OInv BY OnceInvariant
<1> QED BY <1>1, <1>2, <1>3, <1>4, PTL DEF Spec
=============================================================================
