---------------------------- MODULE PagesProofs ----------------------------
(* Proofs about the components around a page's tab, for any accounts, sites, *)
(* providers and numbers of operations, each with the tab and the session it *)
(* reacts to: captured keys and cards (SecretCapture), one-time passwords    *)
(* (TotpCapture), "sign in with" flows (SignInFlows) and shares that are     *)
(* saved (ShareSave).                                                        *)
EXTENDS SecretCapture, TotpCapture, SignInFlows, ShareSave, InlineFills, TLAPS

-----------------------------------------------------------------------------
(* Types of the world around a tab. *)
PageTyped ==
    /\ sess \in [user : Users \cup {None}, unlocked : BOOLEAN, ending : BOOLEAN,
                 gen : Nat]
    /\ tab \in [doc : Nat, port : Nat, seen : Nat, open : SUBSET Nat]

-----------------------------------------------------------------------------
(* Keys and cards. *)
SecretItems == [secret : Secrets \cup {None}, doc : Nat, session : Sessions, busy : BOOLEAN,
                dismissed : BOOLEAN, reviewed : BOOLEAN, target : Nat]
SecretTyped ==
    /\ PageTyped
    /\ items \in [Ids -> SecretItems \cup {None}] /\ epoch \in Nat
    /\ runs \in [Slots -> SecretRuns \cup {None}] /\ card \in Nat
    /\ stored \in [Ids -> Nat] /\ lost \subseteq Ids /\ made \in 0..MaxItems

Runs(s, kind) == runs[s] # None /\ runs[s].kind = kind
Writes(s) == Runs(s, "save") \/ Runs(s, "update")
(* An observation of this epoch is of a document whose port is open. *)
ObservesLive(s) ==
    Runs(s, "observe") =>
        /\ runs[s].at \in {"begin", "keep"} /\ runs[s].session \in Sessions
        /\ runs[s].epoch <= epoch
        /\ runs[s].epoch = epoch => runs[s].doc \in tab.open
(* A write has its item for itself, which has not been stored before. *)
WritesAlone(s) ==
    Writes(s) =>
        /\ runs[s].id \in 1..made
        /\ Runs(s, "save") => runs[s].session \in Sessions
        /\ runs[s].id \in Kept => items[runs[s].id].busy
        /\ runs[s].at # "saved" => runs[s].id \in lost \/ stored[runs[s].id] = 0
        /\ \A t \in Slots : t # s /\ Writes(t) => runs[t].id # runs[s].id
(* What is stored is not written again. *)
StoredIsDone(i) ==
    /\ i > made => items[i] = None /\ stored[i] = 0
    /\ i \notin lost /\ i \in Kept /\ stored[i] # 0 =>
         items[i].dismissed \/ \E s \in Slots : Writes(s) /\ runs[s].id = i
                                                /\ runs[s].at = "saved"
SecretInv ==
    /\ SecretTyped
    /\ \A s \in Slots : /\ ObservesLive(s) /\ WritesAlone(s)
                        /\ Runs(s, "review") => runs[s].at \in {"begin", "show"}
                                                /\ runs[s].id \in Ids
    /\ \A i \in Ids : StoredIsDone(i)
    /\ SecretIsLive /\ SecretStoredOnce

-----------------------------------------------------------------------------
(* One-time passwords. *)
Numbers == [doc : Nat, seq : Nat]
Scopes == [entry : Totps \cup Entries \cup {None}, n : Nat]
TotpRuns == [kind : {"observe", "invalidate", "advance", "review", "save"},
             at : {"begin", "look", "keep", "choices", "seal", "sent"},
             what : Totps \cup Entries \cup {None}, doc : Nat, seq : Nat,
             session : Sessions, manual : BOOLEAN, id : Nat, scope : Scopes]
TotpItems == [id : Nat, doc : Nat, what : Totps \cup Entries \cup {None}, seq : Nat,
              session : Sessions, scope : Scopes, read : Scopes, loaded : BOOLEAN,
              loading : {0} \cup TSlots, saving : BOOLEAN, dismissed : BOOLEAN]
(* The documents of a tab connect in order. *)
InOrder ==
    /\ tab.seen <= tab.doc /\ tab.port \in {0, tab.seen} /\ tab.seen # 0
    /\ \A d \in tab.open : d <= tab.seen
TotpTyped ==
    /\ PageTyped /\ InOrder
    /\ seq \in Nat /\ heard \in Numbers /\ carried \in Numbers /\ tcount \in Nat
    /\ totp \in TotpItems \cup {None}
    /\ truns \in [TSlots -> TotpRuns \cup {None}]

(* What was heard of and carried out is of documents that have connected,    *)
(* with numbers the page has reached.                                        *)
Reached(n) == n.doc <= tab.seen /\ (n.doc = tab.seen => n.seq <= seq)
TotpInv ==
    /\ TotpTyped /\ Reached(heard) /\ Reached(carried)
    /\ heard.doc # 0 /\ heard.doc = carried.doc => carried.seq <= heard.seq
    /\ \A s \in TSlots :
         truns[s] # None /\ truns[s].kind \in {"observe", "invalidate", "advance"} =>
           truns[s].doc # 0
    /\ TotpIsSound

-----------------------------------------------------------------------------
(* Sign-in flows. *)
FlowRuns == [kind : {"suggest", "fill", "build", "confirm", "sent", "failed"}, tab : Tabs,
             doc : Nat, gen : Nat, user : Users \cup {None}, flow : Nat,
             provider : Providers \cup {None}]
Offers == [doc : Nat, provider : Providers \cup {None}, user : Users \cup {None},
           told : BOOLEAN]
FlowTyped ==
    /\ PageTyped
    /\ docs \in [Tabs -> [n : Nat, site : Sites \cup {None},
                          provider : Providers \cup {None}]]
    /\ flows \in [Tabs -> Flows \cup {None}] /\ origin \in [Tabs -> Sites \cup {None}]
    /\ known \subseteq Tabs /\ offers \in [Tabs -> Offers \cup {None}]
    /\ mutes \subseteq Sites \cup {None}
    /\ fruns \in [FSlots -> FlowRuns \cup {None}] /\ fcount \in Nat

(* A run of this generation is of the account that is signed in. *)
RunOwned(r) ==
    r.gen <= Generation /\ (r.gen = Generation => SignedIn /\ r.user = sess.user)
(* What is built or confirmed for a flow that is still there is of its       *)
(* provider, and the flow has returned.                                      *)
RunOfFlow(r) ==
    r.kind \notin {"suggest", "fill"} =>
        /\ r.flow < fcount
        /\ SameFlow(r) => /\ flows[r.tab].phase = "returned"
                          /\ flows[r.tab].provider = r.provider
(* Only while somebody is signed in are there accounts chosen or offered.    *)
OfUser(x) == x # None => SignedIn /\ x.user = sess.user
FlowInv ==
    /\ FlowTyped
    /\ \A s \in FSlots : fruns[s] # None => RunOwned(fruns[s]) /\ RunOfFlow(fruns[s])
    /\ \A t \in Tabs :
         /\ flows[t] # None => /\ flows[t].id <= fcount
                               /\ OfUser(flows[t].chosen) /\ OfUser(flows[t].prompt)
         /\ offers[t] # None /\ offers[t].told => OfUser(offers[t])
    /\ FlowsAreConsistent

-----------------------------------------------------------------------------
(* Shares that are saved. *)
Shares == [id : Nat, doc : Nat, keys : Nat, user : Users \cup {None}, old : BOOLEAN]
ShareOps == [kind : {"prepare", "view", "confirm"}, at : {"begin", "keep", "write", "sent"},
             doc : Nat, value : Shares \cup {None}]
Told == [id : Nat, doc : Nat, status : {"saved", "cancelled"}]
ShareTyped ==
    /\ PageTyped /\ sess.gen # 0
    /\ share \in Shares \cup {None}
    /\ committing \in BOOLEAN /\ sruns \in [SSlots -> ShareOps \cup {None}]
    /\ scount \in [ops : Nat, shares : Nat] /\ sent \subseteq 1..scount.shares

(* A confirmation that runs is the only one, and keeps the others away; what *)
(* it sends has been a share.                                                *)
Confirms(s) == sruns[s] # None /\ sruns[s].kind = "confirm"
ConfirmsAlone(s) ==
    /\ sruns[s] # None /\ sruns[s].kind # "prepare" =>
         sruns[s].value \in Shares /\ sruns[s].value.id \in 1..scount.shares
    /\ Confirms(s) =>
         /\ committing /\ \A t \in SSlots : Confirms(t) => t = s
         /\ sruns[s].at = "sent" => sruns[s].value.id \in sent
(* The share that waits has no outcome yet, and only a confirmation that     *)
(* runs may have sent it.                                                    *)
WaitsOpen ==
    share # None =>
        /\ share.id \in 1..scount.shares
        /\ outcome # None => outcome.id # share.id
        /\ ~committing => share.id \notin sent
OutcomeGood ==
    /\ outcome \in Told \cup {None}
    /\ outcome # None => outcome.id \in 1..scount.shares
    /\ OutcomesAreTrue
ShareInv ==
    /\ ShareTyped /\ WaitsOpen /\ OutcomeGood
    /\ \A s \in SSlots : ConfirmsAlone(s)

-----------------------------------------------------------------------------
(* The tab and the session stay well typed. *)

PageEvent ==
    \/ Navigates \/ Updates \/ Terminates
    \/ \E out \in BOOLEAN : Locks(out)
    \/ \E u \in Users : Unlocks(u)
    \/ \E d \in tab.open \cup {tab.doc - 1, tab.doc} : Connects(d) \/ Leaves(d)
    \/ UNCHANGED page

LEMMA PageStarts == PageInit => PageTyped
<1>1. SUFFICES ASSUME PageInit PROVE PageTyped OBVIOUS
<1>2. PICK u \in Users : sess = [user |-> u, unlocked |-> TRUE, ending |-> FALSE, gen |-> 1]
  BY <1>1 DEF PageInit
<1>3. tab = [doc |-> 1, port |-> 1, seen |-> 1, open |-> {1}]
  BY <1>1 DEF PageInit
<1> QED BY <1>2, <1>3 DEF PageTyped

LEMMA SessKept ==
    ASSUME PageTyped, \/ Terminates \/ \E out \in BOOLEAN : Locks(out)
                      \/ \E u \in Users : Unlocks(u)
    PROVE  PageTyped' /\ sess'.gen = sess.gen + 1 /\ tab' = tab
<1>0. sess \in [user : Users \cup {None}, unlocked : BOOLEAN, ending : BOOLEAN, gen : Nat]
  BY DEF PageTyped
<1>1. CASE Terminates
  <2>1. PICK q : q = [sess EXCEPT !.ending = TRUE, !.gen = @ + 1] OBVIOUS
  <2>2. q \in [user : Users \cup {None}, unlocked : BOOLEAN, ending : BOOLEAN, gen : Nat]
        /\ q.gen = sess.gen + 1
    <3>1. q = [user |-> sess.user, unlocked |-> sess.unlocked, ending |-> TRUE,
               gen |-> sess.gen + 1]
      BY <1>0, <2>1
    <3> QED BY <1>0, <3>1
  <2>3. sess' = q /\ tab' = tab BY <1>1, <2>1 DEF Terminates
  <2>4. tab \in [doc : Nat, port : Nat, seen : Nat, open : SUBSET Nat]
    BY DEF PageTyped
  <2> QED BY <2>2, <2>3, <2>4 DEF PageTyped
<1>2. ASSUME NEW out \in BOOLEAN, Locks(out)
      PROVE  PageTyped' /\ sess'.gen = sess.gen + 1 /\ tab' = tab
  BY <1>0, <1>2 DEF Locks, PageTyped
<1>3. ASSUME NEW u \in Users, Unlocks(u)
      PROVE  PageTyped' /\ sess'.gen = sess.gen + 1 /\ tab' = tab
  BY <1>0, <1>3 DEF Unlocks, PageTyped
<1> QED BY <1>1, <1>2, <1>3

LEMMA ConnectsForm ==
    ASSUME PageTyped, NEW d \in Nat, Connects(d)
    PROVE  /\ PageTyped' /\ tab'.doc = tab.doc /\ tab'.port = d /\ tab'.seen = d
           /\ tab'.open = tab.open \cup {d} /\ sess' = sess
<1>1. PICK q : q = [tab EXCEPT !.port = d, !.seen = d, !.open = @ \cup {d}]
  OBVIOUS
<1>2. tab \in [doc : Nat, port : Nat, seen : Nat, open : SUBSET Nat]
  BY DEF PageTyped
<1>3. q = [doc |-> tab.doc, port |-> d, seen |-> d, open |-> tab.open \cup {d}]
  BY <1>1, <1>2
<1>4. q \in [doc : Nat, port : Nat, seen : Nat, open : SUBSET Nat]
  BY <1>2, <1>3
<1> QED BY <1>1, <1>3, <1>4 DEF Connects, PageTyped

LEMMA LeavesForm ==
    ASSUME PageTyped, NEW d \in Nat, Leaves(d)
    PROVE  /\ PageTyped' /\ tab'.doc = tab.doc /\ tab'.seen = tab.seen
           /\ tab'.port = (IF tab.port = d THEN 0 ELSE tab.port)
           /\ tab'.open = tab.open \ {d} /\ sess' = sess
<1>1. PICK q : q = [tab EXCEPT !.open = @ \ {d}, !.port = IF @ = d THEN 0 ELSE @]
  OBVIOUS
<1>2. tab \in [doc : Nat, port : Nat, seen : Nat, open : SUBSET Nat]
  BY DEF PageTyped
<1>3. q = [doc |-> tab.doc, port |-> IF tab.port = d THEN 0 ELSE tab.port,
           seen |-> tab.seen, open |-> tab.open \ {d}]
  BY <1>1, <1>2
<1>4. q \in [doc : Nat, port : Nat, seen : Nat, open : SUBSET Nat]
  BY <1>2, <1>3
<1> QED BY <1>1, <1>3, <1>4 DEF Leaves, PageTyped

LEMMA NavigatesForm ==
    ASSUME PageTyped, Navigates
    PROVE  /\ PageTyped' /\ tab'.doc = tab.doc + 1 /\ tab'.port = tab.port
           /\ tab'.seen = tab.seen /\ tab'.open = tab.open /\ sess' = sess
BY DEF Navigates, PageTyped

(* A document with a port, or shown, or shown before, is a number; the one   *)
(* before the first never connects.                                          *)
LEMMA DocTyped ==
    ASSUME PageTyped, NEW d \in tab.open \cup {tab.doc - 1, tab.doc}, Connects(d) \/ Leaves(d)
    PROVE  d \in Nat
BY DEF PageTyped, Connects, Leaves

LEMMA SessionTyped == ASSUME PageTyped PROVE Session \in Sessions
BY DEF PageTyped, Session, Sessions

-----------------------------------------------------------------------------
(* Keys and cards: what a step does to the items and to a run. *)

ItemsKept(free) ==
    /\ items' \in [Ids -> SecretItems \cup {None}]
    /\ \A i \in Ids : items'[i] # None =>
         /\ items[i] # None /\ items'[i].session = items[i].session
         /\ items'[i].doc = items[i].doc
         /\ items[i].dismissed => items'[i].dismissed
         /\ i \notin free => items'[i].busy = items[i].busy
Continues(r, c) ==
    /\ r.kind = c.kind /\ r.id = c.id /\ r.doc = c.doc /\ r.session = c.session
    /\ r.epoch = c.epoch
Legit(r) ==
    /\ r.kind = "observe" => r.at \in {"begin", "keep"}
    /\ r.kind = "review" => r.at \in {"begin", "show"}

LEMMA SecretTypes ==
    ASSUME SecretInv
    PROVE  /\ PageTyped /\ epoch \in Nat /\ made \in 0..MaxItems /\ MaxItems \in Nat
           /\ \A i \in Ids : items[i] # None => items[i] \in SecretItems
           /\ \A s \in Slots : runs[s] # None => runs[s] \in SecretRuns
           /\ items \in [Ids -> SecretItems \cup {None}]
           /\ runs \in [Slots -> SecretRuns \cup {None}]
           /\ stored \in [Ids -> Nat] /\ lost \subseteq Ids /\ card \in Nat
BY SecretAssumption DEF SecretInv, SecretTyped

LEMMA SecretSame == ASSUME SecretInv, items' = items PROVE \A free : ItemsKept(free)
BY SecretTypes DEF ItemsKept

LEMMA SecretRemoved ==
    ASSUME SecretInv, NEW gone, items' = Removed(gone) PROVE \A free : ItemsKept(free)
BY SecretTypes DEF ItemsKept, Removed

(* An item with its marks changed. *)
LEMMA SecretEdited ==
    ASSUME SecretInv, NEW i \in Ids, items[i] # None, NEW q \in SecretItems,
           items' = [items EXCEPT ![i] = q], q.session = items[i].session,
           q.doc = items[i].doc, items[i].dismissed => q.dismissed
    PROVE  /\ ItemsKept({i}) /\ items'[i] = q
           /\ q.busy = items[i].busy => ItemsKept({})
BY SecretTypes DEF ItemsKept

LEMMA MarkedIs ==
    ASSUME NEW it \in SecretItems, NEW busy \in BOOLEAN, NEW gone \in BOOLEAN
    PROVE  \E q \in SecretItems :
             /\ q = [it EXCEPT !.dismissed = gone, !.busy = busy]
             /\ q.session = it.session /\ q.doc = it.doc /\ q.busy = busy
             /\ q.dismissed = gone
<1>1. PICK q : q = [it EXCEPT !.dismissed = gone, !.busy = busy] OBVIOUS
<1>2. q = [secret |-> it.secret, doc |-> it.doc, session |-> it.session, busy |-> busy,
           dismissed |-> gone, reviewed |-> it.reviewed, target |-> it.target]
  BY <1>1 DEF SecretItems
<1>3. q \in SecretItems BY <1>2 DEF SecretItems
<1> QED BY <1>1, <1>2, <1>3

(* An item is marked as being written, or as free again. *)
LEMMA BusyForm ==
    ASSUME SecretInv, NEW i \in Ids, items[i] # None, NEW busy \in BOOLEAN,
           items' = [items EXCEPT ![i].busy = busy]
    PROVE  ItemsKept({i}) /\ items'[i].busy = busy
<1>1. items[i] \in SecretItems BY SecretTypes
<1>2. PICK q : q = [items[i] EXCEPT !.busy = busy] OBVIOUS
<1>3. q \in SecretItems /\ q.session = items[i].session /\ q.doc = items[i].doc
      /\ q.busy = busy /\ q.dismissed = items[i].dismissed
  BY <1>1, <1>2 DEF SecretItems
<1>4. items' = [items EXCEPT ![i] = q] BY <1>2
<1> QED BY <1>3, <1>4, SecretEdited

LEMMA FreeForm ==
    ASSUME SecretInv, NEW i \in Ids, items' = Free(i) PROVE ItemsKept({i})
BY BusyForm, SecretSame DEF Free, Kept

(* A run that goes on to its next await. *)
LEMMA SecretGoes ==
    ASSUME SecretInv, NEW s \in Slots, runs[s] # None, NEW at \in SecretAts
    PROVE  \E r \in SecretRuns : /\ r.at = at /\ Continues(r, runs[s])
                                 /\ Goes(s, at) => runs' = [runs EXCEPT ![s] = r]
<1>1. runs[s] \in SecretRuns BY SecretTypes
<1>2. PICK r : r = [runs[s] EXCEPT !.at = at] OBVIOUS
<1>3. r \in SecretRuns /\ r.at = at /\ Continues(r, runs[s])
  BY <1>1, <1>2 DEF SecretRuns, Continues
<1> QED BY <1>2, <1>3 DEF Goes

(* A step of a run that stores nothing. *)
LEMMA SecretMoved ==
    ASSUME SecretInv, NEW s \in Slots, runs[s] # None, NEW r \in SecretRuns \cup {None},
           runs' = [runs EXCEPT ![s] = r],
           r # None => Continues(r, runs[s]) /\ Legit(r) /\ r.at # "saved",
           Writes(s) /\ runs[s].at = "saved" =>
             r = None /\ (items'[runs[s].id] # None => items'[runs[s].id].dismissed),
           ItemsKept(IF Writes(s) /\ r = None THEN {runs[s].id} ELSE {}),
           UNCHANGED <<page, epoch, stored, lost, made, card>>
    PROVE  SecretInv'
<1>0. SecretTyped /\ runs'[s] = r /\ \A t \in Slots : t # s => runs'[t] = runs[t]
  BY SecretTypes DEF SecretInv
<1>1. SecretTyped'
  BY <1>0, SecretTypes DEF SecretTyped, ItemsKept, page, PageTyped, Ids
<1>2. \A t \in Slots : Writes(t)' => Writes(t) /\ runs'[t].id = runs[t].id
                                     /\ (t = s => r # None)
  BY <1>0 DEF Writes, Runs, Continues
<1>3. ASSUME NEW t \in Slots PROVE ObservesLive(t)'
  BY <1>0 DEF SecretInv, ObservesLive, Runs, Continues, Legit, page
<1>4. ASSUME NEW t \in Slots PROVE WritesAlone(t)'
  BY <1>2, SecretTypes, <1>0 DEF WritesAlone, SecretInv, Ids, ItemsKept, Kept, Runs, Continues
<1>5. ASSUME NEW t \in Slots
      PROVE  Runs(t, "review")' => runs'[t].at \in {"begin", "show"} /\ runs'[t].id \in Ids
  BY <1>0 DEF SecretInv, Runs, Continues, Legit
<1>6. ASSUME NEW i \in Ids PROVE StoredIsDone(i)'
  <2>1. StoredIsDone(i) BY DEF SecretInv
  <2>2. i > made' => items'[i] = None /\ stored'[i] = 0
    BY <2>1 DEF StoredIsDone, ItemsKept
  <2>3. ASSUME i \notin lost, items'[i] # None, stored[i] # 0, ~items'[i].dismissed
        PROVE  \E t \in Slots : Writes(t)' /\ runs'[t].id = i /\ runs'[t].at = "saved"
    <3>1. items[i] # None /\ ~items[i].dismissed BY <2>3 DEF ItemsKept
    <3>2. PICK t \in Slots : Writes(t) /\ runs[t].id = i /\ runs[t].at = "saved"
      BY <2>1, <2>3, <3>1 DEF StoredIsDone, Kept
    <3>3. t # s BY <2>3, <3>2
    <3> QED BY <1>0, <3>2, <3>3 DEF Writes, Runs
  <2> QED BY <2>2, <2>3 DEF StoredIsDone, Kept
<1>7. SecretIsLive' BY DEF SecretInv, SecretIsLive, ItemsKept, Kept, page
<1>8. SecretStoredOnce' BY DEF SecretInv, SecretStoredOnce
<1> QED BY <1>1, <1>3, <1>4, <1>5, <1>6, <1>7, <1>8 DEF SecretInv

(* A run begins. *)
LEMMA SecretBegun ==
    ASSUME SecretInv, NEW r \in SecretRuns, Begins(r), NEW free, ItemsKept(free),
           r.at = "begin", UNCHANGED <<page, epoch, stored, lost, made, card>>,
           r.kind = "observe" => /\ r.session \in Sessions /\ r.epoch = epoch
                                 /\ r.doc \in tab.open,
           r.kind = "review" => r.id \in Ids,
           IF r.kind \in {"save", "update"}
           THEN /\ free = {r.id} /\ MayStart(r.id) /\ items'[r.id].busy
                /\ r.kind = "save" => r.session \in Sessions
           ELSE free = {}
    PROVE  SecretInv'
<1>1. PICK s \in Slots : runs[s] = None /\ runs' = [runs EXCEPT ![s] = r]
  BY SecretTypes DEF Begins, HasFree, FreeSlot
<1>2. runs'[s] = r /\ \A t \in Slots : t # s => runs'[t] = runs[t]
  BY <1>1, SecretTypes
<1>3. SecretTyped'
  BY <1>1, SecretTypes DEF SecretInv, SecretTyped, ItemsKept, page, PageTyped, Ids
<1>4. \A t \in Slots : t # s => (Writes(t)' <=> Writes(t))
  BY <1>2 DEF Writes, Runs
<1>5. ASSUME NEW t \in Slots PROVE ObservesLive(t)'
  BY <1>2, SecretTypes DEF SecretInv, ObservesLive, Runs, page
<1>6. ASSUME r.kind \in {"save", "update"}
      PROVE  /\ r.id \in Ids /\ r.id \in 1..made /\ items[r.id] # None
             /\ \A t \in Slots : t # s /\ Writes(t) => runs[t].id # r.id
             /\ r.id \in lost \/ stored[r.id] = 0
  <2>1. r.id \in Ids /\ items[r.id] # None /\ ~items[r.id].dismissed /\ ~items[r.id].busy
    BY <1>6 DEF MayStart, Kept
  <2>2. StoredIsDone(r.id) BY <2>1 DEF SecretInv
  <2>3. \A t \in Slots : Writes(t) => runs[t].id # r.id
    BY <2>1 DEF SecretInv, WritesAlone, Kept
  <2>4. r.id \in 1..made BY <2>1, <2>2, SecretTypes DEF StoredIsDone, Ids
  <2> QED BY <2>1, <2>2, <2>3, <2>4 DEF StoredIsDone, Kept
<1>7. ASSUME NEW t \in Slots PROVE WritesAlone(t)'
  <2>1. CASE t = s
    BY <1>2, <1>4, <1>6, <2>1 DEF WritesAlone, Writes, Runs, Kept
  <2>2. ASSUME t # s, Writes(t) PROVE WritesAlone(t)'
    <3>1. WritesAlone(t) /\ runs'[t] = runs[t] BY <1>2, <2>2 DEF SecretInv
    <3>2. runs[t].id \in Ids /\ runs[t].id \in 1..made
      BY <2>2, <3>1, SecretTypes DEF WritesAlone, Ids
    <3>3. runs[t].id \notin free BY <1>6, <2>2
    <3>4. runs[t].id \in Kept' => items'[runs[t].id].busy
      BY <2>2, <3>1, <3>2, <3>3 DEF ItemsKept, WritesAlone, Kept
    <3>5. \A u \in Slots : u # t /\ Writes(u)' => runs'[u].id # runs'[t].id
      BY <1>2, <1>6, <2>2, <3>1, <1>4 DEF Writes, Runs, WritesAlone
    <3> QED BY <2>2, <3>1, <3>2, <3>4, <3>5 DEF WritesAlone, Runs
  <2>3. CASE t # s /\ ~Writes(t) BY <1>4, <2>3 DEF WritesAlone
  <2> QED BY <2>1, <2>2, <2>3
<1>8. ASSUME NEW t \in Slots
      PROVE  Runs(t, "review")' => runs'[t].at \in {"begin", "show"} /\ runs'[t].id \in Ids
  BY <1>2 DEF SecretInv, Runs
<1>9. ASSUME NEW i \in Ids PROVE StoredIsDone(i)'
  <2>1. StoredIsDone(i) BY DEF SecretInv
  <2>2. i > made' => items'[i] = None /\ stored'[i] = 0
    BY <2>1 DEF StoredIsDone, ItemsKept
  <2>3. ASSUME i \notin lost, items'[i] # None, stored[i] # 0, ~items'[i].dismissed
        PROVE  \E t \in Slots : Writes(t)' /\ runs'[t].id = i /\ runs'[t].at = "saved"
    <3>1. items[i] # None /\ ~items[i].dismissed BY <2>3 DEF ItemsKept
    <3>2. PICK t \in Slots : Writes(t) /\ runs[t].id = i /\ runs[t].at = "saved"
      BY <2>1, <2>3, <3>1 DEF StoredIsDone, Kept
    <3>3. t # s BY <1>1, <3>2 DEF Writes, Runs
    <3> QED BY <1>2, <3>2, <3>3 DEF Writes, Runs
  <2> QED BY <2>2, <2>3 DEF StoredIsDone, Kept
<1>10. SecretIsLive' BY DEF SecretInv, SecretIsLive, ItemsKept, Kept, page
<1>11. SecretStoredOnce' BY DEF SecretInv, SecretStoredOnce
<1> QED BY <1>3, <1>5, <1>7, <1>8, <1>9, <1>10, <1>11 DEF SecretInv

(* The world moves: an epoch ends, or no port has closed. *)
LEMMA SecretWorld ==
    ASSUME SecretInv, PageTyped', ItemsKept({}), SecretIsLive', card' \in Nat,
           epoch' \in Nat, epoch' >= epoch, epoch' = epoch => tab.open \subseteq tab'.open,
           UNCHANGED <<runs, stored, lost, made>>
    PROVE  SecretInv'
<1>1. SecretTyped' BY SecretTypes DEF SecretTyped, ItemsKept, Ids
<1>2. \A t \in Slots : Writes(t)' <=> Writes(t) BY DEF Writes, Runs
<1>3. ASSUME NEW t \in Slots PROVE ObservesLive(t)'
  BY SecretTypes DEF SecretInv, SecretRuns, ObservesLive, Runs
<1>4. ASSUME NEW t \in Slots PROVE WritesAlone(t)'
  BY <1>2, SecretTypes DEF WritesAlone, SecretInv, Ids, ItemsKept, Kept, Runs
<1>5. ASSUME NEW i \in Ids PROVE StoredIsDone(i)'
  BY <1>2 DEF SecretInv, StoredIsDone, ItemsKept, Kept
<1>6. SecretStoredOnce' BY DEF SecretInv, SecretStoredOnce
<1>7. \A t \in Slots : Runs(t, "review")' => runs'[t].at \in {"begin", "show"}
                                              /\ runs'[t].id \in Ids
  BY DEF SecretInv, Runs
<1> QED BY <1>1, <1>3, <1>4, <1>5, <1>6, <1>7 DEF SecretInv

-----------------------------------------------------------------------------
(* Keys and cards: every step keeps the invariant. *)

LEMMA SecretRunTyped ==
    ASSUME NEW kind \in SecretKinds, NEW i \in Ids \cup {0}, MaxItems \in Nat
    PROVE  SecretRun(kind, i) \in SecretRuns
BY DEF SecretRun, SecretRuns, SecretAts, Ids

LEMMA SecretBegins ==
    ASSUME SecretInv,
           \/ \E d \in tab.open, secret \in Secrets : ObserveBegins(d, secret)
           \/ \E i \in Ids : ReviewBegins(i) \/ SaveBegins(i) \/ UpdateBegins(i)
    PROVE  SecretInv'
<1>1. Session \in Sessions /\ epoch \in Nat /\ MaxItems \in Nat /\ PageTyped
  BY SecretTypes, SessionTyped
<1>2. ASSUME NEW d \in tab.open, NEW secret \in Secrets, ObserveBegins(d, secret)
      PROVE  SecretInv'
  <2>1. PICK r : r = Observation(d, secret) OBVIOUS
  <2>2. r = [kind |-> "observe", at |-> "begin", id |-> 0, doc |-> d, secret |-> secret,
             session |-> Session, epoch |-> epoch, rev |-> 0]
    BY <2>1 DEF Observation, SecretRun
  <2>3. r \in SecretRuns
    BY <1>1, <2>2 DEF SecretRuns, SecretKinds, SecretAts, PageTyped
  <2>4. Begins(r) /\ items' = items /\ UNCHANGED <<page, epoch, stored, lost, made, card>>
    BY <1>2, <2>1 DEF ObserveBegins, secretStore
  <2>5. ItemsKept({}) BY <2>4, SecretSame
  <2> QED BY <1>1, <2>2, <2>3, <2>4, <2>5, SecretBegun
<1>3. ASSUME NEW i \in Ids, ReviewBegins(i) PROVE SecretInv'
  <2>1. PICK r : r = SecretRun("review", i) OBVIOUS
  <2>2. r \in SecretRuns /\ r.kind = "review" /\ r.at = "begin" /\ r.id = i
    BY <1>1, <2>1, SecretRunTyped DEF SecretRun, SecretKinds
  <2>3. UNCHANGED <<page, epoch, stored, lost, made, card>>
    BY <1>3 DEF ReviewBegins, secretStore
  <2>4. CASE Begins(r) /\ UNCHANGED items
    BY <2>4, SecretSame, <2>2, <2>3, SecretBegun
  <2>5. CASE items' = Removed({i}) /\ UNCHANGED <<runs, begun>>
    <3>1. ItemsKept({}) BY <2>5, SecretRemoved
    <3>2. PageTyped' /\ tab' = tab /\ sess' = sess
      BY <1>1, <2>3 DEF PageTyped, page
    <3>3. SecretIsLive'
      BY <3>1, <3>2 DEF SecretInv, SecretIsLive, ItemsKept, Kept
    <3> QED BY <1>1, <2>3, <2>5, <3>1, <3>2, <3>3, SecretTypes, SecretWorld
  <2> QED BY <1>3, <2>1, <2>4, <2>5 DEF ReviewBegins
<1>4. ASSUME NEW i \in Ids, NEW r \in SecretRuns, Begins(r), MayStart(i),
             r.kind \in {"save", "update"}, r.id = i, r.at = "begin",
             r.kind = "save" => r.session \in Sessions,
             items' = [items EXCEPT ![i].busy = TRUE],
             UNCHANGED <<page, epoch, stored, lost, made, card>>
      PROVE  SecretInv'
  BY <1>4, BusyForm, SecretBegun DEF MayStart, Kept
<1>5. ASSUME NEW i \in Ids, SaveBegins(i) PROVE SecretInv'
  <2>1. PICK r : r = [SecretRun("save", i) EXCEPT !.session = Session] OBVIOUS
  <2>2. SecretRun("save", i) \in SecretRuns
    BY <1>1, SecretRunTyped DEF SecretKinds
  <2>3. r \in SecretRuns /\ r.kind = "save" /\ r.at = "begin" /\ r.id = i
        /\ r.session = Session
    BY <1>1, <2>1, <2>2 DEF SecretRun, SecretRuns
  <2>4. /\ Begins(r) /\ MayStart(i) /\ items' = [items EXCEPT ![i].busy = TRUE]
        /\ UNCHANGED <<page, epoch, stored, lost, made, card>>
    BY <1>5, <2>1 DEF SaveBegins, secretStore
  <2> QED BY <1>1, <1>4, <2>3, <2>4
<1>6. ASSUME NEW i \in Ids, UpdateBegins(i) PROVE SecretInv'
  <2>1. PICK r : r = [SecretRun("update", i) EXCEPT !.rev = items[i].target]
    OBVIOUS
  <2>2. SecretRun("update", i) \in SecretRuns
    BY <1>1, SecretRunTyped DEF SecretKinds
  <2>3. items[i] \in SecretItems
    BY <1>6, SecretTypes DEF UpdateBegins, MayStart, Kept
  <2>4. items[i].target \in Nat BY <2>3 DEF SecretItems
  <2>5. r \in SecretRuns /\ r.kind = "update" /\ r.at = "begin" /\ r.id = i
    BY <2>1, <2>2, <2>4 DEF SecretRun, SecretRuns
  <2>6. /\ Begins(r) /\ MayStart(i) /\ items' = [items EXCEPT ![i].busy = TRUE]
        /\ UNCHANGED <<page, epoch, stored, lost, made, card>>
    BY <1>6, <2>1 DEF UpdateBegins, secretStore
  <2> QED BY <1>4, <2>5, <2>6
<1> QED BY <1>2, <1>3, <1>5, <1>6

(* A run that does not write, whose item stays as it is. *)
LEMMA SecretLooks ==
    ASSUME SecretInv, NEW s \in Slots, runs[s] # None,
           ObserveLooks(s) \/ ReviewReads(s) \/ ReviewShows(s)
    PROVE  SecretInv'
<1>1. runs[s] \in SecretRuns /\ ~Writes(s) /\ PageTyped
  BY SecretTypes DEF Writes, Runs, ObserveLooks, ReviewReads, ReviewShows
<1>2. UNCHANGED <<page, epoch, stored, lost, made, card>>
  BY DEF ObserveLooks, ReviewReads, ReviewShows, secretStore
<1>3. ASSUME Ends(s), ItemsKept({}) PROVE SecretInv'
  BY <1>1, <1>2, <1>3, SecretMoved DEF Ends
<1>4. CASE ObserveLooks(s)
  <2>1. ItemsKept({}) /\ runs[s].kind = "observe"
    BY <1>4, SecretSame DEF ObserveLooks
  <2>2. CASE Goes(s, "keep")
    <3>1. PICK r \in SecretRuns : r.at = "keep" /\ Continues(r, runs[s])
                                  /\ runs' = [runs EXCEPT ![s] = r]
      BY <2>2, SecretGoes DEF SecretAts
    <3>2. Legit(r) BY <2>1, <3>1 DEF Legit, Continues
    <3> QED BY <1>1, <1>2, <2>1, <3>1, <3>2, SecretMoved
  <2> QED BY <1>3, <1>4, <2>1, <2>2 DEF ObserveLooks
<1>5. CASE ReviewReads(s)
  <2>1. ItemsKept({}) /\ runs[s].kind = "review"
    BY <1>5, SecretSame DEF ReviewReads
  <2>2. CASE Authorized(runs[s].id)
    <3>1. PICK v : v = LET item == items[runs[s].id] IN
                         IF item.secret \notin Cards THEN 0
                         ELSE IF item.target > 0 THEN item.target ELSE card
      OBVIOUS
    <3>2. items[runs[s].id] \in SecretItems
      BY <2>2, SecretTypes DEF Authorized, Kept
    <3>3. v \in Nat BY <3>1, <3>2, SecretTypes DEF SecretItems
    <3>4. PICK r : r = [runs[s] EXCEPT !.at = "show", !.rev = v] OBVIOUS
    <3>5. r = [kind |-> runs[s].kind, at |-> "show", id |-> runs[s].id, doc |-> runs[s].doc,
               secret |-> runs[s].secret, session |-> runs[s].session,
               epoch |-> runs[s].epoch, rev |-> v]
      BY <1>1, <3>4 DEF SecretRuns
    <3>6. r \in SecretRuns /\ r.at = "show" /\ Continues(r, runs[s])
      BY <1>1, <3>3, <3>5 DEF SecretRuns, SecretAts, Continues
    <3>7. runs' = [runs EXCEPT ![s] = r]
      BY <1>5, <2>2, <3>1, <3>4, <1>1, SecretTypes DEF ReviewReads
    <3>8. Legit(r) BY <2>1, <3>6 DEF Legit, Continues
    <3> QED BY <1>1, <1>2, <2>1, <3>6, <3>7, <3>8, SecretMoved
  <2>3. CASE ~Authorized(runs[s].id)
    BY <1>3, <1>5, <2>1, <2>3 DEF ReviewReads, Ends
  <2> QED BY <2>2, <2>3
<1>6. CASE ReviewShows(s)
  <2>1. Ends(s) /\ runs[s].kind = "review" /\ runs[s].rev \in Nat
    BY <1>1, <1>6 DEF ReviewShows, SecretRuns
  <2>2. CASE ~Authorized(runs[s].id)
    BY <1>3, <1>6, <2>1, <2>2, SecretSame DEF ReviewShows
  <2>3. CASE Authorized(runs[s].id)
    <3>1. runs[s].id \in Ids /\ items[runs[s].id] # None /\ items[runs[s].id] \in SecretItems
      BY <2>3, SecretTypes DEF Authorized, Kept
    <3>2. PICK q : q = [items[runs[s].id] EXCEPT !.target = runs[s].rev, !.reviewed = TRUE]
      OBVIOUS
    <3>3. q = [secret |-> items[runs[s].id].secret, doc |-> items[runs[s].id].doc,
               session |-> items[runs[s].id].session, busy |-> items[runs[s].id].busy,
               dismissed |-> items[runs[s].id].dismissed, reviewed |-> TRUE,
               target |-> runs[s].rev]
      BY <3>1, <3>2 DEF SecretItems
    <3>4. q \in SecretItems BY <2>1, <3>1, <3>3 DEF SecretItems
    <3>5. items' = [items EXCEPT ![runs[s].id] = q]
      BY <1>6, <2>3, <3>1, <3>2, SecretTypes DEF ReviewShows
    <3>6. q.session = items[runs[s].id].session /\ q.doc = items[runs[s].id].doc
          /\ q.busy = items[runs[s].id].busy
      BY <3>3
    <3>7. items[runs[s].id].dismissed => q.dismissed BY <3>3
    <3>8. ItemsKept({}) BY <3>1, <3>4, <3>5, <3>6, <3>7, SecretEdited
    <3> QED BY <1>3, <2>1, <3>8
  <2> QED BY <2>2, <2>3
<1> QED BY <1>4, <1>5, <1>6

(* A write goes on, gives up or ends. *)
LEMMA SecretWrites ==
    ASSUME SecretInv, NEW s \in Slots, runs[s] # None,
           \/ WriteAsserts(s) \/ SaveSends(s) \/ WriteBounces(s) \/ WriteEnds(s)
           \/ \E b \in BOOLEAN : SaveLooks(s, b)
    PROVE  SecretInv'
<1>1. runs[s] \in SecretRuns /\ PageTyped BY SecretTypes
<1>2. UNCHANGED <<page, epoch, stored, lost, made, card>>
  BY DEF WriteAsserts, SaveSends, WriteBounces, WriteEnds, SaveLooks, secretStore
<1>3. Writes(s) /\ runs[s].kind \in {"save", "update"}
  <2>1. CASE runs[s].at \in {"sent", "saved", "conflict", "failed"}
    BY <2>1, <1>1 DEF SecretInv, ObservesLive, Runs, Writes, SecretRuns, SecretKinds
  <2>2. CASE runs[s].at \notin {"sent", "saved", "conflict", "failed"}
    BY <2>2 DEF WriteAsserts, SaveSends, WriteBounces, WriteEnds, SaveLooks, Writes, Runs
  <2> QED BY <2>1, <2>2
<1>4. runs[s].id \in Ids BY <1>3, SecretTypes DEF SecretInv, WritesAlone, Ids
<1>5. ASSUME Ends(s), ItemsKept({runs[s].id}), runs[s].at # "saved" PROVE SecretInv'
  BY <1>1, <1>2, <1>3, <1>5, SecretMoved DEF Ends
<1>6. ASSUME NEW at \in SecretAts \ {"saved"}, Goes(s, at), NoItem, runs[s].at # "saved"
      PROVE  SecretInv'
  <2>1. PICK r \in SecretRuns : r.at = at /\ Continues(r, runs[s])
                                /\ runs' = [runs EXCEPT ![s] = r]
    BY <1>6, SecretGoes
  <2>2. CASE r # None
    BY <1>3, <1>6, <2>1, SecretSame, <1>2, <2>2, SecretMoved DEF Legit, Continues, NoItem
  <2>3. CASE r = None BY <1>6, SecretSame, <1>5, <2>1, <2>3 DEF NoItem, Ends
  <2> QED BY <2>2, <2>3
<1>7. ASSUME Ends(s), items' = Free(runs[s].id), runs[s].at # "saved" PROVE SecretInv'
  BY <1>4, <1>5, <1>7, FreeForm
<1>8. CASE WriteAsserts(s) BY <1>6, <1>7, <1>8 DEF WriteAsserts, SecretAts
<1>9. CASE SaveSends(s) BY <1>6, <1>7, <1>9 DEF SaveSends, SecretAts
<1>10. CASE WriteBounces(s) BY <1>6, <1>10 DEF WriteBounces, SecretAts, NoItem
<1>11. ASSUME NEW b \in BOOLEAN, SaveLooks(s, b) PROVE SecretInv'
  <2>1. CASE \/ Ends(s) /\ items' = Free(runs[s].id)
             \/ Goes(s, "assert") /\ NoItem
    BY <1>6, <1>7, <1>11, <2>1 DEF SaveLooks, SecretAts
  <2>2. CASE /\ Authorized(runs[s].id) /\ Ends(s)
             /\ items' = [items EXCEPT ![runs[s].id].dismissed = TRUE,
                                       ![runs[s].id].busy = FALSE]
    <3>1. items[runs[s].id] \in SecretItems /\ items[runs[s].id] # None
      BY <2>2, SecretTypes DEF Authorized, Kept
    <3>2. PICK q \in SecretItems :
             /\ q = [items[runs[s].id] EXCEPT !.dismissed = TRUE, !.busy = FALSE]
             /\ q.session = items[runs[s].id].session /\ q.doc = items[runs[s].id].doc
             /\ q.dismissed
      BY <3>1, MarkedIs
    <3>3. items' = [items EXCEPT ![runs[s].id] = q]
      BY <1>4, <2>2, <3>2, SecretTypes
    <3>4. ItemsKept({runs[s].id}) BY <1>4, <3>1, <3>2, <3>3, SecretEdited
    <3> QED BY <1>5, <1>11, <2>2, <3>4 DEF SaveLooks
  <2> QED BY <1>11, <2>1, <2>2 DEF SaveLooks
<1>12. CASE WriteEnds(s)
  <2>1. Ends(s) BY <1>12 DEF WriteEnds
  <2>2. CASE runs[s].id \notin Kept
    BY <1>4, <1>12, <2>2, SecretSame, <1>2, <1>3, <2>1, SecretMoved DEF WriteEnds, Kept, Ends
  <2>3. CASE runs[s].id \in Kept
    <3>1. items[runs[s].id] \in SecretItems /\ items[runs[s].id] # None
      BY <2>3, SecretTypes DEF Kept
    <3>2. PICK conflict \in BOOLEAN :
             conflict = (runs[s].at = "conflict" /\ Authorized(runs[s].id))
      OBVIOUS
    <3>3. PICK gone \in BOOLEAN :
             gone = (items[runs[s].id].dismissed \/ runs[s].at = "saved")
      OBVIOUS
    <3>4. PICK seen \in BOOLEAN : seen = (items[runs[s].id].reviewed /\ ~conflict)
      OBVIOUS
    <3>5. PICK target : target = IF conflict THEN 0 ELSE items[runs[s].id].target
      OBVIOUS
    <3>6. PICK q : q = [items[runs[s].id] EXCEPT !.busy = FALSE, !.dismissed = gone,
                                                 !.target = target, !.reviewed = seen]
      OBVIOUS
    <3>7. q = [secret |-> items[runs[s].id].secret, doc |-> items[runs[s].id].doc,
               session |-> items[runs[s].id].session, busy |-> FALSE,
               dismissed |-> gone, reviewed |-> seen, target |-> target]
      BY <3>1, <3>6 DEF SecretItems
    <3>8. q \in SecretItems BY <3>1, <3>3, <3>4, <3>5, <3>7 DEF SecretItems
    <3>9. items' = [items EXCEPT ![runs[s].id] = q]
      BY <1>12, <2>3, <3>2, <3>3, <3>4, <3>5, <3>6 DEF WriteEnds, Written
    <3>10. ItemsKept({runs[s].id}) /\ items'[runs[s].id] = q
      <4>1. items[runs[s].id].dismissed => q.dismissed BY <3>3, <3>7
      <4> QED BY <1>4, <3>1, <3>7, <3>8, <3>9, <4>1, SecretEdited
    <3>11. runs[s].at = "saved" => q.dismissed BY <3>3, <3>7
    <3> QED BY <1>2, <1>3, <2>1, <3>10, <3>11, SecretMoved DEF Ends
  <2> QED BY <2>2, <2>3
<1> QED BY <1>8, <1>9, <1>10, <1>11, <1>12

(* The server takes what a write has sent. *)
LEMMA SecretLands ==
    ASSUME SecretInv, NEW s \in Slots, runs[s] # None, NEW answered \in BOOLEAN,
           WriteLands(s, answered)
    PROVE  SecretInv'
<1>1. runs[s] \in SecretRuns /\ PageTyped /\ items' = items
  BY SecretTypes DEF WriteLands
<1>2. Writes(s) /\ runs[s].at = "sent"
  BY <1>1 DEF WriteLands, SecretInv, ObservesLive, Runs, Writes, SecretRuns, SecretKinds
<1>3. WritesAlone(s) BY DEF SecretInv
<1>4. PICK i \in Ids : i = runs[s].id
  BY <1>2, <1>3, SecretTypes DEF WritesAlone, Ids
<1>5. i \in 1..made /\ (i \in lost \/ stored[i] = 0) /\ (items[i] # None => items[i].busy)
  BY <1>2, <1>3, <1>4 DEF WritesAlone, Kept
<1>6. PICK r \in SecretRuns : /\ r.at = (IF answered THEN "saved" ELSE "failed")
                              /\ Continues(r, runs[s]) /\ runs' = [runs EXCEPT ![s] = r]
  BY SecretGoes DEF WriteLands, SecretAts
<1>7. runs'[s] = r /\ \A t \in Slots : t # s => runs'[t] = runs[t]
  BY <1>6, SecretTypes
<1>71. r # None /\ r.kind = runs[s].kind /\ r.id = runs[s].id
  BY <1>6, NoneIsNoSecretRun DEF Continues
<1>8. stored' = [stored EXCEPT ![i] = stored[i] + 1] BY <1>4 DEF WriteLands
<1>9. /\ stored' \in [Ids -> Nat] /\ stored'[i] = stored[i] + 1
      /\ \A k \in Ids : k # i => stored'[k] = stored[k]
  BY <1>8, SecretTypes
<1>10. lost' = IF answered THEN lost ELSE lost \cup {i} BY <1>4 DEF WriteLands
<1>11. card' \in Nat /\ UNCHANGED <<page, epoch, made>>
  BY SecretTypes DEF WriteLands
<1>12. SecretTyped'
  BY <1>1, <1>6, <1>9, <1>10, <1>11, SecretTypes DEF SecretTyped, page, PageTyped
<1>13. ASSUME NEW t \in Slots PROVE /\ Writes(t)' <=> Writes(t)
                                    /\ runs[t] # None => runs'[t].id = runs[t].id
                                    /\ Runs(t, "save")' <=> Runs(t, "save")
  BY <1>2, <1>7, <1>71 DEF Writes, Runs
<1>14. ASSUME NEW t \in Slots PROVE ObservesLive(t)'
  BY <1>2, <1>6, <1>7, <1>11 DEF SecretInv, ObservesLive, Runs, Writes, Continues, page
<1>15. ASSUME NEW t \in Slots, Writes(t) PROVE WritesAlone(t)'
  <2>1. WritesAlone(t) /\ runs'[t].id = runs[t].id
    BY <1>13, <1>15 DEF SecretInv, Writes, Runs
  <2>2. PICK k \in Ids : k = runs[t].id
    BY <1>15, <2>1, SecretTypes DEF WritesAlone, Ids
  <2>3. k \in 1..made /\ (items[k] # None => items[k].busy)
    BY <1>15, <2>1, <2>2 DEF WritesAlone, Kept
  <2>4. \A u \in Slots : u # t /\ Writes(u)' => runs'[u].id # k
    BY <1>13, <1>15, <2>1, <2>2 DEF WritesAlone, Writes, Runs
  <2>5. runs'[t].at # "saved" => k \in lost' \/ stored'[k] = 0
    <3>1. CASE t = s BY <1>4, <1>6, <1>7, <1>10, <2>2, <3>1
    <3>2. CASE t # s
      BY <1>2, <1>4, <1>15, <2>1, <2>2, <3>2, <1>7, <1>9, <1>10 DEF WritesAlone
    <3> QED BY <3>1, <3>2
  <2>6. Runs(t, "save")' => runs'[t].session \in Sessions
    BY <1>15, <2>1, <1>6, <1>7 DEF WritesAlone, Runs, Continues
  <2> QED BY <1>1, <1>11, <2>1, <2>2, <2>3, <2>4, <2>5, <2>6 DEF WritesAlone, Kept
<1>16. ASSUME NEW t \in Slots PROVE WritesAlone(t)'
  BY <1>13, <1>15 DEF WritesAlone
<1>17. ASSUME NEW t \in Slots
       PROVE  Runs(t, "review")' => runs'[t].at \in {"begin", "show"} /\ runs'[t].id \in Ids
  BY <1>2, <1>6, <1>7 DEF SecretInv, Runs, Writes, Continues
<1>18. ASSUME NEW k \in Ids PROVE StoredIsDone(k)'
  <2>1. StoredIsDone(k) BY DEF SecretInv
  <2>2. k > made' => items'[k] = None /\ stored'[k] = 0
    BY <1>1, <1>5, <1>9, <1>11, <2>1, SecretTypes DEF StoredIsDone, Ids
  <2>3. ASSUME k \notin lost', items'[k] # None, stored'[k] # 0, ~items'[k].dismissed
        PROVE  \E t \in Slots : Writes(t)' /\ runs'[t].id = k /\ runs'[t].at = "saved"
    <3>1. CASE k = i
      BY <1>10, <2>3, <3>1, <1>2, <1>4, <1>6, <1>7, <1>13 DEF Writes, Runs
    <3>2. CASE k # i
      <4>1. PICK t \in Slots : Writes(t) /\ runs[t].id = k /\ runs[t].at = "saved"
        BY <1>1, <1>9, <1>10, <2>1, <2>3, <3>2 DEF StoredIsDone, Kept
      <4>2. t # s BY <1>2, <4>1
      <4> QED BY <1>7, <4>1, <4>2 DEF Writes, Runs
    <3> QED BY <3>1, <3>2
  <2> QED BY <2>2, <2>3 DEF StoredIsDone, Kept
<1>19. SecretIsLive' BY <1>1, <1>11 DEF SecretInv, SecretIsLive, Kept, page
<1>20. SecretStoredOnce' BY <1>10, <1>5, <1>9 DEF SecretInv, SecretStoredOnce
<1> QED BY <1>12, <1>14, <1>16, <1>17, <1>18, <1>19, <1>20 DEF SecretInv

(* An observation keeps what it has found: it has an open port, since its    *)
(* epoch is still the tab's, and this session.                               *)
LEMMA SecretKeeps ==
    ASSUME SecretInv, NEW s \in Slots, runs[s] # None, ObserveKeeps(s)
    PROVE  SecretInv'
<1>1. runs[s] \in SecretRuns /\ PageTyped /\ Ends(s) /\ Runs(s, "observe")
  BY SecretTypes DEF ObserveKeeps, Runs
<1>2. UNCHANGED <<page, epoch, stored, lost, card>> /\ ~Writes(s)
  BY <1>1 DEF ObserveKeeps, Writes, Runs
<1>3. CASE UNCHANGED <<items, made>>
  BY <1>3, SecretSame, <1>1, <1>2, SecretMoved DEF Ends
<1>4. CASE /\ Unchanged(runs[s]) /\ made < MaxItems
           /\ items' = [items EXCEPT ![made + 1] = Item(runs[s])] /\ made' = made + 1
  <2>1. PICK n \in Ids : n = made + 1 BY <1>4, SecretTypes DEF Ids
  <2>2. ObservesLive(s) BY DEF SecretInv
  <2>3. PICK q : q = Item(runs[s]) OBVIOUS
  <2>4. /\ q.session = Session /\ q.session = runs[s].session /\ q.doc = runs[s].doc
        /\ q.doc \in tab.open
    BY <1>1, <1>4, <2>2, <2>3 DEF ObservesLive, Unchanged, Item
  <2>5. q \in SecretItems
    BY <1>1, <2>2, <2>3 DEF SecretItems, SecretRuns, Item, ObservesLive
  <2>6. items' = [items EXCEPT ![n] = q] BY <1>4, <2>1, <2>3
  <2>7. /\ items' \in [Ids -> SecretItems \cup {None}] /\ items'[n] = q
        /\ \A k \in Ids : k # n => items'[k] = items[k]
    BY <2>5, <2>6, SecretTypes
  <2>8. runs' = [runs EXCEPT ![s] = None] BY <1>1 DEF Ends
  <2>9. /\ runs' \in [Slots -> SecretRuns \cup {None}] /\ runs'[s] = None
        /\ \A t \in Slots : t # s => runs'[t] = runs[t]
    BY <2>8, SecretTypes
  <2>10. made' \in 0..MaxItems /\ made' = made + 1 /\ made \in Nat
    BY <1>4, SecretTypes
  <2>11. SecretTyped'
    BY <1>1, <1>2, <2>7, <2>9, <2>10, SecretTypes DEF SecretTyped, page, PageTyped
  <2>12. ASSUME NEW t \in Slots PROVE Writes(t)' <=> Writes(t)
    BY <1>2, <2>9 DEF Writes, Runs
  <2>13. ASSUME NEW t \in Slots PROVE ObservesLive(t)'
    BY <1>2, <2>9 DEF SecretInv, ObservesLive, Runs, page
  <2>14. ASSUME NEW t \in Slots, Writes(t) PROVE WritesAlone(t)'
    <3>1. WritesAlone(t) /\ runs'[t] = runs[t]
      BY <1>2, <2>9, <2>14 DEF SecretInv
    <3>2. PICK k \in Ids : k = runs[t].id
      BY <2>14, <3>1, SecretTypes DEF WritesAlone, Ids
    <3>3. k \in 1..made /\ k # n
      BY <2>1, <2>10, <2>14, <3>1, <3>2 DEF WritesAlone
    <3>4. k \in Kept' => items'[k].busy
      BY <2>7, <2>14, <3>1, <3>2, <3>3 DEF WritesAlone, Kept
    <3>5. k \in 1..made' BY <2>10, <3>3
    <3>6. runs[t].at # "saved" => k \in lost \/ stored[k] = 0
      BY <2>14, <3>1, <3>2 DEF WritesAlone
    <3>7. \A u \in Slots : u # t /\ Writes(u)' => runs'[u].id # k
      BY <1>2, <2>9, <2>12, <2>14, <3>1, <3>2 DEF WritesAlone
    <3>8. Runs(t, "save") => runs[t].session \in Sessions
      BY <2>14, <3>1 DEF WritesAlone
    <3>9. Runs(t, "save")' => runs'[t].session \in Sessions
      BY <3>1, <3>8 DEF Runs
    <3> QED BY <1>2, <3>1, <3>2, <3>4, <3>5, <3>6, <3>7, <3>9 DEF WritesAlone
  <2>15. ASSUME NEW t \in Slots PROVE WritesAlone(t)'
    BY <2>12, <2>14 DEF WritesAlone
  <2>16. ASSUME NEW t \in Slots
         PROVE  Runs(t, "review")' => runs'[t].at \in {"begin", "show"}
                                      /\ runs'[t].id \in Ids
    BY <2>9 DEF SecretInv, Runs
  <2>17. ASSUME NEW k \in Ids PROVE StoredIsDone(k)'
    <3>1. StoredIsDone(k) /\ StoredIsDone(n) BY DEF SecretInv
    <3>2. stored[n] = 0 BY <2>1, <2>10, <3>1 DEF StoredIsDone
    <3>3. k > made' => items'[k] = None /\ stored'[k] = 0
      BY <1>2, <2>1, <2>7, <2>10, <3>1 DEF StoredIsDone, Ids
    <3>4. ASSUME k \notin lost, items'[k] # None, stored[k] # 0, ~items'[k].dismissed
          PROVE  \E t \in Slots : Writes(t)' /\ runs'[t].id = k /\ runs'[t].at = "saved"
      <4>1. k # n BY <3>2, <3>4
      <4>2. PICK t \in Slots : Writes(t) /\ runs[t].id = k /\ runs[t].at = "saved"
        BY <2>7, <3>1, <3>4, <4>1 DEF StoredIsDone, Kept
      <4>3. runs'[t] = runs[t] BY <1>2, <2>9, <4>2
      <4> QED BY <2>12, <4>2, <4>3
    <3> QED BY <1>2, <3>3, <3>4 DEF StoredIsDone, Kept
  <2>18. SecretIsLive'
    BY <2>4, <2>7, <1>2 DEF Session, SecretInv, SecretIsLive, Kept, page
  <2>19. SecretStoredOnce' BY <1>2 DEF SecretInv, SecretStoredOnce
  <2> QED BY <2>11, <2>13, <2>15, <2>16, <2>17, <2>18, <2>19 DEF SecretInv
<1> QED BY <1>3, <1>4 DEF ObserveKeeps

(* The user dismisses, the three minutes of an item pass, or another device  *)
(* edits the card.                                                           *)
LEMMA SecretAside ==
    ASSUME SecretInv,
           \/ \E i \in Ids : Expires(i) \/ \E mute \in BOOLEAN : Dismiss(i, mute)
           \/ CardEdited
    PROVE  SecretInv'
<1>1. UNCHANGED <<page, epoch, runs, stored, lost, made>> /\ card' \in Nat
  <2>1. ASSUME NEW i \in Ids, Expires(i) \/ \E mute \in BOOLEAN : Dismiss(i, mute)
        PROVE  UNCHANGED <<page, epoch, runs, stored, lost, made, card>>
    BY <2>1 DEF Expires, Dismiss, secretStore
  <2>2. CASE CardEdited BY <2>2, SecretTypes DEF CardEdited
  <2> QED BY <2>1, <2>2, SecretTypes
<1>2. PageTyped' /\ tab' = tab /\ sess' = sess
  BY <1>1, SecretTypes DEF PageTyped, page
<1>3. ItemsKept({})
  <2>1. ASSUME NEW i \in Ids, Expires(i) PROVE ItemsKept({})
    BY <2>1, SecretRemoved DEF Expires
  <2>2. ASSUME NEW i \in Ids, NEW mute \in BOOLEAN, Dismiss(i, mute) PROVE ItemsKept({})
    <3>1. items[i] \in SecretItems /\ items[i] # None
      BY <2>2, SecretTypes DEF Dismiss, Kept
    <3>2. PICK busy \in BOOLEAN : busy = items[i].busy BY <3>1 DEF SecretItems
    <3>3. PICK q \in SecretItems :
             /\ q = [items[i] EXCEPT !.dismissed = TRUE, !.busy = busy]
             /\ q.session = items[i].session /\ q.doc = items[i].doc /\ q.busy = busy
             /\ q.dismissed
      BY <3>1, MarkedIs
    <3>4. q = [items[i] EXCEPT !.dismissed = TRUE]
      BY <3>1, <3>2, <3>3 DEF SecretItems
    <3>5. items' = [items EXCEPT ![i] = q]
      BY <2>2, <3>4, SecretTypes DEF Dismiss
    <3> QED BY <3>1, <3>2, <3>3, <3>5, SecretEdited
  <2>3. CASE CardEdited BY <2>3, SecretSame DEF CardEdited
  <2> QED BY <2>1, <2>2, <2>3
<1>4. SecretIsLive' BY <1>2, <1>3 DEF SecretInv, SecretIsLive, ItemsKept, Kept
<1> QED BY <1>1, <1>2, <1>3, <1>4, SecretTypes, SecretWorld

(* The tab, its ports and the session: what clears the items ends the epoch. *)
LEMMA SecretEvents ==
    ASSUME SecretInv,
           \/ SecretSession \/ SecretUpdated \/ SecretNavigates
           \/ \E d \in tab.open \cup {tab.doc - 1, tab.doc} :
                SecretConnects(d) \/ SecretLeaves(d)
    PROVE  SecretInv'
<1>1. PageTyped /\ epoch \in Nat /\ card \in Nat BY SecretTypes
<1>2. ASSUME Cleared, PageTyped', UNCHANGED <<muted, runs, secretStore, begun>>
      PROVE  SecretInv'
  BY <1>2, SecretRemoved, <1>1, SecretWorld DEF Cleared, Removed, SecretIsLive, Kept, secretStore
<1>3. CASE SecretSession BY <1>1, <1>3, SessKept, <1>2 DEF SecretSession
<1>4. CASE SecretUpdated
  BY <1>1, <1>4, <1>2 DEF SecretUpdated, Updates, PageTyped
<1>5. ASSUME UNCHANGED secretVars, PageTyped', sess' = sess, tab.open \subseteq tab'.open
      PROVE  SecretInv'
  BY <1>5, SecretSame, <1>1, SecretWorld DEF secretVars, SecretInv, SecretIsLive, Kept, secretStore
<1>6. CASE SecretNavigates
  BY <1>1, <1>6, NavigatesForm, <1>5 DEF SecretNavigates
<1>7. ASSUME NEW d \in tab.open \cup {tab.doc - 1, tab.doc}, SecretConnects(d)
      PROVE  SecretInv'
  BY <1>7, <1>1, DocTyped, ConnectsForm, <1>5 DEF SecretConnects
<1>8. ASSUME NEW d \in tab.open \cup {tab.doc - 1, tab.doc}, SecretLeaves(d)
      PROVE  SecretInv'
  <2>1. Leaves(d) /\ UNCHANGED <<muted, runs, secretStore, begun>> /\ epoch' = epoch + 1
        /\ items' = Removed({i \in Kept : items[i].doc = d})
    BY <1>8 DEF SecretLeaves
  <2>2. d \in Nat BY <1>1, <2>1, DocTyped
  <2>3. PageTyped' /\ sess' = sess /\ tab'.open = tab.open \ {d}
    BY <1>1, <2>1, <2>2, LeavesForm
  <2>4. ItemsKept({}) BY <2>1, SecretRemoved
  <2>5. ASSUME NEW i \in Ids, items'[i] # None
        PROVE  items'[i].session.gen = sess.gen /\ items'[i].doc \in tab.open \ {d}
    BY <2>1, <2>5 DEF Removed, Kept, SecretInv, SecretIsLive
  <2>6. SecretIsLive' BY <2>3, <2>5 DEF SecretIsLive, Kept
  <2>7. /\ card' \in Nat /\ epoch' \in Nat /\ epoch' > epoch
        /\ UNCHANGED <<runs, stored, lost, made>>
    BY <1>1, <2>1 DEF secretStore
  <2> QED BY <1>1, <2>3, <2>4, <2>6, <2>7, SecretWorld
<1> QED BY <1>3, <1>4, <1>6, <1>7, <1>8

LEMMA SecretStarts == PageInit /\ SecretInit => SecretInv
<1>1. SUFFICES ASSUME PageInit, SecretInit PROVE SecretInv OBVIOUS
<1>2. PageTyped BY <1>1, PageStarts
<1>3. SecretTyped /\ Kept = {} /\ \A s \in Slots : runs[s] = None
  BY <1>1, <1>2, SecretAssumption DEF SecretInit, SecretTyped, Kept, Ids
<1>4. \A i \in Ids : items[i] = None /\ stored[i] = 0 BY <1>1 DEF SecretInit
<1>5. \A s \in Slots : /\ ObservesLive(s) /\ WritesAlone(s) /\ ~Runs(s, "review")
  BY <1>3 DEF ObservesLive, WritesAlone, Writes, Runs
<1>6. \A i \in Ids : StoredIsDone(i) BY <1>4 DEF StoredIsDone, Kept
<1>7. SecretIsLive /\ SecretStoredOnce
  BY <1>3, <1>4 DEF SecretIsLive, SecretStoredOnce
<1> QED BY <1>3, <1>5, <1>6, <1>7 DEF SecretInv

(* The invariant holds, of any secrets and any number of items.              *)
THEOREM SecretInvariant == SecretSpec => []SecretInv
<1>1. PageInit /\ SecretInit => SecretInv BY SecretStarts
<1>2. SecretInv /\ [SecretNext]_<<page, secretVars>> => SecretInv'
  <2>1. SUFFICES ASSUME SecretInv, [SecretNext]_<<page, secretVars>> PROVE SecretInv'
    OBVIOUS
  <2>2. CASE UNCHANGED <<page, secretVars>>
    BY <2>1, <2>2, SecretTypes, SecretSame, SecretWorld DEF page, secretVars, PageTyped, SecretInv,
       SecretIsLive, Kept, secretStore
  <2>3. CASE SecretNext
    <3>1. CASE \/ \E d \in tab.open, secret \in Secrets : ObserveBegins(d, secret)
               \/ \E i \in Ids : ReviewBegins(i) \/ SaveBegins(i) \/ UpdateBegins(i)
      BY <2>1, <3>1, SecretBegins
    <3>2. CASE \/ \E i \in Ids : Expires(i) \/ \E mute \in BOOLEAN : Dismiss(i, mute)
               \/ CardEdited
      BY <2>1, <3>2, SecretAside
    <3>3. ASSUME NEW s \in Slots, runs[s] # None,
                 \/ ObserveLooks(s) \/ ObserveKeeps(s) \/ ReviewReads(s) \/ ReviewShows(s)
                 \/ WriteAsserts(s) \/ SaveSends(s) \/ WriteBounces(s) \/ WriteEnds(s)
                 \/ \E b \in BOOLEAN : SaveLooks(s, b) \/ WriteLands(s, b)
          PROVE  SecretInv'
      BY <2>1, <3>3, SecretLooks, SecretKeeps, SecretWrites, SecretLands
    <3>4. CASE \/ SecretSession \/ SecretUpdated \/ SecretNavigates
               \/ \E d \in tab.open \cup {tab.doc - 1, tab.doc} :
                    SecretConnects(d) \/ SecretLeaves(d)
      BY <2>1, <3>4, SecretEvents
    <3> QED BY <2>3, <3>1, <3>2, <3>3, <3>4 DEF SecretNext
  <2> QED BY <2>1, <2>2, <2>3
<1> QED BY <1>1, <1>2, PTL DEF SecretSpec

(* What is kept was found in this session and in a document whose port is    *)
(* open still, and an item is stored once unless the answer to a write was   *)
(* lost, however observations, reviews, saves, navigations, dropped ports    *)
(* and hooks of the session interleave.                                      *)
THEOREM SecretsSound == SecretSpec => []SecretsAreSound
<1>1. SecretInv => SecretsAreSound BY DEF SecretInv, SecretsAreSound
<1> QED BY <1>1, SecretInvariant, PTL

(* What a step does to a run that it does not carry on. *)
LEMMA SecretOpens ==
    ASSUME SecretInv, NEW s \in Slots,
           \/ \E d \in tab.open, secret \in Secrets : ObserveBegins(d, secret)
           \/ \E i \in Ids : ReviewBegins(i) \/ SaveBegins(i) \/ UpdateBegins(i)
    PROVE  runs'[s] = runs[s] \/ runs'[s].at = "begin"
<1>1. runs \in [Slots -> SecretRuns \cup {None}] BY SecretTypes
<1>2. ASSUME NEW r, r.at = "begin", Begins(r)
      PROVE  runs'[s] = runs[s] \/ runs'[s].at = "begin"
  BY <1>1, <1>2 DEF Begins
<1>3. ASSUME NEW d \in tab.open, NEW secret \in Secrets, ObserveBegins(d, secret)
      PROVE  runs'[s] = runs[s] \/ runs'[s].at = "begin"
  <2>1. PICK r : r = Observation(d, secret) OBVIOUS
  <2>2. r = [kind |-> "observe", at |-> "begin", id |-> 0, doc |-> d, secret |-> secret,
             session |-> Session, epoch |-> epoch, rev |-> 0]
    BY <2>1 DEF Observation, SecretRun
  <2> QED BY <1>2, <1>3, <2>1, <2>2 DEF ObserveBegins
<1>4. ASSUME NEW i \in Ids, ReviewBegins(i)
      PROVE  runs'[s] = runs[s] \/ runs'[s].at = "begin"
  BY <1>2, <1>4 DEF SecretRun, ReviewBegins
<1>5. ASSUME NEW i \in Ids, SaveBegins(i)
      PROVE  runs'[s] = runs[s] \/ runs'[s].at = "begin"
  <2>1. PICK r : r = [SecretRun("save", i) EXCEPT !.session = Session] OBVIOUS
  <2>2. r.at = "begin" BY <2>1 DEF SecretRun
  <2> QED BY <1>2, <1>5, <2>1, <2>2 DEF SaveBegins
<1>6. ASSUME NEW i \in Ids, UpdateBegins(i)
      PROVE  runs'[s] = runs[s] \/ runs'[s].at = "begin"
  <2>1. PICK r : r = [SecretRun("update", i) EXCEPT !.rev = items[i].target]
    OBVIOUS
  <2>2. r.at = "begin" BY <2>1 DEF SecretRun
  <2> QED BY <1>2, <1>6, <2>1, <2>2 DEF UpdateBegins
<1> QED BY <1>3, <1>4, <1>5, <1>6

LEMMA SecretOthers ==
    ASSUME SecretInv, NEW s \in Slots, NEW t \in Slots, t # s,
           \/ ObserveLooks(t) \/ ObserveKeeps(t) \/ ReviewReads(t) \/ ReviewShows(t)
           \/ WriteAsserts(t) \/ SaveSends(t) \/ WriteBounces(t) \/ WriteEnds(t)
           \/ \E b \in BOOLEAN : SaveLooks(t, b) \/ WriteLands(t, b)
    PROVE  runs'[s] = runs[s]
BY SecretTypes DEF Ends, Goes, ReviewReads, ObserveLooks, ObserveKeeps, ReviewShows, WriteAsserts,
   SaveSends, WriteBounces, WriteEnds, SaveLooks, WriteLands

(* A new entry is sent only of what the user has not dismissed and in the    *)
(* session that found it: the check asked last needs no await before the     *)
(* request, and what it does not compare follows from what is kept.          *)
THEOREM SecretWanted == SecretSpec => SecretSentIsWanted
<1> DEFINE Wanted == \A s \in Slots :
         runs[s] # None /\ runs[s].kind = "save" /\ runs[s].at # "sent"
         /\ runs'[s] # None /\ runs'[s].at = "sent"
         => /\ runs[s].id \in Kept /\ ~items[runs[s].id].dismissed
            /\ items[runs[s].id].session.gen = sess.gen
<1>1. SecretInv /\ [SecretNext]_<<page, secretVars>> => [Wanted]_secretVars
  <2>1. SUFFICES ASSUME SecretInv, SecretNext, NEW s \in Slots, runs[s] # None,
                        runs[s].kind = "save", runs[s].at # "sent", runs'[s] # None,
                        runs'[s].at = "sent"
                 PROVE  /\ runs[s].id \in Kept /\ ~items[runs[s].id].dismissed
                        /\ items[runs[s].id].session.gen = sess.gen
    BY DEF secretVars
  <2>2. runs \in [Slots -> SecretRuns \cup {None}] /\ runs[s] \in SecretRuns
    BY <2>1, SecretTypes
  <2>3. CASE SaveSends(s)
    BY <2>1, <2>2, <2>3 DEF Ends, SaveSends, StillWanted, SecretInv, SecretIsLive
  <2>4. CASE \/ \E d \in tab.open, secret \in Secrets : ObserveBegins(d, secret)
             \/ \E i \in Ids : ReviewBegins(i) \/ SaveBegins(i) \/ UpdateBegins(i)
    BY <2>1, <2>4, SecretOpens
  <2>5. CASE \/ \E i \in Ids : Expires(i) \/ \E mute \in BOOLEAN : Dismiss(i, mute)
             \/ CardEdited \/ SecretSession \/ SecretUpdated \/ SecretNavigates
             \/ \E d \in tab.open \cup {tab.doc - 1, tab.doc} :
                  SecretConnects(d) \/ SecretLeaves(d)
    BY <2>5, <2>1 DEF Expires, Dismiss, CardEdited, SecretSession, SecretUpdated, SecretNavigates,
       SecretConnects, SecretLeaves, secretVars
  <2>6. ASSUME NEW t \in Slots, runs[t] # None,
               \/ ObserveLooks(t) \/ ObserveKeeps(t) \/ ReviewReads(t) \/ ReviewShows(t)
               \/ WriteAsserts(t) \/ SaveSends(t) \/ WriteBounces(t) \/ WriteEnds(t)
               \/ \E b \in BOOLEAN : SaveLooks(t, b) \/ WriteLands(t, b)
        PROVE  SaveSends(s)
    <3>1. t = s BY <2>1, <2>6, SecretOthers
    <3>2. ~Ends(s) BY <2>1, <2>2 DEF Ends
    <3>3. \A at \in SecretAts : Goes(s, at) => at = "sent"
      BY <2>1, <2>2 DEF Goes, SecretRuns
    <3>4. ~ObserveLooks(s) /\ ~ObserveKeeps(s) /\ ~ReviewReads(s) /\ ~ReviewShows(s)
      BY <2>1 DEF ObserveLooks, ObserveKeeps, ReviewReads, ReviewShows
    <3>5. ~WriteBounces(s) /\ ~WriteEnds(s) /\ \A b \in BOOLEAN : ~WriteLands(s, b)
      BY <2>1, <3>2 DEF WriteBounces, WriteEnds, WriteLands
    <3>6. ~WriteAsserts(s) /\ \A b \in BOOLEAN : ~SaveLooks(s, b)
      BY <2>1, <3>2, <3>3 DEF WriteAsserts, SaveLooks, SecretAts
    <3> QED BY <2>6, <3>1, <3>4, <3>5, <3>6
  <2> QED BY <2>1, <2>3, <2>4, <2>5, <2>6 DEF SecretNext
<1> QED BY <1>1, SecretInvariant, PTL DEF SecretSpec, SecretSentIsWanted

-----------------------------------------------------------------------------
(* One-time passwords: what a step does to the observation and to a run. *)

(* The properties of one observation. *)
TotpSound(q) ==
    /\ ~q.dismissed /\ q.doc = carried.doc => q.seq >= carried.seq
    /\ q.loaded => q.read = q.scope /\ ~q.dismissed
RunsKept ==
    /\ truns' \in [TSlots -> TotpRuns \cup {None}]
    /\ \A s \in TSlots :
         truns'[s] # None /\ truns'[s].kind \in {"observe", "invalidate", "advance"} =>
           truns'[s].doc # 0

LEMMA TotpTypes ==
    ASSUME TotpInv
    PROVE  /\ PageTyped /\ InOrder /\ seq \in Nat /\ heard \in Numbers /\ carried \in Numbers
           /\ tcount \in Nat /\ totp \in TotpItems \cup {None}
           /\ truns \in [TSlots -> TotpRuns \cup {None}]
           /\ \A s \in TSlots : truns[s] # None => truns[s] \in TotpRuns
           /\ totp # None => totp \in TotpItems /\ TotpSound(totp)
           /\ Session \in Sessions
BY SessionTyped
   DEF TotpInv, TotpTyped, TotpIsSound, ObservationsInOrder, TargetsAreOfScope, TotpSound

(* A step that hears nothing. *)
LEMMA TotpMoved ==
    ASSUME TotpInv, UNCHANGED <<page, heardVars>>, tcount' \in Nat, RunsKept,
           totp' \in TotpItems \cup {None}, totp' # None => TotpSound(totp')
    PROVE  TotpInv'
BY TotpTypes DEF TotpTyped, RunsKept, page, heardVars, PageTyped, InOrder, TotpIsSound,
   ObservationsInOrder, TargetsAreOfScope, TotpSound, TotpInv, Reached

LEMMA TotpEnds ==
    ASSUME TotpInv, NEW s \in TSlots, TEnds(s) \/ truns' = truns PROVE RunsKept
BY TotpTypes DEF TEnds, RunsKept, TotpInv

LEMMA TotpGoes ==
    ASSUME TotpInv, NEW s \in TSlots, truns[s] # None,
           NEW at \in {"begin", "look", "keep", "choices", "seal", "sent"}, TGoes(s, at)
    PROVE  RunsKept
<1>1. truns[s] \in TotpRuns BY TotpTypes
<1>2. PICK r : r = [truns[s] EXCEPT !.at = at] OBVIOUS
<1>3. r \in TotpRuns /\ r.kind = truns[s].kind /\ r.doc = truns[s].doc
  BY <1>1, <1>2 DEF TotpRuns
<1>4. truns' = [truns EXCEPT ![s] = r] BY <1>2 DEF TGoes
<1>5. /\ truns' \in [TSlots -> TotpRuns \cup {None}] /\ truns'[s] = r
      /\ \A t \in TSlots : t # s => truns'[t] = truns[t]
  BY <1>3, <1>4, TotpTypes
<1> QED BY <1>3, <1>5 DEF RunsKept, TotpInv

LEMMA TotpBegins ==
    ASSUME TotpInv, NEW r \in TotpRuns, TBegins(r),
           r.kind \in {"observe", "invalidate", "advance"} => r.doc # 0
    PROVE  RunsKept /\ tcount' \in Nat
<1>1. PICK s \in TSlots : truns' = [truns EXCEPT ![s] = r]
  BY TotpTypes DEF TBegins, HasFree, FreeSlot
<1>2. /\ truns' \in [TSlots -> TotpRuns \cup {None}] /\ truns'[s] = r
      /\ \A t \in TSlots : t # s => truns'[t] = truns[t]
  BY <1>1, TotpTypes
<1> QED BY <1>2, TotpTypes DEF RunsKept, TotpInv, TBegins

(* The operation that begins. *)
LEMMA TotpOpTyped ==
    ASSUME TotpInv, NEW kind \in {"observe", "invalidate", "advance", "review", "save"},
           NEW what \in Totps \cup Entries \cup {None}
    PROVE  /\ TotpOp(kind, what) \in TotpRuns /\ TotpOp(kind, what).kind = kind
           /\ TotpOp(kind, what).doc = tab.port
BY TotpTypes DEF PageTyped, NoScope, Scopes, TotpOp, TotpRuns

(* An observation with its marks changed. *)
LEMMA SavingForm ==
    ASSUME TotpInv, totp # None, NEW b \in BOOLEAN
    PROVE  LET q == [totp EXCEPT !.saving = b] IN q \in TotpItems /\ TotpSound(q)
<1>1. PICK q : q = [totp EXCEPT !.saving = b] OBVIOUS
<1>2. totp \in TotpItems /\ TotpSound(totp) BY TotpTypes
<1>3. /\ q \in TotpItems /\ q.doc = totp.doc /\ q.seq = totp.seq /\ q.read = totp.read
      /\ q.scope = totp.scope /\ q.loaded = totp.loaded /\ q.dismissed = totp.dismissed
  BY <1>1, <1>2 DEF TotpItems
<1>4. TotpSound(q) BY <1>2, <1>3 DEF TotpSound
<1> QED BY <1>1, <1>3, <1>4

LEMMA UnsavingForm ==
    ASSUME TotpInv, NEW id
    PROVE  /\ Unsaving(id) \in TotpItems \cup {None}
           /\ Unsaving(id) # None => TotpSound(Unsaving(id))
BY SavingForm, TotpTypes DEF Unsaving

LEMMA LoadingForm ==
    ASSUME TotpInv, totp # None, NEW s \in {0} \cup TSlots
    PROVE  LET q == [totp EXCEPT !.loading = s] IN
           q \in TotpItems /\ TotpSound(q) /\ q.scope = totp.scope
           /\ q.dismissed = totp.dismissed
<1>1. PICK q : q = [totp EXCEPT !.loading = s] OBVIOUS
<1>2. totp \in TotpItems /\ TotpSound(totp) BY TotpTypes
<1>3. /\ q \in TotpItems /\ q.doc = totp.doc /\ q.seq = totp.seq /\ q.read = totp.read
      /\ q.scope = totp.scope /\ q.loaded = totp.loaded /\ q.dismissed = totp.dismissed
  BY <1>1, <1>2 DEF TotpItems
<1>4. TotpSound(q) BY <1>2, <1>3 DEF TotpSound
<1> QED BY <1>1, <1>3, <1>4

-----------------------------------------------------------------------------
(* One-time passwords: every step keeps the invariant. *)

(* The page's numbers grow, so whatever it says is newer than what was       *)
(* carried out of this document.                                             *)
LEMMA PageIsHeard ==
    ASSUME TotpInv, NEW kind \in {"observe", "invalidate", "advance"},
           NEW what \in Totps \cup {None}, NEW manual \in BOOLEAN,
           PageSends(kind, what, manual)
    PROVE  TotpInv'
<1>1. PICK n \in {seq, seq + 1} \cap 1..MaxSeq :
         /\ seq' = n /\ heard' = [doc |-> tab.port, seq |-> n]
         /\ TBegins([TotpOp(kind, what) EXCEPT !.seq = n, !.manual = manual])
  BY DEF PageSends
<1>2. /\ tab.port # 0 /\ tab.port \in Nat /\ UNCHANGED <<page, carried, totp>>
      /\ n \in Nat /\ n >= seq /\ tab.port = tab.seen /\ tab.seen \in Nat
  BY <1>1, TotpTypes, TotpAssumption DEF PageSends, PageTyped, InOrder
<1>3. PICK r : r = [TotpOp(kind, what) EXCEPT !.seq = n, !.manual = manual]
  OBVIOUS
<1>4. /\ TotpOp(kind, what) \in TotpRuns /\ TotpOp(kind, what).doc = tab.port
  BY TotpOpTyped
<1>5. PICK o : o = TotpOp(kind, what) OBVIOUS
<1>6. r = [kind |-> o.kind, at |-> o.at, what |-> o.what, doc |-> o.doc, seq |-> n,
           session |-> o.session, manual |-> manual, id |-> o.id, scope |-> o.scope]
  BY <1>3, <1>4, <1>5 DEF TotpRuns
<1>7. r \in TotpRuns /\ r.doc # 0 BY <1>2, <1>4, <1>5, <1>6 DEF TotpRuns
<1>8. RunsKept /\ tcount' \in Nat BY <1>1, <1>3, <1>7, TotpBegins
<1>9. heard' \in Numbers /\ heard'.doc = tab.port /\ heard'.seq = n
  BY <1>1, <1>2 DEF Numbers
<1>10. TotpTyped'
  BY <1>1, <1>2, <1>8, <1>9, TotpTypes DEF TotpTyped, RunsKept, page, PageTyped, InOrder
<1>11. TotpIsSound'
  BY <1>2 DEF TotpInv, TotpIsSound, ObservationsInOrder, TargetsAreOfScope
<1>12. Reached(carried)' /\ (carried.doc = tab.seen => carried.seq <= n)
  BY TotpTypes, <1>1, <1>2 DEF TotpInv, Reached, page, Numbers
<1>13. Reached(heard)' BY <1>1, <1>2, <1>9 DEF Reached, page
<1> QED BY <1>2, <1>8, <1>9, <1>10, <1>11, <1>12, <1>13 DEF TotpInv, RunsKept

LEMMA PageIsChecked ==
    ASSUME TotpInv, NEW s \in TSlots, truns[s] # None, PageHeard(s)
    PROVE  TotpInv'
<1>1. PICK r \in TotpRuns : r = truns[s] BY TotpTypes
<1>3. UNCHANGED <<page, seq, heard, tcount>> BY DEF PageHeard
<1>4. RunsKept BY TotpGoes, TotpEnds DEF PageHeard
<1>5. CASE UNCHANGED <<carried, totp>>
  BY <1>3, <1>5, TotpTypes, <1>4, TotpMoved DEF heardVars
<1>6. CASE /\ StillLast(r) /\ carried' = heard
           /\ totp' = IF totp # None /\ ~totp.dismissed /\ totp.doc = r.doc
                      THEN None ELSE totp
  BY <1>6, <1>3, <1>4, TotpTypes DEF StillLast, TotpTyped, RunsKept, page, PageTyped, InOrder,
     TotpInv, TotpIsSound, ObservationsInOrder, TargetsAreOfScope, Reached, Numbers
<1> QED BY <1>1, <1>5, <1>6 DEF PageHeard

(* What is kept has the number heard last, which nothing carried out of its  *)
(* document exceeds.                                                         *)
LEMMA PageIsKept ==
    ASSUME TotpInv, NEW s \in TSlots, truns[s] # None, TotpLooks(s) \/ TotpKeeps(s)
    PROVE  TotpInv'
<1>1. PICK r \in TotpRuns : r = truns[s] BY TotpTypes
<1>2. UNCHANGED <<page, heardVars>> /\ tcount' \in Nat
  BY TotpTypes DEF TotpLooks, TotpKeeps
<1>3. CASE TotpLooks(s)
  BY <1>3, TotpGoes, TotpEnds, TotpTypes, <1>2, TotpMoved DEF TotpLooks
<1>4. CASE TotpKeeps(s)
  <2>1. RunsKept BY <1>4, TotpEnds DEF TotpKeeps
  <2>2. CASE totp' = totp BY <2>2, TotpTypes, <1>2, <2>1, TotpMoved
  <2>3. CASE StillLast(r) /\ SameTotp(r) /\ totp' = [totp EXCEPT !.seq = r.seq]
    <3>1. totp \in TotpItems /\ TotpSound(totp) /\ totp.doc = r.doc
      BY <2>3, TotpTypes DEF SameTotp
    <3>2. PICK q : q = [totp EXCEPT !.seq = r.seq] OBVIOUS
    <3>3. /\ q \in TotpItems /\ q.doc = r.doc /\ q.seq = r.seq /\ q.read = totp.read
          /\ q.scope = totp.scope /\ q.loaded = totp.loaded /\ q.dismissed = totp.dismissed
      BY <3>1, <3>2 DEF TotpItems, TotpRuns
    <3>4. r.doc # 0 /\ heard.doc = r.doc /\ heard.seq = r.seq
      BY <1>1, <1>4, <2>3 DEF TotpInv, TotpKeeps, StillLast
    <3>5. r.doc = carried.doc => r.seq >= carried.seq
      BY <3>4, TotpTypes DEF TotpInv, Numbers
    <3>6. TotpSound(q) BY <3>1, <3>3, <3>5 DEF TotpSound
    <3> QED BY <1>2, <2>1, <2>3, <3>2, <3>3, <3>6, TotpMoved
  <2>4. CASE StillLast(r) /\ totp' = TotpObserved(r)
    <3>1. PICK q : q = TotpObserved(r) OBVIOUS
    <3>2. /\ q \in TotpItems /\ q.doc = r.doc /\ q.seq = r.seq /\ ~q.loaded
      BY <3>1, TotpTypes DEF TotpObserved, TotpItems, TotpRuns, NoScope, Scopes
    <3>3. r.doc # 0 /\ heard.doc = r.doc /\ heard.seq = r.seq
      BY <1>1, <1>4, <2>4 DEF TotpInv, TotpKeeps, StillLast
    <3>4. r.doc = carried.doc => r.seq >= carried.seq
      BY <3>3, TotpTypes DEF TotpInv, Numbers
    <3>5. TotpSound(q) BY <3>2, <3>4 DEF TotpSound
    <3> QED BY <1>2, <2>1, <2>4, <3>1, <3>2, <3>5, TotpMoved
  <2> QED BY <1>1, <1>4, <2>2, <2>3, <2>4 DEF TotpKeeps
<1> QED BY <1>3, <1>4

(* A review begins with targets of another entry forgotten. *)
LEMMA TotpReviewed ==
    ASSUME TotpInv,
           \/ \E entry \in Entries \cup {None} : TotpReviewBegins(entry)
           \/ \E s \in TSlots : /\ truns[s] # None
                                /\ ReviewScopes(s) \/ \E b \in BOOLEAN : ReviewLoads(s, b)
    PROVE  TotpInv'
<1>1. ASSUME NEW entry \in Entries \cup {None}, TotpReviewBegins(entry) PROVE TotpInv'
  <2>1. PICK o \in TotpRuns : o = TotpOp("review", entry) /\ o.kind = "review"
    BY TotpOpTyped
  <2>2. PICK r : r = [o EXCEPT !.id = totp.id] OBVIOUS
  <2>3. totp.id \in Nat BY <1>1, TotpTypes DEF TotpReviewBegins, TotpItems
  <2>4. r \in TotpRuns /\ r.kind = "review" BY <2>1, <2>2, <2>3 DEF TotpRuns
  <2>5. TBegins(r) BY <1>1, <2>1, <2>2 DEF TotpReviewBegins
  <2>6. RunsKept /\ tcount' \in Nat BY <2>4, <2>5, TotpBegins
  <2>7. /\ UNCHANGED <<page, heardVars>>
        /\ totp' \in TotpItems \cup {None} /\ (totp' # None => TotpSound(totp'))
    BY <1>1, TotpTypes DEF TotpReviewBegins
  <2> QED BY <2>6, <2>7, TotpMoved
<1>2. ASSUME NEW s \in TSlots, truns[s] # None, ReviewScopes(s) PROVE TotpInv'
  <2>1. PICK r \in TotpRuns : r = truns[s] BY <1>2, TotpTypes
  <2>2. UNCHANGED <<page, heardVars>> /\ tcount' \in Nat
    BY <1>2, TotpTypes DEF ReviewScopes
  <2>3. CASE TEnds(s) /\ UNCHANGED totp
    BY <2>3, TotpTypes, TotpEnds, <2>2, TotpMoved
  <2>4. CASE Valid(r.id)
    <3>1. totp # None /\ totp \in TotpItems /\ TotpSound(totp)
      BY <2>4, TotpTypes DEF Valid
    <3>2. PICK sc : sc = [entry |-> r.what, n |-> tcount] OBVIOUS
    <3>3. PICK p : p = IF r.what # None /\ totp.scope.entry # r.what
                       THEN [totp EXCEPT !.scope = sc, !.loaded = FALSE, !.loading = 0]
                       ELSE totp
      OBVIOUS
    <3>4. p \in TotpItems /\ TotpSound(p)
      <4>1. CASE p = totp BY <3>1, <4>1
      <4>2. CASE /\ r.what # None /\ totp.scope.entry # r.what
                 /\ p = [totp EXCEPT !.scope = sc, !.loaded = FALSE, !.loading = 0]
        <5>1. p = [id |-> totp.id, doc |-> totp.doc, what |-> totp.what, seq |-> totp.seq,
                   session |-> totp.session, scope |-> sc, read |-> totp.read,
                   loaded |-> FALSE, loading |-> 0, saving |-> totp.saving,
                   dismissed |-> totp.dismissed]
          BY <3>1, <4>2 DEF TotpItems
        <5>2. sc \in Scopes BY <3>2, TotpTypes DEF Scopes, TotpRuns
        <5>3. p \in TotpItems BY <3>1, <5>1, <5>2 DEF TotpItems
        <5> QED BY <3>1, <5>1, <5>3 DEF TotpSound
      <4> QED BY <3>3, <4>1, <4>2
    <3>5. CASE TEnds(s) /\ totp' = p BY <3>5, TotpEnds, <2>2, <3>4, TotpMoved
    <3>6. CASE /\ totp' = [p EXCEPT !.loading = s]
               /\ truns' = [truns EXCEPT ![s].at = "choices", ![s].scope = p.scope]
      <4>1. PICK q : q = [p EXCEPT !.loading = s] OBVIOUS
      <4>2. /\ q \in TotpItems /\ q.doc = p.doc /\ q.seq = p.seq /\ q.read = p.read
            /\ q.scope = p.scope /\ q.loaded = p.loaded /\ q.dismissed = p.dismissed
        BY <3>4, <4>1 DEF TotpItems
      <4>3. TotpSound(q) BY <3>4, <4>2 DEF TotpSound
      <4>4. PICK c : c = [r EXCEPT !.at = "choices", !.scope = p.scope]
        OBVIOUS
      <4>5. c = [kind |-> r.kind, at |-> "choices", what |-> r.what, doc |-> r.doc,
                 seq |-> r.seq, session |-> r.session, manual |-> r.manual, id |-> r.id,
                 scope |-> p.scope]
        BY <4>4 DEF TotpRuns
      <4>6. p.scope \in Scopes BY <3>4 DEF TotpItems
      <4>7. c \in TotpRuns /\ c.kind = r.kind /\ c.doc = r.doc
        BY <4>5, <4>6 DEF TotpRuns
      <4>8. truns' = [truns EXCEPT ![s] = c] BY <2>1, <3>6, <4>4, TotpTypes
      <4>9. /\ truns' \in [TSlots -> TotpRuns \cup {None}] /\ truns'[s] = c
            /\ \A t \in TSlots : t # s => truns'[t] = truns[t]
        BY <4>7, <4>8, TotpTypes
      <4>10. RunsKept BY <1>2, <2>1, <4>7, <4>9 DEF RunsKept, TotpInv
      <4> QED BY <2>2, <3>6, <4>1, <4>2, <4>3, <4>10, TotpMoved
    <3> QED BY <1>2, <2>1, <2>3, <2>4, <3>2, <3>3, <3>5, <3>6 DEF ReviewScopes
  <2> QED BY <1>2, <2>1, <2>3, <2>4 DEF ReviewScopes
<1>3. ASSUME NEW s \in TSlots, truns[s] # None, NEW works \in BOOLEAN, ReviewLoads(s, works)
      PROVE  TotpInv'
  <2>1. PICK r \in TotpRuns : r = truns[s] BY <1>3, TotpTypes
  <2>2. UNCHANGED <<page, heardVars>> /\ tcount' \in Nat /\ RunsKept
    BY <1>3, TotpTypes, TotpEnds DEF ReviewLoads
  <2>3. PICK done : done = IF totp # None /\ totp.id = r.id /\ totp.loading = s
                           THEN [totp EXCEPT !.loading = 0] ELSE totp
    OBVIOUS
  <2>4. totp # None => /\ done \in TotpItems /\ TotpSound(done) /\ done.scope = totp.scope
                       /\ done.dismissed = totp.dismissed
    BY <2>3, TotpTypes, LoadingForm
  <2>5. totp = None => done = None BY <2>3
  <2>6. totp' = IF works /\ InScope(r) THEN [done EXCEPT !.loaded = TRUE, !.read = r.scope]
                ELSE done
    BY <1>3, <2>1, <2>3 DEF ReviewLoads
  <2>7. CASE totp' = done BY <2>2, <2>4, <2>5, <2>7, TotpMoved
  <2>8. CASE InScope(r) /\ totp' = [done EXCEPT !.loaded = TRUE, !.read = r.scope]
    <3>1. totp # None /\ ~totp.dismissed /\ totp.scope = r.scope
      BY <2>8 DEF InScope, Valid
    <3>2. PICK q : q = [done EXCEPT !.loaded = TRUE, !.read = r.scope] OBVIOUS
    <3>3. q = [id |-> done.id, doc |-> done.doc, what |-> done.what, seq |-> done.seq,
               session |-> done.session, scope |-> done.scope, read |-> r.scope,
               loaded |-> TRUE, loading |-> done.loading, saving |-> done.saving,
               dismissed |-> done.dismissed]
      BY <2>4, <3>1, <3>2 DEF TotpItems
    <3>4. q \in TotpItems BY <2>4, <3>1, <3>3 DEF TotpItems, TotpRuns
    <3>5. TotpSound(q) BY <2>4, <3>1, <3>3 DEF TotpSound
    <3> QED BY <2>2, <2>8, <3>2, <3>4, <3>5, TotpMoved
  <2> QED BY <2>6, <2>7, <2>8
<1> QED BY <1>1, <1>2, <1>3

(* The user dismisses or saves. *)
LEMMA TotpSaved ==
    ASSUME TotpInv,
           \/ TotpSaveBegins \/ DismissTotp \/ TotpExpires
           \/ \E s \in TSlots : /\ truns[s] # None
                                /\ \E b \in BOOLEAN : SaveAuthorizes(s, b) \/ SaveEnds(s, b)
    PROVE  TotpInv'
<1>1. CASE TotpSaveBegins
  <2>1. totp # None /\ totp \in TotpItems
    BY <1>1, TotpTypes DEF TotpSaveBegins
  <2>2. totp.what \in Totps \cup Entries \cup {None} /\ totp.id \in Nat
        /\ totp.read \in Scopes
    BY <2>1 DEF TotpItems
  <2>3. PICK o \in TotpRuns : o = TotpOp("save", totp.what) /\ o.kind = "save"
    BY <2>2, TotpOpTyped
  <2>4. PICK r : r = [o EXCEPT !.id = totp.id, !.scope = totp.read] OBVIOUS
  <2>5. r = [kind |-> o.kind, at |-> o.at, what |-> o.what, doc |-> o.doc, seq |-> o.seq,
             session |-> o.session, manual |-> o.manual, id |-> totp.id,
             scope |-> totp.read]
    BY <2>3, <2>4 DEF TotpRuns
  <2>6. r \in TotpRuns /\ r.kind = "save" BY <2>2, <2>3, <2>5 DEF TotpRuns
  <2>7. TBegins(r) BY <1>1, <2>3, <2>4 DEF TotpSaveBegins
  <2>8. RunsKept /\ tcount' \in Nat BY <2>6, <2>7, TotpBegins
  <2>9. totp' = [totp EXCEPT !.saving = TRUE] /\ UNCHANGED <<page, heardVars>>
    BY <1>1 DEF TotpSaveBegins
  <2>10. totp' \in TotpItems /\ TotpSound(totp') BY <2>1, <2>9, SavingForm
  <2> QED BY <2>8, <2>9, <2>10, TotpMoved
<1>2. CASE DismissTotp
  <2>1. totp # None /\ totp \in TotpItems BY <1>2, TotpTypes DEF DismissTotp
  <2>2. PICK q : q = [totp EXCEPT !.dismissed = TRUE, !.loaded = FALSE]
    OBVIOUS
  <2>3. q = [id |-> totp.id, doc |-> totp.doc, what |-> totp.what, seq |-> totp.seq,
             session |-> totp.session, scope |-> totp.scope, read |-> totp.read,
             loaded |-> FALSE, loading |-> totp.loading, saving |-> totp.saving,
             dismissed |-> TRUE]
    BY <2>1, <2>2 DEF TotpItems
  <2>4. q \in TotpItems /\ TotpSound(q) BY <2>1, <2>3 DEF TotpItems, TotpSound
  <2>5. totp' = q /\ UNCHANGED <<page, heardVars, truns, tcount>>
    BY <1>2, <2>2 DEF DismissTotp
  <2>6. RunsKept BY <2>5, TotpEnds DEF TSlots
  <2> QED BY <2>4, <2>5, <2>6, TotpMoved, TotpTypes
<1>3. CASE TotpExpires
  BY <1>3, TotpEnds, TotpMoved, TotpTypes DEF TotpExpires, TSlots
<1>4. ASSUME NEW s \in TSlots, truns[s] # None, NEW b \in BOOLEAN,
             SaveAuthorizes(s, b) \/ SaveEnds(s, b)
      PROVE  TotpInv'
  BY <1>4, TotpTypes, TotpEnds, TotpGoes, UnsavingForm, TotpMoved DEF SaveAuthorizes, SaveEnds
<1> QED BY <1>1, <1>2, <1>3, <1>4

(* The tab, its ports and the session. *)
LEMMA TotpWorld ==
    ASSUME TotpInv, PageTyped', InOrder', seq' \in Nat, UNCHANGED <<carried, truns, tcount>>,
           heard' \in {heard, Nothing}, totp' \in {totp, None},
           heard' = heard => Reached(heard)', Reached(carried)'
    PROVE  TotpInv'
BY TotpTypes DEF Nothing, Numbers, TotpTyped, Reached, InOrder, PageTyped, TotpInv, TotpIsSound,
   ObservationsInOrder, TargetsAreOfScope

LEMMA TotpEvents ==
    ASSUME TotpInv,
           \/ TotpSession \/ TotpUpdated \/ TotpNavigates
           \/ \E d \in tab.open \cup {tab.doc - 1, tab.doc} : TotpConnects(d) \/ TotpLeaves(d)
           \/ UNCHANGED <<page, totpVars>>
    PROVE  TotpInv'
<1>1. /\ PageTyped /\ InOrder /\ seq \in Nat /\ Reached(heard) /\ Reached(carried)
      /\ heard \in Numbers /\ carried \in Numbers
  BY TotpTypes DEF TotpInv
<1>2. tab \in [doc : Nat, port : Nat, seen : Nat, open : SUBSET Nat]
  BY <1>1 DEF PageTyped
<1>3. ASSUME PageTyped', tab' = tab, seq' = seq, UNCHANGED <<carried, truns, tcount>>,
             heard' \in {heard, Nothing}, totp' \in {totp, None}
      PROVE  TotpInv'
  BY <1>1, <1>3, TotpWorld DEF InOrder, Reached
<1>4. CASE TotpSession BY <1>1, <1>4, SessKept, <1>3 DEF TotpSession
<1>5. CASE TotpUpdated BY <1>1, <1>5, <1>3 DEF TotpUpdated, Updates, PageTyped
<1>6. CASE UNCHANGED <<page, totpVars>>
  BY <1>1, <1>6, <1>3 DEF page, PageTyped, totpVars
<1>7. CASE TotpNavigates
  BY <1>1, <1>7, NavigatesForm, <1>2, TotpWorld DEF TotpNavigates, InOrder, totpVars, Reached
<1>8. ASSUME NEW d \in tab.open \cup {tab.doc - 1, tab.doc}, TotpConnects(d)
      PROVE  TotpInv'
  <2>1. Connects(d) /\ UNCHANGED <<heard, carried, totp, truns, tcount>>
        /\ seq' = (IF d = tab.seen THEN seq ELSE 0)
    BY <1>8 DEF TotpConnects
  <2>2. d \in Nat BY <1>1, <2>1, DocTyped
  <2>3. /\ PageTyped' /\ tab'.doc = tab.doc /\ tab'.port = d /\ tab'.seen = d
        /\ tab'.open = tab.open \cup {d}
    BY <1>1, <2>1, <2>2, ConnectsForm
  <2>4. d >= tab.seen /\ d <= tab.doc /\ d # 0
    BY <1>1, <1>2, <1>8, <2>1, <2>2 DEF Connects, InOrder
  <2>5. InOrder' BY <1>1, <1>2, <2>2, <2>3, <2>4 DEF InOrder
  <2>6. seq' \in Nat BY <1>1, <2>1
  <2>7. Reached(heard)' /\ Reached(carried)'
    BY <1>1, <1>2, <2>1, <2>2, <2>3, <2>4 DEF Reached, Numbers
  <2> QED BY <2>1, <2>3, <2>5, <2>6, <2>7, TotpWorld
<1>9. ASSUME NEW d \in tab.open \cup {tab.doc - 1, tab.doc}, TotpLeaves(d)
      PROVE  TotpInv'
  BY <1>9, <1>1, DocTyped, LeavesForm, <1>2, TotpWorld DEF TotpLeaves, heardVars, InOrder, Reached
<1> QED BY <1>4, <1>5, <1>6, <1>7, <1>8, <1>9

LEMMA TotpStarts == PageInit /\ TotpInit => TotpInv
BY PageStarts DEF PageInit, InOrder, TotpInit, TotpTyped, Nothing, Numbers, Reached, TotpIsSound,
   ObservationsInOrder, TargetsAreOfScope, TotpInv

(* The invariant holds, of any configurations, entries and page numbers.     *)
THEOREM TotpInvariant == TotpSpec => []TotpInv
<1>1. PageInit /\ TotpInit => TotpInv BY TotpStarts
<1>2. TotpInv /\ [TotpNext]_<<page, totpVars>> => TotpInv'
  BY PageIsHeard, TotpReviewed, TotpSaved, PageIsChecked, PageIsKept, TotpEvents DEF TotpNext
<1> QED BY <1>1, <1>2, PTL DEF TotpSpec

(* What the page showed before it said that there is nothing is never kept,  *)
(* however late the worker's checks of it end, and the targets offered are   *)
(* those of the entry under review.                                          *)
THEOREM TotpSoundAlways == TotpSpec => []TotpIsSound
<1>1. TotpInv => TotpIsSound BY DEF TotpInv
<1> QED BY <1>1, TotpInvariant, PTL

-----------------------------------------------------------------------------
(* Sign-in flows: what a step may make of the flow of a tab, in the same     *)
(* session.                                                                  *)

(* A flow of its own: of one provider, of the account that is signed in, in  *)
(* the order of a sign-in.                                                   *)
FlowFine(g, s) ==
    /\ g \in Flows /\ g.id <= fcount
    /\ OfUser(g.chosen) /\ OfUser(g.prompt)
    /\ g.used # None => g.used.provider = g.provider
    /\ g.prompt # None => g.phase = "returned" /\ g.prompt.provider = g.provider
    /\ g.popups # {} => g.phase = "provider" /\ s \notin g.popups
(* A new one, or the one that was there: a return is not undone.             *)
FlowGoes(g, s) ==
    \/ g.id = fcount
    \/ /\ flows[s] # None /\ g.id = flows[s].id
       /\ flows[s].phase = "returned" =>
            g.phase = "returned" /\ g.provider = flows[s].provider
FlowGood(g, s) == g = None \/ (FlowFine(g, s) /\ FlowGoes(g, s))
(* It gains no popup.                                                        *)
FlowSmall(g, s) ==
    g = None \/ g.popups = {} \/ (flows[s] # None /\ g.popups \subseteq flows[s].popups)

AllGood(f) == /\ f \in [Tabs -> Flows \cup {None}]
              /\ \A s \in Tabs : FlowGood(f[s], s)
AllSmall(f) == \A s \in Tabs : FlowSmall(f[s], s)
Disjoint(f) ==
    \A s, t \in Tabs : s # t /\ f[s] # None /\ f[t] # None => f[s].popups \cap f[t].popups = {}
RunFits(r, f, n) ==
    r.kind \notin {"suggest", "fill"} =>
        /\ r.flow < n
        /\ f[r.tab] # None /\ f[r.tab].id = r.flow =>
             f[r.tab].phase = "returned" /\ f[r.tab].provider = r.provider

LEMMA FlowTypes ==
    ASSUME FlowInv
    PROVE  /\ PageTyped /\ FlowTyped /\ AllGood(flows) /\ AllSmall(flows) /\ Disjoint(flows)
           /\ \A t \in Tabs : flows[t] # None => flows[t] \in Flows /\ FlowFine(flows[t], t)
           /\ \A t \in Tabs : docs[t] \in [n : Nat, site : Sites \cup {None},
                                           provider : Providers \cup {None}]
           /\ \A s \in FSlots : fruns[s] # None =>
                fruns[s] \in FlowRuns /\ RunOwned(fruns[s]) /\ RunFits(fruns[s], flows, fcount)
           /\ \A t \in Tabs : offers[t] # None => offers[t] \in Offers
           /\ fcount \in Nat /\ 0 \notin Tabs
<1>1. FlowTyped /\ PageTyped BY DEF FlowInv, FlowTyped
<1>2. \A t \in Tabs : flows[t] # None => flows[t] \in Flows /\ FlowFine(flows[t], t)
  BY <1>1 DEF FlowInv, FlowTyped, FlowsAreConsistent, FlowFine
<1>3. AllGood(flows) /\ AllSmall(flows)
  BY <1>1, <1>2 DEF AllGood, AllSmall, FlowGood, FlowGoes, FlowSmall, FlowTyped
<1>4. Disjoint(flows) BY DEF FlowInv, FlowsAreConsistent, Disjoint
<1>5. \A s \in FSlots : fruns[s] # None =>
        fruns[s] \in FlowRuns /\ RunOwned(fruns[s]) /\ RunFits(fruns[s], flows, fcount)
  BY <1>1 DEF FlowInv, FlowTyped, RunOfFlow, RunFits, SameFlow
<1> QED BY <1>1, <1>2, <1>3, <1>4, <1>5, SignInAssumption DEF FlowTyped

(* A step within a session. *)
LEMMA FlowMoved ==
    ASSUME FlowInv, UNCHANGED page, fcount' \in Nat, fcount' >= fcount,
           docs' \in [Tabs -> [n : Nat, site : Sites \cup {None},
                               provider : Providers \cup {None}]],
           origin' \in [Tabs -> Sites \cup {None}], known' \subseteq Tabs,
           mutes' \subseteq Sites \cup {None},
           AllGood(flows'), Disjoint(flows'),
           offers' \in [Tabs -> Offers \cup {None}],
           \A t \in Tabs : offers'[t] # None /\ offers'[t].told => OfUser(offers'[t]),
           fruns' \in [FSlots -> FlowRuns \cup {None}],
           \A s \in FSlots : fruns'[s] # None =>
             RunOwned(fruns'[s]) /\ RunFits(fruns'[s], flows', fcount')
    PROVE  FlowInv'
<1>1. FlowTyped' BY FlowTypes DEF FlowTyped, AllGood, page, PageTyped
<1>2. sess' = sess BY DEF page
<1>3. \A s \in FSlots : fruns'[s] # None => RunOwned(fruns[s])' /\ RunOfFlow(fruns[s])'
  BY <1>2 DEF RunOwned, Generation, RunOfFlow, RunFits, SameFlow, SignedIn
<1>4. ASSUME NEW t \in Tabs, flows'[t] # None
      PROVE  /\ flows'[t].id <= fcount'
             /\ OfUser(flows[t].chosen)' /\ OfUser(flows[t].prompt)'
  BY <1>4, FlowTypes, <1>2 DEF AllGood, FlowGood, FlowFine, Flows, OfUser, SignedIn
<1>5. ASSUME NEW t \in Tabs, offers'[t] # None, offers'[t].told PROVE OfUser(offers[t])'
  BY <1>2, <1>5 DEF OfUser, SignedIn
<1>6. FlowsAreConsistent'
  BY DEF AllGood, FlowGood, FlowFine, Disjoint, Owners, FlowsAreConsistent
<1> QED BY <1>1, <1>3, <1>4, <1>5, <1>6 DEF FlowInv

(* A run begun before fits what a flow has become. *)
LEMMA RunStays ==
    ASSUME FlowInv, NEW f, AllGood(f), NEW n \in Nat, n >= fcount, NEW r \in FlowRuns,
           RunFits(r, flows, fcount)
    PROVE  RunFits(r, f, n)
BY FlowTypes DEF FlowRuns, AllGood, RunFits, FlowGood, FlowGoes

LEMMA SmallDisjoint ==
    ASSUME FlowInv, NEW f, AllGood(f), AllSmall(f) PROVE Disjoint(f)
BY FlowTypes DEF Disjoint, AllSmall, FlowSmall

-----------------------------------------------------------------------------
(* What the operators of the flows keep. *)

LEMMA FlowPut ==
    ASSUME FlowInv, NEW f, AllGood(f), NEW s \in Tabs, NEW g, FlowGood(g, s)
    PROVE  /\ AllGood([f EXCEPT ![s] = g])
           /\ AllSmall(f) /\ FlowSmall(g, s) => AllSmall([f EXCEPT ![s] = g])
BY DEF FlowGood, FlowFine, AllGood, AllSmall

LEMMA FlowDropped ==
    ASSUME FlowInv, NEW f, AllGood(f), NEW s \in Tabs
    PROVE  /\ AllGood([f EXCEPT ![s] = None])
           /\ AllSmall(f) => AllSmall([f EXCEPT ![s] = None])
BY FlowPut DEF FlowGood, FlowSmall

LEMMA FlowReturned ==
    ASSUME FlowInv, NEW f, AllGood(f), NEW s \in Tabs, f[s] # None, f[s].phase = "provider"
    PROVE  /\ AllGood(Returned(f, s))
           /\ AllSmall(f) => AllSmall(Returned(f, s))
<1>1. PICK g : g = [f[s] EXCEPT !.phase = "returned", !.popups = {}] OBVIOUS
<1>2. f[s] \in Flows /\ FlowFine(f[s], s) /\ FlowGoes(f[s], s)
  BY DEF AllGood, FlowGood, FlowFine
<1>3. g = [id |-> f[s].id, site |-> f[s].site, popups |-> {}, provider |-> f[s].provider,
           phase |-> "returned", used |-> f[s].used, chosen |-> f[s].chosen,
           prompt |-> f[s].prompt, building |-> f[s].building]
  BY <1>1, <1>2 DEF Flows
<1>4. g \in Flows BY <1>2, <1>3 DEF Flows
<1>5. FlowFine(g, s) BY <1>2, <1>3, <1>4 DEF FlowFine
<1>6. FlowGoes(g, s) /\ FlowSmall(g, s) BY <1>2, <1>3 DEF FlowGoes, FlowSmall
<1>7. Returned(f, s) = [f EXCEPT ![s] = None] \/ Returned(f, s) = [f EXCEPT ![s] = g]
  BY <1>1 DEF Returned
<1>8. AllGood([f EXCEPT ![s] = g]) /\ (AllSmall(f) => AllSmall([f EXCEPT ![s] = g]))
  BY <1>5, <1>6, FlowPut DEF FlowGood
<1> QED BY <1>7, <1>8, FlowDropped

LEMMA FlowLeft ==
    ASSUME FlowInv, NEW f, AllGood(f), AllSmall(f), NEW s \in Tabs, f[s] # None, NEW t
    PROVE  /\ AllGood([f EXCEPT ![s].popups = @ \ {t}])
           /\ AllSmall([f EXCEPT ![s].popups = @ \ {t}])
<1>1. PICK g : g = [f[s] EXCEPT !.popups = @ \ {t}] OBVIOUS
<1>2. f[s] \in Flows /\ FlowFine(f[s], s) /\ FlowGoes(f[s], s) /\ FlowSmall(f[s], s)
  BY DEF AllGood, AllSmall, FlowGood, FlowFine
<1>3. g = [id |-> f[s].id, site |-> f[s].site, popups |-> f[s].popups \ {t},
           provider |-> f[s].provider, phase |-> f[s].phase, used |-> f[s].used,
           chosen |-> f[s].chosen, prompt |-> f[s].prompt, building |-> f[s].building]
  BY <1>1, <1>2 DEF Flows
<1>4. g \in Flows BY <1>2, <1>3 DEF Flows
<1>5. FlowFine(g, s) BY <1>2, <1>3, <1>4 DEF FlowFine
<1>6. FlowGoes(g, s) /\ FlowSmall(g, s) BY <1>2, <1>3 DEF FlowGoes, FlowSmall
<1>7. [f EXCEPT ![s].popups = @ \ {t}] = [f EXCEPT ![s] = g] BY <1>1
<1> QED BY <1>5, <1>6, <1>7, FlowPut DEF FlowGood

LEMMA FlowStarted ==
    ASSUME FlowInv, NEW t \in Tabs, NEW x \in Sites \cup {None}
    PROVE  /\ AllGood(Started(t, x)) /\ AllSmall(Started(t, x))
           /\ Started(t, x)[t] \in Flows /\ Started(t, x)[t].phase # "returned"
<1>1. CASE Active(t) /\ flows[t].site = x
  BY <1>1, FlowTypes DEF Started, Active
<1>2. CASE ~(Active(t) /\ flows[t].site = x)
  <2>1. PICK g : g = Flow(x) OBVIOUS
  <2>2. g \in Flows /\ g.phase = "started" /\ g.id = fcount /\ g.popups = {}
        /\ g.used = None /\ g.chosen = None /\ g.prompt = None
    BY <2>1, FlowTypes DEF Flow, Flows
  <2>3. FlowGood(g, t) /\ FlowSmall(g, t)
    BY <2>2, FlowTypes DEF FlowGood, FlowFine, FlowGoes, FlowSmall, OfUser
  <2>4. Started(t, x) = [flows EXCEPT ![t] = g] BY <1>2, <2>1 DEF Started
  <2>5. AllGood([flows EXCEPT ![t] = g]) /\ AllSmall([flows EXCEPT ![t] = g])
    BY <2>3, FlowPut, FlowTypes
  <2>6. [flows EXCEPT ![t] = g][t] = g BY FlowTypes DEF FlowTyped
  <2> QED BY <2>2, <2>4, <2>5, <2>6
<1> QED BY <1>1, <1>2

-----------------------------------------------------------------------------
(* Sign-in flows: what documents do to them. *)

LEMMA OwnerIs ==
    ASSUME FlowInv, NEW t
    PROVE  /\ Owner(t) # 0 => /\ Owner(t) \in Tabs /\ flows[Owner(t)] # None
                              /\ t \in flows[Owner(t)].popups
                              /\ flows[Owner(t)].phase = "provider" /\ Owner(t) # t
           /\ Owner(t) = 0 => Owners(t) = {}
BY FlowTypes DEF Owner, Owners, FlowFine

(* A provider's document links the tab to the flow of its service. *)
LEMMA FlowLinked ==
    ASSUME FlowInv, NEW f, AllGood(f), AllSmall(f), NEW s \in Tabs, NEW t \in Tabs,
           f[s] # None, f[s].phase # "returned", NEW p \in Providers,
           Owner(t) \in {0, s}
    PROVE  LET h == [f EXCEPT ![s] = Linked(f[s], p, {t} \ {s})]
           IN AllGood(h) /\ Disjoint(h)
<1>1. f[s] \in Flows /\ FlowFine(f[s], s) /\ FlowGoes(f[s], s) /\ FlowSmall(f[s], s)
  BY DEF AllGood, AllSmall, FlowGood, FlowFine
<1>2. PICK b : b = Switched(f[s], p) OBVIOUS
<1>3. PICK used : used = IF f[s].provider # p THEN None ELSE f[s].used OBVIOUS
<1>4. b = [id |-> f[s].id, site |-> f[s].site, popups |-> f[s].popups,
           provider |-> p, phase |-> "provider", used |-> used,
           chosen |-> f[s].chosen, prompt |-> f[s].prompt, building |-> f[s].building]
  BY <1>2, <1>3, <1>1 DEF Switched, Flows
<1>5. PICK pops : pops = f[s].popups \cup ({t} \ {s}) OBVIOUS
<1>6. PICK g : g = [b EXCEPT !.popups = pops] OBVIOUS
<1>7. g = [id |-> f[s].id, site |-> f[s].site, popups |-> pops,
           provider |-> p, phase |-> "provider", used |-> used,
           chosen |-> f[s].chosen, prompt |-> f[s].prompt, building |-> f[s].building]
  BY <1>4, <1>6
<1>8. pops \in SUBSET Tabs /\ used \in Accounts \cup {None}
  BY <1>1, <1>3, <1>5 DEF Flows
<1>9. g \in Flows BY <1>1, <1>7, <1>8 DEF Flows
<1>10. (used # None => used.provider = p) /\ f[s].prompt = None
       /\ s \notin pops
  BY <1>1, <1>3, <1>5 DEF FlowFine
<1>11. FlowFine(g, s) BY <1>1, <1>7, <1>9, <1>10 DEF FlowFine
<1>12. FlowGoes(g, s) BY <1>1, <1>7 DEF FlowGoes
<1>13. PICK h : h = [f EXCEPT ![s] = g] OBVIOUS
<1>14. h = [f EXCEPT ![s] = Linked(f[s], p, {t} \ {s})]
  BY <1>2, <1>5, <1>6, <1>13 DEF Linked
<1>15. AllGood(h) BY <1>11, <1>12, <1>13, FlowPut DEF FlowGood
<1>16. Disjoint(h)
  BY SmallDisjoint, <1>13, OwnerIs, FlowTypes, <1>5, <1>7 DEF AllGood, Disjoint, AllSmall,
     FlowSmall, Owners
<1> QED BY <1>14, <1>15, <1>16

LEMMA FlowProvider ==
    ASSUME FlowInv, NEW t \in Tabs, NEW pg, pg.provider \in Providers,
           pg.asks \in BOOLEAN, NEW o \in Tabs \cup {0}, ProviderDocument(t, pg, o)
    PROVE  AllGood(flows') /\ Disjoint(flows')
<1>1. PICK s : s = ServiceOf(t, o, pg.asks) OBVIOUS
<1>2. AllGood(flows) /\ AllSmall(flows) /\ Disjoint(flows) /\ 0 \notin Tabs
  BY FlowTypes
<1>3. CASE flows' = flows BY <1>2, <1>3
<1>4. ASSUME s # 0, ~(~pg.asks /\ flows[s].provider # pg.provider)
      PROVE  AllGood(flows') /\ Disjoint(flows')
  <2>1. s \in Tabs /\ Owner(t) \in {0, s} BY <1>1, <1>4, OwnerIs DEF ServiceOf
  <2>2. Owner(t) # 0 => s = Owner(t) BY <1>1 DEF ServiceOf
  <2>4. PICK f : f = IF Owner(t) # 0 \/ Active(s) THEN flows ELSE Started(s, origin[s])
    OBVIOUS
  <2>5. AllGood(f) /\ AllSmall(f) /\ f[s] # None /\ f[s].phase # "returned"
    BY <1>2, <2>2, <2>4, OwnerIs, <2>1, FlowTypes, FlowStarted, NoneIsNoFlow DEF Active, FlowTyped
  <2>6. flows' = [f EXCEPT ![s] = Linked(f[s], pg.provider, {t} \ {s})]
    BY <1>1, <1>4, <2>4 DEF ProviderDocument
  <2> QED BY <2>1, <2>5, <2>6, FlowLinked
<1> QED BY <1>1, <1>3, <1>4 DEF ProviderDocument

(* A service's document ends its popup's flow, brings it back, or leaves it. *)
LEMMA FlowPopup ==
    ASSUME FlowInv, NEW t \in Tabs, NEW pg, NEW s, s = Owner(t), s # 0
    PROVE  AllGood(InPopup(t, pg, s)) /\ AllSmall(InPopup(t, pg, s))
BY OwnerIs, FlowTypes, FlowDropped, FlowReturned, FlowLeft DEF InPopup

LEMMA FlowInTab ==
    ASSUME FlowInv, NEW t \in Tabs, NEW pg, NEW f, AllGood(f), AllSmall(f)
    PROVE  AllGood(InTab(t, pg, f)) /\ AllSmall(InTab(t, pg, f))
BY FlowDropped, FlowReturned DEF InTab

LEMMA FlowService ==
    ASSUME FlowInv, NEW t \in Tabs, NEW pg, pg.site \in Sites \cup {None},
           ServiceDocument(t, pg)
    PROVE  /\ AllGood(flows') /\ Disjoint(flows')
           /\ origin' \in [Tabs -> Sites \cup {None}]
<1>1. PICK s : s = Owner(t) OBVIOUS
<1>2. PICK f : f = IF s \in {0, t} THEN flows ELSE InPopup(t, pg, s) OBVIOUS
<1>3. AllGood(f) /\ AllSmall(f) BY <1>1, <1>2, FlowTypes, FlowPopup
<1>4. flows' = f \/ flows' = InTab(t, pg, f) BY <1>1, <1>2 DEF ServiceDocument
<1>5. AllGood(flows') /\ AllSmall(flows') BY <1>3, <1>4, FlowInTab
<1>6. origin' = origin \/ origin' = [origin EXCEPT ![t] = pg.site]
  BY DEF ServiceDocument
<1>7. origin' \in [Tabs -> Sites \cup {None}] BY <1>6, FlowTypes DEF FlowTyped
<1> QED BY <1>5, <1>7, SmallDisjoint

(* The runs and the offers of before, while flows move. *)
LEMMA FlowOnly ==
    ASSUME FlowInv, UNCHANGED page, fcount' \in Nat, fcount' >= fcount,
           docs' \in [Tabs -> [n : Nat, site : Sites \cup {None},
                               provider : Providers \cup {None}]],
           origin' \in [Tabs -> Sites \cup {None}], known' \subseteq Tabs,
           mutes' \subseteq Sites \cup {None}, AllGood(flows'), Disjoint(flows'),
           NEW t \in Tabs, offers' = offers \/ offers' = [offers EXCEPT ![t] = None],
           NEW s \in FSlots, fruns' = fruns \/ FEnds(s)
    PROVE  FlowInv'
<1>1. /\ offers' \in [Tabs -> Offers \cup {None}]
      /\ \A u \in Tabs : offers'[u] = offers[u] \/ offers'[u] = None
  BY FlowTypes DEF FlowTyped
<1>2. \A u \in Tabs : offers'[u] # None /\ offers'[u].told => OfUser(offers'[u])
  BY <1>1 DEF FlowInv
<1>3. /\ fruns' \in [FSlots -> FlowRuns \cup {None}]
      /\ \A u \in FSlots : fruns'[u] = fruns[u] \/ fruns'[u] = None
  BY FlowTypes DEF FlowTyped, FEnds
<1>4. ASSUME NEW u \in FSlots, fruns'[u] # None
      PROVE  RunOwned(fruns'[u]) /\ RunFits(fruns'[u], flows', fcount')
  <2>1. PICK r \in FlowRuns : r = fruns[u] /\ r = fruns'[u]
    BY <1>3, <1>4, FlowTypes
  <2>2. RunOwned(r) /\ RunFits(r, flows, fcount)
    BY <1>3, <1>4, <2>1, FlowTypes
  <2>3. RunFits(r, flows', fcount') BY <2>2, RunStays
  <2> QED BY <2>1, <2>2, <2>3
<1> QED BY <1>1, <1>2, <1>3, <1>4, FlowMoved

LEMMA FlowDocuments ==
    ASSUME FlowInv, NEW t \in Tabs,
           \/ Closes(t)
           \/ \E pg \in Pages, o \in Tabs \cup {0} : Visits(t, pg, o)
    PROVE  FlowInv'
<1>1. docs[t] \in [n : Nat, site : Sites \cup {None}, provider : Providers \cup {None}]
      /\ fcount \in Nat /\ 1 \in FSlots /\ AllGood(flows) /\ AllSmall(flows)
  BY FlowTypes DEF FSlots
<1>2. ASSUME NEW pg \in Pages, NEW o \in Tabs \cup {0}, Visits(t, pg, o)
      PROVE  FlowInv'
  <2>1. /\ pg.site \in Sites \cup {None} /\ pg.provider \in Providers \cup {None}
        /\ pg.asks \in BOOLEAN
        /\ pg.provider # None => pg.provider \in Providers
    <3>1. ASSUME NEW x \in Sites \cup {None}, NEW e \in BOOLEAN, pg = Site(x, e)
          PROVE  pg.site \in Sites \cup {None} /\ pg.provider = None /\ pg.asks = FALSE
      BY <3>1 DEF Site
    <3>2. ASSUME NEW p \in Providers, NEW a \in BOOLEAN, pg = Provider(p, a)
          PROVE  pg.site = None /\ pg.provider \in Providers /\ pg.asks \in BOOLEAN
      BY <3>2 DEF Provider
    <3>3. \/ \E x \in Sites \cup {None}, e \in BOOLEAN : pg = Site(x, e)
          \/ \E p \in Providers, a \in BOOLEAN : pg = Provider(p, a)
      BY DEF Pages
    <3>4. \/ pg.site \in Sites \cup {None} /\ pg.provider = None /\ pg.asks = FALSE
          \/ pg.site = None /\ pg.provider \in Providers /\ pg.asks \in BOOLEAN
      BY <3>1, <3>2, <3>3
    <3> QED BY <3>4
  <2>2. docs' = [docs EXCEPT ![t] = [n |-> docs[t].n + 1, site |-> pg.site,
                                     provider |-> pg.provider]]
    BY <1>2 DEF Visits
  <2>3. docs' \in [Tabs -> [n : Nat, site : Sites \cup {None},
                            provider : Providers \cup {None}]]
    BY <1>1, <2>1, <2>2, FlowTypes DEF FlowTyped
  <2>4. AllGood(flows') /\ Disjoint(flows') /\ origin' \in [Tabs -> Sites \cup {None}]
    <3>1. CASE pg.provider = None
      BY <1>2, <2>1, <3>1, FlowService DEF Visits
    <3>2. CASE pg.provider # None /\ ProviderDocument(t, pg, o)
      BY <1>2, <2>1, <3>2, FlowProvider, FlowTypes DEF Visits, FlowTyped
    <3>3. CASE pg.provider # None /\ UNCHANGED flows
      BY <1>2, <3>3, FlowTypes DEF Visits, FlowTyped
    <3> QED BY <1>2, <3>1, <3>2, <3>3 DEF Visits
  <2>5. /\ UNCHANGED page /\ offers' = offers /\ fruns' = fruns /\ fcount' = fcount
        /\ mutes' \subseteq Sites \cup {None} /\ known' \subseteq Tabs
    BY <1>2, FlowTypes DEF Visits, FlowTyped
  <2> QED BY <1>1, <2>3, <2>4, <2>5, FlowOnly
<1>3. CASE Closes(t)
  <2>1. docs' = [docs EXCEPT ![t] = [n |-> docs[t].n + 1, site |-> None, provider |-> None]]
    BY <1>3 DEF Closes
  <2>2. docs' \in [Tabs -> [n : Nat, site : Sites \cup {None},
                            provider : Providers \cup {None}]]
    BY <1>1, <2>1, FlowTypes DEF FlowTyped
  <2>3. PICK s : s = Owner(t) OBVIOUS
  <2>4. PICK f : f = [flows EXCEPT ![t] = None] OBVIOUS
  <2>5. AllGood(f) /\ AllSmall(f) BY <1>1, <2>4, FlowDropped
  <2>6. AllGood(flows') /\ AllSmall(flows')
    <3>1. CASE s \in {0, t} BY <1>3, <2>3, <2>4, <2>5, <3>1 DEF Closes
    <3>2. CASE s \notin {0, t}
      <4>1. s \in Tabs /\ f[s] # None
        BY <2>3, <2>4, <3>2, OwnerIs, FlowTypes DEF FlowTyped
      <4>2. PICK g : g = [f EXCEPT ![s].popups = @ \ {t}] OBVIOUS
      <4>3. AllGood(g) /\ AllSmall(g) BY <2>5, <4>1, <4>2, FlowLeft
      <4>4. g[s].phase = "provider" /\ g[s] # None =>
              AllGood(Returned(g, s)) /\ AllSmall(Returned(g, s))
        BY <4>1, <4>3, FlowReturned
      <4>5. g[s] # None
        <5>1. f[s] \in Flows /\ f \in [Tabs -> Flows \cup {None}]
          BY <2>5, <4>1 DEF AllGood
        <5>2. PICK h : h = [f[s] EXCEPT !.popups = @ \ {t}] OBVIOUS
        <5>3. h \in Flows BY <5>1, <5>2 DEF Flows
        <5>4. g[s] = h BY <4>1, <4>2, <5>1, <5>2
        <5> QED BY <5>3, <5>4, NoneIsNoFlow
      <4>6. flows' = IF g[s].phase = "provider" /\ g[s].popups = {} THEN Returned(g, s)
                     ELSE g
        BY <1>3, <2>3, <2>4, <3>2, <4>2 DEF Closes
      <4> QED BY <4>3, <4>4, <4>5, <4>6
    <3> QED BY <3>1, <3>2
  <2>7. Disjoint(flows') BY <2>6, SmallDisjoint
  <2>8. /\ UNCHANGED page /\ fruns' = fruns /\ fcount' \in Nat /\ fcount' >= fcount
        /\ offers' = [offers EXCEPT ![t] = None]
        /\ origin' \in [Tabs -> Sites \cup {None}]
        /\ mutes' \subseteq Sites \cup {None} /\ known' \subseteq Tabs
    BY <1>1, <1>3, FlowTypes DEF Closes, FlowTyped
  <2> QED BY <1>1, <2>2, <2>6, <2>7, <2>8, FlowOnly
<1> QED BY <1>2, <1>3

-----------------------------------------------------------------------------
(* Sign-in flows: intents, suggestions and what Palladin fills. *)

(* A flow with one of its fields changed. *)
LEMMA FlowChosen ==
    ASSUME FlowInv, NEW f, AllGood(f), AllSmall(f), NEW t \in Tabs, f[t] \in Flows,
           NEW x \in Accounts, OfUser(x)
    PROVE  /\ AllGood([f EXCEPT ![t].chosen = x]) /\ AllSmall([f EXCEPT ![t].chosen = x])
<1>1. PICK g : g = [f[t] EXCEPT !.chosen = x] OBVIOUS
<1>2. f[t] # None /\ FlowFine(f[t], t) /\ FlowGoes(f[t], t) /\ FlowSmall(f[t], t)
  BY NoneIsNoFlow DEF AllGood, AllSmall, FlowGood
<1>3. g = [id |-> f[t].id, site |-> f[t].site, popups |-> f[t].popups,
           provider |-> f[t].provider, phase |-> f[t].phase, used |-> f[t].used,
           chosen |-> x, prompt |-> f[t].prompt, building |-> f[t].building]
  BY <1>1 DEF Flows
<1>4. g \in Flows BY <1>3 DEF Flows
<1>5. FlowFine(g, t) BY <1>2, <1>3, <1>4 DEF FlowFine
<1>6. FlowGoes(g, t) /\ FlowSmall(g, t) BY <1>2, <1>3 DEF FlowGoes, FlowSmall
<1>7. [f EXCEPT ![t].chosen = x] = [f EXCEPT ![t] = g] BY <1>1
<1> QED BY <1>5, <1>6, <1>7, FlowPut DEF FlowGood

LEMMA FlowFilled ==
    ASSUME FlowInv, NEW t \in Tabs, flows[t] # None, NEW x \in Accounts,
           x.provider = flows[t].provider
    PROVE  /\ AllGood([flows EXCEPT ![t].used = x]) /\ AllSmall([flows EXCEPT ![t].used = x])
<1>1. PICK g : g = [flows[t] EXCEPT !.used = x] OBVIOUS
<1>2. flows[t] \in Flows /\ FlowFine(flows[t], t) /\ AllGood(flows) /\ AllSmall(flows)
  BY FlowTypes
<1>3. g = [id |-> flows[t].id, site |-> flows[t].site, popups |-> flows[t].popups,
           provider |-> flows[t].provider, phase |-> flows[t].phase, used |-> x,
           chosen |-> flows[t].chosen, prompt |-> flows[t].prompt,
           building |-> flows[t].building]
  BY <1>1, <1>2 DEF Flows
<1>4. g \in Flows BY <1>2, <1>3 DEF Flows
<1>5. FlowFine(g, t) BY <1>2, <1>3, <1>4 DEF FlowFine
<1>6. FlowGoes(g, t) /\ FlowSmall(g, t) BY <1>3 DEF FlowGoes, FlowSmall
<1>7. [flows EXCEPT ![t].used = x] = [flows EXCEPT ![t] = g] BY <1>1
<1> QED BY <1>2, <1>5, <1>6, <1>7, FlowPut DEF FlowGood

(* The marks of a build. *)
LEMMA FlowBuilds ==
    ASSUME FlowInv, NEW t \in Tabs, flows[t] # None, NEW n \in Nat
    PROVE  LET f == [flows EXCEPT ![t].building = n] IN
           /\ AllGood(f) /\ AllSmall(f) /\ f[t] \in Flows
           /\ f[t].id = flows[t].id /\ f[t].phase = flows[t].phase
           /\ f[t].provider = flows[t].provider
<1>1. PICK g : g = [flows[t] EXCEPT !.building = n] OBVIOUS
<1>2. flows[t] \in Flows /\ FlowFine(flows[t], t) /\ AllGood(flows) /\ AllSmall(flows)
  BY FlowTypes
<1>3. g = [id |-> flows[t].id, site |-> flows[t].site, popups |-> flows[t].popups,
           provider |-> flows[t].provider, phase |-> flows[t].phase, used |-> flows[t].used,
           chosen |-> flows[t].chosen, prompt |-> flows[t].prompt, building |-> n]
  BY <1>1, <1>2 DEF Flows
<1>4. g \in Flows BY <1>2, <1>3 DEF Flows
<1>5. FlowFine(g, t) BY <1>2, <1>3, <1>4 DEF FlowFine
<1>6. FlowGoes(g, t) /\ FlowSmall(g, t) BY <1>3 DEF FlowGoes, FlowSmall
<1>7. PICK f : f = [flows EXCEPT ![t] = g] OBVIOUS
<1>8. f = [flows EXCEPT ![t].building = n] /\ f[t] = g
  BY <1>1, <1>2, <1>7 DEF AllGood
<1>9. AllGood(f) /\ AllSmall(f)
  BY <1>2, <1>5, <1>6, <1>7, FlowPut DEF FlowGood
<1> QED BY <1>3, <1>4, <1>8, <1>9

LEMMA FlowPrompted ==
    ASSUME FlowInv, NEW f, AllGood(f), AllSmall(f), NEW t \in Tabs, f[t] # None,
           NEW x \in Prompts \cup {None}, OfUser(x),
           x # None => f[t].phase = "returned" /\ x.provider = f[t].provider
    PROVE  /\ AllGood([f EXCEPT ![t].prompt = x]) /\ AllSmall([f EXCEPT ![t].prompt = x])
<1>1. PICK g : g = [f[t] EXCEPT !.prompt = x] OBVIOUS
<1>2. f[t] \in Flows /\ FlowFine(f[t], t) /\ FlowGoes(f[t], t) /\ FlowSmall(f[t], t)
  BY DEF AllGood, AllSmall, FlowGood, FlowFine
<1>3. g = [id |-> f[t].id, site |-> f[t].site, popups |-> f[t].popups,
           provider |-> f[t].provider, phase |-> f[t].phase, used |-> f[t].used,
           chosen |-> f[t].chosen, prompt |-> x, building |-> f[t].building]
  BY <1>1, <1>2 DEF Flows
<1>4. g \in Flows BY <1>2, <1>3 DEF Flows
<1>5. FlowFine(g, t) BY <1>2, <1>3, <1>4 DEF FlowFine
<1>6. FlowGoes(g, t) /\ FlowSmall(g, t) BY <1>2, <1>3 DEF FlowGoes, FlowSmall
<1>7. [f EXCEPT ![t].prompt = x] = [f EXCEPT ![t] = g] BY <1>1
<1> QED BY <1>5, <1>6, <1>7, FlowPut DEF FlowGood

LEMMA FlowIntents ==
    ASSUME FlowInv, NEW t \in Tabs,
           Intent(t) \/ Choose(t) \/ DismissFlow(t) \/ FlowExpires(t)
    PROVE  FlowInv'
<1>1. /\ docs[t].site \in Sites \cup {None} /\ fcount \in Nat /\ 1 \in FSlots
      /\ AllGood(flows) /\ AllSmall(flows)
  BY FlowTypes DEF FSlots
<1>2. /\ docs \in [Tabs -> [n : Nat, site : Sites \cup {None},
                            provider : Providers \cup {None}]]
      /\ origin \in [Tabs -> Sites \cup {None}] /\ known \subseteq Tabs
      /\ mutes \subseteq Sites \cup {None}
  BY FlowTypes DEF FlowTyped
<1>3. ASSUME AllGood(flows'), AllSmall(flows'), fcount' \in {fcount, fcount + 1},
             mutes' \subseteq Sites \cup {None},
             UNCHANGED <<page, docs, origin, known, offers, fruns>>
      PROVE  FlowInv'
  BY <1>1, <1>3, SmallDisjoint, <1>2, FlowOnly
<1>4. CASE Intent(t) BY <1>4, <1>1, FlowStarted, <1>2, <1>3 DEF Intent, Counts
<1>5. CASE Choose(t)
  <2>1. PICK f : f = Started(t, docs[t].site) OBVIOUS
  <2>2. PICK x : x = [provider |-> offers[t].provider, user |-> offers[t].user]
    OBVIOUS
  <2>3. offers[t] \in Offers /\ OfUser(offers[t]) /\ offers[t] # None
    BY <1>5, FlowTypes DEF Choose, FlowInv
  <2>4. x \in Accounts /\ OfUser(x) BY <2>2, <2>3 DEF Offers, Accounts, OfUser
  <2>5. AllGood(f) /\ AllSmall(f) /\ f[t] \in Flows BY <1>1, <2>1, FlowStarted
  <2>6. flows' = [f EXCEPT ![t].chosen = x] /\ fcount' = fcount + 1 /\ mutes' = mutes
        /\ UNCHANGED <<page, docs, origin, known, offers, fruns>>
    BY <1>5, <2>1, <2>2 DEF Choose, Counts
  <2>7. AllGood(flows') /\ AllSmall(flows') BY <2>4, <2>5, <2>6, FlowChosen
  <2> QED BY <1>2, <1>3, <2>6, <2>7
<1>6. CASE DismissFlow(t) \/ FlowExpires(t)
  <2>1. flows' = [flows EXCEPT ![t] = None] /\ fcount' = fcount
        /\ UNCHANGED <<page, docs, origin, known, offers, fruns>>
        /\ mutes' \in {mutes, mutes \cup {flows[t].site}} /\ flows[t] # None
    BY <1>6 DEF DismissFlow, FlowExpires
  <2>2. flows[t].site \in Sites \cup {None} BY <2>1, FlowTypes DEF Flows
  <2>3. AllGood(flows') /\ AllSmall(flows') BY <1>1, <2>1, FlowDropped
  <2>4. mutes' \subseteq Sites \cup {None} BY <1>2, <2>1, <2>2
  <2> QED BY <1>3, <2>1, <2>3, <2>4
<1> QED BY <1>4, <1>5, <1>6

-----------------------------------------------------------------------------
(* Sign-in flows: the operations that run. *)

(* A run is put in a place, and at most a mark of a build is set. *)
LEMMA FlowRuns1 ==
    ASSUME FlowInv, UNCHANGED <<page, docs, origin, known, offers, mutes>>,
           fcount' \in Nat, fcount' >= fcount, AllGood(flows'), AllSmall(flows'),
           NEW s \in FSlots, NEW r \in FlowRuns, fruns' = [fruns EXCEPT ![s] = r],
           RunOwned(r), RunFits(r, flows', fcount')
    PROVE  FlowInv'
<1>1. /\ docs' \in [Tabs -> [n : Nat, site : Sites \cup {None},
                             provider : Providers \cup {None}]]
      /\ origin' \in [Tabs -> Sites \cup {None}] /\ known' \subseteq Tabs
      /\ mutes' \subseteq Sites \cup {None}
      /\ offers' \in [Tabs -> Offers \cup {None}]
      /\ \A t \in Tabs : offers'[t] # None /\ offers'[t].told => OfUser(offers'[t])
  BY FlowTypes DEF FlowTyped, FlowInv
<1>2. /\ fruns' \in [FSlots -> FlowRuns \cup {None}] /\ fruns'[s] = r
      /\ \A u \in FSlots : u # s => fruns'[u] = fruns[u]
  BY FlowTypes DEF FlowTyped
<1>3. ASSUME NEW u \in FSlots, fruns'[u] # None
      PROVE  RunOwned(fruns'[u]) /\ RunFits(fruns'[u], flows', fcount')
  <2>1. CASE u = s BY <1>2, <2>1
  <2>2. CASE u # s
    <3>1. PICK q \in FlowRuns : q = fruns[u] /\ q = fruns'[u]
      BY <1>2, <1>3, <2>2, FlowTypes
    <3>2. RunOwned(q) /\ RunFits(q, flows, fcount)
      BY <1>2, <1>3, <2>2, <3>1, FlowTypes
    <3>3. RunFits(q, flows', fcount') BY <3>2, RunStays
    <3> QED BY <3>1, <3>2, <3>3
  <2> QED BY <2>1, <2>2
<1>4. Disjoint(flows') BY SmallDisjoint
<1> QED BY <1>1, <1>2, <1>3, <1>4, FlowMoved

LEMMA FlowPlace ==
    ASSUME FlowInv, NEW r, FBegins(r)
    PROVE  /\ fcount' = fcount + 1
           /\ \E s \in FSlots : fruns' = [fruns EXCEPT ![s] = r]
BY FlowTypes DEF FBegins, HasFree, FreeSlot, FlowTyped, Counts

(* The session's counts. *)
LEMMA Generations ==
    ASSUME PageTyped PROVE Generation \in Nat /\ sess.user \in Users \cup {None}
BY DEF PageTyped, Generation

(* What is built, of a flow that has returned and of whoever is signed in. *)
LEMMA BuildsTyped ==
    ASSUME FlowInv, NEW t \in Tabs, flows[t] # None, SignedIn, flows[t].phase = "returned"
    PROVE  \E r \in FlowRuns :
             /\ r = Builds(t) /\ r.kind = "build" /\ RunOwned(r) /\ r.tab = t
             /\ r.flow = flows[t].id /\ r.provider = flows[t].provider
<1>1. PICK o : o = FlowRun("build", t) OBVIOUS
<1>2. o = [kind |-> "build", tab |-> t, doc |-> docs[t].n, gen |-> Generation,
           user |-> sess.user, flow |-> 0, provider |-> None]
  BY <1>1 DEF FlowRun
<1>3. PICK r : r = [o EXCEPT !.flow = flows[t].id, !.provider = flows[t].provider]
  OBVIOUS
<1>4. r = [kind |-> "build", tab |-> t, doc |-> docs[t].n, gen |-> Generation,
           user |-> sess.user, flow |-> flows[t].id, provider |-> flows[t].provider]
  BY <1>2, <1>3
<1>5. /\ flows[t] \in Flows /\ docs[t].n \in Nat
      /\ Generation \in Nat /\ sess.user \in Users \cup {None}
  BY FlowTypes, Generations
<1>6. r \in FlowRuns BY <1>4, <1>5 DEF FlowRuns, Flows
<1>7. r = Builds(t) BY <1>1, <1>3 DEF Builds
<1>8. RunOwned(r) BY <1>4, <1>5 DEF RunOwned
<1> QED BY <1>4, <1>6, <1>7, <1>8

LEMMA FlowSuggests ==
    ASSUME FlowInv,
           \/ \E t \in Tabs : SuggestBegins(t) \/ \E p \in Providers : FillReads(t, p)
           \/ \E s \in FSlots : /\ fruns[s] # None
                                /\ \/ \E p \in Providers : Suggests(s, p)
                                   \/ SuggestFails(s)
    PROVE  FlowInv'
<1>1. /\ fcount \in Nat /\ AllGood(flows) /\ AllSmall(flows) /\ Disjoint(flows)
      /\ Generation \in Nat /\ sess.user \in Users \cup {None}
  BY FlowTypes, Generations
<1>2. /\ docs \in [Tabs -> [n : Nat, site : Sites \cup {None},
                            provider : Providers \cup {None}]]
      /\ origin \in [Tabs -> Sites \cup {None}] /\ known \subseteq Tabs
      /\ mutes \subseteq Sites \cup {None} /\ offers \in [Tabs -> Offers \cup {None}]
      /\ fruns \in [FSlots -> FlowRuns \cup {None}]
  BY FlowTypes DEF FlowTyped
<1>3. ASSUME NEW t \in Tabs, SuggestBegins(t) \/ \E p \in Providers : FillReads(t, p)
      PROVE  FlowInv'
  <2>1. PICK k \in {"suggest", "fill"}, p \in Providers \cup {None} :
          /\ FBegins([FlowRun(k, t) EXCEPT !.provider = p]) /\ SignedIn
          /\ UNCHANGED <<page, docs, flows, origin, known, offers, mutes>>
    <3>1. CASE SuggestBegins(t)
      <4>1. FlowRun("suggest", t) = [FlowRun("suggest", t) EXCEPT !.provider = None]
        BY DEF FlowRun
      <4> QED BY <3>1, <4>1 DEF SuggestBegins
    <3>2. CASE \E p \in Providers : FillReads(t, p) BY <3>2 DEF FillReads
    <3> QED BY <1>3, <3>1, <3>2
  <2>7. PICK r : r = [FlowRun(k, t) EXCEPT !.provider = p] OBVIOUS
  <2>8. r = [kind |-> k, tab |-> t, doc |-> docs[t].n, gen |-> Generation,
             user |-> sess.user, flow |-> 0, provider |-> p]
    BY <2>7 DEF FlowRun
  <2>2. r \in FlowRuns /\ r.kind = k /\ RunOwned(r)
    BY <1>1, <1>2, <2>1, <2>8 DEF FlowRuns, RunOwned
  <2>3. FBegins(r) /\ UNCHANGED <<page, docs, flows, origin, known, offers, mutes>>
    BY <2>1, <2>7
  <2>4. PICK s \in FSlots : fruns' = [fruns EXCEPT ![s] = r]
    BY <2>3, FlowPlace
  <2>5. fcount' \in Nat /\ fcount' >= fcount BY <1>1, <2>3, FlowPlace
  <2>6. AllGood(flows') /\ AllSmall(flows') /\ RunFits(r, flows', fcount')
    BY <1>1, <2>2, <2>3 DEF RunFits
  <2> QED BY <2>2, <2>3, <2>4, <2>5, <2>6, FlowRuns1
<1>4. ASSUME NEW s \in FSlots, fruns[s] # None, SuggestFails(s) PROVE FlowInv'
  BY <1>4, SignInAssumption, <1>1, <1>2, FlowOnly DEF SuggestFails
<1>5. ASSUME NEW s \in FSlots, fruns[s] # None, NEW p \in Providers, Suggests(s, p)
      PROVE  FlowInv'
  <2>1. PICK r \in FlowRuns : r = fruns[s] BY <1>5, FlowTypes
  <2>2. PICK told \in BOOLEAN : told = (r.gen = Generation) OBVIOUS
  <2>3. PICK o : o = [doc |-> r.doc, provider |-> p, user |-> sess.user, told |-> told]
    OBVIOUS
  <2>4. o \in Offers BY <1>1, <2>1, <2>3 DEF Offers, FlowRuns
  <2>5. SignedIn /\ OfUser(o) BY <1>5, <2>3 DEF Suggests, OfUser
  <2>6. /\ FEnds(s) /\ UNCHANGED <<page, docs, flows, origin, known, mutes, fcount>>
        /\ offers' = [offers EXCEPT ![r.tab] = o] /\ r.tab \in Tabs
    BY <1>5, <2>1, <2>2, <2>3 DEF Suggests, FlowRuns
  <2>7. /\ offers' \in [Tabs -> Offers \cup {None}] /\ offers'[r.tab] = o
        /\ \A t \in Tabs : t # r.tab => offers'[t] = offers[t]
    BY <1>2, <2>4, <2>6
  <2>8. \A t \in Tabs : offers'[t] # None /\ offers'[t].told => OfUser(offers'[t])
    BY <2>5, <2>7 DEF FlowInv
  <2>9. /\ fruns' \in [FSlots -> FlowRuns \cup {None}]
        /\ \A u \in FSlots : fruns'[u] = fruns[u] \/ fruns'[u] = None
    BY <1>2, <2>6 DEF FEnds
  <2>10. ASSUME NEW u \in FSlots, fruns'[u] # None
         PROVE  RunOwned(fruns'[u]) /\ RunFits(fruns'[u], flows', fcount')
    BY <2>6, <2>9, <2>10, FlowTypes
  <2>11. AllGood(flows') /\ Disjoint(flows') /\ fcount' \in Nat /\ fcount' >= fcount
    BY <1>1, <2>6
  <2> QED BY <1>2, <2>6, <2>7, <2>8, <2>9, <2>10, <2>11, FlowMoved
<1> QED BY <1>3, <1>4, <1>5

(* What was filled is noted, of the account it was read for.                 *)
LEMMA FlowNoted ==
    ASSUME FlowInv, NEW s \in FSlots, fruns[s] # None, Filled(s) PROVE FlowInv'
<1>1. /\ fcount \in Nat /\ AllGood(flows) /\ AllSmall(flows) /\ 1 \in Tabs
      /\ docs \in [Tabs -> [n : Nat, site : Sites \cup {None},
                            provider : Providers \cup {None}]]
      /\ origin \in [Tabs -> Sites \cup {None}] /\ known \subseteq Tabs
      /\ mutes \subseteq Sites \cup {None}
  BY FlowTypes, SignInAssumption DEF FlowTyped
<1>2. PICK r \in FlowRuns : r = fruns[s] BY FlowTypes
<1>3. PICK o : o = IF Owner(r.tab) # 0 THEN Owner(r.tab) ELSE r.tab OBVIOUS
<1>4. o \in Tabs BY <1>2, <1>3, OwnerIs DEF FlowRuns
<1>5. PICK x : x = [provider |-> r.provider, user |-> r.user] OBVIOUS
<1>6. x \in Accounts /\ x.provider = r.provider BY <1>2, <1>5 DEF Accounts, FlowRuns
<1>7. /\ FEnds(s) /\ UNCHANGED <<page, docs, origin, known, offers, mutes, fcount>>
      /\ \/ UNCHANGED flows
         \/ /\ flows[o] # None /\ flows[o].provider = r.provider
            /\ flows' = [flows EXCEPT ![o].used = x]
  BY <1>2, <1>3, <1>5 DEF Filled
<1>8. AllGood(flows') /\ AllSmall(flows') BY <1>1, <1>4, <1>6, <1>7, FlowFilled
<1> QED BY <1>1, <1>7, <1>8, SmallDisjoint, FlowOnly

(* A prompt is built of a flow that has returned, or a confirmation begins.  *)
LEMMA FlowPrompts ==
    ASSUME FlowInv, NEW t \in Tabs, PromptBegins(t) \/ FlowConfirmBegins(t)
    PROVE  FlowInv'
<1>1. /\ fcount \in Nat /\ AllGood(flows) /\ AllSmall(flows) /\ docs[t].n \in Nat
  BY FlowTypes
<1>2. flows[t] # None /\ SignedIn /\ flows[t].phase = "returned"
  BY DEF PromptBegins, FlowConfirmBegins, Back
<1>3. /\ flows[t] \in Flows /\ FlowFine(flows[t], t) BY <1>2, FlowTypes
<1>4. PICK b \in FlowRuns :
         /\ b = Builds(t) /\ b.kind = "build" /\ RunOwned(b) /\ b.tab = t
         /\ b.flow = flows[t].id /\ b.provider = flows[t].provider
  BY <1>2, BuildsTyped
<1>5. PICK r : r = IF PromptBegins(t) THEN b ELSE [b EXCEPT !.kind = "confirm"]
  OBVIOUS
<1>6. /\ r \in FlowRuns /\ r.tab = t /\ r.flow = flows[t].id
      /\ r.provider = flows[t].provider /\ r.gen = b.gen /\ r.user = b.user
  BY <1>4, <1>5 DEF FlowRuns
<1>7. RunOwned(r) BY <1>4, <1>6 DEF RunOwned
<1>8. FBegins(r) /\ UNCHANGED <<page, docs, origin, known, offers, mutes>>
  BY <1>4, <1>5 DEF PromptBegins, FlowConfirmBegins
<1>9. PICK s \in FSlots : fruns' = [fruns EXCEPT ![s] = r] BY <1>8, FlowPlace
<1>10. fcount' = fcount + 1 /\ fcount' \in Nat /\ fcount' >= fcount
  BY <1>1, <1>8, FlowPlace
<1>11. /\ AllGood(flows') /\ AllSmall(flows') /\ flows'[t].phase = "returned"
       /\ flows'[t].provider = flows[t].provider
  <2>1. CASE flows' = flows BY <1>1, <1>2, <2>1
  <2>2. CASE flows' = [flows EXCEPT ![t].building = docs[t].n]
    BY <1>1, <1>2, <2>2, FlowBuilds
  <2> QED BY <2>1, <2>2 DEF PromptBegins, FlowConfirmBegins
<1>12. r.flow < fcount' BY <1>1, <1>3, <1>6, <1>10 DEF FlowFine, Flows
<1>13. RunFits(r, flows', fcount') BY <1>6, <1>11, <1>12 DEF RunFits
<1> QED BY <1>6, <1>7, <1>8, <1>9, <1>10, <1>11, <1>13, FlowRuns1

LEMMA FlowBuilt ==
    ASSUME FlowInv, NEW s \in FSlots, fruns[s] # None,
           \/ PromptFails(s) \/ ConfirmSaved(s)
           \/ \E remembered \in BOOLEAN : PromptBuilt(s, remembered)
    PROVE  FlowInv'
<1>1. /\ fcount \in Nat /\ AllGood(flows) /\ AllSmall(flows) /\ 1 \in Tabs
      /\ docs \in [Tabs -> [n : Nat, site : Sites \cup {None},
                            provider : Providers \cup {None}]]
      /\ origin \in [Tabs -> Sites \cup {None}] /\ known \subseteq Tabs
      /\ mutes \subseteq Sites \cup {None}
  BY FlowTypes, SignInAssumption DEF FlowTyped
<1>2. PICK r \in FlowRuns : r = fruns[s] /\ RunOwned(r) /\ RunFits(r, flows, fcount)
  BY FlowTypes
<1>3. r.tab \in Tabs BY <1>2 DEF FlowRuns
<1>4. FEnds(s) /\ UNCHANGED <<page, docs, origin, known, offers, mutes, fcount>>
  BY DEF PromptFails, ConfirmSaved, PromptBuilt
<1>5. ASSUME AllGood(flows'), AllSmall(flows') PROVE FlowInv'
  BY <1>1, <1>4, <1>5, SmallDisjoint, FlowOnly
<1>6. PICK done : done = IF SameFlow(r) /\ flows[r.tab].building = r.doc
                         THEN [flows EXCEPT ![r.tab].building = 0] ELSE flows
  OBVIOUS
<1>7. /\ AllGood(done) /\ AllSmall(done)
      /\ SameFlow(r) => /\ done[r.tab] # None
                        /\ done[r.tab].phase = flows[r.tab].phase
                        /\ done[r.tab].provider = flows[r.tab].provider
  <2>1. CASE done = flows BY <1>1, <2>1 DEF SameFlow
  <2>2. CASE SameFlow(r) /\ done = [flows EXCEPT ![r.tab].building = 0]
    BY <1>3, <2>2, FlowBuilds, NoneIsNoFlow DEF SameFlow
  <2> QED BY <1>6, <2>1, <2>2
<1>8. AllGood([flows EXCEPT ![r.tab] = None]) /\ AllSmall([flows EXCEPT ![r.tab] = None])
      /\ AllGood([done EXCEPT ![r.tab] = None]) /\ AllSmall([done EXCEPT ![r.tab] = None])
  BY <1>1, <1>3, <1>7, FlowDropped
<1>9. CASE PromptFails(s) BY <1>2, <1>5, <1>6, <1>7, <1>9 DEF PromptFails
<1>10. CASE ConfirmSaved(s) BY <1>1, <1>2, <1>5, <1>8, <1>10 DEF ConfirmSaved
<1>11. ASSUME NEW remembered \in BOOLEAN, PromptBuilt(s, remembered) PROVE FlowInv'
  <2>1. CASE flows' = done \/ flows' = [done EXCEPT ![r.tab] = None]
    BY <1>5, <1>7, <1>8, <2>1
  <2>2. CASE /\ SameFlow(r) /\ r.gen = Generation
             /\ flows' = [done EXCEPT ![r.tab].prompt =
                           [id |-> fcount, doc |-> r.doc, provider |-> r.provider,
                            user |-> r.user]]
    <3>1. PICK x : x = [id |-> fcount, doc |-> r.doc, provider |-> r.provider,
                        user |-> r.user]
      OBVIOUS
    <3>2. x \in Prompts /\ x.provider = r.provider /\ x.user = r.user
      BY <1>1, <1>2, <3>1 DEF Prompts, FlowRuns
    <3>3. OfUser(x) BY <1>2, <2>2, <3>2 DEF RunOwned, OfUser
    <3>4. done[r.tab].phase = "returned" /\ done[r.tab].provider = x.provider
          /\ done[r.tab] # None
      BY <1>2, <1>7, <1>11, <2>2, <3>2 DEF RunFits, SameFlow, PromptBuilt
    <3>5. flows' = [done EXCEPT ![r.tab].prompt = x] BY <2>2, <3>1
    <3>6. AllGood(flows') /\ AllSmall(flows')
      BY <1>3, <1>7, <3>2, <3>3, <3>4, <3>5, FlowPrompted
    <3> QED BY <1>5, <3>6
  <2> QED BY <1>2, <1>6, <1>11, <2>1, <2>2 DEF PromptBuilt
<1> QED BY <1>9, <1>10, <1>11

LEMMA FlowConfirms ==
    ASSUME FlowInv, NEW s \in FSlots, fruns[s] # None, ConfirmSends(s) \/ ConfirmFailed(s)
    PROVE  FlowInv'
<1>1. /\ fcount \in Nat /\ AllGood(flows) /\ AllSmall(flows) /\ 1 \in Tabs
      /\ docs \in [Tabs -> [n : Nat, site : Sites \cup {None},
                            provider : Providers \cup {None}]]
      /\ origin \in [Tabs -> Sites \cup {None}] /\ known \subseteq Tabs
      /\ mutes \subseteq Sites \cup {None}
      /\ fruns \in [FSlots -> FlowRuns \cup {None}]
  BY FlowTypes, SignInAssumption DEF FlowTyped
<1>2. PICK r \in FlowRuns : r = fruns[s] /\ RunOwned(r) /\ RunFits(r, flows, fcount)
  BY FlowTypes
<1>3. PICK t \in Tabs : t = r.tab BY <1>2 DEF FlowRuns
<1>4. /\ UNCHANGED <<page, docs, origin, known, offers, mutes, fcount>>
      /\ fcount' \in Nat /\ fcount' >= fcount
  BY <1>1 DEF ConfirmSends, ConfirmFailed
<1>5. ASSUME AllGood(flows'), AllSmall(flows'), FEnds(s) PROVE FlowInv'
  BY <1>5, SmallDisjoint, <1>1, <1>4, FlowOnly
<1>6. CASE ConfirmSends(s)
  <2>1. r.kind = "confirm" /\ flows' = flows BY <1>2, <1>6 DEF ConfirmSends
  <2>2. PICK k \in {"sent", "failed"} : fruns' = [fruns EXCEPT ![s].kind = k]
    BY <1>6 DEF ConfirmSends
  <2>3. PICK q : q = [r EXCEPT !.kind = k] OBVIOUS
  <2>4. /\ q \in FlowRuns /\ q.gen = r.gen /\ q.user = r.user /\ q.flow = r.flow
        /\ q.tab = r.tab /\ q.provider = r.provider
    BY <2>2, <2>3 DEF FlowRuns
  <2>5. fruns' = [fruns EXCEPT ![s] = q] BY <1>1, <1>2, <2>2, <2>3
  <2>6. RunOwned(q) /\ RunFits(q, flows', fcount')
    BY <1>2, <1>4, <2>1, <2>4 DEF RunOwned, RunFits
  <2> QED BY <1>1, <1>4, <2>1, <2>4, <2>5, <2>6, FlowRuns1
<1>7. CASE ConfirmFailed(s)
  <2>1. r.kind \notin {"suggest", "fill"} BY <1>2, <1>7 DEF ConfirmFailed
  <2>2. CASE FEnds(s) /\ UNCHANGED flows BY <1>1, <1>5, <2>2
  <2>3. CASE SameFlow(r) /\ FEnds(s) /\ flows' = [flows EXCEPT ![t].prompt = None]
    BY <1>3, <2>3, <1>1, FlowPrompted, <1>5 DEF SameFlow, OfUser
  <2>4. CASE /\ SameFlow(r) /\ SignedIn
             /\ flows' = [flows EXCEPT ![t].prompt = None, ![t].building = docs[t].n]
             /\ fruns' = [fruns EXCEPT ![s] = Builds(t)]
    <3>1. flows[t] # None /\ flows[t].id = r.flow /\ flows[t].phase = "returned"
          /\ r.flow < fcount
      BY <1>2, <1>3, <2>1, <2>4 DEF SameFlow, RunFits
    <3>2. flows[t] \in Flows /\ FlowFine(flows[t], t) /\ docs[t].n \in Nat
      BY <3>1, FlowTypes
    <3>3. PICK g : g = [flows[t] EXCEPT !.prompt = None, !.building = docs[t].n]
      OBVIOUS
    <3>4. g = [id |-> flows[t].id, site |-> flows[t].site, popups |-> flows[t].popups,
               provider |-> flows[t].provider, phase |-> flows[t].phase,
               used |-> flows[t].used, chosen |-> flows[t].chosen, prompt |-> None,
               building |-> docs[t].n]
      BY <3>2, <3>3 DEF Flows
    <3>5. g \in Flows /\ OfUser(None) BY <3>2, <3>4 DEF Flows, OfUser
    <3>6. FlowFine(g, t) BY <3>2, <3>4, <3>5 DEF FlowFine
    <3>7. FlowGoes(g, t) /\ FlowSmall(g, t)
      BY <3>1, <3>4 DEF FlowGoes, FlowSmall
    <3>8. flows' = [flows EXCEPT ![t] = g] BY <1>1, <2>4, <3>3 DEF AllGood
    <3>9. AllGood(flows') /\ AllSmall(flows')
      BY <1>1, <3>6, <3>7, <3>8, FlowPut DEF FlowGood
    <3>10. flows'[t] = g BY <1>1, <3>8 DEF AllGood
    <3>11. PICK b \in FlowRuns :
             /\ b = Builds(t) /\ b.kind = "build" /\ RunOwned(b) /\ b.tab = t
             /\ b.flow = flows[t].id /\ b.provider = flows[t].provider
      BY <2>4, <3>1, BuildsTyped
    <3>12. RunFits(b, flows', fcount')
      BY <1>4, <3>1, <3>4, <3>10, <3>11 DEF RunFits
    <3>13. fruns' = [fruns EXCEPT ![s] = b] BY <2>4, <3>11
    <3> QED BY <1>4, <3>9, <3>11, <3>12, <3>13, FlowRuns1
  <2> QED BY <1>2, <1>3, <1>7, <2>2, <2>3, <2>4 DEF ConfirmFailed
<1> QED BY <1>6, <1>7

-----------------------------------------------------------------------------
(* Sign-in flows: the session, and the invariant. *)

(* A lock and an unlock leave every run behind, a termination keeps them and *)
(* the account; a lock clears the flows, and while nobody is signed in they  *)
(* know of nobody chosen or offered.                                         *)
LEMMA FlowHooks ==
    ASSUME FlowInv, FlowSession
    PROVE  FlowInv'
<1>1. /\ PageTyped /\ FlowTyped /\ AllGood(flows) /\ fcount \in Nat
      /\ sess \in [user : Users \cup {None}, unlocked : BOOLEAN, ending : BOOLEAN,
                   gen : Nat]
  BY FlowTypes DEF PageTyped
<1>2. UNCHANGED <<docs, origin, known, fruns, fcount>> BY DEF FlowSession
<1>3. PageTyped' /\ sess'.gen = sess.gen + 1 BY <1>1, SessKept DEF FlowSession
<1>7. /\ Generation \in Nat /\ Generation' \in Nat
      /\ \/ /\ Generation' = Generation /\ sess'.user = sess.user
            /\ SignedIn /\ SignedIn'
         \/ Generation' > Generation
  <2>1. Generation \in Nat /\ Generation' \in Nat
    BY <1>1, <1>3 DEF Generation, PageTyped
  <2>2. CASE Terminates BY <1>1, <2>1, <2>2 DEF Terminates, Generation, SignedIn
  <2>3. CASE \E out \in BOOLEAN : Locks(out) BY <1>1, <2>1, <2>3 DEF Locks, Generation
  <2>4. CASE \E u \in Users : Unlocks(u) BY <1>1, <2>1, <2>4 DEF Unlocks, Generation
  <2> QED BY <2>1, <2>2, <2>3, <2>4 DEF FlowSession
<1>4. ASSUME NEW s \in FSlots, fruns'[s] # None PROVE RunOwned(fruns[s])'
  <2>1. fruns'[s] = fruns[s] /\ fruns[s].gen \in Nat /\ RunOwned(fruns[s])
    BY <1>2, <1>4, FlowTypes DEF FlowRuns
  <2> QED BY <1>7, <2>1 DEF RunOwned
<1>5. CASE UNCHANGED <<flows, offers, mutes>> /\ (Terminates \/ \E u \in Users : Unlocks(u))
  <2>1. FlowTyped' BY <1>1, <1>2, <1>3, <1>5 DEF FlowTyped
  <2>2. ASSUME NEW s \in FSlots, fruns'[s] # None PROVE RunOfFlow(fruns[s])'
    BY <1>2, <1>5, <2>2 DEF FlowInv, RunOfFlow, SameFlow
  <2>3. ASSUME NEW x, OfUser(x) PROVE x # None => SignedIn' /\ x.user = sess'.user
    BY <1>1, <2>3, <1>5 DEF Terminates, OfUser, SignedIn, Unlocks
  <2>4. ASSUME NEW t \in Tabs, flows[t] # None
        PROVE  /\ flows'[t].id <= fcount'
               /\ OfUser(flows[t].chosen)' /\ OfUser(flows[t].prompt)'
    BY <2>4, <1>2, <1>5, <2>3 DEF FlowInv, OfUser
  <2>5. ASSUME NEW t \in Tabs, offers[t] # None, offers[t].told
        PROVE  OfUser(offers[t])'
    BY <1>5, <2>5, <2>3 DEF FlowInv, OfUser
  <2>6. FlowsAreConsistent' BY <1>5 DEF FlowInv, FlowsAreConsistent, Owners
  <2> QED BY <1>2, <1>4, <1>5, <2>1, <2>2, <2>4, <2>5, <2>6 DEF FlowInv
<1>6. CASE flows' = LeftByLock /\ offers' = [t \in Tabs |-> None] /\ mutes' = {}
  BY <1>6, <1>1, <1>2, <1>3, FlowTypes, <1>4 DEF LeftByLock, FlowTyped, FlowsAreConsistent, FlowInv,
     FlowRuns, RunOfFlow, SameFlow
<1> QED BY <1>5, <1>6 DEF FlowSession

LEMMA FlowStarts == PageInit /\ FlowInit => FlowInv
<1>1. SUFFICES ASSUME PageInit, FlowInit PROVE FlowInv OBVIOUS
<1>2. PageTyped BY <1>1, PageStarts
<1>3. PICK x \in Sites :
        /\ docs = [t \in Tabs |-> [n |-> 1, site |-> IF t = 1 THEN x ELSE None,
                                   provider |-> None]]
        /\ origin = [t \in Tabs |-> IF t = 1 THEN x ELSE None]
  BY <1>1 DEF FlowInit
<1>4. /\ \A t \in Tabs : flows[t] = None /\ offers[t] = None
      /\ \A s \in FSlots : fruns[s] = None
  BY <1>1 DEF FlowInit
<1>5. FlowTyped BY <1>1, <1>2, <1>3, SignInAssumption DEF FlowTyped, FlowInit
<1>6. FlowsAreConsistent BY <1>4 DEF FlowsAreConsistent
<1> QED BY <1>4, <1>5, <1>6 DEF FlowInv

(* The invariant holds, of any tabs, sites, providers and accounts.          *)
THEOREM FlowInvariant == FlowSpec => []FlowInv
<1>1. PageInit /\ FlowInit => FlowInv BY FlowStarts
<1>2. FlowInv /\ [FlowNext]_<<page, flowVars>> => FlowInv'
  <2>1. SUFFICES ASSUME FlowInv, [FlowNext]_<<page, flowVars>> PROVE FlowInv'
    OBVIOUS
  <2>2. CASE UNCHANGED <<page, flowVars>>
    BY <2>1, FlowTypes, SignInAssumption, <2>2, FlowOnly DEF FSlots, flowVars, FlowTyped
  <2>3. CASE \E t \in Tabs :
               \/ \E pg \in Pages, o \in Tabs \cup {0} : Visits(t, pg, o)
               \/ Closes(t)
    BY <2>1, <2>3, FlowDocuments
  <2>4. CASE \E t \in Tabs :
               Intent(t) \/ Choose(t) \/ DismissFlow(t) \/ FlowExpires(t)
    BY <2>1, <2>4, FlowIntents
  <2>5. CASE \/ \E t \in Tabs : SuggestBegins(t) \/ \E p \in Providers : FillReads(t, p)
             \/ \E s \in FSlots : /\ fruns[s] # None
                                  /\ \/ \E p \in Providers : Suggests(s, p)
                                     \/ SuggestFails(s)
    BY <2>1, <2>5, FlowSuggests
  <2>6. CASE \E t \in Tabs : PromptBegins(t) \/ FlowConfirmBegins(t)
    BY <2>1, <2>6, FlowPrompts
  <2>7. CASE \E s \in FSlots :
               /\ fruns[s] # None
               /\ \/ PromptFails(s) \/ ConfirmSaved(s)
                  \/ \E remembered \in BOOLEAN : PromptBuilt(s, remembered)
    BY <2>1, <2>7, FlowBuilt
  <2>8. CASE \E s \in FSlots : fruns[s] # None /\ (ConfirmSends(s) \/ ConfirmFailed(s))
    BY <2>1, <2>8, FlowConfirms
  <2>9. CASE FlowSession BY <2>1, <2>9, FlowHooks
  <2>10. CASE \E s \in FSlots : fruns[s] # None /\ Filled(s)
    BY <2>1, <2>10, FlowNoted
  <2> QED BY <2>1, <2>2, <2>3, <2>4, <2>5, <2>6, <2>7, <2>8, <2>9, <2>10 DEF FlowNext
<1> QED BY <1>1, <1>2, PTL DEF FlowSpec

(* A flow never mixes two sign-ins, and the accounts that are chosen, built  *)
(* into a prompt or suggested come from the vault that is open now, through  *)
(* popups that close, services that come back, prompts that are built late   *)
(* and locks.                                                                *)
THEOREM FlowsSound == FlowSpec => []FlowsAreSound
<1>1. ASSUME FlowInv PROVE FlowsAreSound
  BY <1>1 DEF FlowInv, OwnAccounts, OfUser, FlowsAreSound
<1> QED BY <1>1, FlowInvariant, PTL

-----------------------------------------------------------------------------
(* Shares that are saved: what a step does to the outcome, to the runs and   *)
(* to the share that waits.                                                  *)
LEMMA ShareTypes ==
    ASSUME ShareInv
    PROVE  /\ PageTyped /\ sess.gen \in Nat /\ sess.gen # 0 /\ scount.shares \in Nat
           /\ scount.ops \in Nat /\ scount = [ops |-> scount.ops, shares |-> scount.shares]
           /\ share # None => share \in Shares /\ share.id \in 1..scount.shares
           /\ sruns \in [SSlots -> ShareOps \cup {None}]
           /\ \A s \in SSlots : sruns[s] # None => sruns[s] \in ShareOps
           /\ sent \subseteq 1..scount.shares /\ committing \in BOOLEAN
BY DEF ShareInv, ShareTyped, WaitsOpen, PageTyped

(* An outcome that stays is still true.                                      *)
LEMMA SaysNothing ==
    ASSUME ShareInv, outcome' = outcome, sent' = sent, scount'.shares \in Nat,
           scount'.shares >= scount.shares
    PROVE  OutcomeGood'
BY ShareTypes DEF ShareInv, OutcomeGood, OutcomesAreTrue

(* A share that was not sent may be told cancelled.                          *)
LEMMA SaysCancelled ==
    ASSUME ShareInv, NEW v \in Shares, v.id \in 1..scount.shares, v.id \notin sent,
           outcome' = Remembered("cancelled", v), sent' = sent, UNCHANGED scount
    PROVE  OutcomeGood'
BY DEF Remembered, Shares, OutcomeGood, OutcomesAreTrue, Told

(* What an expiry tells is true: a share that waits may only have been sent  *)
(* by a confirmation that runs, and then nothing is told.                    *)
LEMMA SaysAtExpiry ==
    ASSUME ShareInv, share # None, NEW v \in Shares, v.id = share.id,
           outcome' = SaidAtExpiry(v), UNCHANGED <<sent, scount>>
    PROVE  OutcomeGood'
BY SaysNothing, ShareTypes, SaysCancelled DEF SaidAtExpiry, ShareInv, WaitsOpen

(* So is what an assertion that fails tells.                                 *)
LEMMA SaysAtAssert ==
    ASSUME ShareInv, NEW v \in Shares, outcome' = SaidAtAssert(v), UNCHANGED <<sent, scount>>
    PROVE  OutcomeGood'
BY SaysAtExpiry, SaysNothing, ShareTypes DEF SaidAtAssert, Waits

(* Runs that stay keep what is known of them.                                *)
LEMMA ShareRunsStay ==
    ASSUME ShareInv, UNCHANGED <<sruns, committing>>, sent \subseteq sent',
           scount'.shares \in Nat, scount'.shares >= scount.shares
    PROVE  /\ sruns' \in [SSlots -> ShareOps \cup {None}]
           /\ \A s \in SSlots : ConfirmsAlone(s)'
BY ShareTypes DEF ShareInv, ConfirmsAlone, Confirms

(* One run is replaced by another, or by none. *)
LEMMA ShareRunGoes ==
    ASSUME ShareInv, NEW s \in SSlots, NEW r, r \in ShareOps \cup {None},
           sruns' = [sruns EXCEPT ![s] = r], sent \subseteq sent',
           scount'.shares \in Nat, scount'.shares >= scount.shares,
           r # None /\ r.kind # "prepare" =>
             r.value \in Shares /\ r.value.id \in 1..scount.shares,
           r # None /\ r.kind = "confirm" =>
             /\ committing' /\ \A t \in SSlots : Confirms(t) => t = s
             /\ r.at = "sent" => r.value.id \in sent',
           committing' = committing \/ \A t \in SSlots : Confirms(t) => t = s
    PROVE  /\ sruns' \in [SSlots -> ShareOps \cup {None}]
           /\ \A t \in SSlots : ConfirmsAlone(t)'
BY ShareTypes DEF Confirms, ConfirmsAlone, ShareInv

(* The share that waits goes on waiting, or none waits. *)
LEMMA ShareWaits ==
    ASSUME ShareInv, share' = None \/ (UNCHANGED <<share, outcome, sent, scount, committing>>)
    PROVE  WaitsOpen' /\ share' \in Shares \cup {None}
BY DEF WaitsOpen, ShareInv, ShareTyped

(* What happens around the coordinator leaves the share, or takes it away.   *)
LEMMA ShareWorld ==
    ASSUME ShareInv, PageTyped', sess'.gen # 0, share' \in {share, None},
           UNCHANGED <<outcome, committing, sruns, sent, scount>>
    PROVE  ShareInv'
BY ShareTypes, SaysNothing, ShareRunsStay, ShareWaits DEF ShareInv, ShareTyped

(* A run begins in a free place. *)
LEMMA ShareBegins ==
    ASSUME ShareInv, NEW r, SBegins(r)
    PROVE  /\ \E s \in SSlots : sruns[s] = None /\ sruns' = [sruns EXCEPT ![s] = r]
           /\ scount' \in [ops : Nat, shares : Nat] /\ scount'.shares = scount.shares
<1>1. PICK q : q = [scount EXCEPT !.ops = @ + 1] OBVIOUS
<1>2. q = [ops |-> scount.ops + 1, shares |-> scount.shares] /\ scount' = q
  BY <1>1, ShareTypes DEF SBegins
<1>3. scount' \in [ops : Nat, shares : Nat] /\ scount'.shares = scount.shares
  BY <1>2, ShareTypes
<1>4. PICK s : s = FreeSlot(sruns) OBVIOUS
<1>5. sruns' = [sruns EXCEPT ![s] = r] BY <1>4 DEF SBegins
<1>6. s \in SSlots /\ sruns[s] = None
  BY <1>4, ShareTypes DEF SBegins, HasFree, FreeSlot
<1> QED BY <1>3, <1>5, <1>6

(* An operation as it begins, and with the share it is of.                   *)
LEMMA ShareOpIs ==
    ASSUME PageTyped, NEW kind, kind \in {"prepare", "view", "confirm"}
    PROVE  /\ ShareOp(kind) \in ShareOps /\ ShareOp(kind).kind = kind
           /\ \A v \in Shares : \E r \in ShareOps :
                /\ r = [ShareOp(kind) EXCEPT !.value = v]
                /\ r.kind = kind /\ r.at = "begin" /\ r.value = v
<1>1. tab.port \in Nat BY DEF PageTyped
<1>2. ShareOp(kind) \in ShareOps /\ ShareOp(kind).kind = kind
  BY <1>1 DEF ShareOp, ShareOps
<1>3. ASSUME NEW v \in Shares
      PROVE  \E r \in ShareOps : /\ r = [ShareOp(kind) EXCEPT !.value = v]
                                 /\ r.kind = kind /\ r.at = "begin" /\ r.value = v
  <2>1. PICK o : o = ShareOp(kind) OBVIOUS
  <2>2. PICK r : r = [o EXCEPT !.value = v] OBVIOUS
  <2>3. o = [kind |-> kind, at |-> "begin", doc |-> tab.port, value |-> None]
    BY <2>1 DEF ShareOp
  <2>4. r = [kind |-> kind, at |-> "begin", doc |-> tab.port, value |-> v]
    BY <2>2, <2>3
  <2>5. r \in ShareOps BY <1>1, <2>4 DEF ShareOps
  <2> QED BY <2>1, <2>2, <2>4, <2>5
<1> QED BY <1>2, <1>3

(* A step of the coordinator leaves the tab and the session.                 *)
LEMMA SharePageStays == ASSUME ShareInv, UNCHANGED page PROVE PageTyped' /\ sess'.gen # 0
BY ShareTypes DEF page, PageTyped

(* A step of the coordinator keeps what is left. *)
LEMMA ShareDone ==
    ASSUME ShareInv, UNCHANGED page, sruns' \in [SSlots -> ShareOps \cup {None}],
           \A t \in SSlots : ConfirmsAlone(t)', OutcomeGood', WaitsOpen',
           share' \in Shares \cup {None}, committing' \in BOOLEAN,
           scount' \in [ops : Nat, shares : Nat], sent' \subseteq 1..scount'.shares
    PROVE  ShareInv'
BY SharePageStays DEF ShareInv, ShareTyped

(* A request of the page begins.                                             *)
LEMMA SharePrepares == ASSUME ShareInv, PrepareBegins PROVE ShareInv'
<1>1. /\ UNCHANGED <<page, share, outcome, committing, sent>>
      /\ SBegins(ShareOp("prepare"))
  BY DEF PrepareBegins
<1>2. PICK r : r = ShareOp("prepare") OBVIOUS
<1>3. r \in ShareOps /\ r.kind = "prepare" BY <1>2, ShareOpIs, ShareTypes
<1>4. SBegins(r) BY <1>1, <1>2
<1>5. PICK s \in SSlots : sruns[s] = None /\ sruns' = [sruns EXCEPT ![s] = r]
  BY <1>4, ShareBegins
<1>6. scount' \in [ops : Nat, shares : Nat] /\ scount'.shares = scount.shares
  BY <1>4, ShareBegins
<1>7. sruns' \in [SSlots -> ShareOps \cup {None}] /\ \A t \in SSlots : ConfirmsAlone(t)'
  <2>1. scount'.shares \in Nat /\ scount'.shares >= scount.shares /\ sent \subseteq sent'
    BY <1>1, <1>6, ShareTypes
  <2>2. committing' = committing BY <1>1
  <2> QED BY <1>3, <1>5, <2>1, <2>2, ShareRunGoes
<1>8. OutcomeGood' BY <1>1, <1>6, SaysNothing, ShareTypes
<1>9. WaitsOpen' /\ share' \in Shares \cup {None}
  BY <1>1, <1>6 DEF ShareInv, ShareTyped, WaitsOpen
<1>10. committing' \in BOOLEAN /\ sent' \subseteq 1..scount'.shares
  BY <1>1, <1>6, ShareTypes
<1> QED BY <1>1, <1>6, <1>7, <1>8, <1>9, <1>10, ShareDone

(* A run that goes on or ends, and leaves the rest. *)
LEMMA RunMoved ==
    ASSUME ShareInv, NEW s \in SSlots, sruns[s] # None,
           NEW at \in {"begin", "keep", "write", "sent"}, SGoes(s, at)
    PROVE  \E r \in ShareOps :
             /\ sruns' = [sruns EXCEPT ![s] = r] /\ r.kind = sruns[s].kind
             /\ r.at = at /\ r.value = sruns[s].value
<1>1. PICK c \in ShareOps : c = sruns[s] BY ShareTypes
<1>2. PICK r : r = [c EXCEPT !.at = at] OBVIOUS
<1>3. r = [kind |-> c.kind, at |-> at, doc |-> c.doc, value |-> c.value]
  BY <1>1, <1>2 DEF ShareOps
<1>4. r \in ShareOps BY <1>1, <1>3 DEF ShareOps
<1>5. sruns' = [sruns EXCEPT ![s] = r] BY <1>1, <1>2 DEF SGoes
<1> QED BY <1>1, <1>3, <1>4, <1>5

(* The document and the session are read.                                    *)
LEMMA ShareReads ==
    ASSUME ShareInv, NEW s \in SSlots, sruns[s] # None, PrepareReads(s) PROVE ShareInv'
<1>1. /\ UNCHANGED <<page, share, outcome, committing, sent, scount>>
      /\ sruns[s].kind = "prepare"
      /\ SGoes(s, "keep") \/ SEnds(s)
  BY DEF PrepareReads
<1>2. /\ scount'.shares \in Nat /\ scount'.shares >= scount.shares /\ sent \subseteq sent'
      /\ scount'.shares = scount.shares
  BY <1>1, ShareTypes
<1>3. sruns' \in [SSlots -> ShareOps \cup {None}] /\ \A t \in SSlots : ConfirmsAlone(t)'
  <2>1. CASE SGoes(s, "keep")
    <3>1. sruns[s].kind = "prepare" BY DEF PrepareReads
    <3>2. PICK r \in ShareOps : sruns' = [sruns EXCEPT ![s] = r] /\ r.kind = "prepare"
      BY <2>1, <3>1, RunMoved
    <3> QED BY <1>1, <1>2, <3>2, ShareRunGoes
  <2>2. CASE SEnds(s) BY <2>2, <1>1, <1>2, ShareRunGoes DEF SEnds
  <2> QED BY <1>1, <2>1, <2>2
<1>4. OutcomeGood' BY <1>1, <1>2, SaysNothing
<1>5. WaitsOpen' /\ share' \in Shares \cup {None} BY <1>1, ShareWaits
<1>6. /\ committing' \in BOOLEAN /\ sent' \subseteq 1..scount'.shares
      /\ scount' \in [ops : Nat, shares : Nat]
  BY <1>1, <1>2 DEF ShareInv, ShareTyped
<1> QED BY <1>1, <1>3, <1>4, <1>5, <1>6, ShareDone

(* The keys of a session are a number.                                       *)
LEMMA KeysTyped == ASSUME ShareInv PROVE Keys \in Nat
BY ShareTypes DEF Keys

(* What waits now is new: it has no outcome and was not sent. *)
LEMMA ShareKeeps ==
    ASSUME ShareInv, NEW s \in SSlots, sruns[s] # None, PrepareKeeps(s) PROVE ShareInv'
<1>1. /\ UNCHANGED <<page, outcome, committing, sent>>
      /\ sruns' = [sruns EXCEPT ![s] = None]
  BY DEF PrepareKeeps, SEnds
<1>2. CASE UNCHANGED <<share, scount>>
  <2>1. /\ scount'.shares \in Nat /\ scount'.shares >= scount.shares /\ sent \subseteq sent'
        /\ committing' = committing
    BY <1>1, <1>2, ShareTypes
  <2>2. sruns' \in [SSlots -> ShareOps \cup {None}] /\ \A t \in SSlots : ConfirmsAlone(t)'
    BY <1>1, <2>1, ShareRunGoes
  <2>3. OutcomeGood' BY <1>1, <2>1, SaysNothing
  <2>4. WaitsOpen' /\ share' \in Shares \cup {None} BY <1>1, <1>2, ShareWaits
  <2>5. /\ committing' \in BOOLEAN /\ sent' \subseteq 1..scount'.shares
        /\ scount' \in [ops : Nat, shares : Nat]
    BY <1>1, <1>2 DEF ShareInv, ShareTyped
  <2> QED BY <1>1, <2>2, <2>3, <2>4, <2>5, ShareDone
<1>3. CASE ~UNCHANGED <<share, scount>>
  <2>1. /\ share' = [id |-> scount.shares + 1, doc |-> sruns[s].doc, keys |-> Keys,
                     user |-> sess.user, old |-> FALSE]
        /\ scount' = [scount EXCEPT !.shares = @ + 1]
    BY <1>3 DEF PrepareKeeps
  <2>2. PICK q : q = [scount EXCEPT !.shares = @ + 1] OBVIOUS
  <2>3. scount' = [ops |-> scount.ops, shares |-> scount.shares + 1]
    BY <2>2, ShareTypes, <2>1
  <2>4. /\ scount' \in [ops : Nat, shares : Nat] /\ scount'.shares = scount.shares + 1
        /\ scount'.shares \in Nat /\ scount'.shares >= scount.shares
    BY <2>3, ShareTypes
  <2>5. sent \subseteq sent' /\ committing' = committing BY <1>1
  <2>6. sruns' \in [SSlots -> ShareOps \cup {None}] /\ \A t \in SSlots : ConfirmsAlone(t)'
    BY <1>1, <2>4, <2>5, ShareRunGoes
  <2>7. OutcomeGood' BY <1>1, <2>4, SaysNothing
  <2>8. share' \in Shares /\ share'.id = scount.shares + 1
    BY ShareTypes, <2>1, KeysTyped DEF ShareOps, PageTyped, Shares
  <2>9. WaitsOpen'
    BY <2>4, ShareTypes, <1>1, <2>8 DEF ShareInv, OutcomeGood, WaitsOpen
  <2>10. /\ committing' \in BOOLEAN /\ sent' \subseteq 1..scount'.shares
    BY <1>1, <2>4, ShareTypes
  <2> QED BY <1>1, <2>4, <2>6, <2>7, <2>8, <2>9, <2>10, ShareDone
<1> QED BY <1>2, <1>3

(* The two minutes pass.                                                     *)
LEMMA ShareAges == ASSUME ShareInv, Ages PROVE ShareInv'
<1>1. /\ UNCHANGED <<page, outcome, committing, sruns, sent, scount>>
      /\ share # None /\ share' = [share EXCEPT !.old = TRUE]
  BY DEF Ages
<1>2. share' \in Shares /\ share'.id = share.id
  <2>1. PICK q : q = [share EXCEPT !.old = TRUE] OBVIOUS
  <2>2. share \in Shares BY <1>1, ShareTypes
  <2>3. q = [id |-> share.id, doc |-> share.doc, keys |-> share.keys,
             user |-> share.user, old |-> TRUE]
    BY <2>1, <2>2 DEF Shares
  <2>4. q \in Shares /\ q.id = share.id BY <2>2, <2>3 DEF Shares
  <2> QED BY <1>1, <2>1, <2>4
<1>3. WaitsOpen' BY <1>1, <1>2 DEF ShareInv, WaitsOpen
<1>4. scount'.shares \in Nat /\ scount'.shares >= scount.shares /\ sent \subseteq sent'
  BY <1>1, ShareTypes
<1>5. OutcomeGood' BY <1>1, <1>4, SaysNothing
<1>6. sruns' \in [SSlots -> ShareOps \cup {None}] /\ \A t \in SSlots : ConfirmsAlone(t)'
  BY <1>1, <1>4, ShareRunsStay
<1>7. /\ committing' \in BOOLEAN /\ sent' \subseteq 1..scount'.shares
      /\ scount' \in [ops : Nat, shares : Nat]
  BY <1>1 DEF ShareInv, ShareTyped
<1> QED BY <1>1, <1>2, <1>3, <1>5, <1>6, <1>7, ShareDone

(* A step that ends what waits, says what became of it and moves no run.     *)
LEMMA ShareEnds ==
    ASSUME ShareInv, UNCHANGED <<page, committing, sruns, sent, scount>>, share' = None,
           OutcomeGood'
    PROVE  ShareInv'
BY ShareTypes, ShareRunsStay, ShareWaits, ShareDone DEF ShareInv, ShareTyped

(* The timer, a cancellation and a reconciliation end what waits.            *)
LEMMA ShareDropped ==
    ASSUME ShareInv, TimerFires \/ Cancel \/ Reconcile PROVE ShareInv'
BY ShareTypes, SaysAtExpiry, ShareEnds, SaysCancelled, SaysAtAssert DEF TimerFires, Cancel,
   Reconcile, Dropped, ShareInv, WaitsOpen

(* The popup asks for what waits.                                            *)
LEMMA ShareViews == ASSUME ShareInv, ViewBegins PROVE ShareInv'
<1>1. /\ UNCHANGED <<page, committing, sent>> /\ share # None
      /\ share \in Shares /\ share.id \in 1..scount.shares
  BY ShareTypes DEF ViewBegins
<1>2. CASE IsCurrent(share)
  <2>1. SBegins([ShareOp("view") EXCEPT !.value = share]) /\ UNCHANGED <<share, outcome>>
    BY <1>2 DEF ViewBegins
  <2>2. PICK r \in ShareOps : /\ r = [ShareOp("view") EXCEPT !.value = share]
                              /\ r.kind = "view" /\ r.value = share
    BY <1>1, ShareOpIs, ShareTypes
  <2>3. SBegins(r) BY <2>1, <2>2
  <2>4. PICK s \in SSlots : sruns[s] = None /\ sruns' = [sruns EXCEPT ![s] = r]
    BY <2>3, ShareBegins
  <2>5. scount' \in [ops : Nat, shares : Nat] /\ scount'.shares = scount.shares
    BY <2>3, ShareBegins
  <2>6. /\ scount'.shares \in Nat /\ scount'.shares >= scount.shares /\ sent \subseteq sent'
        /\ committing' = committing /\ outcome' = outcome /\ sent' = sent
    BY <1>1, <2>1, <2>5, ShareTypes
  <2>7. r.value \in Shares /\ r.value.id \in 1..scount.shares /\ r.kind # "confirm"
    BY <1>1, <2>2
  <2>8. sruns' \in [SSlots -> ShareOps \cup {None}] /\ \A t \in SSlots : ConfirmsAlone(t)'
    BY <2>4, <2>6, <2>7, ShareRunGoes
  <2>9. OutcomeGood' BY <2>6, SaysNothing
  <2>10. WaitsOpen' /\ share' \in Shares \cup {None}
    BY <1>1, <2>1, <2>5 DEF ShareInv, ShareTyped, WaitsOpen
  <2>11. committing' \in BOOLEAN /\ sent' \subseteq 1..scount'.shares
    BY <2>5, <2>6, ShareTypes
  <2> QED BY <1>1, <2>5, <2>8, <2>9, <2>10, <2>11, ShareDone
<1>3. CASE ~IsCurrent(share)
  BY <1>1, <1>3, SaysAtAssert, ShareEnds DEF ViewBegins, Dropped
<1> QED BY <1>2, <1>3

(* A view that fails drops what waits by then.                               *)
LEMMA ShareViewed ==
    ASSUME ShareInv, NEW s \in SSlots, sruns[s] # None, ViewReads(s) PROVE ShareInv'
<1>1. /\ UNCHANGED <<page, committing, sent, scount>> /\ sruns[s].kind = "view"
      /\ sruns' = [sruns EXCEPT ![s] = None]
  BY DEF ViewReads, SEnds
<1>2. PICK v : v = sruns[s].value OBVIOUS
<1>3. v \in Shares BY <1>1, <1>2 DEF ShareInv, ConfirmsAlone
<1>4. \/ share' = None /\ outcome' = outcome
      \/ share' = None /\ outcome' = SaidAtAssert(v)
      \/ share' = share /\ outcome' = outcome
  BY <1>2 DEF ViewReads, Dropped
<1>5. /\ scount'.shares \in Nat /\ scount'.shares >= scount.shares /\ sent \subseteq sent'
      /\ committing' = committing /\ sent' = sent
  BY <1>1, ShareTypes
<1>6. OutcomeGood' BY <1>5, SaysNothing, <1>1, <1>3, SaysAtAssert, <1>4
<1>7. sruns' \in [SSlots -> ShareOps \cup {None}] /\ \A t \in SSlots : ConfirmsAlone(t)'
  BY <1>1, <1>5, ShareRunGoes
<1>8. WaitsOpen' /\ share' \in Shares \cup {None} BY <1>1, <1>4, ShareWaits
<1>9. /\ committing' \in BOOLEAN /\ sent' \subseteq 1..scount'.shares
      /\ scount' \in [ops : Nat, shares : Nat]
  BY <1>1 DEF ShareInv, ShareTyped
<1> QED BY <1>1, <1>6, <1>7, <1>8, <1>9, ShareDone

(* No other confirmation runs when one begins. *)
LEMMA ShareConfirms == ASSUME ShareInv, ShareConfirmBegins PROVE ShareInv'
<1>1. /\ UNCHANGED <<page, share, outcome, sent>> /\ share # None /\ committing' = TRUE
      /\ ~committing /\ share \in Shares /\ share.id \in 1..scount.shares
      /\ SBegins([ShareOp("confirm") EXCEPT !.value = share])
  BY ShareTypes DEF ShareConfirmBegins
<1>2. PICK r \in ShareOps : /\ r = [ShareOp("confirm") EXCEPT !.value = share]
                            /\ r.kind = "confirm" /\ r.at = "begin" /\ r.value = share
  BY <1>1, ShareOpIs, ShareTypes
<1>3. SBegins(r) BY <1>1, <1>2
<1>4. PICK s \in SSlots : sruns[s] = None /\ sruns' = [sruns EXCEPT ![s] = r]
  BY <1>3, ShareBegins
<1>5. scount' \in [ops : Nat, shares : Nat] /\ scount'.shares = scount.shares
  BY <1>3, ShareBegins
<1>6. /\ scount'.shares \in Nat /\ scount'.shares >= scount.shares /\ sent \subseteq sent'
      /\ outcome' = outcome /\ sent' = sent
  BY <1>1, <1>5, ShareTypes
<1>7. \A t \in SSlots : ~Confirms(t) BY <1>1 DEF ShareInv, ConfirmsAlone
<1>8. sruns' \in [SSlots -> ShareOps \cup {None}] /\ \A t \in SSlots : ConfirmsAlone(t)'
  BY <1>1, <1>2, <1>7, <1>4, <1>6, ShareRunGoes
<1>9. OutcomeGood' BY <1>6, SaysNothing
<1>10. WaitsOpen' /\ share' \in Shares \cup {None}
  BY <1>1, <1>5 DEF ShareInv, ShareTyped, WaitsOpen
<1>11. committing' \in BOOLEAN /\ sent' \subseteq 1..scount'.shares
  BY <1>1, <1>5, ShareTypes
<1> QED BY <1>1, <1>5, <1>8, <1>9, <1>10, <1>11, ShareDone

(* A confirmation ends: nothing waits, and none runs. *)
LEMMA ShareFinally ==
    ASSUME ShareInv, NEW s \in SSlots, Confirms(s), Finally(s), OutcomeGood',
           UNCHANGED <<page, sent, scount>>
    PROVE  ShareInv'
<1>1. sruns' = [sruns EXCEPT ![s] = None] /\ share' = None /\ committing' = FALSE
  BY DEF Finally, SEnds
<1>2. \A t \in SSlots : Confirms(t) => t = s BY DEF ShareInv, ConfirmsAlone
<1>3. scount'.shares \in Nat /\ scount'.shares >= scount.shares /\ sent \subseteq sent'
  BY ShareTypes
<1>4. sruns' \in [SSlots -> ShareOps \cup {None}] /\ \A t \in SSlots : ConfirmsAlone(t)'
  BY <1>1, <1>2, <1>3, ShareRunGoes
<1>5. WaitsOpen' /\ share' \in Shares \cup {None} BY <1>1, ShareWaits
<1>6. /\ committing' \in BOOLEAN /\ sent' \subseteq 1..scount'.shares
      /\ scount' \in [ops : Nat, shares : Nat]
  BY <1>1 DEF ShareInv, ShareTyped
<1> QED BY <1>4, <1>5, <1>6, ShareDone

(* What is sent is the share that waits, which has no outcome yet.           *)
LEMMA ShareAsserts ==
    ASSUME ShareInv, NEW s \in SSlots, sruns[s] # None, ConfirmAsserts(s) PROVE ShareInv'
<1>1. UNCHANGED <<page, scount>> /\ Confirms(s)
  BY DEF ConfirmAsserts, Confirms
<1>2. PICK v : v = sruns[s].value OBVIOUS
<1>3. /\ v \in Shares /\ v.id \in 1..scount.shares /\ committing
      /\ \A t \in SSlots : Confirms(t) => t = s
  BY <1>1, <1>2 DEF ShareInv, ConfirmsAlone, Confirms
<1>4. CASE IsCurrent(v) /\ sess.user = v.user /\ Current(v.doc)
  <2>1. PICK at \in {"write", "sent"} :
          /\ at = IF sruns[s].at = "begin" THEN "write" ELSE "sent"
    OBVIOUS
  <2>2. /\ SGoes(s, at) /\ UNCHANGED <<share, outcome, committing>>
        /\ sent' = IF sruns[s].at = "write" THEN sent \cup {v.id} ELSE sent
        /\ sruns[s].at \in {"begin", "write"}
    BY <1>2, <1>4, <2>1 DEF ConfirmAsserts
  <2>3. share # None /\ share.id = v.id BY <1>4 DEF IsCurrent, Waits
  <2>4. /\ scount'.shares \in Nat /\ scount'.shares >= scount.shares /\ sent \subseteq sent'
        /\ sent' \subseteq sent \cup {v.id} /\ (at = "sent" => v.id \in sent')
        /\ committing' = committing
    BY <1>1, <2>1, <2>2, ShareTypes
  <2>5. PICK r \in ShareOps : /\ sruns' = [sruns EXCEPT ![s] = r] /\ r.kind = "confirm"
                              /\ r.at = at /\ r.value = v
    BY <1>1, <1>2, <2>2, RunMoved DEF Confirms
  <2>6. sruns' \in [SSlots -> ShareOps \cup {None}] /\ \A t \in SSlots : ConfirmsAlone(t)'
    BY <1>3, <2>5, <2>4, ShareRunGoes
  <2>7. OutcomeGood'
    BY <2>2, <2>3, <2>4, <1>1 DEF ShareInv, WaitsOpen, OutcomeGood, OutcomesAreTrue
  <2>8. WaitsOpen' /\ share' \in Shares \cup {None}
    BY <1>1, <1>3, <2>2 DEF ShareInv, ShareTyped, WaitsOpen
  <2>9. /\ committing' \in BOOLEAN /\ sent' \subseteq 1..scount'.shares
        /\ scount' \in [ops : Nat, shares : Nat]
    BY <1>1, <1>3, <2>4 DEF ShareInv, ShareTyped
  <2> QED BY <1>1, <2>6, <2>7, <2>8, <2>9, ShareDone
<1>5. CASE ~(IsCurrent(v) /\ sess.user = v.user /\ Current(v.doc))
  BY <1>2, <1>5, <1>1, <1>3, SaysAtAssert, ShareFinally DEF ConfirmAsserts
<1> QED BY <1>4, <1>5

(* A confirmation that gives up before its write says nothing.               *)
LEMMA ShareGivesUp ==
    ASSUME ShareInv, NEW s \in SSlots, sruns[s] # None, ConfirmGivesUp(s) PROVE ShareInv'
<1>1. UNCHANGED <<page, sent, scount, outcome>> /\ Confirms(s) /\ Finally(s)
  BY DEF ConfirmGivesUp, Confirms
<1>2. OutcomeGood' BY <1>1, SaysNothing, ShareTypes
<1> QED BY <1>1, <1>2, ShareFinally

(* The answer to a write, or its loss.                                       *)
LEMMA ShareConfirmed ==
    ASSUME ShareInv, NEW s \in SSlots, sruns[s] # None,
           NEW saved \in BOOLEAN, ConfirmEnds(s, saved)
    PROVE  ShareInv'
<1>1. UNCHANGED <<page, sent, scount>> /\ Confirms(s) /\ Finally(s) /\ sruns[s].at = "sent"
  BY DEF ConfirmEnds, Confirms
<1>2. PICK v : v = sruns[s].value OBVIOUS
<1>3. v \in Shares /\ v.id \in 1..scount.shares /\ v.id \in sent
  BY <1>1, <1>2 DEF ShareInv, ConfirmsAlone, Confirms
<1>4. OutcomeGood'
  BY <1>2, <1>3, <1>1, SaysNothing, ShareTypes DEF ConfirmEnds, Remembered, Shares, OutcomeGood,
     OutcomesAreTrue, Told
<1> QED BY <1>1, <1>4, ShareFinally

(* The session ends or begins.                                               *)
LEMMA ShareHooks == ASSUME ShareInv, ShareSession PROVE ShareInv'
BY SessKept, ShareTypes, ShareWorld DEF ShareSession

(* The tab and its documents.                                                *)
LEMMA ShareTab ==
    ASSUME ShareInv,
           \/ ShareUpdated \/ ShareNavigates
           \/ \E d \in tab.open \cup {tab.doc - 1, tab.doc} : ShareConnects(d) \/ ShareLeaves(d)
    PROVE  ShareInv'
BY ShareTypes, ShareWorld, NavigatesForm, DocTyped, ConnectsForm, LeavesForm DEF ShareUpdated,
   Updates, PageTyped, ShareNavigates, shareVars, ShareConnects, ShareLeaves

(* The initial state.                                                        *)
LEMMA ShareStarts == PageInit /\ ShareInit => ShareInv
<1>1. SUFFICES ASSUME PageInit, ShareInit PROVE ShareInv OBVIOUS
<1>2. PageTyped /\ sess.gen # 0 BY <1>1, PageStarts DEF PageInit
<1>3. ShareTyped BY <1>1, <1>2 DEF ShareInit, ShareTyped
<1>4. \A s \in SSlots : ConfirmsAlone(s)
  BY <1>1 DEF ShareInit, ConfirmsAlone, Confirms
<1> QED BY <1>1, <1>3, <1>4
           DEF ShareInit, ShareInv, WaitsOpen, OutcomeGood, OutcomesAreTrue

(* The invariant holds, of any accounts and any number of shares.            *)
THEOREM ShareInvariant == ShareSpec => []ShareInv
<1>1. PageInit /\ ShareInit => ShareInv BY ShareStarts
<1>2. ShareInv /\ [ShareNext]_<<page, shareVars>> => ShareInv'
  <2>1. SUFFICES ASSUME ShareInv, [ShareNext]_<<page, shareVars>> PROVE ShareInv'
    OBVIOUS
  <2>2. CASE UNCHANGED <<page, shareVars>>
    BY <2>2, <2>1, SharePageStays, ShareWorld DEF shareVars
  <2>3. CASE PrepareBegins \/ ViewBegins \/ ShareConfirmBegins
    BY <2>1, <2>3, SharePrepares, ShareViews, ShareConfirms
  <2>4. CASE Ages \/ TimerFires \/ Cancel \/ Reconcile
    BY <2>1, <2>4, ShareAges, ShareDropped
  <2>5. ASSUME NEW s \in SSlots, sruns[s] # None,
               \/ PrepareReads(s) \/ PrepareKeeps(s) \/ ViewReads(s) \/ ConfirmAsserts(s)
               \/ ConfirmGivesUp(s)
               \/ \E saved \in BOOLEAN : ConfirmEnds(s, saved)
        PROVE  ShareInv'
    BY <2>1, <2>5, ShareReads, ShareKeeps, ShareViewed, ShareAsserts, ShareGivesUp,
       ShareConfirmed
  <2>6. CASE ShareSession BY <2>1, <2>6, ShareHooks
  <2>7. CASE \/ ShareUpdated \/ ShareNavigates
             \/ \E d \in tab.open \cup {tab.doc - 1, tab.doc} :
                  ShareConnects(d) \/ ShareLeaves(d)
    BY <2>1, <2>7, ShareTab
  <2> QED BY <2>1, <2>2, <2>3, <2>4, <2>5, <2>6, <2>7 DEF ShareNext
<1> QED BY <1>1, <1>2, PTL DEF ShareSpec

(* What a page is told of its share is true, whatever the popup, the timer,  *)
(* the page and the session do while a confirmation runs.                    *)
THEOREM SharesTold == ShareSpec => []OutcomesAreTrue
<1>1. ShareInv => OutcomesAreTrue BY DEF ShareInv, OutcomeGood
<1> QED BY <1>1, ShareInvariant, PTL

-----------------------------------------------------------------------------
(* Logins and codes that are filled. *)


FillTyped ==
    /\ vaultOpen \in BOOLEAN
    /\ recall \in [native : Fillable \cup {Nil}, tab : Fillable \cup {Nil},
                   host : Fillable \cup {Nil}, pending : Nat]
    /\ settled \in [Ops -> {"open", "yes", "no"}]
    /\ fields \in [login : Fillable \cup {Nil, Typed}, auto : BOOLEAN,
                   otp : Fillable \cup {Nil}, otpOn : BOOLEAN, same : BOOLEAN]
    /\ widget \in [done : BOOLEAN, manual : BOOLEAN, fill : Outstanding \cup {Nil}]
    /\ codes \in [fill : Outstanding \cup {Nil}, tried : BOOLEAN, spent : BOOLEAN, waits : Nat]
    /\ jobs \in [Ops -> Operations \cup {Nil}]
    /\ bounds \in [jobs : 0..MaxFills, events : Nat]

(* The pending operation is one of the popup, and runs. *)
PendingRuns ==
    recall.pending # 0 =>
        recall.pending \in Ops /\ jobs[recall.pending] # Nil /\ jobs[recall.pending].kind = "native"
PendingUnwritten == recall.pending # 0 => jobs[recall.pending].at # "wrote"
(* Only operations that have begun are spoken of. *)
Begun ==
    /\ widget.fill # Nil => widget.fill.id <= bounds.jobs
    /\ codes.fill # Nil => codes.fill.id <= bounds.jobs
    /\ codes.waits <= bounds.jobs
Answered(n) == settled[n] # "open" \/ n = recall.pending
Held(i, j) ==
    IF j.kind = "login" THEN widget.fill # Nil /\ widget.fill.id = i
    ELSE codes.fill # Nil /\ codes.fill.id = i
JobFits(i, j) ==
    /\ i <= bounds.jobs
    /\ j.kind = "native" => j.manual /\ j.at \in {"send", "sent", "wrote", "refused"}
    /\ j.manual => j.at \in {"check", "send", "sent", "wrote", "refused"}
    /\ j.at \in {"listwait", "fillwait"} => j.on \in 1..bounds.jobs /\ Answered(j.on)
    /\ ~j.manual /\ j.at = "send" /\ j.fresh => recall.pending = 0 /\ Fits(j.entry)
    /\ ~j.manual /\ j.at = "sent" /\ Held(i, j) => Fits(j.entry) /\ PendingUnwritten
    /\ widget.fill # Nil /\ widget.fill.id = i => widget.fill.manual = j.manual
JobsFit == \A i \in Ops : jobs[i] # Nil => JobFits(i, jobs[i])

FillInv ==
    FillTyped /\ PendingRuns /\ Begun /\ JobsFit /\ ReceiptIsAutomatic

-----------------------------------------------------------------------------
(* What the invariant says of one operation. *)
LEMMA JobFacts ==
    ASSUME FillInv, NEW i \in Ops, jobs[i] # Nil
    PROVE  /\ jobs[i] \in Operations /\ JobFits(i, jobs[i]) /\ i \in Nat /\ i # 0
           /\ bounds.jobs \in Nat /\ recall.pending \in Nat /\ i <= bounds.jobs
           /\ jobs[i].at \notin {"send", "sent", "wrote", "refused"} => jobs[i].kind # "native"
           /\ jobs[i].at \notin {"check", "send", "sent", "wrote", "refused"} => ~jobs[i].manual
BY FillAssumption DEF FillInv, FillTyped, JobsFit, JobFits, Ops, Operations

(* An operation that loses some of its standing only. *)
Fallen(q, j) ==
    /\ q.kind = j.kind /\ q.manual = j.manual /\ q.entry = j.entry /\ q.at = j.at
    /\ q.on = j.on /\ (q.fresh => j.fresh)
(* What a step leaves to an operation. *)
Narrower == recall'.native \in {Nil, recall.native}
Spares(i, q) ==
    /\ bounds.jobs \in Nat /\ bounds'.jobs \in Nat /\ bounds.jobs <= bounds'.jobs
    /\ \A n \in 1..bounds.jobs : Answered(n) => Answered(n)'
    /\ recall.pending = 0 => Narrower
    /\ recall.pending = 0 /\ q.fresh => recall'.pending = 0
    /\ ~q.manual /\ Held(i, q)' =>
         Held(i, q) /\ (PendingUnwritten => PendingUnwritten' /\ Narrower)
    /\ widget'.fill # Nil /\ widget'.fill.id = i =>
         /\ widget.fill # Nil /\ widget.fill.id = i
         /\ widget'.fill.manual = widget.fill.manual
LEMMA FallenFits ==
    ASSUME NEW i \in Nat, NEW j \in Operations, NEW q \in Operations, JobFits(i, j),
           Fallen(q, j), Spares(i, q)
    PROVE  JobFits(i, q)'
BY DEF JobFits, Fallen, Spares, Narrower, Fits, Held

(* The operations of S are looked at one by one, the others keep theirs. *)
LEMMA Rest ==
    ASSUME FillInv, NEW S, jobs' \in [Ops -> Operations \cup {Nil}],
           \A k \in Ops \ S : \A q \in Operations : jobs'[k] = q =>
               jobs[k] # Nil /\ Fallen(q, jobs[k]) /\ Spares(k, q),
           \A k \in Ops \cap S : jobs'[k] # Nil => JobFits(k, jobs[k])'
    PROVE  JobsFit'
<1>1. SUFFICES ASSUME NEW k \in Ops, k \notin S, jobs'[k] # Nil PROVE JobFits(k, jobs[k])'
  BY DEF JobsFit, Ops
<1>2. PICK q : q = jobs'[k] OBVIOUS
<1>3. q \in Operations /\ Fallen(q, jobs[k]) /\ Spares(k, q) /\ jobs[k] # Nil
  BY <1>1, <1>2
<1>4. jobs[k] \in Operations /\ JobFits(k, jobs[k]) /\ k \in Nat
  BY <1>3, JobFacts
<1>5. PICK j : j = jobs[k] OBVIOUS
<1>6. JobFits(k, q)' BY <1>3, <1>4, <1>5, FallenFits
<1> QED BY <1>2, <1>6

(* An operation that a step does not touch, when nothing is chosen. *)
LEMMA Calm ==
    ASSUME FillTyped, UNCHANGED <<recall, settled, bounds>>, NEW i, NEW q,
           widget'.fill = widget.fill, codes'.fill = codes.fill,
           PendingUnwritten => PendingUnwritten'
    PROVE  Spares(i, q)
BY FillAssumption DEF FillTyped, Spares, Answered, Narrower, Held

(* One operation goes a step further, and nothing else changes. *)
LEMMA Moves ==
    ASSUME FillInv, NEW i \in Ops, jobs[i] # Nil, NEW r \in Operations \cup {Nil},
           jobs' = [jobs EXCEPT ![i] = r], UNCHANGED <<worker, pageVars, bounds>>,
           r # Nil => JobFits(i, r),
           jobs[i].kind = "native" =>
               r # Nil /\ r.kind = "native" /\ (r.at = "wrote" => jobs[i].at = "wrote")
    PROVE  FillInv'
<1>1. FillTyped' /\ PendingRuns' /\ Begun' /\ ReceiptIsAutomatic'
  BY DEF FillInv, FillTyped, Begun, ReceiptIsAutomatic, worker, pageVars, PendingRuns
<1>2. PendingUnwritten => PendingUnwritten'
  BY DEF FillInv, FillTyped, PendingRuns, PendingUnwritten, worker
<1>3. \A k, q : Spares(k, q) BY <1>2, Calm DEF FillInv, worker, pageVars
<1>4. r # Nil => JobFits(i, r)'
  BY <1>2 DEF JobFits, Answered, Held, Fits, worker, pageVars
<1>5. JobsFit'
  <2>1. \A k \in Ops \ {i} : \A q \in Operations : jobs'[k] = q =>
           jobs[k] # Nil /\ Fallen(q, jobs[k]) /\ Spares(k, q)
    BY <1>3, NilAssumption DEF Fallen, FillInv, FillTyped
  <2>2. jobs'[i] = r /\ jobs' \in [Ops -> Operations \cup {Nil}]
    BY <1>1 DEF FillInv, FillTyped
  <2>3. \A k \in Ops \cap {i} : jobs'[k] # Nil => JobFits(k, jobs[k])'
    BY <1>4, <2>2
  <2> QED BY <2>1, <2>2, <2>3, Rest
<1> QED BY <1>1, <1>5 DEF FillInv

-----------------------------------------------------------------------------
(* The steps of one operation: lists, fills and what the worker looks at. *)

Steps == {"listwait", "choose", "listed", "offered", "ask", "fillwait", "check", "send",
          "sent", "wrote", "refused"}
(* The forms of a step. *)
LEMMA GoesForm ==
    ASSUME FillInv, NEW i \in Ops, jobs[i] # Nil, NEW at \in Steps, Puts(i, at)
    PROVE  \E r \in Operations : /\ jobs' = [jobs EXCEPT ![i] = r] /\ r # Nil
                                 /\ r = [jobs[i] EXCEPT !.at = at]
<1>1. PICK r : r = [jobs[i] EXCEPT !.at = at] OBVIOUS
<1>2. r \in Operations BY <1>1, JobFacts DEF Operations, Steps
<1>3. jobs' = [jobs EXCEPT ![i] = r] BY <1>1 DEF Puts, FillInv, FillTyped
<1> QED BY <1>1, <1>2, <1>3, NilAssumption

LEMMA DropsMoves ==
    ASSUME FillInv, NEW i \in Ops, jobs[i] # Nil, jobs[i].kind # "native", Drops(i),
           UNCHANGED <<worker, pageVars, bounds>>
    PROVE  FillInv'
BY Moves DEF Drops

(* Asked: what an operation does that may have to wait for the popup. *)
LEMMA AskedMoves ==
    ASSUME FillInv, NEW i \in Ops, jobs[i] # Nil, NEW j \in Operations, ~jobs[i].manual,
           j.kind = jobs[i].kind, j.manual = jobs[i].manual, jobs[i].kind # "native",
           NEW wait \in {"listwait", "fillwait"}, NEW go \in {"choose", "check"},
           jobs' = [jobs EXCEPT ![i] = Asked(j, wait, go)],
           UNCHANGED <<worker, pageVars, bounds>>, recall.pending <= bounds.jobs
    PROVE  FillInv'
<1>1. PICK r : r = Asked(j, wait, go) OBVIOUS
<1>2. r \in Operations /\ r.kind = j.kind /\ r.manual = j.manual
      /\ (r.at = go \/ (r.at = wait /\ r.on = recall.pending /\ recall.pending # 0))
  BY JobFacts, <1>1 DEF Asked, Operations
<1>3. JobFits(i, r) BY <1>2, JobFacts DEF JobFits, Answered
<1> QED BY <1>1, <1>2, <1>3, Moves

(* A pending operation has begun. *)
LEMMA PendingBegun == FillInv => recall.pending <= bounds.jobs
BY JobFacts DEF FillInv, FillTyped, PendingRuns

LEMMA ListHearsFills ==
    ASSUME FillInv, NEW i \in Ops, jobs[i] # Nil, ListHears(i)
    PROVE  FillInv'
<1>1. jobs[i].kind # "native" /\ ~jobs[i].manual /\ jobs[i] \in Operations
  BY JobFacts DEF ListHears
<1>2. CASE Drops(i) BY <1>1, <1>2, DropsMoves DEF ListHears
<1>3. CASE jobs' = [jobs EXCEPT ![i].at = "choose", ![i].fresh = TRUE, ![i].on = 0]
  <2>1. PICK r : r = [jobs[i] EXCEPT !.at = "choose", !.fresh = TRUE, !.on = 0]
    OBVIOUS
  <2>2. jobs' = [jobs EXCEPT ![i] = r] BY <1>3, <2>1 DEF FillInv, FillTyped
  <2>3. r \in Operations /\ JobFits(i, r)
    BY <1>1, <2>1, JobFacts DEF Operations, JobFits
  <2> QED BY <1>1, <2>2, <2>3, Moves DEF ListHears
<1> QED BY <1>2, <1>3 DEF ListHears

LEMMA ChoosesFills ==
    ASSUME FillInv, NEW i \in Ops, jobs[i] # Nil, NEW e \in Fillable, Chooses(i, e)
    PROVE  FillInv'
<1>1. jobs[i].kind # "native" /\ ~jobs[i].manual /\ jobs[i] \in Operations
  BY JobFacts DEF Chooses
<1>2. CASE Drops(i) BY <1>1, <1>2, DropsMoves DEF Chooses
<1>3. CASE jobs' = [jobs EXCEPT ![i].at = "listed", ![i].entry = e]
  <2>1. PICK r : r = [jobs[i] EXCEPT !.at = "listed", !.entry = e] OBVIOUS
  <2>2. jobs' = [jobs EXCEPT ![i] = r] BY <1>3, <2>1 DEF FillInv, FillTyped
  <2>3. r \in Operations /\ JobFits(i, r)
    BY <1>1, <2>1, JobFacts DEF Operations, JobFits
  <2> QED BY <1>1, <2>2, <2>3, Moves DEF Chooses
<1> QED BY <1>2, <1>3 DEF Chooses

LEMMA ReturnsFills ==
    ASSUME FillInv, NEW i \in Ops, jobs[i] # Nil, Returns(i)
    PROVE  FillInv'
<1>1. jobs[i].kind # "native" /\ ~jobs[i].manual /\ jobs[i] \in Operations
  BY JobFacts DEF Returns
<1>2. CASE Drops(i) BY <1>1, <1>2, DropsMoves DEF Returns
<1>3. CASE jobs' = [jobs EXCEPT ![i] = Asked([@ EXCEPT !.entry = Nil], "listwait", "choose")]
  <2>1. PICK j : j = [jobs[i] EXCEPT !.entry = Nil] OBVIOUS
  <2>2. jobs' = [jobs EXCEPT ![i] = Asked(j, "listwait", "choose")]
    BY <1>3, <2>1 DEF FillInv, FillTyped
  <2>3. j \in Operations /\ j.kind = jobs[i].kind /\ j.manual = jobs[i].manual
    BY <1>1, <2>1 DEF Operations
  <2> QED BY <1>1, <2>2, <2>3, AskedMoves, PendingBegun DEF Returns
<1>4. CASE Puts(i, "offered")
  <2>1. PICK r \in Operations : jobs' = [jobs EXCEPT ![i] = r] /\ r = [jobs[i] EXCEPT !.at = "offered"]
    BY <1>4, GoesForm DEF Steps
  <2>2. JobFits(i, r) BY <1>1, <2>1, JobFacts DEF Operations, JobFits
  <2> QED BY <1>1, <2>1, <2>2, Moves DEF Returns
<1> QED BY <1>2, <1>3, <1>4 DEF Returns

LEMMA AsksFills ==
    ASSUME FillInv, NEW i \in Ops, jobs[i] # Nil, Asks(i)
    PROVE  FillInv'
<1>1. jobs[i].kind # "native" /\ ~jobs[i].manual /\ jobs[i] \in Operations
  BY JobFacts DEF Asks
<1>2. PICK j : j = [jobs[i] EXCEPT !.wanted = TRUE] OBVIOUS
<1>3. jobs' = [jobs EXCEPT ![i] = Asked(j, "fillwait", "check")]
  BY <1>2 DEF Asks, FillInv, FillTyped
<1>4. j \in Operations /\ j.kind = jobs[i].kind /\ j.manual = jobs[i].manual
  BY <1>1, <1>2 DEF Operations
<1> QED BY <1>1, <1>3, <1>4, AskedMoves, PendingBegun DEF Asks

LEMMA FillHearsFills ==
    ASSUME FillInv, NEW i \in Ops, jobs[i] # Nil, FillHears(i)
    PROVE  FillInv'
<1>1. jobs[i].kind # "native" /\ ~jobs[i].manual /\ jobs[i] \in Operations
  BY JobFacts DEF FillHears
<1>2. \E r \in Operations : /\ jobs' = [jobs EXCEPT ![i] = r] /\ r.at \in {"check", "refused"}
                            /\ r.kind = jobs[i].kind /\ r.manual = jobs[i].manual
  <2>1. CASE jobs' = [jobs EXCEPT ![i].at = "check", ![i].fresh = TRUE, ![i].on = 0]
    <3>1. PICK r : r = [jobs[i] EXCEPT !.at = "check", !.fresh = TRUE, !.on = 0]
      OBVIOUS
    <3>2. jobs' = [jobs EXCEPT ![i] = r] BY <2>1, <3>1 DEF FillInv, FillTyped
    <3>3. r \in Operations /\ r.at = "check" /\ r.kind = jobs[i].kind /\ r.manual = jobs[i].manual
      BY <1>1, <3>1 DEF Operations
    <3> QED BY <3>2, <3>3
  <2>2. CASE jobs' = [jobs EXCEPT ![i].at = "refused", ![i].on = 0]
    <3>1. PICK r : r = [jobs[i] EXCEPT !.at = "refused", !.on = 0] OBVIOUS
    <3>2. jobs' = [jobs EXCEPT ![i] = r] BY <2>2, <3>1 DEF FillInv, FillTyped
    <3>3. r \in Operations /\ r.at = "refused" /\ r.kind = jobs[i].kind /\ r.manual = jobs[i].manual
      BY <1>1, <3>1 DEF Operations
    <3> QED BY <3>2, <3>3
  <2> QED BY <2>1, <2>2 DEF FillHears
<1>3. PICK r \in Operations : /\ jobs' = [jobs EXCEPT ![i] = r] /\ r.at \in {"check", "refused"}
                              /\ r.kind = jobs[i].kind /\ r.manual = jobs[i].manual
  BY <1>2
<1>4. JobFits(i, r) BY <1>1, <1>3, JobFacts DEF JobFits
<1> QED BY <1>1, <1>3, <1>4, Moves DEF FillHears

LEMMA ChecksFills ==
    ASSUME FillInv, NEW i \in Ops, jobs[i] # Nil, Checks(i)
    PROVE  FillInv'
<1>1. jobs[i].kind # "native" /\ jobs[i] \in Operations /\ jobs[i].at = "check"
      /\ UNCHANGED <<worker, pageVars, bounds>> /\ JobFits(i, jobs[i])
  BY JobFacts DEF Checks
<1>2. CASE Puts(i, "refused")
  <2>1. PICK r \in Operations : jobs' = [jobs EXCEPT ![i] = r] /\ r = [jobs[i] EXCEPT !.at = "refused"]
    BY <1>2, GoesForm DEF Steps
  <2>2. JobFits(i, r) BY <1>1, <2>1, JobFacts DEF Operations, JobFits
  <2> QED BY <1>1, <2>1, <2>2, Moves
<1>3. CASE ~jobs[i].manual /\ jobs' = [jobs EXCEPT ![i] = Asked(@, "fillwait", "check")]
  <2>1. PICK j : j = jobs[i] OBVIOUS
  <2>2. jobs' = [jobs EXCEPT ![i] = Asked(j, "fillwait", "check")]
    BY <1>3, <2>1 DEF FillInv, FillTyped
  <2> QED BY <1>1, <1>3, <2>1, <2>2, AskedMoves, PendingBegun
<1>4. CASE /\ jobs[i].manual \/ (recall.pending = 0 /\ Fits(jobs[i].entry))
           /\ jobs' = [jobs EXCEPT ![i].at = "send", ![i].fresh = TRUE,
                                   ![i].keys = jobs[i].kind = "code"]
  <2>1. PICK b \in BOOLEAN : b = (jobs[i].kind = "code") OBVIOUS
  <2>2. PICK r : r = [jobs[i] EXCEPT !.at = "send", !.fresh = TRUE, !.keys = b]
    OBVIOUS
  <2>3. jobs' = [jobs EXCEPT ![i] = r]
    BY <1>4, <2>1, <2>2 DEF FillInv, FillTyped
  <2>4. r \in Operations /\ r.at = "send" /\ r.kind = jobs[i].kind /\ r.manual = jobs[i].manual
        /\ r.entry = jobs[i].entry
    BY <1>1, <2>2 DEF Operations
  <2>5. JobFits(i, r) BY <1>1, <1>4, <2>4 DEF JobFits
  <2> QED BY <1>1, <2>3, <2>4, <2>5, Moves
<1> QED BY <1>2, <1>3, <1>4 DEF Checks

LEMMA SendsFills ==
    ASSUME FillInv, NEW i \in Ops, jobs[i] # Nil, Sends(i)
    PROVE  FillInv'
<1>1. jobs[i] \in Operations /\ jobs[i].at = "send" /\ JobFits(i, jobs[i])
      /\ UNCHANGED <<worker, pageVars, bounds>>
  BY JobFacts DEF Sends
<1>2. PICK s \in {"sent", "refused"} : s = IF MaySend(jobs[i]) THEN "sent" ELSE "refused"
  OBVIOUS
<1>3. PICK r : r = [jobs[i] EXCEPT !.at = s, !.keys = FALSE] OBVIOUS
<1>4. jobs' = [jobs EXCEPT ![i] = r]
  BY <1>2, <1>3 DEF Sends, FillInv, FillTyped
<1>5. r \in Operations /\ r.at = s /\ r.kind = jobs[i].kind /\ r.manual = jobs[i].manual
      /\ r.entry = jobs[i].entry
  BY <1>1, <1>3 DEF Operations
<1>6. ~r.manual /\ s = "sent" => recall.pending = 0 /\ Fits(r.entry) /\ PendingUnwritten
  BY <1>1, <1>2, <1>5 DEF JobFits, MaySend, PendingUnwritten
<1>7. JobFits(i, r) BY <1>1, <1>2, <1>5, <1>6 DEF JobFits
<1>8. r # Nil /\ (r.at = "wrote" => jobs[i].at = "wrote")
  BY <1>2, <1>5, NilAssumption
<1> QED BY <1>1, <1>4, <1>5, <1>7, <1>8, Moves

-----------------------------------------------------------------------------
(* Steps of one operation that change the page or the memory of the tab. *)

(* What is left alone when only what is remembered is forgotten. *)
LEMMA Calmly ==
    ASSUME FillTyped, UNCHANGED settled, bounds'.jobs \in {bounds.jobs, bounds.jobs + 1},
           NEW i, NEW q,
           recall'.pending = recall.pending, Narrower,
           widget'.fill # Nil /\ widget'.fill.id = i =>
               /\ widget.fill # Nil /\ widget.fill.id = i
               /\ widget'.fill.manual = widget.fill.manual,
           codes'.fill # Nil /\ codes'.fill.id = i => codes.fill # Nil /\ codes.fill.id = i,
           PendingUnwritten => PendingUnwritten'
    PROVE  Spares(i, q)
BY FillAssumption DEF FillTyped, Held, Spares, Answered

LEMMA Steers ==
    ASSUME FillInv, NEW i \in Ops, NEW r \in Operations \cup {Nil},
           jobs' = [jobs EXCEPT ![i] = r], r # Nil => JobFits(i, r)',
           FillTyped', PendingRuns', Begun', ReceiptIsAutomatic',
           \A k \in Ops \ {i} : \A q \in Operations : jobs[k] = q => Spares(k, q)
    PROVE  FillInv'
<1>1. \A k \in Ops \ {i} : \A q \in Operations : jobs'[k] = q =>
         jobs[k] # Nil /\ Fallen(q, jobs[k]) /\ Spares(k, q)
  BY NilAssumption DEF Fallen, FillInv, FillTyped
<1>2. jobs'[i] = r /\ jobs' \in [Ops -> Operations \cup {Nil}]
  BY DEF FillInv, FillTyped
<1>3. \A k \in Ops \cap {i} : jobs'[k] # Nil => JobFits(k, jobs[k])' BY <1>2
<1>4. JobsFit' BY <1>1, <1>2, <1>3, Rest
<1> QED BY <1>4 DEF FillInv

(* The pending operation when another one moves. *)
LEMMA PendingStays ==
    ASSUME FillInv, NEW i \in Ops, jobs[i] # Nil, NEW r, jobs' = [jobs EXCEPT ![i] = r],
           recall'.pending = recall.pending, i # recall.pending
    PROVE  PendingRuns' /\ (PendingUnwritten => PendingUnwritten')
BY DEF FillInv, FillTyped, PendingRuns, PendingUnwritten
LEMMA NotPending ==
    ASSUME FillInv, NEW i \in Ops, jobs[i] # Nil, jobs[i].kind # "native"
    PROVE  i # recall.pending
BY DEF FillInv, PendingRuns, Ops

LEMMA FillMade ==
    ASSUME NEW i \in Ops, NEW manual \in BOOLEAN, NEW from \in Fillable \cup {Nil, Typed}
    PROVE  /\ Fill(i, manual, from) \in Outstanding /\ Fill(i, manual, from) # Nil
           /\ Fill(i, manual, from).id = i /\ Fill(i, manual, from).manual = manual
<1>1. Fill(i, manual, from) \in Outstanding BY DEF Fill, Outstanding
<1>2. Fill(i, manual, from).id = i /\ Fill(i, manual, from).manual = manual
  BY DEF Fill
<1> QED BY <1>1, <1>2, NilAssumption

LEMMA OffersLoginFills ==
    ASSUME FillInv, NEW i \in Ops, jobs[i] # Nil, OffersLogin(i)
    PROVE  FillInv'
<1>1. jobs[i].kind # "native" /\ ~jobs[i].manual /\ jobs[i] \in Operations /\ i <= bounds.jobs
  BY JobFacts DEF OffersLogin, Proposes, Declines
<1>2. CASE Declines(i) /\ UNCHANGED widget
  BY <1>1, <1>2, DropsMoves DEF OffersLogin, Declines, pageVars
<1>3. CASE /\ ~Yields(widget.fill) /\ Proposes(i)
           /\ widget' = [widget EXCEPT !.fill = Fill(i, FALSE, Nil)]
  <2>1. PICK r \in Operations : jobs' = [jobs EXCEPT ![i] = r] /\ r = [jobs[i] EXCEPT !.at = "ask"]
    BY <1>3, GoesForm DEF Proposes, Steps
  <2>2. PICK f \in Outstanding : f = Fill(i, FALSE, Nil) /\ f # Nil /\ f.id = i /\ f.manual = FALSE
    BY FillMade
  <2>3. UNCHANGED <<vaultOpen, recall, settled, news, fields, codes, receipt, bounds>>
    BY DEF OffersLogin, worker
  <2>4. widget' = [widget EXCEPT !.fill = f] /\ widget'.fill = f
    BY <1>3, <2>2 DEF FillInv, FillTyped
  <2>5. FillTyped' BY <2>1, <2>3, <2>4 DEF FillInv, FillTyped
  <2>7. Begun' /\ ReceiptIsAutomatic'
    BY <1>1, <2>2, <2>3, <2>4 DEF FillInv, Begun, ReceiptIsAutomatic
  <2>8. PendingRuns' /\ (PendingUnwritten => PendingUnwritten')
    BY <1>1, <2>1, <2>3, NotPending, PendingStays
  <2>9. r.at = "ask" /\ r.manual = FALSE /\ r.kind # "native"
    BY <1>1, <2>1 DEF Operations
  <2>10. JobFits(i, r)' BY <1>1, <2>2, <2>3, <2>4, <2>9 DEF JobFits
  <2>11. \A k \in Ops \ {i} : \A q \in Operations : jobs[k] = q => Spares(k, q)
    BY <2>2, <2>3, <2>4, <2>8, Calmly DEF FillInv, Narrower
  <2> QED BY <2>1, <2>5, <2>7, <2>8, <2>10, <2>11, Steers
<1> QED BY <1>2, <1>3 DEF OffersLogin

LEMMA OffersCodeFills ==
    ASSUME FillInv, NEW i \in Ops, jobs[i] # Nil, OffersCode(i)
    PROVE  FillInv'
<1>1. jobs[i].kind # "native" /\ ~jobs[i].manual /\ jobs[i] \in Operations /\ i <= bounds.jobs
      /\ JobFits(i, jobs[i])
  BY JobFacts DEF OffersCode, Proposes, Declines
<1>2. CASE Declines(i) /\ UNCHANGED codes
  BY <1>1, <1>2, DropsMoves DEF OffersCode, Declines, pageVars
<1>3. CASE Proposes(i) /\ codes' = [codes EXCEPT !.fill = Fill(i, FALSE, Nil), !.spent = TRUE]
  <2>1. PICK r \in Operations : jobs' = [jobs EXCEPT ![i] = r] /\ r = [jobs[i] EXCEPT !.at = "ask"]
    BY <1>3, GoesForm DEF Proposes, Steps
  <2>2. PICK f \in Outstanding : f = Fill(i, FALSE, Nil) /\ f # Nil /\ f.id = i
    BY FillMade
  <2>3. UNCHANGED <<vaultOpen, recall, settled, news, fields, widget, receipt, bounds>>
    BY DEF OffersCode, worker
  <2>4. /\ codes' \in [fill : Outstanding \cup {Nil}, tried : BOOLEAN, spent : BOOLEAN, waits : Nat]
        /\ codes'.fill = f /\ codes'.waits = codes.waits
    BY <1>3, <2>2 DEF FillInv, FillTyped
  <2>5. FillTyped' BY <2>1, <2>3, <2>4 DEF FillInv, FillTyped
  <2>6. Begun' /\ ReceiptIsAutomatic'
    BY <1>1, <2>2, <2>3, <2>4 DEF FillInv, Begun, ReceiptIsAutomatic
  <2>7. PendingRuns' /\ (PendingUnwritten => PendingUnwritten')
    BY <1>1, <2>1, <2>3, NotPending, PendingStays
  <2>8. r.at = "ask" /\ r.manual = jobs[i].manual /\ r.kind # "native"
    BY <1>1, <2>1 DEF Operations
  <2>9. JobFits(i, r)' BY <1>1, <2>3, <2>8 DEF JobFits
  <2>10. \A k \in Ops \ {i} : \A q \in Operations : jobs[k] = q => Spares(k, q)
    BY <2>2, <2>3, <2>4, <2>7, Calmly DEF FillInv, Narrower
  <2> QED BY <2>1, <2>5, <2>6, <2>7, <2>9, <2>10, Steers
<1> QED BY <1>2, <1>3 DEF OffersCode

(* What the page keeps of a login when its operation has been taken. *)
LEMMA Disarmed ==
    ASSUME FillTyped, widget.fill # Nil, NEW d \in BOOLEAN, NEW w,
           w = [widget EXCEPT !.fill.armed = FALSE, !.done = d]
           \/ w = [widget EXCEPT !.fill.armed = FALSE]
    PROVE  /\ w \in [done : BOOLEAN, manual : BOOLEAN, fill : Outstanding \cup {Nil}]
           /\ w.fill # Nil /\ w.fill.id = widget.fill.id /\ w.fill.manual = widget.fill.manual
<1>1. PICK f : f = [widget.fill EXCEPT !.armed = FALSE] OBVIOUS
<1>2. f \in Outstanding /\ f.id = widget.fill.id /\ f.manual = widget.fill.manual
  BY <1>1 DEF FillTyped, Outstanding
<1>3. w = [widget EXCEPT !.fill = f, !.done = d] \/ w = [widget EXCEPT !.fill = f]
  BY <1>1 DEF FillTyped
<1>4. w \in [done : BOOLEAN, manual : BOOLEAN, fill : Outstanding \cup {Nil}] /\ w.fill = f
  BY ZenonT(30), <1>2, <1>3 DEF FillTyped
<1> QED BY <1>2, <1>4, NilAssumption

LEMMA WritesLoginFills ==
    ASSUME FillInv, NEW i \in Ops, jobs[i] # Nil, WritesLogin(i)
    PROVE  FillInv'
<1>1. /\ jobs[i] \in Operations /\ jobs[i].at = "sent" /\ jobs[i].kind = "login"
      /\ UNCHANGED <<vaultOpen, recall, settled, news, codes, bounds>> /\ JobFits(i, jobs[i])
  BY JobFacts DEF WritesLogin, worker
<1>2. PICK s \in {"wrote", "refused"} : Puts(i, s) BY DEF WritesLogin
<1>3. PICK r \in Operations : jobs' = [jobs EXCEPT ![i] = r] /\ r = [jobs[i] EXCEPT !.at = s]
  BY <1>2, GoesForm DEF Steps
<1>4. r.at = s /\ r.kind = "login" /\ r.manual = jobs[i].manual
  BY <1>1, <1>3 DEF Operations
<1>5. /\ fields' \in [login : Fillable \cup {Nil, Typed}, auto : BOOLEAN,
                      otp : Fillable \cup {Nil}, otpOn : BOOLEAN, same : BOOLEAN]
      /\ ReceiptIsAutomatic'
  <2>1. CASE UNCHANGED <<fields, receipt>>
    BY <2>1 DEF FillInv, FillTyped, ReceiptIsAutomatic
  <2>2. CASE /\ fields' = [fields EXCEPT !.login = jobs[i].entry, !.auto = ~jobs[i].manual]
             /\ receipt' = ReceiptOf(jobs[i])
    <3>1. PICK e \in Fillable \cup {Nil}, b \in BOOLEAN : e = jobs[i].entry /\ b = (~jobs[i].manual)
      BY <1>1 DEF Operations
    <3>2. fields' = [fields EXCEPT !.login = e, !.auto = b] BY <2>2, <3>1
    <3>3. fields' \in [login : Fillable \cup {Nil, Typed}, auto : BOOLEAN,
                       otp : Fillable \cup {Nil}, otpOn : BOOLEAN, same : BOOLEAN]
          /\ fields'.login = e /\ fields'.auto = b
      BY <3>2 DEF FillInv, FillTyped
    <3>4. receipt' # Nil => receipt' = e /\ b = TRUE
      BY <2>2, <3>1 DEF ReceiptOf
    <3> QED BY <3>3, <3>4 DEF ReceiptIsAutomatic
  <2> QED BY <2>1, <2>2 DEF WritesLogin
<1>6. /\ widget' \in [done : BOOLEAN, manual : BOOLEAN, fill : Outstanding \cup {Nil}]
      /\ widget'.fill # Nil => widget.fill # Nil /\ widget'.fill.id = widget.fill.id
                               /\ widget'.fill.manual = widget.fill.manual
      /\ widget.fill # Nil => widget'.fill # Nil
  BY Disarmed DEF FillInv, FillTyped, WritesLogin, Takes
<1>7. FillTyped' BY <1>1, <1>3, <1>5, <1>6 DEF FillInv, FillTyped
<1>8. Begun' BY <1>1, <1>6 DEF FillInv, Begun
<1>9. PendingRuns' /\ (PendingUnwritten => PendingUnwritten')
  BY <1>1, <1>3, NotPending, PendingStays
<1>10. JobFits(i, r)' BY <1>1, <1>4, <1>6 DEF JobFits
<1>11. \A k \in Ops \ {i} : \A q \in Operations : jobs[k] = q => Spares(k, q)
  BY <1>1, <1>6, <1>9, Calmly DEF FillInv, Narrower
<1> QED BY <1>3, <1>5, <1>7, <1>8, <1>9, <1>10, <1>11, Steers

LEMMA WritesCodeFills ==
    ASSUME FillInv, NEW i \in Ops, jobs[i] # Nil, WritesCode(i)
    PROVE  FillInv'
<1>1. /\ jobs[i] \in Operations /\ jobs[i].at = "sent" /\ jobs[i].kind = "code"
      /\ UNCHANGED <<vaultOpen, recall, settled, news, widget, receipt, bounds>>
      /\ JobFits(i, jobs[i])
  BY JobFacts DEF WritesCode, worker
<1>2. PICK s \in {"wrote", "refused"} : Puts(i, s) BY DEF WritesCode
<1>3. PICK r \in Operations : jobs' = [jobs EXCEPT ![i] = r] /\ r = [jobs[i] EXCEPT !.at = s]
  BY <1>2, GoesForm DEF Steps
<1>4. r.at = s /\ r.kind = "code" /\ r.manual = jobs[i].manual
  BY <1>1, <1>3 DEF Operations
<1>5. /\ fields' \in [login : Fillable \cup {Nil, Typed}, auto : BOOLEAN,
                      otp : Fillable \cup {Nil}, otpOn : BOOLEAN, same : BOOLEAN]
      /\ fields'.login = fields.login /\ fields'.auto = fields.auto
  BY <1>1 DEF WritesCode, FillInv, FillTyped, Operations
<1>6. /\ codes' \in [fill : Outstanding \cup {Nil}, tried : BOOLEAN, spent : BOOLEAN, waits : Nat]
      /\ codes'.waits = codes.waits /\ codes'.fill \in {Nil, codes.fill}
  BY DEF WritesCode, FillInv, FillTyped
<1>7. FillTyped' BY <1>1, <1>3, <1>5, <1>6 DEF FillInv, FillTyped
<1>8. Begun' /\ ReceiptIsAutomatic'
  BY <1>1, <1>5, <1>6 DEF FillInv, Begun, ReceiptIsAutomatic
<1>9. PendingRuns' /\ (PendingUnwritten => PendingUnwritten')
  BY <1>1, <1>3, NotPending, PendingStays
<1>10. JobFits(i, r)' BY <1>1, <1>4 DEF JobFits
<1>11. \A k \in Ops \ {i} : \A q \in Operations : jobs[k] = q => Spares(k, q)
  BY <1>1, <1>6, <1>9, Calmly DEF FillInv, Narrower
<1> QED BY <1>3, <1>7, <1>8, <1>9, <1>10, <1>11, Steers

(* The answer goes back: what the tab remembers. *)
Memory == [native : Fillable \cup {Nil}, tab : Fillable \cup {Nil},
           host : Fillable \cup {Nil}, pending : Nat]
LEMMA RecalledFacts ==
    ASSUME FillTyped, NEW e \in Fillable \cup {Nil}
    PROVE  /\ Recalled(e) \in Memory /\ Recalled(e).pending = recall.pending
           /\ Recalled(e).native \in {Nil, recall.native}
<1>1. PICK n : n = IF recall.native \in {Nil, e} THEN recall.native ELSE Nil
  OBVIOUS
<1>2. recall \in Memory /\ n \in Fillable \cup {Nil} /\ n \in {Nil, recall.native}
  BY <1>1 DEF FillTyped, Memory
<1>3. PICK r : r = [recall EXCEPT !.tab = e, !.host = e, !.native = n] OBVIOUS
<1>4. Recalled(e) = r BY <1>1, <1>2, <1>3 DEF Recalled, Memory
<1>5. r \in Memory /\ r.pending = recall.pending /\ r.native = n
  BY <1>2, <1>3 DEF Memory
<1> QED BY <1>2, <1>4, <1>5

(* An operation of the page ends. *)
LEMMA Answers ==
    ASSUME FillInv, NEW i \in Ops, jobs[i] # Nil, NEW kind \in {"login", "code"},
           AnswersBack(i, kind), UNCHANGED <<vaultOpen, settled, news, fields, receipt, bounds>>,
           widget' \in [done : BOOLEAN, manual : BOOLEAN, fill : Outstanding \cup {Nil}],
           codes' \in [fill : Outstanding \cup {Nil}, tried : BOOLEAN, spent : BOOLEAN, waits : Nat],
           widget'.fill \in {Nil, widget.fill}, codes'.fill \in {Nil, codes.fill},
           codes'.waits \in {0, codes.waits}
    PROVE  FillInv'
<1>1. jobs[i] \in Operations /\ jobs[i].kind # "native" /\ jobs' = [jobs EXCEPT ![i] = Nil]
  BY JobFacts DEF AnswersBack, Drops
<1>2. recall' \in Memory /\ recall'.pending = recall.pending /\ Narrower
  BY <1>1, RecalledFacts DEF AnswersBack, Operations, FillInv, FillTyped, Memory, Narrower
<1>3. FillTyped' /\ ReceiptIsAutomatic'
  BY <1>1, <1>2 DEF FillInv, FillTyped, Memory, ReceiptIsAutomatic
<1>4. Begun' BY FillAssumption DEF FillInv, FillTyped, Begun
<1>5. PendingRuns' /\ (PendingUnwritten => PendingUnwritten')
  BY <1>1, <1>2, NotPending, PendingStays
<1>6. \A k \in Ops \ {i} : \A q \in Operations : jobs[k] = q => Spares(k, q)
  BY <1>2, <1>5, Calmly DEF FillInv
<1> QED BY <1>1, <1>3, <1>4, <1>5, <1>6, Steers

LEMMA EndsLoginFills ==
    ASSUME FillInv, NEW i \in Ops, jobs[i] # Nil, EndsLogin(i)
    PROVE  FillInv'
<1>1. AnswersBack(i, "login") /\ UNCHANGED <<vaultOpen, settled, news, fields, receipt, bounds>>
  BY DEF EndsLogin
<1>2. /\ widget' \in [done : BOOLEAN, manual : BOOLEAN, fill : Outstanding \cup {Nil}]
      /\ \/ widget'.fill = widget.fill
         \/ widget.fill # Nil /\ widget.fill.id = i /\ jobs[i].here /\ widget'.fill = Nil
  <2>1. CASE widget' = widget BY <2>1 DEF FillInv, FillTyped
  <2>2. CASE \E f \in {Nil, widget.fill}, d, m \in BOOLEAN :
               /\ f = Nil => widget.fill = Nil \/ (widget.fill.id = i /\ jobs[i].here)
               /\ widget' = [widget EXCEPT !.fill = f, !.done = d, !.manual = m]
    BY <2>2 DEF FillInv, FillTyped
  <2>3. ASSUME jobs[i].here PROVE \E f \in {Nil, widget.fill}, d, m \in BOOLEAN :
               /\ f = Nil => widget.fill = Nil \/ (widget.fill.id = i /\ jobs[i].here)
               /\ widget' = [widget EXCEPT !.fill = f, !.done = d, !.manual = m]
    <3>1. PICK f \in {Nil, widget.fill} :
             f = IF widget.fill # Nil /\ widget.fill.id = i THEN Nil ELSE widget.fill
      OBVIOUS
    <3>2. PICK d \in BOOLEAN :
             d = IF jobs[i].manual THEN widget.done
                 ELSE jobs[i].at = "wrote" /\ widget.fill # Nil /\ widget.fill.id = i
      BY DEF FillInv, FillTyped
    <3>3. PICK m \in BOOLEAN :
             m = (widget.manual \/ (/\ jobs[i].manual /\ jobs[i].at = "wrote"
                                   /\ widget.fill # Nil /\ widget.fill.id = i))
      OBVIOUS
    <3>4. widget' = [widget EXCEPT !.fill = f, !.done = d, !.manual = m]
      BY <2>3, <3>1, <3>2, <3>3 DEF EndsLogin
    <3> QED BY <2>3, <3>1, <3>4
  <2> QED BY <2>1, <2>2, <2>3 DEF EndsLogin
<1>3. /\ codes' \in [fill : Outstanding \cup {Nil}, tried : BOOLEAN, spent : BOOLEAN, waits : Nat]
      /\ codes'.fill = codes.fill /\ codes'.waits \in {0, codes.waits}
      /\ jobs[i].here /\ jobs[i].manual /\ codes.waits = i => codes'.waits = 0
  <2>1. CASE codes' = codes /\ ~(jobs[i].here /\ jobs[i].manual /\ codes.waits = i)
    BY <2>1 DEF FillInv, FillTyped
  <2>2. CASE \E s \in BOOLEAN : codes' = [codes EXCEPT !.waits = 0, !.spent = s]
    <3>1. PICK s \in BOOLEAN : codes' = [codes EXCEPT !.waits = 0, !.spent = s]
      BY <2>2
    <3>2. codes' \in [fill : Outstanding \cup {Nil}, tried : BOOLEAN, spent : BOOLEAN, waits : Nat]
          /\ codes'.fill = codes.fill /\ codes'.waits = 0
      BY <3>1 DEF FillInv, FillTyped
    <3> QED BY <3>2
  <2>3. ASSUME jobs[i].here, jobs[i].manual, codes.waits = i
        PROVE  \E s \in BOOLEAN : codes' = [codes EXCEPT !.waits = 0, !.spent = s]
    BY <2>3 DEF EndsLogin
  <2> QED BY <2>1, <2>2, <2>3 DEF EndsLogin
<1> QED BY <1>1, <1>2, <1>3, Answers

LEMMA EndsCodeFills ==
    ASSUME FillInv, NEW i \in Ops, jobs[i] # Nil, EndsCode(i)
    PROVE  FillInv'
BY Answers DEF EndsCode, FillInv, FillTyped

(* A fill of the popup ends. *)
LEMMA NativeEndsFills ==
    ASSUME FillInv, NEW i \in Ops, jobs[i] # Nil, NativeEnds(i)
    PROVE  FillInv'
<1>1. /\ jobs[i] \in Operations /\ i # 0 /\ jobs' = [jobs EXCEPT ![i] = Nil]
      /\ UNCHANGED <<vaultOpen, news, pageVars, bounds>>
  BY JobFacts DEF NativeEnds, Drops
<1>2. PICK e \in Fillable \cup {Nil} : e = jobs[i].entry
  BY <1>1 DEF Operations
<1>3. PICK ok \in BOOLEAN : ok = (/\ jobs[i].at = "wrote" /\ jobs[i].fresh
                                  /\ (jobs[i].here \/ jobs[i].firm))
  OBVIOUS
<1>4. PICK kept : kept = IF ok THEN Recalled(e) ELSE recall OBVIOUS
<1>5. kept \in Memory /\ kept.pending = recall.pending /\ kept.native \in {Nil, recall.native}
  BY <1>4, RecalledFacts DEF FillInv, FillTyped, Memory
<1>6. CASE recall.pending # i
  <2>1. recall' = kept /\ settled' = settled
    BY <1>2, <1>3, <1>4, <1>6 DEF NativeEnds
  <2>2. FillTyped' /\ Begun' /\ ReceiptIsAutomatic'
    BY <1>1, <1>5, <2>1 DEF FillInv, FillTyped, Memory, Begun, ReceiptIsAutomatic, pageVars
  <2>3. PendingRuns' /\ (PendingUnwritten => PendingUnwritten')
    BY <1>1, <1>5, <1>6, <2>1, PendingStays
  <2>4. \A k \in Ops \ {i} : \A q \in Operations : jobs[k] = q => Spares(k, q)
    BY <1>1, <1>5, <2>1, <2>3, Calmly DEF FillInv, Narrower, pageVars
  <2> QED BY <1>1, <2>2, <2>3, <2>4, Steers
<1>7. CASE recall.pending = i
  <2>1. PICK n \in Fillable \cup {Nil} : n = IF ok THEN e ELSE kept.native
    BY <1>5 DEF Memory
  <2>2. recall' = [kept EXCEPT !.pending = 0, !.native = n]
    BY <1>2, <1>3, <1>4, <1>7, <2>1 DEF NativeEnds
  <2>3. recall' \in Memory /\ recall'.pending = 0 /\ recall'.native = n
    BY <1>5, <2>2 DEF Memory
  <2>4. PICK a \in {"yes", "no"} : a = IF ok THEN "yes" ELSE "no" OBVIOUS
  <2>5. settled' = [settled EXCEPT ![i] = a]
    BY <1>1, <1>2, <1>3, <1>7, <2>4 DEF NativeEnds, Finished
  <2>6. FillTyped' /\ Begun' /\ ReceiptIsAutomatic'
    BY <1>1, <2>3, <2>5 DEF FillInv, FillTyped, Memory, Begun, ReceiptIsAutomatic, pageVars
  <2>7. PendingRuns' /\ PendingUnwritten'
    BY <2>3 DEF PendingRuns, PendingUnwritten
  <2>8. ASSUME NEW k \in Ops \ {i}, NEW q \in Operations, jobs[k] = q
        PROVE  Spares(k, q)
    <3>1. \A m \in 1..bounds.jobs : Answered(m) => Answered(m)'
      BY <1>7, <2>5 DEF FillInv, FillTyped, Answered, Ops
    <3>2. PendingUnwritten => Narrower
      BY <1>1, <1>3, <1>5, <1>7, <2>1, <2>3 DEF PendingUnwritten, Narrower
    <3>3. Held(k, q)' => Held(k, q) BY <1>1 DEF Held, pageVars
    <3>4. bounds.jobs \in Nat /\ bounds' = bounds /\ widget' = widget
      BY <1>1, JobFacts DEF pageVars
    <3> QED BY <1>1, <1>7, <2>3, <2>7, <3>1, <3>2, <3>3, <3>4 DEF Spares
  <2> QED BY <1>1, <2>6, <2>7, <2>8, Steers
<1> QED BY <1>6, <1>7

-----------------------------------------------------------------------------
(* Steps that all operations feel. *)

Weakens(js) ==
    /\ js \in [Ops -> Operations \cup {Nil}]
    /\ \A k \in Ops : /\ jobs[k] = Nil => js[k] = Nil
                      /\ jobs[k] # Nil => js[k] # Nil /\ Fallen(js[k], jobs[k])
LEMMA StaleWeak ==
    ASSUME FillTyped
    PROVE  /\ Weakens(Each(jobs, Stale))
           /\ \A k \in Ops : jobs[k] # Nil => Each(jobs, Stale)[k].fresh = FALSE
<1>1. ASSUME NEW k \in Ops, jobs[k] # Nil
      PROVE  Stale(jobs[k]) \in Operations /\ Fallen(Stale(jobs[k]), jobs[k])
             /\ Stale(jobs[k]).fresh = FALSE
  <2>1. PICK q : q = [jobs[k] EXCEPT !.fresh = FALSE] OBVIOUS
  <2>2. jobs[k] \in Operations BY <1>1 DEF FillTyped
  <2>3. q \in Operations /\ Fallen(q, jobs[k]) /\ q.fresh = FALSE
    BY <2>1, <2>2 DEF Operations, Fallen
  <2> QED BY <2>1, <2>3 DEF Stale
<1> QED BY <1>1, NilAssumption DEF Weakens, Each
LEMMA StaleKeysWeak ==
    ASSUME FillTyped
    PROVE  /\ Weakens(Each(jobs, StaleKeys))
           /\ \A k \in Ops : jobs[k] # Nil => Each(jobs, StaleKeys)[k].fresh = FALSE
<1>1. ASSUME NEW k \in Ops, jobs[k] # Nil
      PROVE  StaleKeys(jobs[k]) \in Operations /\ Fallen(StaleKeys(jobs[k]), jobs[k])
             /\ StaleKeys(jobs[k]).fresh = FALSE
  <2>1. PICK q : q = [jobs[k] EXCEPT !.fresh = FALSE, !.keys = FALSE] OBVIOUS
  <2>2. jobs[k] \in Operations BY <1>1 DEF FillTyped
  <2>3. q \in Operations /\ Fallen(q, jobs[k]) /\ q.fresh = FALSE
    BY <2>1, <2>2 DEF Operations, Fallen
  <2> QED BY <2>1, <2>3 DEF StaleKeys
<1> QED BY <1>1, NilAssumption DEF Weakens, Each
LEMMA GoneWeak ==
    ASSUME FillTyped
    PROVE  Weakens(Each(jobs, Gone))
<1>1. ASSUME NEW k \in Ops, jobs[k] # Nil
      PROVE  Gone(jobs[k]) \in Operations /\ Fallen(Gone(jobs[k]), jobs[k])
  <2>1. PICK q : q = [jobs[k] EXCEPT !.here = FALSE] OBVIOUS
  <2>2. jobs[k] \in Operations BY <1>1 DEF FillTyped
  <2>3. q \in Operations /\ Fallen(q, jobs[k])
    BY <2>1, <2>2 DEF Operations, Fallen
  <2> QED BY <2>1, <2>3 DEF Gone
<1> QED BY <1>1, NilAssumption DEF Weakens, Each
LEMMA UnwantedWeak ==
    ASSUME FillTyped, NEW kinds
    PROVE  Weakens(Unwanted(jobs, kinds))
<1>1. ASSUME NEW k \in Ops, jobs[k] # Nil
      PROVE  [jobs[k] EXCEPT !.wanted = FALSE] \in Operations
             /\ Fallen([jobs[k] EXCEPT !.wanted = FALSE], jobs[k])
  <2>1. PICK q : q = [jobs[k] EXCEPT !.wanted = FALSE] OBVIOUS
  <2>2. jobs[k] \in Operations BY <1>1 DEF FillTyped
  <2>3. q \in Operations /\ Fallen(q, jobs[k])
    BY <2>1, <2>2 DEF Operations, Fallen
  <2> QED BY <2>1, <2>3
<1>2. \A k \in Ops : jobs[k] # Nil => jobs[k] \in Operations /\ Fallen(jobs[k], jobs[k])
  BY DEF FillTyped, Fallen
<1> QED BY <1>1, <1>2, NilAssumption DEF Weakens, Unwanted, Each

(* The pending operation when they weaken. *)
LEMMA PendingWeak ==
    ASSUME FillInv, Weakens(jobs'), recall'.pending = recall.pending
    PROVE  PendingRuns' /\ (PendingUnwritten => PendingUnwritten')
BY DEF FillInv, PendingRuns, PendingUnwritten, Weakens, Fallen

LEMMA AllFall ==
    ASSUME FillInv, Weakens(jobs'), FillTyped', PendingRuns', Begun',
           ReceiptIsAutomatic', \A k \in Ops : \A q \in Operations : jobs'[k] = q => Spares(k, q)
    PROVE  FillInv'
<1>1. \A k \in Ops \ {} : \A q \in Operations : jobs'[k] = q =>
         jobs[k] # Nil /\ Fallen(q, jobs[k]) /\ Spares(k, q)
  BY NilAssumption DEF Weakens
<1>2. \A k \in Ops \cap {} : jobs'[k] # Nil => JobFits(k, jobs[k])' OBVIOUS
<1>3. JobsFit' BY <1>1, <1>2, Rest DEF Weakens
<1> QED BY <1>3 DEF FillInv

(* Whoever waits for the pending operation is answered when it is dropped. *)
LEMMA FinishedAnswers ==
    ASSUME FillInv, NEW a \in {"yes", "no"}
    PROVE  /\ Finished(a) \in [Ops -> {"open", "yes", "no"}]
           /\ \A n \in 1..bounds.jobs : n \in Ops /\ (Answered(n) => Finished(a)[n] # "open")
BY FillAssumption DEF FillInv, FillTyped, PendingRuns, Ops, Finished, Answered

LEMMA BlankTyped ==
    ASSUME NEW on \in BOOLEAN, NEW same \in BOOLEAN
    PROVE  Blank(on, same) \in [login : Fillable \cup {Nil, Typed}, auto : BOOLEAN,
                                otp : Fillable \cup {Nil}, otpOn : BOOLEAN, same : BOOLEAN]
BY DEF Blank
LEMMA FreshTyped ==
    ASSUME FreshPage
    PROVE  /\ fields' \in [login : Fillable \cup {Nil, Typed}, auto : BOOLEAN,
                           otp : Fillable \cup {Nil}, otpOn : BOOLEAN, same : BOOLEAN]
           /\ widget' \in [done : BOOLEAN, manual : BOOLEAN, fill : Outstanding \cup {Nil}]
           /\ codes' \in [fill : Outstanding \cup {Nil}, tried : BOOLEAN, spent : BOOLEAN, waits : Nat]
           /\ widget'.fill = Nil /\ codes'.fill = Nil /\ codes'.waits = 0 /\ receipt' = Nil
BY BlankTyped DEF FreshPage, NoWidget, NoCodes

(* Events. *)
LEMMA EventTyped ==
    ASSUME FillTyped, Event
    PROVE  bounds' \in [jobs : 0..MaxFills, events : Nat] /\ bounds'.jobs = bounds.jobs
BY DEF FillTyped, Event

LEMMA NewDocumentFills == ASSUME FillInv, NewDocument PROVE FillInv'
BY GoneWeak, FreshTyped, EventTyped, FillAssumption, PendingWeak, Calmly, AllFall DEF NewDocument,
   FillInv, worker, FillTyped, Weakens, Begun, ReceiptIsAutomatic, Narrower

(* Nothing is left of the choice in the popup, and nobody waits for it. *)
LEMMA Forgets ==
    ASSUME FillInv, settled' = Finished("no"), recall'.pending = 0, recall'.native = Nil,
           bounds'.jobs = bounds.jobs, NEW k, NEW q, ~q.fresh,
           widget'.fill \in {Nil, widget.fill}, codes'.fill \in {Nil, codes.fill}
    PROVE  Spares(k, q)
BY FinishedAnswers, FillAssumption DEF Answered, FillInv, FillTyped, Held, PendingUnwritten,
   Narrower, Spares

(* What another host leaves of the operations. *)
LEMMA ElsewhereWeak ==
    ASSUME FillInv, Elsewhere
    PROVE  Weakens(jobs') /\ \A k \in Ops : jobs'[k] # Nil => ~jobs'[k].fresh
<1>1. \A k \in Ops : jobs[k] # Nil =>
         Gone(Stale(jobs[k])) \in Operations /\ Fallen(Gone(Stale(jobs[k])), jobs[k])
         /\ Gone(Stale(jobs[k])).fresh = FALSE
  <2>1. SUFFICES ASSUME NEW k \in Ops, jobs[k] # Nil
                 PROVE  Gone(Stale(jobs[k])) \in Operations /\ Fallen(Gone(Stale(jobs[k])), jobs[k])
                        /\ Gone(Stale(jobs[k])).fresh = FALSE
    OBVIOUS
  <2>2. PICK p : p = [jobs[k] EXCEPT !.fresh = FALSE] OBVIOUS
  <2>3. jobs[k] \in Operations BY <2>1 DEF FillInv, FillTyped
  <2>4. p \in Operations /\ Fallen(p, jobs[k]) /\ p.fresh = FALSE
    BY <2>2, <2>3 DEF Operations, Fallen
  <2>5. PICK q : q = [p EXCEPT !.here = FALSE] OBVIOUS
  <2>6. q \in Operations /\ Fallen(q, jobs[k]) /\ q.fresh = FALSE
    BY <2>4, <2>5 DEF Operations, Fallen
  <2> QED BY <2>2, <2>5, <2>6 DEF Gone, Stale
<1>2. jobs' = [k \in Ops |-> IF jobs[k] = Nil THEN Nil ELSE Gone(Stale(jobs[k]))]
  BY DEF Elsewhere, Each
<1> QED BY <1>1, <1>2, NilAssumption DEF Weakens

LEMMA ElsewhereFills == ASSUME FillInv, Elsewhere PROVE FillInv'
<1>1. Weakens(jobs') /\ \A k \in Ops : jobs'[k] # Nil => ~jobs'[k].fresh
  BY ElsewhereWeak
<1>2. recall' \in Memory /\ recall'.pending = 0 /\ recall'.native = Nil
  BY DEF Elsewhere, FillInv, FillTyped, Memory
<1>3. settled' = Finished("no") /\ settled' \in [Ops -> {"open", "yes", "no"}]
  BY FinishedAnswers DEF Elsewhere
<1>4. FillTyped' /\ bounds'.jobs = bounds.jobs
  BY <1>1, <1>2, <1>3, FreshTyped, EventTyped DEF Elsewhere, FillInv, FillTyped, Memory, Weakens
<1>5. widget'.fill = Nil /\ codes'.fill = Nil /\ codes'.waits = 0 /\ receipt' = Nil
  BY FreshTyped DEF Elsewhere
<1>6. Begun' /\ ReceiptIsAutomatic' /\ PendingRuns'
  BY <1>2, <1>4, <1>5, FillAssumption
     DEF FillTyped, Begun, ReceiptIsAutomatic, PendingRuns
<1>7. \A k \in Ops : \A q \in Operations : jobs'[k] = q => Spares(k, q)
  BY <1>1, <1>2, <1>3, <1>4, <1>5, Forgets, NilAssumption
<1> QED BY <1>1, <1>4, <1>6, <1>7, AllFall

LEMMA LocksFills == ASSUME FillInv, LocksVault PROVE FillInv'
<1>1. Weakens(jobs') /\ \A k \in Ops : jobs'[k] # Nil => ~jobs'[k].fresh
  BY StaleKeysWeak DEF LocksVault, FillInv, Weakens
<1>2. recall' \in Memory /\ recall'.pending = 0 /\ recall'.native = Nil
  BY DEF LocksVault, Memory
<1>3. settled' = Finished("no") /\ settled' \in [Ops -> {"open", "yes", "no"}]
  BY FinishedAnswers DEF LocksVault
<1>4. UNCHANGED <<fields, widget, codes, receipt>> /\ vaultOpen' = FALSE
  BY DEF LocksVault, pageVars
<1>5. FillTyped' /\ bounds'.jobs = bounds.jobs
  <2>1. bounds' \in [jobs : 0..MaxFills, events : Nat] /\ bounds'.jobs = bounds.jobs
    BY EventTyped DEF LocksVault, FillInv
  <2> QED BY ZenonT(30), <1>1, <1>2, <1>3, <1>4, <2>1 DEF FillInv, FillTyped, Memory, Weakens
<1>6. Begun' /\ ReceiptIsAutomatic' /\ PendingRuns'
  BY <1>2, <1>4, <1>5 DEF FillInv, Begun, ReceiptIsAutomatic, PendingRuns
<1>7. \A k \in Ops : \A q \in Operations : jobs'[k] = q => Spares(k, q)
  BY <1>1, <1>2, <1>3, <1>4, <1>5, Forgets, NilAssumption
<1> QED BY <1>1, <1>5, <1>6, <1>7, AllFall

(* The session comes back, is heard of, and the vault changes. *)
LEMMA HearsWeak ==
    ASSUME FillInv, UnlocksVault \/ HearsSession \/ VaultChanges PROVE Weakens(jobs')
<1>1. CASE UnlocksVault
  BY <1>1 DEF UnlocksVault, Weakens, Fallen, FillInv, FillTyped
<1>2. CASE HearsSession BY <1>2, UnwantedWeak DEF HearsSession, FillInv
<1>3. CASE VaultChanges
  <2>1. \A k \in Ops : jobs[k] # Nil =>
           /\ jobs[k] \in Operations /\ Fallen(jobs[k], jobs[k])
           /\ [jobs[k] EXCEPT !.wanted = FALSE] \in Operations
           /\ Fallen([jobs[k] EXCEPT !.wanted = FALSE], jobs[k])
    <3>1. SUFFICES ASSUME NEW k \in Ops, jobs[k] # Nil, NEW q, q = [jobs[k] EXCEPT !.wanted = FALSE]
                   PROVE  /\ jobs[k] \in Operations /\ Fallen(jobs[k], jobs[k])
                          /\ q \in Operations /\ Fallen(q, jobs[k])
      OBVIOUS
    <3>2. jobs[k] \in Operations BY <3>1 DEF FillInv, FillTyped
    <3> QED BY <3>1, <3>2 DEF Operations, Fallen
  <2>2. \A k \in Ops : /\ jobs[k] = Nil => jobs'[k] = Nil
                       /\ jobs[k] # Nil => jobs'[k] \in {jobs[k], [jobs[k] EXCEPT !.wanted = FALSE]}
    BY <1>3 DEF VaultChanges, Each
  <2>3. jobs' = [k \in Ops |-> jobs'[k]] BY <1>3 DEF VaultChanges, Each
  <2>4. ASSUME NEW k \in Ops
        PROVE  /\ jobs'[k] \in Operations \cup {Nil} /\ (jobs[k] = Nil => jobs'[k] = Nil)
               /\ jobs[k] # Nil => jobs'[k] # Nil /\ Fallen(jobs'[k], jobs[k])
    BY <2>2, <2>1, NilAssumption
  <2> QED BY <2>3, <2>4 DEF Weakens
<1> QED BY <1>1, <1>2, <1>3

LEMMA HearsFills == ASSUME FillInv, UnlocksVault \/ HearsSession \/ VaultChanges PROVE FillInv'
<1>1. Weakens(jobs') BY HearsWeak
<1>2. UNCHANGED <<recall, settled, fields>> /\ vaultOpen' \in BOOLEAN
  BY DEF UnlocksVault, HearsSession, VaultChanges, worker, pageVars, FillInv, FillTyped
<1>3. bounds' \in [jobs : 0..MaxFills, events : Nat] /\ bounds'.jobs = bounds.jobs
  BY EventTyped DEF UnlocksVault, HearsSession, VaultChanges, FillInv, FillTyped
<1>4. /\ widget' \in [done : BOOLEAN, manual : BOOLEAN, fill : Outstanding \cup {Nil}]
      /\ codes' \in [fill : Outstanding \cup {Nil}, tried : BOOLEAN, spent : BOOLEAN, waits : Nat]
      /\ receipt' \in {Nil, receipt}
      /\ \/ UNCHANGED <<widget, codes>>
         \/ widget'.fill = Nil /\ codes'.fill = Nil /\ codes'.waits = 0
  <2>1. CASE HearsSession
    BY <2>1 DEF HearsSession, NoCodes, FillInv, FillTyped
  <2>2. CASE UNCHANGED pageVars BY <2>2 DEF pageVars, FillInv, FillTyped
  <2> QED BY <2>1, <2>2 DEF UnlocksVault, VaultChanges
<1>5. FillTyped' BY <1>1, <1>2, <1>3, <1>4 DEF FillInv, FillTyped, Weakens
<1>6. Begun' /\ ReceiptIsAutomatic'
  BY <1>2, <1>3, <1>4, FillAssumption DEF FillInv, FillTyped, Begun, ReceiptIsAutomatic
<1>7. PendingRuns' /\ (PendingUnwritten => PendingUnwritten')
  BY <1>1, <1>2, PendingWeak
<1>8. \A k, q : Spares(k, q)
  BY <1>2, <1>3, <1>4, <1>7, Calmly DEF FillInv, Narrower
<1> QED BY <1>1, <1>5, <1>6, <1>7, <1>8, AllFall

LEMMA EditsFills == ASSUME FillInv, NEW v \in {Nil, Typed}, Edits(v) PROVE FillInv'
<1>1. UNCHANGED <<vaultOpen, recall, settled, news, widget, codes, jobs>> /\ receipt' = Nil
  BY DEF Edits, worker
<1>2. bounds' \in [jobs : 0..MaxFills, events : Nat] /\ bounds'.jobs = bounds.jobs
  BY EventTyped DEF Edits, FillInv
<1>3. FillTyped'
  <2>1. fields' = [fields EXCEPT !.login = v, !.auto = FALSE] BY DEF Edits
  <2>2. fields' \in [login : Fillable \cup {Nil, Typed}, auto : BOOLEAN,
                     otp : Fillable \cup {Nil}, otpOn : BOOLEAN, same : BOOLEAN]
    BY <2>1 DEF FillInv, FillTyped
  <2> QED BY <1>1, <1>2, <2>2 DEF FillInv, FillTyped
<1>4. Begun' /\ ReceiptIsAutomatic'
  BY <1>1, <1>2 DEF FillInv, Begun, ReceiptIsAutomatic
<1>5. Weakens(jobs') BY <1>1 DEF Weakens, Fallen, FillInv, FillTyped
<1>6. PendingRuns' /\ (PendingUnwritten => PendingUnwritten')
  BY <1>1, <1>5, PendingWeak
<1>7. \A k, q : Spares(k, q) BY <1>1, <1>2, <1>6, Calmly DEF FillInv, Narrower
<1> QED BY <1>3, <1>4, <1>5, <1>6, <1>7, AllFall

(* The form, or the stage of it, is replaced in the same document. *)
LEMMA StageReplacedWeak == ASSUME FillInv, StageReplaced PROVE Weakens(jobs')
<1>1. Weakens(Each(jobs, Gone)) /\ Weakens(jobs)
  BY GoneWeak DEF FillInv, FillTyped, Weakens, Fallen
<1>2. jobs' = [k \in Ops |-> jobs'[k]]
      /\ \A k \in Ops : jobs'[k] \in {jobs[k], Each(jobs, Gone)[k]}
  BY NilAssumption DEF StageReplaced, Each
<1> QED BY <1>1, <1>2 DEF Weakens

LEMMA StageReplacedFills == ASSUME FillInv, StageReplaced PROVE FillInv'
<1>1. Weakens(jobs') BY StageReplacedWeak
<1>2. UNCHANGED <<vaultOpen, recall, settled, news, codes>> /\ receipt' = Nil
  BY DEF StageReplaced, worker
<1>3. bounds' \in [jobs : 0..MaxFills, events : Nat] /\ bounds'.jobs = bounds.jobs
  BY EventTyped DEF StageReplaced, FillInv
<1>4. /\ widget' \in [done : BOOLEAN, manual : BOOLEAN, fill : Outstanding \cup {Nil}]
      /\ widget'.fill = Nil
  BY DEF StageReplaced, NoWidget
<1>5. fields' \in [login : Fillable \cup {Nil, Typed}, auto : BOOLEAN,
                   otp : Fillable \cup {Nil}, otpOn : BOOLEAN, same : BOOLEAN]
  <2>1. PICK v \in {fields.login, Nil}, on \in BOOLEAN, same \in BOOLEAN :
           fields' = [fields EXCEPT !.login = v, !.auto = @ /\ v # Nil,
                        !.otpOn = @ \/ on, !.same = IF fields.otpOn THEN @ ELSE on /\ same]
    BY DEF StageReplaced
  <2>2. PICK a \in BOOLEAN, o \in BOOLEAN, m \in BOOLEAN :
           /\ a = (fields.auto /\ v # Nil) /\ o = (fields.otpOn \/ on)
           /\ m = IF fields.otpOn THEN fields.same ELSE on /\ same
    BY DEF FillInv, FillTyped
  <2>3. fields' = [fields EXCEPT !.login = v, !.auto = a, !.otpOn = o, !.same = m]
    BY <2>1, <2>2 DEF FillInv, FillTyped
  <2> QED BY <2>3 DEF FillInv, FillTyped
<1>6. FillTyped' BY <1>1, <1>2, <1>3, <1>4, <1>5 DEF FillInv, FillTyped, Weakens
<1>7. Begun' /\ ReceiptIsAutomatic'
  BY <1>2, <1>3, <1>4 DEF FillInv, Begun, ReceiptIsAutomatic
<1>8. PendingRuns' /\ (PendingUnwritten => PendingUnwritten')
  BY <1>1, <1>2, PendingWeak
<1>9. \A k, q : Spares(k, q)
  BY <1>2, <1>3, <1>4, <1>8, Calmly DEF FillInv, Narrower
<1> QED BY <1>1, <1>6, <1>7, <1>8, <1>9, AllFall

(* A fill of the popup writes. *)
LEMMA WritesNativeFills ==
    ASSUME FillInv, NEW i \in Ops, jobs[i] # Nil, WritesNative(i)
    PROVE  FillInv'
<1>1. /\ jobs[i] \in Operations /\ jobs[i].at = "sent" /\ jobs[i].kind = "native"
      /\ UNCHANGED <<vaultOpen, recall, settled, news, bounds>> /\ JobFits(i, jobs[i])
  BY JobFacts DEF WritesNative, worker
<1>2. CASE Puts(i, "refused") /\ UNCHANGED pageVars
  <2>1. PICK r \in Operations : jobs' = [jobs EXCEPT ![i] = r] /\ r = [jobs[i] EXCEPT !.at = "refused"]
    BY <1>2, GoesForm DEF Steps
  <2>2. r # Nil /\ r.kind = "native" /\ r.at = "refused" /\ r.manual = jobs[i].manual
    BY <1>1, <2>1, NilAssumption DEF Operations
  <2>3. JobFits(i, r) BY <1>1, <2>2 DEF JobFits
  <2> QED BY <1>1, <1>2, <2>1, <2>2, <2>3, Moves DEF worker
<1>3. CASE jobs[i].here
  <2>1. PICK js : js = Unwanted(jobs, {"login", "code"}) OBVIOUS
  <2>2. Weakens(js) BY <2>1, UnwantedWeak DEF FillInv
  <2>3. js[i] \in Operations /\ js[i] # Nil /\ Fallen(js[i], jobs[i])
    BY <2>2, NilAssumption DEF Weakens
  <2>4. PICK at \in {"wrote", "refused"} :
           /\ jobs' = [js EXCEPT ![i].at = at]
           /\ IF at = "wrote"
              THEN /\ fields' = [fields EXCEPT !.login = jobs[i].entry, !.auto = FALSE]
                   /\ receipt' = Nil
              ELSE UNCHANGED <<fields, receipt>>
           /\ widget' = [widget EXCEPT !.manual = @ \/ at = "wrote",
                           !.fill = IF @ # Nil /\ ~@.manual THEN Nil ELSE @]
    BY <1>3, <2>1 DEF WritesNative
  <2>5. PICK r : r = [js[i] EXCEPT !.at = at] OBVIOUS
  <2>6. r \in Operations /\ r.at = at /\ r.kind = "native" /\ r.manual = jobs[i].manual
    BY <1>1, <2>3, <2>5 DEF Operations, Fallen
  <2>7. jobs' \in [Ops -> Operations \cup {Nil}] /\ jobs'[i] = r
        /\ \A k \in Ops \ {i} : jobs'[k] = js[k]
    <3>1. jobs' = [js EXCEPT ![i] = r] BY <2>2, <2>4, <2>5 DEF Weakens
    <3> QED BY <2>2, <2>6, <3>1 DEF Weakens
  <2>8. codes' = NoCodes BY <1>3 DEF WritesNative, Cancelled
  <2>9. PICK f \in {Nil, widget.fill}, m \in BOOLEAN :
           /\ f = IF widget.fill # Nil /\ ~widget.fill.manual THEN Nil ELSE widget.fill
           /\ m = (widget.manual \/ at = "wrote")
    OBVIOUS
  <2>10. widget' = [widget EXCEPT !.manual = m, !.fill = f]
    BY <2>4, <2>9 DEF FillInv, FillTyped
  <2>11. /\ widget' \in [done : BOOLEAN, manual : BOOLEAN, fill : Outstanding \cup {Nil}]
         /\ widget'.fill = f /\ (f # Nil => f.manual)
    BY <2>9, <2>10 DEF FillInv, FillTyped
  <2>12. /\ codes' \in [fill : Outstanding \cup {Nil}, tried : BOOLEAN, spent : BOOLEAN, waits : Nat]
         /\ codes'.fill = Nil /\ codes'.waits = 0
    BY <2>8 DEF NoCodes
  <2>13. fields' \in [login : Fillable \cup {Nil, Typed}, auto : BOOLEAN,
                      otp : Fillable \cup {Nil}, otpOn : BOOLEAN, same : BOOLEAN]
    <3>1. PICK e \in Fillable \cup {Nil} : e = jobs[i].entry BY <1>1 DEF Operations
    <3>2. fields' = fields \/ fields' = [fields EXCEPT !.login = e, !.auto = FALSE]
      BY <2>4, <3>1
    <3> QED BY <3>2 DEF FillInv, FillTyped
  <2>14. FillTyped' BY <1>1, <2>7, <2>11, <2>12, <2>13 DEF FillInv, FillTyped
  <2>15. Begun' /\ ReceiptIsAutomatic'
    BY <1>1, <2>4, <2>9, <2>11, <2>12, FillAssumption
       DEF FillInv, FillTyped, Begun, ReceiptIsAutomatic
  <2>16. PendingRuns'
    BY <1>1, <2>2, <2>6, <2>7, NilAssumption DEF FillInv, PendingRuns, Weakens, Fallen
  <2>17. JobFits(i, r)' BY <1>1, <2>6, <2>9, <2>11 DEF JobFits
  <2>18. ASSUME NEW k \in Ops \ {i}, NEW q \in Operations, jobs'[k] = q
         PROVE  jobs[k] # Nil /\ Fallen(q, jobs[k]) /\ Spares(k, q)
    <3>1. jobs[k] # Nil /\ Fallen(q, jobs[k])
      BY <2>2, <2>7, <2>18, NilAssumption DEF Weakens
    <3>2. q.manual = jobs[k].manual /\ JobFits(k, jobs[k])
      BY <3>1, JobFacts DEF Fallen
    <3>3. Held(k, q)' => q.manual
      BY <2>9, <2>11, <2>12, <3>2 DEF Held, JobFits
    <3>4. bounds.jobs \in Nat /\ \A n : Answered(n) => Answered(n)'
      BY <1>1, FillAssumption DEF FillInv, FillTyped, Answered
    <3> QED BY <1>1, <2>9, <2>11, <3>1, <3>3, <3>4 DEF Spares, Narrower
  <2>19. \A k \in Ops \cap {i} : jobs'[k] # Nil => JobFits(k, jobs[k])'
    BY <2>7, <2>17
  <2>20. JobsFit' BY <2>7, <2>18, <2>19, Rest
  <2> QED BY <2>14, <2>15, <2>16, <2>20 DEF FillInv
<1> QED BY <1>2, <1>3 DEF WritesNative

-----------------------------------------------------------------------------
(* An operation begins. *)

(* The next operation is none of those that anything speaks of. *)
LEMMA NewFacts ==
    ASSUME FillInv, NEW js \in [Ops -> Operations \cup {Nil}], NEW j \in Operations, With(js, j),
           NEW n, n = NewId
    PROVE  /\ n \in Ops /\ n = bounds.jobs + 1 /\ bounds.jobs \in Nat
           /\ jobs' = [js EXCEPT ![n] = j] /\ jobs' \in [Ops -> Operations \cup {Nil}]
           /\ bounds' \in [jobs : 0..MaxFills, events : Nat] /\ bounds'.jobs = n
           /\ jobs[n] = Nil /\ recall.pending # n /\ codes.waits # n
           /\ widget.fill # Nil => widget.fill.id # n
           /\ codes.fill # Nil => codes.fill.id # n
<1>1. /\ n \in Ops /\ jobs' = [js EXCEPT ![n] = j] /\ bounds' = [bounds EXCEPT !.jobs = n]
  BY DEF With
<1>2. bounds.jobs \in Nat /\ n = bounds.jobs + 1 /\ n \in 0..MaxFills
  BY <1>1, FillAssumption DEF FillInv, FillTyped, NewId, Ops
<1>3. jobs[n] = Nil BY <1>1, <1>2, JobFacts
<1>4. recall.pending # n /\ codes.waits # n
  BY <1>2, <1>3 DEF FillInv, PendingRuns, Begun, FillTyped
<1>5. /\ widget.fill # Nil => widget.fill.id # n
      /\ codes.fill # Nil => codes.fill.id # n
  BY <1>2 DEF FillInv, Begun, FillTyped, Outstanding, Ops
<1>6. jobs' \in [Ops -> Operations \cup {Nil}] BY <1>1
<1>7. bounds' \in [jobs : 0..MaxFills, events : Nat] /\ bounds'.jobs = n
  BY <1>1, <1>2 DEF FillInv, FillTyped
<1> QED BY <1>1, <1>2, <1>3, <1>4, <1>5, <1>6, <1>7

LEMMA Opens ==
    ASSUME FillInv, NEW js, Weakens(js), NEW j \in Operations, With(js, j),
           NEW n, n = NewId, JobFits(n, j)', FillTyped', Begun', ReceiptIsAutomatic',
           PendingRuns', \A k \in Ops \ {n} : \A q \in Operations : js[k] = q => Spares(k, q)
    PROVE  FillInv'
<1>1. /\ n \in Ops /\ jobs' = [js EXCEPT ![n] = j] /\ jobs' \in [Ops -> Operations \cup {Nil}]
  BY NewFacts DEF Weakens
<1>2. jobs'[n] = j /\ \A k \in Ops \ {n} : jobs'[k] = js[k]
  BY <1>1 DEF Weakens
<1>3. \A k \in Ops \ {n} : \A q \in Operations : jobs'[k] = q =>
         jobs[k] # Nil /\ Fallen(q, jobs[k]) /\ Spares(k, q)
  BY <1>2, NilAssumption DEF Weakens
<1>4. \A k \in Ops \cap {n} : jobs'[k] # Nil => JobFits(k, jobs[k])' BY <1>2
<1>5. JobsFit' BY <1>1, <1>3, <1>4, Rest
<1> QED BY <1>5 DEF FillInv

(* One of the page: what the popup does is as it was. *)
LEMMA PageOpens ==
    ASSUME FillInv, NEW js, Weakens(js), NEW j \in Operations, With(js, j),
           NEW n, n = NewId, j.kind # "native", j.at \notin {"send", "sent"},
           j.manual => j.at = "check",
           j.at \in {"listwait", "fillwait"} => j.on = recall.pending /\ j.on # 0,
           UNCHANGED <<worker, fields>>,
           widget' \in [done : BOOLEAN, manual : BOOLEAN, fill : Outstanding \cup {Nil}],
           codes' \in [fill : Outstanding \cup {Nil}, tried : BOOLEAN, spent : BOOLEAN, waits : Nat],
           \/ widget'.fill = widget.fill /\ codes'.waits = codes.waits
           \/ /\ widget'.fill # Nil /\ widget'.fill.id = n
              /\ widget'.fill.manual /\ j.manual /\ codes'.waits = n,
           codes'.fill \in {Nil, codes.fill} \/ codes'.fill.id = n,
           receipt' \in {Nil, receipt}
    PROVE  FillInv'
<1>1. /\ n \in Ops /\ n = bounds.jobs + 1 /\ bounds.jobs \in Nat
      /\ jobs' = [js EXCEPT ![n] = j] /\ jobs' \in [Ops -> Operations \cup {Nil}]
      /\ bounds' \in [jobs : 0..MaxFills, events : Nat] /\ bounds'.jobs = n
      /\ jobs[n] = Nil /\ recall.pending # n
      /\ widget.fill # Nil => widget.fill.id # n
      /\ codes.fill # Nil => codes.fill.id # n
  BY NewFacts DEF Weakens
<1>2. FillTyped' BY <1>1 DEF FillInv, FillTyped, worker
<1>3. Begun' /\ ReceiptIsAutomatic'
  BY <1>1 DEF FillInv, FillTyped, Outstanding, Ops, Begun, ReceiptIsAutomatic
<1>4. PendingRuns' /\ (PendingUnwritten => PendingUnwritten')
  BY <1>1 DEF FillInv, PendingRuns, PendingUnwritten, Weakens, Fallen, worker
<1>5. JobFits(n, j)'
  BY <1>1, PendingBegun DEF FillInv, FillTyped, Outstanding, Operations, JobFits, Answered, worker
<1>6. \A k \in Ops \ {n} : \A q \in Operations : js[k] = q => Spares(k, q)
  BY <1>1, <1>4, Calmly DEF FillInv, Narrower, worker
<1> QED BY <1>2, <1>3, <1>4, <1>5, <1>6, Opens

LEMMA JobsWeaken == FillInv => Weakens(jobs)
BY DEF FillInv, FillTyped, Weakens, Fallen

(* A list is asked for: it may have to wait for the popup. *)
LEMMA ListingFacts ==
    ASSUME FillInv, NEW kind \in {"login", "code"}
    PROVE  /\ Listing(kind) \in Operations /\ Listing(kind).kind = kind
           /\ Listing(kind).manual = FALSE
           /\ \/ Listing(kind).at = "choose"
              \/ /\ Listing(kind).at = "listwait" /\ Listing(kind).on = recall.pending
                 /\ recall.pending # 0
<1>1. recall.pending \in Nat BY DEF FillInv, FillTyped
<1>2. PICK j : j = Job(kind, FALSE, Nil, TRUE, "list") OBVIOUS
<1>3. CASE recall.pending # 0
  <2>1. PICK r : r = [j EXCEPT !.at = "listwait", !.on = recall.pending]
    OBVIOUS
  <2>2. r \in Operations /\ r.kind = kind /\ r.manual = FALSE /\ r.at = "listwait"
        /\ r.on = recall.pending
    BY <1>1, <1>2, <2>1 DEF Job, Operations
  <2> QED BY <1>2, <1>3, <2>1, <2>2 DEF Listing, Asked
<1>4. CASE recall.pending = 0
  <2>1. PICK r : r = [j EXCEPT !.at = "choose", !.fresh = TRUE, !.on = 0]
    OBVIOUS
  <2>2. r \in Operations /\ r.kind = kind /\ r.manual = FALSE /\ r.at = "choose"
    BY <1>2, <2>1 DEF Job, Operations
  <2> QED BY <1>2, <1>4, <2>1, <2>2 DEF Listing, Asked
<1> QED BY <1>3, <1>4
LEMMA CheckMade ==
    ASSUME NEW kind \in {"login", "code"}, NEW e \in Fillable, NEW firm \in BOOLEAN, NEW j,
           j = Job(kind, TRUE, e, firm, "check")
    PROVE  j \in Operations /\ j.kind = kind /\ j.manual = TRUE /\ j.at = "check"
BY DEF Job, Operations

LEMMA AutoBeginsFills == ASSUME FillInv, AutoBegins PROVE FillInv'
<1>1. PICK j : j = Listing("login") OBVIOUS
<1>2. /\ j \in Operations /\ j.kind # "native" /\ ~j.manual
      /\ j.at = "choose" \/ (j.at = "listwait" /\ j.on = recall.pending /\ j.on # 0)
  BY <1>1, ListingFacts
<1>3. With(jobs, j) /\ UNCHANGED <<worker, fields, widget, codes, receipt>>
  BY <1>1 DEF AutoBegins, pageVars
<1>4. PICK n : n = NewId OBVIOUS
<1>5. /\ widget' \in [done : BOOLEAN, manual : BOOLEAN, fill : Outstanding \cup {Nil}]
      /\ codes' \in [fill : Outstanding \cup {Nil}, tried : BOOLEAN, spent : BOOLEAN, waits : Nat]
  BY <1>3 DEF FillInv, FillTyped
<1> QED BY <1>2, <1>3, <1>4, <1>5, JobsWeaken, PageOpens

LEMMA CodeBeginsFills == ASSUME FillInv, CodeBegins PROVE FillInv'
<1>1. PICK j : j = Listing("code") OBVIOUS
<1>2. /\ j \in Operations /\ j.kind # "native" /\ ~j.manual
      /\ j.at = "choose" \/ (j.at = "listwait" /\ j.on = recall.pending /\ j.on # 0)
  BY <1>1, ListingFacts
<1>3. With(jobs, j) /\ UNCHANGED <<worker, fields, widget, receipt>>
  BY <1>1 DEF CodeBegins
<1>4. PICK n : n = NewId OBVIOUS
<1>5. /\ widget' \in [done : BOOLEAN, manual : BOOLEAN, fill : Outstanding \cup {Nil}]
      /\ codes' \in [fill : Outstanding \cup {Nil}, tried : BOOLEAN, spent : BOOLEAN, waits : Nat]
      /\ codes'.fill = codes.fill /\ codes'.waits = codes.waits
  BY <1>3 DEF CodeBegins, FillInv, FillTyped
<1> QED BY <1>2, <1>3, <1>4, <1>5, JobsWeaken, PageOpens

LEMMA ManualLoginFills ==
    ASSUME FillInv, NEW e \in Fillable, NEW exact \in BOOLEAN, ManualLogin(e, exact)
    PROVE  FillInv'
<1>1. PICK j : j = Job("login", TRUE, e, exact, "check") OBVIOUS
<1>2. j \in Operations /\ j.kind = "login" /\ j.manual /\ j.at = "check"
  BY ZenonT(30), <1>1, CheckMade
<1>3. PICK js : js = Unwanted(jobs, {"login", "code"}) OBVIOUS
<1>4. Weakens(js) BY <1>3, UnwantedWeak DEF FillInv
<1>5. PICK n : n = NewId OBVIOUS
<1>6. With(js, j) /\ n \in Ops /\ n \in Nat
  BY <1>1, <1>3, <1>5 DEF ManualLogin, With, Ops
<1>7. PICK f : f = Fill(n, TRUE, fields.login) OBVIOUS
<1>8. f \in Outstanding /\ f # Nil /\ f.id = n /\ f.manual = TRUE
  <2>1. fields.login \in Fillable \cup {Nil, Typed} BY DEF FillInv, FillTyped
  <2> QED BY <1>6, <1>7, <2>1, FillMade
<1>9. /\ widget' = [widget EXCEPT !.manual = FALSE, !.fill = f]
      /\ codes' = [NoCodes EXCEPT !.waits = n] /\ receipt' = Nil /\ UNCHANGED <<worker, fields>>
  BY <1>5, <1>7 DEF ManualLogin
<1>10. /\ widget' \in [done : BOOLEAN, manual : BOOLEAN, fill : Outstanding \cup {Nil}]
       /\ widget'.fill = f
  BY <1>8, <1>9 DEF FillInv, FillTyped
<1>11. /\ codes' \in [fill : Outstanding \cup {Nil}, tried : BOOLEAN, spent : BOOLEAN, waits : Nat]
       /\ codes'.fill = Nil /\ codes'.waits = n
  BY <1>6, <1>9 DEF NoCodes
<1> QED BY <1>2, <1>4, <1>5, <1>6, <1>8, <1>9, <1>10, <1>11, PageOpens

LEMMA ManualCodeFills ==
    ASSUME FillInv, NEW e \in Fillable, NEW exact \in BOOLEAN, ManualCode(e, exact)
    PROVE  FillInv'
<1>1. PICK j : j = Job("code", TRUE, e, exact, "check") OBVIOUS
<1>2. j \in Operations /\ j.kind = "code" /\ j.manual /\ j.at = "check"
  BY <1>1, CheckMade
<1>3. PICK js : js = Unwanted(jobs, {"code"}) OBVIOUS
<1>4. Weakens(js) BY <1>3, UnwantedWeak DEF FillInv
<1>5. PICK n : n = NewId OBVIOUS
<1>6. With(js, j) /\ n \in Ops /\ UNCHANGED <<worker, fields, widget, receipt>>
  BY <1>1, <1>3, <1>5 DEF ManualCode, With
<1>7. PICK f : f = Fill(n, TRUE, Nil) OBVIOUS
<1>8. f \in Outstanding /\ f.id = n BY <1>6, <1>7, FillMade
<1>9. codes' = [codes EXCEPT !.fill = f] BY <1>5, <1>7 DEF ManualCode
<1>10. /\ widget' \in [done : BOOLEAN, manual : BOOLEAN, fill : Outstanding \cup {Nil}]
       /\ codes' \in [fill : Outstanding \cup {Nil}, tried : BOOLEAN, spent : BOOLEAN, waits : Nat]
       /\ codes'.fill = f /\ codes'.waits = codes.waits
  BY <1>6, <1>8, <1>9 DEF FillInv, FillTyped
<1> QED BY <1>2, <1>4, <1>5, <1>6, <1>8, <1>10, PageOpens

(* A fill of the popup begins: what runs is stale, and what waits for the    *)
(* one before it hears that it has failed.                                   *)
LEMMA NativeBeginsFills ==
    ASSUME FillInv, NEW e \in Fillable, NEW submit \in BOOLEAN, NativeBegins(e, submit)
    PROVE  FillInv'
<1>1. PICK j : j = Job("native", TRUE, e, submit, "send") OBVIOUS
<1>2. j \in Operations /\ j.kind = "native" /\ j.manual /\ j.at = "send"
  BY <1>1 DEF Job, Operations
<1>3. PICK js : js = Each(jobs, Stale) OBVIOUS
<1>4. Weakens(js) /\ \A k \in Ops : js[k] # Nil => ~js[k].fresh
  BY <1>3, StaleWeak DEF FillInv, Weakens
<1>5. PICK n : n = NewId OBVIOUS
<1>6. With(js, j) /\ UNCHANGED <<vaultOpen, news, fields, widget, codes, receipt>>
  BY <1>1, <1>3 DEF NativeBegins, pageVars
<1>7. /\ n \in Ops /\ n = bounds.jobs + 1 /\ bounds.jobs \in Nat
      /\ jobs' = [js EXCEPT ![n] = j] /\ jobs' \in [Ops -> Operations \cup {Nil}]
      /\ bounds' \in [jobs : 0..MaxFills, events : Nat] /\ bounds'.jobs = n
      /\ jobs[n] = Nil /\ recall.pending # n
      /\ widget.fill # Nil => widget.fill.id # n
      /\ codes.fill # Nil => codes.fill.id # n
  BY <1>2, <1>4, <1>5, <1>6, NewFacts DEF Weakens
<1>8. n \in Nat /\ n # 0 BY <1>7
<1>9. /\ recall' = [recall EXCEPT !.pending = n]
      /\ settled' = [Finished("no") EXCEPT ![n] = "open"]
  BY <1>5 DEF NativeBegins
<1>10. recall' \in Memory /\ recall'.pending = n /\ recall'.native = recall.native
  BY <1>8, <1>9 DEF FillInv, FillTyped, Memory
<1>11. /\ settled' \in [Ops -> {"open", "yes", "no"}]
       /\ \A m \in 1..bounds.jobs : Answered(m) => Answered(m)'
  BY <1>7, <1>9, FinishedAnswers DEF Answered
<1>12. FillTyped' BY <1>6, <1>10, <1>11, <1>7 DEF FillInv, FillTyped, Memory
<1>13. Begun' /\ ReceiptIsAutomatic'
  BY <1>6, <1>7 DEF FillInv, FillTyped, Outstanding, Ops, Begun, ReceiptIsAutomatic
<1>14. jobs'[n] = j /\ j # Nil BY <1>2, <1>4, <1>7, NilAssumption DEF Weakens
<1>15. PendingRuns' /\ PendingUnwritten'
  BY <1>2, <1>7, <1>10, <1>14 DEF PendingRuns, PendingUnwritten
<1>16. JobFits(n, j)'
  <2>1. n <= bounds'.jobs /\ ~(widget'.fill # Nil /\ widget'.fill.id = n)
    BY <1>6, <1>7, <1>8
  <2> QED BY <1>2, <2>1 DEF JobFits
<1>17. ASSUME NEW k \in Ops \ {n}, NEW q \in Operations, js[k] = q
       PROVE  Spares(k, q)
  BY <1>4, <1>17, NilAssumption, <1>6, <1>7, <1>10, <1>11, <1>15 DEF Held, Spares, Narrower
<1> QED BY <1>2, <1>4, <1>5, <1>6, <1>12, <1>13, <1>15, <1>16, <1>17, Opens

-----------------------------------------------------------------------------
(* Codes that wait for a login picked in the menu. *)

Standing(j) == j # Nil /\ j.kind = "login" /\ j.manual /\ j.here
LEMMA Stands ==
    ASSUME FillInv, CodesAreFreed, codes'.waits = codes.waits,
           \A k \in Ops : codes.waits = k /\ Standing(jobs[k]) => Standing(jobs'[k])
    PROVE  CodesAreFreed'
<1>1. codes.waits # 0 => codes.waits \in Ops
  BY FillAssumption DEF FillInv, FillTyped, Begun, Ops
<1> QED BY <1>1 DEF CodesAreFreed, Standing

(* One operation goes on, the others stand as they did. *)
LEMMA StandsOne ==
    ASSUME FillInv, CodesAreFreed, codes'.waits = codes.waits, NEW i \in Ops,
           \A k \in Ops \ {i} : jobs'[k] = jobs[k], Standing(jobs[i]) => Standing(jobs'[i])
    PROVE  CodesAreFreed'
BY Stands

LEMMA PageFrees ==
    ASSUME FillInv, CodesAreFreed, NEW i \in Ops, jobs[i] # Nil,
           \/ ListHears(i) \/ Returns(i) \/ OffersLogin(i) \/ OffersCode(i)
           \/ \E e \in Fillable : Chooses(i, e)
           \/ Asks(i) \/ FillHears(i)
    PROVE  CodesAreFreed'
<1>1. ~Standing(jobs[i])
  BY JobFacts DEF ListHears, Returns, OffersLogin, OffersCode, Proposes, Declines, Chooses,
     Asks, FillHears, Standing
<1>2. codes'.waits = codes.waits
  BY DEF ListHears, Returns, OffersLogin, OffersCode, Chooses, Asks, FillHears, pageVars,
     FillInv, FillTyped
<1>3. \A k \in Ops \ {i} : jobs'[k] = jobs[k]
  BY DEF ListHears, Returns, OffersLogin, OffersCode, Proposes, Declines, Chooses,
     Asks, FillHears, Puts, Drops, FillInv, FillTyped
<1> QED BY <1>1, <1>2, <1>3, StandsOne

LEMMA WorkerFrees ==
    ASSUME FillInv, CodesAreFreed, NEW i \in Ops, jobs[i] # Nil,
           Checks(i) \/ Sends(i) \/ WritesLogin(i) \/ WritesCode(i)
    PROVE  CodesAreFreed'
<1>1. jobs[i] \in Operations BY JobFacts
<1>2. codes'.waits = codes.waits
  BY DEF Checks, Sends, WritesLogin, WritesCode, pageVars, FillInv, FillTyped
<1>3. \A k \in Ops \ {i} : jobs'[k] = jobs[k]
  BY DEF Checks, Sends, WritesLogin, WritesCode, Puts, FillInv, FillTyped
<1>4. ASSUME NEW q, jobs'[i] = q, NEW at, NEW b, NEW c,
             q = [jobs[i] EXCEPT !.at = at] \/ q = [jobs[i] EXCEPT !.at = at, !.keys = c]
             \/ q = [jobs[i] EXCEPT !.at = at, !.fresh = b, !.keys = c],
             at \in Steps, b \in BOOLEAN, c \in BOOLEAN
      PROVE  CodesAreFreed'
  <2>1. /\ q.kind = jobs[i].kind /\ q.manual = jobs[i].manual /\ q.here = jobs[i].here
        /\ q \in Operations
    BY <1>1, <1>4 DEF Operations, Steps
  <2>2. Standing(jobs[i]) => Standing(jobs'[i])
    BY <1>4, <2>1, NilAssumption DEF Standing
  <2> QED BY <1>2, <1>3, <2>2, StandsOne
<1>5. ASSUME NEW at \in Steps, Puts(i, at) PROVE CodesAreFreed'
  <2>1. jobs'[i] = [jobs[i] EXCEPT !.at = at] BY <1>5 DEF Puts, FillInv, FillTyped
  <2> QED BY <1>4, <2>1
<1>6. CASE ~jobs[i].manual BY <1>2, <1>3, <1>6, StandsOne DEF Standing
<1>7. CASE jobs[i].manual /\ Checks(i)
  <2>1. CASE \E at \in Steps : Puts(i, at) BY <1>5, <2>1
  <2>2. CASE jobs' = [jobs EXCEPT ![i].at = "send", ![i].fresh = TRUE,
                                  ![i].keys = jobs[i].kind = "code"]
    <3>1. PICK c \in BOOLEAN : c = (jobs[i].kind = "code") OBVIOUS
    <3>2. jobs'[i] = [jobs[i] EXCEPT !.at = "send", !.fresh = TRUE, !.keys = c]
      BY <2>2, <3>1 DEF FillInv, FillTyped
    <3> QED BY <1>4, <3>2 DEF Steps
  <2> QED BY <1>7, <2>1, <2>2 DEF Checks, Steps
<1>8. CASE Sends(i)
  <2>1. PICK at \in {"sent", "refused"} : at = IF MaySend(jobs[i]) THEN "sent" ELSE "refused"
    OBVIOUS
  <2>2. jobs'[i] = [jobs[i] EXCEPT !.at = at, !.keys = FALSE]
    BY <1>8, <2>1 DEF Sends, FillInv, FillTyped
  <2> QED BY <1>4, <2>2 DEF Steps
<1>9. CASE WritesLogin(i) \/ WritesCode(i)
  <2>1. \E at \in {"wrote", "refused"} : Puts(i, at) BY <1>9 DEF WritesLogin, WritesCode
  <2> QED BY <1>5, <2>1 DEF Steps
<1> QED BY <1>6, <1>7, <1>8, <1>9

LEMMA EndsFree ==
    ASSUME FillInv, CodesAreFreed, NEW i \in Ops, jobs[i] # Nil,
           WritesNative(i) \/ EndsLogin(i) \/ EndsCode(i) \/ NativeEnds(i)
    PROVE  CodesAreFreed'
<1>1. CASE WritesNative(i)
  <2>1. CASE jobs[i].here
    <3>1. codes' = NoCodes BY <1>1, <2>1 DEF WritesNative, Cancelled
    <3> QED BY <3>1 DEF NoCodes, CodesAreFreed
  <2>2. CASE Puts(i, "refused") /\ UNCHANGED pageVars
    <3>1. ~Standing(jobs[i]) BY <1>1 DEF WritesNative, Standing
    <3>2. \A k \in Ops \ {i} : jobs'[k] = jobs[k] BY <2>2 DEF Puts, FillInv, FillTyped
    <3> QED BY <2>2, <3>1, <3>2, StandsOne DEF pageVars
  <2> QED BY <1>1, <2>1, <2>2 DEF WritesNative
<1>2. CASE EndsLogin(i)
  <2>1. codes'.waits \in {0, codes.waits}
    BY <1>2 DEF EndsLogin, FillInv, FillTyped
  <2>2. codes.waits = i /\ Standing(jobs[i]) => codes'.waits = 0
    BY <1>2 DEF EndsLogin, Standing, FillInv, FillTyped
  <2>3. \A k \in Ops \ {i} : jobs'[k] = jobs[k]
    BY <1>2 DEF EndsLogin, AnswersBack, Drops, FillInv, FillTyped
  <2>4. CASE codes'.waits = 0 BY <2>4 DEF CodesAreFreed
  <2>5. CASE codes'.waits = codes.waits /\ codes'.waits # 0
    <3>1. \A k \in Ops : codes.waits = k /\ Standing(jobs[k]) => Standing(jobs'[k])
      BY <2>2, <2>3, <2>5
    <3> QED BY <2>5, <3>1, Stands
  <2> QED BY <2>1, <2>4, <2>5
<1>3. CASE EndsCode(i) \/ NativeEnds(i)
  <2>1. ~Standing(jobs[i]) BY <1>3 DEF EndsCode, NativeEnds, AnswersBack, Standing
  <2>2. codes'.waits = codes.waits /\ \A k \in Ops \ {i} : jobs'[k] = jobs[k]
    BY <1>3 DEF EndsCode, NativeEnds, AnswersBack, Drops, pageVars, FillInv, FillTyped
  <2> QED BY <2>1, <2>2, StandsOne
<1> QED BY <1>1, <1>2, <1>3

LEMMA BeginsFree ==
    ASSUME FillInv, CodesAreFreed,
           \/ AutoBegins \/ CodeBegins
           \/ \E e \in Fillable, b \in BOOLEAN :
                 ManualLogin(e, b) \/ ManualCode(e, b) \/ NativeBegins(e, b)
    PROVE  CodesAreFreed'
<1>1. ASSUME NEW js, \A k \in Ops : Standing(jobs[k]) => Standing(js[k]),
             js \in [Ops -> Operations \cup {Nil}], NEW j, With(js, j), codes'.waits = codes.waits
      PROVE  CodesAreFreed'
  <2>1. PICK n : n = NewId OBVIOUS
  <2>2. n \in Ops /\ n = bounds.jobs + 1 /\ jobs' = [js EXCEPT ![n] = j]
    BY <1>1, <2>1 DEF With, NewId
  <2>3. codes.waits # n BY <2>2 DEF FillInv, FillTyped, Begun
  <2>4. \A k \in Ops \ {n} : jobs'[k] = js[k] BY <1>1, <2>2
  <2> QED BY <1>1, <2>3, <2>4, Stands
<1>2. CASE AutoBegins \/ CodeBegins
  <2>1. codes'.waits = codes.waits /\ \E j : With(jobs, j)
    BY <1>2 DEF AutoBegins, CodeBegins, pageVars, FillInv, FillTyped
  <2> QED BY <1>1, <2>1 DEF FillInv, FillTyped
<1>3. ASSUME NEW e \in Fillable, NEW b \in BOOLEAN, ManualLogin(e, b) PROVE CodesAreFreed'
  <2>1. PICK n, j, js : /\ n = NewId /\ j = Job("login", TRUE, e, b, "check")
                        /\ js = Unwanted(jobs, {"login", "code"})
    OBVIOUS
  <2>2. j \in Operations /\ Standing(j)
    <3>1. j \in Operations /\ j.kind = "login" /\ j.manual = TRUE /\ j.here
      BY <2>1 DEF Job, Operations
    <3> QED BY <3>1, NilAssumption DEF Standing
  <2>3. js \in [Ops -> Operations \cup {Nil}]
    BY <2>1, UnwantedWeak DEF FillInv, Weakens
  <2>4. n \in Ops /\ jobs' = [js EXCEPT ![n] = j] /\ codes' = [NoCodes EXCEPT !.waits = n]
    BY <1>3, <2>1 DEF ManualLogin, With
  <2>5. jobs'[n] = j /\ codes'.waits = n BY <2>3, <2>4 DEF NoCodes
  <2> QED BY <2>2, <2>5 DEF CodesAreFreed, Standing
<1>4. ASSUME NEW e \in Fillable, NEW b \in BOOLEAN, ManualCode(e, b) PROVE CodesAreFreed'
  <2>1. codes'.waits = codes.waits BY <1>4 DEF ManualCode, FillInv, FillTyped
  <2>2. \A k \in Ops : Standing(jobs[k]) => Unwanted(jobs, {"code"})[k] = jobs[k]
    BY DEF Standing, Unwanted, Each
  <2>3. Unwanted(jobs, {"code"}) \in [Ops -> Operations \cup {Nil}]
    BY UnwantedWeak DEF FillInv, Weakens
  <2> QED BY <1>1, <1>4, <2>1, <2>2, <2>3 DEF ManualCode
<1>5. ASSUME NEW e \in Fillable, NEW b \in BOOLEAN, NativeBegins(e, b) PROVE CodesAreFreed'
  <2>1. \A k \in Ops : Standing(jobs[k]) => Standing(Each(jobs, Stale)[k])
    <3>1. SUFFICES ASSUME NEW k \in Ops, Standing(jobs[k]), NEW q, q = [jobs[k] EXCEPT !.fresh = FALSE]
                   PROVE  Standing(q)
      BY DEF Each, Stale, Standing
    <3>2. jobs[k] \in Operations BY <3>1 DEF Standing, FillInv, FillTyped
    <3>3. q \in Operations /\ q.kind = jobs[k].kind /\ q.manual = jobs[k].manual
          /\ q.here = jobs[k].here
      BY <3>1, <3>2 DEF Operations
    <3> QED BY <3>1, <3>3, NilAssumption DEF Standing
  <2>2. Each(jobs, Stale) \in [Ops -> Operations \cup {Nil}]
    BY StaleWeak DEF FillInv, Weakens
  <2> QED BY <1>1, <1>5, <2>1, <2>2 DEF NativeBegins, pageVars
<1> QED BY <1>2, <1>3, <1>4, <1>5

LEMMA WorldFrees ==
    ASSUME FillInv, CodesAreFreed,
           \/ \E v \in {Nil, Typed} : Edits(v)
           \/ StageReplaced \/ NewDocument \/ Elsewhere \/ VaultChanges
           \/ LocksVault \/ UnlocksVault \/ HearsSession
    PROVE  CodesAreFreed'
<1>1. CASE NewDocument \/ Elsewhere \/ HearsSession
  <2>1. codes' = NoCodes BY <1>1 DEF NewDocument, Elsewhere, HearsSession, FreshPage
  <2> QED BY <2>1 DEF NoCodes, CodesAreFreed
<1>2. CASE LocksVault
  <2>1. ASSUME NEW k \in Ops, Standing(jobs[k]) PROVE Standing(jobs'[k])
    <3>1. PICK q : q = [jobs[k] EXCEPT !.fresh = FALSE, !.keys = FALSE] OBVIOUS
    <3>2. jobs[k] \in Operations BY <2>1 DEF Standing, FillInv, FillTyped
    <3>3. q \in Operations /\ q.kind = jobs[k].kind /\ q.manual = jobs[k].manual
          /\ q.here = jobs[k].here
      BY <3>1, <3>2 DEF Operations
    <3>4. jobs'[k] = q BY <1>2, <2>1, <3>1 DEF LocksVault, Each, StaleKeys, Standing
    <3> QED BY <2>1, <3>3, <3>4, NilAssumption DEF Standing
  <2> QED BY <1>2, <2>1, Stands DEF LocksVault, pageVars
<1>3. CASE UnlocksVault \/ \E v \in {Nil, Typed} : Edits(v)
  BY <1>3, Stands DEF UnlocksVault, Edits, pageVars
<1>4. CASE StageReplaced \/ VaultChanges
  <2>1. \A k \in Ops : Standing(jobs[k]) => jobs'[k] = jobs[k]
    BY <1>4 DEF StageReplaced, VaultChanges, Each, Standing
  <2> QED BY <1>4, <2>1, Stands DEF StageReplaced, VaultChanges, pageVars
<1> QED BY <1>1, <1>2, <1>3, <1>4

-----------------------------------------------------------------------------
(* The invariant. *)

LEMMA FillsBegin == FillInit => FillInv
<1>1. SUFFICES ASSUME FillInit PROVE FillInv OBVIOUS
<1>2. bounds \in [jobs : 0..MaxFills, events : Nat] /\ bounds.jobs \in Nat
  BY <1>1, FillAssumption DEF FillInit
<1>3. fields \in [login : Fillable \cup {Nil, Typed}, auto : BOOLEAN,
                  otp : Fillable \cup {Nil}, otpOn : BOOLEAN, same : BOOLEAN]
  BY <1>1, BlankTyped DEF FillInit
<1>4. /\ widget \in [done : BOOLEAN, manual : BOOLEAN, fill : Outstanding \cup {Nil}]
      /\ codes \in [fill : Outstanding \cup {Nil}, tried : BOOLEAN, spent : BOOLEAN, waits : Nat]
      /\ widget.fill = Nil /\ codes.fill = Nil /\ codes.waits = 0
  BY <1>1 DEF FillInit, NoWidget, NoCodes
<1>5. FillTyped BY <1>1, <1>2, <1>3, <1>4 DEF FillInit, FillTyped
<1>6. PendingRuns /\ Begun /\ JobsFit /\ ReceiptIsAutomatic
  BY <1>1, <1>2, <1>4 DEF FillInit, PendingRuns, Begun, JobsFit, ReceiptIsAutomatic
<1> QED BY <1>5, <1>6 DEF FillInv

LEMMA FillsStep == ASSUME FillInv, FillNext PROVE FillInv'
<1>1. ASSUME NEW i \in Ops, jobs[i] # Nil,
             \/ ListHears(i) \/ Returns(i) \/ OffersLogin(i) \/ OffersCode(i)
             \/ \E e \in Fillable : Chooses(i, e)
             \/ Asks(i) \/ FillHears(i) \/ Checks(i) \/ Sends(i)
             \/ WritesLogin(i) \/ WritesCode(i) \/ WritesNative(i)
             \/ EndsLogin(i) \/ EndsCode(i) \/ NativeEnds(i)
      PROVE  FillInv'
  BY <1>1, ListHearsFills, ReturnsFills, OffersLoginFills, OffersCodeFills, ChoosesFills, AsksFills,
     FillHearsFills, ChecksFills, SendsFills, WritesLoginFills, WritesCodeFills, WritesNativeFills,
     EndsLoginFills, EndsCodeFills, NativeEndsFills
<1>2. ASSUME NEW e \in Fillable, NEW b \in BOOLEAN,
             ManualLogin(e, b) \/ ManualCode(e, b) \/ NativeBegins(e, b)
      PROVE  FillInv'
  BY <1>2, ManualLoginFills, ManualCodeFills, NativeBeginsFills
<1>3. CASE AutoBegins \/ CodeBegins BY <1>3, AutoBeginsFills, CodeBeginsFills
<1>4. CASE \/ \E v \in {Nil, Typed} : Edits(v)
           \/ StageReplaced \/ NewDocument \/ Elsewhere \/ VaultChanges
           \/ LocksVault \/ UnlocksVault \/ HearsSession
  BY <1>4, EditsFills, StageReplacedFills, NewDocumentFills, ElsewhereFills, LocksFills, HearsFills
<1> QED BY <1>1, <1>2, <1>3, <1>4, Zenon DEF FillNext

LEMMA FillInvariant == FillSpec => []FillInv
<1>1. FillInv /\ [FillNext]_fillVars => FillInv'
  <2>1. ASSUME FillInv, UNCHANGED fillVars PROVE FillInv'
    <3>1. Weakens(jobs') /\ UNCHANGED <<worker, pageVars, jobs, bounds>>
      BY <2>1 DEF fillVars, FillInv, FillTyped, Weakens, Fallen
    <3> QED BY <2>1, <3>1 DEF worker, pageVars, FillInv, FillTyped, PendingRuns, PendingUnwritten,
            Begun, JobsFit, JobFits, Answered, Held, Fits, ReceiptIsAutomatic
  <2> QED BY <2>1, FillsStep
<1> QED BY <1>1, FillsBegin, PTL DEF FillSpec

(* Codes wait only while the login is being filled. *)
LEMMA CodesFreed == FillSpec => []CodesAreFreed
<1>1. FillInit => CodesAreFreed BY DEF FillInit, NoCodes, CodesAreFreed
<1>2. FillInv /\ CodesAreFreed /\ [FillNext]_fillVars => CodesAreFreed'
  <2>1. ASSUME FillInv, CodesAreFreed, UNCHANGED fillVars PROVE CodesAreFreed'
    BY <2>1 DEF fillVars, pageVars, CodesAreFreed
  <2>2. ASSUME FillInv, CodesAreFreed, FillNext PROVE CodesAreFreed'
    BY <2>2, PageFrees, WorkerFrees, EndsFree, BeginsFree, WorldFrees, Zenon DEF FillNext
  <2> QED BY <2>1, <2>2
<1> QED BY <1>1, <1>2, FillInvariant, PTL DEF FillSpec

(* Who waits for a fill of the popup hears of it, a receipt is of what an    *)
(* automatic fill has put in the form, and codes wait for a login picked in  *)
(* the menu only while it is being filled, whatever overlaps or is replaced. *)
THEOREM FillsSafe == FillSpec => []FillsAreSafe
<1>1. FillInv => WaitersAreAnswered /\ ReceiptIsAutomatic
  BY FillAssumption DEF FillInv, FillTyped, WaitersAreAnswered,
        JobsFit, JobFits, Answered, PendingRuns
<1> QED BY <1>1, FillInvariant, CodesFreed, PTL DEF FillsAreSafe

(* A fill that writes is one of the page whose field is still its own.       *)
LEMMA WritesOnly ==
    ASSUME FillInv, FillNext, NEW i \in Ops, jobs[i] # Nil, ~jobs[i].manual,
           jobs[i].at = "sent", jobs'[i].at = "wrote"
    PROVE  Held(i, jobs[i])
<1>1. jobs[i] \in Operations /\ JobFits(i, jobs[i]) /\ jobs \in [Ops -> Operations \cup {Nil}]
      /\ jobs[i].kind # "native"
  BY JobFacts DEF FillInv, FillTyped, JobFits
<1>2. ASSUME NEW k \in Ops, jobs[k] # Nil,
             \/ ListHears(k) \/ Returns(k) \/ \E e \in Fillable : Chooses(k, e)
             \/ Asks(k) \/ FillHears(k) \/ Checks(k) \/ Sends(k)
             \/ OffersLogin(k) \/ OffersCode(k)
             \/ EndsLogin(k) \/ EndsCode(k) \/ NativeEnds(k)
      PROVE  FALSE
  <2>1. CASE ListHears(k) \/ Returns(k) \/ \E e \in Fillable : Chooses(k, e)
    BY <1>1, <2>1 DEF ListHears, Returns, Chooses, Puts, Drops
  <2>2. CASE Asks(k) \/ FillHears(k) \/ Sends(k)
    BY <1>1, <2>2 DEF Asks, FillHears, Sends
  <2>3. CASE Checks(k) BY <1>1, <2>3 DEF Checks, Puts
  <2>4. CASE OffersLogin(k) \/ OffersCode(k)
    BY <1>1, <2>4 DEF OffersLogin, OffersCode, Proposes, Declines, Puts, Drops
  <2>5. CASE EndsLogin(k) \/ EndsCode(k) \/ NativeEnds(k)
    BY <1>1, <2>5 DEF EndsLogin, EndsCode, NativeEnds, AnswersBack, Drops
  <2> QED BY <1>2, <2>1, <2>2, <2>3, <2>4, <2>5
<1>3. ASSUME NEW k \in Ops, jobs[k] # Nil, WritesLogin(k)
      PROVE  Held(i, jobs[i])
  BY <1>1, <1>3 DEF WritesLogin, Puts, Takes, Held
<1>4. ASSUME NEW k \in Ops, jobs[k] # Nil, WritesCode(k)
      PROVE  Held(i, jobs[i])
  BY <1>1, <1>4 DEF WritesCode, Puts, Held
<1>5. ASSUME Weakens(jobs') PROVE FALSE
  BY <1>1, <1>5, NilAssumption DEF Weakens, Fallen
<1>6. ASSUME NEW k \in Ops, jobs[k] # Nil, WritesNative(k)
      PROVE  FALSE
  <2>1. k # i BY <1>1, <1>6 DEF WritesNative
  <2>2. PICK js : js = Unwanted(jobs, {"login", "code"}) OBVIOUS
  <2>3. js[i] \in Operations /\ Fallen(js[i], jobs[i])
    BY <2>2, UnwantedWeak, NilAssumption DEF FillInv, Weakens
  <2>4. jobs'[i] = jobs[i] \/ jobs'[i] = js[i]
    BY <1>6, <2>2, <2>1, <1>1 DEF WritesNative, Unwanted, Each, Puts
  <2> QED BY <2>3, <2>4 DEF Fallen
<1>7. ASSUME NEW js, Weakens(js), NEW j, With(js, j) PROVE FALSE
  BY <1>1, <1>7, NilAssumption DEF JobFits, NewId, FillInv, FillTyped, Ops, Weakens, With, Fallen
<1>8. ASSUME NEW e \in Fillable, NEW b \in BOOLEAN,
             ManualLogin(e, b) \/ ManualCode(e, b) \/ NativeBegins(e, b)
      PROVE  FALSE
  BY <1>7, UnwantedWeak, StaleWeak, <1>8 DEF ManualLogin, FillInv, ManualCode, NativeBegins
<1>9. ASSUME AutoBegins \/ CodeBegins PROVE FALSE
  BY <1>7, <1>9, JobsWeaken DEF AutoBegins, CodeBegins
<1>10. ASSUME \/ \E v \in {Nil, Typed} : Edits(v)
              \/ StageReplaced \/ NewDocument \/ Elsewhere \/ VaultChanges
              \/ LocksVault \/ UnlocksVault \/ HearsSession
       PROVE  FALSE
  BY <1>5, GoneWeak, StageReplacedWeak, ElsewhereWeak, StaleKeysWeak, HearsWeak, <1>10 DEF NewDocument, FillInv,
     LocksVault, Edits
<1> QED BY <1>2, <1>3, <1>4, <1>6, <1>8, <1>9, <1>10, Zenon DEF FillNext

(* An automatic fill writes no other account than the one the user picked in *)
(* the popup, in a session of any length and however fills overlap.          *)
THEOREM ChoiceFollowed == FillSpec => AutomaticFollowsChoice
<1>1. ASSUME FillInv, FillNext, NEW i \in Ops, jobs[i] # Nil, ~jobs[i].manual,
             jobs[i].at = "sent", jobs'[i].at = "wrote"
      PROVE  recall.native \in {Nil, jobs[i].entry}
  BY <1>1, WritesOnly, JobFacts DEF JobFits, Fits
<1>2. FillInv /\ [FillNext]_fillVars =>
        [\A i \in Ops :
           jobs[i] # Nil /\ ~jobs[i].manual /\ jobs[i].at = "sent" /\ jobs'[i].at = "wrote"
             => recall.native \in {Nil, jobs[i].entry}]_fillVars
  BY <1>1
<1> QED BY <1>2, FillInvariant, PTL DEF FillSpec, AutomaticFollowsChoice

=============================================================================
