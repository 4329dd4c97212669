------------------------- MODULE VaultWritesProofs -------------------------
(* Proofs about VaultWrites, for any calls, accounts, epochs and bounds: the *)
(* floor of key epochs, what a write may contain, the shares, and that every *)
(* save is atomic.                                                           *)
EXTENDS VaultWrites, TLAPS

Results == {"none", "saved", "present", "refused", "unknown"}
Done == {"idle", "done"}
Ats == Done \cup {"vault", "entry", "open", "challenge", "seal", "latest", "prepare",
                  "send", "again", "wait", "last", "answer", "refresh"}
Job == [kind : Kinds \cup {None}, at : Ats, op : 0..MaxOps, keys : 0..MaxUnlocks,
        user : Users \cup {None}, epoch : 0..MaxEpoch, session : Nat, base : Nat,
        content : SUBSET (Ops \cup Edits), reviewed : Nat,
        id : ShareIds \cup {None}, share : 0..MaxOps, told : BOOLEAN,
        era : 0..MaxOps, locks : Nat]

(* What the bounded types leave out. *)
Typed ==
    /\ TypeOK
    /\ job \in [Slots -> Job]
    /\ count \in [unlocks : 0..MaxUnlocks, locks : Nat, ops : 0..MaxOps]
    /\ era \in [ShareIds -> [times : 0..MaxOps, home : 0..MaxUnlocks]]
    /\ user \in Users \/ keys = 0

(* The call j is one of this worker's, of a session that was unlocked. *)
Called(j) ==
    /\ job[j].kind \in Kinds /\ job[j].user \in Users
    /\ job[j].op \in 1..count.ops /\ job[j].keys \in 1..count.unlocks
    /\ job[j].keys = keys => job[j].user = user
    /\ IF job[j].kind = "share" THEN job[j].id \in ShareIds ELSE job[j].id = None

(* Calls are numbered apart, and a number not given yet has no result. *)
Numbered ==
    /\ keys <= count.unlocks
    /\ \A j \in Slots : Running(j) => Called(j)
    /\ \A j \in Slots : job[j].op <= count.ops /\ (job[j].at = "done" => job[j].op # 0)
    /\ \A j, k \in Slots : j # k /\ job[j].op # 0 => job[j].op # job[k].op

(* The floor that an open raises is that of the session it began in. *)
SameLocks(j) ==
    job[j].at = "open" =>
        /\ job[j].session <= session /\ job[j].locks <= count.locks
        /\ job[j].session = session <=> job[j].locks = count.locks
Floored == floor = seen /\ \A j \in Slots : SameLocks(j)

(* What a call that replaces a revision holds is that revision, as long as   *)
(* nobody has made another one.                                              *)
HasRead(j) ==
    \/ job[j].kind \in {"update", "signin"}
       /\ job[j].at \in {"seal", "send", "again", "wait", "last"}
    \/ job[j].kind = "password"
       /\ job[j].at \in {"open", "seal", "send", "again", "wait", "last"}
Reread(j) ==
    HasRead(j) => /\ job[j].base <= store.rev
                  /\ job[j].base = store.rev => job[j].content = store.content
(* An update and an approval past their checks are of the reviewed revision. *)
Reviewed(j) ==
    /\ job[j].at = "latest" => job[j].kind = "approve"
    /\ job[j].at = "prepare" => job[j].kind = "share"
    /\ /\ job[j].kind \in {"update", "approve"}
       /\ job[j].at \in {"seal", "latest", "send", "again", "wait", "last"}
       => job[j].base = job[j].reviewed
InVault == store.content \cup made
(* A call that runs has told nothing; its write is in the vault once the     *)
(* server has taken it, and not before.                                      *)
Untold(j) ==
    Running(j) => /\ result[job[j].op] = "none"
                  /\ job[j].op \in InVault <=> job[j].at \in {"answer", "refresh"}
Written ==
    /\ \A j \in Slots : Reread(j) /\ Reviewed(j) /\ Untold(j)
    /\ \A n \in Ops : n > count.ops => result[n] = "none" /\ n \notin InVault

(* The life of an operation id in the sharing panel. *)
Sharing(j) == Running(j) /\ job[j].kind = "share"
Starts == {"vault", "entry", "open", "challenge", "prepare"}
Sent == {"send", "again", "wait", "last", "answer"}
PostOf(j, p) == p.id = job[j].id /\ p.era = job[j].era
ShareRun(j) ==
    /\ job[j].at \in Starts \cup Sent
    /\ job[j].era <= era[job[j].id].times /\ job[j].era < job[j].op
    /\ job[j].keys = era[job[j].id].home
    /\ job[j].keys = keys => job[j].id \in inFlight
    /\ job[j].told => job[j].keys # keys \/ job[j].id \in cancelled
(* Before it is kept no link of this call exists, and none is kept. *)
ShareStarts(j) ==
    /\ job[j].at = "prepare" => job[j].share = job[j].op
    /\ \A p \in posted : ~PostOf(j, p)
    /\ job[j].keys = keys =>
         /\ pending[job[j].id] = 0
         /\ job[j].id \notin cancelled => job[j].era = era[job[j].id].times
(* From then on its links are the share it holds. *)
ShareSent(j) ==
    /\ job[j].era < job[j].share /\ job[j].share <= count.ops
    /\ \A p \in posted : PostOf(j, p) => p.share = job[j].share
    /\ job[j].keys = keys /\ job[j].era = era[job[j].id].times =>
         pending[job[j].id] = job[j].share
PostKnown(p) ==
    /\ p.era <= era[p.id].times /\ p.era < p.share /\ p.share <= count.ops
    /\ era[p.id].home # 0
    /\ p.era = era[p.id].times /\ era[p.id].home = keys => pending[p.id] = p.share
PendingKnown(id) ==
    /\ era[id].times <= count.ops /\ era[id].home <= count.unlocks
    /\ pending[id] # 0 => era[id].times < pending[id] /\ pending[id] <= count.ops
    /\ pending[id] # 0 \/ id \in inFlight => era[id].home = keys /\ keys # 0
SharingOf(j) ==
    /\ ShareRun(j)
    /\ job[j].at \in Starts => ShareStarts(j)
    /\ job[j].at \in Sent => ShareSent(j)
Apart == \A j, k \in Slots : Sharing(j) /\ Sharing(k) /\ j # k => job[j].id # job[k].id
Told == \A j \in Slots : Running(j) /\ job[j].told => job[j].kind = "share"
Shared ==
    /\ \A j \in Slots : Sharing(j) => SharingOf(j)
    /\ \A p \in posted : PostKnown(p)
    /\ \A id \in ShareIds : PendingKnown(id)
    /\ Apart /\ Told /\ SharesAreOnce

WInv == Typed /\ Numbered /\ Floored /\ Written /\ Shared

-----------------------------------------------------------------------------
(* The shape of a call's steps: it ends, or it goes on. *)

Same(r, c) ==
    /\ r.kind = c.kind /\ r.op = c.op /\ r.keys = c.keys /\ r.user = c.user
    /\ r.reviewed = c.reviewed /\ r.id = c.id /\ r.told = c.told /\ r.era = c.era
Holds(r, c) == r.base = c.base /\ r.content = c.content /\ r.share = c.share

Lifts(j) ==
    /\ floor' = Raised(j)
    /\ seen' = [seen EXCEPT ![job[j].user] =
                  IF job[j].locks = count.locks
                  THEN Higher(@, job[j].epoch) ELSE @]

(* To the reading of the entry, to the opening of the key, past it. *)
ToEntry(j, r) ==
    job[j].at = "vault" /\ r.at = "entry" /\ ~OpensFirst(r.kind) /\ Holds(r, job[j])
ToOpen(j, r) ==
    /\ r.at = "open" /\ r.share = job[j].share
    /\ r.session = session /\ r.locks = count.locks
    /\ \/ job[j].at = "vault" /\ OpensFirst(r.kind)
       \/ job[j].at = "entry" /\ ~OpensFirst(r.kind)
          /\ r.base = store.rev /\ r.content = store.content
       \/ job[j].at = "challenge" /\ r.kind = "create"
ReadsIt(j, r) ==
    /\ job[j].at = "entry" /\ r.at = "seal" /\ OpensFirst(r.kind)
    /\ NamedRevision(j, store.rev) /\ r.share = job[j].share
    /\ r.base = store.rev /\ r.content = store.content
IsOpen(j, r) ==
    /\ job[j].at = "open" /\ r.at = AfterOpening(r.kind) /\ r.kind # "choices"
    /\ r.kind = "approve" => NamedRevision(j, r.base)
    /\ Holds(r, job[j])
(* The steps of a share before it is sent. *)
IsIssued(j, r) ==
    /\ job[j].at = "challenge" /\ r.at = "prepare" /\ r.kind = "share"
    /\ SameKeys(j) /\ r.share = r.op
IsPrepared(j, r) ==
    /\ job[j].at = "prepare" /\ r.at = "send" /\ Holds(r, job[j])
    /\ SameKeys(j) /\ r.id \notin cancelled
(* And of everything that is sealed and sent. *)
IsSealed(j, r) ==
    /\ \/ job[j].at = "seal" /\ r.at = IF r.kind = "approve" THEN "latest" ELSE "send"
       \/ job[j].at = "latest" /\ r.at = "send"
    /\ Holds(r, job[j])
IsSent(j, r) ==
    /\ \/ job[j].at = "send" /\ r.at = "wait" /\ Allowed(j)
       \/ job[j].at = "again" /\ r.at = "last" /\ Allowed(j)
       \/ job[j].at = "wait" /\ r.at = "again"
    /\ Holds(r, job[j])
IsTaken(j, r) ==
    /\ job[j].at \in {"wait", "last"} /\ r.at = "answer" /\ Holds(r, job[j])
IsAnswered(j, r) ==
    job[j].at = "answer" /\ r.at = "refresh" /\ Cached(r.kind) /\ Holds(r, job[j])

Goings(j, r) ==
    \/ ToEntry(j, r) \/ ToOpen(j, r) \/ ReadsIt(j, r) \/ IsOpen(j, r) \/ IsIssued(j, r)
    \/ IsPrepared(j, r) \/ IsSealed(j, r) \/ IsSent(j, r) \/ IsTaken(j, r)
    \/ IsAnswered(j, r)

Takes(j) ==
    /\ Rewrites(job[j].kind) => job[j].base = store.rev
    /\ store' = IF Rewrites(job[j].kind)
                THEN [store EXCEPT !.rev = @ + 1,
                                   !.content = job[j].content \cup {job[j].op}]
                ELSE store
    /\ made' = IF Rewrites(job[j].kind) THEN made ELSE made \cup {job[j].op}
    /\ posted' = IF job[j].kind = "share"
                 THEN posted \cup {[id |-> job[j].id, share |-> job[j].share,
                                    era |-> job[j].era]}
                 ELSE posted

Around == UNCHANGED <<keys, user, session, era, count>>
GoesOn(j, r) ==
    /\ Running(j) /\ r.at \notin Done
    /\ job' = [job EXCEPT ![j] = r] /\ Same(r, job[j]) /\ Goings(j, r)
    /\ Quiet /\ Around
    /\ IF job[j].at = "open" THEN Lifts(j) ELSE UNCHANGED <<floor, seen>>
    /\ IF job[j].at = "prepare"
       THEN pending' = [pending EXCEPT ![job[j].id] = job[j].share]
       ELSE UNCHANGED pending
    /\ IF r.at = "answer" THEN Takes(j) ELSE UNCHANGED server

(* What the caller may be told, and when. *)
Says(j, x) ==
    /\ x = "saved" => \/ job[j].at = "refresh"
                      \/ job[j].at = "answer" /\ Kept(j) /\ job[j].id \notin cancelled
    /\ x = "refused" => job[j].at \notin {"answer", "refresh"}
EndsWith(j, x) ==
    /\ Running(j) /\ Ends(j, x) /\ Says(j, x) /\ Around
    /\ (job[j].at = "open" /\ Lifts(j)) \/ UNCHANGED <<floor, seen>>
    /\ UNCHANGED <<server, pending>>

Shaped(j) == (\E r \in Job : GoesOn(j, r)) \/ (\E x \in Results \ {"none"} : EndsWith(j, x))

LEMMA JobTyped == ASSUME Typed, NEW j \in Slots PROVE job[j] \in Job
BY DEF Typed

(* A call whose next await goes on with its record otherwise unchanged. *)
LEMMA GoesForm ==
    ASSUME Typed, NEW j \in Slots, NEW step \in Ats
    PROVE  \E r \in Job : /\ r = [job[j] EXCEPT !.at = step]
                          /\ r.at = step /\ Same(r, job[j]) /\ Holds(r, job[j])
                          /\ Goes(j, step) => job' = [job EXCEPT ![j] = r]
<1>1. job[j] \in Job BY JobTyped
<1>2. PICK r : r = [job[j] EXCEPT !.at = step] OBVIOUS
<1>3. r \in Job /\ r.at = step /\ Same(r, job[j]) /\ Holds(r, job[j])
  BY <1>1, <1>2 DEF Job, Same, Holds
<1>4. Goes(j, step) => job' = [job EXCEPT ![j] = r]
  BY <1>2, <1>1 DEF Goes, Typed
<1> QED BY <1>2, <1>3, <1>4

LEMMA OpeningForm ==
    ASSUME Typed, NEW j \in Slots, NEW r \in Job, Same(r, job[j]), Opening(j, r)
    PROVE  \/ Ends(j, "refused")
           \/ \E q \in Job :
                /\ q.at = "open" /\ Same(q, job[j]) /\ Holds(q, r)
                /\ q.session = session /\ q.locks = count.locks
                /\ job' = [job EXCEPT ![j] = q] /\ Quiet
<1>1. PICK q : q = [r EXCEPT !.at = "open", !.session = session, !.locks = count.locks]
  OBVIOUS
<1>2. session \in Nat /\ count.locks \in Nat BY DEF Typed, TypeOK
<1>3. q \in Job /\ q.at = "open" /\ Same(q, job[j]) /\ Holds(q, r)
      /\ q.session = session /\ q.locks = count.locks
  BY <1>1, <1>2 DEF Job, Same, Holds, Ats
<1> QED BY <1>1, <1>3 DEF Opening

LEMMA EpochTyped == ASSUME Typed, NEW e \in 1..store.epoch PROVE e \in 0..MaxEpoch
BY WritesAssumption DEF Typed, TypeOK

(* Each step of a call has the shape. *)
LEMMA FetchForm == ASSUME Typed, NEW j \in Slots, Fetch(j) PROVE Shaped(j)
<1>1. PICK e \in 1..store.epoch :
        LET r == [job[j] EXCEPT !.epoch = e] IN
         \/ OpensFirst(r.kind) /\ Opening(j, r)
         \/ /\ ~OpensFirst(r.kind) /\ Kept(j)
            /\ job' = [job EXCEPT ![j] = [r EXCEPT !.at = "entry"]]
            /\ Quiet
         \/ ~OpensFirst(r.kind) /\ ~Kept(j) /\ Dropped(j)
  BY DEF Fetch
<1>2. PICK r : r = [job[j] EXCEPT !.epoch = e] OBVIOUS
<1>3. r \in Job /\ Same(r, job[j]) /\ Holds(r, job[j])
  BY <1>2, JobTyped, EpochTyped DEF Job, Same, Holds
<1>4. /\ job[j].at = "vault" /\ Running(j)
      /\ UNCHANGED <<server, keys, user, floors, pending, era, count>>
  BY DEF Fetch, Running
<1>5. CASE Ends(j, "refused")
  BY <1>4, <1>5 DEF Shaped, EndsWith, Says, Around, Results, floors
<1>6. CASE Opening(j, r) /\ OpensFirst(r.kind)
  <2>1. CASE ~Ends(j, "refused")
    <3>1. PICK q \in Job :
                /\ q.at = "open" /\ Same(q, job[j]) /\ Holds(q, r)
                /\ q.session = session /\ q.locks = count.locks
                /\ job' = [job EXCEPT ![j] = q] /\ Quiet
      BY <1>3, <1>6, <2>1, OpeningForm
    <3>2. ToOpen(j, q) BY <3>1, <1>3, <1>4, <1>6 DEF ToOpen, Same, Holds
    <3> QED BY <3>1, <3>2, <1>4 DEF Shaped, GoesOn, Goings, Around, Done, floors
  <2> QED BY <1>5, <2>1
<1>7. CASE ~OpensFirst(r.kind) /\ job' = [job EXCEPT ![j] = [r EXCEPT !.at = "entry"]]
           /\ Quiet
  <2>1. PICK q : q = [r EXCEPT !.at = "entry"] OBVIOUS
  <2>2. q \in Job /\ q.at = "entry" /\ Same(q, job[j]) /\ Holds(q, job[j])
    BY <1>3, <2>1 DEF Job, Same, Holds, Ats
  <2>3. ToEntry(j, q) /\ job' = [job EXCEPT ![j] = q]
    BY <2>1, <2>2, <1>4, <1>7, <1>3 DEF ToEntry, Same
  <2> QED BY <2>2, <2>3, <1>4, <1>7 DEF Shaped, GoesOn, Goings, Around, Done, floors
<1> QED BY <1>1, <1>2, <1>5, <1>6, <1>7 DEF Dropped

LEMMA ReadEntryForm == ASSUME Typed, NEW j \in Slots, ReadEntry(j) PROVE Shaped(j)
<1>1. PICK r : r = [job[j] EXCEPT !.base = store.rev, !.content = store.content]
  OBVIOUS
<1>2. \/ /\ OpensFirst(r.kind) /\ NamedRevision(j, store.rev)
         /\ job' = [job EXCEPT ![j] = [r EXCEPT !.at = "seal"]]
         /\ Quiet
      \/ ~OpensFirst(r.kind) /\ Kept(j) /\ Opening(j, r)
      \/ Dropped(j)
  BY <1>1 DEF ReadEntry
<1>3. store.rev \in Nat /\ store.content \in SUBSET (Ops \cup Edits)
  BY DEF Typed, TypeOK
<1>4. r \in Job /\ Same(r, job[j]) /\ r.base = store.rev /\ r.content = store.content
      /\ r.share = job[j].share
  BY <1>1, <1>3, JobTyped DEF Job, Same
<1>5. /\ job[j].at = "entry" /\ Running(j)
      /\ UNCHANGED <<server, keys, user, floors, pending, era, count>>
  BY DEF ReadEntry, Running
<1>6. CASE Ends(j, "refused")
  BY <1>5, <1>6 DEF Shaped, EndsWith, Says, Around, Results, floors
<1>7. CASE ~OpensFirst(r.kind) /\ Opening(j, r)
  <2>1. CASE ~Ends(j, "refused")
    <3>1. PICK q \in Job :
                /\ q.at = "open" /\ Same(q, job[j]) /\ Holds(q, r)
                /\ q.session = session /\ q.locks = count.locks
                /\ job' = [job EXCEPT ![j] = q] /\ Quiet
      BY <1>4, <1>7, <2>1, OpeningForm
    <3>2. ToOpen(j, q) BY <3>1, <1>4, <1>5, <1>7 DEF ToOpen, Same, Holds
    <3> QED BY <3>1, <3>2, <1>5 DEF Shaped, GoesOn, Goings, Around, Done, floors
  <2> QED BY <1>6, <2>1
<1>8. CASE /\ OpensFirst(r.kind) /\ NamedRevision(j, store.rev)
           /\ job' = [job EXCEPT ![j] = [r EXCEPT !.at = "seal"]]
           /\ Quiet
  <2>1. PICK q : q = [r EXCEPT !.at = "seal"] OBVIOUS
  <2>2. q \in Job /\ q.at = "seal" /\ Same(q, job[j]) /\ Holds(q, r)
    BY <1>4, <2>1 DEF Job, Same, Holds, Ats
  <2>3. ReadsIt(j, q) /\ job' = [job EXCEPT ![j] = q]
    BY <2>1, <2>2, <1>4, <1>5, <1>8 DEF ReadsIt, Same, Holds
  <2> QED BY <2>2, <2>3, <1>5, <1>8 DEF Shaped, GoesOn, Goings, Around, Done, floors
<1> QED BY <1>2, <1>6, <1>7, <1>8 DEF Dropped

LEMMA OpenedForm == ASSUME Typed, NEW j \in Slots, Opened(j) PROVE Shaped(j)
<1>1. /\ job[j].at = "open" /\ Running(j) /\ Lifts(j)
      /\ UNCHANGED <<server, keys, user, session, pending, era, count>>
  BY DEF Opened, Running, Lifts
<1>2. CASE \E x \in {"unknown", "refused"} : Ends(j, x)
  BY <1>1, <1>2 DEF Shaped, EndsWith, Says, Around, Results
<1>3. CASE /\ job[j].kind # "choices"
           /\ job[j].kind = "approve" => NamedRevision(j, job[j].base)
           /\ Goes(j, AfterOpening(job[j].kind)) /\ Quiet
  <2>1. AfterOpening(job[j].kind) \in {"entry", "challenge", "seal"}
    BY DEF AfterOpening
  <2>2. AfterOpening(job[j].kind) \in Ats BY <2>1 DEF Ats
  <2>3. PICK r \in Job : /\ r = [job[j] EXCEPT !.at = AfterOpening(job[j].kind)]
                         /\ r.at = AfterOpening(job[j].kind) /\ Same(r, job[j])
                         /\ Holds(r, job[j])
                         /\ job' = [job EXCEPT ![j] = r]
    BY <1>3, <2>2, GoesForm
  <2>4. IsOpen(j, r) BY <2>3, <1>1, <1>3 DEF IsOpen, Same, Holds
  <2>5. r.at \notin Done /\ r.at # "answer" BY <2>1, <2>3 DEF Done
  <2> QED BY <1>1, <1>3, <2>3, <2>4, <2>5 DEF Shaped, GoesOn, Goings, Around
<1> QED BY <1>2, <1>3 DEF Opened, Dropped

LEMMA IssueForm ==
    ASSUME Typed, NEW j \in Slots, IssueEntry(j) \/ IssueShare(j) PROVE Shaped(j)
<1>1. /\ job[j].at = "challenge" /\ Running(j)
      /\ UNCHANGED <<server, keys, user, floors, pending, era, count>>
  BY DEF IssueEntry, IssueShare, Running
<1>2. CASE Ends(j, "refused")
  BY <1>1, <1>2 DEF Shaped, EndsWith, Says, Around, Results, floors
<1>3. CASE job[j].kind = "create" /\ Opening(j, job[j])
  <2>1. CASE ~Ends(j, "refused")
    <3>1. PICK q \in Job :
                /\ q.at = "open" /\ Same(q, job[j]) /\ Holds(q, job[j])
                /\ q.session = session /\ q.locks = count.locks
                /\ job' = [job EXCEPT ![j] = q] /\ Quiet
      BY <1>3, <2>1, OpeningForm, JobTyped DEF Same
    <3>2. ToOpen(j, q) BY <3>1, <1>1, <1>3 DEF ToOpen, Same, Holds
    <3> QED BY <3>1, <3>2, <1>1 DEF Shaped, GoesOn, Goings, Around, Done, floors
  <2> QED BY <1>2, <2>1
<1>4. CASE /\ job[j].kind = "share" /\ SameKeys(j)
           /\ job' = [job EXCEPT ![j].at = "prepare", ![j].share = job[j].op]
           /\ Quiet
  <2>1. PICK q : q = [job[j] EXCEPT !.at = "prepare", !.share = job[j].op]
    OBVIOUS
  <2>2. q \in Job /\ q.at = "prepare" /\ Same(q, job[j]) /\ q.share = q.op
    BY ZenonT(30), <2>1, JobTyped DEF Job, Same, Ats
  <2>3. job' = [job EXCEPT ![j] = q] BY <2>1, <1>4, JobTyped DEF Typed
  <2>4. IsIssued(j, q) BY <2>2, <1>1, <1>4 DEF IsIssued, Same
  <2> QED BY <1>1, <1>4, <2>2, <2>3, <2>4 DEF Shaped, GoesOn, Goings, Around, Done, floors
<1> QED BY <1>1, <1>2, <1>3, <1>4 DEF IssueEntry, IssueShare, Dropped

LEMMA SealForm ==
    ASSUME Typed, NEW j \in Slots, Seal(j) \/ SayPresent(j) \/ ReadLatest(j)
    PROVE  Shaped(j)
<1>1. /\ job[j].at \in {"seal", "latest"} /\ Running(j)
      /\ UNCHANGED <<server, keys, user, floors, pending, era, count>>
  BY DEF Seal, SayPresent, ReadLatest, Running
<1>2. CASE \E x \in {"present", "refused"} : Ends(j, x)
  BY <1>1, <1>2 DEF Shaped, EndsWith, Says, Around, Results, floors
<1>3. ASSUME NEW step \in {"latest", "send"}, Goes(j, step), Quiet,
             step = IF job[j].at = "seal" /\ job[j].kind = "approve" THEN "latest"
                    ELSE "send"
      PROVE  Shaped(j)
  <2>1. PICK r \in Job : /\ r.at = step /\ Same(r, job[j]) /\ Holds(r, job[j])
                         /\ job' = [job EXCEPT ![j] = r]
    BY <1>3, GoesForm DEF Ats
  <2>2. IsSealed(j, r) BY <1>1, <1>3, <2>1 DEF IsSealed, Same
  <2> QED BY <1>1, <1>3, <2>1, <2>2 DEF Shaped, GoesOn, Goings, Around, Done, floors
<1> QED BY <1>2, <1>3 DEF Seal, SayPresent, ReadLatest, Dropped

LEMMA PrepareForm == ASSUME Typed, NEW j \in Slots, Prepare(j) PROVE Shaped(j)
<1>1. /\ job[j].at = "prepare" /\ Running(j)
      /\ UNCHANGED <<server, keys, user, floors, era, count>>
  BY DEF Prepare, Running
<1>2. CASE Ends(j, "refused") /\ UNCHANGED pending
  BY <1>1, <1>2 DEF Shaped, EndsWith, Says, Around, Results, floors
<1>3. CASE /\ SameKeys(j) /\ job[j].id \notin cancelled
           /\ pending' = [pending EXCEPT ![job[j].id] = job[j].share]
           /\ Goes(j, "send") /\ Quiet
  <2>1. PICK r \in Job : /\ r.at = "send" /\ Same(r, job[j]) /\ Holds(r, job[j])
                         /\ job' = [job EXCEPT ![j] = r]
    BY <1>3, GoesForm DEF Ats
  <2>2. IsPrepared(j, r) BY <1>1, <1>3, <2>1 DEF IsPrepared, Same
  <2> QED BY <1>1, <1>3, <2>1, <2>2 DEF Shaped, GoesOn, Goings, Around, Done, floors
<1> QED BY <1>2, <1>3 DEF Prepare, Dropped

LEMMA SendForm ==
    ASSUME Typed, NEW j \in Slots, Send(j) \/ SendAgain(j) PROVE Shaped(j)
<1>1. /\ job[j].at \in {"send", "again", "wait"} /\ Running(j)
      /\ UNCHANGED <<server, keys, user, floors, pending, era, count>>
  BY DEF Send, SendAgain, Running
<1>2. CASE Ends(j, "refused")
  BY <1>1, <1>2 DEF Shaped, EndsWith, Says, Around, Results, floors
<1>3. ASSUME NEW step \in {"wait", "last", "again"}, Goes(j, step), Quiet,
             \/ job[j].at = "send" /\ step = "wait" /\ Allowed(j)
             \/ job[j].at = "again" /\ step = "last" /\ Allowed(j)
             \/ job[j].at = "wait" /\ step = "again"
      PROVE  Shaped(j)
  <2>1. PICK r \in Job : /\ r.at = step /\ Same(r, job[j]) /\ Holds(r, job[j])
                         /\ job' = [job EXCEPT ![j] = r]
    BY <1>3, GoesForm DEF Ats
  <2>2. IsSent(j, r) BY <1>1, <1>3, <2>1 DEF IsSent, Same
  <2> QED BY <1>1, <1>3, <2>1, <2>2 DEF Shaped, GoesOn, Goings, Around, Done, floors
<1>4. CASE SendAgain(j) BY <1>3, <1>4 DEF SendAgain
<1>5. CASE Send(j) BY <1>3, <1>5, <1>2 DEF Send, Goes, Dropped
<1> QED BY <1>4, <1>5

LEMMA AcceptForm == ASSUME Typed, NEW j \in Slots, Accept(j) PROVE Shaped(j)
<1>1. PICK r \in Job : /\ r.at = "answer" /\ Same(r, job[j]) /\ Holds(r, job[j])
                       /\ job' = [job EXCEPT ![j] = r]
  BY GoesForm DEF Ats, Accept
<1>2. IsTaken(j, r) /\ Running(j) BY <1>1 DEF IsTaken, Accept, Waits, Running
<1>3. Takes(j) BY DEF Accept, Takes, BaseRevision, NewContent
<1>4. job[j].at \notin {"open", "prepare"} /\ Quiet
      /\ UNCHANGED <<keys, user, floors, pending, era, count>>
  BY DEF Accept, Waits
<1> QED BY <1>1, <1>2, <1>3, <1>4 DEF Shaped, GoesOn, Goings, Around, Done, floors

LEMMA AnswerForm == ASSUME Typed, NEW j \in Slots, Answer(j) PROVE Shaped(j)
<1>1. /\ job[j].at = "answer" /\ Running(j)
      /\ UNCHANGED <<server, keys, user, floors, pending, era, count>>
  BY DEF Answer, Running
<1>2. CASE Ends(j, Outcome(j))
  BY <1>1, <1>2 DEF Says, Outcome, Shaped, EndsWith, Around, Results, floors
<1>3. CASE Cached(job[j].kind) /\ Goes(j, "refresh") /\ Quiet
  <2>1. PICK r \in Job : /\ r.at = "refresh" /\ Same(r, job[j]) /\ Holds(r, job[j])
                         /\ job' = [job EXCEPT ![j] = r]
    BY <1>3, GoesForm DEF Ats
  <2>2. IsAnswered(j, r) BY <1>1, <1>3, <2>1 DEF IsAnswered, Same
  <2> QED BY <1>1, <1>3, <2>1, <2>2 DEF Shaped, GoesOn, Goings, Around, Done, floors
<1> QED BY <1>2, <1>3 DEF Answer

LEMMA StopForm ==
    ASSUME Typed, NEW j \in Slots, Refuse(j) \/ Lose(j) \/ Refreshed(j) \/ Fail(j)
    PROVE  Shaped(j)
<1>1. /\ Running(j)
      /\ UNCHANGED <<server, keys, user, floors, pending, era, count>>
  BY DEF Refuse, Lose, Refreshed, Fail, Running, Waits
<1>2. PICK x \in {"saved", "refused", "unknown"} : Ends(j, x) /\ Says(j, x)
  BY DEF Refuse, Lose, Refreshed, Fail, Waits, Says, AfterRefresh, Dropped
<1> QED BY <1>1, <1>2 DEF Shaped, EndsWith, Around, Results, floors

(* Every step of a call ends it or takes it on as above. *)
LEMMA StepForm == ASSUME Typed, NEW j \in Slots, Step(j) PROVE Shaped(j)
BY FetchForm, ReadEntryForm, OpenedForm, IssueForm, SealForm, PrepareForm, SendForm,
   AcceptForm, AnswerForm, StopForm DEF Step

-----------------------------------------------------------------------------
(* The invariant holds at first and every step keeps it. *)

Begins(j) == \E kind \in Kinds \ {"share"} : Begin(j, kind)
BeginsShare(j) == \E id \in ShareIds : BeginShare(j, id) /\ "share" \in Kinds
LEMMA NextCases ==
    ASSUME Typed, [Next]_vars
    PROVE  \/ \E j \in Slots : \/ Begins(j) \/ BeginsShare(j)
                               \/ \E r \in Job : GoesOn(j, r)
                               \/ \E x \in Results \ {"none"} : EndsWith(j, x)
           \/ \E id \in ShareIds : Discard(id) \/ Expire(id)
           \/ Lock \/ Restart
           \/ \E u \in Users : Unlock(u)
           \/ Rotate
           \/ \E e \in Edits : EditElsewhere(e)
           \/ UNCHANGED vars
BY StepForm DEF Next, Environment, Begins, BeginsShare, Shaped

LEMMA IdleTyped == WritesAssumption => Idle \in Job
BY DEF WritesAssumption, Idle, Job, Ats, Done

(* A call that begins: its record. *)
LEMMA BeginForm ==
    ASSUME Typed, NEW j \in Slots, Begins(j)
    PROVE  \E r \in Job :
             /\ job' = [job EXCEPT ![j] = r] /\ ~Running(j)
             /\ r.kind \in Kinds \ {"share"} /\ r.at \in {"challenge", "entry", "vault"}
             /\ r.op = count.ops + 1 /\ r.keys = keys /\ r.user = user /\ r.id = None
             /\ r.share = 0 /\ ~r.told /\ keys # 0 /\ count.ops < MaxOps
             /\ count' = [count EXCEPT !.ops = @ + 1]
             /\ UNCHANGED <<server, keys, user, floors, sharing, result>>
<1>1. PICK kind \in Kinds \ {"share"} : Begin(j, kind) BY DEF Begins
<1>2. PICK reviewed \in IF Names(kind) THEN 1..store.rev ELSE {0},
           e \in IF Cached(kind) THEN 1..store.epoch ELSE {0} :
         job' = [job EXCEPT ![j] =
           [Idle EXCEPT !.kind = kind, !.at = First(kind), !.op = count.ops + 1,
                        !.keys = keys, !.user = user, !.reviewed = reviewed,
                        !.epoch = e]]
  BY <1>1 DEF Begin
<1>3. PICK r : r = [Idle EXCEPT !.kind = kind, !.at = First(kind), !.op = count.ops + 1,
                        !.keys = keys, !.user = user, !.reviewed = reviewed,
                        !.epoch = e]
  OBVIOUS
<1>4. ~Running(j) /\ keys # 0 /\ count.ops < MaxOps
      /\ count' = [count EXCEPT !.ops = @ + 1]
      /\ UNCHANGED <<server, keys, user, floors, sharing, result>>
  BY <1>1 DEF Begin
<1>5. reviewed \in Nat BY DEF Typed, TypeOK
<1>6. e \in 0..MaxEpoch BY EpochTyped, WritesAssumption
<1>7. count.ops + 1 \in 0..MaxOps /\ keys \in 0..MaxUnlocks /\ user \in Users \cup {None}
  BY <1>4, WritesAssumption DEF Typed, TypeOK
<1>8. First(kind) \in {"challenge", "entry", "vault"} BY DEF First
<1>9. /\ r \in Job /\ r.kind = kind /\ r.at = First(kind) /\ r.op = count.ops + 1
      /\ r.keys = keys /\ r.user = user /\ r.id = None /\ r.share = 0 /\ ~r.told
  BY <1>3, <1>5, <1>6, <1>7, <1>8, IdleTyped, WritesAssumption DEF Idle, Job, Ats, Done
<1> QED BY <1>2, <1>3, <1>4, <1>8, <1>9

LEMMA BeginShareForm ==
    ASSUME Typed, NEW j \in Slots, NEW id \in ShareIds, BeginShare(j, id), "share" \in Kinds
    PROVE  \E r \in Job :
             /\ job' = [job EXCEPT ![j] = r] /\ ~Running(j)
             /\ r.kind = "share" /\ r.at \in {"vault", "send"}
             /\ r.at = "vault" <=> pending[id] = 0
             /\ r.op = count.ops + 1 /\ r.keys = keys /\ r.user = user /\ r.id = id
             /\ r.share = pending[id] /\ ~r.told /\ r.era = era[id].times
             /\ keys # 0 /\ count.ops < MaxOps
             /\ id \notin inFlight /\ era[id].home \in {0, keys}
             /\ inFlight' = inFlight \cup {id}
             /\ count' = [count EXCEPT !.ops = @ + 1]
             /\ era' = [era EXCEPT ![id].home = keys]
             /\ UNCHANGED <<server, keys, user, floors, pending, cancelled, result>>
<1>1. PICK r : r = [Idle EXCEPT !.kind = "share", !.op = count.ops + 1, !.keys = keys,
                      !.user = user, !.id = id, !.share = pending[id],
                      !.era = era[id].times,
                      !.at = IF pending[id] = 0 THEN "vault" ELSE "send"]
  OBVIOUS
<1>2. ~Running(j) /\ keys # 0 /\ count.ops < MaxOps
      /\ id \notin inFlight /\ era[id].home \in {0, keys}
      /\ inFlight' = inFlight \cup {id}
      /\ count' = [count EXCEPT !.ops = @ + 1]
      /\ era' = [era EXCEPT ![id].home = keys]
      /\ UNCHANGED <<server, keys, user, floors, pending, cancelled, result>>
  BY DEF BeginShare
<1>3. job' = [job EXCEPT ![j] = r] BY <1>1 DEF BeginShare
<1>4. count.ops + 1 \in 0..MaxOps /\ keys \in 0..MaxUnlocks /\ user \in Users \cup {None}
      /\ pending[id] \in 0..MaxOps /\ era[id].times \in 0..MaxOps
  BY <1>2, WritesAssumption DEF Typed, TypeOK
<1>5. /\ r \in Job /\ r.kind = "share" /\ r.at \in {"vault", "send"}
      /\ r.at = "vault" <=> pending[id] = 0
      /\ r.op = count.ops + 1 /\ r.keys = keys /\ r.user = user /\ r.id = id
      /\ r.share = pending[id] /\ ~r.told /\ r.era = era[id].times
  BY ZenonT(30), <1>1, <1>4, IdleTyped, WritesAssumption DEF Idle, Job, Ats, Done
<1> QED BY <1>2, <1>3, <1>5

(* Ends, field by field. *)
LEMMA EndForm ==
    ASSUME Typed, NEW j \in Slots, NEW x \in Results, Ends(j, x)
    PROVE  \E r \in Job :
             /\ job' = [job EXCEPT ![j] = r]
             /\ r.at = "done" /\ r.op = job[j].op /\ r.told = job[j].told
             /\ r.kind = None /\ r.id = None
<1>1. PICK r : r = [Idle EXCEPT !.at = "done", !.op = job[j].op, !.told = job[j].told]
  OBVIOUS
<1>2. job[j].op \in 0..MaxOps /\ job[j].told \in BOOLEAN BY JobTyped DEF Job
<1>3. r \in Job /\ r.at = "done" /\ r.op = job[j].op /\ r.told = job[j].told
      /\ r.kind = None /\ r.id = None
  BY <1>1, <1>2, IdleTyped, WritesAssumption DEF Idle, Job, Ats, Done
<1> QED BY <1>1, <1>3 DEF Ends

LEMMA OpTyped ==
    ASSUME WInv, NEW j \in Slots, Running(j)
    PROVE  job[j].op \in Ops /\ job[j].user \in Users
BY WritesAssumption DEF WInv, Typed, Numbered, Called, Ops

LEMMA RaisedTyped ==
    ASSUME Typed, NEW j \in Slots, Lifts(j)
    PROVE  floor' \in [Users -> 0..MaxEpoch] /\ seen' \in [Users -> 0..MaxEpoch]
BY JobTyped, WritesAssumption DEF Job, Higher, Lifts, Raised, Typed, TypeOK

LEMMA TakesTyped ==
    ASSUME WInv, NEW j \in Slots, Running(j), job[j].at \in {"wait", "last"}, Takes(j)
    PROVE  /\ store' \in [epoch: 1..MaxEpoch, rev: Nat, content: SUBSET (Ops \cup Edits)]
           /\ made' \subseteq Ops
           /\ posted' \in SUBSET [id: ShareIds, share: Ops, era: 0..MaxOps]
<1>1. job[j].op \in Ops /\ job[j] \in Job BY OpTyped, JobTyped DEF WInv
<1>2. store' \in [epoch: 1..MaxEpoch, rev: Nat, content: SUBSET (Ops \cup Edits)]
  <2>1. job[j].content \in SUBSET (Ops \cup Edits) BY <1>1 DEF Job
  <2>2. store \in [epoch: 1..MaxEpoch, rev: Nat, content: SUBSET (Ops \cup Edits)]
    BY DEF WInv, Typed, TypeOK
  <2>3. PICK q : q = [store EXCEPT !.rev = @ + 1,
                                   !.content = job[j].content \cup {job[j].op}]
    OBVIOUS
  <2>4. q \in [epoch: 1..MaxEpoch, rev: Nat, content: SUBSET (Ops \cup Edits)]
    <3>1. job[j].content \cup {job[j].op} \in SUBSET (Ops \cup Edits)
      BY <1>1, <2>1
    <3>2. q = [epoch |-> store.epoch, rev |-> store.rev + 1,
               content |-> job[j].content \cup {job[j].op}]
      BY <2>2, <2>3
    <3>3. store.epoch \in 1..MaxEpoch /\ store.rev + 1 \in Nat BY <2>2
    <3> QED BY <3>1, <3>2, <3>3
  <2>5. store' = q \/ store' = store BY <2>3 DEF Takes
  <2> QED BY <2>2, <2>4, <2>5
<1>3. made' \subseteq Ops BY <1>1 DEF Takes, WInv, Typed, TypeOK
<1>4. CASE job[j].kind = "share"
  <2>1. job[j].id \in ShareIds BY <1>4 DEF WInv, Numbered, Called
  <2>2. ShareSent(j) BY <1>4 DEF WInv, Shared, SharingOf, Sharing, Sent
  <2>3. job[j].share \in Ops /\ job[j].era \in 0..MaxOps
    BY <1>1, <2>2, WritesAssumption DEF ShareSent, Ops, Job
  <2>4. PICK p : p = [id |-> job[j].id, share |-> job[j].share, era |-> job[j].era]
    OBVIOUS
  <2>5. p \in [id: ShareIds, share: Ops, era: 0..MaxOps] BY <2>1, <2>3, <2>4
  <2> QED BY <1>2, <1>3, <1>4, <2>4, <2>5 DEF Takes, WInv, Typed, TypeOK
<1>5. CASE job[j].kind # "share"
  BY <1>2, <1>3, <1>5 DEF Takes, WInv, Typed, TypeOK
<1> QED BY <1>4, <1>5

LEMMA TypedKept == ASSUME WInv, [Next]_vars PROVE Typed'
<1>0. Typed /\ TypeOK BY DEF WInv, Typed
<1>1. ASSUME NEW j \in Slots, NEW r \in Job, GoesOn(j, r) PROVE Typed'
  <2>1. job' \in [Slots -> Job] BY <1>0, <1>1 DEF GoesOn, Typed
  <2>2. floor' \in [Users -> 0..MaxEpoch] /\ seen' \in [Users -> 0..MaxEpoch]
    BY <1>0, <1>1, RaisedTyped DEF GoesOn, TypeOK
  <2>3. pending' \in [ShareIds -> 0..MaxOps]
    BY <1>0, JobTyped, <1>1 DEF Job, GoesOn, TypeOK
  <2>4. /\ store' \in [epoch: 1..MaxEpoch, rev: Nat, content: SUBSET (Ops \cup Edits)]
        /\ made' \subseteq Ops
        /\ posted' \in SUBSET [id: ShareIds, share: Ops, era: 0..MaxOps]
    <3>1. CASE r.at = "answer"
      <4>1. job[j].at \in {"wait", "last"}
        BY <1>1, <3>1 DEF GoesOn, Goings, ToEntry, ToOpen, ReadsIt, IsOpen, AfterOpening,
             IsIssued, IsPrepared, IsSealed, IsSent, IsTaken, IsAnswered
      <4> QED BY <1>1, <3>1, <4>1, TakesTyped DEF GoesOn
    <3>2. CASE r.at # "answer" BY <1>0, <1>1, <3>2 DEF GoesOn, TypeOK, server
    <3> QED BY <3>1, <3>2
  <2>5. UNCHANGED <<keys, user, session, era, count, result, inFlight, cancelled>>
    BY <1>1 DEF GoesOn, Around, Quiet
  <2>6. \A k \in Slots : job'[k].kind \in Kinds \cup {None} /\ job'[k].op \in 0..MaxOps
    BY <2>1 DEF Job
  <2>7. TypeOK' BY <1>0, <2>2, <2>3, <2>4, <2>5, <2>6 DEF TypeOK
  <2> QED BY <1>0, <2>1, <2>5, <2>7 DEF Typed
<1>2. ASSUME NEW j \in Slots, NEW x \in Results \ {"none"}, EndsWith(j, x) PROVE Typed'
  <2>1. PICK r \in Job : job' = [job EXCEPT ![j] = r]
    BY <1>0, <1>2, EndForm DEF EndsWith
  <2>2. job' \in [Slots -> Job] BY <1>0, <2>1 DEF Typed
  <2>3. floor' \in [Users -> 0..MaxEpoch] /\ seen' \in [Users -> 0..MaxEpoch]
    BY <1>0, <1>2, RaisedTyped DEF EndsWith, TypeOK
  <2>4. result' \in [Ops -> Results]
    BY <1>0, <1>2 DEF EndsWith, Ends, TypeOK, Results
  <2>5. inFlight' \subseteq ShareIds /\ cancelled' \subseteq inFlight'
    BY <1>0, <1>2 DEF EndsWith, Ends, TypeOK
  <2>6. \A k \in Slots : job'[k].kind \in Kinds \cup {None} /\ job'[k].op \in 0..MaxOps
    BY <2>2 DEF Job
  <2>7. UNCHANGED <<store, made, posted, keys, user, session, era, count, pending>>
    BY <1>2 DEF EndsWith, Around, server
  <2>8. TypeOK' BY <1>0, <2>3, <2>4, <2>5, <2>6, <2>7 DEF TypeOK, Results
  <2> QED BY <1>0, <2>2, <2>7, <2>8 DEF Typed
<1>3. ASSUME NEW j \in Slots, Begins(j) PROVE Typed'
  <2>1. PICK r \in Job : /\ job' = [job EXCEPT ![j] = r] /\ count.ops < MaxOps
             /\ count' = [count EXCEPT !.ops = @ + 1]
             /\ UNCHANGED <<server, keys, user, floors, sharing, result>>
    BY <1>0, <1>3, BeginForm
  <2>2. job' \in [Slots -> Job] BY <1>0, <2>1 DEF Typed
  <2>3. \A k \in Slots : job'[k].kind \in Kinds \cup {None} /\ job'[k].op \in 0..MaxOps
    BY <2>2 DEF Job
  <2>4. count' \in [unlocks : 0..MaxUnlocks, locks : Nat, ops : 0..MaxOps]
    BY <1>0, <2>1, WritesAssumption DEF Typed
  <2>5. TypeOK' BY <1>0, <2>1, <2>3 DEF TypeOK, server, floors, sharing
  <2> QED BY <1>0, <2>1, <2>2, <2>4, <2>5 DEF Typed, sharing
<1>4. ASSUME NEW j \in Slots, BeginsShare(j) PROVE Typed'
  <2>0. PICK id \in ShareIds : BeginShare(j, id) /\ "share" \in Kinds
    BY <1>4 DEF BeginsShare
  <2>1. PICK r \in Job : /\ job' = [job EXCEPT ![j] = r] /\ count.ops < MaxOps
             /\ inFlight' = inFlight \cup {id}
             /\ count' = [count EXCEPT !.ops = @ + 1]
             /\ era' = [era EXCEPT ![id].home = keys]
             /\ UNCHANGED <<server, keys, user, floors, pending, cancelled, result>>
    BY <1>0, <2>0, BeginShareForm
  <2>2. job' \in [Slots -> Job] BY <1>0, <2>1 DEF Typed
  <2>3. \A k \in Slots : job'[k].kind \in Kinds \cup {None} /\ job'[k].op \in 0..MaxOps
    BY <2>2 DEF Job
  <2>4. count' \in [unlocks : 0..MaxUnlocks, locks : Nat, ops : 0..MaxOps]
    BY <1>0, <2>1, WritesAssumption DEF Typed
  <2>5. TypeOK' BY <1>0, <2>1, <2>3 DEF TypeOK, server, floors
  <2>6. era' \in [ShareIds -> [times : 0..MaxOps, home : 0..MaxUnlocks]]
    BY <1>0, <2>1 DEF Typed, TypeOK
  <2> QED BY <1>0, <2>1, <2>2, <2>4, <2>5, <2>6 DEF Typed
<1>5. ASSUME NEW id \in ShareIds, Discard(id) \/ Expire(id) PROVE Typed'
  <2>1. job' \in [Slots -> Job]
    <3>1. CASE Discard(id)
      <4>1. \A j \in Slots : [job[j] EXCEPT !.told = TRUE] \in Job
        BY ZenonT(30), <1>0, JobTyped DEF Job
      <4> QED BY <1>0, <3>1, <4>1 DEF Discard, Typed
    <3>2. CASE Expire(id) BY <1>0, <3>2 DEF Expire, Typed
    <3> QED BY <1>5, <3>1, <3>2
  <2>2. \A k \in Slots : job'[k].kind \in Kinds \cup {None} /\ job'[k].op \in 0..MaxOps
    BY <2>1 DEF Job
  <2>3. pending' \in [ShareIds -> 0..MaxOps]
    BY <1>0, <1>5, WritesAssumption DEF Discard, Expire, TypeOK
  <2>4. era' \in [ShareIds -> [times : 0..MaxOps, home : 0..MaxUnlocks]]
    BY <1>0, <1>5 DEF Typed, Discard, Expire
  <2>5. inFlight' = inFlight /\ cancelled' \subseteq inFlight
    BY <1>0, <1>5 DEF Discard, Expire, TypeOK
  <2>6. UNCHANGED <<store, made, posted, keys, user, floor, seen, session, count, result>>
    BY <1>5 DEF Discard, Expire, server, floors
  <2>7. TypeOK' BY <1>0, <2>2, <2>3, <2>5, <2>6 DEF TypeOK
  <2> QED BY <1>0, <2>1, <2>4, <2>6, <2>7 DEF Typed
<1>6. ASSUME Forget, session' \in Nat, job' \in [Slots -> Job] PROVE Typed'
  BY <1>6, <1>0, WritesAssumption DEF Job, TypeOK, Forget, server, Typed
<1>7. CASE Lock \/ Restart
  BY <1>0, <1>7, IdleTyped, WritesAssumption, <1>6 DEF Lock, Restart, TypeOK, Typed
<1>8. ASSUME NEW u \in Users, Unlock(u) PROVE Typed'
  BY <1>0, <1>8, WritesAssumption DEF Typed, Unlock, TypeOK, server, floors, sharing
<1>9. CASE Rotate \/ \E e \in Edits : EditElsewhere(e)
  <2>1. store' \in [epoch: 1..MaxEpoch, rev: Nat, content: SUBSET (Ops \cup Edits)]
    <3>0. store \in [epoch: 1..MaxEpoch, rev: Nat, content: SUBSET (Ops \cup Edits)]
      BY <1>0 DEF TypeOK
    <3>1. CASE Rotate
      <4>1. PICK q : q = [store EXCEPT !.epoch = @ + 1] OBVIOUS
      <4> QED BY <3>0, <3>1, <4>1, WritesAssumption DEF Rotate
    <3>2. ASSUME NEW e \in Edits, EditElsewhere(e)
          PROVE  store' \in [epoch: 1..MaxEpoch, rev: Nat, content: SUBSET (Ops \cup Edits)]
      <4>1. PICK q : q = [store EXCEPT !.rev = @ + 1, !.content = @ \cup {e}]
        OBVIOUS
      <4>2. store.content \cup {e} \in SUBSET (Ops \cup Edits) BY <3>0
      <4>3. q \in [epoch: 1..MaxEpoch, rev: Nat, content: SUBSET (Ops \cup Edits)]
        <5>1. q = [epoch |-> store.epoch, rev |-> store.rev + 1,
                   content |-> store.content \cup {e}]
          BY <3>0, <4>1
        <5>2. store.epoch \in 1..MaxEpoch /\ store.rev + 1 \in Nat BY <3>0
        <5> QED BY <5>1, <5>2, <4>2
      <4>4. store' = q BY <3>2, <4>1 DEF EditElsewhere
      <4> QED BY <4>3, <4>4
    <3> QED BY <1>9, <3>1, <3>2
  <2>2. UNCHANGED <<made, posted, keys, user, floors, sharing, job, count, result>>
    BY <1>9 DEF Rotate, EditElsewhere
  <2>3. TypeOK' BY <1>0, <2>1, <2>2 DEF TypeOK, floors, sharing
  <2> QED BY <1>0, <2>2, <2>3 DEF Typed, sharing
<1>10. CASE UNCHANGED vars
  BY <1>0, <1>10 DEF vars, server, floors, sharing, Typed, TypeOK
<1> QED BY <1>0, <1>1, <1>2, <1>3, <1>4, <1>5, <1>7, <1>8, <1>9, <1>10, NextCases

(* A discard marks the calls it finds, and nothing else of them. *)
LEMMA DiscardForm ==
    ASSUME Typed, NEW id \in ShareIds, Discard(id), NEW j \in Slots
    PROVE  /\ job'[j].kind = job[j].kind /\ job'[j].at = job[j].at /\ job'[j].op = job[j].op
           /\ job'[j].keys = job[j].keys /\ job'[j].user = job[j].user
           /\ job'[j].id = job[j].id /\ job'[j].era = job[j].era
           /\ job'[j].share = job[j].share /\ job'[j].base = job[j].base
           /\ job'[j].content = job[j].content /\ job'[j].reviewed = job[j].reviewed
           /\ job'[j].session = job[j].session /\ job'[j].locks = job[j].locks
           /\ job'[j].told = (job[j].told \/ (Running(j) /\ job[j].id = id))
BY JobTyped DEF Discard, Job

LEMMA NumberedKept == ASSUME WInv, [Next]_vars PROVE Numbered'
<1>0. Typed /\ TypeOK /\ Numbered BY DEF WInv, Typed
<1>c. count.ops \in Nat /\ count.unlocks \in Nat /\ count.ops <= MaxOps
      /\ \A k \in Slots : job[k].op \in Nat /\ job[k].keys \in Nat /\ keys \in Nat
  BY <1>0, WritesAssumption DEF Typed, TypeOK, Job
<1>1. ASSUME NEW j \in Slots, NEW r \in Job, GoesOn(j, r) PROVE Numbered'
  BY <1>0, <1>1 DEF GoesOn, Around, Typed, Numbered, Called, Same, Running, Done
<1>2. ASSUME NEW j \in Slots, NEW x \in Results \ {"none"}, EndsWith(j, x) PROVE Numbered'
  <2>1. PICK r \in Job : /\ job' = [job EXCEPT ![j] = r]
                         /\ r.at = "done" /\ r.op = job[j].op
    BY <1>0, <1>2, EndForm DEF EndsWith
  <2>2. Running(j) /\ UNCHANGED <<keys, user, count>> /\ job \in [Slots -> Job]
    BY <1>0, <1>2 DEF EndsWith, Around, Typed
  <2>3. job[j].op # 0 BY <1>0, <2>2 DEF Numbered, Called
  <2> QED BY <1>0, <2>1, <2>2, <2>3 DEF Numbered, Running, Called
<1>3. ASSUME NEW j \in Slots, NEW r \in Job, job' = [job EXCEPT ![j] = r],
             r.kind \in Kinds, r.at \notin Done,
             IF r.kind = "share" THEN r.id \in ShareIds ELSE r.id = None,
             r.op = count.ops + 1, r.keys = keys, r.user = user, keys # 0,
             count' = [count EXCEPT !.ops = @ + 1], UNCHANGED <<keys, user>>
      PROVE  Numbered'
  <2>1. job \in [Slots -> Job] /\ user \in Users BY <1>0, <1>3 DEF Typed
  <2>2. count'.ops = count.ops + 1 /\ count'.unlocks = count.unlocks
    BY <1>0, <1>3 DEF Typed
  <2>3. Called(j)' BY <1>0, <1>3, <2>1, <2>2, <1>c DEF Numbered, Called
  <2>4. \A k \in Slots : k # j => job'[k] = job[k] BY <1>3, <2>1
  <2>5. job'[j] = r BY <1>3, <2>1
  <2>6. \A k \in Slots : Running(k)' => Called(k)'
    BY <1>0, <2>2, <2>3, <2>4, <1>c, <1>3 DEF Numbered, Running, Called
  <2>7. \A k \in Slots : job'[k].op <= count'.ops /\ (job'[k].at = "done" => job'[k].op # 0)
    BY <1>0, <1>3, <2>2, <2>4, <2>5, <1>c DEF Numbered
  <2>8. \A k, l \in Slots : k # l /\ job'[k].op # 0 => job'[k].op # job'[l].op
    BY <1>0, <1>3, <2>4, <2>5, <1>c DEF Numbered
  <2>9. keys' <= count'.unlocks BY <1>0, <1>3, <2>2 DEF Numbered
  <2> QED BY <2>6, <2>7, <2>8, <2>9 DEF Numbered
<1>4. ASSUME NEW j \in Slots, Begins(j) PROVE Numbered'
  <2>1. PICK r \in Job : /\ job' = [job EXCEPT ![j] = r]
             /\ r.kind \in Kinds \ {"share"} /\ r.at \in {"challenge", "entry", "vault"}
             /\ r.op = count.ops + 1 /\ r.keys = keys /\ r.user = user /\ r.id = None
             /\ keys # 0
             /\ count' = [count EXCEPT !.ops = @ + 1]
             /\ UNCHANGED <<server, keys, user, floors, sharing, result>>
    BY <1>0, <1>4, BeginForm
  <2> QED BY <2>1, <1>3 DEF Done
<1>5. ASSUME NEW j \in Slots, BeginsShare(j) PROVE Numbered'
  <2>0. PICK id \in ShareIds : BeginShare(j, id) /\ "share" \in Kinds
    BY <1>5 DEF BeginsShare
  <2>1. PICK r \in Job : /\ job' = [job EXCEPT ![j] = r]
             /\ r.kind = "share" /\ r.at \in {"vault", "send"}
             /\ r.op = count.ops + 1 /\ r.keys = keys /\ r.user = user /\ r.id = id
             /\ keys # 0
             /\ count' = [count EXCEPT !.ops = @ + 1]
             /\ UNCHANGED <<server, keys, user, floors, pending, cancelled, result>>
    BY <1>0, <2>0, BeginShareForm
  <2>2. r.at \notin Done /\ r.kind \in Kinds /\ r.id \in ShareIds
    BY <2>0, <2>1 DEF Done
  <2> QED BY <2>1, <2>2, <1>3
<1>6. ASSUME NEW id \in ShareIds, Discard(id) \/ Expire(id) PROVE Numbered'
  BY <1>6, <1>0, DiscardForm DEF Discard, Expire, Numbered, Called, Running
<1>7. CASE Lock
  BY <1>0, <1>7, <1>c DEF Lock, Forget, Typed, Numbered, Called, Running
<1>8. CASE Restart
  BY <1>0, <1>8, <1>c DEF Restart, Forget, Typed, Idle, Numbered, Running
<1>9. ASSUME NEW u \in Users, Unlock(u) PROVE Numbered'
  BY <1>0, <1>9, <1>c DEF Unlock, Typed, Numbered, Called, Running
<1>10. CASE Rotate \/ \E e \in Edits : EditElsewhere(e)
  BY <1>0, <1>10 DEF Rotate, EditElsewhere, Numbered, Called, Running
<1>11. CASE UNCHANGED vars BY <1>0, <1>11 DEF vars, Numbered, Called, Running
<1> QED BY <1>0, <1>1, <1>2, <1>4, <1>5, <1>6, <1>7, <1>8, <1>9, <1>10, <1>11, NextCases

LEMMA FlooredKept == ASSUME WInv, [Next]_vars PROVE Floored'
<1>0. Typed /\ TypeOK /\ Numbered /\ Floored BY DEF WInv, Typed
<1>c. count.locks \in Nat /\ session \in Nat /\ job \in [Slots -> Job]
      /\ \A k \in Slots : job[k].session \in Nat /\ job[k].locks \in Nat
  BY <1>0 DEF Typed, TypeOK, Job
<1>l. ASSUME NEW j \in Slots, job[j].at = "open", Lifts(j) PROVE floor' = seen'
  BY <1>0, <1>l DEF Floored, SameLocks, Lifts, Raised
<1>1. ASSUME NEW j \in Slots, NEW r \in Job, GoesOn(j, r) PROVE Floored'
  <2>1. job' = [job EXCEPT ![j] = r] /\ UNCHANGED <<session, count>> /\ Goings(j, r)
    BY <1>1 DEF GoesOn, Around
  <2>2. floor' = seen' BY <1>0, <1>1, <1>l DEF GoesOn, Floored
  <2>3. r.at = "open" => r.session = session /\ r.locks = count.locks
    BY <2>1 DEF Goings, ToEntry, ToOpen, ReadsIt, IsOpen, AfterOpening,
             IsIssued, IsPrepared, IsSealed, IsSent, IsTaken, IsAnswered
  <2> QED BY <1>0, <1>c, <2>1, <2>2, <2>3 DEF Floored, SameLocks
<1>2. ASSUME NEW j \in Slots, NEW x \in Results \ {"none"}, EndsWith(j, x) PROVE Floored'
  <2>1. PICK r \in Job : job' = [job EXCEPT ![j] = r] /\ r.at = "done"
    BY <1>0, <1>2, EndForm DEF EndsWith
  <2>2. floor' = seen' /\ UNCHANGED <<session, count>>
    BY <1>0, <1>2, <1>l DEF EndsWith, Floored, Around
  <2> QED BY <1>0, <1>c, <2>1, <2>2 DEF Floored, SameLocks
<1>3. ASSUME NEW j \in Slots, NEW r \in Job, job' = [job EXCEPT ![j] = r], r.at # "open",
             count'.locks = count.locks, UNCHANGED floors
      PROVE  Floored'
  BY <1>0, <1>c, <1>3 DEF Floored, SameLocks, floors
<1>4. ASSUME NEW j \in Slots, Begins(j) PROVE Floored'
  <2>1. PICK r \in Job : /\ job' = [job EXCEPT ![j] = r]
             /\ r.at \in {"challenge", "entry", "vault"}
             /\ count' = [count EXCEPT !.ops = @ + 1]
             /\ UNCHANGED floors
    BY <1>0, <1>4, BeginForm
  <2>2. count'.locks = count.locks BY <1>0, <2>1 DEF Typed
  <2> QED BY <2>1, <2>2, <1>3
<1>5. ASSUME NEW j \in Slots, BeginsShare(j) PROVE Floored'
  <2>0. PICK id \in ShareIds : BeginShare(j, id) /\ "share" \in Kinds
    BY <1>5 DEF BeginsShare
  <2>1. PICK r \in Job : /\ job' = [job EXCEPT ![j] = r]
             /\ r.at \in {"vault", "send"}
             /\ count' = [count EXCEPT !.ops = @ + 1]
             /\ UNCHANGED <<server, keys, user, floors, pending, cancelled, result>>
    BY <1>0, <2>0, BeginShareForm
  <2>2. count'.locks = count.locks BY <1>0, <2>1 DEF Typed
  <2> QED BY <2>1, <2>2, <1>3
<1>6. ASSUME NEW id \in ShareIds, Discard(id) \/ Expire(id) PROVE Floored'
  BY <1>6, <1>0, DiscardForm DEF Discard, Expire, Floored, SameLocks, floors
<1>7. CASE Lock
  BY <1>0, <1>7, <1>c DEF Lock, Forget, Typed, Floored, SameLocks
<1>8. CASE Restart BY <1>8 DEF Restart, Forget, Floored, SameLocks, Idle
<1>9. ASSUME NEW u \in Users, Unlock(u) PROVE Floored'
  BY <1>0, <1>9 DEF Unlock, Typed, Floored, SameLocks, floors
<1>10. CASE Rotate \/ \E e \in Edits : EditElsewhere(e)
  BY <1>0, <1>10 DEF Rotate, EditElsewhere, Floored, SameLocks, floors
<1>11. CASE UNCHANGED vars BY <1>0, <1>11 DEF vars, Floored, SameLocks, floors
<1> QED BY <1>0, <1>1, <1>2, <1>4, <1>5, <1>6, <1>7, <1>8, <1>9, <1>10, <1>11, NextCases

(* The entry only moves on. *)
Grows ==
    /\ store.rev <= store'.rev
    /\ store'.rev = store.rev => store'.content = store.content
LEMMA RereadOthers ==
    ASSUME Typed, NEW k \in Slots, Reread(k), Grows, store'.rev \in Nat,
           job'[k].kind = job[k].kind, job'[k].at = job[k].at,
           job'[k].base = job[k].base, job'[k].content = job[k].content
    PROVE  Reread(k)'
<1>1. job[k].base \in Nat /\ store.rev \in Nat
  BY JobTyped DEF Job, Typed, TypeOK
<1> QED BY <1>1 DEF Reread, HasRead, Grows

(* What the server takes is added to what the vault has. *)
LEMMA TakesVault ==
    ASSUME WInv, NEW j \in Slots, job[j].at \in {"wait", "last"}, Running(j), Takes(j)
    PROVE  InVault' = InVault \cup {job[j].op} /\ Grows
<1>1. store.rev \in Nat /\ store \in [epoch: 1..MaxEpoch, rev: Nat, content: SUBSET (Ops \cup Edits)]
  BY DEF WInv, Typed, TypeOK
<1>2. CASE Rewrites(job[j].kind)
  BY <1>2, <1>1 DEF WInv, Written, HasRead, Rewrites, Takes, Reread, Grows, InVault
<1>3. CASE ~Rewrites(job[j].kind) BY <1>1, <1>3 DEF Takes, Grows, InVault
<1> QED BY <1>2, <1>3

(* Nothing of it changes when the vault and what callers were told do not. *)
LEMMA WrittenSame ==
    ASSUME WInv, NEW j \in Slots, NEW r \in Job, job' = [job EXCEPT ![j] = r],
           InVault' = InVault, Grows, store' = store, UNCHANGED result,
           count'.ops \in {count.ops, count.ops + 1},
           Reread(j)', Reviewed(j)', Untold(j)'
    PROVE  Written'
<1>1. \A k \in Slots : k # j => job'[k] = job[k] BY DEF WInv, Typed
<1>2. store.rev \in Nat /\ count.ops \in Nat
  BY WritesAssumption DEF WInv, Typed, TypeOK
<1>3. \A k \in Slots : Reread(k)'
  BY <1>1, <1>2, RereadOthers DEF WInv, Written
<1>4. \A k \in Slots : Reviewed(k)' /\ Untold(k)'
  BY <1>1 DEF WInv, Written, Reviewed, Untold, Running
<1>5. \A n \in Ops : n > count'.ops => n > count.ops BY <1>2 DEF Ops
<1> QED BY <1>3, <1>4, <1>5 DEF WInv, Written

LEMMA WrittenKept == ASSUME WInv, [Next]_vars PROVE Written'
<1>0. Typed /\ TypeOK /\ Numbered /\ Written BY DEF WInv, Typed
<1>t. Typed' /\ Numbered'
  BY TypedKept, NumberedKept
<1>c. store.rev \in Nat /\ count.ops \in Nat /\ job \in [Slots -> Job] /\ count.ops <= MaxOps
  BY <1>0, WritesAssumption DEF Typed, TypeOK
<1>1. ASSUME NEW j \in Slots, NEW r \in Job, GoesOn(j, r) PROVE Written'
  <2>1. /\ job' = [job EXCEPT ![j] = r] /\ UNCHANGED <<count, result>> /\ Goings(j, r)
        /\ Same(r, job[j]) /\ Running(j) /\ job'[j] = r
    BY <1>1, <1>c DEF GoesOn, Around, Quiet
  <2>2. Reread(j) /\ Reviewed(j) /\ Untold(j) BY <1>0 DEF Written
  <2>3. CASE r.at # "answer"
    <3>1. UNCHANGED server BY <1>1, <2>3 DEF GoesOn
    <3>2. Reread(j)'
      BY <2>1, <2>2, <2>3, <3>1, <1>c
         DEF Goings, ToEntry, ToOpen, ReadsIt, IsOpen, AfterOpening, IsIssued, IsPrepared,
             IsSealed, IsSent, IsTaken, IsAnswered, Reread, HasRead, Same, Holds, server,
             OpensFirst, Reviewed
    <3>3. Reviewed(j)'
      BY <2>1, <2>2, <2>3, <3>1
         DEF Goings, ToEntry, ToOpen, ReadsIt, IsOpen, AfterOpening, IsIssued, IsPrepared,
             IsSealed, IsSent, IsTaken, IsAnswered, Same, Holds,
             OpensFirst, Reviewed, NamedRevision, Names
    <3>4. Untold(j)'
      <4>1. r.at \in {"answer", "refresh"} <=> job[j].at \in {"answer", "refresh"}
        BY <2>1, <2>3 DEF Goings, ToEntry, ToOpen, ReadsIt, IsOpen, AfterOpening, IsIssued,
             IsPrepared, IsSealed, IsSent, IsTaken, IsAnswered
      <4> QED BY <2>1, <2>2, <3>1, <4>1 DEF Untold, Same, InVault, server
    <3>5. InVault' = InVault /\ store' = store /\ Grows /\ count'.ops = count.ops
          /\ result' = result
      BY <1>c, <2>1, <3>1 DEF InVault, server, Grows
    <3> QED BY <2>1, <3>2, <3>3, <3>4, <3>5, WrittenSame
  <2>4. CASE r.at = "answer"
    <3>1. job[j].at \in {"wait", "last"} /\ Takes(j)
      BY <1>1, <2>1, <2>4 DEF GoesOn, Goings, ToEntry, ToOpen, ReadsIt, IsOpen, AfterOpening,
             IsIssued, IsPrepared, IsSealed, IsSent, IsTaken, IsAnswered
    <3>2. InVault' = InVault \cup {job[j].op} /\ Grows
      BY <2>1, <3>1, TakesVault
    <3>3. store'.rev \in Nat BY <1>t DEF Typed, TypeOK
    <3>4. \A k \in Slots : k # j => job'[k] = job[k] BY <2>1, <1>c
    <3>5. \A k \in Slots : Reread(k)'
      BY <2>1, <2>4, <1>0, <3>2, <3>3, <3>4, RereadOthers DEF Reread, HasRead, Written
    <3>6. \A k \in Slots : Reviewed(k)'
      BY <1>0, <2>1, <2>4, <3>4 DEF Written, Reviewed
    <3>7. \A k \in Slots : Untold(k)'
      BY <2>1, <2>2, <2>4, <3>2, <1>0, <3>4 DEF Untold, Same, Numbered, Called, Written, Running
    <3>8. job[j].op <= count.ops BY <1>0 DEF Numbered
    <3> QED BY <1>0, <1>c, <2>1, <3>2, <3>5, <3>6, <3>7, <3>8 DEF Written, Ops
  <2> QED BY <2>3, <2>4
<1>2. ASSUME NEW j \in Slots, NEW x \in Results \ {"none"}, EndsWith(j, x) PROVE Written'
  <2>1. PICK r \in Job : job' = [job EXCEPT ![j] = r] /\ r.at = "done" /\ r.kind = None
    BY <1>0, <1>2, EndForm DEF EndsWith
  <2>2. /\ UNCHANGED <<store, made, count>> /\ Running(j)
        /\ result' = [result EXCEPT ![job[j].op] = x]
    BY <1>2 DEF EndsWith, Ends, Around, server
  <2>3. \A k \in Slots : k # j => job'[k] = job[k] BY <2>1, <1>c
  <2>4. \A k \in Slots : Reread(k)' /\ Reviewed(k)'
    BY <1>0, <2>1, <2>2, <2>3, <1>c DEF Written, Reread, HasRead, Reviewed
  <2>5. \A k \in Slots : Untold(k)'
    BY <2>1, <1>c, <1>0, <2>2, <2>3 DEF Untold, Running, Numbered, Called, Written, InVault, TypeOK
  <2>6. job[j].op <= count.ops BY <1>0 DEF Numbered
  <2> QED BY <1>0, <1>c, <2>2, <2>4, <2>5, <2>6 DEF Written, InVault, Ops, TypeOK
<1>3. ASSUME NEW j \in Slots, NEW r \in Job, job' = [job EXCEPT ![j] = r],
             r.at \in {"challenge", "entry", "vault"} \/ (r.kind = "share" /\ r.at = "send"),
             r.op = count.ops + 1, count.ops < MaxOps,
             count' = [count EXCEPT !.ops = @ + 1], UNCHANGED <<server, result>>
      PROVE  Written'
  BY <1>0, <1>3, <1>c, WritesAssumption, WrittenSame DEF Typed, Ops, Reread, HasRead, Reviewed,
     Untold, Running, Written, InVault, server, Grows
<1>4. ASSUME NEW j \in Slots, Begins(j) PROVE Written'
  <2>1. PICK r \in Job : /\ job' = [job EXCEPT ![j] = r] /\ count.ops < MaxOps
             /\ r.at \in {"challenge", "entry", "vault"} /\ r.op = count.ops + 1
             /\ count' = [count EXCEPT !.ops = @ + 1]
             /\ UNCHANGED <<server, keys, user, floors, sharing, result>>
    BY <1>0, <1>4, BeginForm
  <2> QED BY <2>1, <1>3
<1>5. ASSUME NEW j \in Slots, BeginsShare(j) PROVE Written'
  <2>0. PICK id \in ShareIds : BeginShare(j, id) /\ "share" \in Kinds
    BY <1>5 DEF BeginsShare
  <2>1. PICK r \in Job : /\ job' = [job EXCEPT ![j] = r] /\ count.ops < MaxOps
             /\ r.kind = "share" /\ r.at \in {"vault", "send"} /\ r.op = count.ops + 1
             /\ count' = [count EXCEPT !.ops = @ + 1]
             /\ UNCHANGED <<server, keys, user, floors, pending, cancelled, result>>
    BY <1>0, <2>0, BeginShareForm
  <2> QED BY <2>1, <1>3
<1>6. ASSUME NEW id \in ShareIds, Discard(id) \/ Expire(id) PROVE Written'
  BY <1>6, <1>0, DiscardForm DEF Discard, Expire, Written, Reread, HasRead, Reviewed, Untold,
     Running, InVault, server
<1>7. CASE Lock
  BY <1>0, <1>7 DEF Lock, Forget, Typed, Written, Reread, HasRead, Reviewed, Untold, Running,
     InVault, server
<1>8. CASE Restart
  BY <1>0, <1>8 DEF Restart, Forget, Typed, Idle, Written, Reread, HasRead, Reviewed, Untold,
     Running, InVault, server
<1>9. ASSUME NEW u \in Users, Unlock(u) PROVE Written'
  BY <1>0, <1>9 DEF Unlock, Typed, Written, Reread, HasRead, Reviewed, Untold, Running, InVault,
     server
<1>10. CASE Rotate
  BY <1>0, <1>10 DEF Rotate, TypeOK, Written, Reread, HasRead, Reviewed, Untold, Running, InVault
<1>11. ASSUME NEW e \in Edits, EditElsewhere(e) PROVE Written'
  <2>1. UNCHANGED <<made, job, count, result>> /\ store'.rev = store.rev + 1
        /\ store'.content = store.content \cup {e}
    BY <1>0, <1>11 DEF EditElsewhere, TypeOK
  <2>2. e \notin Ops BY WritesAssumption DEF Ops, Edits
  <2>3. \A k \in Slots : Reread(k)'
    BY <1>0, <1>c, <2>1, RereadOthers DEF Written, Grows
  <2>4. \A k \in Slots : Running(k) => job[k].op \in Ops BY OpTyped
  <2>5. \A k \in Slots : Untold(k)'
    BY <1>0, <2>1, <2>2, <2>4 DEF Written, Untold, Running, InVault
  <2> QED BY <1>0, <2>1, <2>2, <2>3, <2>5 DEF Written, Reviewed, InVault
<1>12. CASE UNCHANGED vars
  BY <1>0, <1>12 DEF vars, server, Written, Reread, HasRead, Reviewed, Untold, Running, InVault
<1> QED BY <1>0, <1>1, <1>2, <1>4, <1>5, <1>6, <1>7, <1>8, <1>9, <1>10, <1>11, <1>12, NextCases

(* The share of one call is left alone by what concerns another id. *)
ShareKept(k) ==
    /\ Sharing(k) /\ job'[k] = job[k] /\ keys' = keys
    /\ pending'[job[k].id] = pending[job[k].id]
    /\ job[k].id \in inFlight => job[k].id \in inFlight'
    /\ job[k].id \in cancelled' <=> job[k].id \in cancelled
    /\ era'[job[k].id] = era[job[k].id] /\ count.ops <= count'.ops
    /\ \A p \in posted' : p.id = job[k].id => p \in posted
LEMMA SharingFacts ==
    ASSUME WInv, NEW j \in Slots, Sharing(j)
    PROVE  /\ job[j].id \in ShareIds /\ SharingOf(j) /\ Called(j)
           /\ job[j].op \in Nat /\ job[j].era \in Nat /\ job[j].share \in Nat
           /\ job[j].keys \in Nat /\ job[j].keys # 0 /\ job[j] \in Job
BY JobTyped, WritesAssumption DEF WInv, Numbered, Shared, Sharing, SharingOf, Called, Job

LEMMA SharingSame ==
    ASSUME WInv, NEW k \in Slots, ShareKept(k), count'.ops \in Nat PROVE SharingOf(k)'
BY SharingFacts, WritesAssumption DEF ShareKept, WInv, Typed, SharingOf, ShareRun, ShareStarts,
   PostOf, ShareSent

(* What the links of an id ask, when nothing of it changes. *)
LEMMA PostSame ==
    ASSUME NEW p \in posted, PostKnown(p), count.ops \in Nat, count'.ops \in Nat,
           p.share \in Nat, count.ops <= count'.ops, keys' = keys,
           era'[p.id] = era[p.id], pending'[p.id] = pending[p.id]
    PROVE  PostKnown(p)'
BY DEF PostKnown

LEMMA PostTyped ==
    ASSUME Typed, NEW p \in posted
    PROVE  p.id \in ShareIds /\ p.share \in Nat /\ p.era \in Nat
BY SMTT(30), WritesAssumption DEF Typed, TypeOK, Ops

LEMMA KnownSame ==
    ASSUME NEW id \in ShareIds, PendingKnown(id), Typed, count'.ops \in Nat,
           count.ops <= count'.ops, count'.unlocks = count.unlocks, keys' = keys,
           era'[id] = era[id], pending'[id] = pending[id],
           id \in inFlight' => id \in inFlight
    PROVE  PendingKnown(id)'
BY WritesAssumption DEF Typed, TypeOK, PendingKnown

OnePost == \A p, q \in posted : p.id = q.id /\ p.era = q.era => p.share = q.share
ToldNothing == \A j \in Slots : job[j].at = "done" /\ job[j].told =>
                                  result[job[j].op] # "saved"

(* What remains to show of a step that changes the call j alone. *)
LEMMA SharedAlone ==
    ASSUME WInv, NEW j \in Slots, Told', OnePost', ToldNothing',
           \A k \in Slots : k # j /\ Sharing(k)' => Sharing(k) /\ ShareKept(k),
           count'.ops \in Nat,
           Sharing(j)' => SharingOf(j)' /\ \A k \in Slots : k # j /\ Sharing(k) =>
                                             job[k].id # job'[j].id,
           \A p \in posted' : PostKnown(p)',
           \A id \in ShareIds : PendingKnown(id)'
    PROVE  Shared'
BY SharingSame DEF ShareKept, WInv, Shared, Apart, SharesAreOnce, OnePost, ToldNothing

(* A call goes on. *)
LEMMA SharedGoes ==
    ASSUME WInv, NEW j \in Slots, NEW r \in Job, GoesOn(j, r) PROVE Shared'
<1>0. Typed /\ TypeOK /\ Numbered /\ Written /\ Shared BY DEF WInv, Typed
<1>1. /\ job' = [job EXCEPT ![j] = r] /\ Goings(j, r) /\ Same(r, job[j]) /\ Running(j)
      /\ r.at \notin Done /\ UNCHANGED <<count, result, keys, era, inFlight, cancelled>>
  BY DEF GoesOn, Around, Quiet
<1>2. job'[j] = r /\ \A k \in Slots : k # j => job'[k] = job[k]
  BY <1>0, <1>1 DEF Typed
<1>3. /\ \A k \in Slots : Sharing(k)' <=> Sharing(k)
      /\ \A k \in Slots : Running(k)' <=> Running(k)
  BY <1>1, <1>2 DEF Sharing, Running, Same, Done
<1>4. Told' BY <1>0, <1>1, <1>2, <1>3 DEF Shared, Told, Same
<1>5. ToldNothing'
  BY <1>0, <1>1, <1>2 DEF Shared, SharesAreOnce, ToldNothing, Done
<1>6. /\ count.ops \in Nat /\ count'.ops = count.ops
      /\ \A k \in Slots : k # j /\ Sharing(k) /\ Sharing(j) => job[k].id # job[j].id
      /\ r.id = job[j].id
  BY <1>0, <1>1, WritesAssumption DEF Typed, Shared, Apart, Same
<1>7. ASSUME NEW k \in Slots, k # j, Sharing(k), pending'[job[k].id] = pending[job[k].id],
             \A p \in posted' : p.id = job[k].id => p \in posted
      PROVE  ShareKept(k)
  BY <1>1, <1>2, <1>6, <1>7 DEF ShareKept
<1>8. CASE job[j].at # "prepare" /\ r.at # "answer"
  <2>0. UNCHANGED <<pending, posted>> BY <1>8 DEF GoesOn, server
  <2>1. ASSUME Sharing(j) PROVE SharingOf(j)'
    <3>1. SharingOf(j) /\ job[j].kind = "share" /\ job[j].at \in Starts \cup Sent
      BY <2>1, SharingFacts DEF SharingOf, ShareRun, Sharing
    <3>2. \/ job[j].at \in Starts /\ r.at \in Starts
             /\ (r.at = "prepare" => r.share = r.op)
          \/ job[j].at \in Sent /\ r.at \in Sent /\ r.share = job[j].share
      BY <1>1, <1>8, <3>1 DEF Goings, ToEntry, ToOpen, ReadsIt, IsOpen, AfterOpening,
             IsIssued, IsPrepared, IsSealed, IsSent, IsTaken, IsAnswered, Holds, Same,
             Starts, Sent, OpensFirst, Cached
    <3>4. ShareRun(j)' BY <1>1, <1>2, <3>1, <3>2 DEF SharingOf, ShareRun, Same
    <3>5. r.at \in Starts => ShareStarts(j)'
      BY <1>1, <1>2, <2>0, <3>1, <3>2
         DEF SharingOf, ShareStarts, Same, PostOf, Starts, Sent
    <3>6. r.at \in Sent => ShareSent(j)'
      BY <1>1, <1>2, <1>6, <2>0, <3>1, <3>2
         DEF SharingOf, ShareSent, Same, PostOf, Starts, Sent
    <3> QED BY <1>2, <3>4, <3>5, <3>6 DEF SharingOf
  <2>4. OnePost' BY <1>0, <2>0 DEF Shared, SharesAreOnce, OnePost
  <2>5. \A p \in posted' : PostKnown(p)'
    BY <1>0, <1>1, <2>0 DEF Shared, PostKnown
  <2>6. \A id \in ShareIds : PendingKnown(id)'
    BY <1>0, <1>1, <2>0 DEF Shared, PendingKnown
  <2> QED BY <1>2, <1>3, <1>4, <1>5, <1>6, <1>7, <2>0, <2>1, <2>4, <2>5, <2>6, SharedAlone
<1>9. CASE job[j].at = "prepare"
  <2>1. IsPrepared(j, r)
    BY <1>1, <1>9 DEF Goings, ToEntry, ToOpen, ReadsIt, IsOpen, IsIssued, IsSealed,
           IsSent, IsTaken, IsAnswered
  <2>2. /\ Sharing(j) /\ UNCHANGED posted
        /\ pending' = [pending EXCEPT ![job[j].id] = job[j].share]
    BY <1>0, <1>1, <1>9, <2>1 DEF GoesOn, IsPrepared, server, Written, Reviewed, Sharing
  <2>3. /\ SharingOf(j) /\ job[j].id \in ShareIds /\ job[j].op \in Nat
        /\ job[j].era \in Nat /\ job[j].keys # 0
    BY <2>2, SharingFacts
  <2>4. ShareRun(j) /\ ShareStarts(j) /\ job[j].share = job[j].op
    BY <1>9, <2>3 DEF SharingOf, ShareStarts, Starts
  <2>5. /\ job[j].keys = keys /\ job[j].id \notin cancelled /\ job[j].op <= count.ops
        /\ job[j].era = era[job[j].id].times /\ r.share = job[j].share /\ r.at = "send"
        /\ era[job[j].id].home = keys
    BY <1>0, <1>1, <2>1, <2>4
       DEF IsPrepared, SameKeys, Same, Numbered, ShareStarts, ShareRun, Holds
  <2>6. /\ pending'[job[j].id] = job[j].share
        /\ \A id \in ShareIds : id # job[j].id => pending'[id] = pending[id]
    BY <1>0, <2>2, <2>3 DEF TypeOK
  <2>7. SharingOf(j)'
    BY <1>1, <1>2, <2>4, <2>5, <1>6, <2>2, <2>6 DEF ShareRun, Same, Sent, ShareSent, ShareStarts,
       PostOf, SharingOf, Starts
  <2>8. ASSUME NEW k \in Slots, k # j, Sharing(k) PROVE ShareKept(k)
    BY <1>6, <2>2, <2>8, SharingFacts, <1>7, <2>6
  <2>9. ASSUME NEW p \in posted' PROVE PostKnown(p)'
    BY <1>0, <2>2, PostTyped, <2>4, <1>1, <2>5, <2>6 DEF Shared, ShareStarts, PostKnown, PostOf
  <2>10. ASSUME NEW id \in ShareIds PROVE PendingKnown(id)'
    BY <1>0, <1>1, <1>6, <2>3, <2>4, <2>5, <2>6 DEF Shared, PendingKnown, ShareRun
  <2>11. OnePost' BY <1>0, <2>2 DEF Shared, SharesAreOnce, OnePost
  <2> QED BY <1>2, <1>3, <1>4, <1>5, <1>6, <2>2, <2>7, <2>8, <2>9, <2>10, <2>11, SharedAlone
<1>10. CASE r.at = "answer"
  <2>1. IsTaken(j, r) /\ Takes(j) /\ UNCHANGED pending
    BY <1>1, <1>10 DEF GoesOn, Goings, ToEntry, ToOpen, ReadsIt, IsOpen, AfterOpening, IsIssued, IsPrepared,
           IsSealed, IsSent, IsTaken, IsAnswered
  <2>2. CASE ~Sharing(j)
    BY <1>1, <2>1, <2>2, <1>0, <1>2, <1>3, <1>4, <1>5, <1>6, <1>7, SharedAlone DEF Takes, Sharing,
       Shared, SharesAreOnce, OnePost, PostKnown, PendingKnown
  <2>3. CASE Sharing(j)
    <3>1. PICK p : p = [id |-> job[j].id, share |-> job[j].share, era |-> job[j].era]
      OBVIOUS
    <3>2. posted' = posted \cup {p} /\ p.id = job[j].id /\ p.share = job[j].share
          /\ p.era = job[j].era
      BY <2>1, <2>3, <3>1 DEF Takes, Sharing
    <3>3. /\ ShareRun(j) /\ ShareSent(j) /\ job[j].id \in ShareIds /\ job[j].keys # 0
          /\ r.share = job[j].share
      BY <2>1, <2>3, SharingFacts DEF SharingOf, IsTaken, Sent, Holds
    <3>4. SharingOf(j)'
      BY <1>1, <1>2, <1>10, <3>3, <1>6, <2>1, <3>2 DEF ShareRun, Same, Sent, ShareSent, PostOf,
         SharingOf, Starts
    <3>5. \A q \in posted : PostOf(j, q) => q.share = p.share
      BY <3>2, <3>3 DEF ShareSent
    <3>6. OnePost'
      BY <1>0, <3>2, <3>5 DEF Shared, SharesAreOnce, OnePost, PostOf
    <3>7. PostKnown(p)'
      BY <1>1, <1>6, <2>1, <3>2, <3>3 DEF PostKnown, ShareRun, ShareSent
    <3>8. \A q \in posted' : PostKnown(q)'
      BY <1>0, <1>1, <2>1, <3>2, <3>7 DEF Shared, PostKnown
    <3>9. \A id \in ShareIds : PendingKnown(id)'
      BY <1>0, <1>1, <2>1 DEF Shared, PendingKnown
    <3>10. ASSUME NEW k \in Slots, k # j, Sharing(k) PROVE ShareKept(k)
      BY <1>6, <1>7, <2>1, <2>3, <3>2, <3>10
    <3> QED BY <1>2, <1>3, <1>4, <1>5, <1>6, <2>3, <3>4, <3>6, <3>8, <3>9, <3>10,
               SharedAlone
  <2> QED BY <2>2, <2>3
<1> QED BY <1>8, <1>9, <1>10

LEMMA SharedEnds ==
    ASSUME WInv, NEW j \in Slots, NEW x \in Results \ {"none"}, EndsWith(j, x)
    PROVE  Shared'
<1>0. Typed /\ TypeOK /\ Numbered /\ Written /\ Shared BY DEF WInv, Typed
<1>1. PICK r \in Job : /\ job' = [job EXCEPT ![j] = r]
                       /\ r.at = "done" /\ r.op = job[j].op /\ r.told = job[j].told
                       /\ r.kind = None /\ r.id = None
  BY <1>0, EndForm DEF EndsWith
<1>2. /\ UNCHANGED <<posted, pending, keys, era, count>> /\ Running(j) /\ Says(j, x)
      /\ inFlight' = inFlight \ {job[j].id} /\ cancelled' = cancelled \ {job[j].id}
      /\ result' = [result EXCEPT ![job[j].op] = x] /\ job[j].op \in Ops
  BY OpTyped DEF EndsWith, Ends, Around, server
<1>3. job'[j] = r /\ \A k \in Slots : k # j => job'[k] = job[k]
  BY <1>0, <1>1 DEF Typed
<1>4. /\ \A k \in Slots : Sharing(k)' => k # j /\ Sharing(k)
      /\ \A k \in Slots : Running(k)' => k # j /\ Running(k)
  BY <1>1, <1>3 DEF Sharing, Running
<1>5. Told' BY <1>0, <1>3, <1>4 DEF Shared, Told
<1>6. job[j].told => x # "saved"
  BY <1>0, <1>2, SharingFacts DEF Shared, Told, Sharing, Kept, Workspace, SameKeys, Says, SharingOf,
     ShareRun, Starts, Sent
<1>7. ToldNothing'
  BY <1>0, <1>1, <1>2, <1>3, <1>6 DEF TypeOK, Numbered, Called, Shared, SharesAreOnce, ToldNothing
<1>8. count.ops \in Nat /\ count'.ops = count.ops
  BY <1>0, <1>2, WritesAssumption DEF Typed
<1>9. job[j].id = None \/ (Sharing(j) /\ job[j].id \in ShareIds)
  BY <1>0, <1>2 DEF Numbered, Called, Sharing
<1>10. ASSUME NEW k \in Slots, k # j, Sharing(k) PROVE ShareKept(k)
  BY <1>0, <1>9, <1>10, SharingFacts, WritesAssumption, <1>2, <1>3, <1>8 DEF Shared, Apart,
     ShareKept
<1>11. OnePost' BY <1>0, <1>2 DEF Shared, SharesAreOnce, OnePost
<1>12. \A p \in posted' : PostKnown(p)' BY <1>0, <1>2 DEF Shared, PostKnown
<1>13. \A id \in ShareIds : PendingKnown(id)'
  BY <1>0, <1>2 DEF Shared, PendingKnown
<1> QED BY <1>4, <1>5, <1>7, <1>8, <1>10, <1>11, <1>12, <1>13, SharedAlone

LEMMA SharedBegins == ASSUME WInv, NEW j \in Slots, Begins(j) PROVE Shared'
<1>0. Typed /\ TypeOK /\ Numbered /\ Shared BY DEF WInv, Typed
<1>1. PICK r \in Job : /\ job' = [job EXCEPT ![j] = r] /\ ~Running(j)
             /\ r.kind \in Kinds \ {"share"} /\ r.at \in {"challenge", "entry", "vault"}
             /\ ~r.told
             /\ count' = [count EXCEPT !.ops = @ + 1]
             /\ UNCHANGED <<server, keys, user, floors, sharing, result>>
  BY <1>0, BeginForm
<1>3. job'[j] = r /\ \A k \in Slots : k # j => job'[k] = job[k]
  BY <1>0, <1>1 DEF Typed
<1>4. /\ \A k \in Slots : Sharing(k)' => k # j /\ Sharing(k)
      /\ UNCHANGED <<posted, pending, inFlight, cancelled, era, keys>>
  BY <1>1, <1>3 DEF Sharing, Running, server, sharing
<1>5. Told' /\ ToldNothing'
  BY <1>0, <1>1, <1>3 DEF Shared, Told, ToldNothing, SharesAreOnce, Running
<1>6. /\ count.ops \in Nat /\ count'.ops = count.ops + 1 /\ count'.unlocks = count.unlocks
  BY <1>0, <1>1, WritesAssumption DEF Typed
<1>7. ASSUME NEW k \in Slots, k # j, Sharing(k) PROVE ShareKept(k)
  BY <1>3, <1>4, <1>6, <1>7 DEF ShareKept
<1>11. OnePost' BY <1>0, <1>4 DEF Shared, SharesAreOnce, OnePost
<1>12. \A p \in posted' : PostKnown(p)'
  BY <1>0, <1>4, <1>6, PostTyped, PostSame DEF Shared
<1>13. \A id \in ShareIds : PendingKnown(id)'
  BY <1>0, <1>4, <1>6, KnownSame DEF Shared
<1> QED BY <1>4, <1>5, <1>6, <1>7, <1>11, <1>12, <1>13, SharedAlone

LEMMA SharedBeginsShare == ASSUME WInv, NEW j \in Slots, BeginsShare(j) PROVE Shared'
<1>0. Typed /\ TypeOK /\ Numbered /\ Shared BY DEF WInv, Typed
<1>1. PICK id \in ShareIds : BeginShare(j, id) /\ "share" \in Kinds
  BY DEF BeginsShare
<1>2. PICK r \in Job :
             /\ job' = [job EXCEPT ![j] = r] /\ ~Running(j)
             /\ r.kind = "share" /\ r.at \in {"vault", "send"}
             /\ r.at = "vault" <=> pending[id] = 0
             /\ r.op = count.ops + 1 /\ r.keys = keys /\ r.user = user /\ r.id = id
             /\ r.share = pending[id] /\ ~r.told /\ r.era = era[id].times
             /\ keys # 0 /\ count.ops < MaxOps
             /\ id \notin inFlight /\ era[id].home \in {0, keys}
             /\ inFlight' = inFlight \cup {id}
             /\ count' = [count EXCEPT !.ops = @ + 1]
             /\ era' = [era EXCEPT ![id].home = keys]
             /\ UNCHANGED <<server, keys, user, floors, pending, cancelled, result>>
  BY <1>0, <1>1, BeginShareForm
<1>3. job'[j] = r /\ \A k \in Slots : k # j => job'[k] = job[k]
  BY <1>0, <1>2 DEF Typed
<1>4. \A k \in Slots : k # j /\ Sharing(k)' => Sharing(k)
  BY <1>3 DEF Sharing, Running
<1>5. Told' /\ ToldNothing'
  BY <1>0, <1>2, <1>3 DEF Shared, Told, ToldNothing, SharesAreOnce, Running
<1>6. /\ count.ops \in Nat /\ count'.ops = count.ops + 1 /\ count'.unlocks = count.unlocks
  BY <1>0, <1>2, WritesAssumption DEF Typed
<1>7. /\ era'[id].times = era[id].times /\ era'[id].home = keys
      /\ \A i \in ShareIds : i # id => era'[i] = era[i]
      /\ UNCHANGED <<posted, pending>> /\ pending[id] \in Nat /\ era[id].times \in Nat
  BY <1>0, <1>2, WritesAssumption DEF Typed, TypeOK, server
<1>8. ASSUME NEW k \in Slots, k # j, Sharing(k)
      PROVE  ShareKept(k) /\ job[k].id # id
  BY <1>8, SharingFacts, <1>2, <1>3, <1>6, <1>7 DEF SharingOf, ShareRun, ShareKept
<1>9. \A p \in posted : p.id = id /\ p.era = era[id].times =>
         pending[id] = p.share /\ p.share # 0
  BY <1>0, <1>2, PostTyped DEF Shared, PostKnown
<1>10. SharingOf(j)'
  BY <1>2, <1>3, <1>6, <1>7, <1>0, <1>9 DEF ShareRun, Starts, Sent, Shared, PendingKnown,
     ShareStarts, PostOf, ShareSent, SharingOf
<1>11. OnePost' BY <1>0, <1>7 DEF Shared, SharesAreOnce, OnePost
<1>12. \A p \in posted' : PostKnown(p)'
  BY <1>0, <1>2, <1>6, <1>7, PostTyped DEF Shared, PostKnown
<1>13. ASSUME NEW i \in ShareIds PROVE PendingKnown(i)'
  BY <1>0, <1>2, <1>6, <1>7, KnownSame DEF Shared, Numbered, PendingKnown
<1> QED BY <1>2, <1>3, <1>4, <1>5, <1>6, <1>8, <1>10, <1>11, <1>12, <1>13, SharedAlone

LEMMA SharedForgets ==
    ASSUME WInv, NEW id \in ShareIds, Discard(id) \/ Expire(id) PROVE Shared'
<1>0. Typed /\ TypeOK /\ Numbered /\ Shared BY DEF WInv, Typed
<1>1. /\ pending[id] # 0 \/ id \in inFlight
      /\ pending' = [pending EXCEPT ![id] = 0]
      /\ era' = [era EXCEPT ![id].times = count.ops]
      /\ UNCHANGED <<server, keys, user, inFlight, count, result>>
  BY DEF Discard, Expire
<1>2. /\ count.ops \in Nat /\ pending'[id] = 0
      /\ era'[id].times = count.ops /\ era'[id].home = era[id].home
      /\ \A i \in ShareIds : i # id => pending'[i] = pending[i] /\ era'[i] = era[i]
      /\ era[id].home = keys /\ keys # 0
  BY <1>0, <1>1, WritesAssumption DEF Typed, TypeOK, Shared, PendingKnown
<1>3. \A k \in Slots : /\ job'[k].kind = job[k].kind /\ job'[k].at = job[k].at
                       /\ job'[k].op = job[k].op /\ job'[k].keys = job[k].keys
                       /\ job'[k].id = job[k].id /\ job'[k].era = job[k].era
                       /\ job'[k].share = job[k].share
  BY <1>0, DiscardForm DEF Discard, Expire
<1>4. \A k \in Slots : Sharing(k)' <=> Sharing(k) BY <1>3 DEF Sharing, Running
<1>5. \A k \in Slots : job'[k].told => \/ job[k].told
                                       \/ /\ Running(k) /\ job[k].id = id
                                          /\ id \in inFlight => id \in cancelled'
  BY <1>0, DiscardForm DEF Discard, Expire
<1>6. Told'
  BY <1>0, <1>3, WritesAssumption, <1>5 DEF Running, Numbered, Shared, Told, Called
<1>7. ToldNothing'
  BY <1>3, <1>5, <1>0, <1>1 DEF Running, Shared, SharesAreOnce, ToldNothing
<1>8. cancelled \subseteq cancelled'
      /\ \A i \in ShareIds : i # id => (i \in cancelled' <=> i \in cancelled)
  BY DEF Discard, Expire
<1>9. ASSUME NEW k \in Slots, Sharing(k) PROVE SharingOf(k)'
  <2>1. /\ SharingOf(k) /\ job[k].id \in ShareIds /\ job[k].op \in Nat
        /\ job[k].era \in Nat /\ job[k].share \in Nat /\ job[k].keys # 0
        /\ job[k].op <= count.ops
    BY <1>0, <1>9, SharingFacts DEF Numbered
  <2>2. posted' = posted /\ keys' = keys /\ count' = count /\ inFlight' = inFlight
    BY <1>1 DEF server
  <2>3. CASE job[k].id # id
    <3>1. job'[k].told <=> job[k].told
      BY <1>0, DiscardForm, <1>5, <2>3 DEF Discard, Expire
    <3>2. ShareRun(k)'
      BY <1>2, <1>3, <1>8, <2>1, <2>2, <2>3, <3>1 DEF SharingOf, ShareRun
    <3>3. job[k].at \in Starts => ShareStarts(k)'
      BY <1>2, <1>3, <1>8, <2>1, <2>2, <2>3 DEF SharingOf, ShareStarts, PostOf
    <3>4. job[k].at \in Sent => ShareSent(k)'
      BY <1>2, <1>3, <2>1, <2>2, <2>3 DEF SharingOf, ShareSent, PostOf
    <3> QED BY <1>3, <3>2, <3>3, <3>4 DEF SharingOf
  <2>4. CASE job[k].id = id
    BY <2>1, <2>4, <1>5, <1>8, <1>2, <1>3, <2>2 DEF SharingOf, ShareRun, ShareStarts, Discard,
       Expire, PostOf, ShareSent
  <2> QED BY <2>3, <2>4
<1>10. Apart' BY <1>0, <1>3, <1>4 DEF Shared, Apart
<1>11. OnePost' BY <1>0, <1>1 DEF Shared, SharesAreOnce, OnePost, server
<1>12. ASSUME NEW p \in posted' PROVE PostKnown(p)'
  BY <1>0, <1>1, PostTyped, <1>2 DEF Shared, server, PostKnown
<1>13. ASSUME NEW i \in ShareIds PROVE PendingKnown(i)'
  BY <1>0, <1>1, <1>2 DEF Shared, PendingKnown
<1> QED BY <1>4, <1>6, <1>7, <1>9, <1>10, <1>11, <1>12, <1>13
        DEF Shared, SharesAreOnce, ToldNothing, OnePost

(* The session ends or another begins: no call of it is of that session. *)
LEMMA SharedElsewhere ==
    ASSUME WInv, UNCHANGED <<server, era, result>>, count'.ops = count.ops,
           count'.unlocks \in Nat, count.unlocks <= count'.unlocks, keys' = 0 \/ keys' > count.unlocks,
           pending' = [id \in ShareIds |-> 0], inFlight' = {},
           job' = job \/ job' = [j \in Slots |-> Idle]
    PROVE  Shared'
<1>0. Typed /\ TypeOK /\ Numbered /\ Shared BY DEF WInv, Typed
<1>c. count.ops \in Nat /\ count.unlocks \in Nat
      /\ \A id \in ShareIds : era[id].home \in Nat
  BY <1>0, WritesAssumption DEF Typed
<1>1. ASSUME NEW k \in Slots, Running(k)' PROVE job'[k] = job[k]
  BY <1>1 DEF Running, Idle
<1>2. \A k \in Slots : job'[k].at = "done" => job'[k] = job[k] BY DEF Idle
<1>3. Told' BY <1>0, <1>1 DEF Shared, Told, Running
<1>4. ToldNothing' BY <1>0, <1>2 DEF Shared, SharesAreOnce, ToldNothing
<1>5. OnePost' BY <1>0 DEF Shared, SharesAreOnce, OnePost, server
<1>6. \A k \in Slots : Sharing(k)' => Sharing(k) /\ job'[k] = job[k]
  BY <1>1 DEF Sharing, Running
<1>7. Apart' BY <1>0, <1>6 DEF Shared, Apart
<1>8. ASSUME NEW k \in Slots, Sharing(k)' PROVE SharingOf(k)'
  BY <1>6, <1>8, SharingFacts, <1>c DEF Called, SharingOf, ShareRun, ShareStarts, PostOf, server,
     ShareSent
<1>9. ASSUME NEW p \in posted' PROVE PostKnown(p)'
  BY <1>0, PostTyped, <1>c DEF Shared, server, PostKnown, PendingKnown
<1>10. ASSUME NEW id \in ShareIds PROVE PendingKnown(id)'
  BY <1>0, <1>c DEF Shared, PendingKnown
<1>11. SharesAreOnce' BY <1>4, <1>5 DEF SharesAreOnce, ToldNothing, OnePost
<1>12. \A k \in Slots : Sharing(k)' => SharingOf(k)' BY <1>8
<1> QED BY <1>3, <1>7, <1>9, <1>10, <1>11, <1>12 DEF Shared

LEMMA SharedKept == ASSUME WInv, [Next]_vars PROVE Shared'
<1>0. Typed /\ TypeOK /\ Numbered /\ Shared BY DEF WInv, Typed
<1>c. count.unlocks \in Nat /\ count.ops \in Nat
  BY <1>0, WritesAssumption DEF Typed
<1>1. CASE Lock \/ Restart
  BY <1>0, <1>1, <1>c, SharedElsewhere DEF Lock, Restart, Forget, Typed
<1>2. ASSUME NEW u \in Users, Unlock(u) PROVE Shared'
  BY <1>0, <1>2, <1>c, SharedElsewhere DEF Unlock, Typed, Shared, PendingKnown, TypeOK, sharing
<1>3. CASE Rotate \/ \E e \in Edits : EditElsewhere(e)
  <2>1. UNCHANGED <<posted, keys, sharing, job, count, result>>
    BY <1>3 DEF Rotate, EditElsewhere
  <2> QED BY <1>0, <2>1 DEF Shared, SharingOf, ShareRun, ShareStarts, ShareSent, PostOf,
        Sharing, Running, PostKnown, PendingKnown, Apart, Told, SharesAreOnce, sharing
<1>4. CASE UNCHANGED vars
  BY <1>0, <1>4 DEF vars, server, Shared, SharingOf, ShareRun, ShareStarts, ShareSent, PostOf,
        Sharing, Running, PostKnown, PendingKnown, Apart, Told, SharesAreOnce, sharing
<1> QED BY <1>0, <1>1, <1>2, <1>3, <1>4, NextCases, SharedGoes, SharedEnds, SharedBegins,
           SharedBeginsShare, SharedForgets

-----------------------------------------------------------------------------
(* The theorems. *)

LEMMA StartsSound == Init => WInv
<1>1. SUFFICES ASSUME Init PROVE WInv OBVIOUS
<1>2. /\ job \in [Slots -> Job] /\ \A j \in Slots : job[j].at = "idle" /\ job[j].op = 0
      /\ \A j \in Slots : ~Running(j) /\ job[j].kind \in Kinds \cup {None}
  BY <1>1, IdleTyped, WritesAssumption DEF Init, Idle, Running
<1>3. MaxOps \in Nat /\ MaxEpoch \in Nat /\ MaxUnlocks \in Nat /\ MaxEpoch # 0
  BY WritesAssumption
<1>4. store \in [epoch: 1..MaxEpoch, rev: Nat, content: SUBSET (Ops \cup Edits)]
  BY <1>1, <1>3 DEF Init
<1>5. TypeOK BY <1>1, <1>3, <1>2, <1>4 DEF Init, TypeOK
<1>6. Typed BY <1>1, <1>2, <1>3, <1>5 DEF Typed, Init
<1>7. Numbered BY <1>1, <1>2, <1>3 DEF Numbered, Init
<1>8. Floored BY <1>1, <1>2 DEF Floored, SameLocks, Init
<1>9. Written
  BY <1>1, <1>2 DEF Written, Reread, HasRead, Reviewed, Untold, InVault, Init
<1>10. Shared
  BY <1>1, <1>2 DEF Shared, Sharing, Apart, Told, SharesAreOnce, PendingKnown, Init
<1> QED BY <1>6, <1>7, <1>8, <1>9, <1>10 DEF WInv

(* The invariant of the writes holds throughout. *)
THEOREM Sound == Spec => []WInv
<1>1. WInv /\ [Next]_vars => WInv'
  BY TypedKept, NumberedKept, FlooredKept, WrittenKept, SharedKept DEF WInv
<1> QED BY StartsSound, <1>1, PTL DEF Spec

(* The floor of each account is the highest epoch opened since the lock, and *)
(* no operation id of the sharing panel yields two links, nor one that was   *)
(* discarded (WritesAreSound).                                               *)
THEOREM WritesSound == Spec => []WritesAreSound
<1>1. WInv => WritesAreSound
  BY DEF WInv, Typed, Floored, Shared, WritesAreSound, FloorIsOfSession
<1> QED BY Sound, <1>1, PTL

(* A write leaves only past every check of its call. *)
LEMMA LeavesAllowed ==
    ASSUME WInv, [Next]_vars, NEW j \in Slots, Leaves(j)
    PROVE  Allowed(j) /\ Seals(job[j].kind) /\ job[j].kind \in Kinds /\ Called(j)
<1>0. Typed /\ job \in [Slots -> Job] /\ Numbered BY DEF WInv, Typed
<1>1. /\ job[j].at \in {"send", "again"} /\ job'[j].at \in {"wait", "last"}
      /\ Seals(job[j].kind) /\ Running(j)
  BY DEF Leaves, Running
<1>2. Called(j) /\ job[j].kind \in Kinds BY <1>0, <1>1 DEF Numbered, Called
<1>3. ASSUME NEW k \in Slots, NEW r \in Job, GoesOn(k, r) PROVE Allowed(j)
  BY <1>0, <1>1, <1>3 DEF GoesOn, Goings, ToEntry, ToOpen, ReadsIt, IsOpen, IsIssued, IsPrepared,
     IsSealed, IsSent, IsTaken, IsAnswered
<1>4. ASSUME NEW k \in Slots, NEW x \in Results \ {"none"}, EndsWith(k, x) PROVE FALSE
  <2>1. PICK r \in Job : job' = [job EXCEPT ![k] = r] /\ r.at = "done"
    BY <1>0, <1>4, EndForm DEF EndsWith
  <2> QED BY <1>0, <1>1, <2>1
<1>5. ASSUME NEW k \in Slots, Begins(k) PROVE FALSE
  <2>1. PICK r \in Job : job' = [job EXCEPT ![k] = r] /\ ~Running(k)
                         /\ r.at \in {"challenge", "entry", "vault"}
    BY <1>0, <1>5, BeginForm
  <2> QED BY <1>0, <1>1, <2>1
<1>6. ASSUME NEW k \in Slots, BeginsShare(k) PROVE FALSE
  <2>1. PICK id \in ShareIds : BeginShare(k, id) /\ "share" \in Kinds
    BY <1>6 DEF BeginsShare
  <2>2. PICK r \in Job : job' = [job EXCEPT ![k] = r] /\ ~Running(k)
                         /\ r.at \in {"vault", "send"}
    BY <1>0, <2>1, BeginShareForm
  <2> QED BY <1>0, <1>1, <2>2
<1>7. ASSUME job'[j].at = job[j].at PROVE FALSE BY <1>1, <1>7
<1>8. ASSUME NEW id \in ShareIds, Discard(id) \/ Expire(id) PROVE FALSE
  BY <1>0, <1>7, DiscardForm, <1>8 DEF Expire
<1>9. ASSUME Restart PROVE FALSE BY <1>1, <1>9 DEF Restart, Idle
<1>10. CASE Lock \/ (\E u \in Users : Unlock(u)) \/ Rotate \/ (\E e \in Edits : EditElsewhere(e))
            \/ UNCHANGED vars
  BY <1>7, <1>10 DEF Lock, Unlock, Rotate, EditElsewhere, vars
<1> QED BY <1>0, <1>1, <1>2, <1>3, <1>4, <1>5, <1>6, <1>8, <1>9, <1>10, NextCases

(* Since the last lock nothing is written under an older vault key than one  *)
(* some call has opened (EpochsNeverGoBack).                                 *)
THEOREM EpochsKept == Spec => EpochsNeverGoBack
<1>1. ASSUME WInv, [Next]_vars, NEW j \in Slots, Leaves(j)
      PROVE  job[j].epoch >= seen[job[j].user]
  BY <1>1, LeavesAllowed DEF Allowed, AssertCurrent, WInv, Floored
<1>2. WInv /\ [Next]_vars =>
        [\A j \in Slots : Leaves(j) => job[j].epoch >= seen[job[j].user]]_vars
  BY <1>1
<1> QED BY Sound, <1>2, PTL DEF Spec, EpochsNeverGoBack

(* What is sent was opened and sealed in the session it is sent in, for its  *)
(* account, and for the revision the user reviewed (WritesAreOfTheirTime).   *)
THEOREM OfTheirTime == Spec => WritesAreOfTheirTime
<1>1. ASSUME WInv, [Next]_vars, NEW j \in Slots, Leaves(j), job[j].kind # "password"
      PROVE  SameSession(j)
  BY <1>1, LeavesAllowed, WritesAssumption DEF Seals, Allowed, Kept, Workspace, SameSession,
     SameKeys, Called
<1>2. ASSUME WInv, [Next]_vars, NEW j \in Slots, Leaves(j), job[j].kind \in {"update", "approve"}
      PROVE  job[j].base = job[j].reviewed
  BY <1>2 DEF WInv, Written, Reviewed, Leaves
<1>3. WInv /\ [Next]_vars =>
        [\A j \in Slots : Leaves(j) /\ job[j].kind # "password" => SameSession(j)]_vars
  BY <1>1
<1>4. WInv /\ [Next]_vars =>
        [\A j \in Slots : Leaves(j) /\ job[j].kind \in {"update", "approve"} =>
                            job[j].base = job[j].reviewed]_vars
  BY <1>2
<1>5. Spec => WritesStayInSession
  BY Sound, <1>3, PTL DEF Spec, WritesStayInSession
<1>6. Spec => ReviewedIsWritten
  BY Sound, <1>4, PTL DEF Spec, ReviewedIsWritten
<1> QED BY <1>5, <1>6 DEF WritesAreOfTheirTime

(* Every save takes effect once, on top of everything saved before it, or    *)
(* not at all, and what its caller is told agrees (SavesAreAtomic).          *)
THEOREM Atomic == Spec => SavesAreAtomic
<1>1. Init => Saves!Init BY DEF Init, Saves!Init
<1>2. ASSUME WInv, [Next]_vars PROVE [Saves!Next]_<<InVault, result>>
  <2>0. Typed /\ TypeOK /\ Written /\ Numbered BY <1>2 DEF WInv, Typed
  <2>1. ASSUME NEW j \in Slots, NEW r \in Job, GoesOn(j, r)
        PROVE  [Saves!Next]_<<InVault, result>>
    <3>1. CASE r.at = "answer"
      <4>1. job[j].at \in {"wait", "last"} /\ Takes(j) /\ Running(j) /\ result' = result
        BY <2>1, <3>1 DEF GoesOn, Quiet, Goings, ToEntry, ToOpen, ReadsIt, IsOpen,
             AfterOpening, IsIssued, IsPrepared, IsSealed, IsSent, IsTaken, IsAnswered
      <4>2. InVault' = InVault \cup {job[j].op} /\ job[j].op \in Ops
        BY <1>2, <4>1, TakesVault, OpTyped
      <4>3. result[job[j].op] = "none" /\ job[j].op \notin InVault
        BY <2>0, <4>1 DEF Written, Untold
      <4>4. Saves!Commit(job[j].op)
        BY <4>1, <4>2, <4>3 DEF Saves!Commit, InVault
      <4> QED BY <4>2, <4>4 DEF Saves!Next
    <3>2. CASE r.at # "answer"
      BY <2>1, <3>2 DEF GoesOn, Quiet, server, InVault
    <3> QED BY <3>1, <3>2
  <2>2. ASSUME NEW j \in Slots, NEW x \in Results \ {"none"}, EndsWith(j, x)
        PROVE  [Saves!Next]_<<InVault, result>>
    BY <1>2, <2>2, OpTyped, <2>0 DEF EndsWith, Ends, Written, Untold, Saves!Report, Says, InVault,
       server, Saves!Next, Results
  <2>3. ASSUME NEW e \in Edits, EditElsewhere(e) PROVE [Saves!Next]_<<InVault, result>>
    BY <2>0, <2>3 DEF EditElsewhere, TypeOK, Saves!EditElsewhere, Saves!Next
  <2>4. ASSUME store'.content = store.content, UNCHANGED <<made, result>>
        PROVE  [Saves!Next]_<<InVault, result>>
    BY <2>4 DEF InVault
  <2>5. CASE Rotate BY <2>0, <2>4, <2>5 DEF Rotate, TypeOK
  <2>6. CASE \E j \in Slots : Begins(j) \/ BeginsShare(j)
    BY <2>6, <2>4 DEF Begins, BeginsShare, Begin, BeginShare, server
  <2>7. CASE \/ \E id \in ShareIds : Discard(id) \/ Expire(id)
             \/ Lock \/ Restart \/ (\E u \in Users : Unlock(u)) \/ UNCHANGED vars
    BY <2>4, <2>7 DEF Discard, Expire, Lock, Restart, Forget, Unlock, vars, server
  <2> QED BY <1>2, <2>0, <2>1, <2>2, <2>3, <2>5, <2>6, <2>7, NextCases
<1>3. WInv /\ [Next]_vars => [Saves!Next]_<<InVault, result>> BY <1>2
<1> QED BY Sound, <1>1, <1>3, PTL DEF Spec, SavesAreAtomic, Saves!Spec, InVault
=============================================================================
