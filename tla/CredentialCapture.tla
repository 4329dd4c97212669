------------------------- MODULE CredentialCapture -------------------------
(* The worker's side of "save this password?" for one tab: what a page       *)
(* submits is kept in memory, claimed by the account that is signed in,      *)
(* carried over at most one navigation, offered once the page seems to have  *)
(* accepted it, and written to the vault when the user says so or has said   *)
(* so for this very revision before.                                         *)
(*                                                                           *)
(* Commands of a tab are handled one after another, each with many awaits;   *)
(* submissions are staged at once, and the browser's events, the session and *)
(* other devices do not wait for the queue.  What waits in the queue is not  *)
(* kept: a command is chosen when its turn comes, from whatever document may *)
(* have sent it, and of the submissions only the last one staged counts.     *)
EXTENDS Naturals, Sequences

CONSTANTS
    Users,       \* accounts on this browser
    Origins,     \* the https origins the tab visits
    Kinds,       \* the kinds of submissions explored
    MaxSubs,     \* bound: submissions
    MaxCmds,     \* bound: other commands
    MaxActs,     \* bound: navigations, dropped ports, changes of the session
                 \* and edits of the entry elsewhere, together
    None

ASSUME CaptureAssumption ==
    /\ Kinds \subseteq {"identifier", "nameless", "login", "choice", "change"}
    /\ {MaxSubs, MaxCmds, MaxActs} \subseteq Nat
    /\ None \notin Users \cup Origins

VARIABLES
    docs,   \* the browser: origins of the documents so far; the last is shown
    port,   \* topFrameDocuments: the document with a live port, 0 without one
    ports,  \* the documents that have connected
    news,   \* events of the browser the worker has not heard
    sess,   \* the session, and the generation its hooks count
    pend,   \* pending: the submission of the tab
    op,     \* operations: the command of the tab that runs
    entry,  \* the vault's entry for the site: revision and who wrote it
    auto,   \* preferences: the revision automation is enabled for, 0 for none
    count   \* bounds

vars == <<docs, port, ports, news, sess, pend, op, entry, auto, count>>
browser == <<docs, port, ports, news>>
vault == <<entry, auto>>

Doc == Len(docs)
Origin(d) == docs[d]
Submits == {"identifier", "nameless", "login", "choice", "change"}

NoTargets == [rev |-> 0, create |-> FALSE, eligible |-> FALSE]
Offers(t) == t.rev > 0 \/ t.create

-----------------------------------------------------------------------------
(* What the handlers look at. *)

(* isLiveCredentialDocument: its port is open and it answers. *)
Current(d) == port = d /\ Doc = d

(* stillAuthorized: the same submission, account and session, and the       *)
(* document it is bound to.                                                  *)
Authorized(o) ==
    /\ pend # None /\ pend.id = o.id /\ pend.profile = o.user
    /\ sess.user = o.user /\ sess.unlocked /\ sess.gen = o.gen
    /\ Current(pend.src)

(* live: a submission is shown only to the account that claimed it. *)
Live(user) == pend # None /\ pend.profile = user

Goes(o) == op' = o
Ends == op' = None

-----------------------------------------------------------------------------
(* Submissions are staged when they arrive, whatever waits in the queue. *)

(* A password without a name takes the identifier of the step before, typed  *)
(* in this document or in the one before it.                                 *)
Inherits(d) ==
    /\ pend # None /\ pend.kind = "identifier" /\ pend.profile # None
    /\ pend.origin = Origin(d)
    /\ pend.src = d \/ pend.succ = d

Staged(kind, d) ==
    LET from == kind = "nameless" IN
    [id |-> count.subs + 1, kind |-> kind, by |-> sess.user,
     profile |-> IF from THEN pend.profile ELSE None,
     origin |-> Origin(d), born |-> d, src |-> d, outcome |-> "waiting",
     targets |-> NoTargets, chosen |-> FALSE,
     sgen |-> IF from THEN pend.sgen ELSE 0,
     started |-> FALSE, loading |-> FALSE, succ |-> 0, claimed |-> FALSE]

(* Mutant: what the tab offered before is kept. *)
StagedOver(kind, d) ==
    [Staged(kind, d) EXCEPT !.targets = IF pend = None THEN @ ELSE pend.targets]

(* What takes the place of the tab's submission. *)
Replacing(kind, d) == Staged(kind, d)

(* A document can still be heard while the worker has not seen it go. *)
Heard(d) == d \in ports /\ (d = Doc \/ <<"gone", d>> \in news)

(* dispatch and stage: what cannot be staged drops the tab's submission. *)
Submit(kind, d) ==
    /\ count.subs < MaxSubs /\ Heard(d) /\ port = d
    /\ pend' = IF kind = "nameless" /\ ~Inherits(d) THEN None ELSE Replacing(kind, d)
    /\ count' = [count EXCEPT !.subs = @ + 1]
    /\ UNCHANGED <<browser, sess, op, vault>>

Op(cmd, d, id) == [cmd |-> cmd, doc |-> d, id |-> id, how |-> "",
                   at |-> "handle", user |-> None, gen |-> 0,
                   auto |-> FALSE, retry |-> FALSE, target |-> NoTargets]

(* The operation goes on about a submission, in the session it has read; of  *)
(* the command only what a save still asks is kept.                          *)
Known(o, id) == [o EXCEPT !.id = id, !.user = sess.user, !.gen = sess.gen,
                          !.cmd = "run", !.doc = 0, !.how = ""]

(* Other commands name what they are about: an outcome the submission of    *)
(* its document, a decision the prompt it answers.  Those that name what is  *)
(* no longer there, and those that find nothing claimed, change nothing and  *)
(* are left out.                                                             *)
Hows(cmd) == CASE cmd = "outcome" -> {"rejected", "success", "dismissed"}
               [] cmd = "resume" -> {"rejected", "success", "plain"}
               [] cmd \in {"save", "native"} -> {"once", "always"}
               [] OTHER -> {""}

(* A command is refused unless its document is the current one.  The         *)
(* extension's own surface has asked the document it shows.                  *)
Command(cmd, d) ==
    /\ op = None /\ count.cmds < MaxCmds /\ Current(d)
    /\ pend # None /\ pend.claimed
    /\ \E how \in Hows(cmd) :
         Goes([Op(cmd, d, IF cmd \in {"resume", "get"} THEN 0 ELSE pend.id)
               EXCEPT !.how = how])
    /\ count' = [count EXCEPT !.cmds = @ + 1]
    /\ UNCHANGED <<browser, sess, pend, vault>>

-----------------------------------------------------------------------------
(* handle, up to its second await. *)

(* A submission is claimed by whoever is signed in. *)
Claim ==
    /\ op = None /\ pend # None /\ ~pend.claimed
    /\ IF \/ sess.user = None
          \/ pend.profile \notin {None, sess.user}
          \/ pend.sgen \notin {0, sess.gen}
       THEN pend' = None /\ UNCHANGED op
       ELSE /\ pend' = [pend EXCEPT !.profile = sess.user, !.claimed = TRUE]
            /\ Goes([Known(Op("submit", pend.src, 0), pend.id) EXCEPT !.at = "accept"])
    /\ UNCHANGED <<browser, sess, vault, count>>

(* The site may be muted; the session may have changed meanwhile. *)
Accept ==
    /\ op.at = "accept" /\ Ends
    /\ IF ~Live(op.user) \/ pend.id # op.id THEN UNCHANGED pend
       ELSE \/ pend' = None
            \/ /\ sess.user = op.user /\ sess.gen = op.gen
               /\ pend' = IF pend.kind = "identifier"
                          THEN [pend EXCEPT !.sgen = sess.gen] ELSE pend
    /\ UNCHANGED <<browser, sess, vault, count>>

-----------------------------------------------------------------------------
(* What a command does to the submission p, as cases of one handler: each is *)
(* a condition and what becomes of the operation.                            *)

(* A confirmed change of the one exact account may be saved without asking.  *)
Offering(o, p) ==
    IF p.outcome = "confirmed" /\ p.targets.eligible
    THEN Goes([o EXCEPT !.at = "offer"])
    ELSE Ends

(* present: nothing while locked; the choices are read again in another     *)
(* session.  o has just read the session.                                    *)
Presenting(o, p) ==
    IF p.kind = "choice" /\ ~p.chosen
    THEN Goes([o EXCEPT !.at = "show"])
    ELSE IF o.retry \/ p.sgen # o.gen \/ ~Offers(p.targets)
    THEN Goes([o EXCEPT !.at = "choices"])
    ELSE Offering(o, p)
Present(o, p) == IF sess.unlocked THEN Presenting(o, p) ELSE Ends

(* Only a submission that waits may cross, to one new document. *)
Crosses == pend.outcome = "waiting" /\ op.doc # pend.born

Resume(o) ==
    IF ~Crosses THEN Ends /\ UNCHANGED pend
    ELSE IF o.how = "rejected" THEN Ends /\ pend' = None
    ELSE LET p == [pend EXCEPT !.src = o.doc,
                     !.outcome = IF o.how = "success" THEN "confirmed" ELSE "manual"]
         IN pend' = p /\ Present(Known(o, p.id), p)

Outcome(o) ==
    IF o.id # pend.id \/ pend.outcome # "waiting" THEN Ends /\ UNCHANGED pend
    ELSE IF o.how = "rejected" THEN Ends /\ pend' = None
    ELSE LET p == [pend EXCEPT !.outcome = IF o.how = "success"
                                           THEN "confirmed" ELSE "manual"]
         IN pend' = p /\ Present(Known(o, p.id), p)

(* A decision is about the prompt it names, in the session that saw it. *)
Decision(o) ==
    IF \/ o.id # pend.id \/ pend.outcome = "waiting"
    THEN Ends /\ UNCHANGED pend
    ELSE IF o.cmd = "dismiss" THEN Ends /\ pend' = None
    ELSE IF ~sess.unlocked \/ pend.sgen # sess.gen THEN Ends /\ UNCHANGED pend
    ELSE IF o.cmd = "choose"
    THEN IF pend.kind = "choice" /\ Authorized(Known(o, pend.id))
         THEN LET p == [pend EXCEPT !.chosen = TRUE, !.targets = NoTargets]
              IN pend' = p /\ Present([Known(o, p.id) EXCEPT !.retry = TRUE], p)
         ELSE Ends /\ UNCHANGED pend
    ELSE /\ UNCHANGED pend
         /\ IF Offers(pend.targets) /\ (pend.kind = "choice" => pend.chosen)
            THEN Goes([Known(o, pend.id) EXCEPT !.at = "save", !.how = o.how,
                         !.target = pend.targets])
            ELSE Ends

(* The identifier of a first step is only ever dropped. *)
IdentifierStep(o) ==
    /\ Ends
    /\ pend' = IF \/ o.cmd = "resume" /\ o.how = "rejected"
                  \/ /\ o.cmd = "outcome" /\ o.how = "rejected"
                     /\ o.id = pend.id /\ pend.src = o.doc
               THEN None ELSE pend

Handle ==
    /\ op.at = "handle" /\ op.cmd # "native"
    /\ LET o == op IN
       IF sess.user = None \/ (pend # None /\ pend.profile \notin {None, sess.user})
       THEN Ends /\ pend' = None
       ELSE IF ~Live(sess.user) THEN Ends /\ UNCHANGED pend
       ELSE IF pend.origin # Origin(o.doc) THEN Ends /\ pend' = None
       ELSE IF pend.kind = "identifier" THEN IdentifierStep(o)
       ELSE IF o.cmd = "resume" THEN Resume(o)
       ELSE IF pend.src # o.doc THEN Ends /\ UNCHANGED pend
       ELSE IF o.cmd = "outcome" THEN Outcome(o)
       ELSE IF o.cmd = "get"
       THEN /\ UNCHANGED pend
            /\ IF pend.outcome = "waiting" THEN Ends
               ELSE Present(Known(o, pend.id), pend)
       ELSE Decision(o)
    /\ UNCHANGED <<browser, sess, vault, count>>

(* saveNative: the extension's own surface saves what the user reviewed. *)
HandleNative ==
    /\ op.at = "handle" /\ op.cmd = "native"
    /\ LET o == Known(op, op.id) IN
       IF /\ pend # None /\ pend.id = o.id /\ pend.src = op.doc
          /\ pend.sgen = sess.gen /\ Authorized(o)
          /\ pend.kind # "identifier" /\ Offers(pend.targets)
          /\ pend.kind = "choice" => pend.chosen
       THEN Goes([o EXCEPT !.at = "save", !.how = op.how, !.target = pend.targets])
       ELSE Ends
    /\ UNCHANGED <<browser, sess, pend, vault, count>>

-----------------------------------------------------------------------------
(* present, after its awaits. *)

(* A name has to be chosen first. *)
Show ==
    /\ op.at = "show" /\ Ends
    /\ pend' = IF Authorized(op) THEN [pend EXCEPT !.sgen = op.gen] ELSE pend
    /\ UNCHANGED <<browser, sess, vault, count>>

(* The writer lists where the credential could go: nowhere if the entry      *)
(* holds it already, else the entry, or a new one.  eligible: one exact      *)
(* account whose password is the one that a change replaced.                 *)
ReadChoices(eligible) ==
    /\ op.at = "choices"
    /\ IF ~Authorized(op) THEN Ends /\ UNCHANGED pend
       ELSE IF entry.by = pend.id THEN Ends /\ pend' = None
       ELSE LET p == [pend EXCEPT !.sgen = op.gen,
                        !.targets = [rev |-> entry.rev, create |-> entry.rev = 0,
                                     eligible |-> eligible /\ entry.rev > 0
                                                /\ pend.kind = "change"]]
            IN pend' = p /\ Offering(op, p)
    /\ UNCHANGED <<browser, sess, vault, count>>

(* The list could not be read: the prompt stays as it was. *)
NoChoices ==
    /\ op.at = "choices" /\ Ends
    /\ UNCHANGED <<browser, sess, pend, vault, count>>

(* Mutant: automation is looked up by entry alone. *)
EnabledForEntry(t) == auto > 0

(* isAutomatic: the user enabled it for this revision. *)
EnabledFor(t) == auto = t.rev

(* The targets read before the preference are those saved. *)
Offer ==
    /\ op.at = "offer"
    /\ IF pend # None /\ pend.id = op.id /\ EnabledFor(pend.targets)
       THEN Goes([op EXCEPT !.at = "save", !.auto = TRUE, !.how = "always",
                                 !.target = pend.targets])
       ELSE Ends
    /\ UNCHANGED <<browser, sess, pend, vault, count>>

-----------------------------------------------------------------------------
(* save. *)

Save ==
    /\ op.at = "save"
    /\ IF Authorized(op) THEN Goes([op EXCEPT !.at = "write"]) ELSE Ends
    /\ UNCHANGED <<browser, sess, pend, vault, count>>

(* The writer asks again before it sends. *)
Write ==
    /\ op.at = "write"
    /\ Goes([op EXCEPT !.at = IF Authorized(op) THEN "sent" ELSE "failed"])
    /\ UNCHANGED <<browser, sess, pend, vault, count>>

Fits(t) == t.create \/ t.rev = entry.rev

(* The server takes the write, and its answer may be lost. *)
Land(heard) ==
    /\ op.at = "sent" /\ Fits(op.target)
    /\ entry' = [rev |-> entry.rev + 1, by |-> op.id]
    /\ Goes([op EXCEPT !.at = IF heard THEN "saved" ELSE "failed"])
    /\ UNCHANGED <<browser, sess, pend, auto, count>>

(* It refuses another revision, or is not reached. *)
Bounce ==
    /\ op.at = "sent"
    /\ Goes([op EXCEPT !.at = "failed"])
    /\ UNCHANGED <<browser, sess, pend, vault, count>>

(* Mutant: whatever the tab holds now is dropped. *)
WithoutTab == None

(* A saved submission is dropped, unless a newer one took its place. *)
Without == IF pend # None /\ pend.id = op.id THEN None ELSE pend

(* An update carries the user's choice over to the new revision, if the      *)
(* preference can be written.                                                *)
Saved(stored) ==
    /\ op.at = "saved" /\ Ends
    /\ pend' = Without
    /\ auto' = IF ~stored \/ op.target.create THEN auto
               ELSE IF op.how = "always" THEN op.target.rev + 1 ELSE 0
    /\ UNCHANGED <<browser, sess, entry, count>>

(* After a failure automation is over: the user is asked. *)
Asked == [pend EXCEPT !.outcome = "manual"]

Failed ==
    /\ op.at = "failed"
    /\ IF Authorized(op)
       THEN /\ pend' = Asked
            /\ Goes([op EXCEPT !.at = "choices", !.retry = TRUE, !.auto = FALSE])
       ELSE Ends /\ UNCHANGED pend
    /\ UNCHANGED <<browser, sess, vault, count>>

Run == /\ op # None
       /\ \/ Accept \/ Handle \/ HandleNative \/ Show
          \/ \E b \in BOOLEAN : ReadChoices(b) \/ Land(b) \/ Saved(b)
          \/ NoChoices \/ Offer \/ Save \/ Write \/ Bounce \/ Failed

-----------------------------------------------------------------------------
(* The browser. *)

Acts == count.acts < MaxActs /\ count' = [count EXCEPT !.acts = @ + 1]

(* The tab goes to another document.  The worker hears in any order that it  *)
(* loads, that the old document is gone and, unless the new one gives way to *)
(* the next before it runs, that the new one has connected.                  *)
Navigate(o, runs) ==
    /\ Acts
    /\ docs' = Append(docs, o)
    /\ news' = news \cup {<<"loading", Doc + 1>>, <<"complete", Doc + 1>>}
                 \cup (IF Doc \in ports THEN {<<"gone", Doc>>} ELSE {})
                 \cup (IF runs THEN {<<"connect", Doc + 1>>} ELSE {})
    /\ UNCHANGED <<port, ports, sess, pend, op, vault>>

(* history.pushState: it loads and completes, and is the same document. *)
PushState ==
    /\ Doc \in ports /\ <<"complete", Doc>> \notin news
    /\ Acts
    /\ news' = news \cup {<<"loading", Doc>>, <<"complete", Doc>>}
    /\ UNCHANGED <<docs, port, ports, sess, pend, op, vault>>

(* navigationStarted: the second one drops a submission, and so does the     *)
(* first one once it has been offered.                                       *)
Starts(p) ==
    IF p.kind = "identifier" THEN p
    ELSE IF p.outcome # "waiting" \/ p.started THEN None
    ELSE [p EXCEPT !.started = TRUE]

(* Tabs tell of one document after another. *)
Announced(d) == {<<"loading", d>>, <<"complete", d>>} \cap news # {}

(* The document that should be there, while its port is open: then what      *)
(* loads may be no other document.                                           *)
Expected == IF pend.succ # 0 THEN pend.succ ELSE pend.src

Loading(d) ==
    /\ <<"loading", d>> \in news /\ \A e \in 1..(d - 1) : ~Announced(e)
    /\ news' = news \ {<<"loading", d>>}
    /\ pend' = IF pend = None THEN None
               ELSE IF port = Expected THEN [pend EXCEPT !.loading = TRUE]
               ELSE Starts([pend EXCEPT !.loading = TRUE])
    /\ UNCHANGED <<docs, port, ports, sess, op, vault, count>>

Complete(d) ==
    /\ <<"complete", d>> \in news
    /\ <<"loading", d>> \notin news /\ <<"connect", d>> \notin news
    /\ news' = news \ {<<"complete", d>>}
    /\ pend' = IF pend = None THEN None ELSE [pend EXCEPT !.loading = FALSE]
    /\ UNCHANGED <<docs, port, ports, sess, op, vault, count>>

(* documentDisconnected, then the port's registration ends. *)
Gone(d) ==
    /\ <<"gone", d>> \in news /\ news' = news \ {<<"gone", d>>}
    /\ pend' = IF pend # None /\ port = d /\ pend.loading THEN Starts(pend) ELSE pend
    /\ port' = IF port = d THEN 0 ELSE port
    /\ UNCHANGED <<docs, ports, sess, op, vault, count>>

(* Mutant: a second document may take the place of the first successor. *)
SucceedsAgain(p, d) == [p EXCEPT !.succ = d]

(* documentConnected: a submission that waits expects one successor, and of  *)
(* its own origin.                                                           *)
Succeeds(p, d) ==
    IF p.kind = "identifier" THEN [p EXCEPT !.succ = d]
    ELSE IF p.outcome # "waiting" \/ p.succ \notin {0, d} THEN None
    ELSE [p EXCEPT !.succ = d]

Connect(d) ==
    /\ <<"connect", d>> \in news
    /\ \A e \in 1..(d - 1) : <<"connect", e>> \notin news
    /\ news' = (news \ {<<"connect", d>>})
                 \cup IF d # Doc THEN {<<"gone", d>>} ELSE {}
    /\ port' = d /\ ports' = ports \cup {d}
    /\ pend' = IF pend = None THEN None
               ELSE IF Origin(d) # pend.origin THEN None
               ELSE IF d = pend.src THEN pend
               ELSE Succeeds(pend, d)
    /\ UNCHANGED <<docs, sess, op, vault, count>>

(* The port of the document drops; the content script opens another. *)
Drop ==
    /\ port = Doc /\ Acts
    /\ port' = 0 /\ news' = news \cup {<<"connect", Doc>>}
    /\ pend' = IF pend # None /\ pend.loading THEN Starts(pend) ELSE pend
    /\ UNCHANGED <<docs, ports, sess, op, vault>>

(* The three minutes pass, another tab needs the place, or the tab says it   *)
(* goes to another origin.                                                   *)
Expire ==
    /\ pend # None /\ pend' = None
    /\ UNCHANGED <<browser, sess, op, vault, count>>

-----------------------------------------------------------------------------
(* The session, and what else writes the entry. *)

(* Mutant: a lock leaves what was submitted. *)
KeptByLock == pend

(* onLocked. *)
LeftByLock == None

(* lock and logout. *)
Lock(out) ==
    /\ sess.user # None /\ (sess.unlocked \/ out) /\ Acts
    /\ sess' = [user |-> IF out THEN None ELSE sess.user,
                unlocked |-> FALSE, gen |-> sess.gen + 1]
    /\ pend' = LeftByLock
    /\ UNCHANGED <<browser, op, vault>>

Unlock(u) ==
    /\ sess.user \in {None, u} /\ ~sess.unlocked /\ Acts
    /\ sess' = [user |-> u, unlocked |-> TRUE, gen |-> sess.gen + 1]
    /\ UNCHANGED <<browser, pend, op, vault>>

(* Another device, or the popup, edits the entry. *)
Edit ==
    /\ entry.rev > 0 /\ Acts
    /\ entry' = [rev |-> entry.rev + 1, by |-> 0]
    /\ UNCHANGED <<browser, sess, pend, op, auto>>

-----------------------------------------------------------------------------
Init ==
    /\ docs \in {<<o>> : o \in Origins} /\ port = 1 /\ ports = {1} /\ news = {}
    /\ sess \in {[user |-> u, unlocked |-> TRUE, gen |-> 1] : u \in Users}
    /\ pend = None /\ op = None
    /\ entry \in {[rev |-> r, by |-> 0] : r \in {0, 1}}
    /\ auto \in {0, entry.rev}
    /\ count = [subs |-> 0, cmds |-> 0, acts |-> 0]

Commands == {"outcome", "resume", "get", "dismiss", "choose", "save", "native"}

Next ==
    \/ \E d \in 1..Doc :
         \/ \E kind \in Kinds : Submit(kind, d)
         \/ \E cmd \in Commands : Command(cmd, d)
         \/ Loading(d) \/ Complete(d) \/ Gone(d) \/ Connect(d)
    \/ Claim \/ Run
    \/ \E o \in Origins, runs \in BOOLEAN : Navigate(o, runs)
    \/ PushState \/ Drop \/ Expire
    \/ \E out \in BOOLEAN : Lock(out)
    \/ \E u \in Users : Unlock(u)
    \/ Edit

Spec == Init /\ [][Next]_vars

-----------------------------------------------------------------------------
(* Properties. *)

Submission ==
    [id: 1..MaxSubs, kind: Submits, by: Users \cup {None},
     profile: Users \cup {None}, origin: Origins, born: 1..Doc, src: 1..Doc,
     outcome: {"waiting", "manual", "confirmed"},
     targets: [rev: 0..entry.rev, create: BOOLEAN, eligible: BOOLEAN],
     chosen: BOOLEAN, sgen: 0..sess.gen, started: BOOLEAN, loading: BOOLEAN,
     succ: 0..Doc, claimed: BOOLEAN]

(* The state stays within its types (PendingCredential and the maps of the   *)
(* coordinator); nothing is offered before the page has answered.            *)
TypeOK ==
    /\ docs \in Seq(Origins) /\ port \in 0..Doc /\ ports \subseteq 1..Doc
    /\ sess.user \in Users \cup {None} /\ sess.unlocked \in BOOLEAN
    /\ pend \in Submission \cup {None}
    /\ pend # None /\ pend.outcome = "waiting" => ~Offers(pend.targets)
    /\ op # None => op.id \in 0..MaxSubs /\ op.gen \in 0..sess.gen
    /\ auto \in 0..entry.rev

(* "Only a pending submission may cross to one new browser-issued document": *)
(* no document of the tab has run between the one that submitted and the one *)
(* the submission is offered in, and both are of the submission's origin,    *)
(* in whatever order the worker hears of navigations.                        *)
CrossesOnce ==
    pend # None =>
        /\ Origin(pend.src) = pend.origin
        /\ \A d \in ports : ~(pend.born < d /\ d < pend.src)

(* A submission is claimed by the account that was signed in when the page   *)
(* sent it, never by the one that signs in while it waits in the queue.      *)
ClaimedByItsOwner ==
    pend # None /\ pend.profile # None => pend.by \in {None, pend.profile}

(* Together: a submission stays that of the page and of the account it was   *)
(* made in, through navigations, lost ports, locks and account switches.     *)
SubmissionsAreOwned == TypeOK /\ CrossesOnce /\ ClaimedByItsOwner

(* A command only changes the submission it is about: the end of an older    *)
(* one, slow as a save may be, leaves a newer submission of the tab alone,   *)
(* as long as someone is signed in.                                          *)
NewerIsLeftAlone ==
    [][/\ op # None /\ op' # op /\ pend # None /\ pend' # pend
       /\ sess.user # None
       => op.id \in {0, pend.id}]_vars

(* Automation replaces exactly the revision the user enabled it for, which   *)
(* is still the current one when the write lands.                            *)
AutomationFollowsConsent ==
    [][entry'.by # 0 /\ entry' # entry /\ op.auto => auto = entry.rev]_vars
=============================================================================
