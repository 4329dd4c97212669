----------------------------- MODULE ShareSave -----------------------------
(* Saving what somebody has shared: the page of the share hands its content  *)
(* to the worker, the user confirms it in the popup, and the page may ask    *)
(* later what became of it.  One share waits at a time, for two minutes.     *)
(* Requests of the page, the popup's view and its confirmation run at the    *)
(* same time.                                                                *)
EXTENDS PageTab

CONSTANTS
    MaxShares,  \* bound: shares that wait
    MaxShareOps \* bound: operations begun

ASSUME ShareAssumption == {MaxShares, MaxShareOps} \subseteq Nat

VARIABLES
    share,      \* pending
    outcome,    \* lastOutcome
    committing, \* whether a confirmation runs
    sruns,      \* the operations that run
    sent,       \* the shares whose write was sent
    scount      \* bounds: operations, and shares so far

shareVars == <<share, outcome, committing, sruns, sent, scount>>
SSlots == {1, 2}

ShareOp(kind) == [kind |-> kind, at |-> "begin", doc |-> tab.port, value |-> None]
SBegins(r) ==
    /\ scount.ops < MaxShareOps /\ scount' = [scount EXCEPT !.ops = @ + 1]
    /\ HasFree(sruns) /\ sruns' = [sruns EXCEPT ![FreeSlot(sruns)] = r]
SEnds(s) == sruns' = [sruns EXCEPT ![s] = None]
SGoes(s, at) == sruns' = [sruns EXCEPT ![s].at = at]

Remembered(status, value) == [id |-> value.id, doc |-> value.doc, status |-> status]

-----------------------------------------------------------------------------
(* prepare. *)

(* The page's request; a confirmation that runs refuses it. *)
PrepareBegins ==
    /\ tab.port # 0 /\ ~committing /\ SBegins(ShareOp("prepare"))
    /\ UNCHANGED <<page, share, outcome, committing, sent>>

(* The document is current, someone is signed in and may manage a vault, and *)
(* the snapshot is one that can be stored.                                   *)
PrepareReads(s) ==
    /\ sruns[s].kind = "prepare" /\ sruns[s].at = "begin"
    /\ IF Current(sruns[s].doc) /\ SignedIn THEN SGoes(s, "keep") ELSE SEnds(s)
    /\ UNCHANGED <<page, share, outcome, committing, sent, scount>>

(* A share that waited gives way. *)
PrepareKeeps(s) ==
    /\ sruns[s].kind = "prepare" /\ sruns[s].at = "keep" /\ SEnds(s)
    /\ IF SignedIn /\ Current(sruns[s].doc) /\ scount.shares < MaxShares
       THEN /\ share' = [id |-> scount.shares + 1, doc |-> sruns[s].doc,
                         keys |-> Keys, user |-> sess.user, old |-> FALSE]
            /\ scount' = [scount EXCEPT !.shares = @ + 1]
       ELSE UNCHANGED <<share, scount>>
    /\ UNCHANGED <<page, outcome, committing, sent>>

-----------------------------------------------------------------------------
(* The two minutes. *)

(* Mutant: an expiry tells of a cancellation while a confirmation runs. *)
SaidAtAnyTime(value) == Remembered("cancelled", value)

(* An expiry while a confirmation runs says nothing of its outcome. *)
SaidAtExpiry(value) == IF committing THEN outcome ELSE Remembered("cancelled", value)

(* The clock passes the two minutes before the timer runs. *)
Ages ==
    /\ share # None /\ ~share.old /\ share' = [share EXCEPT !.old = TRUE]
    /\ UNCHANGED <<page, outcome, committing, sruns, sent, scount>>

TimerFires ==
    /\ share # None /\ share.old
    /\ outcome' = SaidAtExpiry(share) /\ share' = None
    /\ UNCHANGED <<page, committing, sruns, sent, scount>>

(* assertCurrent: the share that waits, not too old, with the keys it came   *)
(* with.  Otherwise whatever waits is dropped.                               *)
Waits(value) == share # None /\ share.id = value.id
IsCurrent(value) == Waits(value) /\ ~share.old /\ Keys = value.keys
SaidAtAssert(value) == IF Waits(value) /\ share.old THEN SaidAtExpiry(value) ELSE outcome
Dropped(value) == share' = None /\ outcome' = SaidAtAssert(value)

-----------------------------------------------------------------------------
(* view, cancel and reconcile. *)

ViewBegins ==
    /\ share # None
    /\ IF IsCurrent(share)
       THEN SBegins([ShareOp("view") EXCEPT !.value = share]) /\ UNCHANGED <<share, outcome>>
       ELSE Dropped(share) /\ UNCHANGED <<sruns, scount>>
    /\ UNCHANGED <<page, committing, sent>>

(* The account, the document and the vaults have been read; a failure drops  *)
(* whatever waits by then.                                                   *)
ViewReads(s) ==
    /\ sruns[s].kind = "view" /\ SEnds(s)
    /\ LET value == sruns[s].value IN
       IF sess.user # value.user \/ ~Current(value.doc)
       THEN share' = None /\ UNCHANGED outcome
       ELSE IF IsCurrent(value) THEN UNCHANGED <<share, outcome>>
       ELSE Dropped(value)
    /\ UNCHANGED <<page, committing, sent, scount>>

(* cancel; reconcile drops a share that has expired as well. *)
Cancel ==
    /\ share # None /\ ~committing
    /\ outcome' = Remembered("cancelled", share) /\ share' = None
    /\ UNCHANGED <<page, committing, sruns, sent, scount>>

Reconcile ==
    /\ share # None /\ ~IsCurrent(share) /\ Current(share.doc) /\ Dropped(share)
    /\ UNCHANGED <<page, committing, sruns, sent, scount>>

-----------------------------------------------------------------------------
(* confirm. *)

ShareConfirmBegins ==
    /\ share # None /\ ~committing
    /\ committing' = TRUE /\ SBegins([ShareOp("confirm") EXCEPT !.value = share])
    /\ UNCHANGED <<page, share, outcome, sent>>

(* A confirmation ends whatever waits. *)
Finally(s) == SEnds(s) /\ share' = None /\ committing' = FALSE

(* assertLive, twice and again before the write is sent. *)
ConfirmAsserts(s) ==
    /\ sruns[s].kind = "confirm" /\ sruns[s].at \in {"begin", "write"}
    /\ LET value == sruns[s].value IN
       IF IsCurrent(value) /\ sess.user = value.user /\ Current(value.doc)
       THEN /\ SGoes(s, IF sruns[s].at = "begin" THEN "write" ELSE "sent")
            /\ sent' = IF sruns[s].at = "write" THEN sent \cup {value.id} ELSE sent
            /\ UNCHANGED <<share, outcome, committing>>
       ELSE /\ Finally(s) /\ UNCHANGED sent
            /\ outcome' = SaidAtAssert(value)
    /\ UNCHANGED <<page, scount>>

(* A vault that is not there, or a reading that fails, before the write.     *)
ConfirmGivesUp(s) ==
    /\ sruns[s].kind = "confirm" /\ sruns[s].at \in {"begin", "write"} /\ Finally(s)
    /\ UNCHANGED <<page, outcome, sent, scount>>

(* The answer, or its loss. *)
ConfirmEnds(s, saved) ==
    /\ sruns[s].kind = "confirm" /\ sruns[s].at = "sent" /\ Finally(s)
    /\ outcome' = IF saved THEN Remembered("saved", sruns[s].value) ELSE outcome
    /\ UNCHANGED <<page, sent, scount>>

-----------------------------------------------------------------------------
(* The world around it. *)

(* clear, at onLocked and onUnlocked; the timer is stopped too. *)
ShareSession ==
    /\ \/ Terminates /\ UNCHANGED share
       \/ (\E out \in BOOLEAN : Locks(out)) /\ share' = None
       \/ (\E u \in Users : Unlocks(u)) /\ share' = None
    /\ UNCHANGED <<outcome, committing, sruns, sent, scount>>

(* clearTab: the tab loads, or has another URL. *)
ShareUpdated ==
    /\ Updates /\ share' = None
    /\ UNCHANGED <<outcome, committing, sruns, sent, scount>>

ShareNavigates == Navigates /\ UNCHANGED shareVars

(* clearReplacedDocument and clearDocument. *)
ShareConnects(d) ==
    /\ Connects(d)
    /\ share' = IF share # None /\ share.doc # d THEN None ELSE share
    /\ UNCHANGED <<outcome, committing, sruns, sent, scount>>
ShareLeaves(d) ==
    /\ Leaves(d)
    /\ share' = IF share # None /\ share.doc = d THEN None ELSE share
    /\ UNCHANGED <<outcome, committing, sruns, sent, scount>>

ShareInit ==
    /\ share = None /\ outcome = None /\ committing = FALSE
    /\ sruns = [s \in SSlots |-> None] /\ sent = {}
    /\ scount = [ops |-> 0, shares |-> 0]

ShareNext ==
    \/ PrepareBegins \/ ViewBegins \/ ShareConfirmBegins
    \/ Ages \/ TimerFires \/ Cancel \/ Reconcile
    \/ \E s \in SSlots :
         /\ sruns[s] # None
         /\ \/ PrepareReads(s) \/ PrepareKeeps(s) \/ ViewReads(s) \/ ConfirmAsserts(s)
            \/ ConfirmGivesUp(s)
            \/ \E saved \in BOOLEAN : ConfirmEnds(s, saved)
    \/ ShareSession \/ ShareUpdated \/ ShareNavigates
    \/ \E d \in tab.open \cup {tab.doc - 1, tab.doc} : ShareConnects(d) \/ ShareLeaves(d)

ShareSpec == PageInit /\ ShareInit /\ [][ShareNext]_<<page, shareVars>>

-----------------------------------------------------------------------------
(* Properties. *)

(* What a page is told of its share is true: one that was cancelled or has   *)
(* expired was never sent to the vault, and one that was saved was, whatever *)
(* the popup, the timer, the page and the session do during a confirmation.  *)
OutcomesAreTrue ==
    outcome # None => (outcome.status = "saved") <=> (outcome.id \in sent)
=============================================================================
