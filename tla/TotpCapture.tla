---------------------------- MODULE TotpCapture ----------------------------
(* One-time-password set-ups a page shows: the content script numbers what   *)
(* it sees and tells the worker of the one configuration on the page or that *)
(* there is none (or too many); the worker keeps one observation per tab,    *)
(* lists where it could go, and writes it where the user says.               *)
EXTENDS PageTab

CONSTANTS
    Totps,      \* configurations of one-time passwords
    Entries,    \* entries of the vault a review may be about
    MaxSeq,     \* bound: the numbers of the page
    MaxTotpOps  \* bound: operations begun

ASSUME TotpAssumption == {MaxSeq, MaxTotpOps} \subseteq Nat

VARIABLES
    seq,        \* the content script: generation of the registered document
    heard,      \* observationSequences: the tab's last document and number
    carried,    \* the last invalidation that was carried out, alike
    totp,       \* pending: the observation of the tab
    truns,      \* the operations that run
    tcount      \* bound: operations; also numbers observations and scopes

totpVars == <<seq, heard, carried, totp, truns, tcount>>
heardVars == <<seq, heard, carried>>
TSlots == {1, 2}

NoScope == [entry |-> None, n |-> 0]
Nothing == [doc |-> 0, seq |-> 0]

TBegins(r) ==
    /\ tcount < MaxTotpOps /\ tcount' = tcount + 1
    /\ HasFree(truns) /\ truns' = [truns EXCEPT ![FreeSlot(truns)] = r]
TEnds(s) == truns' = [truns EXCEPT ![s] = None]
TGoes(s, at) == truns' = [truns EXCEPT ![s].at = at]

TotpOp(kind, what) == [kind |-> kind, at |-> "begin", what |-> what, doc |-> tab.port,
                   seq |-> 0, session |-> Session, manual |-> FALSE,
                   id |-> 0, scope |-> NoScope]

(* valid: this very observation, undismissed, in its session and document. *)
Valid(id) ==
    /\ totp # None /\ totp.id = id /\ ~totp.dismissed
    /\ SignedIn /\ totp.session = Session /\ Current(totp.doc)

-----------------------------------------------------------------------------
(* handleTotpContent. *)

(* The page numbers every change it notices; a scan sends the number it has. *)
(* Messages of a document arrive in order, and the last number counts.       *)
PageSends(kind, what, manual) ==
    /\ tab.port # 0 /\ SignedIn
    /\ \E n \in {seq, seq + 1} \cap 1..MaxSeq :
         /\ seq' = n /\ heard' = [doc |-> tab.port, seq |-> n]
         /\ TBegins([TotpOp(kind, what) EXCEPT !.seq = n, !.manual = manual])
    /\ UNCHANGED <<page, carried, totp>>

(* Mutant: a newer number does not stop an observation. *)
SameSession(r) == heard.doc = r.doc /\ r.session.gen = sess.gen

(* current: no newer number, no other document, no hook of the session. *)
StillLast(r) == heard = [doc |-> r.doc, seq |-> r.seq] /\ r.session.gen = sess.gen

(* The document answers: an advance only counts, an invalidation drops what  *)
(* the page showed, unless the user has dismissed it.                        *)
PageHeard(s) ==
    /\ truns[s].kind \in {"observe", "invalidate", "advance"} /\ truns[s].at = "begin"
    /\ LET r == truns[s]  on == Current(r.doc) /\ StillLast(r) IN
       /\ IF on /\ r.kind = "observe" THEN TGoes(s, "look") ELSE TEnds(s)
       /\ IF on /\ r.kind = "invalidate"
          THEN /\ carried' = heard
               /\ totp' = IF totp # None /\ ~totp.dismissed /\ totp.doc = r.doc
                          THEN None ELSE totp
          ELSE UNCHANGED <<carried, totp>>
    /\ UNCHANGED <<page, seq, heard, tcount>>

(* observe: the session, and the document once more. *)
TotpLooks(s) ==
    /\ truns[s].kind = "observe" /\ truns[s].at = "look"
    /\ IF StillLast(truns[s]) /\ SignedIn /\ Current(truns[s].doc)
       THEN TGoes(s, "keep") ELSE TEnds(s)
    /\ UNCHANGED <<page, heardVars, totp, tcount>>

TotpObserved(r) ==
    [id |-> tcount, doc |-> r.doc, what |-> r.what, seq |-> r.seq,
     session |-> r.session, scope |-> NoScope, read |-> NoScope,
     loaded |-> FALSE, loading |-> 0, saving |-> FALSE, dismissed |-> FALSE]

SameTotp(r) == /\ totp # None /\ totp.doc = r.doc /\ totp.session = r.session
           /\ totp.what = r.what

(* The same configuration is kept as it is, also when it was dismissed,      *)
(* unless the user asks for it.  The ghost seq tells what the page said last.*)
TotpKeeps(s) ==
    /\ truns[s].kind = "observe" /\ truns[s].at = "keep" /\ TEnds(s)
    /\ LET r == truns[s] IN
       totp' = IF ~(StillLast(r) /\ SignedIn /\ r.session = Session) THEN totp
               ELSE IF SameTotp(r) /\ (totp.dismissed => ~r.manual)
               THEN [totp EXCEPT !.seq = r.seq]
               ELSE TotpObserved(r)
    /\ UNCHANGED <<page, heardVars, tcount>>

-----------------------------------------------------------------------------
(* review. *)

TotpReviewBegins(entry) ==
    /\ totp # None /\ Valid(totp.id)
    /\ TBegins([TotpOp("review", entry) EXCEPT !.id = totp.id])
    /\ UNCHANGED <<page, heardVars, totp>>

(* A review of another entry forgets the targets and whoever is loading      *)
(* them; the targets are read once for all who review.                       *)
ReviewScopes(s) ==
    /\ truns[s].kind = "review" /\ truns[s].at = "begin"
    /\ LET r == truns[s]
           new == r.what # None /\ totp.scope.entry # r.what
           p == IF new THEN [totp EXCEPT !.scope = [entry |-> r.what, n |-> tcount],
                               !.loaded = FALSE, !.loading = 0]
                ELSE totp
       IN IF ~Valid(r.id) \/ (r.what # None /\ totp.saving)
          THEN TEnds(s) /\ UNCHANGED totp
          ELSE IF p.loaded \/ p.loading # 0 THEN TEnds(s) /\ totp' = p
          ELSE /\ totp' = [p EXCEPT !.loading = s]
               /\ truns' = [truns EXCEPT ![s].at = "choices", ![s].scope = p.scope]
    /\ UNCHANGED <<page, heardVars, tcount>>

(* Mutant: the scope may have changed while the targets were read. *)
InAnyScope(r) == Valid(r.id)

(* The targets are those of the scope they were read for. *)
InScope(r) == Valid(r.id) /\ totp.scope = r.scope

ReviewLoads(s, works) ==
    /\ truns[s].kind = "review" /\ truns[s].at = "choices" /\ TEnds(s)
    /\ LET r == truns[s]
           done == IF totp # None /\ totp.id = r.id /\ totp.loading = s
                   THEN [totp EXCEPT !.loading = 0] ELSE totp
       IN totp' = IF works /\ InScope(r)
                  THEN [done EXCEPT !.loaded = TRUE, !.read = r.scope] ELSE done
    /\ UNCHANGED <<page, heardVars, tcount>>

(* dismiss. *)
DismissTotp ==
    /\ totp # None /\ ~totp.dismissed
    /\ totp' = [totp EXCEPT !.dismissed = TRUE, !.loaded = FALSE]
    /\ UNCHANGED <<page, heardVars, truns, tcount>>

-----------------------------------------------------------------------------
(* save. *)

TotpSaveBegins ==
    /\ totp # None /\ Valid(totp.id) /\ totp.loaded /\ ~totp.saving
    /\ TBegins([TotpOp("save", totp.what) EXCEPT !.id = totp.id, !.scope = totp.read])
    /\ totp' = [totp EXCEPT !.saving = TRUE]
    /\ UNCHANGED <<page, heardVars>>

Unsaving(id) == IF totp # None /\ totp.id = id THEN [totp EXCEPT !.saving = FALSE] ELSE totp

(* authorized, before the writer is called and before it sends: the page     *)
(* shows the configuration still, else it is dropped.                        *)
SaveAuthorizes(s, shows) ==
    /\ truns[s].kind = "save" /\ truns[s].at \in {"begin", "seal"}
    /\ LET r == truns[s] IN
       IF Valid(r.id) /\ shows
       THEN TGoes(s, IF r.at = "begin" THEN "seal" ELSE "sent") /\ UNCHANGED totp
       ELSE TEnds(s) /\ totp' = IF Valid(r.id) THEN None ELSE Unsaving(r.id)
    /\ UNCHANGED <<page, heardVars, tcount>>

(* The write is done, or fails. *)
SaveEnds(s, saved) ==
    /\ truns[s].kind = "save" /\ truns[s].at = "sent" /\ TEnds(s)
    /\ totp' = IF saved /\ totp # None /\ totp.id = truns[s].id THEN None
               ELSE Unsaving(truns[s].id)
    /\ UNCHANGED <<page, heardVars, tcount>>

-----------------------------------------------------------------------------
(* The world around it. *)

(* clearSession, at each hook: generation++, sequences and observations go. *)
TotpSession ==
    /\ \/ Terminates \/ \E out \in BOOLEAN : Locks(out)
       \/ \E u \in Users : Unlocks(u)
    /\ heard' = Nothing /\ totp' = None
    /\ UNCHANGED <<seq, carried, truns, tcount>>

(* clearTab and clearTotpObservation. *)
TotpUpdated ==
    /\ Updates /\ heard' = Nothing /\ totp' = None
    /\ UNCHANGED <<seq, carried, truns, tcount>>

TotpNavigates == Navigates /\ UNCHANGED totpVars

(* Another document counts from the start; a port opened again goes on. *)
TotpConnects(d) ==
    /\ Connects(d)
    /\ seq' = IF d = tab.seen THEN seq ELSE 0
    /\ UNCHANGED <<heard, carried, totp, truns, tcount>>

(* clearDocument. *)
TotpLeaves(d) ==
    /\ Leaves(d)
    /\ totp' = IF totp # None /\ totp.doc = d THEN None ELSE totp
    /\ UNCHANGED <<heardVars, truns, tcount>>

(* The three minutes pass, or eight tabs have something newer. *)
TotpExpires ==
    /\ totp # None /\ totp' = None /\ UNCHANGED <<page, heardVars, truns, tcount>>

TotpInit ==
    /\ seq = 0 /\ heard = Nothing /\ carried = Nothing /\ totp = None
    /\ truns = [s \in TSlots |-> None] /\ tcount = 0

TotpNext ==
    \/ \E what \in Totps, manual \in BOOLEAN : PageSends("observe", what, manual)
    \/ \E kind \in {"invalidate", "advance"} : PageSends(kind, None, FALSE)
    \/ \E entry \in Entries \cup {None} : TotpReviewBegins(entry)
    \/ TotpSaveBegins \/ DismissTotp \/ TotpExpires
    \/ \E s \in TSlots :
         /\ truns[s] # None
         /\ \/ PageHeard(s) \/ TotpLooks(s) \/ TotpKeeps(s) \/ ReviewScopes(s)
            \/ \E b \in BOOLEAN : ReviewLoads(s, b) \/ SaveAuthorizes(s, b) \/ SaveEnds(s, b)
    \/ TotpSession \/ TotpUpdated \/ TotpNavigates
    \/ \E d \in tab.open \cup {tab.doc - 1, tab.doc} : TotpConnects(d) \/ TotpLeaves(d)

TotpSpec == PageInit /\ TotpInit /\ [][TotpNext]_<<page, totpVars>>

-----------------------------------------------------------------------------
(* Properties. *)

(* What the page showed before it said that there is nothing is never kept,  *)
(* however late that observation is carried out: the numbers of the page     *)
(* decide, not the order in which the worker's checks end.  (What the user   *)
(* has dismissed stays, so that it is not offered again.)                    *)
ObservationsInOrder ==
    totp # None /\ ~totp.dismissed /\ totp.doc = carried.doc => totp.seq >= carried.seq

(* The targets offered were read for the entry the user reviews now, and     *)
(* none are once the observation was dismissed.                              *)
TargetsAreOfScope ==
    totp # None /\ totp.loaded => totp.read = totp.scope /\ ~totp.dismissed
(* Both, of the observation and of its targets. *)
TotpIsSound == ObservationsInOrder /\ TargetsAreOfScope
=============================================================================
