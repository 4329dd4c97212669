----------------------------- MODULE InlineFills -----------------------------
(* Filling a login and its one-time code: the content script fills what it   *)
(* finds without being asked (automatic), the user picks an account in the   *)
(* page's menu (manual) or in the popup (native), and the worker remembers   *)
(* for the tab what was chosen, so that what is filled next, a code or the   *)
(* form of the next document, is of the same account.  Lists, fills and      *)
(* their answers are asynchronous and several run at the same time.          *)
EXTENDS Naturals, FiniteSets

CONSTANTS
    Fillable,    \* entries for the site of the tab
    MaxFills,    \* bound: operations begun
    MaxEvents,   \* bound: locks, unlocks, documents, stages and typing
    Nil

ASSUME FillAssumption == {MaxFills, MaxEvents} \subseteq Nat

VARIABLES
    vaultOpen, \* the session is unlocked
    recall,    \* InMemoryInlineAutofillRecency for this tab and this host
    settled,   \* what a native operation's promise has been resolved with
    fields,    \* the page: the login form and the field of a code
    widget,    \* InlineWidget: the login's operation, and what it has done
    codes,     \* InlineAutofillController: the same for codes
    receipt,   \* provenance: what an automatic fill has put in the form
    news,      \* a change of the session the page has yet to hear of
    jobs,      \* the operations that run
    bounds     \* bounds: operations and events so far

worker == <<vaultOpen, recall, settled, news>>
pageVars == <<fields, widget, codes, receipt>>
fillVars == <<worker, pageVars, jobs, bounds>>

Ops == 1..MaxFills
Typed == "typed"

(* `fresh` is what the closure of capture() says, `keys` whether no lock has *)
(* come since, `wanted` that the page's generation has not moved, `here`     *)
(* that the tab still shows the document and, for an automatic login, the    *)
(* form.  A native fill that also submits, and an inline one for an exact    *)
(* host, are `firm`.                                                         *)
Job(kind, manual, e, firm, at) ==
    [kind |-> kind, manual |-> manual, entry |-> e, firm |-> firm, on |-> 0, at |-> at,
     fresh |-> kind = "native", keys |-> FALSE, wanted |-> TRUE, here |-> TRUE]

NewId == bounds.jobs + 1
With(js, j) ==
    /\ NewId \in Ops /\ jobs' = [js EXCEPT ![NewId] = j]
    /\ bounds' = [bounds EXCEPT !.jobs = NewId]
Puts(i, at) == jobs' = [jobs EXCEPT ![i].at = at]
Drops(i) == jobs' = [jobs EXCEPT ![i] = Nil]
Event == bounds.events < MaxEvents /\ bounds' = [bounds EXCEPT !.events = @ + 1]

Each(js, Mark(_)) == [i \in Ops |-> IF js[i] = Nil THEN Nil ELSE Mark(js[i])]
Stale(j) == [j EXCEPT !.fresh = FALSE]
StaleKeys(j) == [j EXCEPT !.fresh = FALSE, !.keys = FALSE]
Gone(j) == [j EXCEPT !.here = FALSE]
Unwanted(js, kinds) ==
    Each(js, LAMBDA j : IF ~j.manual /\ j.kind \in kinds
                        THEN [j EXCEPT !.wanted = FALSE] ELSE j)

(* An operation, and what the page keeps of the one it waits for.            *)
Operations ==
    [kind : {"login", "code", "native"}, manual : BOOLEAN, entry : Fillable \cup {Nil},
     firm : BOOLEAN, on : Nat, fresh : BOOLEAN, keys : BOOLEAN, wanted : BOOLEAN, here : BOOLEAN,
     at : {"listwait", "choose", "listed", "offered", "ask", "fillwait", "check", "send",
           "sent", "wrote", "refused"}]
Outstanding ==
    [id : Ops, manual : BOOLEAN, from : Fillable \cup {Nil, Typed}, armed : BOOLEAN]
ASSUME NilAssumption ==
    Nil \notin Fillable /\ Nil \notin Operations /\ Nil \notin Outstanding

NoWidget == [done |-> FALSE, manual |-> FALSE, fill |-> Nil]
NoCodes == [fill |-> Nil, tried |-> FALSE, spent |-> FALSE, waits |-> 0]
Fill(i, manual, from) == [id |-> i, manual |-> manual, from |-> from, armed |-> TRUE]

-----------------------------------------------------------------------------
(* The recency of the tab. *)

(* Mutant: the promise of an operation that is dropped is left open. *)
FinishedLater(ok) == settled

(* finish: resolves the pending promise. *)
Finished(ok) ==
    IF recall.pending = 0 THEN settled ELSE [settled EXCEPT ![recall.pending] = ok]

(* remember, rememberForTab: another account than the native choice drops it. *)
Recalled(e) ==
    [recall EXCEPT !.tab = e, !.host = e,
                   !.native = IF @ \in {Nil, e} THEN @ ELSE Nil]

-----------------------------------------------------------------------------
(* The page asks, and the worker takes the request. *)

(* automaticFillInFlight: until the list, and the fill it leads to, is over. *)
Busy == \E i \in Ops : /\ jobs[i] # Nil /\ jobs[i].kind = "login"
                       /\ ~jobs[i].manual /\ jobs[i].here

(* A native operation is waited for; else capture() is taken.                *)
Asked(j, wait, go) ==
    IF recall.pending # 0 THEN [j EXCEPT !.at = wait, !.on = recall.pending]
    ELSE [j EXCEPT !.at = go, !.fresh = TRUE, !.on = 0]

Listing(kind) == Asked(Job(kind, FALSE, Nil, TRUE, "list"), "listwait", "choose")

(* autoFillPreferredExact: one at a time, once, into an empty form. *)
AutoBegins ==
    /\ ~widget.done /\ ~Busy /\ fields.login = Nil
    /\ With(jobs, Listing("login"))
    /\ UNCHANGED <<worker, pageVars>>

(* Not while a login of the form is to be filled or was picked in the menu.  *)
LoginIsOver ==
    /\ codes.waits = 0
    /\ fields.same => (widget.done /\ ~Busy) \/ widget.manual

(* scan, autoFillTotp. *)
CodeBegins ==
    /\ fields.otpOn /\ fields.otp = Nil /\ LoginIsOver /\ ~codes.spent /\ ~codes.tried
    /\ With(jobs, Listing("code"))
    /\ codes' = [codes EXCEPT !.tried = TRUE]
    /\ UNCHANGED <<worker, fields, widget, receipt>>

(* fill, of an account picked in the menu: whatever was under way ends.      *)
ManualLogin(e, exact) ==
    /\ With(Unwanted(jobs, {"login", "code"}), Job("login", TRUE, e, exact, "check"))
    /\ widget' = [widget EXCEPT !.manual = FALSE, !.fill = Fill(NewId, TRUE, fields.login)]
    /\ codes' = [NoCodes EXCEPT !.waits = NewId]
    /\ receipt' = Nil
    /\ UNCHANGED <<worker, fields>>

(* mountTotpChooser, sendTotp. *)
ManualCode(e, exact) ==
    /\ fields.otpOn
    /\ With(Unwanted(jobs, {"code"}), Job("code", TRUE, e, exact, "check"))
    /\ codes' = [codes EXCEPT !.fill = Fill(NewId, TRUE, Nil)]
    /\ UNCHANGED <<worker, fields, widget, receipt>>

-----------------------------------------------------------------------------
(* The worker lists: handleInlineAutofillContentMessage, inline/list. *)

(* The list fails with the operation it has waited for. *)
ListHears(i) ==
    /\ jobs[i].at = "listwait" /\ settled[jobs[i].on] # "open"
    /\ IF settled[jobs[i].on] = "no" THEN Drops(i)
       ELSE jobs' = [jobs EXCEPT ![i].at = "choose", ![i].fresh = TRUE, ![i].on = 0]
    /\ UNCHANGED <<worker, pageVars, bounds>>

(* The native choice, the tab's account, the host's, or the first match. *)
Preferred(e) ==
    IF recall.native # Nil THEN e = recall.native
    ELSE IF recall.tab # Nil THEN e = recall.tab
    ELSE recall.host \in {Nil, e}
Chooses(i, e) ==
    /\ jobs[i].at = "choose"
    /\ IF vaultOpen THEN /\ Preferred(e)
                         /\ jobs' = [jobs EXCEPT ![i].at = "listed", ![i].entry = e]
       ELSE Drops(i)
    /\ UNCHANGED <<worker, pageVars, bounds>>

(* A native operation that began meanwhile is waited for, from the start.    *)
Returns(i) ==
    /\ jobs[i].at = "listed"
    /\ IF vaultOpen /\ recall.pending # 0
       THEN jobs' = [jobs EXCEPT ![i] = Asked([@ EXCEPT !.entry = Nil], "listwait", "choose")]
       ELSE IF vaultOpen /\ jobs[i].fresh THEN Puts(i, "offered") ELSE Drops(i)
    /\ UNCHANGED <<worker, pageVars, bounds>>

-----------------------------------------------------------------------------
(* The page has the list: the rest of autoFillPreferredExact, of fill, and   *)
(* of autoFillTotp.                                                          *)

(* Mutant: a retry displaces the user's outstanding choice. *)
YieldsNever(f) == FALSE

(* A passive fill cannot displace the user's outstanding choice. *)
Yields(f) == f # Nil /\ f.manual

Proposes(i) == jobs[i].at = "offered" /\ Puts(i, "ask")
Declines(i) == jobs[i].at = "offered" /\ Drops(i)

OffersLogin(i) ==
    /\ jobs[i].kind = "login"
    /\ IF jobs[i].here /\ jobs[i].wanted /\ fields.login = Nil /\ ~Yields(widget.fill)
       THEN Proposes(i) /\ widget' = [widget EXCEPT !.fill = Fill(i, FALSE, Nil)]
       ELSE Declines(i) /\ UNCHANGED widget
    /\ UNCHANGED <<worker, fields, codes, receipt, bounds>>

OffersCode(i) ==
    /\ jobs[i].kind = "code"
    /\ IF jobs[i].here /\ jobs[i].wanted /\ fields.otp = Nil /\ ~Yields(codes.fill)
       THEN Proposes(i) /\ codes' = [codes EXCEPT !.fill = Fill(i, FALSE, Nil), !.spent = TRUE]
       ELSE Declines(i) /\ UNCHANGED codes
    /\ UNCHANGED <<worker, fields, widget, receipt, bounds>>

-----------------------------------------------------------------------------
(* The worker fills: inline/fill and fillInlineSelectedEntry. *)

Asks(i) ==
    /\ jobs[i].at = "ask"
    /\ jobs' = [jobs EXCEPT ![i] = Asked([@ EXCEPT !.wanted = TRUE], "fillwait", "check")]
    /\ UNCHANGED <<worker, pageVars, bounds>>
(* After the wait only the account of the tab may be filled. *)
FillHears(i) ==
    /\ jobs[i].at = "fillwait" /\ settled[jobs[i].on] # "open"
    /\ IF settled[jobs[i].on] = "yes" /\ recall.tab = jobs[i].entry
       THEN jobs' = [jobs EXCEPT ![i].at = "check", ![i].fresh = TRUE, ![i].on = 0]
       ELSE jobs' = [jobs EXCEPT ![i].at = "refused", ![i].on = 0]
    /\ UNCHANGED <<worker, pageVars, bounds>>

(* An automatic fill never replaces the account picked in the popup. *)
Fits(e) == recall.native \in {Nil, e}

(* The entry is revealed, under the keys of now: a code takes them a moment  *)
(* later, before the entry is revealed.                                      *)
Checks(i) ==
    /\ jobs[i].at = "check"
    /\ LET j == jobs[i] IN
       IF ~vaultOpen THEN Puts(i, "refused")
       ELSE IF ~j.manual /\ recall.pending # 0
       THEN jobs' = [jobs EXCEPT ![i] = Asked(@, "fillwait", "check")]
       ELSE IF ~j.manual /\ ~(j.fresh /\ Fits(j.entry)) THEN Puts(i, "refused")
       ELSE jobs' = [jobs EXCEPT ![i].at = "send", ![i].fresh = TRUE,
                                 ![i].keys = j.kind = "code"]
    /\ UNCHANGED <<worker, pageVars, bounds>>

(* assertOperationCurrent of an automatic fill, captureFillSession of a code. *)
MaySend(j) == (j.manual \/ j.fresh) /\ (j.kind = "code" => j.keys)

(* fillPreparedEntry, and sendFill, which looks at the page before it sends. *)
Sends(i) ==
    /\ jobs[i].at = "send"
    /\ jobs' = [jobs EXCEPT ![i].at = IF MaySend(jobs[i]) THEN "sent" ELSE "refused",
                            ![i].keys = FALSE]
    /\ UNCHANGED <<worker, pageVars, bounds>>

-----------------------------------------------------------------------------
(* The page writes: performFillRequest. *)

(* takeFillTarget, performLoginTargetFill: the operation is the widget's, is *)
(* taken once, and the form holds what it held.                              *)
Takes(i) == widget.fill # Nil /\ widget.fill.id = i /\ widget.fill.armed

(* rememberAutomaticFill, for the session it was sent in; writing a field    *)
(* revokes what was there.                                                   *)
ReceiptOf(j) == IF j.manual THEN Nil ELSE j.entry

WritesLogin(i) ==
    /\ jobs[i].at = "sent" /\ jobs[i].kind = "login"
    /\ LET j == jobs[i]
           ok == j.here /\ Takes(i) /\ fields.login = widget.fill.from IN
       /\ Puts(i, IF ok THEN "wrote" ELSE "refused")
       /\ IF ok
          THEN /\ fields' = [fields EXCEPT !.login = j.entry, !.auto = ~j.manual]
               /\ receipt' = ReceiptOf(j)
               /\ widget' = [widget EXCEPT !.fill.armed = FALSE, !.done = @ \/ ~j.manual]
          ELSE /\ UNCHANGED <<fields, receipt>>
               /\ widget' = IF j.here /\ Takes(i) THEN [widget EXCEPT !.fill.armed = FALSE]
                            ELSE widget
    /\ UNCHANGED <<worker, codes, bounds>>

(* fillTotp: the account of the form, if it tells, is the code's. *)
WritesCode(i) ==
    /\ jobs[i].at = "sent" /\ jobs[i].kind = "code"
    /\ LET j == jobs[i]
           held == j.here /\ codes.fill # Nil /\ codes.fill.id = i
           ok == /\ held /\ (j.manual \/ fields.otp = Nil)
                 /\ fields.same => fields.login \in {Nil, j.entry} IN
       /\ Puts(i, IF ok THEN "wrote" ELSE "refused")
       /\ fields' = IF ok THEN [fields EXCEPT !.otp = j.entry] ELSE fields
       /\ codes' = IF held THEN [codes EXCEPT !.fill = Nil] ELSE codes
    /\ UNCHANGED <<worker, widget, receipt, bounds>>

(* Mutant: a code on its way is left alone by a fill of the popup. *)
LeftAlone(c) == c

(* beforeUntargetedManualFill, for codes. *)
Cancelled(c) == NoCodes

(* A fill of the popup cancels what is automatic before it writes, or finds  *)
(* no form to write in.                                                      *)
WritesNative(i) ==
    /\ jobs[i].at = "sent" /\ jobs[i].kind = "native"
    /\ IF jobs[i].here
       THEN /\ \E at \in {"wrote", "refused"} :
                 /\ jobs' = [Unwanted(jobs, {"login", "code"}) EXCEPT ![i].at = at]
                 /\ IF at = "wrote"
                    THEN /\ fields' = [fields EXCEPT !.login = jobs[i].entry, !.auto = FALSE]
                         /\ receipt' = Nil
                    ELSE UNCHANGED <<fields, receipt>>
                 /\ widget' = [widget EXCEPT !.manual = @ \/ at = "wrote",
                                 !.fill = IF @ # Nil /\ ~@.manual THEN Nil ELSE @]
            /\ codes' = Cancelled(codes)
       ELSE Puts(i, "refused") /\ UNCHANGED pageVars
    /\ UNCHANGED <<worker, bounds>>

-----------------------------------------------------------------------------
(* The answer goes back: the worker remembers what was filled for an exact   *)
(* host, unless something has superseded it, and the page ends its           *)
(* operation.                                                                *)

AnswersBack(i, kind) ==
    /\ jobs[i].at \in {"wrote", "refused"} /\ jobs[i].kind = kind /\ Drops(i)
    /\ recall' = IF jobs[i].at = "wrote" /\ jobs[i].firm /\ jobs[i].fresh
                 THEN Recalled(jobs[i].entry) ELSE recall

(* The end of fill and, of an automatic one, of autoFillPreferredExact.  A   *)
(* login picked in the menu frees the codes also when its form is gone, as   *)
(* the worker says it ended.                                                 *)
EndsLogin(i) ==
    /\ AnswersBack(i, "login")
    /\ LET j == jobs[i]
           mine == widget.fill # Nil /\ widget.fill.id = i
           ok == j.at = "wrote" /\ mine IN
       IF ~j.here THEN UNCHANGED <<widget, codes>>
       ELSE /\ widget' = [widget EXCEPT
                 !.fill = IF mine THEN Nil ELSE @,
                 !.done = IF j.manual THEN @ ELSE ok,
                 !.manual = @ \/ (j.manual /\ ok)]
            /\ codes' = IF j.manual /\ codes.waits = i
                        THEN [codes EXCEPT !.waits = 0, !.spent = @ \/ j.at # "wrote"]
                        ELSE codes
    /\ UNCHANGED <<vaultOpen, settled, news, fields, receipt, bounds>>

(* The end of sendTotp. *)
EndsCode(i) ==
    /\ AnswersBack(i, "code")
    /\ codes' = IF jobs[i].here /\ codes.fill # Nil /\ codes.fill.id = i
                THEN [codes EXCEPT !.fill = Nil] ELSE codes
    /\ UNCHANGED <<vaultOpen, settled, news, fields, widget, receipt, bounds>>

-----------------------------------------------------------------------------
(* A fill of the popup: fillNativePreparedEntry. *)

(* beginNative: the operation before it fails, and all that runs is stale. *)
NativeBegins(e, submit) ==
    /\ vaultOpen /\ With(Each(jobs, Stale), Job("native", TRUE, e, submit, "send"))
    /\ settled' = [Finished("no") EXCEPT ![NewId] = "open"]
    /\ recall' = [recall EXCEPT !.pending = NewId]
    /\ UNCHANGED <<vaultOpen, news, pageVars>>

(* The operation is recorded if the document is still there, or was          *)
(* submitted, and nothing has superseded it.  Its promise says so.           *)
NativeEnds(i) ==
    /\ jobs[i].at \in {"wrote", "refused"} /\ jobs[i].kind = "native"
    /\ LET j == jobs[i]
           ok == j.at = "wrote" /\ j.fresh /\ (j.here \/ j.firm)
           kept == IF ok THEN Recalled(j.entry) ELSE recall
           mine == recall.pending = i IN
       /\ recall' = IF mine THEN [kept EXCEPT !.pending = 0,
                                              !.native = IF ok THEN j.entry ELSE @]
                    ELSE kept
       /\ settled' = IF mine THEN Finished(IF ok THEN "yes" ELSE "no") ELSE settled
    /\ Drops(i) /\ UNCHANGED <<vaultOpen, news, pageVars, bounds>>

-----------------------------------------------------------------------------
(* The user and the page. *)

Edits(v) ==
    /\ Event /\ fields.login # v
    /\ fields' = [fields EXCEPT !.login = v, !.auto = FALSE] /\ receipt' = Nil
    /\ UNCHANGED <<worker, widget, codes, jobs>>

(* A document may have a field for a code, in the form of the login or not.  *)
Blank(on, same) ==
    [login |-> Nil, auto |-> FALSE, otp |-> Nil, otpOn |-> on, same |-> on /\ same]
FreshPage ==
    /\ \E on, same \in BOOLEAN : fields' = Blank(on, same)
    /\ widget' = NoWidget /\ codes' = NoCodes /\ receipt' = Nil

(* scan, destroy: another form or stage of it in the same document.  What    *)
(* was to be put in the old one no longer will be; a login picked in the     *)
(* menu goes on until the worker answers.                                    *)
StageReplaced ==
    /\ Event /\ widget' = NoWidget /\ receipt' = Nil
    /\ \E v \in {fields.login, Nil}, on, same \in BOOLEAN :
         fields' = [fields EXCEPT !.login = v, !.auto = @ /\ v # Nil,
                      !.otpOn = @ \/ on, !.same = IF fields.otpOn THEN @ ELSE on /\ same]
    /\ jobs' = Each(jobs, LAMBDA j : IF j.kind = "login" /\ ~j.manual THEN Gone(j) ELSE j)
    /\ UNCHANGED <<worker, codes>>

(* The next document, with its own script. *)
NewDocument ==
    /\ Event /\ FreshPage /\ jobs' = Each(jobs, Gone) /\ UNCHANGED worker

(* Another host, and back: navigation, clearTab. *)
Elsewhere ==
    /\ Event /\ FreshPage
    /\ settled' = Finished("no")
    /\ recall' = [recall EXCEPT !.native = Nil, !.tab = Nil, !.pending = 0]
    /\ jobs' = Each(jobs, LAMBDA j : Gone(Stale(j)))
    /\ UNCHANGED <<vaultOpen, news>>

(* surface/vault-changed: a list under way is dropped, and asked for again.  *)
VaultChanges ==
    /\ jobs' = Each(jobs, LAMBDA j :
          IF j.kind = "login" /\ ~j.manual /\ j.at \in {"listwait", "choose", "listed"}
          THEN [j EXCEPT !.wanted = FALSE] ELSE j)
    /\ UNCHANGED <<worker, pageVars, bounds>>

-----------------------------------------------------------------------------
(* The session. *)

LocksVault ==
    /\ vaultOpen /\ Event /\ vaultOpen' = FALSE /\ news' = TRUE
    /\ settled' = Finished("no")
    /\ recall' = [native |-> Nil, tab |-> Nil, host |-> Nil, pending |-> 0]
    /\ jobs' = Each(jobs, StaleKeys) /\ UNCHANGED pageVars
UnlocksVault ==
    /\ ~vaultOpen /\ Event /\ vaultOpen' = TRUE /\ news' = TRUE
    /\ UNCHANGED <<recall, settled, pageVars, jobs>>

(* clearSessionState. *)
HearsSession ==
    /\ news /\ news' = FALSE
    /\ codes' = NoCodes /\ receipt' = Nil
    /\ widget' = [widget EXCEPT !.fill = Nil, !.manual = FALSE]
    /\ jobs' = Unwanted(jobs, {"login", "code"})
    /\ UNCHANGED <<vaultOpen, recall, settled, fields, bounds>>

-----------------------------------------------------------------------------
FillInit ==
    /\ vaultOpen = TRUE /\ news = FALSE
    /\ recall = [native |-> Nil, tab |-> Nil, host |-> Nil, pending |-> 0]
    /\ settled = [i \in Ops |-> "open"]
    /\ fields \in {Blank(on, same) : on, same \in BOOLEAN} /\ widget = NoWidget /\ codes = NoCodes /\ receipt = Nil
    /\ jobs = [i \in Ops |-> Nil]
    /\ bounds \in [jobs : 0..MaxFills, events : 0..MaxEvents]

FillNext ==
    \/ AutoBegins \/ CodeBegins
    \/ \E e \in Fillable, b \in BOOLEAN :
          ManualLogin(e, b) \/ ManualCode(e, b) \/ NativeBegins(e, b)
    \/ \E i \in Ops :
         /\ jobs[i] # Nil
         /\ \/ ListHears(i) \/ Returns(i) \/ OffersLogin(i) \/ OffersCode(i)
            \/ \E e \in Fillable : Chooses(i, e)
            \/ Asks(i) \/ FillHears(i) \/ Checks(i) \/ Sends(i)
            \/ WritesLogin(i) \/ WritesCode(i) \/ WritesNative(i)
            \/ EndsLogin(i) \/ EndsCode(i) \/ NativeEnds(i)
    \/ \E v \in {Nil, Typed} : Edits(v)
    \/ StageReplaced \/ NewDocument \/ Elsewhere \/ VaultChanges
    \/ LocksVault \/ UnlocksVault \/ HearsSession

FillSpec == FillInit /\ [][FillNext]_fillVars

-----------------------------------------------------------------------------
(* Properties. *)

(* An automatic fill writes no other account than the one the user picked in *)
(* the popup, however lists, waits, fills and popup operations overlap.      *)
AutomaticFollowsChoice ==
    [][\A i \in Ops :
         jobs[i] # Nil /\ ~jobs[i].manual /\ jobs[i].at = "sent" /\ jobs'[i].at = "wrote"
           => recall.native \in {Nil, jobs[i].entry}]_fillVars

(* What waits for a fill of the popup will hear of it: the operation runs    *)
(* and is the pending one, or its promise is settled.                        *)
WaitersAreAnswered ==
    \A i \in Ops : jobs[i] # Nil /\ jobs[i].at \in {"listwait", "fillwait"} =>
        LET n == jobs[i].on IN
        \/ settled[n] # "open"
        \/ n = recall.pending /\ jobs[n] # Nil /\ jobs[n].kind = "native"

(* What the extension vouches for as put there by itself is in the form and  *)
(* was put there by an automatic fill, never by the user.                    *)
ReceiptIsAutomatic == receipt # Nil => fields.login = receipt /\ fields.auto

(* Codes wait for a login picked in the menu only while that login is being  *)
(* filled: what replaces its form, supersedes it or clears the page ends the *)
(* wait, at once or with the answer.                                         *)
CodesAreFreed ==
    codes.waits # 0 =>
        LET j == jobs[codes.waits] IN
        j # Nil /\ j.kind = "login" /\ j.manual /\ j.here

(* The three: promises, receipts and codes that wait. *)
FillsAreSafe == WaitersAreAnswered /\ ReceiptIsAutomatic /\ CodesAreFreed
=============================================================================
