------------------------- MODULE GeneratedPassword -------------------------
(* A strong password for a form that asks for a new one: the page's content  *)
(* script offers it next to the field, the popup offers it too, the worker   *)
(* generates the value and sends it to the one candidate it was asked for,   *)
(* and the popup may have it saved.  The suggestion, the form, the worker's  *)
(* prompt and the session all change while a request is on its way.          *)
EXTENDS PageTab

CONSTANTS
    MaxForms,   \* bound: candidates the documents of the tab show
    MaxOffers,  \* bound: suggestions of a document
    MaxGenOps   \* bound: requests

ASSUME GeneratedAssumption == {MaxForms, MaxOffers, MaxGenOps} \subseteq Nat

VARIABLES
    form,     \* the page: the candidate, and whether its fields are empty
    offer,    \* generator-suggestion: what it offers; token counts its hide
    allowed,  \* pendingGeneration: the one request the page may be filled by
    prompt,   \* pendingByTab: the worker's prompt
    gruns,    \* the requests that run
    gcount    \* bound: requests, also their ids

genVars == <<form, offer, allowed, prompt, gruns, gcount>>
onPage == <<form, offer, allowed>>
GSlots == {1, 2}

Req(kind) == [kind |-> kind, at |-> "begin", doc |-> 0, cand |-> 0, op |-> 0,
              token |-> 0, keys |-> 0, prompt |-> None]
GBegins(r) ==
    /\ gcount < MaxGenOps /\ gcount' = gcount + 1
    /\ HasFree(gruns) /\ gruns' = [gruns EXCEPT ![FreeSlot(gruns)] = r]
GEnds(s) == gruns' = [gruns EXCEPT ![s] = None]
GGoes(s, at) == gruns' = [gruns EXCEPT ![s].at = at]
(* The popup shows an error; the suggestion has yet to hear of it. *)
Refuses(s) == IF gruns[s].kind = "inline" THEN GGoes(s, "refused") ELSE GEnds(s)

-----------------------------------------------------------------------------
(* The page. *)

(* Mutant: hiding leaves the request that was authorized. *)
HideLeaving == offer' = [on |-> 0, op |-> 0, token |-> offer.token + 1] /\ UNCHANGED allowed

(* hide: the suggestion goes, and with it what it has authorized. *)
Hide == offer' = [on |-> 0, op |-> 0, token |-> offer.token + 1] /\ allowed' = 0

(* candidateFor: the candidate is there, and its fields are empty. *)
Offers(c) == form.cand = c /\ form.empty

(* The field has the focus. *)
Shows ==
    /\ offer.on = 0 /\ form.empty /\ offer.token < MaxOffers
    /\ offer' = [on |-> form.cand, op |-> 0, token |-> offer.token]
    /\ allowed' = 0
    /\ UNCHANGED <<page, form, prompt, gruns, gcount>>

(* Escape, another focus, "not now", a changed preference. *)
Hides == offer.on # 0 /\ Hide /\ UNCHANGED <<page, form, prompt, gruns, gcount>>

(* The user asks for the suggestion: the page authorizes this one request,   *)
(* and tells the worker of the candidate first.                              *)
Clicks ==
    /\ offer.on # 0 /\ offer.op = 0 /\ Offers(offer.on)
    /\ GBegins([Req("inline") EXCEPT !.doc = tab.doc, !.cand = offer.on,
                  !.op = gcount + 1, !.token = offer.token])
    /\ offer' = [offer EXCEPT !.op = gcount + 1] /\ allowed' = gcount + 1
    /\ UNCHANGED <<page, form, prompt>>

(* The user types, and the suggestion of a field with a value goes; or       *)
(* clears the field; or the page renders another form.                       *)
Types == form.empty /\ form' = [form EXCEPT !.empty = FALSE]
         /\ (IF offer.on # 0 THEN Hide ELSE UNCHANGED <<offer, allowed>>)
         /\ UNCHANGED <<page, prompt, gruns, gcount>>
Clears == ~form.empty /\ form' = [form EXCEPT !.empty = TRUE]
          /\ UNCHANGED <<page, offer, allowed, prompt, gruns, gcount>>
Renders == form.cand < MaxForms /\ form' = [cand |-> form.cand + 1, empty |-> TRUE]
           /\ UNCHANGED <<page, offer, allowed, prompt, gruns, gcount>>

(* Mutant: any request fills. *)
TakenAlways(r) == TRUE

(* fill: a request with an id is taken once, and only if it is the one that  *)
(* was authorized; the form must be the same and empty.                      *)
Taken(r) == r.op = 0 \/ allowed = r.op

PageFills(s) ==
    /\ gruns[s].at = "page"
    /\ LET r == gruns[s]
           fits == Taken(r) /\ r.doc = tab.doc /\ form.cand = r.cand /\ form.empty
       IN /\ IF fits THEN GGoes(s, "filled") ELSE Refuses(s)
          /\ form' = IF fits THEN [form EXCEPT !.empty = FALSE] ELSE form
          /\ allowed' = IF r.op # 0 /\ r.doc = tab.doc THEN 0 ELSE allowed
    /\ UNCHANGED <<page, offer, prompt, gcount>>

-----------------------------------------------------------------------------
(* The worker. *)

(* An id that neither the prompt nor a request holds. *)
Fresh == CHOOSE id \in 1..4 :
           /\ prompt # None => prompt.id # id
           /\ \A s \in GSlots :
                (gruns[s] # None /\ gruns[s].prompt # None) => gruns[s].prompt.id # id

(* observe: the same candidate keeps its prompt. *)
PromptFor(c, d) ==
    IF prompt # None /\ prompt.cand = c /\ prompt.doc = d THEN prompt
    ELSE [id |-> Fresh, cand |-> c, doc |-> d, filled |-> FALSE, op |-> 0]

(* scan tells of a form it has not seen. *)
Detects ==
    /\ prompt' = PromptFor(form.cand, tab.doc) /\ prompt' # prompt
    /\ UNCHANGED <<page, onPage, gruns, gcount>>

InlineObserves(s) ==
    /\ gruns[s].kind = "inline" /\ gruns[s].at = "begin" /\ GGoes(s, "ack")
    /\ prompt' = PromptFor(gruns[s].cand, gruns[s].doc)
    /\ UNCHANGED <<page, onPage, gcount>>

(* The page goes on if the suggestion stands. *)
InlineAcked(s) ==
    /\ gruns[s].kind = "inline" /\ gruns[s].at = "ack"
    /\ IF gruns[s].doc = tab.doc /\ gruns[s].token = offer.token
       THEN GGoes(s, "generate") ELSE GEnds(s)
    /\ UNCHANGED <<page, onPage, prompt, gcount>>

(* handleGeneratePassword: the keys, before and after the preference; the    *)
(* prompt of this candidate takes each request once.                         *)
InlineGenerates(s) ==
    /\ gruns[s].kind = "inline" /\ gruns[s].at = "generate"
    /\ LET r == gruns[s] IN
       IF Keys # 0 /\ prompt # None /\ prompt.op # r.op
          /\ prompt.cand = r.cand /\ prompt.doc = r.doc
       THEN /\ prompt' = [prompt EXCEPT !.op = r.op]
            /\ gruns' = [gruns EXCEPT ![s].at = "tab", ![s].prompt = prompt']
       ELSE Refuses(s) /\ UNCHANGED prompt
    /\ UNCHANGED <<page, onPage, gcount>>

(* The popup fills or saves with the prompt it shows. *)
PopupBegins(kind) ==
    /\ prompt # None
    /\ GBegins([Req(kind) EXCEPT !.at = "tab", !.prompt = prompt, !.cand = prompt.cand])
    /\ UNCHANGED <<page, onPage, prompt>>

(* The tab shown is that of the prompt, which is there still; a prompt of    *)
(* another document is dropped.                                              *)
Matches(r) == prompt # None /\ prompt.id = r.prompt.id
WorkerLooks(s) ==
    /\ gruns[s].at = "tab"
    /\ LET r == gruns[s] IN
       IF ~Current(tab.port) \/ ~Matches(r) THEN Refuses(s) /\ UNCHANGED prompt
       ELSE IF prompt.doc # tab.port THEN Refuses(s) /\ prompt' = None
       ELSE /\ UNCHANGED prompt
            /\ IF r.kind = "save"
               THEN IF prompt.filled THEN GGoes(s, "saves") ELSE Refuses(s)
               ELSE IF Keys = 0 THEN Refuses(s)
               ELSE gruns' = [gruns EXCEPT ![s].at = "send", ![s].keys = Keys,
                                ![s].prompt = prompt, ![s].doc = prompt.doc]
    /\ UNCHANGED <<page, onPage, gcount>>

(* sendFill: the tab once more, and the same keys. *)
WorkerSends(s) ==
    /\ gruns[s].at = "send"
    /\ IF Current(gruns[s].doc) /\ Keys = gruns[s].keys
       THEN GGoes(s, "page") ELSE Refuses(s)
    /\ UNCHANGED <<page, onPage, prompt, gcount>>

(* The prompt read before the fill is put back as filled. *)
WorkerNotes(s) ==
    /\ gruns[s].at = "filled"
    /\ prompt' = [gruns[s].prompt EXCEPT !.filled = TRUE]
    /\ IF gruns[s].kind = "inline" THEN GGoes(s, "done") ELSE GEnds(s)
    /\ UNCHANGED <<page, onPage, gcount>>

(* savePassword succeeds, and the tab's prompt goes, or it fails. *)
WorkerSaves(s, saved) ==
    /\ gruns[s].at = "saves" /\ GEnds(s)
    /\ prompt' = IF saved THEN None ELSE prompt
    /\ UNCHANGED <<page, onPage, gcount>>

(* The suggestion hears the answer: it hides, or may be asked again. *)
Answered(s) ==
    /\ gruns[s].at \in {"done", "refused"} /\ GEnds(s)
    /\ IF gruns[s].doc = tab.doc /\ gruns[s].token = offer.token
       THEN IF gruns[s].at = "done" THEN Hide
            ELSE offer' = [offer EXCEPT !.op = 0] /\ UNCHANGED allowed
       ELSE UNCHANGED <<offer, allowed>>
    /\ UNCHANGED <<page, form, prompt, gcount>>

(* dismiss, from the popup; the five minutes of a prompt. *)
PromptGoes ==
    /\ prompt # None /\ prompt' = None /\ UNCHANGED <<page, onPage, gruns, gcount>>

-----------------------------------------------------------------------------
(* The world around it.  Neither a lock nor a navigation clears the prompt.  *)

GeneratedSession ==
    /\ \/ Terminates \/ \E out \in BOOLEAN : Locks(out)
       \/ \E u \in Users : Unlocks(u)
    /\ UNCHANGED genVars

(* Another document has a content script of its own. *)
GeneratedNavigates ==
    /\ Navigates /\ form.cand < MaxForms
    /\ form' = [cand |-> form.cand + 1, empty |-> TRUE]
    /\ offer' = [on |-> 0, op |-> 0, token |-> 0] /\ allowed' = 0
    /\ UNCHANGED <<prompt, gruns, gcount>>
GeneratedConnects(d) == Connects(d) /\ UNCHANGED genVars
GeneratedLeaves(d) == Leaves(d) /\ UNCHANGED genVars

GeneratedInit ==
    /\ form = [cand |-> 1, empty |-> TRUE] /\ offer = [on |-> 0, op |-> 0, token |-> 0]
    /\ allowed = 0 /\ prompt = None /\ gruns = [s \in GSlots |-> None] /\ gcount = 0

GeneratedNext ==
    \/ Shows \/ Hides \/ Clicks \/ Types \/ Clears \/ Renders \/ Detects
    \/ \E kind \in {"fill", "save"} : PopupBegins(kind)
    \/ \E s \in GSlots :
         /\ gruns[s] # None
         /\ \/ PageFills(s) \/ InlineObserves(s) \/ InlineAcked(s) \/ InlineGenerates(s)
            \/ WorkerLooks(s) \/ WorkerSends(s) \/ WorkerNotes(s) \/ Answered(s)
            \/ \E saved \in BOOLEAN : WorkerSaves(s, saved)
    \/ PromptGoes \/ GeneratedSession \/ GeneratedNavigates
    \/ \E d \in tab.open \cup {tab.doc - 1, tab.doc} : GeneratedConnects(d) \/ GeneratedLeaves(d)

-----------------------------------------------------------------------------
(* Properties. *)

(* A form is filled by a request of the page only while the suggestion that  *)
(* made it stands, next to that very form: hiding it, typing, another form   *)
(* or another document end a request wherever it is.                         *)
FillsAreWanted ==
    [][\A s \in GSlots :
         gruns[s] # None /\ gruns[s].kind = "inline" /\ gruns[s].at = "page"
         /\ form.empty /\ ~form'.empty /\ gruns'[s] # gruns[s]
         => offer.op = gruns[s].op /\ offer.on = form.cand]_genVars
=============================================================================
