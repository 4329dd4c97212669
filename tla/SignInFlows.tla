---------------------------- MODULE SignInFlows ----------------------------
(* "Sign in with ...": the worker watches which documents tabs show, links a *)
(* service's tab to the provider it asks for an authorization, in the same   *)
(* tab or in a popup, and offers to remember the account once the tab is     *)
(* back.  Documents are noted at once; suggestions, prompts, confirmations   *)
(* and the note of what was filled are asynchronous; a lock discards every   *)
(* flow and suggestion, but not what is on its way.                          *)
EXTENDS PageTab

CONSTANTS
    Tabs,       \* tab ids; tab 1 is open from the start
    Sites,      \* registrable domains of services
    Providers,  \* identity providers
    MaxVisits,  \* bound: documents of a tab, closings included
    MaxFlowOps  \* bound: flows and operations begun

ASSUME SignInAssumption ==
    /\ Tabs \subseteq Nat \ {0} /\ 1 \in Tabs /\ {MaxVisits, MaxFlowOps} \subseteq Nat
    /\ None \notin Sites

VARIABLES
    docs,    \* the browser: the document of each tab and whose it is
    flows,   \* flows, by the tab of the service
    origin,  \* lastServiceOrigin
    known,   \* knownTabs
    offers,  \* suggestions: of a document, told to it or not
    mutes,   \* mutedHosts
    fruns,   \* the operations that run
    fcount   \* bound: operations and flows, also their ids

flowVars == <<docs, flows, origin, known, offers, mutes, fruns, fcount>>
FSlots == {1, 2}

(* A document of a site or of no HTTPS origin, which may tell of a failed    *)
(* sign-in, or of a provider, which may be an authorization request.         *)
Site(x, error) == [site |-> x, provider |-> None, error |-> error, asks |-> FALSE]
Provider(p, asks) == [site |-> None, provider |-> p, error |-> FALSE, asks |-> asks]
Pages == {Site(x, e) : x \in Sites \cup {None}, e \in BOOLEAN}
           \cup {Provider(p, a) : p \in Providers, a \in BOOLEAN}

Flow(x) == [id |-> fcount, site |-> x, popups |-> {}, provider |-> None,
            phase |-> "started", used |-> None, chosen |-> None, prompt |-> None,
            building |-> 0]

Accounts == [provider : Providers \cup {None}, user : Users \cup {None}]
Prompts == [id : Nat, doc : Nat, provider : Providers \cup {None},
            user : Users \cup {None}]
Flows == [id : Nat, site : Sites \cup {None}, popups : SUBSET Tabs,
          provider : Providers \cup {None}, phase : {"started", "provider", "returned"},
          used : Accounts \cup {None}, chosen : Accounts \cup {None},
          prompt : Prompts \cup {None}, building : Nat]

ASSUME NoneIsNoFlow == None \notin Flows

Active(t) == flows[t] # None /\ flows[t].phase # "returned"
(* flowForProviderTab. *)
Owners(t) == {s \in Tabs : flows[s] # None /\ t \in flows[s].popups}
Owner(t) == IF Owners(t) = {} THEN 0 ELSE CHOOSE s \in Owners(t) : TRUE

(* start: a flow of the same service that is not over goes on. *)
Started(t, x) ==
    IF Active(t) /\ flows[t].site = x THEN flows ELSE [flows EXCEPT ![t] = Flow(x)]

(* returned: only asks, and never on a muted site. *)
Returned(f, s) ==
    [f EXCEPT ![s] = IF @.provider = None \/ @.site \in mutes THEN None
                     ELSE [@ EXCEPT !.phase = "returned", !.popups = {}]]

-----------------------------------------------------------------------------
(* documentConnected. *)

(* Mutant: what was filled for another provider is kept. *)
SwitchedKeeping(f, p) == [f EXCEPT !.provider = p, !.phase = "provider"]

(* Another provider: what was filled belongs to the one before. *)
Switched(f, p) ==
    [f EXCEPT !.used = IF f.provider # p THEN None ELSE @,
              !.provider = p, !.phase = "provider"]

(* A flow is linked to a provider, and to the popup that shows it. *)
Linked(f, p, popups) == [Switched(f, p) EXCEPT !.popups = f.popups \cup popups]

(* The service a provider's document belongs to: its popup's, the tab's own, *)
(* the opener's of a tab never seen before, or whatever the tab showed.      *)
ServiceOf(t, opener, asks) ==
    IF Owner(t) # 0 THEN Owner(t)
    ELSE IF Active(t) THEN t
    ELSE IF opener # 0 /\ (Active(opener) \/ (asks /\ origin[opener] # None)) THEN opener
    ELSE IF asks /\ origin[t] # None THEN t
    ELSE 0

(* Only an authorization request links a flow to a provider, or to another.  *)
ProviderDocument(t, pg, opener) ==
    LET asks == pg.asks
        s == ServiceOf(t, opener, asks)
    IN flows' = IF s = 0 THEN flows
                ELSE IF ~asks /\ flows[s].provider # pg.provider THEN flows
                ELSE LET f == IF Owner(t) # 0 \/ Active(s) THEN flows
                              ELSE Started(s, origin[s])
                     IN [f EXCEPT ![s] = Linked(f[s], pg.provider, {t} \ {s})]

(* The popup is back at the service, failed there, or went elsewhere. *)
InPopup(t, pg, s) ==
    IF pg.error THEN [flows EXCEPT ![s] = None]
    ELSE IF flows[s].phase = "provider" /\ pg.site = flows[s].site
    THEN Returned(flows, s)
    ELSE [flows EXCEPT ![s].popups = @ \ {t}]

(* The tab itself is back at its service, failed there, or has left it. *)
InTab(t, pg, f) ==
    IF f[t] = None THEN f
    ELSE IF f[t].phase = "provider" /\ pg.site = f[t].site
    THEN IF pg.error THEN [f EXCEPT ![t] = None] ELSE Returned(f, t)
    ELSE IF f[t].phase = "returned" /\ pg.site # f[t].site THEN [f EXCEPT ![t] = None]
    ELSE f

ServiceDocument(t, pg) ==
    LET s == Owner(t)
        back == s \notin {0, t} /\ (pg.error \/ pg.site = flows[s].site)
        f == IF s \in {0, t} THEN flows ELSE InPopup(t, pg, s)
    IN /\ flows' = IF back THEN f ELSE InTab(t, pg, f)
       /\ origin' = IF back THEN origin ELSE [origin EXCEPT ![t] = pg.site]

(* A tab shows another document; of one never seen the opener counts.  A     *)
(* provider's page that is no part of a sign-in changes nothing.             *)
Visits(t, pg, opener) ==
    /\ docs[t].n < MaxVisits /\ opener # t
    /\ opener # 0 => opener \in known /\ t \notin known
    /\ docs' = [docs EXCEPT ![t] = [n |-> @.n + 1, site |-> pg.site, provider |-> pg.provider]]
    /\ known' = known \cup {t}
    /\ IF pg.provider = None THEN ServiceDocument(t, pg)
       ELSE /\ ProviderDocument(t, pg, opener) \/ (~pg.asks /\ UNCHANGED flows)
            /\ UNCHANGED origin
    /\ UNCHANGED <<page, offers, mutes, fruns, fcount>>

(* tabRemoved: a popup that is closed proves nothing; the user is asked. *)
Closes(t) ==
    /\ t \in known \ {1} /\ docs[t].n < MaxVisits
    /\ docs' = [docs EXCEPT ![t] = [n |-> @.n + 1, site |-> None, provider |-> None]]
    /\ known' = known \ {t} /\ origin' = [origin EXCEPT ![t] = None]
    /\ offers' = [offers EXCEPT ![t] = None]
    /\ LET s == Owner(t)
           f == [flows EXCEPT ![t] = None]
       IN flows' = IF s \in {0, t} THEN f
                   ELSE LET g == [f EXCEPT ![s].popups = @ \ {t}]
                        IN IF g[s].phase = "provider" /\ g[s].popups = {}
                           THEN Returned(g, s) ELSE g
    /\ UNCHANGED <<page, mutes, fruns, fcount>>

-----------------------------------------------------------------------------
(* Intents, suggestions and what Palladin fills. *)

OnSite(t) == docs[t].site # None
Counts == fcount < MaxFlowOps /\ fcount' = fcount + 1

(* A click on a control that names a provider. *)
Intent(t) ==
    /\ OnSite(t) /\ Counts /\ flows' = Started(t, docs[t].site)
    /\ UNCHANGED <<page, docs, origin, known, offers, mutes, fruns>>

(* sessionGeneration: locks and unlocks count, a termination does not. *)
Generation == IF sess.ending THEN sess.gen ELSE sess.gen + 1

FBegins(r) ==
    /\ Counts /\ HasFree(fruns) /\ fruns' = [fruns EXCEPT ![FreeSlot(fruns)] = r]
FEnds(s) == fruns' = [fruns EXCEPT ![s] = None]
FlowRun(kind, t) == [kind |-> kind, tab |-> t, doc |-> docs[t].n, gen |-> Generation,
                 user |-> sess.user, flow |-> 0, provider |-> None]

(* suggest, up to the bindings of whoever is signed in when they are read. *)
SuggestBegins(t) ==
    /\ OnSite(t) /\ SignedIn /\ FBegins(FlowRun("suggest", t))
    /\ UNCHANGED <<page, docs, flows, origin, known, offers, mutes>>

(* The suggestions are kept, and told if the session is still the same. *)
Suggests(s, p) ==
    /\ fruns[s].kind = "suggest" /\ SignedIn /\ FEnds(s)
    /\ offers' = [offers EXCEPT ![fruns[s].tab] =
                    [doc |-> fruns[s].doc, provider |-> p, user |-> sess.user,
                     told |-> fruns[s].gen = Generation]]
    /\ UNCHANGED <<page, docs, flows, origin, known, mutes, fcount>>
SuggestFails(s) ==
    /\ fruns[s].kind = "suggest" /\ FEnds(s)
    /\ UNCHANGED <<page, docs, flows, origin, known, offers, mutes, fcount>>

(* choose. *)
Choose(t) ==
    /\ OnSite(t) /\ offers[t] # None /\ offers[t].told /\ offers[t].doc = docs[t].n
    /\ Counts
    /\ flows' = [Started(t, docs[t].site) EXCEPT ![t].chosen =
                   [provider |-> offers[t].provider, user |-> offers[t].user]]
    /\ UNCHANGED <<page, docs, origin, known, offers, mutes, fruns>>

(* A fill on a provider's page is done: who it was is read from the vault,   *)
(* of whoever is signed in when the reading begins.                          *)
FillReads(t, p) ==
    /\ SignedIn /\ docs[t].provider # None
    /\ FBegins([FlowRun("fill", t) EXCEPT !.provider = p])
    /\ UNCHANGED <<page, docs, flows, origin, known, offers, mutes>>

(* providerFilled, once it was read: an account of the provider that the     *)
(* tab's flow is at.  Neither the session nor the flow is asked whether it   *)
(* still is the one of the fill.  The reading may fail or find no account.   *)
Filled(s) ==
    LET r == fruns[s]  o == IF Owner(r.tab) # 0 THEN Owner(r.tab) ELSE r.tab IN
    /\ r.kind = "fill" /\ FEnds(s)
    /\ \/ UNCHANGED flows
       \/ /\ flows[o] # None /\ flows[o].phase = "provider"
          /\ flows[o].provider = r.provider
          /\ flows' = [flows EXCEPT ![o].used = [provider |-> r.provider, user |-> r.user]]
    /\ UNCHANGED <<page, docs, origin, known, offers, mutes, fcount>>

-----------------------------------------------------------------------------
(* The prompt. *)

Back(t) == /\ flows[t] # None /\ flows[t].phase = "returned"
           /\ OnSite(t) /\ docs[t].site = flows[t].site

(* One build at a time and one prompt per document. *)
Builds(t) == [FlowRun("build", t) EXCEPT !.flow = flows[t].id, !.provider = flows[t].provider]
PromptBegins(t) ==
    /\ Back(t) /\ SignedIn
    /\ flows[t].prompt # None => flows[t].prompt.doc # docs[t].n
    /\ flows[t].building # docs[t].n
    /\ FBegins(Builds(t)) /\ flows' = [flows EXCEPT ![t].building = docs[t].n]
    /\ UNCHANGED <<page, docs, origin, known, offers, mutes>>

SameFlow(r) == flows[r.tab] # None /\ flows[r.tab].id = r.flow

(* An account is preferred: one chosen for this provider, or one filled.     *)
Prefers(f) == \/ f.used # None
              \/ f.chosen # None /\ f.chosen.provider = f.provider

(* buildPrompt: the session and the flow are those it began with.  What is   *)
(* remembered already needs no prompt.                                       *)
PromptBuilt(s, remembered) ==
    /\ fruns[s].kind = "build" /\ FEnds(s)
    /\ LET r == fruns[s]
           done == IF SameFlow(r) /\ flows[r.tab].building = r.doc
                   THEN [flows EXCEPT ![r.tab].building = 0] ELSE flows
       IN flows' = IF ~SameFlow(r) \/ r.gen # Generation THEN done
                   ELSE IF remembered /\ Prefers(flows[r.tab])
                   THEN [done EXCEPT ![r.tab] = None]
                   ELSE [done EXCEPT ![r.tab].prompt =
                           [id |-> fcount, doc |-> r.doc, provider |-> r.provider,
                            user |-> r.user]]
    /\ UNCHANGED <<page, docs, origin, known, offers, mutes, fcount>>
PromptFails(s) ==
    /\ fruns[s].kind = "build" /\ FEnds(s)
    /\ flows' = IF SameFlow(fruns[s]) /\ flows[fruns[s].tab].building = fruns[s].doc
                THEN [flows EXCEPT ![fruns[s].tab].building = 0] ELSE flows
    /\ UNCHANGED <<page, docs, origin, known, offers, mutes, fcount>>

FlowConfirmBegins(t) ==
    /\ Back(t) /\ SignedIn /\ flows[t].prompt # None /\ flows[t].prompt.doc = docs[t].n
    /\ FBegins([Builds(t) EXCEPT !.kind = "confirm"])
    /\ UNCHANGED <<page, docs, flows, origin, known, offers, mutes>>

(* stillAuthorized, before the writer sends. *)
ConfirmSends(s) ==
    /\ fruns[s].kind = "confirm"
    /\ LET r == fruns[s] IN
       fruns' = [fruns EXCEPT ![s].kind =
                   IF r.gen = Generation /\ SameFlow(r) /\ docs[r.tab].n = r.doc
                   THEN "sent" ELSE "failed"]
    /\ UNCHANGED <<page, docs, flows, origin, known, offers, mutes, fcount>>

(* Saved: the flow is over.  Otherwise the prompt is built afresh. *)
ConfirmSaved(s) ==
    /\ fruns[s].kind = "sent" /\ FEnds(s)
    /\ flows' = IF SameFlow(fruns[s]) THEN [flows EXCEPT ![fruns[s].tab] = None] ELSE flows
    /\ UNCHANGED <<page, docs, origin, known, offers, mutes, fcount>>
ConfirmFailed(s) ==
    /\ fruns[s].kind \in {"sent", "failed"}
    /\ LET r == fruns[s]  t == fruns[s].tab IN
       IF ~SameFlow(r) THEN FEnds(s) /\ UNCHANGED flows
       ELSE IF Back(t) /\ SignedIn /\ flows[t].building # docs[t].n /\ docs[t].n = r.doc
       THEN /\ flows' = [flows EXCEPT ![t].prompt = None, ![t].building = docs[t].n]
            /\ fruns' = [fruns EXCEPT ![s] = Builds(t)]
       ELSE FEnds(s) /\ flows' = [flows EXCEPT ![t].prompt = None]
    /\ UNCHANGED <<page, docs, origin, known, offers, mutes, fcount>>

(* dismiss: the site is not asked about again in this session. *)
DismissFlow(t) ==
    /\ flows[t] # None /\ flows[t].prompt # None
    /\ mutes' = mutes \cup {flows[t].site} /\ flows' = [flows EXCEPT ![t] = None]
    /\ UNCHANGED <<page, docs, origin, known, offers, fruns, fcount>>

(* The ten minutes of a flow pass. *)
FlowExpires(t) ==
    /\ flows[t] # None /\ flows' = [flows EXCEPT ![t] = None]
    /\ UNCHANGED <<page, docs, origin, known, offers, mutes, fruns, fcount>>

-----------------------------------------------------------------------------
(* Mutant: a lock leaves the flows. *)
KeptByLock == flows

(* clear. *)
LeftByLock == [t \in Tabs |-> None]

(* onLocked clears; a termination and an unlock do not. *)
FlowSession ==
    /\ \/ /\ Terminates \/ \E u \in Users : Unlocks(u)
          /\ UNCHANGED <<flows, offers, mutes>>
       \/ /\ \E out \in BOOLEAN : Locks(out)
          /\ flows' = LeftByLock /\ offers' = [t \in Tabs |-> None] /\ mutes' = {}
    /\ UNCHANGED <<docs, origin, known, fruns, fcount>>

FlowInit ==
    /\ \E x \in Sites :
         /\ docs = [t \in Tabs |-> [n |-> 1, site |-> IF t = 1 THEN x ELSE None,
                                 provider |-> None]]
         /\ origin = [t \in Tabs |-> IF t = 1 THEN x ELSE None]
    /\ flows = [t \in Tabs |-> None] /\ known = {1} /\ mutes = {}
    /\ offers = [t \in Tabs |-> None] /\ fruns = [s \in FSlots |-> None] /\ fcount = 0

FlowNext ==
    \/ \E t \in Tabs :
         \/ \E pg \in Pages, o \in Tabs \cup {0} : Visits(t, pg, o)
         \/ \E p \in Providers : FillReads(t, p)
         \/ Closes(t) \/ Intent(t) \/ SuggestBegins(t) \/ Choose(t)
         \/ PromptBegins(t) \/ FlowConfirmBegins(t) \/ DismissFlow(t) \/ FlowExpires(t)
    \/ \E s \in FSlots :
         /\ fruns[s] # None
         /\ \/ \E p \in Providers : Suggests(s, p)
            \/ SuggestFails(s) \/ Filled(s) \/ PromptFails(s) \/ ConfirmSends(s)
            \/ ConfirmSaved(s) \/ ConfirmFailed(s)
            \/ \E remembered \in BOOLEAN : PromptBuilt(s, remembered)
    \/ FlowSession

FlowSpec == PageInit /\ FlowInit /\ [][FlowNext]_<<page, flowVars>>

-----------------------------------------------------------------------------
(* Properties. *)

(* A flow never mixes two sign-ins: what Palladin filled and what the prompt *)
(* offers are of the provider of the flow, a popup belongs to one flow that  *)
(* is at its provider, and a prompt is shown only after the return.          *)
FlowsAreConsistent ==
    \A s \in Tabs : flows[s] # None =>
        LET f == flows[s] IN
        /\ f.used # None => f.used.provider = f.provider
        /\ f.prompt # None => f.phase = "returned" /\ f.prompt.provider = f.provider
        /\ f.popups # {} => f.phase = "provider" /\ s \notin f.popups
        /\ \A t \in f.popups : Owners(t) = {s}

(* What the user chose, what a prompt was built from and what is suggested   *)
(* come from the vault that is open now, never from the one that was open    *)
(* before a lock, whatever was being read, suggested or built meanwhile.     *)
(* This is not so of the account that Palladin filled (`used`): a reading    *)
(* that began before the lock is noted in the flow of the next session.      *)
OwnAccounts ==
    SignedIn => \A t \in Tabs :
        /\ flows[t] # None =>
             \A x \in {flows[t].chosen, flows[t].prompt} \ {None} : x.user = sess.user
        /\ offers[t] # None /\ offers[t].told => offers[t].user = sess.user
(* Both, of the providers of a flow and of its accounts. *)
FlowsAreSound == FlowsAreConsistent /\ OwnAccounts
=============================================================================
