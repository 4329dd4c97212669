--------------------------- MODULE SecretCapture ---------------------------
(* Keys and payment cards a page shows or asks for: the content script sends *)
(* what it finds, the worker keeps it in memory for three minutes, and the   *)
(* user reviews it in the popup and has it saved as a new entry, or has a    *)
(* card of the vault updated.  Nothing is queued: observations, reviews and  *)
(* saves run at the same time, each with many awaits.                        *)
EXTENDS PageTab

CONSTANTS
    Secrets,     \* what pages show
    Cards,       \* those of Secrets that are cards
    MaxItems,    \* bound: items ever kept
    MaxPending,  \* the items kept at a time, 8 in the code
    MaxSecretOps \* bound: operations begun

ASSUME SecretAssumption ==
    Cards \subseteq Secrets /\ {MaxItems, MaxPending, MaxSecretOps} \subseteq Nat

VARIABLES
    items,   \* pending, by id
    epoch,   \* tabEpochs: the tab's
    muted,   \* preferences: who has muted the site
    runs,    \* the operations that run, two at most
    card,    \* the revision of the vault's card
    stored,  \* how often an item has been stored
    lost,    \* the items of which an answer was lost
    made,    \* the items kept so far
    begun    \* bound: operations so far

secretVars == <<items, epoch, muted, runs, card, stored, lost, made, begun>>
secretStore == <<card, stored, lost, made>>

Ids == 1..MaxItems
Kept == {i \in Ids : items[i] # None}
Slots == {1, 2}

(* authorized: the very item, undismissed, in the session and the document   *)
(* it was found in.  It fails as well when the user looks at another tab.    *)
Authorized(i) ==
    /\ i \in Kept /\ ~items[i].dismissed
    /\ SignedIn /\ items[i].session = Session /\ sess.user \notin muted
    /\ Current(items[i].doc)

(* Mutant: the last, synchronous check is left out. *)
Assumed(i, gen) == TRUE

(* save: the closure asked last, with no await before the request. *)
StillWanted(i, gen) == i \in Kept /\ ~items[i].dismissed /\ sess.gen = gen

(* An observation remembers where it began, a save when. *)
SecretRun(kind, i) == [kind |-> kind, at |-> "begin", id |-> i, doc |-> 0,
                       secret |-> None, session |-> None, epoch |-> 0, rev |-> 0]
Observation(d, secret) ==
    [SecretRun("observe", 0) EXCEPT !.doc = d, !.secret = secret, !.epoch = epoch,
                                    !.session = Session]

SecretKinds == {"observe", "review", "save", "update"}
SecretAts == {"begin", "keep", "show", "assert", "send", "sent", "saved", "failed",
              "conflict"}
SecretRuns == [kind : SecretKinds, at : SecretAts, id : 0..MaxItems, doc : Nat,
               secret : Secrets \cup {None}, session : Sessions \cup {None},
               epoch : Nat, rev : Nat]

ASSUME NoneIsNoSecretRun == None \notin SecretRuns

Begins(r) ==
    /\ begun < MaxSecretOps /\ begun' = begun + 1
    /\ HasFree(runs) /\ runs' = [runs EXCEPT ![FreeSlot(runs)] = r]
Ends(s) == runs' = [runs EXCEPT ![s] = None]
Goes(s, at) == runs' = [runs EXCEPT ![s].at = at]
NoItem == UNCHANGED items

Removed(gone) == [i \in Ids |-> IF i \in gone THEN None ELSE items[i]]

-----------------------------------------------------------------------------
(* observe. *)

ObserveBegins(d, secret) ==
    /\ Hears(d) /\ SignedIn /\ Begins(Observation(d, secret))
    /\ UNCHANGED <<page, items, epoch, muted, secretStore>>

(* The document answers, twice, and the site is not muted. *)
ObserveLooks(s) ==
    /\ runs[s].kind = "observe" /\ runs[s].at = "begin"
    /\ IF Current(runs[s].doc) /\ runs[s].session.user \notin muted
       THEN Goes(s, "keep") ELSE Ends(s)
    /\ UNCHANGED <<page, items, epoch, muted, secretStore, begun>>

(* Mutant: the epoch of the tab is not compared. *)
SameButForTab(r) == SignedIn /\ r.session = Session

(* The session and the tab are those of the beginning. *)
Unchanged(r) == SignedIn /\ r.session = Session /\ r.epoch = epoch

(* One item for a secret of a document, dismissed or not. *)
Known(r) == \E i \in Kept : items[i].doc = r.doc /\ items[i].secret = r.secret

Item(r) == [secret |-> r.secret, doc |-> r.doc, session |-> r.session,
            busy |-> FALSE, dismissed |-> FALSE, reviewed |-> FALSE, target |-> 0]

ObserveKeeps(s) ==
    /\ runs[s].kind = "observe" /\ runs[s].at = "keep" /\ Ends(s)
    /\ IF /\ Unchanged(runs[s]) /\ ~Known(runs[s])
          /\ Cardinality(Kept) < MaxPending /\ made < MaxItems
       THEN items' = [items EXCEPT ![made + 1] = Item(runs[s])] /\ made' = made + 1
       ELSE UNCHANGED <<items, made>>
    /\ UNCHANGED <<page, epoch, muted, card, stored, lost, begun>>

-----------------------------------------------------------------------------
(* The popup reviews, dismisses and mutes. *)

(* readReview: an item that may not be shown is dropped. *)
ReviewBegins(i) ==
    /\ i \in Kept /\ ~items[i].dismissed
    /\ IF Authorized(i)
       THEN Begins(SecretRun("review", i)) /\ UNCHANGED items
       ELSE items' = Removed({i}) /\ UNCHANGED <<runs, begun>>
    /\ UNCHANGED <<page, epoch, muted, secretStore>>

(* The vaults, and the cards with this number. *)
ReviewReads(s) ==
    /\ runs[s].kind = "review" /\ runs[s].at = "begin"
    /\ runs' = IF Authorized(runs[s].id)
               THEN [runs EXCEPT ![s].at = "show",
                       ![s].rev = LET item == items[runs[s].id] IN
                         IF item.secret \notin Cards THEN 0
                         ELSE IF item.target > 0 THEN item.target ELSE card]
               ELSE [runs EXCEPT ![s] = None]
    /\ UNCHANGED <<page, items, epoch, muted, secretStore, begun>>

ReviewShows(s) ==
    /\ runs[s].kind = "review" /\ runs[s].at = "show" /\ Ends(s)
    /\ items' = IF Authorized(runs[s].id)
                THEN [items EXCEPT ![runs[s].id].target = runs[s].rev,
                                   ![runs[s].id].reviewed = TRUE]
                ELSE items
    /\ UNCHANGED <<page, epoch, muted, secretStore, begun>>

(* dismiss, from the popup or the page's notice; the popup may mute the site *)
(* for the account too.                                                      *)
Dismiss(i, mute) ==
    /\ i \in Kept /\ ~items[i].dismissed
    /\ items' = [items EXCEPT ![i].dismissed = TRUE]
    /\ muted' = IF mute /\ SignedIn /\ items[i].session = Session
                THEN muted \cup {sess.user} ELSE muted
    /\ UNCHANGED <<page, epoch, runs, secretStore, begun>>

-----------------------------------------------------------------------------
(* save and update. *)

(* Mutant: two may write the same item. *)
MayStartAgain(i) == i \in Kept /\ ~items[i].dismissed

(* One at a time writes an item. *)
MayStart(i) == i \in Kept /\ ~items[i].dismissed /\ ~items[i].busy

SaveBegins(i) ==
    /\ MayStart(i)
    /\ Begins([SecretRun("save", i) EXCEPT !.session = Session])
    /\ items' = [items EXCEPT ![i].busy = TRUE]
    /\ UNCHANGED <<page, epoch, muted, secretStore>>

UpdateBegins(i) ==
    /\ MayStart(i) /\ items[i].reviewed /\ items[i].target > 0
    /\ Begins([SecretRun("update", i) EXCEPT !.rev = items[i].target])
    /\ items' = [items EXCEPT ![i].busy = TRUE]
    /\ UNCHANGED <<page, epoch, muted, secretStore>>

Free(i) == IF i \in Kept THEN [items EXCEPT ![i].busy = FALSE] ELSE items

(* save: authorized, the vaults, authorized.  An entry just like it that the *)
(* vault shows already ends the item instead.                                *)
SaveLooks(s, duplicate) ==
    /\ runs[s].kind = "save" /\ runs[s].at = "begin"
    /\ LET i == runs[s].id IN
       IF ~Authorized(i) THEN Ends(s) /\ items' = Free(i)
       ELSE IF duplicate /\ \E j \in Ids : stored[j] > 0
       THEN Ends(s) /\ items' = [items EXCEPT ![i].dismissed = TRUE, ![i].busy = FALSE]
       ELSE Goes(s, "assert") /\ NoItem
    /\ UNCHANGED <<page, epoch, muted, secretStore, begun>>

(* The writer has sealed the entry, asks whether it may go on, and awaits    *)
(* the token; an update asks with no await after.                            *)
WriteAsserts(s) ==
    /\ \/ runs[s].kind = "save" /\ runs[s].at = "assert"
       \/ runs[s].kind = "update" /\ runs[s].at = "begin"
    /\ IF Authorized(runs[s].id)
       THEN Goes(s, IF runs[s].kind = "save" THEN "send" ELSE "sent") /\ NoItem
       ELSE Ends(s) /\ items' = Free(runs[s].id)
    /\ UNCHANGED <<page, epoch, muted, secretStore, begun>>

SaveSends(s) ==
    /\ runs[s].kind = "save" /\ runs[s].at = "send"
    /\ IF StillWanted(runs[s].id, runs[s].session.gen)
       THEN Goes(s, "sent") /\ NoItem
       ELSE Ends(s) /\ items' = Free(runs[s].id)
    /\ UNCHANGED <<page, epoch, muted, secretStore, begun>>

(* The server takes a new entry, or the next revision of the card. *)
WriteLands(s, heard) ==
    /\ runs[s].at = "sent"
    /\ runs[s].kind = "update" => card = runs[s].rev
    /\ card' = IF runs[s].kind = "update" THEN card + 1 ELSE card
    /\ stored' = [stored EXCEPT ![runs[s].id] = @ + 1]
    /\ lost' = IF heard THEN lost ELSE lost \cup {runs[s].id}
    /\ Goes(s, IF heard THEN "saved" ELSE "failed")
    /\ UNCHANGED <<page, items, epoch, muted, made, begun>>

WriteBounces(s) ==
    /\ runs[s].at = "sent" /\ Goes(s, IF runs[s].kind = "update" /\ card # runs[s].rev
                                      THEN "conflict" ELSE "failed")
    /\ UNCHANGED <<page, items, epoch, muted, secretStore, begun>>

(* Saved is done with; after a conflict the user reviews again; after        *)
(* another failure the item may be tried again.                              *)
Written(i, how, again) ==
    [items[i] EXCEPT !.busy = FALSE,
       !.dismissed = items[i].dismissed \/ how = "saved",
       !.target = IF again THEN 0 ELSE items[i].target,
       !.reviewed = items[i].reviewed /\ ~again]

WriteEnds(s) ==
    /\ runs[s].at \in {"saved", "conflict", "failed"} /\ Ends(s)
    /\ LET i == runs[s].id  how == runs[s].at IN
       items' = IF i \notin Kept THEN items
                ELSE [items EXCEPT ![i] =
                        Written(i, how, how = "conflict" /\ Authorized(i))]
    /\ UNCHANGED <<page, epoch, muted, secretStore, begun>>

(* Another device edits the card. *)
CardEdited ==
    /\ card \in 1..2 /\ card' = card + 1
    /\ UNCHANGED <<page, items, epoch, muted, runs, stored, lost, made, begun>>

-----------------------------------------------------------------------------
(* The world around it. *)

Cleared == items' = Removed(Ids) /\ epoch' = epoch + 1

(* clear, at each hook of the session. *)
SecretSession ==
    /\ \/ Terminates \/ \E out \in BOOLEAN : Locks(out)
       \/ \E u \in Users : Unlocks(u)
    /\ Cleared
    /\ UNCHANGED <<muted, runs, secretStore, begun>>

(* clearTab: the tab has another URL, or is closed. *)
SecretUpdated == Updates /\ Cleared /\ UNCHANGED <<muted, runs, secretStore, begun>>

SecretNavigates == Navigates /\ UNCHANGED secretVars
SecretConnects(d) == Connects(d) /\ UNCHANGED secretVars

(* disconnected. *)
SecretLeaves(d) ==
    /\ Leaves(d) /\ epoch' = epoch + 1
    /\ items' = Removed({i \in Kept : items[i].doc = d})
    /\ UNCHANGED <<muted, runs, secretStore, begun>>

(* The three minutes of an item pass. *)
Expires(i) ==
    /\ i \in Kept /\ items' = Removed({i})
    /\ UNCHANGED <<page, epoch, muted, runs, secretStore, begun>>

SecretInit ==
    /\ items = [i \in Ids |-> None] /\ epoch = 0 /\ muted = {}
    /\ runs = [s \in Slots |-> None] /\ card \in {0, 1} /\ made = 0 /\ begun = 0
    /\ stored = [i \in Ids |-> 0] /\ lost = {}

SecretNext ==
    \/ \E d \in tab.open, secret \in Secrets : ObserveBegins(d, secret)
    \/ \E i \in Ids :
         \/ ReviewBegins(i) \/ SaveBegins(i) \/ UpdateBegins(i) \/ Expires(i)
         \/ \E mute \in BOOLEAN : Dismiss(i, mute)
    \/ \E s \in Slots :
         /\ runs[s] # None
         /\ \/ ObserveLooks(s) \/ ObserveKeeps(s) \/ ReviewReads(s) \/ ReviewShows(s)
            \/ WriteAsserts(s) \/ SaveSends(s) \/ WriteBounces(s) \/ WriteEnds(s)
            \/ \E b \in BOOLEAN : SaveLooks(s, b) \/ WriteLands(s, b)
    \/ CardEdited \/ SecretSession \/ SecretUpdated \/ SecretNavigates
    \/ \E d \in tab.open \cup {tab.doc - 1, tab.doc} : SecretConnects(d) \/ SecretLeaves(d)

SecretSpec == PageInit /\ SecretInit /\ [][SecretNext]_<<page, secretVars>>

-----------------------------------------------------------------------------
(* Properties. *)

(* What is kept was found in the session that is open now and in a document  *)
(* whose port is open still, however long the observation took and whatever  *)
(* happened meanwhile (observe's epoch and generation, clear, disconnected). *)
SecretIsLive ==
    \A i \in Kept : items[i].session.gen = sess.gen /\ items[i].doc \in tab.open

(* However often the user asks, an item is stored once, unless the answer to *)
(* a write was lost (busy, and dismissed once it is saved).                  *)
SecretStoredOnce == \A i \in Ids \ lost : stored[i] <= 1

(* A new entry is sent only of what the user has not dismissed and in the    *)
(* session that reviewed it, even if either changes during the last await    *)
(* before the request.                                                       *)
SecretSentIsWanted ==
    [][\A s \in Slots :
         runs[s] # None /\ runs[s].kind = "save" /\ runs[s].at # "sent"
         /\ runs'[s] # None /\ runs'[s].at = "sent"
         => /\ runs[s].id \in Kept /\ ~items[runs[s].id].dismissed
            /\ items[runs[s].id].session.gen = sess.gen]_secretVars
(* Both, of what is kept and of what is stored. *)
SecretsAreSound == SecretIsLive /\ SecretStoredOnce
=============================================================================
