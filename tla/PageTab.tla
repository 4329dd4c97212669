------------------------------ MODULE PageTab ------------------------------
(* What the coordinators of captures and shares see of the world around      *)
(* them: one tab of the browser, the ports its documents open to the worker, *)
(* and the session with its lifecycle hooks.  A component extends this       *)
(* module and says what each of these events does to it.                     *)
EXTENDS Naturals, FiniteSets

CONSTANTS
    Users,      \* accounts on this browser
    MaxActs,    \* bound: navigations, dropped ports, updates of the tab and
                \* changes of the session, together
    None

ASSUME PageTabAssumption == MaxActs \in Nat

VARIABLES
    sess,   \* the session; gen counts the hooks that have run
    tab,    \* the document shown, the documents with an open port, the last
            \* one that has connected, and the one registered for the tab
    acts    \* bound

page == <<sess, tab, acts>>

Acts == acts < MaxActs /\ acts' = acts + 1

(* currentSecretCaptureDocument, verifyLiveShareDocument: the document is    *)
(* registered before it is asked, answers, and is registered still.          *)
Current(d) == tab.port = d /\ tab.doc = d

(* The document's messages reach the worker: its port is registered, though  *)
(* the tab may show another document already.                                *)
Hears(d) == tab.port = d

SignedIn == sess.user # None /\ sess.unlocked

Session == [user |-> sess.user, gen |-> sess.gen]
Sessions == [user : Users \cup {None}, gen : Nat]

(* The keys are an object of their own since each unlock. *)
Keys == IF SignedIn THEN IF sess.ending THEN sess.gen - 1 ELSE sess.gen ELSE 0

(* Of the operations a component runs, the next free place. *)
FreeSlot(places) == CHOOSE s \in DOMAIN places : places[s] = None
HasFree(places) == \E s \in DOMAIN places : places[s] = None

-----------------------------------------------------------------------------
(* The browser. *)

Navigates ==
    /\ Acts /\ tab' = [tab EXCEPT !.doc = @ + 1] /\ UNCHANGED sess

(* A document connects, maybe after the tab has left it; a port that dropped *)
(* is opened again.                                                          *)
Connects(d) ==
    /\ d > tab.seen \/ (d = tab.doc /\ d \notin tab.open)
    /\ tab' = [tab EXCEPT !.port = d, !.seen = d, !.open = @ \cup {d}]
    /\ UNCHANGED <<sess, acts>>

(* A port closes: soon or late after the tab has left the document, or       *)
(* because it dropped.                                                       *)
Leaves(d) ==
    /\ d \in tab.open
    /\ IF d = tab.doc THEN Acts ELSE UNCHANGED acts
    /\ tab' = [tab EXCEPT !.open = @ \ {d}, !.port = IF @ = d THEN 0 ELSE @]
    /\ UNCHANGED sess

(* tabs.onUpdated tells of a new URL, of this document or of the next. *)
Updates == Acts /\ UNCHANGED <<sess, tab>>

-----------------------------------------------------------------------------
(* The session. *)

(* onTerminating: the keys are there until the locked event. *)
Terminates ==
    /\ SignedIn /\ ~sess.ending /\ Acts
    /\ sess' = [sess EXCEPT !.ending = TRUE, !.gen = @ + 1]
    /\ UNCHANGED tab

(* onLocked, of a lock or of a logout. *)
Locks(out) ==
    /\ sess.ending
    /\ sess' = [user |-> IF out THEN None ELSE sess.user, unlocked |-> FALSE,
                ending |-> FALSE, gen |-> sess.gen + 1]
    /\ UNCHANGED <<tab, acts>>

(* onUnlocked. *)
Unlocks(u) ==
    /\ sess.user \in {None, u} /\ ~sess.unlocked /\ Acts
    /\ sess' = [user |-> u, unlocked |-> TRUE, ending |-> FALSE,
                gen |-> sess.gen + 1]
    /\ UNCHANGED tab

PageInit ==
    /\ tab = [doc |-> 1, port |-> 1, seen |-> 1, open |-> {1}]
    /\ sess \in {[user |-> u, unlocked |-> TRUE, ending |-> FALSE, gen |-> 1]
                   : u \in Users}
    /\ acts \in 0..MaxActs
=============================================================================
