------------------------------ MODULE MCPages ------------------------------
(* Components around a page's tab, checked in one run: a behaviour is one of *)
(* one component, `part`, and leaves the others as they began.               *)
EXTENDS SecretCapture, TotpCapture, SignInFlows, TLC

VARIABLE part

pagesVars == <<page, secretVars, totpVars, flowVars, part>>

(* Accounts are alike, and so are sites; cards only matter to one part.      *)
PagesInit ==
    /\ PageInit /\ SecretInit /\ TotpInit /\ FlowInit
    /\ part \in {"secret", "totp", "signin"}
    /\ sess.user = CHOOSE u \in Users : TRUE
    /\ origin[1] = CHOOSE x \in Sites : TRUE
    /\ acts = 0
    /\ part # "secret" => card = 0

SecretPart ==
    part = "secret" /\ SecretNext /\ UNCHANGED <<totpVars, flowVars, part>>
TotpPart ==
    part = "totp" /\ TotpNext /\ UNCHANGED <<secretVars, flowVars, part>>
(* Of the documents the two tabs may show, at most so many in a behaviour.   *)
MaxShown == 5
SignInPart ==
    /\ part = "signin" /\ FlowNext /\ docs'[1].n + docs'[2].n <= MaxShown
    /\ UNCHANGED <<secretVars, totpVars, part>>

PagesNext == SecretPart \/ TotpPart \/ SignInPart

Symmetry == Permutations(Providers) \cup Permutations(Totps)

PagesSpec == PagesInit /\ [][PagesNext]_pagesVars

=============================================================================
