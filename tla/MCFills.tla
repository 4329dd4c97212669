------------------------------ MODULE MCFills ------------------------------
(* Components that fill a page or share what it shows, checked in one run: a *)
(* behaviour is one of one component, `part`, and leaves the others as they  *)
(* began.                                                                    *)
EXTENDS InlineFills, ShareSave, GeneratedPassword, TLC

VARIABLE part

allVars == <<fillVars, page, shareVars, genVars, part>>

(* Three operations undisturbed, or two and what may happen meanwhile.       *)
Budgets == {[jobs |-> 0, events |-> MaxEvents], [jobs |-> 1, events |-> 0]}

FillsInit ==
    /\ FillInit /\ PageInit /\ ShareInit /\ GeneratedInit
    /\ part \in {"fill", "share", "generated"}
    /\ bounds \in Budgets
    /\ IF part = "fill" THEN bounds.jobs = 0 => fields.otpOn /\ ~fields.same
       ELSE bounds.jobs = 0 /\ ~fields.otpOn
    /\ sess.user = CHOOSE u \in Users : TRUE
    /\ acts = IF part = "generated" THEN MaxActs - 1 ELSE 0

FillPart ==
    part = "fill" /\ FillNext /\ UNCHANGED <<page, shareVars, genVars, part>>
SharePart ==
    part = "share" /\ ShareNext /\ UNCHANGED <<fillVars, genVars, part>>
GeneratedPart ==
    part = "generated" /\ GeneratedNext /\ UNCHANGED <<fillVars, shareVars, part>>

FillsNext == FillPart \/ SharePart \/ GeneratedPart

Symmetry == Permutations(Fillable)

FillsSpec == FillsInit /\ [][FillsNext]_allVars

=============================================================================
