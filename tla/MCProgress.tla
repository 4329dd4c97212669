---------------------------- MODULE MCProgress ----------------------------
(* What was begun ends: the hints and the hub of RealtimeHints, the calls of *)
(* SessionLifecycle.  A behaviour is one of one component, `part`, and       *)
(* leaves the other as it began.                                             *)
EXTENDS RealtimeHints, SessionLifecycle

VARIABLE part

ProgressInit ==
    /\ HintsInit /\ Init
    /\ part \in {"hints", "calls"}
    /\ part = "hints" => env = None

InHints == part = "hints" /\ UNCHANGED <<part, vars>>
InCalls == part = "calls" /\ UNCHANGED <<part, hintVars>>

HintsPart == HintsNext /\ InHints
CallsPart == Next /\ InCalls

(* The fairness of the two components. *)
ProgressSpec ==
    /\ ProgressInit
    /\ [][HintsPart \/ CallsPart]_<<part, vars, hintVars>>
    /\ WF_hintVars(Connection /\ InHints)
    /\ \A v \in Vaults : WF_hintVars(Applying(v) /\ InHints)
    /\ WF_vars(DropTotp /\ InCalls)
    /\ \A o \in Ops : WF_vars(Continue(o) /\ InCalls)
=============================================================================
