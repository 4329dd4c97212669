--------------------------- MODULE MCServerChange ---------------------------
(* Instances of ServerChange for TLC: the packaged server P, which the       *)
(* manifest grants, and self-hosted servers with their panels.               *)
EXTENDS ServerChange, TLC

CONSTANTS p, u, v, panel, other

Conn(api, web, on) == [api |-> api, web |-> web, http |-> FALSE, on |-> on]

(* Pairs that differ in panel, in sharing and consent, and in API. *)
Switched == {Conn(u, panel, TRUE), Conn(u, panel, FALSE)}
Differing == {Conn(u, panel, TRUE), Conn(u, other, TRUE), Conn(v, panel, TRUE),
              [Conn(u, panel, FALSE) EXCEPT !.http = TRUE]}
Pairs == Switched \cup Differing
OnePair == {Conn(u, panel, TRUE)}

-----------------------------------------------------------------------------
(* Two instances in one run: two operations and two changes of every kind    *)
(* between two servers, and one operation with changes between pairs.        *)
VARIABLE scene

Crowd == [ops |-> 2, cmds |-> {"save", "set", "activate"}, gens |-> 2,
          nexts |-> Switched \cup {p, u}, early |-> FALSE]
Consent == [ops |-> 1, cmds |-> {"save", "activate"}, gens |-> 3,
            nexts |-> Differing \cup {p, u, v}, early |-> TRUE]

SceneInit ==
    /\ Init
    /\ scene \in {Crowd, Consent}
    /\ disk.url \in (IF scene = Crowd THEN {p, u} ELSE {}) \cup {None}

(* Only the calls that begin are the scene's: nothing under way is held up. *)
InScene ==
    /\ Cardinality({o \in Ops : op'[o] # Idle}) <= scene.ops
    /\ gen' + pendingMutations' <= scene.gens
    /\ \A c \in Changes : chg[c] = Nothing /\ chg'[c] # Nothing
          => chg'[c].cmd \in scene.cmds /\ chg'[c].next \in scene.nexts
    /\ session' # session /\ signedIn' = signedIn
          => scene.early \/ mem.ready = "yes"

SceneSpec ==
    /\ SceneInit
    /\ [][Next /\ InScene /\ UNCHANGED scene]_<<vars, scene>>
    /\ \A o \in Ops : WF_vars(OpStep(o))
    /\ \A c \in Changes : WF_vars(ChangeStep(c))

(* One command at a time, with no scene's restriction. *)
StartSpec == Init /\ scene = Consent /\ [][Next /\ UNCHANGED scene]_<<vars, scene>>

(* What the user consented to stays in force: a session never outlives the   *)
(* pair it was made under, and no server in use loses its host permissions.  *)
(* Permissions are stated of the connection commands alone: the bare-server  *)
(* command takes back those of a server that is saved as a connection too.   *)
PairIsKept == SessionKeepsPair /\ (scene = Consent => PermissionsHold)
=============================================================================
