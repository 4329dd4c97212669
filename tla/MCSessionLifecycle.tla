------------------------- MODULE MCSessionLifecycle -------------------------
(* Model-checking instances of SessionLifecycle. *)
EXTENDS SessionLifecycle, TLC

Symmetry == Permutations(Ops) \cup Permutations(Accounts)

-----------------------------------------------------------------------------
(* Three instances in one run: every call of surfaces that wait for one      *)
(* another; unlocks that cross each other; and accounts that take turns.     *)
VARIABLES
    scene,
    unheard  \* tokens restored when the answer to their rotation was lost

Turns(a) == [kinds |-> Kinds, accts |-> {a}, cross |-> FALSE]
Crossing(a) ==
    [kinds |-> {"unlock", "refresh", "lock"}, accts |-> {a}, cross |-> TRUE]
Switching == [kinds |-> Kinds, accts |-> Accounts, cross |-> FALSE]

SceneInit ==
    /\ Init /\ unheard = {}
    /\ \/ scene = Switching
       \/ \E a \in Accounts : /\ scene \in {Turns(a), Crossing(a)}
                              /\ Account(env) \in {None, a}

(* Tokens and ciphertexts are told apart, but their names do not matter: the *)
(* view keeps who holds the same one, and who holds a rotated one.           *)
Nameless(x) == IF x = None THEN None
               ELSE [f \in DOMAIN x \ {"tok", "id"} |-> x[f]]
Kept == [tok |-> tokens, env |-> env, new |-> None]
HeldAt(p) == IF p[1] = None THEN Kept[p[2]] ELSE op[p[1]][p[2]]
Places(fs) == (Ops \cup {None}) \X fs
Holders(ts) ==
    {{p \in Places({"tok", "env", "new"}) : TokenOf(HeldAt(p)) = t} :
        t \in (ts \cap UsedTokens) \ {None}}
SealHolders ==
    {{p \in Places({"env", "new"}) : SealOf(HeldAt(p)) = i} : i \in UsedSeals \ {None}}

SceneView ==
    <<scene, gen, terms, keys, totp, rev, material, mutq, cleared, era, surface,
      Nameless(tokens), Nameless(env),
      [o \in Ops |-> [op[o] EXCEPT !.tok = Nameless(@), !.env = Nameless(@),
                                   !.new = Nameless(@)]],
      Holders(UsedTokens), Holders(spent), Holders(unheard), SealHolders>>

(* RefreshUnanswered: the token goes back to where it was, though rotated. *)
Unheard ==
    LET calls == {o \in Ops : op[o].at = "network" /\ op'[o].at = "restore"} IN
    unheard' = (unheard \cup {op[o].tok.tok : o \in calls}) \cap spent'

(* A call of the scene, while its bound on terminations is not reached. *)
SceneCall(o) ==
    /\ \/ \E a \in scene.accts : Login(o, a)
       \/ CompleteTotp(o) \/ Unlock(o) \/ RefreshStart(o)
       \/ Lock(o) \/ Logout(o) \/ Read(o)
    /\ gen < MaxGen
    /\ (IF op'[o] = Idle THEN "lock" ELSE op'[o].kind) \in scene.kinds
    /\ ~scene.cross /\ op'[o].kind \in {"login", "unlock"}
          => keys = None /\ Started("login") \cup Started("unlock") = {}

SceneNext ==
    \/ \E o \in Ops : Continue(o) \/ SceneCall(o)
    \/ DropTotp
    \/ "policy" \in scene.kinds /\ (SetAutoLockPolicy \/ Expire \/ Restart)

SceneSpec ==
    SceneInit /\ [][SceneNext /\ Unheard /\ UNCHANGED scene]_<<vars, scene, unheard>>

-----------------------------------------------------------------------------
(* Through rotations, their failures, locks and restarts an unlocked account *)
(* keeps tokens and a stored session, and the server still accepts them,     *)
(* unless it rotated them in an answer that was lost: the refresh then puts  *)
(* the old ones back (refresh, its markers and restores).                    *)
(* Of one account: a read begun with the tokens of another takes them away.  *)
TokensStaySound ==
    ~scene.cross /\ scene # Switching =>
        UnlockedCanAuthenticate /\ Outdated \subseteq unheard

(* What a termination ends is ended for everyone: no surface goes on showing *)
(* a session that a lock, a logout or an expiry has ended (locked events).   *)
EndingsReachEveryone == ~scene.cross => SurfacesFollow

(* While another account signs in and sessions are refreshed and ended, live *)
(* keys, tokens and stored envelope are one account's, and no envelope is    *)
(* sealed under a key that some call has wiped; where unlocks wait for one   *)
(* another (establishSession, rotateAccessToken).                            *)
OneSession == ~scene.cross => OneAccount /\ SealedUnderRealKey
=============================================================================
