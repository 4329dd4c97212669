-------------------------- MODULE SessionLifecycle --------------------------
(***************************************************************************)
(* The background worker's session: src/background/session/session-manager *)
(* and the storage it writes.  Every operation of SessionManager is a      *)
(* process that runs from one await to the next; another operation, a      *)
(* lock, a logout or a worker restart can run in between.  Key material,   *)
(* tokens and the sealed durable envelope are identities, not contents:    *)
(* what matters is which sign-in they belong to and whether they are       *)
(* still current.                                                          *)
(***************************************************************************)
EXTENDS Naturals, Sequences, FiniteSets

CONSTANTS
    Ops,        \* slots for concurrent SessionManager calls
    Accounts,   \* Identity accounts
    None,       \* absence: null in the code
    Kinds,      \* the calls the surfaces and the worker make
    Overlap,    \* may a surface submit a login or unlock while another one
                \* is in flight, or while the session is already unlocked?
    LostReplies,\* may the answer to a refresh the server performed be lost?
    MaxGen,     \* bound on lifecycle terminations of one worker instance
    MaxRev,     \* bound on auto-lock policy changes of one worker instance
    MaxEra      \* bound on how often the durable TTL passes

AllKinds == {"login", "totp", "unlock", "refresh", "lock", "logout",
             "read", "policy", "restart"}

ASSUME SessionAssumption ==
    /\ IsFiniteSet(Ops)
    /\ None \notin Ops \cup Accounts \cup Nat
    /\ Kinds \subseteq AllKinds
    /\ Overlap \in BOOLEAN
    /\ LostReplies \in BOOLEAN
    /\ MaxGen \in Nat /\ MaxRev \in Nat /\ MaxEra \in Nat

VARIABLES
    gen,      \* lifecycleGeneration
    terms,    \* lifecycleTerminations
    keys,     \* this.keys: the live key buffers and the lifecycle they joined
    tokens,   \* this.tokens
    totp,     \* this.pendingTotp
    rev,      \* policyRevision
    tracked,  \* inFlightKeyMaterial
    plain,    \* key buffers that have not been zero-filled
    mutq,     \* durableMutationTail: who holds it, then who waits for it
    op,       \* the call in each slot: where it is suspended and its locals
    env,      \* storage.local: the sealed session envelope
    cleared,  \* (auxiliary) the lifecycle whose termination last cleared env
    era,      \* how often the TTL has passed; envelopes of an older era expired
    spent,    \* (server) refresh tokens that were rotated away
    surface   \* the last session event the other extension surfaces received

memory  == <<keys, tokens, totp>>
material == <<tracked, plain>>
storage == <<env, cleared>>
world   == <<era, spent>>
vars == <<gen, terms, keys, tokens, totp, rev, tracked, plain, mutq, op,
          env, cleared, era, spent, surface>>

-----------------------------------------------------------------------------
(* Identities are drawn from pools large enough never to run out. *)

Slots   == Cardinality(Ops)
Buffers == 1 .. (2 * Slots + 3)
Refresh == 1 .. (4 * Slots + 3)      \* refresh-token identities
Seals   == 1 .. (2 * Slots + 3)      \* envelope ciphertext identities

Tokens  == [acct : Accounts, tok : Refresh]
Keys    == [acct : Accounts, buf : Buffers, gen : Nat]
Pending == [acct : Accounts, buf : Buffers, gen : Nat]
ASSUME AbsenceAssumption == None \notin Keys \cup Pending

(* An envelope: when it was issued (for expiresAt), its payload (an active   *)
(* session's refresh token, or the marker of a refresh under way), whether   *)
(* the key it was sealed under was a real one and not zero-filled, its       *)
(* ciphertext, and (auxiliary) the lifecycle that wrote it.                  *)
Payloads(states, toks) ==
    [acct : Accounts, era : Nat, state : states, tok : toks,
     sealed : BOOLEAN, id : Seals, gen : Nat]
Envelopes == Payloads({"active"}, Refresh)
               \cup Payloads({"refresh-pending"}, {None})

(* Where a call can be suspended, by the await it is suspended at. *)
LoginSteps   == {"kdf", "auth", "totp", "account", "put", "putting", "stored"}
UnlockSteps  == {"envelope", "derive", "bind", "open", "discard", "share",
                 "wait", "refreshed"}
RefreshSteps == {"rotate", "mark", "marking", "marked", "network",
                 "replace", "replacing", "replaced", "restore", "restored",
                 "closed"}
EndSteps     == {"lock", "logout", "clear", "invalidate"}
Steps == {"idle", "publish", "read"}
           \cup LoginSteps \cup UnlockSteps \cup RefreshSteps \cup EndSteps

Calls ==
    [kind : {"none", "login", "unlock", "refresh", "lock", "logout", "read"},
     at   : Steps,
     gen  : Nat,                      \* captured lifecycleGeneration
     acct : Accounts \cup {None},
     buf  : Buffers \cup {None},      \* key buffers the call holds
     tok  : Tokens \cup {None},       \* token pair the call holds
     env  : Envelopes \cup {None},    \* envelope the call has read
     new  : Envelopes \cup {None},    \* envelope the call has sealed
     rev  : Nat]                      \* captured policyRevision

Idle == [kind |-> "none", at |-> "idle", gen |-> 0, acct |-> None,
         buf |-> None, tok |-> None, env |-> None, new |-> None, rev |-> 0]

Account(x) == IF x = None THEN None ELSE x.acct
TokenOf(x) == IF x = None THEN None ELSE x.tok
BufferOf(x) == IF x = None THEN None ELSE x.buf
SealOf(x)  == IF x = None THEN None ELSE x.id

UsedBuffers == plain \cup {BufferOf(keys), BufferOf(totp)}
                     \cup {op[o].buf : o \in Ops}
UsedTokens  == {TokenOf(tokens), TokenOf(env)}
                 \cup UNION {{TokenOf(op[o].tok), TokenOf(op[o].env),
                              TokenOf(op[o].new)} : o \in Ops}
UsedSeals   == {SealOf(env)} \cup UNION {{SealOf(op[o].env), SealOf(op[o].new)}
                                          : o \in Ops}

(* The least member of a pool that nothing refers to, as a singleton. *)
Fresh(pool, used) ==
    {x \in pool \ used : \A y \in pool \ used : x <= y}

-----------------------------------------------------------------------------
(* Lifecycle generations. *)

(* Mutant: only a termination under way is noticed, not one already over. *)
CurrentWhileNoTermination(g) == terms = 0
Current(g) == terms = 0 /\ g = gen           \* isLifecycleCurrent
Alive(o)   == Current(op[o].gen)             \* assertLifecycleGeneration
Started(k) == {o \in Ops : op[o].kind = k}

(* refreshInFlight: a refresh, or the refresh nested in an unlock. *)
Refreshing == \E o \in Ops : op[o].at \in RefreshSteps

Expired(e) == e # None /\ e.era < era

Go(o, c)   == op' = [op EXCEPT ![o] = c]
At(o, s)   == Go(o, [op[o] EXCEPT !.at = s])
End(o)     == Go(o, Idle)

Forget(bs)  == plain' = plain \ bs
Untrack(bs) == tracked' = tracked \ bs

(* A call gives up: its buffers are zero-filled and no longer tracked. *)
GiveUp(o) ==
    /\ End(o)
    /\ Forget({op[o].buf})
    /\ Untrack({op[o].buf})

(* Mutants: a termination forgets the in-flight buffers, or the challenge. *)
WipedLiveOnly == {BufferOf(keys), BufferOf(totp)}
ChallengeKept == totp' = totp

WipedMaterial == tracked \cup {BufferOf(keys), BufferOf(totp)}
ClearPendingTotp == totp' = None

(* beginLifecycleTermination followed by wipeKeys. *)
Terminate(n) ==
    /\ gen' = gen + 1
    /\ terms' = terms + n
    /\ ClearPendingTotp
    /\ keys' = None
    /\ Forget(WipedMaterial)
    /\ tracked' = {}

(* Mutant: endLifecycleTermination runs twice. *)
EndTwice == terms' = terms - 2
EndTermination == terms' = terms - 1

(* The refresh of call o is over: o ends, or goes on if it is an unlock that *)
(* refreshes with its own keys, and so does every unlock waiting for it.     *)
Settle(o) ==
    op' = [p \in Ops |->
             IF op[p].at = "wait" \/ (p = o /\ op[p].kind = "unlock")
             THEN [op[p] EXCEPT !.at = "refreshed", !.tok = None, !.env = None,
                                !.new = None]
             ELSE IF p = o THEN Idle ELSE op[p]]

(* runDurableMutation: a turn on the promise chain. *)
Enqueue(o) == mutq' = Append(mutq, o)
(* Mutant: durable mutations are not serialised. *)
AnyTurn(o) == mutq # <<>>
HasTurn(o) == mutq # <<>> /\ Head(mutq) = o
Release    == mutq' = Tail(mutq)

(* A read of the envelope finds it expired: invalidateBoundSession starts *)
(* and the call is suspended in its clearAll.                              *)
Invalidate(o) ==
    /\ Expired(env)
    /\ Terminate(1)
    /\ tokens' = None
    /\ Enqueue(o)
    /\ At(o, "invalidate")
    /\ UNCHANGED <<rev, storage, world, surface>>

(* The clearAll of invalidateBoundSession has run; the call resumes with "no *)
(* session": a lock or logout reads again; an unlock that had derived its    *)
(* keys falls back to the envelope it read; a refresh, or the refresh of an  *)
(* unlock, is over, and an unlock after its refresh goes on without tokens;  *)
(* every other call ends.                                                    *)
Invalidated(o) ==
    /\ op[o].at = "invalidate" /\ HasTurn(o)
    /\ Release
    /\ env' = None /\ cleared' = gen
    /\ surface' = "locked"
    /\ EndTermination
    /\ \/ /\ op[o].kind \in {"lock", "logout"}
          /\ At(o, op[o].kind)
       \/ /\ op[o].kind = "unlock" /\ op[o].env # None
          /\ At(o, "open")
       \/ /\ op[o].kind \in {"unlock", "refresh"}
          /\ op[o].env = None /\ op[o].tok # None
          /\ Settle(o)
       \/ /\ op[o].kind = "unlock"
          /\ op[o].env = None /\ op[o].tok = None /\ op[o].buf # None
          /\ At(o, "refreshed")
       \/ /\ op[o].kind = "read" \/ (op[o].kind = "unlock" /\ op[o].buf = None)
          /\ End(o)
    /\ UNCHANGED <<gen, keys, tokens, totp, rev, material, world>>

-----------------------------------------------------------------------------
(* Which calls may be submitted. *)

(* A free slot for a call of kind k; no call starts once the bound on       *)
(* terminations is reached, and none is accepted while one is under way.    *)
Slot(o, k) ==
    /\ k \in Kinds
    /\ op[o] = Idle
    /\ gen < MaxGen

Unattended ==
    Overlap \/ (keys = None /\ Started("login") \cup Started("unlock") = {})

-----------------------------------------------------------------------------
(* login, completeTotp and establishSession. *)

(* beginManualLogin and the synchronous start of performLogin. *)
Login(o, a) ==
    /\ Slot(o, "login") /\ Unattended
    /\ Started("login") = {}
    /\ terms = 0
    /\ ClearPendingTotp
    /\ Forget({BufferOf(totp)})
    /\ Go(o, [Idle EXCEPT !.kind = "login", !.at = "kdf", !.gen = gen,
                          !.acct = a])
    /\ UNCHANGED <<gen, terms, keys, tokens, rev, tracked, mutq, storage,
                   world, surface>>

(* fetchLoginKdf and deriveIdentityV1: the derived buffers are tracked. *)
LoginKdf(o) ==
    /\ op[o].at = "kdf"
    /\ \/ /\ Alive(o)
          /\ \E b \in Fresh(Buffers, UsedBuffers) :
               /\ plain' = plain \cup {b}
               /\ tracked' = tracked \cup {b}
               /\ Go(o, [op[o] EXCEPT !.at = "auth", !.buf = b])
       \/ /\ End(o)
          /\ UNCHANGED material
    /\ UNCHANGED <<gen, terms, memory, rev, mutq, storage, world, surface>>

(* authClient.login: refused, a second factor is needed, or signed in. *)
LoginAuth(o) ==
    /\ op[o].at = "auth"
    /\ \/ /\ GiveUp(o)
          /\ UNCHANGED totp
       \/ /\ Alive(o)
          /\ totp' = [acct |-> op[o].acct, buf |-> op[o].buf, gen |-> op[o].gen]
          /\ Untrack({op[o].buf})
          /\ End(o)
          /\ UNCHANGED plain
       \/ /\ Alive(o)
          /\ \E t \in Fresh(Refresh, UsedTokens) :
               Go(o, [op[o] EXCEPT !.at = "account",
                                   !.tok = [acct |-> op[o].acct, tok |-> t]])
          /\ UNCHANGED <<totp, material>>
    /\ spent' = spent \cap UsedTokens
    /\ UNCHANGED <<gen, terms, keys, tokens, rev, mutq, storage, era, surface>>

(* completeTotp: the factor is sent for the pending challenge. *)
CompleteTotp(o) ==
    /\ Slot(o, "totp") /\ Unattended
    /\ Started("login") = {}
    /\ totp # None /\ Current(totp.gen)
    /\ Go(o, [Idle EXCEPT !.kind = "login", !.at = "totp", !.gen = gen,
                          !.acct = totp.acct, !.buf = totp.buf])
    /\ UNCHANGED <<gen, terms, memory, rev, material, mutq, storage, world,
                   surface>>

(* totpLogin: refused and the challenge stays, or answered for a challenge *)
(* that is still the pending one.                                          *)
TotpVerified(o) ==
    /\ op[o].at = "totp"
    /\ \/ /\ End(o)
          /\ UNCHANGED <<totp, tracked>>
       \/ /\ Alive(o)
          /\ BufferOf(totp) = op[o].buf
          /\ totp' = None
          /\ tracked' = tracked \cup {op[o].buf}
          /\ \E t \in Fresh(Refresh, UsedTokens) :
               Go(o, [op[o] EXCEPT !.at = "account",
                                   !.tok = [acct |-> op[o].acct, tok |-> t]])
    /\ spent' = spent \cap UsedTokens
    /\ UNCHANGED <<gen, terms, keys, tokens, rev, plain, mutq, storage, era,
                   surface>>

(* cancelTotp, a factor for another challenge, or the challenge's timer. *)
DropTotp ==
    /\ totp # None
    /\ Forget({totp.buf})
    /\ totp' = None
    /\ UNCHANGED <<gen, terms, keys, tokens, rev, tracked, mutq, op, storage,
                   world, surface>>

(* getAccount and the private key: the envelope is sealed and queued. *)
OpenAccount(o) ==
    /\ op[o].at = "account"
    /\ \/ /\ GiveUp(o)
          /\ UNCHANGED mutq
       \/ /\ Alive(o)
          /\ \E i \in Fresh(Seals, UsedSeals) :
               Go(o, [op[o] EXCEPT !.at = "put",
                        !.new = [acct |-> op[o].acct, era |-> era,
                                 state |-> "active", tok |-> op[o].tok.tok,
                                 sealed |-> op[o].buf \in plain, id |-> i,
                                 gen |-> op[o].gen]])
          /\ Enqueue(o)
          /\ UNCHANGED material
    /\ UNCHANGED <<gen, terms, memory, rev, storage, world, surface>>

(* setSealedSessionForGeneration, in three parts: with its turn on the queue *)
(* the call asserts its generation and starts the write; the write lands;    *)
(* the call resumes, gives up its turn and asserts the generation again.     *)
StartWrite(o, from, to) ==
    /\ op[o].at = from /\ HasTurn(o) /\ Alive(o)
    /\ At(o, to)
    /\ UNCHANGED <<gen, terms, memory, rev, material, mutq, storage, world,
                   surface>>

Write(o, from, to) ==
    /\ op[o].at = from
    /\ env' = op[o].new
    /\ At(o, to)
    /\ UNCHANGED <<gen, terms, memory, rev, material, mutq, cleared, world,
                   surface>>

PutSession(o)     == StartWrite(o, "put", "putting")
SessionWritten(o) == Write(o, "putting", "stored")

(* The login cannot go on: its generation ended before or during the write. *)
LoginSuperseded(o) ==
    /\ op[o].at \in {"put", "stored"} /\ HasTurn(o) /\ ~Alive(o)
    /\ Release
    /\ GiveUp(o)
    /\ UNCHANGED <<gen, terms, memory, rev, storage, world, surface>>

(* The write is confirmed; prepareOwnSharing runs; tokens are published and *)
(* setUnlocked captures the policy revision.                                *)
LoginStored(o) ==
    /\ op[o].at = "stored" /\ HasTurn(o) /\ Alive(o)
    /\ Release
    /\ Go(o, [op[o] EXCEPT !.at = "share", !.new = None])
    /\ UNCHANGED <<gen, terms, memory, rev, material, storage, world, surface>>

(* Mutant: tokens already in memory are kept. *)
TokensKept(o) == IF tokens = None THEN op[o].tok ELSE tokens
LoginTokens(o) == op[o].tok

LoginShared(o) ==
    /\ op[o].at = "share" /\ op[o].kind = "login"
    /\ \/ /\ Alive(o)
          /\ tokens' = LoginTokens(o)
          /\ Go(o, [op[o] EXCEPT !.at = "publish", !.rev = rev, !.tok = None])
          /\ UNCHANGED material
       \/ /\ ~Alive(o)
          /\ GiveUp(o)
          /\ UNCHANGED tokens
    /\ UNCHANGED <<gen, terms, keys, totp, rev, mutq, storage, world, surface>>

(* setUnlocked after its auto-lock reads and write: publish the keys, or wipe *)
(* them if the lifecycle or the policy moved meanwhile.                       *)
Publish(o) ==
    /\ op[o].at = "publish" /\ Alive(o) /\ op[o].rev = rev
    /\ keys' = [acct |-> op[o].acct, buf |-> op[o].buf, gen |-> op[o].gen]
    /\ Forget({BufferOf(keys)})
    /\ Untrack({op[o].buf})
    /\ surface' = "unlocked"
    /\ End(o)
    /\ UNCHANGED <<gen, terms, tokens, totp, rev, mutq, storage, world>>

PublishRefused(o) ==
    /\ op[o].at = "publish" /\ ~(Alive(o) /\ op[o].rev = rev)
    /\ GiveUp(o)
    /\ UNCHANGED <<gen, terms, memory, rev, mutq, storage, world, surface>>

-----------------------------------------------------------------------------
(* unlock: performUnlock. *)

Unlock(o) ==
    /\ Slot(o, "unlock") /\ Unattended
    /\ terms = 0
    /\ Go(o, [Idle EXCEPT !.kind = "unlock", !.at = "envelope", !.gen = gen])
    /\ UNCHANGED <<gen, terms, memory, rev, material, mutq, storage, world,
                   surface>>

(* getBoundEnvelope. *)
UnlockRead(o) ==
    /\ op[o].at = "envelope"
    /\ \/ Invalidate(o)
       \/ /\ ~Expired(env) /\ (env = None \/ ~Alive(o))
          /\ End(o)
          /\ UNCHANGED <<gen, terms, memory, rev, material, mutq, storage,
                         world, surface>>
       \/ /\ env # None /\ ~Expired(env) /\ Alive(o)
          /\ Go(o, [op[o] EXCEPT !.at = "derive", !.env = env,
                                 !.acct = env.acct])
          /\ UNCHANGED <<gen, terms, memory, rev, material, mutq, storage,
                         world, surface>>

(* source.deriveKeys: a wrong password, or keys that are tracked; then the *)
(* tokens in memory are captured, to be compared with the envelope.        *)
UnlockDerive(o) ==
    /\ op[o].at = "derive"
    /\ \/ /\ End(o)
          /\ UNCHANGED material
       \/ /\ Alive(o)
          /\ \E b \in Fresh(Buffers, UsedBuffers) :
               /\ plain' = plain \cup {b}
               /\ tracked' = tracked \cup {b}
               /\ Go(o, [op[o] EXCEPT
                           !.at = IF tokens = None THEN "open" ELSE "bind",
                           !.buf = b, !.tok = tokens])
    /\ UNCHANGED <<gen, terms, memory, rev, mutq, storage, world, surface>>

(* The tokens t are adopted for the unlock, unless the generation has moved *)
(* or they are not the account's whose envelope was opened.                 *)
Adopt(o, t) ==
    \/ /\ Alive(o) /\ t.acct = op[o].acct
       /\ tokens' = t
       /\ Go(o, [op[o] EXCEPT !.at = "share", !.tok = None, !.env = None])
       /\ UNCHANGED material
    \/ /\ ~(Alive(o) /\ t.acct = op[o].acct)
       /\ GiveUp(o)
       /\ UNCHANGED tokens

(* getBoundMemoryTokens: captured tokens t count only while the stored      *)
(* envelope is their account's.                                             *)
Bound(t) == t # None /\ env # None /\ t.acct = env.acct

UnlockBind(o) ==
    /\ op[o].at = "bind"
    /\ \/ Invalidate(o)
       \/ /\ Bound(op[o].tok) /\ ~Expired(env)
          /\ Adopt(o, op[o].tok)
          /\ UNCHANGED <<gen, terms, keys, totp, rev, mutq, storage, world,
                         surface>>
       \/ /\ ~Bound(op[o].tok) /\ ~Expired(env)
          /\ tokens' = None
          /\ At(o, "open")
          /\ UNCHANGED <<gen, terms, keys, totp, rev, material, mutq, storage,
                         world, surface>>

(* openDurablePayload on the envelope read at the start.  Any failure wipes *)
(* the derived keys and queues the removal of that envelope.                *)
(* Mutant: the payload's state is not looked at. *)
OpensAnyState(o) ==
    /\ op[o].env.sealed /\ op[o].buf \in plain
    /\ ~Expired(op[o].env) /\ Alive(o)

Opens(o) ==
    /\ op[o].env.sealed /\ op[o].env.state = "active"
    /\ op[o].buf \in plain
    /\ ~Expired(op[o].env) /\ Alive(o)

UnlockOpen(o) ==
    /\ op[o].at = "open"
    /\ \/ /\ Opens(o)
          /\ Adopt(o, [acct |-> op[o].env.acct, tok |-> op[o].env.tok])
          /\ UNCHANGED mutq
       \/ /\ ~Opens(o)
          /\ Forget({op[o].buf})
          /\ Enqueue(o)
          /\ At(o, "discard")
          /\ UNCHANGED <<tokens, tracked>>
    /\ UNCHANGED <<gen, terms, keys, totp, rev, storage, world, surface>>

(* clearSealedSessionForGeneration, then this.tokens = null. *)
UnlockDiscard(o) ==
    /\ op[o].at = "discard" /\ HasTurn(o)
    /\ Release
    /\ env' = IF Alive(o) /\ SealOf(env) = op[o].env.id THEN None ELSE env
    /\ tokens' = None
    /\ Untrack({op[o].buf})
    /\ End(o)
    /\ UNCHANGED <<gen, terms, keys, totp, rev, plain, cleared, world, surface>>

(* Preparing to share the unlock: it is skipped or done, or the account read *)
(* is refused and the tokens are rotated with the unlock's own keys first.   *)
UnlockShared(o) ==
    /\ op[o].at = "share" /\ op[o].kind = "unlock"
    /\ \/ /\ Alive(o)
          /\ Go(o, [op[o] EXCEPT !.at = "publish", !.rev = rev])
          /\ UNCHANGED material
       \/ /\ ~Alive(o)
          /\ GiveUp(o)
       \/ /\ "refresh" \in Kinds /\ Alive(o)
          /\ Go(o, [op[o] EXCEPT !.at = IF Refreshing THEN "wait" ELSE "rotate",
                                 !.tok = tokens])
          /\ UNCHANGED material
    /\ UNCHANGED <<gen, terms, memory, rev, mutq, storage, world, surface>>

(* The rotation is over, whatever its outcome; getBoundMemoryTokens again. *)
UnlockRefreshed(o) ==
    /\ op[o].at = "refreshed"
    /\ \/ /\ tokens # None
          /\ Invalidate(o)
       \/ /\ Alive(o)
          /\ tokens = None \/ ~Expired(env)
          /\ tokens' = IF Bound(tokens) THEN tokens ELSE None
          /\ Go(o, [op[o] EXCEPT !.at = "publish", !.rev = rev])
          /\ UNCHANGED <<gen, terms, keys, totp, rev, material, mutq, storage,
                         world, surface>>
       \/ /\ ~Alive(o)
          /\ GiveUp(o)
          /\ UNCHANGED <<gen, terms, memory, rev, mutq, storage, world, surface>>

-----------------------------------------------------------------------------
(* refreshAccessToken: rotateAccessToken, one at a time.  It captures the *)
(* live key buffers and the tokens.                                       *)

RefreshStart(o) ==
    /\ Slot(o, "refresh")
    /\ terms = 0 /\ ~Refreshing
    /\ tokens # None
    /\ Go(o, [Idle EXCEPT !.kind = "refresh", !.at = "rotate", !.gen = gen,
                          !.buf = BufferOf(keys), !.tok = tokens])
    /\ UNCHANGED <<gen, terms, memory, rev, material, mutq, storage, world,
                   surface>>

(* An envelope of the session e, sealed by the call with its key buffers. *)
Sealed(o, e, state, t, i) ==
    [e EXCEPT !.state = state, !.tok = t, !.id = i, !.gen = op[o].gen,
              !.sealed = op[o].buf \in plain]

(* Mutant: what is stored before the server is asked is not a marker. *)
NoMarker(o, i) == Sealed(o, env, "active", env.tok, i)
Marker(o, i) == Sealed(o, env, "refresh-pending", None, i)

(* Tokens and envelope are read; the pending marker is sealed and queued. *)
RefreshRead(o) ==
    /\ op[o].at = "rotate"
    /\ \/ /\ op[o].tok # None
          /\ Invalidate(o)
       \/ /\ op[o].tok = None \/ ~Expired(env)
          /\ \/ /\ Bound(op[o].tok) /\ Alive(o) /\ op[o].buf # None
                /\ \E i \in Fresh(Seals, UsedSeals) :
                     Go(o, [op[o] EXCEPT !.at = "mark", !.env = env,
                                         !.new = Marker(o, i)])
                /\ Enqueue(o)
                /\ UNCHANGED tokens
             \/ /\ Bound(op[o].tok) /\ ~(Alive(o) /\ op[o].buf # None)
                /\ Settle(o)
                /\ UNCHANGED <<tokens, mutq>>
             \/ /\ ~Bound(op[o].tok)
                /\ tokens' = IF op[o].tok = None THEN tokens ELSE None
                /\ Settle(o)
                /\ UNCHANGED mutq
          /\ UNCHANGED <<gen, terms, keys, totp, rev, material, storage, world,
                         surface>>

PutMarker(o)     == StartWrite(o, "mark", "marking")
MarkerWritten(o) == Write(o, "marking", "marked")

(* Mutant: the turn on the queue is kept. *)
SupersededKeepsTurn(o) ==
    /\ op[o].at \in {"mark", "marked", "replace", "replaced", "restore",
                     "restored"}
    /\ HasTurn(o) /\ ~Alive(o)
    /\ Settle(o)
    /\ UNCHANGED <<gen, terms, memory, rev, material, mutq, storage, world,
                   surface>>

(* A write of the refresh finds its generation over. *)
RefreshSuperseded(o) ==
    /\ op[o].at \in {"mark", "marked", "replace", "replaced", "restore",
                     "restored"}
    /\ HasTurn(o) /\ ~Alive(o)
    /\ Release
    /\ Settle(o)
    /\ UNCHANGED <<gen, terms, memory, rev, material, storage, world, surface>>

(* Mutant: the old tokens stay in memory while the server rotates them. *)
TokensStay == tokens' = tokens
DropTokens == tokens' = None

RefreshMarked(o) ==
    /\ op[o].at = "marked" /\ HasTurn(o) /\ Alive(o)
    /\ Release
    /\ DropTokens
    /\ At(o, "network")
    /\ UNCHANGED <<gen, terms, keys, totp, rev, material, storage, world,
                   surface>>

(* The durable session cannot be proven current: terminate and clear it. *)
FailClosed(o) ==
    /\ Terminate(1)
    /\ tokens' = None
    /\ At(o, "closed")

(* authClient.refresh: the server rotates the token and answers. *)
Rotated(o) ==
    /\ op[o].at = "network"
    /\ op[o].tok.tok \notin spent
    /\ spent' = (spent \cap UsedTokens) \cup {op[o].tok.tok}
    /\ \/ /\ Alive(o)
          /\ \E t \in Fresh(Refresh, UsedTokens), i \in Fresh(Seals, UsedSeals) :
               Go(o, [op[o] EXCEPT !.at = "replace", !.tok.tok = t,
                        !.new = Sealed(o, op[o].env, "active", t, i)])
          /\ Enqueue(o)
       \/ /\ ~Alive(o)
          /\ Settle(o)
          /\ UNCHANGED mutq
    /\ UNCHANGED <<gen, terms, memory, rev, material, storage, era, surface>>

(* No answer, or 429: the old session is to be restored.  A lost answer means *)
(* the server did rotate.                                                     *)
RefreshUnanswered(o) ==
    /\ op[o].at = "network"
    /\ spent' \in {spent} \cup (IF LostReplies THEN {spent \cup {op[o].tok.tok}}
                                               ELSE {})
    /\ \/ /\ Alive(o)
          /\ Enqueue(o)
          /\ At(o, "restore")
       \/ /\ ~Alive(o)
          /\ Settle(o)
          /\ UNCHANGED mutq
    /\ UNCHANGED <<gen, terms, memory, rev, material, storage, era, surface>>

(* The server refuses the token. *)
RefreshRefused(o) ==
    /\ op[o].at = "network"
    /\ \/ /\ Alive(o)
          /\ FailClosed(o)
          /\ Enqueue(o)
       \/ /\ ~Alive(o)
          /\ Settle(o)
          /\ UNCHANGED <<gen, terms, memory, material, mutq>>
    /\ UNCHANGED <<rev, storage, world, surface>>

PutReplacement(o)     == StartWrite(o, "replace", "replacing")
ReplacementWritten(o) == Write(o, "replacing", "replaced")

RefreshReplaced(o) ==
    /\ op[o].at = "replaced" /\ HasTurn(o) /\ Alive(o)
    /\ Release
    /\ tokens' = op[o].tok
    /\ Settle(o)
    /\ UNCHANGED <<gen, terms, keys, totp, rev, material, storage, world,
                   surface>>

(* restoreSealedSessionIfMatches: the marker is still stored, or not. *)
RefreshRestore(o) ==
    /\ op[o].at = "restore" /\ HasTurn(o) /\ Alive(o)
    /\ \/ /\ SealOf(env) = op[o].new.id
          /\ env' = op[o].env
          /\ At(o, "restored")
          /\ UNCHANGED <<gen, terms, memory, material, mutq>>
       \/ /\ SealOf(env) # op[o].new.id
          /\ FailClosed(o)
          /\ mutq' = Append(Tail(mutq), o)
          /\ UNCHANGED env
    /\ UNCHANGED <<rev, cleared, world, surface>>

(* Mutant: the envelope comes back, the tokens do not. *)
TokensNotRestored(o) == tokens' = None
RestoreTokens(o) == tokens' = op[o].tok

RefreshRestored(o) ==
    /\ op[o].at = "restored" /\ HasTurn(o) /\ Alive(o)
    /\ Release
    /\ RestoreTokens(o)
    /\ Settle(o)
    /\ UNCHANGED <<gen, terms, keys, totp, rev, material, storage, world,
                   surface>>

RefreshClosed(o) ==
    /\ op[o].at = "closed" /\ HasTurn(o)
    /\ Release
    /\ env' = None /\ cleared' = gen
    /\ surface' = "locked"
    /\ EndTermination
    /\ Settle(o)
    /\ UNCHANGED <<gen, memory, rev, material, world>>

-----------------------------------------------------------------------------
(* lock and logout: everything synchronous happens before the first await. *)

(* A lock that finds no keys and is not the user's own ends at once. *)
Lock(o) ==
    /\ Slot(o, "lock")
    /\ \/ /\ Terminate(1)
          /\ Go(o, [Idle EXCEPT !.kind = "lock", !.at = "lock"])
       \/ /\ keys = None
          /\ Terminate(0)
          /\ UNCHANGED op
    /\ UNCHANGED <<tokens, rev, mutq, storage, world, surface>>

(* Mutant: the account is taken from the tokens in memory only. *)
TokenUser == Account(tokens)

(* Whose lock it is: the bound tokens' account, else the envelope's. *)
LockUser == IF Bound(tokens) THEN tokens.acct ELSE Account(env)

LockRead(o) ==
    /\ op[o].at = "lock"
    /\ \/ Invalidate(o)
       \/ /\ ~Expired(env)
          /\ tokens' = IF Bound(tokens) THEN tokens ELSE None
          /\ surface' = IF LockUser = None THEN surface ELSE "locked"
          /\ EndTermination
          /\ End(o)
          /\ UNCHANGED <<gen, keys, totp, rev, material, mutq, storage, world>>

Logout(o) ==
    /\ Slot(o, "logout")
    /\ Terminate(1)
    /\ Go(o, [Idle EXCEPT !.kind = "logout", !.at = "logout"])
    /\ UNCHANGED <<tokens, rev, mutq, storage, world, surface>>

(* The account is read; a manual logout drops its tokens already here. *)
LogoutRead(o) ==
    /\ op[o].at = "logout"
    /\ \/ Invalidate(o)
       \/ /\ ~Expired(env)
          /\ tokens' \in {None, IF Bound(tokens) THEN tokens ELSE None}
          /\ Enqueue(o)
          /\ Go(o, [op[o] EXCEPT !.at = "clear", !.acct = Account(env)])
          /\ UNCHANGED <<gen, terms, keys, totp, rev, material, storage, world,
                         surface>>

LogoutClear(o) ==
    /\ op[o].at = "clear" /\ HasTurn(o)
    /\ Release
    /\ env' = None /\ cleared' = gen
    /\ tokens' = None
    /\ surface' = IF op[o].acct = None THEN surface ELSE "locked"
    /\ EndTermination
    /\ End(o)
    /\ UNCHANGED <<gen, keys, totp, rev, material, world>>

-----------------------------------------------------------------------------
(* getStatus, getUserId, getAccessToken: the tokens are captured, then the *)
(* envelope is read and compared with them.                                *)

Read(o) ==
    /\ Slot(o, "read")
    /\ Go(o, [Idle EXCEPT !.kind = "read", !.at = "read", !.tok = tokens])
    /\ UNCHANGED <<gen, terms, memory, rev, material, mutq, storage, world,
                   surface>>

ReadDone(o) ==
    /\ op[o].at = "read"
    /\ \/ Invalidate(o)
       \/ /\ ~Expired(env)
          /\ tokens' = IF op[o].tok = None \/ Bound(op[o].tok) THEN tokens
                                                               ELSE None
          /\ End(o)
          /\ UNCHANGED <<gen, terms, keys, totp, rev, material, mutq, storage,
                         world, surface>>

SetAutoLockPolicy ==
    /\ "policy" \in Kinds /\ rev < MaxRev
    /\ rev' = rev + 1
    /\ UNCHANGED <<gen, terms, memory, material, mutq, op, storage, world,
                   surface>>

(* Time passes every expiry of the envelopes issued so far. *)
Expire ==
    /\ era < MaxEra
    /\ era' = era + 1
    /\ UNCHANGED <<gen, terms, memory, rev, material, mutq, op, storage, spent,
                   surface>>

(* The browser ends the worker and starts another: only storage survives. *)
Restart ==
    /\ "restart" \in Kinds
    /\ gen' = 0 /\ terms' = 0 /\ rev' = 0 /\ cleared' = 0
    /\ keys' = None /\ tokens' = None /\ totp' = None
    /\ tracked' = {} /\ plain' = {}
    /\ mutq' = <<>>
    /\ op' = [o \in Ops |-> Idle]
    /\ env' = IF env = None THEN None ELSE [env EXCEPT !.gen = 0]
    /\ spent' = spent \cap {TokenOf(env)}
    /\ surface' = "locked"
    /\ UNCHANGED era

-----------------------------------------------------------------------------

(* A session that an earlier worker stored. *)
Remembered == [acct : Accounts, era : {0}, state : {"active"}, tok : {1},
               sealed : {TRUE}, id : {1}, gen : {0}]

Init ==
    /\ gen = 0 /\ terms = 0 /\ rev = 0 /\ cleared = 0
    /\ keys = None /\ tokens = None /\ totp = None
    /\ tracked = {} /\ plain = {}
    /\ mutq = <<>>
    /\ op = [o \in Ops |-> Idle]
    /\ env \in {None} \cup Remembered
    /\ era = 0 /\ spent = {}
    /\ surface = "locked"

LoginStep(o) ==
    \/ LoginKdf(o) \/ LoginAuth(o) \/ TotpVerified(o) \/ OpenAccount(o)
    \/ PutSession(o) \/ SessionWritten(o) \/ LoginSuperseded(o)
    \/ LoginStored(o) \/ LoginShared(o)

UnlockStep(o) ==
    \/ UnlockRead(o) \/ UnlockDerive(o) \/ UnlockBind(o) \/ UnlockOpen(o)
    \/ UnlockDiscard(o) \/ UnlockShared(o) \/ UnlockRefreshed(o)

RefreshStep(o) ==
    \/ RefreshRead(o) \/ PutMarker(o) \/ MarkerWritten(o)
    \/ RefreshSuperseded(o) \/ RefreshMarked(o) \/ Rotated(o)
    \/ RefreshUnanswered(o) \/ RefreshRefused(o) \/ PutReplacement(o)
    \/ ReplacementWritten(o) \/ RefreshReplaced(o) \/ RefreshRestore(o)
    \/ RefreshRestored(o) \/ RefreshClosed(o)

EndStep(o) ==
    \/ Invalidated(o) \/ LockRead(o) \/ LogoutRead(o) \/ LogoutClear(o)

(* The continuation of a call that is under way. *)
Continue(o) ==
    \/ LoginStep(o) \/ UnlockStep(o) \/ RefreshStep(o) \/ EndStep(o)
    \/ Publish(o) \/ PublishRefused(o) \/ ReadDone(o)

(* A new call. *)
Call(o) ==
    \/ \E a \in Accounts : Login(o, a)
    \/ CompleteTotp(o) \/ Unlock(o) \/ RefreshStart(o)
    \/ Lock(o) \/ Logout(o) \/ Read(o)

Next ==
    \/ \E o \in Ops : Continue(o) \/ Call(o)
    \/ DropTotp \/ SetAutoLockPolicy \/ Expire \/ Restart

Spec == Init /\ [][Next]_vars

(* Every await settles: the platform answers storage and crypto calls, a    *)
(* request to the server is answered or fails (AuthClient sets it no        *)
(* deadline of its own), and the TOTP timer fires.                          *)
FairSpec == Spec /\ WF_vars(DropTotp) /\ \A o \in Ops : WF_vars(Continue(o))

-----------------------------------------------------------------------------
(* Properties. *)

(* What a suspended call holds, by the step it is suspended at: a call never *)
(* resumes without the account, buffers, tokens or envelope its next step    *)
(* uses.                                                                     *)
Kind(c) ==
    CASE c.at \in LoginSteps -> c.kind = "login"
      [] c.at \in {"share", "publish"} -> c.kind \in {"login", "unlock"}
      [] c.at \in UnlockSteps \ {"share"} -> c.kind = "unlock"
      [] c.at \in RefreshSteps -> c.kind \in {"refresh", "unlock"}
      [] c.at = "invalidate" ->
             c.kind \in {"unlock", "refresh", "lock", "logout", "read"}
      [] c.at = "clear" -> c.kind = "logout"
      [] c.at \in {"lock", "logout", "read"} -> c.kind = c.at
      [] OTHER -> c.kind = "none"

Rotating == RefreshSteps \ {"rotate", "closed"}

Holds(c) ==
    /\ c.at \in (LoginSteps \cup UnlockSteps \cup {"publish"}) \ {"envelope"}
         => c.acct \in Accounts
    /\ c.at \in (LoginSteps \cup UnlockSteps \cup Rotating \cup {"publish"})
                  \ {"kdf", "envelope", "derive"}
         => c.buf \in Buffers
    /\ c.kind = "unlock" /\ c.at \in RefreshSteps
         => c.acct \in Accounts /\ c.buf \in Buffers
    /\ c.at = "invalidate" /\ c.kind = "unlock"
         => \/ c.acct \in Accounts /\ c.buf \in Buffers
            \/ c.buf = None /\ c.env = None /\ c.tok = None
    /\ c.at = "envelope" => c.buf = None /\ c.env = None /\ c.tok = None
    /\ c.at \in {"account", "put", "putting", "stored"} \cup Rotating
         => c.tok \in Tokens
    /\ c.at = "share" /\ c.kind = "login" => c.tok \in Tokens
    /\ c.at \in {"derive", "bind", "open", "discard"} \cup Rotating
         => c.env \in Envelopes
    /\ c.at \in {"put", "putting", "stored"} \cup Rotating
         => c.new \in Envelopes

Fits(c) == c \in Calls /\ Kind(c) /\ Holds(c)

(* Every variable has its type, and every call what its step depends on. *)
TypeOK ==
    /\ gen \in Nat /\ terms \in Nat /\ rev \in Nat
    /\ keys \in Keys \cup {None}
    /\ tokens \in Tokens \cup {None}
    /\ totp \in Pending \cup {None}
    /\ tracked \subseteq Buffers /\ plain \subseteq Buffers
    /\ mutq \in Seq(Ops)
    /\ op \in [Ops -> Calls] /\ \A o \in Ops : Fits(op[o])
    /\ env \in Envelopes \cup {None}
    /\ cleared \in Nat /\ era \in Nat
    /\ spent \subseteq Refresh
    /\ surface \in {"locked", "unlocked"}

(* The counter of terminations under way counts exactly the calls that owe   *)
(* one an end: if it leaked, no later unlock could ever publish; if it fell  *)
(* short, an unlock could publish in the middle of a logout.                 *)
Owed(c) ==
    (IF c.kind \in {"lock", "logout"} \/ c.at = "closed" THEN {"own"} ELSE {})
      \cup (IF c.at = "invalidate" THEN {"read"} ELSE {})
Debts == {d \in Ops \X {"own", "read"} : d[2] \in Owed(op[d[1]])}
TerminationsBalanced == terms = Cardinality(Debts)

(* Live keys belong to the current lifecycle: a lock, logout, expiry or     *)
(* failed rotation that began after an unlock or login started can never be *)
(* followed by that call publishing its keys.                               *)
KeysAreCurrent ==
    keys # None => terms = 0 /\ keys.gen = gen

(* A pending second factor ends with the lifecycle that began it. *)
TotpIsCurrent ==
    totp # None => terms = 0 /\ totp.gen = gen

(* No derived key buffer outlives its owner: an unwiped buffer is live, or   *)
(* waits for a second factor, or belongs to a call of the current lifecycle. *)
NoStrayKeyMaterial ==
    \A b \in plain :
        \/ b = BufferOf(keys) \/ b = BufferOf(totp)
        \/ \E o \in Ops : op[o].buf = b /\ op[o].kind \in {"login", "unlock"}
                                        /\ Alive(o)

(* The live key buffers are not the ones some failing call wiped. *)
LiveKeysIntact == keys # None => keys.buf \in plain

(* Key material is wiped exactly when nothing may use it any more. *)
MaterialIsOwned == NoStrayKeyMaterial /\ LiveKeysIntact

(* Whatever is in storage was written under a real key. *)
SealedUnderRealKey == env # None => env.sealed

(* Once a termination has cleared the session, nothing a call of an earlier *)
(* lifecycle still had in flight puts an envelope back.                     *)
ClearedStaysCleared == env # None => env.gen >= cleared

(* Other surfaces are never left showing an unlocked session. *)
SurfacesFollow ==
    /\ keys # None => surface = "unlocked"
    /\ keys = None /\ terms = 0 => surface = "locked"

Quiescent == \A o \in Ops : op[o] = Idle

(* Between calls, an unlocked session can authenticate: it has tokens, and a *)
(* stored session that survives the worker.                                  *)
UnlockedCanAuthenticate ==
    Quiescent /\ keys # None => tokens # None /\ env # None

(* While unlocked, keys, tokens and stored envelope are one account's. *)
OneAccount ==
    keys # None => /\ Account(tokens) \in {None, keys.acct}
                   /\ Account(env) \in {None, keys.acct}

(* Tokens in memory, or between calls in a stored active session, that the   *)
(* server has rotated away.                                                  *)
Outdated ==
    {t \in spent : \/ t = TokenOf(tokens)
                   \/ Quiescent /\ env # None /\ env.state = "active" /\ t = env.tok}

(* Together: the counter that gates publication is exact, and no key is live *)
(* outside the lifecycle it was published in.                                *)
KeysAreSound == TypeOK /\ TerminationsBalanced /\ KeysAreCurrent

(* Together: what a termination ends stays ended. Nothing still in flight    *)
(* brings the stored session back, no key buffer outlives the lifecycle of   *)
(* its call, and a second factor does not survive the sign-in it belongs to. *)
EndingsAreFinal == ClearedStaysCleared /\ MaterialIsOwned /\ TotpIsCurrent

(* Every call ends, and with it every termination: the durable mutation     *)
(* queue and the nested refresh do not block each other.                    *)
CallsEnd == \A o \in Ops : op[o] # Idle ~> op[o] = Idle

=============================================================================
