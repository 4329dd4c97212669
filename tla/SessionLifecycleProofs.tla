----------------------- MODULE SessionLifecycleProofs -----------------------
(***************************************************************************)
(* Machine-checked proofs about SessionLifecycle, for any number of calls, *)
(* accounts and lifecycles.                                                *)
(*                                                                         *)
(* The inductive invariant is Inv: every variable has its type and every   *)
(* suspended call holds what its step needs (TypeOK), the counter of       *)
(* terminations under way is the number of calls that owe one an end       *)
(* (TerminationsBalanced), and live keys belong to the current lifecycle   *)
(* (KeysAreCurrent).  The three need each other: a call that ends a        *)
(* termination decrements the counter, which stays a natural number only   *)
(* because the balance says the call is counted; and with a termination    *)
(* counted no keys are live.                                               *)
(*                                                                         *)
(* Beside it, what a termination ends: StoreKept of the stored session, and*)
(* MaterialKept of the buffers of derived keys (EndingsInv).               *)
(***************************************************************************)
EXTENDS SessionLifecycle, FiniteSetTheorems, TLAPS

-----------------------------------------------------------------------------
(* The array of calls.  OpsFit is the part of TypeOK about it. *)

OpsFit == op \in [Ops -> Calls] /\ \A o \in Ops : Fits(op[o])

(* The part of TypeOK about every variable but op, mutq and terms. *)
DataOK ==
    /\ gen \in Nat /\ rev \in Nat /\ cleared \in Nat /\ era \in Nat
    /\ keys \in Keys \cup {None}
    /\ tokens \in Tokens \cup {None}
    /\ totp \in Pending \cup {None}
    /\ tracked \subseteq Buffers /\ plain \subseteq Buffers
    /\ env \in Envelopes \cup {None}
    /\ spent \subseteq Refresh
    /\ surface \in {"locked", "unlocked"}

(* A stored envelope is an account's. *)
LEMMA EnvAccount ==
    ASSUME DataOK
    PROVE  /\ env # None => env \in Envelopes /\ env.acct \in Accounts
           /\ Account(env) \in Accounts \cup {None}
  BY DEF DataOK, Account, Envelopes, Payloads

(* A fresh identity is one of its pool. *)
LEMMA FreshIn ==
    ASSUME NEW pool, NEW used, NEW x \in Fresh(pool, used) PROVE x \in pool
  BY DEF Fresh

(* If the call that moves still fits, every call does. *)
LEMMA GoFits ==
    ASSUME OpsFit, NEW o \in Ops, NEW c, Fits(c), Go(o, c) PROVE OpsFit'
  BY DEF OpsFit, Fits, Go

(* An idle slot holds nothing. *)
LEMMA IdleFits == Fits(Idle)
  BY SessionAssumption DEF Fits, Idle, Calls, Kind, Holds, Steps, LoginSteps,
     UnlockSteps, RefreshSteps, EndSteps, Rotating

(* A call that ends or gives up leaves an idle slot. *)
LEMMA EndFits ==
    ASSUME OpsFit, NEW o \in Ops, End(o) PROVE OpsFit'
  BY IdleFits, GoFits DEF End

LEMMA GiveUpFits ==
    ASSUME OpsFit, NEW o \in Ops, GiveUp(o) PROVE OpsFit'
  BY EndFits DEF GiveUp

(* The end of a refresh resumes unlocks that hold an account and buffers. *)
LEMMA SettleFits ==
    ASSUME OpsFit, NEW o \in Ops, Settle(o),
           op[o].kind = "unlock" => op[o].acct \in Accounts /\ op[o].buf \in Buffers
    PROVE  OpsFit'
  <1> DEFINE r(p) == [op[p] EXCEPT !.at = "refreshed", !.tok = None,
                                   !.env = None, !.new = None]
  <1>1. ASSUME NEW p \in Ops, op[p].at = "wait" \/ (p = o /\ op[p].kind = "unlock")
        PROVE  Fits(r(p))
    <2>1. Fits(op[p]) BY DEF OpsFit
    <2>2. op[p].kind = "unlock" /\ op[p].acct \in Accounts /\ op[p].buf \in Buffers
      BY <1>1, <2>1 DEF Fits, Kind, Holds, LoginSteps, UnlockSteps, RefreshSteps
    <2>3. r(p) \in Calls BY <2>1 DEF Fits, Calls, Steps, UnlockSteps
    <2>4. /\ r(p).at = "refreshed" /\ r(p).kind = "unlock"
          /\ r(p).acct \in Accounts /\ r(p).buf \in Buffers
      BY <2>1, <2>2 DEF Fits, Calls
    <2> QED
      BY <2>3, <2>4 DEF Fits, Kind, Holds, LoginSteps, UnlockSteps, RefreshSteps, Rotating
  <1> HIDE DEF r
  <1>2. op' = [p \in Ops |-> IF op[p].at = "wait" \/ (p = o /\ op[p].kind = "unlock")
                             THEN r(p) ELSE IF p = o THEN Idle ELSE op[p]]
    BY DEF Settle, r
  <1>3. \A p \in Ops : Fits(op'[p]) BY <1>1, <1>2, IdleFits DEF OpsFit
  <1> QED BY <1>2, <1>3 DEF OpsFit, Fits

(* login, completeTotp, establishSession. *)

(* The derived buffers join the login. *)
LEMMA LoginKdfFits ==
    ASSUME DataOK, OpsFit, NEW o \in Ops, LoginKdf(o) PROVE OpsFit'
  <1>0. Fits(op[o]) BY DEF OpsFit
  <1>1. CASE End(o) BY <1>1, EndFits
  <1>2. ASSUME NEW b \in Buffers, Go(o, [op[o] EXCEPT !.at = "auth", !.buf = b])
        PROVE  OpsFit'
    <2> DEFINE c == [op[o] EXCEPT !.at = "auth", !.buf = b]
    <2>1. c \in Calls
      BY <1>0, <1>2 DEF Fits, Calls, Steps, LoginSteps, UnlockSteps,
         RefreshSteps, EndSteps
    <2>2. /\ c.at = "auth"
          /\ c.kind = "login"
          /\ c.acct \in Accounts
          /\ c.buf \in Buffers
      BY <1>0, <1>2 DEF LoginKdf, Fits, Calls, Kind, Holds, LoginSteps,
         UnlockSteps, RefreshSteps, Rotating
    <2>3. Go(o, c) BY <1>2
    <2> HIDE DEF c
    <2>4. Fits(c)
      BY <2>1, <2>2 DEF Fits, Kind, Holds, LoginSteps, UnlockSteps, RefreshSteps, Rotating
    <2> QED BY <2>3, <2>4, GoFits
  <1> QED BY <1>1, <1>2, FreshIn DEF LoginKdf

(* The answer to the password step. *)
LEMMA LoginAuthFits ==
    ASSUME DataOK, OpsFit, NEW o \in Ops, LoginAuth(o) PROVE OpsFit'
  <1>0. Fits(op[o]) BY DEF OpsFit
  <1>1. CASE GiveUp(o) BY <1>1, GiveUpFits
  <1>2. CASE End(o) BY <1>2, EndFits
  <1>3. ASSUME NEW t \in Refresh, Go(o, [op[o] EXCEPT !.at = "account",
                        !.tok = [acct |-> op[o].acct, tok |-> t]])
        PROVE  OpsFit'
    <2> DEFINE c == [op[o] EXCEPT !.at = "account",
                        !.tok = [acct |-> op[o].acct, tok |-> t]]
    <2>1. Fits(c)
      BY ZenonT(30), <1>0, <1>3 DEF LoginAuth, Tokens, Fits, Calls, Kind, Holds, Steps, LoginSteps,
         UnlockSteps, RefreshSteps, EndSteps, Rotating
    <2>2. Go(o, c) BY <1>3
    <2> HIDE DEF c
    <2> QED BY <2>1, <2>2, GoFits
  <1> QED BY <1>1, <1>2, <1>3, FreshIn DEF LoginAuth

(* The answer to the second factor. *)
LEMMA TotpVerifiedFits ==
    ASSUME DataOK, OpsFit, NEW o \in Ops, TotpVerified(o) PROVE OpsFit'
  <1>0. Fits(op[o]) BY DEF OpsFit
  <1>1. CASE End(o) BY <1>1, EndFits
  <1>2. ASSUME NEW t \in Refresh, Go(o, [op[o] EXCEPT !.at = "account",
                        !.tok = [acct |-> op[o].acct, tok |-> t]])
        PROVE  OpsFit'
    <2> DEFINE c == [op[o] EXCEPT !.at = "account",
                        !.tok = [acct |-> op[o].acct, tok |-> t]]
    <2>1. Fits(c)
      BY ZenonT(30), <1>0, <1>2 DEF TotpVerified, Tokens, Fits, Calls, Kind, Holds, Steps, LoginSteps,
         UnlockSteps, RefreshSteps, EndSteps, Rotating
    <2>2. Go(o, c) BY <1>2
    <2> HIDE DEF c
    <2> QED BY <2>1, <2>2, GoFits
  <1> QED BY <1>1, <1>2, FreshIn DEF TotpVerified

(* The sealed envelope joins the login. *)
LEMMA OpenAccountFits ==
    ASSUME DataOK, OpsFit, NEW o \in Ops, OpenAccount(o) PROVE OpsFit'
  <1>0. Fits(op[o]) BY DEF OpsFit
  <1>n. ASSUME op[o].at = "account", NEW i \in Seals
        PROVE  [acct |-> op[o].acct, era |-> era, state |-> "active",
                 tok |-> op[o].tok.tok, sealed |-> op[o].buf \in plain,
                 id |-> i, gen |-> op[o].gen]
                  \in Envelopes
    BY <1>0, <1>n DEF DataOK, Fits, Holds, Calls, LoginSteps, UnlockSteps, Envelopes, Payloads,
       Tokens
  <1>1. CASE GiveUp(o) BY <1>1, GiveUpFits
  <1>2. ASSUME NEW i \in Seals, [acct |-> op[o].acct, era |-> era, state |-> "active",
                                 tok |-> op[o].tok.tok, sealed |-> op[o].buf \in plain,
                                 id |-> i, gen |-> op[o].gen] \in Envelopes, Go(o, [op[o] EXCEPT !.at = "put",
                        !.new = [acct |-> op[o].acct, era |-> era, state |-> "active",
                                 tok |-> op[o].tok.tok, sealed |-> op[o].buf \in plain,
                                 id |-> i, gen |-> op[o].gen]])
        PROVE  OpsFit'
    <2> DEFINE c == [op[o] EXCEPT !.at = "put",
                        !.new = [acct |-> op[o].acct, era |-> era, state |-> "active",
                                 tok |-> op[o].tok.tok, sealed |-> op[o].buf \in plain,
                                 id |-> i, gen |-> op[o].gen]]
    <2>1. c \in Calls
      BY <1>0, <1>2 DEF Fits, Calls, Steps, LoginSteps, UnlockSteps,
         RefreshSteps, EndSteps
    <2>2. /\ c.at = "put"
          /\ c.kind = "login"
          /\ c.acct \in Accounts
          /\ c.buf \in Buffers
          /\ c.tok \in Tokens
          /\ c.new \in Envelopes
      BY <1>0, <1>2 DEF OpenAccount, Fits, Calls, Kind, Holds, LoginSteps,
         UnlockSteps, RefreshSteps, Rotating
    <2>3. Go(o, c) BY <1>2
    <2> HIDE DEF c
    <2>4. Fits(c)
      BY <2>1, <2>2 DEF Fits, Kind, Holds, LoginSteps, UnlockSteps, RefreshSteps, Rotating
    <2> QED BY <2>3, <2>4, GoFits
  <1> QED BY <1>n, <1>1, <1>2, FreshIn DEF OpenAccount

(* The write starts. *)
LEMMA PutSessionFits ==
    ASSUME DataOK, OpsFit, NEW o \in Ops, PutSession(o) PROVE OpsFit'
  <1>0. Fits(op[o]) BY DEF OpsFit
  <1>1. CASE At(o, "putting")
    <2> DEFINE c == [op[o] EXCEPT !.at = "putting"]
    <2>1. Fits(c)
      BY <1>0 DEF PutSession, StartWrite, Fits, Calls, Kind, Holds, Steps, LoginSteps,
         UnlockSteps, RefreshSteps, EndSteps, Rotating
    <2>2. Go(o, c) BY <1>1 DEF At
    <2> HIDE DEF c
    <2> QED BY <2>1, <2>2, GoFits
  <1> QED BY <1>1 DEF PutSession, StartWrite

(* The write lands. *)
LEMMA SessionWrittenFits ==
    ASSUME DataOK, OpsFit, NEW o \in Ops, SessionWritten(o) PROVE OpsFit'
  <1>0. Fits(op[o]) BY DEF OpsFit
  <1>1. CASE At(o, "stored")
    <2> DEFINE c == [op[o] EXCEPT !.at = "stored"]
    <2>1. Fits(c)
      BY <1>0 DEF SessionWritten, Write, Fits, Calls, Kind, Holds, Steps, LoginSteps,
         UnlockSteps, RefreshSteps, EndSteps, Rotating
    <2>2. Go(o, c) BY <1>1 DEF At
    <2> HIDE DEF c
    <2> QED BY <2>1, <2>2, GoFits
  <1> QED BY <1>1 DEF SessionWritten, Write

(* The login ends. *)
LEMMA LoginSupersededFits ==
    ASSUME DataOK, OpsFit, NEW o \in Ops, LoginSuperseded(o) PROVE OpsFit'
  BY GiveUpFits DEF OpsFit, LoginSuperseded

(* The login keeps its account, buffers and tokens. *)
LEMMA LoginStoredFits ==
    ASSUME DataOK, OpsFit, NEW o \in Ops, LoginStored(o) PROVE OpsFit'
  <1>0. Fits(op[o]) BY DEF OpsFit
  <1>1. ASSUME Go(o, [op[o] EXCEPT !.at = "share", !.new = None])
        PROVE  OpsFit'
    <2> DEFINE c == [op[o] EXCEPT !.at = "share", !.new = None]
    <2>1. Fits(c)
      BY ZenonT(30), <1>0, <1>1 DEF LoginStored, Fits, Calls, Kind, Holds, Steps, LoginSteps,
         UnlockSteps, RefreshSteps, EndSteps, Rotating
    <2>2. Go(o, c) BY <1>1
    <2> HIDE DEF c
    <2> QED BY <2>1, <2>2, GoFits
  <1> QED BY <1>1 DEF LoginStored

(* The login is about to publish, or ends. *)
LEMMA LoginSharedFits ==
    ASSUME DataOK, OpsFit, NEW o \in Ops, LoginShared(o) PROVE OpsFit'
  <1>0. Fits(op[o]) BY DEF OpsFit
  <1>1. ASSUME Go(o, [op[o] EXCEPT !.at = "publish", !.rev = rev, !.tok = None])
        PROVE  OpsFit'
    <2> DEFINE c == [op[o] EXCEPT !.at = "publish", !.rev = rev, !.tok = None]
    <2>1. Fits(c)
      BY <1>0, <1>1 DEF LoginShared, DataOK, Fits, Calls, Kind, Holds, Steps, LoginSteps,
         UnlockSteps, RefreshSteps, EndSteps, Rotating
    <2>2. Go(o, c) BY <1>1
    <2> HIDE DEF c
    <2> QED BY <2>1, <2>2, GoFits
  <1>2. CASE GiveUp(o) BY <1>2, GiveUpFits
  <1> QED BY <1>1, <1>2 DEF LoginShared

(* The call ends with its keys published. *)
LEMMA PublishFits ==
    ASSUME DataOK, OpsFit, NEW o \in Ops, Publish(o) PROVE OpsFit'
  BY EndFits DEF OpsFit, Publish

(* The call ends without publishing. *)
LEMMA PublishRefusedFits ==
    ASSUME DataOK, OpsFit, NEW o \in Ops, PublishRefused(o) PROVE OpsFit'
  BY GiveUpFits DEF OpsFit, PublishRefused

(* unlock. *)

(* The envelope joins the unlock. *)
LEMMA UnlockReadFits ==
    ASSUME DataOK, OpsFit, NEW o \in Ops, UnlockRead(o) PROVE OpsFit'
  <1>0. Fits(op[o]) BY DEF OpsFit
  <1>1. CASE Invalidate(o)
    <2> DEFINE c == [op[o] EXCEPT !.at = "invalidate"]
    <2>1. Fits(c)
      BY <1>0 DEF UnlockRead, Fits, Calls, Kind, Holds, Steps, LoginSteps,
         UnlockSteps, RefreshSteps, EndSteps, Rotating
    <2>2. Go(o, c) BY <1>1 DEF Invalidate, At
    <2> HIDE DEF c
    <2> QED BY <2>1, <2>2, GoFits
  <1>2. CASE End(o) BY <1>2, EndFits
  <1>3. ASSUME env \in Envelopes, env.acct \in Accounts, Go(o, [op[o] EXCEPT !.at = "derive", !.env = env, !.acct = env.acct])
        PROVE  OpsFit'
    <2> DEFINE c == [op[o] EXCEPT !.at = "derive", !.env = env, !.acct = env.acct]
    <2>1. c \in Calls
      BY <1>0, <1>3 DEF Fits, Calls, Steps, LoginSteps, UnlockSteps,
         RefreshSteps, EndSteps
    <2>2. /\ c.at = "derive"
          /\ c.kind = "unlock"
          /\ c.acct \in Accounts
          /\ c.env \in Envelopes
      BY <1>0, <1>3 DEF UnlockRead, Fits, Calls, Kind, Holds, LoginSteps,
         UnlockSteps, RefreshSteps, Rotating
    <2>3. Go(o, c) BY <1>3
    <2> HIDE DEF c
    <2>4. Fits(c)
      BY <2>1, <2>2 DEF Fits, Kind, Holds, LoginSteps, UnlockSteps, RefreshSteps, Rotating
    <2> QED BY <2>3, <2>4, GoFits
  <1> QED BY <1>1, <1>2, <1>3, EnvAccount DEF UnlockRead

(* The derived buffers join the unlock. *)
LEMMA UnlockDeriveFits ==
    ASSUME DataOK, OpsFit, NEW o \in Ops, UnlockDerive(o) PROVE OpsFit'
  <1>0. Fits(op[o]) BY DEF OpsFit
  <1>1. CASE End(o) BY <1>1, EndFits
  <1>2. ASSUME NEW s \in {"open", "bind"}, NEW b \in Buffers, Go(o, [op[o] EXCEPT !.at = s, !.buf = b, !.tok = tokens])
        PROVE  OpsFit'
    <2> DEFINE c == [op[o] EXCEPT !.at = s, !.buf = b, !.tok = tokens]
    <2>1. c \in Calls
      BY ZenonT(30), <1>0, <1>2 DEF DataOK, Fits, Calls, Steps, LoginSteps, UnlockSteps,
         RefreshSteps, EndSteps
    <2>2. /\ c.at \in {"open", "bind"}
          /\ c.kind = "unlock"
          /\ c.acct \in Accounts
          /\ c.buf \in Buffers
          /\ c.env \in Envelopes
      BY <1>0, <1>2 DEF UnlockDerive, Fits, Calls, Kind, Holds, LoginSteps,
         UnlockSteps, RefreshSteps, Rotating
    <2>3. Go(o, c) BY <1>2
    <2> HIDE DEF c
    <2>4. Fits(c)
      BY <2>1, <2>2 DEF Fits, Kind, Holds, LoginSteps, UnlockSteps, RefreshSteps, Rotating
    <2> QED BY <2>3, <2>4, GoFits
  <1> QED BY <1>1, <1>2, FreshIn DEF UnlockDerive

(* The unlock adopts the tokens in memory, or falls back to the envelope. *)
LEMMA UnlockBindFits ==
    ASSUME DataOK, OpsFit, NEW o \in Ops, UnlockBind(o) PROVE OpsFit'
  <1>0. Fits(op[o]) BY DEF OpsFit
  <1>1. CASE Invalidate(o)
    <2> DEFINE c == [op[o] EXCEPT !.at = "invalidate"]
    <2>1. Fits(c)
      BY <1>0 DEF UnlockBind, Fits, Calls, Kind, Holds, Steps, LoginSteps,
         UnlockSteps, RefreshSteps, EndSteps, Rotating
    <2>2. Go(o, c) BY <1>1 DEF Invalidate, At
    <2> HIDE DEF c
    <2> QED BY <2>1, <2>2, GoFits
  <1>2. ASSUME Go(o, [op[o] EXCEPT !.at = "share", !.tok = None, !.env = None])
        PROVE  OpsFit'
    <2> DEFINE c == [op[o] EXCEPT !.at = "share", !.tok = None, !.env = None]
    <2>1. c \in Calls
      BY <1>0, <1>2 DEF Fits, Calls, Steps, LoginSteps, UnlockSteps,
         RefreshSteps, EndSteps
    <2>2. /\ c.at = "share"
          /\ c.kind = "unlock"
          /\ c.acct \in Accounts
          /\ c.buf \in Buffers
      BY <1>0, <1>2 DEF UnlockBind, Fits, Calls, Kind, Holds, LoginSteps,
         UnlockSteps, RefreshSteps, Rotating
    <2>3. Go(o, c) BY <1>2
    <2> HIDE DEF c
    <2>4. Fits(c)
      BY <2>1, <2>2 DEF Fits, Kind, Holds, LoginSteps, UnlockSteps, RefreshSteps, Rotating
    <2> QED BY <2>3, <2>4, GoFits
  <1>3. CASE GiveUp(o) BY <1>3, GiveUpFits
  <1>4. CASE At(o, "open")
    <2> DEFINE c == [op[o] EXCEPT !.at = "open"]
    <2>1. Fits(c)
      BY <1>0 DEF UnlockBind, Fits, Calls, Kind, Holds, Steps, LoginSteps,
         UnlockSteps, RefreshSteps, EndSteps, Rotating
    <2>2. Go(o, c) BY <1>4 DEF At
    <2> HIDE DEF c
    <2> QED BY <2>1, <2>2, GoFits
  <1> QED BY <1>1, <1>2, <1>3, <1>4 DEF UnlockBind, Adopt

(* The unlock adopts the payload, or discards the envelope. *)
LEMMA UnlockOpenFits ==
    ASSUME DataOK, OpsFit, NEW o \in Ops, UnlockOpen(o) PROVE OpsFit'
  <1>0. Fits(op[o]) BY DEF OpsFit
  <1>1. ASSUME Go(o, [op[o] EXCEPT !.at = "share", !.tok = None, !.env = None])
        PROVE  OpsFit'
    <2> DEFINE c == [op[o] EXCEPT !.at = "share", !.tok = None, !.env = None]
    <2>1. c \in Calls
      BY <1>0, <1>1 DEF Fits, Calls, Steps, LoginSteps, UnlockSteps,
         RefreshSteps, EndSteps
    <2>2. /\ c.at = "share"
          /\ c.kind = "unlock"
          /\ c.acct \in Accounts
          /\ c.buf \in Buffers
      BY <1>0, <1>1 DEF UnlockOpen, Fits, Calls, Kind, Holds, LoginSteps,
         UnlockSteps, RefreshSteps, Rotating
    <2>3. Go(o, c) BY <1>1
    <2> HIDE DEF c
    <2>4. Fits(c)
      BY <2>1, <2>2 DEF Fits, Kind, Holds, LoginSteps, UnlockSteps, RefreshSteps, Rotating
    <2> QED BY <2>3, <2>4, GoFits
  <1>2. CASE GiveUp(o) BY <1>2, GiveUpFits
  <1>3. CASE At(o, "discard")
    <2> DEFINE c == [op[o] EXCEPT !.at = "discard"]
    <2>1. Fits(c)
      BY <1>0 DEF UnlockOpen, Fits, Calls, Kind, Holds, Steps, LoginSteps,
         UnlockSteps, RefreshSteps, EndSteps, Rotating
    <2>2. Go(o, c) BY <1>3 DEF At
    <2> HIDE DEF c
    <2> QED BY <2>1, <2>2, GoFits
  <1> QED BY <1>1, <1>2, <1>3 DEF UnlockOpen, Adopt

(* The unlock ends. *)
LEMMA UnlockDiscardFits ==
    ASSUME DataOK, OpsFit, NEW o \in Ops, UnlockDiscard(o) PROVE OpsFit'
  BY EndFits DEF OpsFit, UnlockDiscard

(* The unlock is about to publish, ends, or refreshes first. *)
LEMMA UnlockSharedFits ==
    ASSUME DataOK, OpsFit, NEW o \in Ops, UnlockShared(o) PROVE OpsFit'
  <1>0. Fits(op[o]) BY DEF OpsFit
  <1>1. ASSUME op[o].kind = "unlock", Go(o, [op[o] EXCEPT !.at = "publish", !.rev = rev])
        PROVE  OpsFit'
    <2> DEFINE c == [op[o] EXCEPT !.at = "publish", !.rev = rev]
    <2>1. Fits(c)
      BY <1>0, <1>1 DEF UnlockShared, DataOK, Fits, Calls, Kind, Holds, Steps, LoginSteps,
         UnlockSteps, RefreshSteps, EndSteps, Rotating
    <2>2. Go(o, c) BY <1>1
    <2> HIDE DEF c
    <2> QED BY <2>1, <2>2, GoFits
  <1>2. CASE GiveUp(o) BY <1>2, GiveUpFits
  <1>3. ASSUME NEW s \in {"wait", "rotate"}, op[o].kind = "unlock", Go(o, [op[o] EXCEPT !.at = s, !.tok = tokens])
        PROVE  OpsFit'
    <2> DEFINE c == [op[o] EXCEPT !.at = s, !.tok = tokens]
    <2>1. c \in Calls
      BY ZenonT(30), <1>0, <1>3 DEF DataOK, Fits, Calls, Steps, LoginSteps, UnlockSteps,
         RefreshSteps, EndSteps
    <2>2. /\ c.at \in {"wait", "rotate"}
          /\ c.kind = "unlock"
          /\ c.acct \in Accounts
          /\ c.buf \in Buffers
      BY <1>0, <1>3 DEF UnlockShared, Fits, Calls, Kind, Holds, LoginSteps,
         UnlockSteps, RefreshSteps, Rotating
    <2>3. Go(o, c) BY <1>3
    <2> HIDE DEF c
    <2>4. Fits(c)
      BY <2>1, <2>2 DEF Fits, Kind, Holds, LoginSteps, UnlockSteps, RefreshSteps, Rotating
    <2> QED BY <2>3, <2>4, GoFits
  <1> QED BY <1>1, <1>2, <1>3 DEF UnlockShared

(* The unlock is about to publish, or ends. *)
LEMMA UnlockRefreshedFits ==
    ASSUME DataOK, OpsFit, NEW o \in Ops, UnlockRefreshed(o) PROVE OpsFit'
  <1>0. Fits(op[o]) BY DEF OpsFit
  <1>1. CASE Invalidate(o)
    <2> DEFINE c == [op[o] EXCEPT !.at = "invalidate"]
    <2>1. Fits(c)
      BY <1>0 DEF UnlockRefreshed, Fits, Calls, Kind, Holds, Steps, LoginSteps,
         UnlockSteps, RefreshSteps, EndSteps, Rotating
    <2>2. Go(o, c) BY <1>1 DEF Invalidate, At
    <2> HIDE DEF c
    <2> QED BY <2>1, <2>2, GoFits
  <1>2. ASSUME Go(o, [op[o] EXCEPT !.at = "publish", !.rev = rev])
        PROVE  OpsFit'
    <2> DEFINE c == [op[o] EXCEPT !.at = "publish", !.rev = rev]
    <2>1. c \in Calls
      BY <1>0, <1>2 DEF DataOK, Fits, Calls, Steps, LoginSteps, UnlockSteps,
         RefreshSteps, EndSteps
    <2>2. /\ c.at = "publish"
          /\ c.kind = "unlock"
          /\ c.acct \in Accounts
          /\ c.buf \in Buffers
      BY <1>0, <1>2 DEF UnlockRefreshed, Fits, Calls, Kind, Holds, LoginSteps,
         UnlockSteps, RefreshSteps, Rotating
    <2>3. Go(o, c) BY <1>2
    <2> HIDE DEF c
    <2>4. Fits(c)
      BY <2>1, <2>2 DEF Fits, Kind, Holds, LoginSteps, UnlockSteps, RefreshSteps, Rotating
    <2> QED BY <2>3, <2>4, GoFits
  <1>3. CASE GiveUp(o) BY <1>3, GiveUpFits
  <1> QED BY <1>1, <1>2, <1>3 DEF UnlockRefreshed

(* refreshAccessToken. *)

(* An envelope sealed for the session of another is an envelope. *)
LEMMA SealedIsEnvelope ==
    ASSUME NEW o \in Ops, Fits(op[o]), NEW e \in Envelopes, NEW i \in Seals
    PROVE  /\ Sealed(o, e, "refresh-pending", None, i) \in Envelopes
           /\ \A t \in Refresh : Sealed(o, e, "active", t, i) \in Envelopes
  <1>1. op[o].gen \in Nat /\ (op[o].buf \in plain) \in BOOLEAN
    BY DEF Fits, Calls
  <1>2. Sealed(o, e, "refresh-pending", None, i) \in Payloads({"refresh-pending"}, {None})
    BY <1>1 DEF Sealed, Envelopes, Payloads
  <1>3. \A t \in Refresh : Sealed(o, e, "active", t, i) \in Payloads({"active"}, Refresh)
    BY <1>1 DEF Sealed, Envelopes, Payloads
  <1> QED BY <1>2, <1>3 DEF Envelopes

(* The marker joins the refresh, or the refresh is over. *)
LEMMA RefreshReadFits ==
    ASSUME DataOK, OpsFit, NEW o \in Ops, RefreshRead(o) PROVE OpsFit'
  <1>0. Fits(op[o]) BY DEF OpsFit
  <1>1. CASE Invalidate(o)
    <2> DEFINE c == [op[o] EXCEPT !.at = "invalidate"]
    <2>1. c \in Calls
      BY <1>0, <1>1 DEF Fits, Calls, Steps, LoginSteps, UnlockSteps,
         RefreshSteps, EndSteps
    <2>2. /\ c.at = "invalidate"
          /\ c.kind \in {"refresh", "unlock"}
          /\ c.kind = "unlock" => c.acct \in Accounts /\ c.buf \in Buffers
      BY <1>0, <1>1 DEF RefreshRead, Fits, Calls, Kind, Holds, LoginSteps,
         UnlockSteps, RefreshSteps, Rotating
    <2>3. Go(o, c) BY <1>1 DEF Invalidate, At
    <2> HIDE DEF c
    <2>4. Fits(c)
      BY <2>1, <2>2 DEF Fits, Kind, Holds, LoginSteps, UnlockSteps, RefreshSteps, Rotating
    <2> QED BY <2>3, <2>4, GoFits
  <1>2. ASSUME NEW i \in Seals, Bound(op[o].tok), op[o].buf # None, Go(o, [op[o] EXCEPT !.at = "mark", !.env = env, !.new = Marker(o, i)])
        PROVE  OpsFit'
    <2> DEFINE c == [op[o] EXCEPT !.at = "mark", !.env = env, !.new = Marker(o, i)]
    <2>1. Fits(c)
      BY ZenonT(30), <1>0, <1>2, SealedIsEnvelope DEF RefreshRead, DataOK, Bound, Marker, Fits, Calls, Kind, Holds, Steps, LoginSteps,
         UnlockSteps, RefreshSteps, EndSteps, Rotating
    <2>2. Go(o, c) BY <1>2
    <2> HIDE DEF c
    <2> QED BY <2>1, <2>2, GoFits
  <1>3. CASE Settle(o)
    BY <1>0, <1>3, SettleFits DEF RefreshRead, Fits, Kind, Holds, LoginSteps, UnlockSteps,
       RefreshSteps
  <1> QED BY <1>1, <1>2, <1>3, FreshIn DEF RefreshRead

(* The write starts. *)
LEMMA PutMarkerFits ==
    ASSUME DataOK, OpsFit, NEW o \in Ops, PutMarker(o) PROVE OpsFit'
  <1>0. Fits(op[o]) BY DEF OpsFit
  <1>1. CASE At(o, "marking")
    <2> DEFINE c == [op[o] EXCEPT !.at = "marking"]
    <2>1. Fits(c)
      BY <1>0 DEF PutMarker, StartWrite, Fits, Calls, Kind, Holds, Steps, LoginSteps,
         UnlockSteps, RefreshSteps, EndSteps, Rotating
    <2>2. Go(o, c) BY <1>1 DEF At
    <2> HIDE DEF c
    <2> QED BY <2>1, <2>2, GoFits
  <1> QED BY <1>1 DEF PutMarker, StartWrite

(* The write lands. *)
LEMMA MarkerWrittenFits ==
    ASSUME DataOK, OpsFit, NEW o \in Ops, MarkerWritten(o) PROVE OpsFit'
  <1>0. Fits(op[o]) BY DEF OpsFit
  <1>1. CASE At(o, "marked")
    <2> DEFINE c == [op[o] EXCEPT !.at = "marked"]
    <2>1. Fits(c)
      BY <1>0 DEF MarkerWritten, Write, Fits, Calls, Kind, Holds, Steps, LoginSteps,
         UnlockSteps, RefreshSteps, EndSteps, Rotating
    <2>2. Go(o, c) BY <1>1 DEF At
    <2> HIDE DEF c
    <2> QED BY <2>1, <2>2, GoFits
  <1> QED BY <1>1 DEF MarkerWritten, Write

(* The refresh is over. *)
LEMMA RefreshSupersededFits ==
    ASSUME DataOK, OpsFit, NEW o \in Ops, RefreshSuperseded(o) PROVE OpsFit'
  BY SettleFits DEF OpsFit, RefreshSuperseded, Fits, Kind, Holds, LoginSteps, UnlockSteps,
     RefreshSteps

(* The server is asked. *)
LEMMA RefreshMarkedFits ==
    ASSUME DataOK, OpsFit, NEW o \in Ops, RefreshMarked(o) PROVE OpsFit'
  <1>0. Fits(op[o]) BY DEF OpsFit
  <1>1. CASE At(o, "network")
    <2> DEFINE c == [op[o] EXCEPT !.at = "network"]
    <2>1. Fits(c)
      BY <1>0 DEF RefreshMarked, Fits, Calls, Kind, Holds, Steps, LoginSteps,
         UnlockSteps, RefreshSteps, EndSteps, Rotating
    <2>2. Go(o, c) BY <1>1 DEF At
    <2> HIDE DEF c
    <2> QED BY <2>1, <2>2, GoFits
  <1> QED BY <1>1 DEF RefreshMarked

(* The replacement joins the refresh, or the refresh is over. *)
LEMMA RotatedFits ==
    ASSUME DataOK, OpsFit, NEW o \in Ops, Rotated(o) PROVE OpsFit'
  <1>0. Fits(op[o]) BY DEF OpsFit
  <1>1. ASSUME NEW t \in Refresh, NEW i \in Seals, Go(o, [op[o] EXCEPT !.at = "replace", !.tok.tok = t,
                        !.new = Sealed(o, op[o].env, "active", t, i)])
        PROVE  OpsFit'
    <2> DEFINE c == [op[o] EXCEPT !.at = "replace", !.tok.tok = t,
                        !.new = Sealed(o, op[o].env, "active", t, i)]
    <2>1. Fits(c)
      BY <1>0, <1>1, SealedIsEnvelope DEF Rotated, Tokens, Fits, Calls, Kind, Holds, Steps, LoginSteps,
         UnlockSteps, RefreshSteps, EndSteps, Rotating
    <2>2. Go(o, c) BY <1>1
    <2> HIDE DEF c
    <2> QED BY <2>1, <2>2, GoFits
  <1>2. CASE Settle(o)
    BY <1>0, <1>2, SettleFits DEF Rotated, Fits, Kind, Holds, LoginSteps, UnlockSteps, RefreshSteps
  <1> QED BY <1>1, <1>2, FreshIn DEF Rotated

(* The old session is to be restored, or the refresh is over. *)
LEMMA RefreshUnansweredFits ==
    ASSUME DataOK, OpsFit, NEW o \in Ops, RefreshUnanswered(o) PROVE OpsFit'
  <1>0. Fits(op[o]) BY DEF OpsFit
  <1>1. CASE At(o, "restore")
    <2> DEFINE c == [op[o] EXCEPT !.at = "restore"]
    <2>1. Fits(c)
      BY <1>0 DEF RefreshUnanswered, Fits, Calls, Kind, Holds, Steps, LoginSteps,
         UnlockSteps, RefreshSteps, EndSteps, Rotating
    <2>2. Go(o, c) BY <1>1 DEF At
    <2> HIDE DEF c
    <2> QED BY <2>1, <2>2, GoFits
  <1>2. CASE Settle(o)
    BY <1>0, <1>2, SettleFits DEF RefreshUnanswered, Fits, Kind, Holds, LoginSteps, UnlockSteps,
       RefreshSteps
  <1> QED BY <1>1, <1>2 DEF RefreshUnanswered

(* The session is to be cleared, or the refresh is over. *)
LEMMA RefreshRefusedFits ==
    ASSUME DataOK, OpsFit, NEW o \in Ops, RefreshRefused(o) PROVE OpsFit'
  <1>0. Fits(op[o]) BY DEF OpsFit
  <1>1. CASE At(o, "closed")
    <2> DEFINE c == [op[o] EXCEPT !.at = "closed"]
    <2>1. Fits(c)
      BY <1>0 DEF RefreshRefused, Fits, Calls, Kind, Holds, Steps, LoginSteps,
         UnlockSteps, RefreshSteps, EndSteps, Rotating
    <2>2. Go(o, c) BY <1>1 DEF At
    <2> HIDE DEF c
    <2> QED BY <2>1, <2>2, GoFits
  <1>2. CASE Settle(o)
    BY <1>0, <1>2, SettleFits DEF RefreshRefused, Fits, Kind, Holds, LoginSteps, UnlockSteps,
       RefreshSteps
  <1> QED BY <1>1, <1>2 DEF RefreshRefused, FailClosed

(* The write starts. *)
LEMMA PutReplacementFits ==
    ASSUME DataOK, OpsFit, NEW o \in Ops, PutReplacement(o) PROVE OpsFit'
  <1>0. Fits(op[o]) BY DEF OpsFit
  <1>1. CASE At(o, "replacing")
    <2> DEFINE c == [op[o] EXCEPT !.at = "replacing"]
    <2>1. Fits(c)
      BY <1>0 DEF PutReplacement, StartWrite, Fits, Calls, Kind, Holds, Steps, LoginSteps,
         UnlockSteps, RefreshSteps, EndSteps, Rotating
    <2>2. Go(o, c) BY <1>1 DEF At
    <2> HIDE DEF c
    <2> QED BY <2>1, <2>2, GoFits
  <1> QED BY <1>1 DEF PutReplacement, StartWrite

(* The write lands. *)
LEMMA ReplacementWrittenFits ==
    ASSUME DataOK, OpsFit, NEW o \in Ops, ReplacementWritten(o) PROVE OpsFit'
  <1>0. Fits(op[o]) BY DEF OpsFit
  <1>1. CASE At(o, "replaced")
    <2> DEFINE c == [op[o] EXCEPT !.at = "replaced"]
    <2>1. Fits(c)
      BY <1>0 DEF ReplacementWritten, Write, Fits, Calls, Kind, Holds, Steps, LoginSteps,
         UnlockSteps, RefreshSteps, EndSteps, Rotating
    <2>2. Go(o, c) BY <1>1 DEF At
    <2> HIDE DEF c
    <2> QED BY <2>1, <2>2, GoFits
  <1> QED BY <1>1 DEF ReplacementWritten, Write

(* The refresh is over. *)
LEMMA RefreshReplacedFits ==
    ASSUME DataOK, OpsFit, NEW o \in Ops, RefreshReplaced(o) PROVE OpsFit'
  BY SettleFits DEF OpsFit, RefreshReplaced, Fits, Kind, Holds, LoginSteps, UnlockSteps,
     RefreshSteps

(* The old envelope is back, or the session is to be cleared. *)
LEMMA RefreshRestoreFits ==
    ASSUME DataOK, OpsFit, NEW o \in Ops, RefreshRestore(o) PROVE OpsFit'
  <1>0. Fits(op[o]) BY DEF OpsFit
  <1>1. CASE At(o, "restored")
    <2> DEFINE c == [op[o] EXCEPT !.at = "restored"]
    <2>1. Fits(c)
      BY <1>0 DEF RefreshRestore, Fits, Calls, Kind, Holds, Steps, LoginSteps,
         UnlockSteps, RefreshSteps, EndSteps, Rotating
    <2>2. Go(o, c) BY <1>1 DEF At
    <2> HIDE DEF c
    <2> QED BY <2>1, <2>2, GoFits
  <1>2. CASE At(o, "closed")
    <2> DEFINE c == [op[o] EXCEPT !.at = "closed"]
    <2>1. Fits(c)
      BY <1>0 DEF RefreshRestore, Fits, Calls, Kind, Holds, Steps, LoginSteps,
         UnlockSteps, RefreshSteps, EndSteps, Rotating
    <2>2. Go(o, c) BY <1>2 DEF At
    <2> HIDE DEF c
    <2> QED BY <2>1, <2>2, GoFits
  <1> QED BY <1>1, <1>2 DEF RefreshRestore, FailClosed

(* The refresh is over. *)
LEMMA RefreshRestoredFits ==
    ASSUME DataOK, OpsFit, NEW o \in Ops, RefreshRestored(o) PROVE OpsFit'
  BY SettleFits DEF OpsFit, RefreshRestored, Fits, Kind, Holds, LoginSteps, UnlockSteps,
     RefreshSteps

(* The refresh is over. *)
LEMMA RefreshClosedFits ==
    ASSUME DataOK, OpsFit, NEW o \in Ops, RefreshClosed(o) PROVE OpsFit'
  BY SettleFits DEF OpsFit, RefreshClosed, Fits, Kind, Holds, LoginSteps, UnlockSteps, RefreshSteps

(* lock, logout, reads and the end of an invalidation. *)

(* The call resumes where it found no session. *)
LEMMA InvalidatedFits ==
    ASSUME DataOK, OpsFit, NEW o \in Ops, Invalidated(o) PROVE OpsFit'
  <1>0. Fits(op[o]) BY DEF OpsFit
  <1>1. CASE op[o].kind \in {"lock", "logout"} /\ At(o, op[o].kind)
    <2> DEFINE c == [op[o] EXCEPT !.at = op[o].kind]
    <2>1. Fits(c)
      BY <1>0, <1>1 DEF Invalidated, Fits, Calls, Kind, Holds, Steps, LoginSteps,
         UnlockSteps, RefreshSteps, EndSteps, Rotating
    <2>2. Go(o, c) BY <1>1 DEF At
    <2> HIDE DEF c
    <2> QED BY <2>1, <2>2, GoFits
  <1>2. CASE op[o].kind = "unlock" /\ op[o].env # None /\ At(o, "open")
    <2> DEFINE c == [op[o] EXCEPT !.at = "open"]
    <2>1. Fits(c)
      BY <1>0, <1>2 DEF Invalidated, Fits, Calls, Kind, Holds, Steps, LoginSteps,
         UnlockSteps, RefreshSteps, EndSteps, Rotating
    <2>2. Go(o, c) BY <1>2 DEF At
    <2> HIDE DEF c
    <2> QED BY <2>1, <2>2, GoFits
  <1>3. CASE /\ op[o].kind \in {"unlock", "refresh"} /\ op[o].tok # None
            /\ Settle(o)
    BY <1>0, <1>3, SettleFits DEF Invalidated, Fits, Kind, Holds, LoginSteps, UnlockSteps,
       RefreshSteps
  <1>4. CASE op[o].kind = "unlock" /\ op[o].buf # None /\ At(o, "refreshed")
    <2> DEFINE c == [op[o] EXCEPT !.at = "refreshed"]
    <2>1. Fits(c)
      BY <1>0, <1>4 DEF Invalidated, Fits, Calls, Kind, Holds, Steps, LoginSteps,
         UnlockSteps, RefreshSteps, EndSteps, Rotating
    <2>2. Go(o, c) BY <1>4 DEF At
    <2> HIDE DEF c
    <2> QED BY <2>1, <2>2, GoFits
  <1>5. CASE End(o) BY <1>5, EndFits
  <1> QED BY <1>1, <1>2, <1>3, <1>4, <1>5 DEF Invalidated

(* The lock ends, or invalidates the session first. *)
LEMMA LockReadFits ==
    ASSUME DataOK, OpsFit, NEW o \in Ops, LockRead(o) PROVE OpsFit'
  <1>0. Fits(op[o]) BY DEF OpsFit
  <1>1. CASE Invalidate(o)
    <2> DEFINE c == [op[o] EXCEPT !.at = "invalidate"]
    <2>1. Fits(c)
      BY <1>0 DEF LockRead, Fits, Calls, Kind, Holds, Steps, LoginSteps,
         UnlockSteps, RefreshSteps, EndSteps, Rotating
    <2>2. Go(o, c) BY <1>1 DEF Invalidate, At
    <2> HIDE DEF c
    <2> QED BY <2>1, <2>2, GoFits
  <1>2. CASE End(o) BY <1>2, EndFits
  <1> QED BY <1>1, <1>2 DEF LockRead

(* The logout is to clear, or invalidates the session first. *)
LEMMA LogoutReadFits ==
    ASSUME DataOK, OpsFit, NEW o \in Ops, LogoutRead(o) PROVE OpsFit'
  <1>0. Fits(op[o]) BY DEF OpsFit
  <1>1. CASE Invalidate(o)
    <2> DEFINE c == [op[o] EXCEPT !.at = "invalidate"]
    <2>1. Fits(c)
      BY <1>0 DEF LogoutRead, Fits, Calls, Kind, Holds, Steps, LoginSteps,
         UnlockSteps, RefreshSteps, EndSteps, Rotating
    <2>2. Go(o, c) BY <1>1 DEF Invalidate, At
    <2> HIDE DEF c
    <2> QED BY <2>1, <2>2, GoFits
  <1>2. ASSUME Account(env) \in Accounts \cup {None}, Go(o, [op[o] EXCEPT !.at = "clear", !.acct = Account(env)])
        PROVE  OpsFit'
    <2> DEFINE c == [op[o] EXCEPT !.at = "clear", !.acct = Account(env)]
    <2>1. c \in Calls
      BY <1>0, <1>2 DEF Fits, Calls, Steps, LoginSteps, UnlockSteps,
         RefreshSteps, EndSteps
    <2>2. /\ c.at = "clear"
          /\ c.kind = "logout"
      BY <1>0, <1>2 DEF LogoutRead, Fits, Calls, Kind, Holds, LoginSteps,
         UnlockSteps, RefreshSteps, Rotating
    <2>3. Go(o, c) BY <1>2
    <2> HIDE DEF c
    <2>4. Fits(c)
      BY <2>1, <2>2 DEF Fits, Kind, Holds, LoginSteps, UnlockSteps, RefreshSteps, Rotating
    <2> QED BY <2>3, <2>4, GoFits
  <1> QED BY <1>1, <1>2, EnvAccount DEF LogoutRead

(* The logout ends. *)
LEMMA LogoutClearFits ==
    ASSUME DataOK, OpsFit, NEW o \in Ops, LogoutClear(o) PROVE OpsFit'
  BY EndFits DEF OpsFit, LogoutClear

(* The read ends, or invalidates the session first. *)
LEMMA ReadDoneFits ==
    ASSUME DataOK, OpsFit, NEW o \in Ops, ReadDone(o) PROVE OpsFit'
  <1>0. Fits(op[o]) BY DEF OpsFit
  <1>1. CASE Invalidate(o)
    <2> DEFINE c == [op[o] EXCEPT !.at = "invalidate"]
    <2>1. Fits(c)
      BY <1>0 DEF ReadDone, Fits, Calls, Kind, Holds, Steps, LoginSteps,
         UnlockSteps, RefreshSteps, EndSteps, Rotating
    <2>2. Go(o, c) BY <1>1 DEF Invalidate, At
    <2> HIDE DEF c
    <2> QED BY <2>1, <2>2, GoFits
  <1>2. CASE End(o) BY <1>2, EndFits
  <1> QED BY <1>1, <1>2 DEF ReadDone

-----------------------------------------------------------------------------
(* New calls, and the actions of no call. *)

(* A login starts with its account. *)
LEMMA LoginFits ==
    ASSUME DataOK, OpsFit, NEW o \in Ops, NEW a \in Accounts, Login(o, a) PROVE OpsFit'
  <1>1. ASSUME Go(o, [Idle EXCEPT !.kind = "login", !.at = "kdf", !.gen = gen, !.acct = a])
        PROVE  OpsFit'
    <2> DEFINE c == [Idle EXCEPT !.kind = "login", !.at = "kdf", !.gen = gen, !.acct = a]
    <2>1. Fits(c)
      BY <1>1, SessionAssumption DEF DataOK, Idle, Fits, Calls, Kind, Holds, Steps, LoginSteps,
         UnlockSteps, RefreshSteps, EndSteps, Rotating
    <2>2. Go(o, c) BY <1>1
    <2> HIDE DEF c
    <2> QED BY <2>1, <2>2, GoFits
  <1> QED BY <1>1 DEF Login

(* A login resumes with the challenge. *)
LEMMA CompleteTotpFits ==
    ASSUME DataOK, OpsFit, NEW o \in Ops, CompleteTotp(o) PROVE OpsFit'
  <1>1. ASSUME totp # None, Go(o, [Idle EXCEPT !.kind = "login", !.at = "totp", !.gen = gen,
                        !.acct = totp.acct, !.buf = totp.buf])
        PROVE  OpsFit'
    <2> DEFINE c == [Idle EXCEPT !.kind = "login", !.at = "totp", !.gen = gen,
                        !.acct = totp.acct, !.buf = totp.buf]
    <2>1. Fits(c)
      BY <1>1, SessionAssumption DEF DataOK, Pending, Idle, Fits, Calls, Kind, Holds, Steps, LoginSteps,
         UnlockSteps, RefreshSteps, EndSteps, Rotating
    <2>2. Go(o, c) BY <1>1
    <2> HIDE DEF c
    <2> QED BY <2>1, <2>2, GoFits
  <1> QED BY <1>1 DEF CompleteTotp

(* An unlock starts with nothing. *)
LEMMA UnlockFits ==
    ASSUME DataOK, OpsFit, NEW o \in Ops, Unlock(o) PROVE OpsFit'
  <1>1. ASSUME Go(o, [Idle EXCEPT !.kind = "unlock", !.at = "envelope", !.gen = gen])
        PROVE  OpsFit'
    <2> DEFINE c == [Idle EXCEPT !.kind = "unlock", !.at = "envelope", !.gen = gen]
    <2>1. Fits(c)
      BY <1>1, SessionAssumption DEF DataOK, Idle, Fits, Calls, Kind, Holds, Steps, LoginSteps,
         UnlockSteps, RefreshSteps, EndSteps, Rotating
    <2>2. Go(o, c) BY <1>1
    <2> HIDE DEF c
    <2> QED BY <2>1, <2>2, GoFits
  <1> QED BY <1>1 DEF Unlock

(* The live buffers, if any. *)
LEMMA LiveBuffers ==
    ASSUME DataOK PROVE BufferOf(keys) \in Buffers \cup {None}
  BY DEF DataOK, BufferOf, Keys

(* A refresh starts with the live buffers and tokens. *)
LEMMA RefreshStartFits ==
    ASSUME DataOK, OpsFit, NEW o \in Ops, RefreshStart(o) PROVE OpsFit'
  <1>1. ASSUME Go(o, [Idle EXCEPT !.kind = "refresh", !.at = "rotate", !.gen = gen,
                        !.buf = BufferOf(keys), !.tok = tokens])
        PROVE  OpsFit'
    <2> DEFINE c == [Idle EXCEPT !.kind = "refresh", !.at = "rotate", !.gen = gen,
                        !.buf = BufferOf(keys), !.tok = tokens]
    <2>1. Fits(c)
      BY <1>1, SessionAssumption, LiveBuffers DEF DataOK, Idle, Fits, Calls, Kind, Holds, Steps, LoginSteps,
         UnlockSteps, RefreshSteps, EndSteps, Rotating
    <2>2. Go(o, c) BY <1>1
    <2> HIDE DEF c
    <2> QED BY <2>1, <2>2, GoFits
  <1> QED BY <1>1 DEF RefreshStart

(* A lock starts with nothing. *)
LEMMA LockFits ==
    ASSUME DataOK, OpsFit, NEW o \in Ops, Lock(o) PROVE OpsFit'
  <1>1. ASSUME Go(o, [Idle EXCEPT !.kind = "lock", !.at = "lock"])
        PROVE  OpsFit'
    <2> DEFINE c == [Idle EXCEPT !.kind = "lock", !.at = "lock"]
    <2>1. Fits(c)
      BY <1>1, SessionAssumption DEF Idle, Fits, Calls, Kind, Holds, Steps, LoginSteps,
         UnlockSteps, RefreshSteps, EndSteps, Rotating
    <2>2. Go(o, c) BY <1>1
    <2> HIDE DEF c
    <2> QED BY <2>1, <2>2, GoFits
  <1>2. CASE UNCHANGED op BY <1>2 DEF OpsFit, Fits
  <1> QED BY <1>1, <1>2 DEF Lock

(* A logout starts with nothing. *)
LEMMA LogoutFits ==
    ASSUME DataOK, OpsFit, NEW o \in Ops, Logout(o) PROVE OpsFit'
  <1>1. ASSUME Go(o, [Idle EXCEPT !.kind = "logout", !.at = "logout"])
        PROVE  OpsFit'
    <2> DEFINE c == [Idle EXCEPT !.kind = "logout", !.at = "logout"]
    <2>1. Fits(c)
      BY <1>1, SessionAssumption DEF Idle, Fits, Calls, Kind, Holds, Steps, LoginSteps,
         UnlockSteps, RefreshSteps, EndSteps, Rotating
    <2>2. Go(o, c) BY <1>1
    <2> HIDE DEF c
    <2> QED BY <2>1, <2>2, GoFits
  <1> QED BY <1>1 DEF Logout

(* A read starts with the tokens. *)
LEMMA ReadFits ==
    ASSUME DataOK, OpsFit, NEW o \in Ops, Read(o) PROVE OpsFit'
  <1>1. ASSUME Go(o, [Idle EXCEPT !.kind = "read", !.at = "read", !.tok = tokens])
        PROVE  OpsFit'
    <2> DEFINE c == [Idle EXCEPT !.kind = "read", !.at = "read", !.tok = tokens]
    <2>1. Fits(c)
      BY <1>1, SessionAssumption DEF DataOK, Idle, Fits, Calls, Kind, Holds, Steps, LoginSteps,
         UnlockSteps, RefreshSteps, EndSteps, Rotating
    <2>2. Go(o, c) BY <1>1
    <2> HIDE DEF c
    <2> QED BY <2>1, <2>2, GoFits
  <1> QED BY <1>1 DEF Read

-----------------------------------------------------------------------------
(* The other variables.  A leaf that draws a fresh identity cites FreshIn   *)
(* instead of expanding the pool.                                           *)

StoreOK == DataOK /\ mutq \in Seq(Ops)

LEMMA FreshPools ==
    /\ Fresh(Buffers, UsedBuffers) \subseteq Buffers
    /\ Fresh(Refresh, UsedTokens) \subseteq Refresh
    /\ Fresh(Seals, UsedSeals) \subseteq Seals
  BY DEF Fresh

(* The effect of LoginKdf on the store. *)
LEMMA LoginKdfStore ==
    ASSUME StoreOK, NEW o \in Ops, LoginKdf(o) PROVE StoreOK'
  BY FreshPools DEF LoginKdf, memory, storage, world, material, StoreOK, DataOK

(* The effect of LoginAuth on the store. *)
LEMMA LoginAuthStore ==
    ASSUME StoreOK, OpsFit, NEW o \in Ops, LoginAuth(o) PROVE StoreOK'
  <1>1. UNCHANGED <<gen, rev, cleared, era, keys, tokens, env, surface, mutq>>
    BY Zenon DEF LoginAuth, memory, storage, world
  <1>2. op[o].acct \in Accounts /\ op[o].buf \in Buffers /\ op[o].gen \in Nat
    BY Zenon DEF LoginAuth, OpsFit, Fits, Holds, Calls, LoginSteps, UnlockSteps,
       Rotating, RefreshSteps
  <1>3. \/ UNCHANGED <<totp, plain, tracked>>
        \/ totp' = totp /\ plain' = plain \ {op[o].buf} /\ tracked' = tracked \ {op[o].buf}
        \/ /\ totp' = [acct |-> op[o].acct, buf |-> op[o].buf, gen |-> op[o].gen]
           /\ plain' = plain /\ tracked' = tracked \ {op[o].buf}
    BY Zenon DEF LoginAuth, GiveUp, Forget, Untrack, material
  <1>4. spent' = spent \cap UsedTokens BY DEF LoginAuth
  <1> QED BY <1>1, <1>2, <1>3, <1>4 DEF StoreOK, DataOK, Pending

(* The effect of TotpVerified on the store. *)
LEMMA TotpVerifiedStore ==
    ASSUME StoreOK, OpsFit, NEW o \in Ops, TotpVerified(o) PROVE StoreOK'
  <1>1. UNCHANGED <<gen, rev, cleared, era, keys, tokens, env, surface, mutq, plain>>
    BY Zenon DEF TotpVerified, memory, storage, world
  <1>2. op[o].buf \in Buffers
    BY Zenon DEF TotpVerified, OpsFit, Fits, Holds, Calls, LoginSteps, UnlockSteps,
       Rotating, RefreshSteps
  <1>3. \/ UNCHANGED <<totp, tracked>>
        \/ totp' = None /\ tracked' = tracked \cup {op[o].buf}
    BY Zenon DEF TotpVerified
  <1>4. spent' = spent \cap UsedTokens BY Zenon DEF TotpVerified
  <1> QED BY <1>1, <1>2, <1>3, <1>4 DEF StoreOK, DataOK, Pending

(* The effect of OpenAccount on the store. *)
LEMMA OpenAccountStore ==
    ASSUME StoreOK, NEW o \in Ops, OpenAccount(o) PROVE StoreOK'
  <1>1. UNCHANGED <<gen, rev, cleared, era, keys, tokens, totp, env, spent, surface>>
    BY Zenon DEF OpenAccount, memory, storage, world
  <1>2. \/ plain' = plain \ {op[o].buf} /\ tracked' = tracked \ {op[o].buf} /\ mutq' = mutq
        \/ plain' = plain /\ tracked' = tracked /\ mutq' = Append(mutq, o)
    BY Zenon DEF OpenAccount, GiveUp, Forget, Untrack, Enqueue, material
  <1> QED BY <1>1, <1>2 DEF StoreOK, DataOK

(* The effect of UnlockDerive on the store. *)
LEMMA UnlockDeriveStore ==
    ASSUME StoreOK, NEW o \in Ops, UnlockDerive(o) PROVE StoreOK'
  BY FreshPools DEF UnlockDerive, memory, storage, world, material, StoreOK, DataOK

(* The effect of UnlockOpen on the store. *)
LEMMA UnlockOpenStore ==
    ASSUME StoreOK, OpsFit, NEW o \in Ops, UnlockOpen(o) PROVE StoreOK'
  <1>1. UNCHANGED <<gen, rev, cleared, era, keys, totp, env, spent, surface>>
    BY Zenon DEF UnlockOpen, storage, world
  <1>2. [acct |-> op[o].env.acct, tok |-> op[o].env.tok] \in Tokens \/ ~Opens(o)
    BY DEF UnlockOpen, OpsFit, Fits, Holds, Opens, Envelopes, Payloads, Tokens
  <1>3. \/ tokens' = tokens
        \/ Opens(o) /\ tokens' = [acct |-> op[o].env.acct, tok |-> op[o].env.tok]
    BY Zenon DEF UnlockOpen, Adopt
  <1>4. /\ plain' = plain \/ plain' = plain \ {op[o].buf}
        /\ tracked' = tracked \/ tracked' = tracked \ {op[o].buf}
        /\ mutq' = mutq \/ mutq' = Append(mutq, o)
    BY Zenon DEF UnlockOpen, Adopt, GiveUp, Forget, Untrack, Enqueue, material
  <1> QED BY <1>1, <1>2, <1>3, <1>4 DEF StoreOK, DataOK

(* The effect of UnlockBind on the store. *)
LEMMA UnlockBindStore ==
    ASSUME StoreOK, OpsFit, NEW o \in Ops, UnlockBind(o) PROVE StoreOK'
  <1>0. CASE Invalidate(o) BY <1>0 DEF Invalidate, Terminate, ClearPendingTotp, Forget, Enqueue, storage, world, StoreOK, DataOK
  <1>1. op[o].tok \in Tokens \cup {None} BY DEF OpsFit, Calls
  <1>2. CASE tokens' \in {tokens, None, op[o].tok} /\ UNCHANGED <<gen, rev, cleared, era, keys, totp, tracked, plain, env, spent, surface, mutq>>
    BY <1>1, <1>2 DEF StoreOK, DataOK
  <1>3. CASE plain' = plain \ {op[o].buf} /\ tracked' = tracked \ {op[o].buf} /\ UNCHANGED <<gen, rev, cleared, era, keys, tokens, totp, env, spent, surface, mutq>>
    BY <1>3 DEF StoreOK, DataOK
  <1> QED BY Zenon, <1>0, <1>2, <1>3 DEF UnlockBind, Adopt, GiveUp, Forget, Untrack, memory, material, storage, world

(* The effect of UnlockRefreshed on the store. *)
LEMMA UnlockRefreshedStore ==
    ASSUME StoreOK, NEW o \in Ops, UnlockRefreshed(o) PROVE StoreOK'
  <1>0. CASE Invalidate(o) BY <1>0 DEF Invalidate, Terminate, ClearPendingTotp, Forget, Enqueue, storage, world, StoreOK, DataOK
  <1>1. CASE tokens' \in {tokens, None} /\ UNCHANGED <<gen, rev, cleared, era, keys, totp, tracked, plain, env, spent, surface, mutq>>
    BY <1>1 DEF StoreOK, DataOK
  <1>2. CASE plain' = plain \ {op[o].buf} /\ tracked' = tracked \ {op[o].buf} /\ UNCHANGED <<gen, rev, cleared, era, keys, tokens, totp, env, spent, surface, mutq>>
    BY <1>2 DEF StoreOK, DataOK
  <1> QED BY Zenon, <1>0, <1>1, <1>2 DEF UnlockRefreshed, GiveUp, Forget, Untrack, memory, material, storage, world

(* The effect of RefreshRead on the store. *)
LEMMA RefreshReadStore ==
    ASSUME StoreOK, NEW o \in Ops, RefreshRead(o) PROVE StoreOK'
  <1>0. CASE Invalidate(o) BY <1>0 DEF Invalidate, Terminate, ClearPendingTotp, Forget, Enqueue, storage, world, StoreOK, DataOK
  <1>1. CASE tokens' \in {tokens, None} /\ mutq' \in {mutq, Append(mutq, o)} /\ UNCHANGED <<gen, rev, cleared, era, keys, totp, tracked, plain, env, spent, surface>>
    BY <1>1 DEF StoreOK, DataOK
  <1> QED BY Zenon, <1>0, <1>1 DEF RefreshRead, Enqueue, memory, material, storage, world

(* The effect of Rotated on the store. *)
LEMMA RotatedStore ==
    ASSUME StoreOK, OpsFit, NEW o \in Ops, Rotated(o) PROVE StoreOK'
  <1>1. UNCHANGED <<gen, rev, cleared, era, keys, tokens, totp, tracked, plain, env, surface>>
    BY Zenon DEF Rotated, memory, material, storage
  <1>2. op[o].tok.tok \in Refresh
    BY DEF Rotated, OpsFit, Fits, Holds, RefreshSteps, Rotating, Tokens
  <1>3. mutq' \in {mutq, Append(mutq, o)} /\ spent' = (spent \cap UsedTokens) \cup {op[o].tok.tok}
    BY Zenon DEF Rotated, Enqueue
  <1> QED BY <1>1, <1>2, <1>3 DEF StoreOK, DataOK

(* The effect of RefreshRestore on the store. *)
LEMMA RefreshRestoreStore ==
    ASSUME StoreOK, OpsFit, NEW o \in Ops, RefreshRestore(o) PROVE StoreOK'
  <1>1. CASE FailClosed(o) /\ mutq' = Append(Tail(mutq), o) /\ mutq # <<>> /\ UNCHANGED env
    BY <1>1 DEF StoreOK, RefreshRestore, FailClosed, Terminate, ClearPendingTotp, Forget, world,
       DataOK
  <1>2. CASE env' = op[o].env /\ UNCHANGED <<gen, memory, material, mutq>>
    BY <1>2 DEF RefreshRestore, OpsFit, Fits, Holds, RefreshSteps, Rotating, memory, material,
       world, StoreOK, DataOK
  <1> QED BY Zenon, <1>1, <1>2 DEF RefreshRestore, HasTurn

(* A continuation keeps the types of the store. *)
LEMMA ContinueStore ==
    ASSUME StoreOK, OpsFit, NEW o \in Ops, Continue(o) PROVE StoreOK'
  <1>0. Fits(op[o]) BY DEF OpsFit
  <1>1. CASE LoginKdf(o) BY <1>1, LoginKdfStore
  <1>2. CASE LoginAuth(o) BY <1>2, LoginAuthStore
  <1>3. CASE TotpVerified(o) BY <1>3, TotpVerifiedStore
  <1>4. CASE OpenAccount(o) BY <1>4, OpenAccountStore
  <1>5. CASE PutSession(o)
    BY <1>0, <1>5, SMTT(20) DEF PutSession, StartWrite, memory, material, storage, world, DataOK, StoreOK
  <1>6. CASE SessionWritten(o)
    BY <1>0, <1>6, SMTT(20) DEF SessionWritten, Write, memory, material, storage, world, DataOK, StoreOK, Fits, Kind, Holds, Calls, LoginSteps, UnlockSteps,
             RefreshSteps, Rotating
  <1>7. CASE LoginSuperseded(o)
    BY <1>0, <1>7, SMTT(20) DEF LoginSuperseded, GiveUp, Forget, Untrack, HasTurn, Release, memory, material, storage, world, DataOK, StoreOK
  <1>8. CASE LoginStored(o)
    BY <1>0, <1>8, SMTT(20) DEF LoginStored, HasTurn, Release, memory, material, storage, world, DataOK, StoreOK
  <1>9. CASE LoginShared(o)
    BY <1>0, <1>9, SMTT(20) DEF LoginShared, GiveUp, Forget, Untrack, LoginTokens, memory, material, storage, world, DataOK, StoreOK, Fits, Kind, Holds, Calls, LoginSteps, UnlockSteps,
             RefreshSteps, Rotating
  <1>10. CASE UnlockRead(o)
    BY <1>0, <1>10, SMTT(60) DEF UnlockRead, Invalidate, Terminate, ClearPendingTotp, Forget, Enqueue, memory, material, storage, world, DataOK, StoreOK
  <1>11. CASE UnlockDerive(o) BY <1>11, UnlockDeriveStore
  <1>12. CASE UnlockBind(o) BY <1>12, UnlockBindStore
  <1>13. CASE UnlockOpen(o) BY <1>13, UnlockOpenStore
  <1>14. CASE UnlockDiscard(o)
    BY <1>0, <1>14, SMTT(20) DEF UnlockDiscard, Forget, Untrack, HasTurn, Release, memory, material, storage, world, DataOK, StoreOK
  <1>15. CASE UnlockShared(o)
    BY <1>0, <1>15, SMTT(20) DEF UnlockShared, GiveUp, Forget, Untrack, memory, material, storage, world, DataOK, StoreOK
  <1>16. CASE UnlockRefreshed(o) BY <1>16, UnlockRefreshedStore
  <1>17. CASE RefreshRead(o) BY <1>17, RefreshReadStore
  <1>18. CASE PutMarker(o)
    BY <1>0, <1>18, SMTT(20) DEF PutMarker, StartWrite, memory, material, storage, world, DataOK, StoreOK
  <1>19. CASE MarkerWritten(o)
    BY <1>0, <1>19, SMTT(20) DEF MarkerWritten, Write, memory, material, storage, world, DataOK, StoreOK, Fits, Kind, Holds, Calls, LoginSteps, UnlockSteps,
             RefreshSteps, Rotating
  <1>20. CASE RefreshSuperseded(o)
    BY <1>0, <1>20, SMTT(20) DEF RefreshSuperseded, HasTurn, Release, memory, material, storage, world, DataOK, StoreOK
  <1>21. CASE RefreshMarked(o)
    BY <1>0, <1>21, SMTT(20) DEF RefreshMarked, HasTurn, Release, DropTokens, memory, material, storage, world, DataOK, StoreOK
  <1>22. CASE Rotated(o) BY <1>22, RotatedStore
  <1>23. CASE RefreshUnanswered(o)
    BY <1>0, <1>23, SMTT(60) DEF RefreshUnanswered, Enqueue, Tokens, memory, material, storage, world, DataOK, StoreOK, Fits, Kind, Holds, Calls, LoginSteps, UnlockSteps,
             RefreshSteps, Rotating
  <1>24. CASE RefreshRefused(o)
    BY <1>0, <1>24, SMTT(20) DEF RefreshRefused, FailClosed, Terminate, ClearPendingTotp, Forget, Enqueue, Untrack, memory, material, storage, world, DataOK, StoreOK
  <1>25. CASE PutReplacement(o)
    BY <1>0, <1>25, SMTT(20) DEF PutReplacement, StartWrite, memory, material, storage, world, DataOK, StoreOK
  <1>26. CASE ReplacementWritten(o)
    BY <1>0, <1>26, SMTT(20) DEF ReplacementWritten, Write, memory, material, storage, world, DataOK, StoreOK, Fits, Kind, Holds, Calls, LoginSteps, UnlockSteps,
             RefreshSteps, Rotating
  <1>27. CASE RefreshReplaced(o)
    BY <1>0, <1>27, SMTT(20) DEF RefreshReplaced, HasTurn, Release, memory, material, storage, world, DataOK, StoreOK, Fits, Kind, Holds, Calls, LoginSteps, UnlockSteps,
             RefreshSteps, Rotating
  <1>28. CASE RefreshRestore(o) BY <1>28, RefreshRestoreStore
  <1>29. CASE RefreshRestored(o)
    BY <1>0, <1>29, SMTT(20) DEF RefreshRestored, HasTurn, Release, RestoreTokens, memory, material, storage, world, DataOK, StoreOK, Fits, Kind, Holds, Calls, LoginSteps, UnlockSteps,
             RefreshSteps, Rotating
  <1>30. CASE RefreshClosed(o)
    BY <1>0, <1>30, SMTT(20) DEF RefreshClosed, HasTurn, Release, memory, material, storage, world, DataOK, StoreOK
  <1>31. CASE Invalidated(o)
    BY <1>0, <1>31, SMTT(20) DEF Invalidated, HasTurn, Release, memory, material, storage, world, DataOK, StoreOK
  <1>32. CASE LockRead(o)
    BY <1>0, <1>32, SMTT(60) DEF LockRead, Invalidate, Terminate, ClearPendingTotp, Forget, Enqueue, Bound, memory, material, storage, world, DataOK, StoreOK
  <1>33. CASE LogoutRead(o)
    BY <1>0, <1>33, SMTT(20) DEF LogoutRead, Invalidate, Terminate, ClearPendingTotp, Forget, Enqueue, Bound, memory, material, storage, world, DataOK, StoreOK
  <1>34. CASE LogoutClear(o)
    BY <1>0, <1>34, SMTT(20) DEF LogoutClear, HasTurn, Release, memory, material, storage, world, DataOK, StoreOK
  <1>35. CASE Publish(o)
    BY <1>0, <1>35, SMTT(20) DEF Publish, Forget, Untrack, Keys, memory, material, storage, world, DataOK, StoreOK, Fits, Kind, Holds, Calls, LoginSteps, UnlockSteps,
             RefreshSteps, Rotating
  <1>36. CASE PublishRefused(o)
    BY <1>0, <1>36, SMTT(20) DEF PublishRefused, GiveUp, Forget, Untrack, memory, material, storage, world, DataOK, StoreOK
  <1>37. CASE ReadDone(o)
    BY <1>0, <1>37, SMTT(60) DEF ReadDone, Invalidate, Terminate, ClearPendingTotp, Forget, Enqueue, Bound, memory, material, storage, world, DataOK, StoreOK
  <1> QED
    BY <1>1, <1>2, <1>3, <1>4, <1>5, <1>6, <1>7, <1>8, <1>9, <1>10, <1>11,
       <1>12, <1>13, <1>14, <1>15, <1>16, <1>17, <1>18, <1>19, <1>20, <1>21,
       <1>22, <1>23, <1>24, <1>25, <1>26, <1>27, <1>28, <1>29, <1>30, <1>31,
       <1>32, <1>33, <1>34, <1>35, <1>36, <1>37
    DEF Continue, LoginStep, UnlockStep, RefreshStep, EndStep

(* A new call keeps the types of the store. *)
LEMMA CallStore ==
    ASSUME StoreOK, NEW o \in Ops, Call(o) PROVE StoreOK'
  <1>1. ASSUME NEW a \in Accounts, Login(o, a) PROVE StoreOK'
    BY <1>1 DEF Login, ClearPendingTotp, Forget, storage, world, StoreOK, DataOK
  <1>2. CASE CompleteTotp(o)
    BY <1>2 DEF CompleteTotp, memory, material, storage, world, StoreOK, DataOK
  <1>3. CASE Unlock(o)
    BY <1>3 DEF Unlock, memory, material, storage, world, StoreOK, DataOK
  <1>4. CASE RefreshStart(o)
    BY <1>4 DEF RefreshStart, memory, material, storage, world, StoreOK, DataOK
  <1>5. CASE Lock(o)
    BY <1>5 DEF Lock, Terminate, ClearPendingTotp, Forget, memory, material, storage, world, StoreOK, DataOK
  <1>6. CASE Logout(o)
    BY <1>6 DEF Logout, Terminate, ClearPendingTotp, Forget, memory, material, storage, world, StoreOK, DataOK
  <1>7. CASE Read(o)
    BY <1>7 DEF Read, memory, material, storage, world, StoreOK, DataOK
  <1> QED BY <1>1, <1>2, <1>3, <1>4, <1>5, <1>6, <1>7 DEF Call

(* So do the actions of no call. *)
LEMMA OtherStore ==
    ASSUME StoreOK, DropTotp \/ SetAutoLockPolicy \/ Expire \/ Restart PROVE StoreOK'
  <1>1. CASE DropTotp
    BY <1>1 DEF DropTotp, Forget, storage, world, StoreOK, DataOK
  <1>2. CASE SetAutoLockPolicy
    BY <1>2 DEF SetAutoLockPolicy, memory, material, storage, world, StoreOK, DataOK
  <1>3. CASE Expire
    BY <1>3 DEF Expire, memory, material, storage, StoreOK, DataOK
  <1>4. CASE Restart
    <2>1. env' \in Envelopes \cup {None}
      BY <1>4 DEF Restart, StoreOK, DataOK, Envelopes, Payloads
    <2>2. mutq' \in Seq(Ops) BY <1>4 DEF Restart
    <2> QED BY <1>4, <2>1, <2>2 DEF Restart, StoreOK, DataOK
  <1> QED BY <1>1, <1>2, <1>3, <1>4

(* The slots are empty after a restart. *)
LEMMA OtherFits ==
    ASSUME OpsFit, DropTotp \/ SetAutoLockPolicy \/ Expire \/ Restart PROVE OpsFit'
  BY IdleFits DEF OpsFit, Fits, DropTotp, SetAutoLockPolicy, Expire, Restart

(* Every step of a call leaves calls that fit. *)
LEMMA ContinueFits ==
    ASSUME DataOK, OpsFit, NEW o \in Ops, Continue(o) PROVE OpsFit'
  BY LoginKdfFits, LoginAuthFits, TotpVerifiedFits, OpenAccountFits,
     PutSessionFits, SessionWrittenFits, LoginSupersededFits,
     LoginStoredFits, LoginSharedFits, UnlockReadFits, UnlockDeriveFits,
     UnlockBindFits, UnlockOpenFits, UnlockDiscardFits, UnlockSharedFits,
     UnlockRefreshedFits, RefreshReadFits, PutMarkerFits, MarkerWrittenFits,
     RefreshSupersededFits, RefreshMarkedFits, RotatedFits,
     RefreshUnansweredFits, RefreshRefusedFits, PutReplacementFits,
     ReplacementWrittenFits, RefreshReplacedFits, RefreshRestoreFits,
     RefreshRestoredFits, RefreshClosedFits, InvalidatedFits, LockReadFits,
     LogoutReadFits, LogoutClearFits, PublishFits, PublishRefusedFits,
     ReadDoneFits
  DEF Continue, LoginStep, UnlockStep, RefreshStep, EndStep

LEMMA CallFits ==
    ASSUME DataOK, OpsFit, NEW o \in Ops, Call(o) PROVE OpsFit'
  BY LoginFits, CompleteTotpFits, UnlockFits, RefreshStartFits, LockFits,
     LogoutFits, ReadFits DEF Call

-----------------------------------------------------------------------------
(* The counter of terminations. *)

(* Where a suspended call can owe the end of a termination. *)
Ending == {"lock", "logout", "clear", "closed", "invalidate"}

DebtsOf(f) == {d \in Ops \X {"own", "read"} : d[2] \in Owed(f[d[1]])}

(* There are finitely many debts. *)
LEMMA DebtsFinite ==
    ASSUME NEW f PROVE IsFiniteSet(DebtsOf(f)) /\ Cardinality(DebtsOf(f)) \in Nat
  <1>1. IsFiniteSet({"own", "read"})
    <2>1. IsFiniteSet({"own"}) BY FS_Singleton
    <2>2. IsFiniteSet({"own"} \cup {"read"}) BY <2>1, FS_AddElement
    <2> QED BY <2>2
  <1>2. IsFiniteSet(Ops \X {"own", "read"})
    BY <1>1, SessionAssumption, FS_Product
  <1>3. IsFiniteSet(DebtsOf(f)) BY <1>2, FS_Subset DEF DebtsOf
  <1> QED BY <1>3, FS_CardinalityType

(* The counter is a number while it is balanced. *)
LEMMA TermsNat == ASSUME TerminationsBalanced PROVE terms \in Nat
  BY DebtsFinite DEF TerminationsBalanced, Debts, DebtsOf

LEMMA TermsNatNext == ASSUME TerminationsBalanced' PROVE terms' \in Nat
  BY DebtsFinite DEF TerminationsBalanced, Debts, DebtsOf

(* A new debt of one call is one more debt. *)
LEMMA OneMoreDebt ==
    ASSUME NEW f, NEW g, NEW o \in Ops, NEW d \in {"own", "read"},
           \A p \in Ops \ {o} : Owed(g[p]) = Owed(f[p]),
           d \notin Owed(f[o]), Owed(g[o]) = Owed(f[o]) \cup {d}
    PROVE  Cardinality(DebtsOf(g)) = Cardinality(DebtsOf(f)) + 1
  <1>1. DebtsOf(g) = DebtsOf(f) \cup {<<o, d>>} BY DEF DebtsOf
  <1>2. <<o, d>> \notin DebtsOf(f) BY DEF DebtsOf
  <1> QED BY <1>1, <1>2, DebtsFinite, FS_AddElement

(* A call that begins a termination, or a read of it that does, owes its end. *)
LEMMA BeginBalance ==
    ASSUME TerminationsBalanced, terms' = terms + 1, NEW o \in Ops,
           NEW d \in {"own", "read"}, \A p \in Ops \ {o} : op'[p] = op[p],
           d \notin Owed(op[o]), Owed(op'[o]) = Owed(op[o]) \cup {d}
    PROVE  TerminationsBalanced'
  <1>1. Cardinality(DebtsOf(op')) = Cardinality(DebtsOf(op)) + 1
    BY OneMoreDebt
  <1> QED BY <1>1 DEF TerminationsBalanced, Debts, DebtsOf

(* A call that ends a termination owed its end. *)
LEMMA EndBalance ==
    ASSUME TerminationsBalanced, terms' = terms - 1, NEW o \in Ops,
           NEW d \in {"own", "read"},
           \A p \in Ops \ {o} : Owed(op'[p]) = Owed(op[p]),
           d \notin Owed(op'[o]), Owed(op[o]) = Owed(op'[o]) \cup {d}
    PROVE  TerminationsBalanced'
  <1>1. \A p \in Ops \ {o} : Owed(op[p]) = Owed(op'[p]) OBVIOUS
  <1>2. Cardinality(DebtsOf(op)) = Cardinality(DebtsOf(op')) + 1
    BY <1>1, OneMoreDebt
  <1>3. Cardinality(DebtsOf(op)) \in Nat /\ Cardinality(DebtsOf(op')) \in Nat
    BY DebtsFinite
  <1> QED BY <1>2, <1>3 DEF TerminationsBalanced, Debts, DebtsOf

(* A call that is not at the end of a termination owes nothing. *)
LEMMA OwesNothing ==
    ASSUME NEW c, Fits(c), c.at \notin Ending PROVE Owed(c) = {}
  BY DEF Fits, Kind, Owed, Ending, LoginSteps, UnlockSteps, RefreshSteps

(* A step of calls that are not ending, and end up not ending, is quiet. *)
Quiet == /\ terms' = terms
         /\ \A p \in Ops : \/ op'[p] = op[p]
                           \/ op[p].at \notin Ending /\ op'[p].at \notin Ending

LEMMA QuietBalance ==
    ASSUME OpsFit, OpsFit', TerminationsBalanced, Quiet PROVE TerminationsBalanced'
  BY OwesNothing DEF Quiet, OpsFit, Fits, DebtsOf, TerminationsBalanced, Debts

LEMMA GoQuiet ==
    ASSUME OpsFit, NEW o \in Ops, NEW c, Go(o, c), op[o].at \notin Ending,
           c.at \notin Ending, terms' = terms
    PROVE  Quiet
  BY DEF OpsFit, Go, Quiet

LEMMA EndQuiet ==
    ASSUME OpsFit, NEW o \in Ops, End(o) \/ GiveUp(o), op[o].at \notin Ending,
           terms' = terms
    PROVE  Quiet
  BY GoQuiet DEF End, GiveUp, Idle, Ending

LEMMA AtQuiet ==
    ASSUME OpsFit, NEW o \in Ops, NEW s, At(o, s), op[o].at \notin Ending,
           s \notin Ending, terms' = terms
    PROVE  Quiet
  BY GoQuiet DEF OpsFit, Calls, At

LEMMA SettleQuiet ==
    ASSUME OpsFit, NEW o \in Ops, Settle(o), op[o].at \notin Ending,
           terms' = terms
    PROVE  Quiet
  BY DEF Quiet, OpsFit, Settle, Calls, Ending, Idle

(* LoginKdf is quiet. *)
LEMMA LoginKdfQuiet ==
    ASSUME OpsFit, NEW o \in Ops, LoginKdf(o) PROVE Quiet
  <1>1. op[o] \in Calls /\ op[o].at \notin Ending
    BY DEF OpsFit, LoginKdf, Ending
  <1>2. terms' = terms BY Zenon DEF LoginKdf
  <1>3. ASSUME NEW b, Go(o, [op[o] EXCEPT !.at = "auth", !.buf = b])
        PROVE  Quiet
    <2> DEFINE c == [op[o] EXCEPT !.at = "auth", !.buf = b]
    <2>1. Go(o, c) BY <1>3
    <2>2. c.at \notin Ending BY <1>1 DEF Calls, Ending
    <2> HIDE DEF c
    <2> QED BY <1>1, <1>2, <2>1, <2>2, GoQuiet
  <1> QED
    BY Zenon, <1>1, <1>2, <1>3, EndQuiet DEF LoginKdf

(* LoginAuth is quiet. *)
LEMMA LoginAuthQuiet ==
    ASSUME OpsFit, NEW o \in Ops, LoginAuth(o) PROVE Quiet
  <1>1. op[o] \in Calls /\ op[o].at \notin Ending
    BY DEF OpsFit, LoginAuth, Ending
  <1>2. terms' = terms BY Zenon DEF LoginAuth
  <1>3. ASSUME NEW t, Go(o, [op[o] EXCEPT !.at = "account",
                        !.tok = [acct |-> op[o].acct, tok |-> t]])
        PROVE  Quiet
    <2> DEFINE c == [op[o] EXCEPT !.at = "account",
                        !.tok = [acct |-> op[o].acct, tok |-> t]]
    <2>1. Go(o, c) BY <1>3
    <2>2. c.at \notin Ending BY <1>1 DEF Calls, Ending
    <2> HIDE DEF c
    <2> QED BY <1>1, <1>2, <2>1, <2>2, GoQuiet
  <1> QED
    BY Zenon, <1>1, <1>2, <1>3, EndQuiet DEF LoginAuth

(* TotpVerified is quiet. *)
LEMMA TotpVerifiedQuiet ==
    ASSUME OpsFit, NEW o \in Ops, TotpVerified(o) PROVE Quiet
  <1>1. op[o] \in Calls /\ op[o].at \notin Ending
    BY DEF OpsFit, TotpVerified, Ending
  <1>2. terms' = terms BY Zenon DEF TotpVerified
  <1>3. ASSUME NEW t, Go(o, [op[o] EXCEPT !.at = "account",
                        !.tok = [acct |-> op[o].acct, tok |-> t]])
        PROVE  Quiet
    <2> DEFINE c == [op[o] EXCEPT !.at = "account",
                        !.tok = [acct |-> op[o].acct, tok |-> t]]
    <2>1. Go(o, c) BY <1>3
    <2>2. c.at \notin Ending BY <1>1 DEF Calls, Ending
    <2> HIDE DEF c
    <2> QED BY <1>1, <1>2, <2>1, <2>2, GoQuiet
  <1> QED
    BY Zenon, <1>1, <1>2, <1>3, EndQuiet DEF TotpVerified

(* OpenAccount is quiet. *)
LEMMA OpenAccountQuiet ==
    ASSUME OpsFit, NEW o \in Ops, OpenAccount(o) PROVE Quiet
  <1>1. op[o] \in Calls /\ op[o].at \notin Ending
    BY DEF OpsFit, OpenAccount, Ending
  <1>2. terms' = terms BY Zenon DEF OpenAccount
  <1>3. ASSUME NEW i, Go(o, [op[o] EXCEPT !.at = "put",
                        !.new = [acct |-> op[o].acct, era |-> era, state |-> "active",
                                 tok |-> op[o].tok.tok, sealed |-> op[o].buf \in plain,
                                 id |-> i, gen |-> op[o].gen]])
        PROVE  Quiet
    <2> DEFINE c == [op[o] EXCEPT !.at = "put",
                        !.new = [acct |-> op[o].acct, era |-> era, state |-> "active",
                                 tok |-> op[o].tok.tok, sealed |-> op[o].buf \in plain,
                                 id |-> i, gen |-> op[o].gen]]
    <2>1. Go(o, c) BY <1>3
    <2>2. c.at \notin Ending BY <1>1 DEF Calls, Ending
    <2> HIDE DEF c
    <2> QED BY <1>1, <1>2, <2>1, <2>2, GoQuiet
  <1> QED
    BY Zenon, <1>1, <1>2, <1>3, EndQuiet DEF OpenAccount

(* PutSession is quiet. *)
LEMMA PutSessionQuiet ==
    ASSUME OpsFit, NEW o \in Ops, PutSession(o) PROVE Quiet
  BY AtQuiet DEF OpsFit, PutSession, Ending, StartWrite, Write

(* SessionWritten is quiet. *)
LEMMA SessionWrittenQuiet ==
    ASSUME OpsFit, NEW o \in Ops, SessionWritten(o) PROVE Quiet
  BY AtQuiet DEF OpsFit, SessionWritten, Ending, StartWrite, Write

(* LoginSuperseded is quiet. *)
LEMMA LoginSupersededQuiet ==
    ASSUME OpsFit, NEW o \in Ops, LoginSuperseded(o) PROVE Quiet
  BY EndQuiet DEF OpsFit, LoginSuperseded, Ending

(* LoginStored is quiet. *)
LEMMA LoginStoredQuiet ==
    ASSUME OpsFit, NEW o \in Ops, LoginStored(o) PROVE Quiet
  <1>1. op[o] \in Calls /\ op[o].at \notin Ending
    BY DEF OpsFit, LoginStored, Ending
  <1>2. terms' = terms BY Zenon DEF LoginStored
  <1>3. ASSUME Go(o, [op[o] EXCEPT !.at = "share", !.new = None])
        PROVE  Quiet
    <2> DEFINE c == [op[o] EXCEPT !.at = "share", !.new = None]
    <2>1. Go(o, c) BY <1>3
    <2>2. c.at \notin Ending BY <1>1 DEF Calls, Ending
    <2> HIDE DEF c
    <2> QED BY <1>1, <1>2, <2>1, <2>2, GoQuiet
  <1> QED
    BY Zenon, <1>1, <1>2, <1>3 DEF LoginStored

(* LoginShared is quiet. *)
LEMMA LoginSharedQuiet ==
    ASSUME OpsFit, NEW o \in Ops, LoginShared(o) PROVE Quiet
  <1>1. op[o] \in Calls /\ op[o].at \notin Ending
    BY DEF OpsFit, LoginShared, Ending
  <1>2. terms' = terms BY Zenon DEF LoginShared
  <1>3. ASSUME Go(o, [op[o] EXCEPT !.at = "publish", !.rev = rev, !.tok = None])
        PROVE  Quiet
    <2> DEFINE c == [op[o] EXCEPT !.at = "publish", !.rev = rev, !.tok = None]
    <2>1. Go(o, c) BY <1>3
    <2>2. c.at \notin Ending BY <1>1 DEF Calls, Ending
    <2> HIDE DEF c
    <2> QED BY <1>1, <1>2, <2>1, <2>2, GoQuiet
  <1> QED
    BY Zenon, <1>1, <1>2, <1>3, EndQuiet DEF LoginShared

(* UnlockRead is quiet, but for an invalidation. *)
LEMMA UnlockReadQuiet ==
    ASSUME OpsFit, NEW o \in Ops, UnlockRead(o), ~Invalidate(o) PROVE Quiet
  <1>1. op[o] \in Calls /\ op[o].at \notin Ending
    BY DEF OpsFit, UnlockRead, Ending
  <1>2. terms' = terms BY Zenon DEF UnlockRead
  <1>3. ASSUME Go(o, [op[o] EXCEPT !.at = "derive", !.env = env, !.acct = env.acct])
        PROVE  Quiet
    <2> DEFINE c == [op[o] EXCEPT !.at = "derive", !.env = env, !.acct = env.acct]
    <2>1. Go(o, c) BY <1>3
    <2>2. c.at \notin Ending BY <1>1 DEF Calls, Ending
    <2> HIDE DEF c
    <2> QED BY <1>1, <1>2, <2>1, <2>2, GoQuiet
  <1> QED
    BY Zenon, <1>1, <1>2, <1>3, EndQuiet DEF UnlockRead

(* UnlockDerive is quiet. *)
LEMMA UnlockDeriveQuiet ==
    ASSUME OpsFit, NEW o \in Ops, UnlockDerive(o) PROVE Quiet
  <1>1. op[o] \in Calls /\ op[o].at \notin Ending
    BY DEF OpsFit, UnlockDerive, Ending
  <1>2. terms' = terms BY Zenon DEF UnlockDerive
  <1>3. ASSUME NEW b, Go(o, [op[o] EXCEPT !.at = IF tokens = None THEN "open" ELSE "bind",
                        !.buf = b, !.tok = tokens])
        PROVE  Quiet
    <2> DEFINE c == [op[o] EXCEPT !.at = IF tokens = None THEN "open" ELSE "bind",
                        !.buf = b, !.tok = tokens]
    <2>1. Go(o, c) BY <1>3
    <2>2. c.at \notin Ending BY <1>1 DEF Calls, Ending
    <2> HIDE DEF c
    <2> QED BY <1>1, <1>2, <2>1, <2>2, GoQuiet
  <1> QED
    BY Zenon, <1>1, <1>2, <1>3, EndQuiet DEF UnlockDerive

(* UnlockBind is quiet, but for an invalidation. *)
LEMMA UnlockBindQuiet ==
    ASSUME OpsFit, NEW o \in Ops, UnlockBind(o), ~Invalidate(o) PROVE Quiet
  <1>1. op[o] \in Calls /\ op[o].at \notin Ending
    BY DEF OpsFit, UnlockBind, Ending
  <1>2. terms' = terms BY Zenon DEF UnlockBind, Adopt
  <1>3. ASSUME Go(o, [op[o] EXCEPT !.at = "share", !.tok = None, !.env = None])
        PROVE  Quiet
    <2> DEFINE c == [op[o] EXCEPT !.at = "share", !.tok = None, !.env = None]
    <2>1. Go(o, c) BY <1>3
    <2>2. c.at \notin Ending BY <1>1 DEF Calls, Ending
    <2> HIDE DEF c
    <2> QED BY <1>1, <1>2, <2>1, <2>2, GoQuiet
  <1>4. CASE At(o, "open") BY <1>1, <1>2, <1>4, AtQuiet DEF Ending
  <1> QED
    BY Zenon, <1>1, <1>2, <1>3, <1>4, EndQuiet DEF UnlockBind, Adopt

(* UnlockOpen is quiet. *)
LEMMA UnlockOpenQuiet ==
    ASSUME OpsFit, NEW o \in Ops, UnlockOpen(o) PROVE Quiet
  <1>1. op[o] \in Calls /\ op[o].at \notin Ending
    BY DEF OpsFit, UnlockOpen, Ending
  <1>2. terms' = terms BY Zenon DEF UnlockOpen, Adopt
  <1>3. ASSUME Go(o, [op[o] EXCEPT !.at = "share", !.tok = None, !.env = None])
        PROVE  Quiet
    <2> DEFINE c == [op[o] EXCEPT !.at = "share", !.tok = None, !.env = None]
    <2>1. Go(o, c) BY <1>3
    <2>2. c.at \notin Ending BY <1>1 DEF Calls, Ending
    <2> HIDE DEF c
    <2> QED BY <1>1, <1>2, <2>1, <2>2, GoQuiet
  <1>4. CASE At(o, "discard") BY <1>1, <1>2, <1>4, AtQuiet DEF Ending
  <1> QED
    BY Zenon, <1>1, <1>2, <1>3, <1>4, EndQuiet DEF UnlockOpen, Adopt

(* UnlockDiscard is quiet. *)
LEMMA UnlockDiscardQuiet ==
    ASSUME OpsFit, NEW o \in Ops, UnlockDiscard(o) PROVE Quiet
  BY EndQuiet DEF OpsFit, UnlockDiscard, Ending

(* UnlockShared is quiet. *)
LEMMA UnlockSharedQuiet ==
    ASSUME OpsFit, NEW o \in Ops, UnlockShared(o) PROVE Quiet
  <1>1. op[o] \in Calls /\ op[o].at \notin Ending
    BY DEF OpsFit, UnlockShared, Ending
  <1>2. terms' = terms BY Zenon DEF UnlockShared
  <1>3. ASSUME Go(o, [op[o] EXCEPT !.at = "publish", !.rev = rev])
        PROVE  Quiet
    <2> DEFINE c == [op[o] EXCEPT !.at = "publish", !.rev = rev]
    <2>1. Go(o, c) BY <1>3
    <2>2. c.at \notin Ending BY <1>1 DEF Calls, Ending
    <2> HIDE DEF c
    <2> QED BY <1>1, <1>2, <2>1, <2>2, GoQuiet
  <1>4. ASSUME Go(o, [op[o] EXCEPT !.at = IF Refreshing THEN "wait" ELSE "rotate",
                        !.tok = tokens])
        PROVE  Quiet
    <2> DEFINE c == [op[o] EXCEPT !.at = IF Refreshing THEN "wait" ELSE "rotate",
                        !.tok = tokens]
    <2>1. Go(o, c) BY <1>4
    <2>2. c.at \notin Ending BY <1>1 DEF Calls, Ending
    <2> HIDE DEF c
    <2> QED BY <1>1, <1>2, <2>1, <2>2, GoQuiet
  <1> QED
    BY Zenon, <1>1, <1>2, <1>3, <1>4, EndQuiet DEF UnlockShared

(* UnlockRefreshed is quiet, but for an invalidation. *)
LEMMA UnlockRefreshedQuiet ==
    ASSUME OpsFit, NEW o \in Ops, UnlockRefreshed(o), ~Invalidate(o) PROVE Quiet
  <1>1. op[o] \in Calls /\ op[o].at \notin Ending
    BY DEF OpsFit, UnlockRefreshed, Ending
  <1>2. terms' = terms BY Zenon DEF UnlockRefreshed
  <1>3. ASSUME Go(o, [op[o] EXCEPT !.at = "publish", !.rev = rev])
        PROVE  Quiet
    <2> DEFINE c == [op[o] EXCEPT !.at = "publish", !.rev = rev]
    <2>1. Go(o, c) BY <1>3
    <2>2. c.at \notin Ending BY <1>1 DEF Calls, Ending
    <2> HIDE DEF c
    <2> QED BY <1>1, <1>2, <2>1, <2>2, GoQuiet
  <1> QED
    BY Zenon, <1>1, <1>2, <1>3, EndQuiet DEF UnlockRefreshed

(* RefreshRead is quiet, but for an invalidation. *)
LEMMA RefreshReadQuiet ==
    ASSUME OpsFit, NEW o \in Ops, RefreshRead(o), ~Invalidate(o) PROVE Quiet
  <1>1. op[o] \in Calls /\ op[o].at \notin Ending
    BY DEF OpsFit, RefreshRead, Ending
  <1>2. terms' = terms BY Zenon DEF RefreshRead
  <1>3. ASSUME NEW i, Go(o, [op[o] EXCEPT !.at = "mark", !.env = env, !.new = Marker(o, i)])
        PROVE  Quiet
    <2> DEFINE c == [op[o] EXCEPT !.at = "mark", !.env = env, !.new = Marker(o, i)]
    <2>1. Go(o, c) BY <1>3
    <2>2. c.at \notin Ending BY <1>1 DEF Calls, Ending
    <2> HIDE DEF c
    <2> QED BY <1>1, <1>2, <2>1, <2>2, GoQuiet
  <1> QED
    BY Zenon, <1>1, <1>2, <1>3, SettleQuiet DEF RefreshRead

(* PutMarker is quiet. *)
LEMMA PutMarkerQuiet ==
    ASSUME OpsFit, NEW o \in Ops, PutMarker(o) PROVE Quiet
  BY AtQuiet DEF OpsFit, PutMarker, Ending, StartWrite, Write

(* MarkerWritten is quiet. *)
LEMMA MarkerWrittenQuiet ==
    ASSUME OpsFit, NEW o \in Ops, MarkerWritten(o) PROVE Quiet
  BY AtQuiet DEF OpsFit, MarkerWritten, Ending, StartWrite, Write

(* RefreshSuperseded is quiet. *)
LEMMA RefreshSupersededQuiet ==
    ASSUME OpsFit, NEW o \in Ops, RefreshSuperseded(o) PROVE Quiet
  BY SettleQuiet DEF OpsFit, RefreshSuperseded, Ending

(* RefreshMarked is quiet. *)
LEMMA RefreshMarkedQuiet ==
    ASSUME OpsFit, NEW o \in Ops, RefreshMarked(o) PROVE Quiet
  BY AtQuiet DEF OpsFit, RefreshMarked, Ending

(* Rotated is quiet. *)
LEMMA RotatedQuiet ==
    ASSUME OpsFit, NEW o \in Ops, Rotated(o) PROVE Quiet
  <1>1. op[o] \in Calls /\ op[o].at \notin Ending
    BY DEF OpsFit, Rotated, Ending
  <1>2. terms' = terms BY Zenon DEF Rotated
  <1>3. ASSUME NEW t, NEW i, Go(o, [op[o] EXCEPT !.at = "replace", !.tok.tok = t,
                        !.new = Sealed(o, op[o].env, "active", t, i)])
        PROVE  Quiet
    <2> DEFINE c == [op[o] EXCEPT !.at = "replace", !.tok.tok = t,
                        !.new = Sealed(o, op[o].env, "active", t, i)]
    <2>1. Go(o, c) BY <1>3
    <2>2. c.at \notin Ending BY <1>1 DEF Calls, Ending
    <2> HIDE DEF c
    <2> QED BY <1>1, <1>2, <2>1, <2>2, GoQuiet
  <1> QED
    BY Zenon, <1>1, <1>2, <1>3, SettleQuiet DEF Rotated

(* RefreshUnanswered is quiet. *)
LEMMA RefreshUnansweredQuiet ==
    ASSUME OpsFit, NEW o \in Ops, RefreshUnanswered(o) PROVE Quiet
  BY AtQuiet, SettleQuiet DEF OpsFit, RefreshUnanswered, Ending

(* PutReplacement is quiet. *)
LEMMA PutReplacementQuiet ==
    ASSUME OpsFit, NEW o \in Ops, PutReplacement(o) PROVE Quiet
  BY AtQuiet DEF OpsFit, PutReplacement, Ending, StartWrite, Write

(* ReplacementWritten is quiet. *)
LEMMA ReplacementWrittenQuiet ==
    ASSUME OpsFit, NEW o \in Ops, ReplacementWritten(o) PROVE Quiet
  BY AtQuiet DEF OpsFit, ReplacementWritten, Ending, StartWrite, Write

(* RefreshReplaced is quiet. *)
LEMMA RefreshReplacedQuiet ==
    ASSUME OpsFit, NEW o \in Ops, RefreshReplaced(o) PROVE Quiet
  BY SettleQuiet DEF OpsFit, RefreshReplaced, Ending

(* RefreshRestored is quiet. *)
LEMMA RefreshRestoredQuiet ==
    ASSUME OpsFit, NEW o \in Ops, RefreshRestored(o) PROVE Quiet
  BY SettleQuiet DEF OpsFit, RefreshRestored, Ending

(* Publish is quiet. *)
LEMMA PublishQuiet ==
    ASSUME OpsFit, NEW o \in Ops, Publish(o) PROVE Quiet
  BY EndQuiet DEF OpsFit, Publish, Ending

(* PublishRefused is quiet. *)
LEMMA PublishRefusedQuiet ==
    ASSUME OpsFit, NEW o \in Ops, PublishRefused(o) PROVE Quiet
  BY EndQuiet DEF OpsFit, PublishRefused, Ending

(* ReadDone is quiet, but for an invalidation. *)
LEMMA ReadDoneQuiet ==
    ASSUME OpsFit, NEW o \in Ops, ReadDone(o), ~Invalidate(o) PROVE Quiet
  BY EndQuiet DEF OpsFit, ReadDone, Ending

(* The steps that begin or end a termination. *)
LEMMA InvalidateBalance ==
    ASSUME OpsFit, TerminationsBalanced, NEW o \in Ops, Invalidate(o),
           op[o].at \notin {"invalidate", "closed"}
    PROVE  TerminationsBalanced'
  BY BeginBalance DEF OpsFit, Invalidate, Terminate, At, Go, Calls, Owed

LEMMA FailClosedBalance ==
    ASSUME OpsFit, TerminationsBalanced, NEW o \in Ops, FailClosed(o),
           op[o].at \in {"network", "restore"}
    PROVE  TerminationsBalanced'
  BY BeginBalance DEF OpsFit, Fits, Kind, LoginSteps, UnlockSteps, RefreshSteps, FailClosed,
     Terminate, At, Go, Calls, Owed

LEMMA RefreshRefusedBalance ==
    ASSUME OpsFit, OpsFit', TerminationsBalanced, NEW o \in Ops, RefreshRefused(o)
    PROVE  TerminationsBalanced'
  BY FailClosedBalance, SettleQuiet, QuietBalance DEF RefreshRefused, Ending

LEMMA RefreshRestoreBalance ==
    ASSUME OpsFit, OpsFit', TerminationsBalanced, NEW o \in Ops, RefreshRestore(o)
    PROVE  TerminationsBalanced'
  BY FailClosedBalance, AtQuiet, QuietBalance DEF RefreshRestore, Ending

(* The calls that a settled refresh resumes owed nothing and owe nothing. *)
LEMMA SettleOthers ==
    ASSUME OpsFit, NEW o \in Ops, Settle(o)
    PROVE  /\ \A p \in Ops \ {o} : Owed(op'[p]) = Owed(op[p])
           /\ op[o].kind \notin {"lock", "logout"} => Owed(op'[o]) = {}
  <1>1. ASSUME NEW p \in Ops, op[p].at = "wait" \/ (p = o /\ op[p].kind = "unlock")
        PROVE  op'[p].at = "refreshed" /\ op'[p].kind = op[p].kind
    BY <1>1 DEF OpsFit, Settle, Calls
  <1>2. ASSUME NEW p \in Ops \ {o} PROVE Owed(op'[p]) = Owed(op[p])
    BY <1>1 DEF Owed, Settle
  <1>3. ASSUME op[o].kind \notin {"lock", "logout"} PROVE Owed(op'[o]) = {}
    BY <1>1, <1>3 DEF Owed, Idle, Settle
  <1> QED BY <1>2, <1>3

LEMMA RefreshClosedBalance ==
    ASSUME OpsFit, TerminationsBalanced, NEW o \in Ops, RefreshClosed(o)
    PROVE  TerminationsBalanced'
  BY SettleOthers, EndBalance DEF RefreshClosed, EndTermination, OpsFit, Fits, Kind, LoginSteps,
     UnlockSteps, RefreshSteps, Owed

(* A call that stops owing an end, and changes no other call. *)
LEMMA DoneBalance ==
    ASSUME OpsFit, TerminationsBalanced, NEW o \in Ops, NEW c, Go(o, c),
           terms' = terms - 1, NEW d \in {"own", "read"},
           d \notin Owed(c), Owed(op[o]) = Owed(c) \cup {d}
    PROVE  TerminationsBalanced'
  BY EndBalance DEF OpsFit, Go

LEMMA InvalidatedBalance ==
    ASSUME OpsFit, TerminationsBalanced, NEW o \in Ops, Invalidated(o)
    PROVE  TerminationsBalanced'
  <1>1. op[o] \in Calls /\ op[o].at = "invalidate" /\ terms' = terms - 1
    BY DEF OpsFit, Invalidated, EndTermination
  <1>2. CASE op[o].kind \in {"lock", "logout"} /\ At(o, op[o].kind)
    <2> DEFINE c == [op[o] EXCEPT !.at = op[o].kind]
    <2>1. c.kind = op[o].kind /\ c.at = op[o].kind BY <1>1 DEF Calls
    <2>2. Go(o, c) BY <1>2 DEF At
    <2> HIDE DEF c
    <2>3. "read" \notin Owed(c) /\ Owed(op[o]) = Owed(c) \cup {"read"}
      BY <1>1, <1>2, <2>1 DEF Owed
    <2> QED BY <1>1, <2>2, <2>3, DoneBalance
  <1>3. CASE op[o].kind = "unlock" /\ op[o].env # None /\ At(o, "open")
    <2> DEFINE c == [op[o] EXCEPT !.at = "open"]
    <2>1. c.kind = op[o].kind /\ c.at = "open" BY <1>1 DEF Calls
    <2>2. Go(o, c) BY <1>3 DEF At
    <2> HIDE DEF c
    <2>3. "read" \notin Owed(c) /\ Owed(op[o]) = Owed(c) \cup {"read"}
      BY <1>1, <1>3, <2>1 DEF Owed
    <2> QED BY <1>1, <2>2, <2>3, DoneBalance
  <1>4. CASE op[o].kind \notin {"lock", "logout"} /\ Settle(o)
    BY <1>1, <1>4, SettleOthers, EndBalance DEF Owed
  <1>5. CASE op[o].kind \notin {"lock", "logout"} /\ End(o)
    BY <1>1, <1>5, DoneBalance DEF Owed, Idle, End
  <1>6. CASE op[o].kind = "unlock" /\ At(o, "refreshed")
    <2> DEFINE c == [op[o] EXCEPT !.at = "refreshed"]
    <2>1. c.kind = op[o].kind /\ c.at = "refreshed" BY <1>1 DEF Calls
    <2>2. Go(o, c) BY <1>6 DEF At
    <2> HIDE DEF c
    <2>3. "read" \notin Owed(c) /\ Owed(op[o]) = Owed(c) \cup {"read"}
      BY <1>1, <1>6, <2>1 DEF Owed
    <2> QED BY <1>1, <2>2, <2>3, DoneBalance
  <1> QED BY <1>2, <1>3, <1>4, <1>5, <1>6 DEF Invalidated

LEMMA LockReadBalance ==
    ASSUME OpsFit, TerminationsBalanced, NEW o \in Ops, LockRead(o)
    PROVE  TerminationsBalanced'
  <1>1. op[o].at = "lock" /\ op[o].kind = "lock"
    BY DEF LockRead, OpsFit, Fits, Kind, LoginSteps, UnlockSteps, RefreshSteps
  <1>2. CASE Invalidate(o) BY <1>1, <1>2, InvalidateBalance
  <1>3. CASE End(o) /\ terms' = terms - 1
    BY <1>1, <1>3, DoneBalance DEF Owed, Idle, End
  <1> QED BY <1>2, <1>3 DEF LockRead, EndTermination

LEMMA LogoutReadBalance ==
    ASSUME OpsFit, TerminationsBalanced, NEW o \in Ops, LogoutRead(o)
    PROVE  TerminationsBalanced'
  <1>1. op[o] \in Calls /\ op[o].at = "logout" /\ op[o].kind = "logout"
    BY DEF LogoutRead, OpsFit, Fits, Kind, LoginSteps, UnlockSteps, RefreshSteps
  <1>2. CASE Invalidate(o) BY <1>1, <1>2, InvalidateBalance
  <1>3. CASE Go(o, [op[o] EXCEPT !.at = "clear", !.acct = Account(env)]) /\ terms' = terms
    BY <1>1, <1>3 DEF OpsFit, Go, Calls, Owed, DebtsOf, TerminationsBalanced, Debts
  <1> QED BY <1>2, <1>3 DEF LogoutRead

LEMMA LogoutClearBalance ==
    ASSUME OpsFit, TerminationsBalanced, NEW o \in Ops, LogoutClear(o)
    PROVE  TerminationsBalanced'
  BY DoneBalance DEF LogoutClear, OpsFit, Fits, Kind, LoginSteps, UnlockSteps, RefreshSteps, Owed,
     Idle, EndTermination, End

(* No action finds the session expired in the middle of another invalidation. *)
LEMMA ReadersBalance ==
    ASSUME OpsFit, OpsFit', TerminationsBalanced, NEW o \in Ops,
           \/ UnlockRead(o) \/ UnlockBind(o) \/ UnlockRefreshed(o)
           \/ RefreshRead(o) \/ ReadDone(o)
    PROVE  TerminationsBalanced'
  BY InvalidateBalance, UnlockReadQuiet, UnlockBindQuiet, UnlockRefreshedQuiet, RefreshReadQuiet,
     ReadDoneQuiet, QuietBalance DEF UnlockRead, UnlockBind, UnlockRefreshed, RefreshRead, ReadDone

(* Every step of a call keeps the balance. *)
LEMMA ContinueBalance ==
    ASSUME OpsFit, OpsFit', TerminationsBalanced, NEW o \in Ops, Continue(o)
    PROVE  TerminationsBalanced'
  <1>1. CASE LoginStep(o)
    BY <1>1, QuietBalance, LoginKdfQuiet, LoginAuthQuiet, TotpVerifiedQuiet,
       OpenAccountQuiet, PutSessionQuiet, SessionWrittenQuiet,
       LoginSupersededQuiet, LoginStoredQuiet, LoginSharedQuiet DEF LoginStep
  <1>2. CASE UnlockStep(o)
    BY <1>2, QuietBalance, ReadersBalance, UnlockDeriveQuiet, UnlockOpenQuiet,
       UnlockDiscardQuiet, UnlockSharedQuiet DEF UnlockStep
  <1>3. CASE RefreshStep(o)
    BY <1>3, QuietBalance, ReadersBalance, PutMarkerQuiet, MarkerWrittenQuiet,
       RefreshSupersededQuiet, RefreshMarkedQuiet, RotatedQuiet,
       RefreshUnansweredQuiet, RefreshRefusedBalance, PutReplacementQuiet,
       ReplacementWrittenQuiet, RefreshReplacedQuiet, RefreshRestoreBalance,
       RefreshRestoredQuiet, RefreshClosedBalance DEF RefreshStep
  <1>4. CASE EndStep(o)
    BY <1>4, InvalidatedBalance, LockReadBalance, LogoutReadBalance,
       LogoutClearBalance DEF EndStep
  <1>5. CASE Publish(o) \/ PublishRefused(o) \/ ReadDone(o)
    BY <1>5, QuietBalance, ReadersBalance, PublishQuiet, PublishRefusedQuiet
  <1> QED BY <1>1, <1>2, <1>3, <1>4, <1>5 DEF Continue

(* A call that starts in an empty slot, and not to end a lifecycle. *)
LEMMA StartBalance ==
    ASSUME OpsFit, OpsFit', TerminationsBalanced, NEW o \in Ops, NEW c,
           op[o] = Idle, Go(o, c), c.at \notin Ending, terms' = terms
    PROVE  TerminationsBalanced'
  BY GoQuiet, QuietBalance DEF Idle, Ending

(* A call that starts to end the lifecycle. *)
LEMMA StartEnding ==
    ASSUME OpsFit, TerminationsBalanced, NEW o \in Ops, NEW c, op[o] = Idle,
           Go(o, c), c.kind \in {"lock", "logout"}, c.at # "invalidate",
           terms' = terms + 1
    PROVE  TerminationsBalanced'
  BY BeginBalance DEF OpsFit, Go, Owed, Idle

LEMMA CallBalance ==
    ASSUME OpsFit, OpsFit', TerminationsBalanced, NEW o \in Ops, Call(o)
    PROVE  TerminationsBalanced'
  <1>1. ASSUME NEW a \in Accounts, Login(o, a) PROVE TerminationsBalanced'
    <2> DEFINE c == [Idle EXCEPT !.kind = "login", !.at = "kdf", !.gen = gen, !.acct = a]
    <2>1. c.at \notin Ending BY DEF Idle, Ending
    <2>2. op[o] = Idle /\ Go(o, c) /\ terms' = terms BY <1>1 DEF Login, Slot
    <2> HIDE DEF c
    <2> QED BY <2>1, <2>2, StartBalance
  <1>2. CASE CompleteTotp(o)
    <2> DEFINE c == [Idle EXCEPT !.kind = "login", !.at = "totp", !.gen = gen,
                                 !.acct = totp.acct, !.buf = totp.buf]
    <2>1. c.at \notin Ending BY DEF Idle, Ending
    <2>2. op[o] = Idle /\ Go(o, c) /\ terms' = terms BY <1>2 DEF CompleteTotp, Slot
    <2> HIDE DEF c
    <2> QED BY <2>1, <2>2, StartBalance
  <1>3. CASE Unlock(o)
    <2> DEFINE c == [Idle EXCEPT !.kind = "unlock", !.at = "envelope", !.gen = gen]
    <2>1. c.at \notin Ending BY DEF Idle, Ending
    <2>2. op[o] = Idle /\ Go(o, c) /\ terms' = terms BY <1>3 DEF Unlock, Slot
    <2> HIDE DEF c
    <2> QED BY <2>1, <2>2, StartBalance
  <1>4. CASE RefreshStart(o)
    <2> DEFINE c == [Idle EXCEPT !.kind = "refresh", !.at = "rotate", !.gen = gen,
                                 !.buf = BufferOf(keys), !.tok = tokens]
    <2>1. c.at \notin Ending BY DEF Idle, Ending
    <2>2. op[o] = Idle /\ Go(o, c) /\ terms' = terms BY <1>4 DEF RefreshStart, Slot
    <2> HIDE DEF c
    <2> QED BY <2>1, <2>2, StartBalance
  <1>5. CASE Lock(o)
    <2> DEFINE c == [Idle EXCEPT !.kind = "lock", !.at = "lock"]
    <2>1. c.kind = "lock" /\ c.at = "lock" BY DEF Idle
    <2>2. op[o] = Idle BY <1>5 DEF Lock, Slot
    <2>3. CASE UNCHANGED op /\ terms' = terms + 0
      BY <2>3, TermsNat, QuietBalance DEF Quiet
    <2>4. CASE Go(o, c) /\ terms' = terms + 1
      <3> HIDE DEF c
      <3> QED BY <2>1, <2>2, <2>4, StartEnding
    <2> QED BY <1>5, <2>3, <2>4 DEF Lock, Terminate
  <1>6. CASE Logout(o)
    <2> DEFINE c == [Idle EXCEPT !.kind = "logout", !.at = "logout"]
    <2>1. c.kind = "logout" /\ c.at = "logout" BY DEF Idle
    <2>2. op[o] = Idle /\ Go(o, c) /\ terms' = terms + 1 BY <1>6 DEF Logout, Slot, Terminate
    <2> HIDE DEF c
    <2> QED BY <2>1, <2>2, StartEnding
  <1>7. CASE Read(o)
    <2> DEFINE c == [Idle EXCEPT !.kind = "read", !.at = "read", !.tok = tokens]
    <2>1. c.at \notin Ending BY DEF Idle, Ending
    <2>2. op[o] = Idle /\ Go(o, c) /\ terms' = terms BY <1>7 DEF Read, Slot
    <2> HIDE DEF c
    <2> QED BY <2>1, <2>2, StartBalance
  <1> QED BY <1>1, <1>2, <1>3, <1>4, <1>5, <1>6, <1>7 DEF Call

(* A worker that has just started owes nothing. *)
LEMMA IdleBalance ==
    DebtsOf([o \in Ops |-> Idle]) = {}
  BY DEF DebtsOf, Owed, Idle

LEMMA OtherBalance ==
    ASSUME TerminationsBalanced, DropTotp \/ SetAutoLockPolicy \/ Expire \/ Restart
    PROVE  TerminationsBalanced'
  BY IdleBalance, FS_EmptySet DEF TerminationsBalanced, Debts, DebtsOf, DropTotp, SetAutoLockPolicy,
     Expire, Restart

-----------------------------------------------------------------------------
(* Live keys.  A step leaves them, the generation and the counter alone, or  *)
(* wipes them, or ends a termination, when there are none.                   *)

LEMMA ContinueKeys ==
    ASSUME KeysAreCurrent, terms \in Nat, terms' \in Nat, NEW o \in Ops, Continue(o)
    PROVE  KeysAreCurrent'
  <1> DEFINE Kept == UNCHANGED <<gen, terms, keys>>
             Ended == keys' = keys /\ gen' = gen /\ terms' = terms - 1
  <1>1. CASE Kept \/ keys' = None \/ Ended BY <1>1 DEF KeysAreCurrent
  <1>2. CASE Publish(o) BY <1>2 DEF Publish, KeysAreCurrent, Alive, Current
  <1>3. Invalidate(o) \/ FailClosed(o) => keys' = None
    BY DEF Invalidate, FailClosed, Terminate
  <1>4. LoginStep(o) => Kept
    BY Zenon DEF LoginStep, LoginKdf, LoginAuth, TotpVerified, OpenAccount, PutSession,
       SessionWritten, StartWrite, Write, LoginSuperseded, LoginStored, LoginShared, memory
  <1>5. UnlockStep(o) => Kept \/ Invalidate(o)
    BY Zenon DEF UnlockStep, UnlockRead, UnlockDerive, UnlockBind, UnlockOpen,
       UnlockDiscard, UnlockShared, UnlockRefreshed, memory
  <1>6. RefreshStep(o) => Kept \/ Invalidate(o) \/ FailClosed(o) \/ Ended
    BY Zenon DEF RefreshStep, RefreshRead, PutMarker, MarkerWritten, StartWrite, Write,
       RefreshSuperseded, RefreshMarked, Rotated, RefreshUnanswered, RefreshRefused,
       PutReplacement, ReplacementWritten, RefreshReplaced, RefreshRestore,
       RefreshRestored, RefreshClosed, EndTermination, memory
  <1>7. EndStep(o) => Kept \/ Invalidate(o) \/ Ended
    BY Zenon DEF EndStep, Invalidated, LockRead, LogoutRead, LogoutClear, EndTermination
  <1>8. PublishRefused(o) \/ ReadDone(o) => Kept \/ Invalidate(o)
    BY Zenon DEF PublishRefused, ReadDone, memory
  <1> QED BY Zenon, <1>1, <1>2, <1>3, <1>4, <1>5, <1>6, <1>7, <1>8 DEF Continue

LEMMA CallKeys ==
    ASSUME KeysAreCurrent, NEW o \in Ops, Call(o) PROVE KeysAreCurrent'
  BY DEF KeysAreCurrent, Call, Login, CompleteTotp, Unlock, RefreshStart, Lock, Logout, Read,
     Terminate, memory

LEMMA OtherKeys ==
    ASSUME KeysAreCurrent, DropTotp \/ SetAutoLockPolicy \/ Expire \/ Restart
    PROVE  KeysAreCurrent'
  BY DEF KeysAreCurrent, DropTotp, SetAutoLockPolicy, Expire, Restart, memory

-----------------------------------------------------------------------------
(* The invariant. *)

Inv == StoreOK /\ OpsFit /\ TerminationsBalanced /\ KeysAreCurrent

(* The initial state satisfies it. *)
LEMMA InvInit == Init => Inv
  <1> SUFFICES ASSUME Init PROVE Inv OBVIOUS
  <1>1. OpsFit BY IdleFits DEF Fits, Init, OpsFit
  <1>2. env \in Envelopes \cup {None}
    <2>1. 1 \in Refresh /\ 1 \in Seals
      BY SessionAssumption, FS_CardinalityType DEF Slots, Refresh, Seals
    <2>2. ASSUME NEW e \in Remembered PROVE e \in Payloads({"active"}, Refresh)
      <3>1. /\ e.acct \in Accounts
            /\ e = [acct |-> e.acct, era |-> 0, state |-> "active", tok |-> 1,
                    sealed |-> TRUE, id |-> 1, gen |-> 0]
        BY DEF Remembered
      <3>2. [acct |-> e.acct, era |-> 0, state |-> "active", tok |-> 1,
             sealed |-> TRUE, id |-> 1, gen |-> 0] \in Payloads({"active"}, Refresh)
        BY <2>1, <3>1, SMT DEF Payloads
      <3> QED BY <3>1, <3>2
    <2>3. env = None \/ env \in Remembered BY DEF Init
    <2> QED BY <2>2, <2>3 DEF Envelopes
  <1>3. StoreOK BY <1>2 DEF Init, StoreOK, DataOK
  <1>4. TerminationsBalanced
    BY IdleBalance, FS_EmptySet DEF Init, TerminationsBalanced, Debts, DebtsOf
  <1> QED BY <1>1, <1>3, <1>4 DEF Init, Inv, KeysAreCurrent

(* Every step keeps it. *)
LEMMA InvNext == Inv /\ [Next]_vars => Inv'
  <1> SUFFICES ASSUME Inv, [Next]_vars PROVE Inv' OBVIOUS
  <1>1. terms \in Nat BY TermsNat DEF Inv
  <1>2. ASSUME NEW o \in Ops, Continue(o) PROVE Inv'
    BY <1>2, ContinueStore, ContinueFits, ContinueBalance, <1>1, TermsNatNext, ContinueKeys DEF Inv,
       StoreOK
  <1>3. ASSUME NEW o \in Ops, Call(o) PROVE Inv'
    BY <1>3, CallStore, CallFits, CallBalance, CallKeys DEF Inv, StoreOK
  <1>4. CASE DropTotp \/ SetAutoLockPolicy \/ Expire \/ Restart
    BY <1>4, OtherStore, OtherFits, OtherBalance, OtherKeys DEF Inv
  <1>5. CASE UNCHANGED vars
    BY <1>5 DEF vars, Inv, StoreOK, DataOK, OpsFit, Fits, TerminationsBalanced, Debts,
       KeysAreCurrent
  <1> QED BY <1>2, <1>3, <1>4, <1>5 DEF Next

(* What Inv says in the terms of the specification. *)
LEMMA InvImplies == Inv => TypeOK /\ TerminationsBalanced /\ KeysAreCurrent
  BY TermsNat DEF Inv, StoreOK, DataOK, OpsFit, TypeOK

(* The invariant holds of every behaviour. *)
LEMMA Invariance == Spec => []Inv
  BY InvInit, InvNext, PTL DEF Spec

(* Every variable keeps its type, and no call of SessionManager resumes      *)
(* without the account, buffers, tokens or envelope its next step uses.      *)
THEOREM TypeCorrect == Spec => []TypeOK
  BY Invariance, InvImplies, PTL

(* lifecycleTerminations counts exactly the locks, logouts, invalidations    *)
(* and failed rotations under way, whatever interleaves with them: it never  *)
(* leaks, which would refuse every later unlock, and never falls short,      *)
(* which would let a login publish in the middle of a logout.                *)
THEOREM Balanced == Spec => []TerminationsBalanced
  BY Invariance, InvImplies, PTL

(* Keys in memory belong to the lifecycle that is current and not ending: no *)
(* login or unlock publishes keys after a lock, logout, expiry or refused    *)
(* rotation that began while it was suspended.                               *)
THEOREM KeysCurrent == Spec => []KeysAreCurrent
  BY Invariance, InvImplies, PTL

(* Together, for any number of calls and accounts: keys are live only in the *)
(* lifecycle they were published in, and the count that gates publication is *)
(* exact (SessionManager's lifecycleGeneration and lifecycleTerminations).   *)
THEOREM KeysSound == Spec => []KeysAreSound
  <1>1. Inv => KeysAreSound BY InvImplies DEF KeysAreSound
  <1> QED BY <1>1, Invariance, PTL

-----------------------------------------------------------------------------
(* What a termination ends.                                                  *)

(* A call that may change the session began under no termination, so one     *)
(* that is of this lifecycle is under none; what it is about to store is of  *)
(* its own lifecycle; while a write is under way the turn on the queue is    *)
(* its call's, so nothing is cleared meanwhile; and what a refresh would     *)
(* restore was read after the last clearing, unless its lifecycle is over.   *)
Changes(c) == c.kind \in {"login", "unlock", "refresh"}
Queued == {"put", "mark", "replace"}
UnderWay == {"putting", "marking", "replacing"}
CallStores(o) ==
    /\ op[o].gen <= gen
    /\ Changes(op[o]) /\ op[o].gen = gen => terms = 0
    /\ op[o].at \in Queued => op[o].new.gen = op[o].gen
    /\ op[o].at \in UnderWay => HasTurn(o) /\ op[o].new.gen >= cleared
    /\ op[o].at \in Rotating /\ op[o].gen = gen => op[o].env.gen >= cleared
StoreKept ==
    /\ cleared <= gen /\ ClearedStaysCleared
    /\ \A o \in Ops : CallStores(o)

-----------------------------------------------------------------------------
(* What a step does to the calls. *)

Others(o) == \A q \in Ops \ {o} : op'[q] = op[q]

(* One call changes, and no other. *)
LEMMA GoForm ==
    ASSUME OpsFit, NEW o \in Ops, NEW c, Go(o, c) PROVE op'[o] = c /\ Others(o)
  BY DEF OpsFit, Go, Others

(* A call is suspended at another step. *)
LEMMA AtForm ==
    ASSUME OpsFit, NEW o \in Ops, NEW s, At(o, s)
    PROVE  /\ op'[o].at = s /\ op'[o].kind = op[o].kind /\ op'[o].gen = op[o].gen
           /\ op'[o].buf = op[o].buf /\ op'[o].new = op[o].new /\ op'[o].env = op[o].env
           /\ Others(o)
  BY GoForm DEF OpsFit, At, Calls

(* A call ends. *)
LEMMA EndForm ==
    ASSUME OpsFit, NEW o \in Ops, End(o) \/ GiveUp(o) PROVE op'[o] = Idle /\ Others(o)
  BY GoForm DEF End, GiveUp

(* A call that goes on with what it has. *)
Goes(q) == /\ op'[q].kind = op[q].kind /\ op'[q].gen = op[q].gen
           /\ op'[q].buf = op[q].buf

(* A refresh is over: who waited for it goes on. *)
LEMMA SettleForm ==
    ASSUME OpsFit, NEW o \in Ops, Settle(o)
    PROVE  \A q \in Ops :
             \/ q # o /\ op'[q] = op[q]
             \/ Goes(q) /\ op'[q].at = "refreshed"
             \/ q = o /\ op'[q] = Idle /\ op[o].kind # "unlock"
  BY DEF OpsFit, Settle, Calls, Goes

-----------------------------------------------------------------------------
(* What is stored. *)

(* A call that only goes on, ends or begins cannot disturb what is stored.   *)
Light(q) ==
    /\ op'[q].at \notin Queued \cup UnderWay \cup Rotating
    /\ \/ op'[q] = Idle
       \/ op'[q].kind = op[q].kind /\ op'[q].gen = op[q].gen

(* The turn on the queue passes on only from the call that has it. *)
TurnKept(o) ==
    \/ mutq' = mutq
    \/ \E p \in Ops : mutq' = Append(mutq, p)
    \/ HasTurn(o) /\ mutq' = Tail(mutq)
    \/ HasTurn(o) /\ \E p \in Ops : mutq' = Append(Tail(mutq), p)

(* The turn of another call is not taken away. *)
LEMMA TurnStays ==
    ASSUME Inv, NEW o \in Ops, NEW q \in Ops, q # o, TurnKept(o), HasTurn(q)
    PROVE  HasTurn(q)'
  BY DEF Inv, StoreOK, HasTurn, TurnKept

(* A call that the step does not touch, while no termination begins or ends. *)
LEMMA StoresSteady ==
    ASSUME Inv, StoreKept, NEW o \in Ops, NEW q \in Ops, q # o, op'[q] = op[q],
           TurnKept(o), gen' = gen, terms' = terms, cleared' = cleared
    PROVE  CallStores(q)'
  BY TurnStays DEF StoreKept, CallStores, Changes

(* A call that stores nothing, whoever begins it. *)
LEMMA StoresLight ==
    ASSUME Inv, StoreKept, NEW q \in Ops, Light(q), gen' = gen, terms' = terms
    PROVE  CallStores(q)'
  BY DEF StoreKept, Inv, StoreOK, DataOK, Light, CallStores, Changes, Idle

(* A step that neither begins nor ends a termination. *)
LEMMA StoreAgain ==
    ASSUME Inv, StoreKept, NEW o \in Ops, TurnKept(o), Others(o), CallStores(o)',
           gen' = gen, terms' = terms, cleared' = cleared, ClearedStaysCleared'
    PROVE  StoreKept'
  BY StoresSteady DEF Others, StoreKept

(* A step of calls that store nothing. *)
LEMMA StoreQuiet ==
    ASSUME Inv, StoreKept, NEW o \in Ops, TurnKept(o), env' \in {env, None},
           \A q \in Ops : Light(q) \/ (q # o /\ op'[q] = op[q]),
           gen' = gen, terms' = terms, cleared' = cleared
    PROVE  StoreKept'
  BY StoresSteady, StoresLight DEF StoreKept, ClearedStaysCleared

(* A termination begins: no call that has begun is of the new lifecycle.     *)
LEMMA StoreEnds ==
    ASSUME Inv, Inv', StoreKept, NEW o \in Ops, TurnKept(o), env' = env,
           \A q \in Ops \ {o} : op'[q] = op[q], op'[o].gen <= gen,
           op'[o].at \notin Queued \cup UnderWay \cup Rotating,
           gen' = gen + 1, cleared' = cleared
    PROVE  StoreKept'
  <1>1. gen \in Nat /\ cleared \in Nat /\ \A q \in Ops : op[q].gen \in Nat
    BY DEF Inv, StoreOK, DataOK, OpsFit, Calls
  <1>2. op'[o].gen \in Nat BY DEF Inv, OpsFit, Calls
  <1>3. ASSUME NEW q \in Ops, q # o PROVE CallStores(q)'
    BY <1>3, TurnStays, <1>1 DEF StoreKept, CallStores
  <1>4. CallStores(o)' BY <1>1, <1>2 DEF CallStores
  <1>5. ClearedStaysCleared' /\ cleared' <= gen' BY <1>1 DEF StoreKept, ClearedStaysCleared
  <1> QED BY <1>3, <1>4, <1>5 DEF StoreKept

(* A termination ends, and may clear the store: whatever would write or      *)
(* restore something is of an earlier lifecycle, or waits for its turn.      *)
LEMMA StoreCleared ==
    ASSUME Inv, StoreKept, NEW o \in Ops, TurnKept(o), terms # 0, gen' = gen,
           \A q \in Ops : Light(q) \/ (q # o /\ op'[q] = op[q]),
           \/ cleared' = cleared /\ env' = env
           \/ cleared' = gen /\ env' = None /\ HasTurn(o)
    PROVE  StoreKept'
  <1>1. gen \in Nat /\ cleared \in Nat /\ \A q \in Ops : op[q].gen \in Nat /\ Fits(op[q])
    BY DEF Inv, StoreOK, DataOK, OpsFit, Calls, Fits
  <1>2. ASSUME NEW q \in Ops, q # o, op'[q] = op[q] PROVE CallStores(q)'
    <2>1. CallStores(q) BY DEF StoreKept
    <2>2. Changes(op[q]) => op[q].gen # gen BY <2>1 DEF CallStores
    <2>3. op[q].at \in Rotating => Changes(op[q])
      BY <1>1 DEF Fits, Kind, Rotating, Changes, LoginSteps, UnlockSteps, RefreshSteps
    <2>4. op[q].at \in UnderWay => HasTurn(q)' /\ op[q].new.gen >= cleared'
      BY <2>1, <1>2, TurnStays DEF CallStores, HasTurn
    <2> QED BY <1>2, <2>1, <2>2, <2>3, <2>4 DEF CallStores, Changes
  <1>3. ASSUME NEW q \in Ops, Light(q) PROVE CallStores(q)'
    BY <1>1, <1>3 DEF StoreKept, Light, CallStores, Changes, Idle
  <1>4. ClearedStaysCleared' /\ cleared' <= gen' BY <1>1 DEF StoreKept, ClearedStaysCleared
  <1> QED BY <1>2, <1>3, <1>4 DEF StoreKept

(* While a call owes a termination its end, the counter is not zero.         *)
LEMMA OwedTerms ==
    ASSUME Inv, NEW o \in Ops, Owed(op[o]) # {} PROVE terms # 0
  <1>1. PICK d \in {"own", "read"} : d \in Owed(op[o]) BY DEF Owed
  <1>2. <<o, d>> \in DebtsOf(op) BY <1>1 DEF DebtsOf
  <1>3. Cardinality(DebtsOf(op)) # 0 BY <1>2, DebtsFinite, FS_EmptySet
  <1> QED BY <1>3 DEF Inv, TerminationsBalanced, Debts, DebtsOf

(* A call ends, or goes on to a step where it stores nothing. *)
LEMMA EndLight ==
    ASSUME OpsFit, NEW o \in Ops, End(o) \/ GiveUp(o) PROVE Light(o) /\ Others(o)
  BY EndForm DEF Light, Idle, Queued, UnderWay, Rotating, RefreshSteps

(* A call goes on to a step where it stores nothing. *)
LEMMA GoLight ==
    ASSUME OpsFit, NEW o \in Ops, NEW c, Go(o, c), c.kind = op[o].kind, c.gen = op[o].gen,
           c.at \notin Queued \cup UnderWay \cup Rotating
    PROVE  Light(o) /\ Others(o)
  BY GoForm DEF Light

(* The same, with nothing else of the call changed. *)
LEMMA AtLight ==
    ASSUME OpsFit, NEW o \in Ops, NEW s, At(o, s), s \notin Queued \cup UnderWay \cup Rotating
    PROVE  Light(o) /\ Others(o)
  BY AtForm DEF Light

(* The end of a refresh stores nothing. *)
LEMMA SettleLight ==
    ASSUME OpsFit, NEW o \in Ops, Settle(o)
    PROVE  \A q \in Ops : Light(q) \/ (q # o /\ op'[q] = op[q])
  BY SettleForm DEF Light, Goes, Idle, Queued, UnderWay, Rotating, RefreshSteps

(* The keys of a login are derived.                                          *)
LEMMA LoginKdfStores ==
    ASSUME Inv, StoreKept, NEW o \in Ops, LoginKdf(o) PROVE StoreKept'
  <1>1. OpsFit /\ op[o] \in Calls BY DEF Inv, OpsFit
  <1>2. gen' = gen /\ terms' = terms /\ cleared' = cleared
    BY Zenon DEF LoginKdf, storage
  <1>3. env' = env \/ env' = None BY Zenon DEF LoginKdf, storage
  <1>4. TurnKept(o) BY Zenon DEF LoginKdf, TurnKept, Enqueue, Release
  <1>5. ASSUME NEW b, Go(o, [op[o] EXCEPT !.at = "auth", !.buf = b])
        PROVE  Light(o) /\ Others(o)
    <2> DEFINE c == [op[o] EXCEPT !.at = "auth", !.buf = b]
    <2>1. Go(o, c) BY <1>5
    <2>2. /\ c.at \notin Queued \cup UnderWay \cup Rotating
          /\ c.kind = op[o].kind /\ c.gen = op[o].gen
      BY <1>1 DEF Calls, Queued, UnderWay, Rotating, RefreshSteps
    <2> HIDE DEF c
    <2> QED BY <1>1, <2>1, <2>2, GoLight
  <1>6. ASSUME End(o) \/ GiveUp(o) PROVE Light(o) /\ Others(o)
    BY <1>1, <1>6, EndLight
  <1>7. Light(o) /\ Others(o) BY Zenon, <1>5, <1>6 DEF LoginKdf
  <1>8. \A q \in Ops : Light(q) \/ (q # o /\ op'[q] = op[q])
    BY <1>7 DEF Others
  <1> QED BY <1>2, <1>3, <1>4, <1>8, StoreQuiet

(* The answer to the password step.                                          *)
LEMMA LoginAuthStores ==
    ASSUME Inv, StoreKept, NEW o \in Ops, LoginAuth(o) PROVE StoreKept'
  <1>1. OpsFit /\ op[o] \in Calls BY DEF Inv, OpsFit
  <1>2. gen' = gen /\ terms' = terms /\ cleared' = cleared
    BY Zenon DEF LoginAuth, storage
  <1>3. env' = env \/ env' = None BY Zenon DEF LoginAuth, storage
  <1>4. TurnKept(o) BY Zenon DEF LoginAuth, TurnKept, Enqueue, Release
  <1>5. ASSUME NEW t, Go(o, [op[o] EXCEPT !.at = "account",
                        !.tok = [acct |-> op[o].acct, tok |-> t]])
        PROVE  Light(o) /\ Others(o)
    <2> DEFINE c == [op[o] EXCEPT !.at = "account",
                        !.tok = [acct |-> op[o].acct, tok |-> t]]
    <2>1. Go(o, c) BY <1>5
    <2>2. /\ c.at \notin Queued \cup UnderWay \cup Rotating
          /\ c.kind = op[o].kind /\ c.gen = op[o].gen
      BY <1>1 DEF Calls, Queued, UnderWay, Rotating, RefreshSteps
    <2> HIDE DEF c
    <2> QED BY <1>1, <2>1, <2>2, GoLight
  <1>6. ASSUME End(o) \/ GiveUp(o) PROVE Light(o) /\ Others(o)
    BY <1>1, <1>6, EndLight
  <1>7. Light(o) /\ Others(o) BY Zenon, <1>5, <1>6 DEF LoginAuth
  <1>8. \A q \in Ops : Light(q) \/ (q # o /\ op'[q] = op[q])
    BY <1>7 DEF Others
  <1> QED BY <1>2, <1>3, <1>4, <1>8, StoreQuiet

(* The answer to the second factor.                                          *)
LEMMA TotpVerifiedStores ==
    ASSUME Inv, StoreKept, NEW o \in Ops, TotpVerified(o) PROVE StoreKept'
  <1>1. OpsFit /\ op[o] \in Calls BY DEF Inv, OpsFit
  <1>2. gen' = gen /\ terms' = terms /\ cleared' = cleared
    BY Zenon DEF TotpVerified, storage
  <1>3. env' = env \/ env' = None BY Zenon DEF TotpVerified, storage
  <1>4. TurnKept(o) BY Zenon DEF TotpVerified, TurnKept, Enqueue, Release
  <1>5. ASSUME NEW t, Go(o, [op[o] EXCEPT !.at = "account",
                        !.tok = [acct |-> op[o].acct, tok |-> t]])
        PROVE  Light(o) /\ Others(o)
    <2> DEFINE c == [op[o] EXCEPT !.at = "account",
                        !.tok = [acct |-> op[o].acct, tok |-> t]]
    <2>1. Go(o, c) BY <1>5
    <2>2. /\ c.at \notin Queued \cup UnderWay \cup Rotating
          /\ c.kind = op[o].kind /\ c.gen = op[o].gen
      BY <1>1 DEF Calls, Queued, UnderWay, Rotating, RefreshSteps
    <2> HIDE DEF c
    <2> QED BY <1>1, <2>1, <2>2, GoLight
  <1>6. ASSUME End(o) \/ GiveUp(o) PROVE Light(o) /\ Others(o)
    BY <1>1, <1>6, EndLight
  <1>7. Light(o) /\ Others(o) BY Zenon, <1>5, <1>6 DEF TotpVerified
  <1>8. \A q \in Ops : Light(q) \/ (q # o /\ op'[q] = op[q])
    BY <1>7 DEF Others
  <1> QED BY <1>2, <1>3, <1>4, <1>8, StoreQuiet

(* A login whose lifecycle is over.                                          *)
LEMMA LoginSupersededStores ==
    ASSUME Inv, StoreKept, NEW o \in Ops, LoginSuperseded(o) PROVE StoreKept'
  BY EndLight, StoreQuiet DEF Inv, OpsFit, LoginSuperseded, storage, TurnKept, Enqueue, Release,
     Others

(* The stored session is confirmed.                                          *)
LEMMA LoginStoredStores ==
    ASSUME Inv, StoreKept, NEW o \in Ops, LoginStored(o) PROVE StoreKept'
  <1>1. OpsFit /\ op[o] \in Calls BY DEF Inv, OpsFit
  <1>2. gen' = gen /\ terms' = terms /\ cleared' = cleared
    BY Zenon DEF LoginStored, storage
  <1>3. env' = env \/ env' = None BY Zenon DEF LoginStored, storage
  <1>4. TurnKept(o) BY Zenon DEF LoginStored, TurnKept, Enqueue, Release
  <1>5. ASSUME Go(o, [op[o] EXCEPT !.at = "share", !.new = None])
        PROVE  Light(o) /\ Others(o)
    <2> DEFINE c == [op[o] EXCEPT !.at = "share", !.new = None]
    <2>1. Go(o, c) BY <1>5
    <2>2. /\ c.at \notin Queued \cup UnderWay \cup Rotating
          /\ c.kind = op[o].kind /\ c.gen = op[o].gen
      BY <1>1 DEF Calls, Queued, UnderWay, Rotating, RefreshSteps
    <2> HIDE DEF c
    <2> QED BY <1>1, <2>1, <2>2, GoLight
  <1>6. Light(o) /\ Others(o) BY Zenon, <1>5 DEF LoginStored
  <1>7. \A q \in Ops : Light(q) \/ (q # o /\ op'[q] = op[q])
    BY <1>6 DEF Others
  <1> QED BY <1>2, <1>3, <1>4, <1>7, StoreQuiet

(* The tokens of a login are published.                                      *)
LEMMA LoginSharedStores ==
    ASSUME Inv, StoreKept, NEW o \in Ops, LoginShared(o) PROVE StoreKept'
  <1>1. OpsFit /\ op[o] \in Calls BY DEF Inv, OpsFit
  <1>2. gen' = gen /\ terms' = terms /\ cleared' = cleared
    BY Zenon DEF LoginShared, storage
  <1>3. env' = env \/ env' = None BY Zenon DEF LoginShared, storage
  <1>4. TurnKept(o) BY Zenon DEF LoginShared, TurnKept, Enqueue, Release
  <1>5. ASSUME Go(o, [op[o] EXCEPT !.at = "publish", !.rev = rev, !.tok = None])
        PROVE  Light(o) /\ Others(o)
    <2> DEFINE c == [op[o] EXCEPT !.at = "publish", !.rev = rev, !.tok = None]
    <2>1. Go(o, c) BY <1>5
    <2>2. /\ c.at \notin Queued \cup UnderWay \cup Rotating
          /\ c.kind = op[o].kind /\ c.gen = op[o].gen
      BY <1>1 DEF Calls, Queued, UnderWay, Rotating, RefreshSteps
    <2> HIDE DEF c
    <2> QED BY <1>1, <2>1, <2>2, GoLight
  <1>6. ASSUME End(o) \/ GiveUp(o) PROVE Light(o) /\ Others(o)
    BY <1>1, <1>6, EndLight
  <1>7. Light(o) /\ Others(o) BY Zenon, <1>5, <1>6 DEF LoginShared
  <1>8. \A q \in Ops : Light(q) \/ (q # o /\ op'[q] = op[q])
    BY <1>7 DEF Others
  <1> QED BY <1>2, <1>3, <1>4, <1>8, StoreQuiet

(* The keys are published.                                                   *)
LEMMA PublishStores ==
    ASSUME Inv, StoreKept, NEW o \in Ops, Publish(o) PROVE StoreKept'
  BY EndLight, StoreQuiet DEF Inv, OpsFit, Publish, storage, TurnKept, Enqueue, Release, Others

(* The keys are not published.                                               *)
LEMMA PublishRefusedStores ==
    ASSUME Inv, StoreKept, NEW o \in Ops, PublishRefused(o) PROVE StoreKept'
  BY EndLight, StoreQuiet DEF Inv, OpsFit, PublishRefused, storage, TurnKept, Enqueue, Release,
     Others

(* An unlock reads the envelope.                                             *)
LEMMA UnlockReadStores ==
    ASSUME Inv, StoreKept, NEW o \in Ops, UnlockRead(o), ~Invalidate(o) PROVE StoreKept'
  <1>1. OpsFit /\ op[o] \in Calls BY DEF Inv, OpsFit
  <1>2. gen' = gen /\ terms' = terms /\ cleared' = cleared
    BY Zenon DEF UnlockRead, storage
  <1>3. env' = env \/ env' = None BY Zenon DEF UnlockRead, storage
  <1>4. TurnKept(o) BY Zenon DEF UnlockRead, TurnKept, Enqueue, Release
  <1>5. ASSUME Go(o, [op[o] EXCEPT !.at = "derive", !.env = env, !.acct = env.acct])
        PROVE  Light(o) /\ Others(o)
    <2> DEFINE c == [op[o] EXCEPT !.at = "derive", !.env = env, !.acct = env.acct]
    <2>1. Go(o, c) BY <1>5
    <2>2. /\ c.at \notin Queued \cup UnderWay \cup Rotating
          /\ c.kind = op[o].kind /\ c.gen = op[o].gen
      BY <1>1 DEF Calls, Queued, UnderWay, Rotating, RefreshSteps
    <2> HIDE DEF c
    <2> QED BY <1>1, <2>1, <2>2, GoLight
  <1>6. ASSUME End(o) \/ GiveUp(o) PROVE Light(o) /\ Others(o)
    BY <1>1, <1>6, EndLight
  <1>7. Light(o) /\ Others(o) BY Zenon, <1>5, <1>6 DEF UnlockRead
  <1>8. \A q \in Ops : Light(q) \/ (q # o /\ op'[q] = op[q])
    BY <1>7 DEF Others
  <1> QED BY <1>2, <1>3, <1>4, <1>8, StoreQuiet

(* The keys of an unlock are derived.                                        *)
LEMMA UnlockDeriveStores ==
    ASSUME Inv, StoreKept, NEW o \in Ops, UnlockDerive(o) PROVE StoreKept'
  <1>1. OpsFit /\ op[o] \in Calls BY DEF Inv, OpsFit
  <1>2. gen' = gen /\ terms' = terms /\ cleared' = cleared
    BY Zenon DEF UnlockDerive, storage
  <1>3. env' = env \/ env' = None BY Zenon DEF UnlockDerive, storage
  <1>4. TurnKept(o) BY Zenon DEF UnlockDerive, TurnKept, Enqueue, Release
  <1>5. ASSUME NEW b, Go(o, [op[o] EXCEPT !.at = IF tokens = None THEN "open" ELSE "bind",
                        !.buf = b, !.tok = tokens])
        PROVE  Light(o) /\ Others(o)
    <2> DEFINE c == [op[o] EXCEPT !.at = IF tokens = None THEN "open" ELSE "bind",
                        !.buf = b, !.tok = tokens]
    <2>1. Go(o, c) BY <1>5
    <2>2. /\ c.at \notin Queued \cup UnderWay \cup Rotating
          /\ c.kind = op[o].kind /\ c.gen = op[o].gen
      BY <1>1 DEF Calls, Queued, UnderWay, Rotating, RefreshSteps
    <2> HIDE DEF c
    <2> QED BY <1>1, <2>1, <2>2, GoLight
  <1>6. ASSUME End(o) \/ GiveUp(o) PROVE Light(o) /\ Others(o)
    BY <1>1, <1>6, EndLight
  <1>7. Light(o) /\ Others(o) BY Zenon, <1>5, <1>6 DEF UnlockDerive
  <1>8. \A q \in Ops : Light(q) \/ (q # o /\ op'[q] = op[q])
    BY <1>7 DEF Others
  <1> QED BY <1>2, <1>3, <1>4, <1>8, StoreQuiet

(* An unlock adopts tokens in memory.                                        *)
LEMMA UnlockBindStores ==
    ASSUME Inv, StoreKept, NEW o \in Ops, UnlockBind(o), ~Invalidate(o) PROVE StoreKept'
  <1>1. OpsFit /\ op[o] \in Calls BY DEF Inv, OpsFit
  <1>2. gen' = gen /\ terms' = terms /\ cleared' = cleared
    BY Zenon DEF UnlockBind, Adopt, storage
  <1>3. env' = env \/ env' = None BY Zenon DEF UnlockBind, Adopt, storage
  <1>4. TurnKept(o) BY Zenon DEF UnlockBind, Adopt, TurnKept, Enqueue, Release
  <1>5. ASSUME Go(o, [op[o] EXCEPT !.at = "share", !.tok = None, !.env = None])
        PROVE  Light(o) /\ Others(o)
    <2> DEFINE c == [op[o] EXCEPT !.at = "share", !.tok = None, !.env = None]
    <2>1. Go(o, c) BY <1>5
    <2>2. /\ c.at \notin Queued \cup UnderWay \cup Rotating
          /\ c.kind = op[o].kind /\ c.gen = op[o].gen
      BY <1>1 DEF Calls, Queued, UnderWay, Rotating, RefreshSteps
    <2> HIDE DEF c
    <2> QED BY <1>1, <2>1, <2>2, GoLight
  <1>6. ASSUME At(o, "open") PROVE Light(o) /\ Others(o)
    BY <1>1, <1>6, AtLight DEF Queued, UnderWay, Rotating, RefreshSteps
  <1>7. ASSUME End(o) \/ GiveUp(o) PROVE Light(o) /\ Others(o)
    BY <1>1, <1>7, EndLight
  <1>8. Light(o) /\ Others(o) BY Zenon, <1>5, <1>6, <1>7 DEF UnlockBind, Adopt
  <1>9. \A q \in Ops : Light(q) \/ (q # o /\ op'[q] = op[q])
    BY <1>8 DEF Others
  <1> QED BY <1>2, <1>3, <1>4, <1>9, StoreQuiet

(* An unlock opens the envelope.                                             *)
LEMMA UnlockOpenStores ==
    ASSUME Inv, StoreKept, NEW o \in Ops, UnlockOpen(o) PROVE StoreKept'
  <1>1. OpsFit /\ op[o] \in Calls BY DEF Inv, OpsFit
  <1>2. gen' = gen /\ terms' = terms /\ cleared' = cleared
    BY Zenon DEF UnlockOpen, Adopt, storage
  <1>3. env' = env \/ env' = None BY Zenon DEF UnlockOpen, Adopt, storage
  <1>4. TurnKept(o) BY Zenon DEF UnlockOpen, Adopt, TurnKept, Enqueue, Release
  <1>5. ASSUME Go(o, [op[o] EXCEPT !.at = "share", !.tok = None, !.env = None])
        PROVE  Light(o) /\ Others(o)
    <2> DEFINE c == [op[o] EXCEPT !.at = "share", !.tok = None, !.env = None]
    <2>1. Go(o, c) BY <1>5
    <2>2. /\ c.at \notin Queued \cup UnderWay \cup Rotating
          /\ c.kind = op[o].kind /\ c.gen = op[o].gen
      BY <1>1 DEF Calls, Queued, UnderWay, Rotating, RefreshSteps
    <2> HIDE DEF c
    <2> QED BY <1>1, <2>1, <2>2, GoLight
  <1>6. ASSUME At(o, "discard") PROVE Light(o) /\ Others(o)
    BY <1>1, <1>6, AtLight DEF Queued, UnderWay, Rotating, RefreshSteps
  <1>7. ASSUME End(o) \/ GiveUp(o) PROVE Light(o) /\ Others(o)
    BY <1>1, <1>7, EndLight
  <1>8. Light(o) /\ Others(o) BY Zenon, <1>5, <1>6, <1>7 DEF UnlockOpen, Adopt
  <1>9. \A q \in Ops : Light(q) \/ (q # o /\ op'[q] = op[q])
    BY <1>8 DEF Others
  <1> QED BY <1>2, <1>3, <1>4, <1>9, StoreQuiet

(* An envelope that cannot be opened is removed.                             *)
LEMMA UnlockDiscardStores ==
    ASSUME Inv, StoreKept, NEW o \in Ops, UnlockDiscard(o) PROVE StoreKept'
  BY EndLight, StoreQuiet DEF Inv, OpsFit, UnlockDiscard, storage, TurnKept, Enqueue, Release,
     Others

(* An unlock prepares to share, or refreshes first.                          *)
LEMMA UnlockSharedStores ==
    ASSUME Inv, StoreKept, NEW o \in Ops, UnlockShared(o) PROVE StoreKept'
  <1>1. OpsFit /\ op[o] \in Calls BY DEF Inv, OpsFit
  <1>2. gen' = gen /\ terms' = terms /\ cleared' = cleared
    BY Zenon DEF UnlockShared, storage
  <1>3. env' = env \/ env' = None BY Zenon DEF UnlockShared, storage
  <1>4. TurnKept(o) BY Zenon DEF UnlockShared, TurnKept, Enqueue, Release
  <1>5. ASSUME Go(o, [op[o] EXCEPT !.at = "publish", !.rev = rev])
        PROVE  Light(o) /\ Others(o)
    <2> DEFINE c == [op[o] EXCEPT !.at = "publish", !.rev = rev]
    <2>1. Go(o, c) BY <1>5
    <2>2. /\ c.at \notin Queued \cup UnderWay \cup Rotating
          /\ c.kind = op[o].kind /\ c.gen = op[o].gen
      BY <1>1 DEF Calls, Queued, UnderWay, Rotating, RefreshSteps
    <2> HIDE DEF c
    <2> QED BY <1>1, <2>1, <2>2, GoLight
  <1>6. ASSUME Go(o, [op[o] EXCEPT !.at = IF Refreshing THEN "wait" ELSE "rotate",
                        !.tok = tokens])
        PROVE  Light(o) /\ Others(o)
    <2> DEFINE c == [op[o] EXCEPT !.at = IF Refreshing THEN "wait" ELSE "rotate",
                        !.tok = tokens]
    <2>1. Go(o, c) BY <1>6
    <2>2. /\ c.at \notin Queued \cup UnderWay \cup Rotating
          /\ c.kind = op[o].kind /\ c.gen = op[o].gen
      BY <1>1 DEF Calls, Queued, UnderWay, Rotating, RefreshSteps
    <2> HIDE DEF c
    <2> QED BY <1>1, <2>1, <2>2, GoLight
  <1>7. ASSUME End(o) \/ GiveUp(o) PROVE Light(o) /\ Others(o)
    BY <1>1, <1>7, EndLight
  <1>8. Light(o) /\ Others(o) BY Zenon, <1>5, <1>6, <1>7 DEF UnlockShared
  <1>9. \A q \in Ops : Light(q) \/ (q # o /\ op'[q] = op[q])
    BY <1>8 DEF Others
  <1> QED BY <1>2, <1>3, <1>4, <1>9, StoreQuiet

(* An unlock goes on after its refresh.                                      *)
LEMMA UnlockRefreshedStores ==
    ASSUME Inv, StoreKept, NEW o \in Ops, UnlockRefreshed(o), ~Invalidate(o) PROVE StoreKept'
  <1>1. OpsFit /\ op[o] \in Calls BY DEF Inv, OpsFit
  <1>2. gen' = gen /\ terms' = terms /\ cleared' = cleared
    BY Zenon DEF UnlockRefreshed, storage
  <1>3. env' = env \/ env' = None BY Zenon DEF UnlockRefreshed, storage
  <1>4. TurnKept(o) BY Zenon DEF UnlockRefreshed, TurnKept, Enqueue, Release
  <1>5. ASSUME Go(o, [op[o] EXCEPT !.at = "publish", !.rev = rev])
        PROVE  Light(o) /\ Others(o)
    <2> DEFINE c == [op[o] EXCEPT !.at = "publish", !.rev = rev]
    <2>1. Go(o, c) BY <1>5
    <2>2. /\ c.at \notin Queued \cup UnderWay \cup Rotating
          /\ c.kind = op[o].kind /\ c.gen = op[o].gen
      BY <1>1 DEF Calls, Queued, UnderWay, Rotating, RefreshSteps
    <2> HIDE DEF c
    <2> QED BY <1>1, <2>1, <2>2, GoLight
  <1>6. ASSUME End(o) \/ GiveUp(o) PROVE Light(o) /\ Others(o)
    BY <1>1, <1>6, EndLight
  <1>7. Light(o) /\ Others(o) BY Zenon, <1>5, <1>6 DEF UnlockRefreshed
  <1>8. \A q \in Ops : Light(q) \/ (q # o /\ op'[q] = op[q])
    BY <1>7 DEF Others
  <1> QED BY <1>2, <1>3, <1>4, <1>8, StoreQuiet

(* A refresh whose lifecycle is over.                                        *)
LEMMA RefreshSupersededStores ==
    ASSUME Inv, StoreKept, NEW o \in Ops, RefreshSuperseded(o) PROVE StoreKept'
  BY SettleLight, StoreQuiet DEF Inv, OpsFit, RefreshSuperseded, storage, TurnKept, Enqueue, Release

(* The rotated tokens are published.                                         *)
LEMMA RefreshReplacedStores ==
    ASSUME Inv, StoreKept, NEW o \in Ops, RefreshReplaced(o) PROVE StoreKept'
  BY SettleLight, StoreQuiet DEF Inv, OpsFit, RefreshReplaced, storage, TurnKept, Enqueue, Release

(* The tokens of before are published again.                                 *)
LEMMA RefreshRestoredStores ==
    ASSUME Inv, StoreKept, NEW o \in Ops, RefreshRestored(o) PROVE StoreKept'
  BY SettleLight, StoreQuiet DEF Inv, OpsFit, RefreshRestored, storage, TurnKept, Enqueue, Release

(* A logout reads whose session it ends.                                     *)
LEMMA LogoutReadStores ==
    ASSUME Inv, StoreKept, NEW o \in Ops, LogoutRead(o), ~Invalidate(o) PROVE StoreKept'
  <1>1. OpsFit /\ op[o] \in Calls BY DEF Inv, OpsFit
  <1>2. gen' = gen /\ terms' = terms /\ cleared' = cleared
    BY Zenon DEF LogoutRead, storage
  <1>3. env' = env \/ env' = None BY Zenon DEF LogoutRead, storage
  <1>4. TurnKept(o) BY Zenon DEF LogoutRead, TurnKept, Enqueue, Release
  <1>5. ASSUME Go(o, [op[o] EXCEPT !.at = "clear", !.acct = Account(env)])
        PROVE  Light(o) /\ Others(o)
    <2> DEFINE c == [op[o] EXCEPT !.at = "clear", !.acct = Account(env)]
    <2>1. Go(o, c) BY <1>5
    <2>2. /\ c.at \notin Queued \cup UnderWay \cup Rotating
          /\ c.kind = op[o].kind /\ c.gen = op[o].gen
      BY <1>1 DEF Calls, Queued, UnderWay, Rotating, RefreshSteps
    <2> HIDE DEF c
    <2> QED BY <1>1, <2>1, <2>2, GoLight
  <1>6. Light(o) /\ Others(o) BY Zenon, <1>5 DEF LogoutRead
  <1>7. \A q \in Ops : Light(q) \/ (q # o /\ op'[q] = op[q])
    BY <1>6 DEF Others
  <1> QED BY <1>2, <1>3, <1>4, <1>7, StoreQuiet

(* A read ends.                                                              *)
LEMMA ReadDoneStores ==
    ASSUME Inv, StoreKept, NEW o \in Ops, ReadDone(o), ~Invalidate(o) PROVE StoreKept'
  BY EndLight, StoreQuiet DEF Inv, OpsFit, ReadDone, storage, TurnKept, Enqueue, Release, Others

(* What Alive says, and that it is over with the next termination. *)
LEMMA AliveGen ==
    ASSUME Inv, StoreKept, NEW o \in Ops, Alive(o)
    PROVE  op[o].gen = gen /\ terms = 0 /\ cleared <= op[o].gen
  BY DEF Alive, Current, StoreKept

(* A write is queued, or begins. *)
LEMMA OpenAccountStores ==
    ASSUME Inv, StoreKept, NEW o \in Ops, OpenAccount(o) PROVE StoreKept'
  <1>1. OpsFit /\ op[o] \in Calls BY DEF Inv, OpsFit
  <1>2. gen' = gen /\ terms' = terms /\ cleared' = cleared /\ env' = env
    BY DEF OpenAccount, storage
  <1>3. TurnKept(o) BY Zenon DEF OpenAccount, TurnKept, Enqueue
  <1>4. CASE GiveUp(o)
    BY <1>1, <1>4, EndLight, <1>2, <1>3, StoreQuiet DEF Others
  <1>5. ASSUME NEW i, Go(o, [op[o] EXCEPT !.at = "put",
                        !.new = [acct |-> op[o].acct, era |-> era, state |-> "active",
                                 tok |-> op[o].tok.tok, sealed |-> op[o].buf \in plain,
                                 id |-> i, gen |-> op[o].gen]])
        PROVE  StoreKept'
    <2> DEFINE n == [acct |-> op[o].acct, era |-> era, state |-> "active",
                     tok |-> op[o].tok.tok, sealed |-> op[o].buf \in plain,
                     id |-> i, gen |-> op[o].gen]
    <2>1. n.gen = op[o].gen OBVIOUS
    <2> HIDE DEF n
    <2>2. op'[o] = [op[o] EXCEPT !.at = "put", !.new = n] /\ Others(o)
      BY <1>1, <1>5, GoForm DEF n
    <2>3. op'[o].at = "put" /\ op'[o].kind = op[o].kind /\ op'[o].gen = op[o].gen
          /\ op'[o].new = n
      BY <1>1, <2>2 DEF Calls
    <2>4. CallStores(o) BY DEF StoreKept
    <2>5. CallStores(o)'
      BY <1>2, <2>1, <2>3, <2>4 DEF CallStores, Changes, Queued, UnderWay, Rotating, RefreshSteps
    <2>6. ClearedStaysCleared' BY <1>2 DEF StoreKept, ClearedStaysCleared
    <2> QED BY <1>2, <1>3, <2>2, <2>5, <2>6, StoreAgain
  <1> QED BY Zenon, <1>4, <1>5 DEF OpenAccount

(* A write begins only in the lifecycle of its call. *)
LEMMA StartStores ==
    ASSUME Inv, StoreKept, NEW o \in Ops, NEW from \in Queued, NEW to \in UnderWay,
           StartWrite(o, from, to), from = "put" => to = "putting"
    PROVE  StoreKept'
  <1>1. OpsFit /\ op[o] \in Calls BY DEF Inv, OpsFit
  <1>2. /\ gen' = gen /\ terms' = terms /\ cleared' = cleared /\ env' = env /\ mutq' = mutq
        /\ HasTurn(o) /\ Alive(o) /\ op[o].at = from /\ At(o, to)
    BY DEF StartWrite, storage
  <1>3. /\ op'[o].at = to /\ op'[o].kind = op[o].kind /\ op'[o].gen = op[o].gen
        /\ op'[o].new = op[o].new /\ op'[o].env = op[o].env /\ Others(o)
    BY <1>1, <1>2, AtForm
  <1>4. CallStores(o) BY DEF StoreKept
  <1>5. op[o].new.gen >= cleared /\ op[o].gen = gen
    BY <1>2, <1>4, AliveGen DEF CallStores, Inv, StoreOK, DataOK
  <1>6. HasTurn(o)' BY <1>2 DEF HasTurn
  <1>7. to \in Rotating => from \in Rotating
    BY DEF Queued, UnderWay, Rotating, RefreshSteps
  <1>8. CallStores(o)'
    BY <1>2, <1>3, <1>4, <1>5, <1>6, <1>7 DEF CallStores, Changes, Queued, UnderWay
  <1>9. ClearedStaysCleared' BY <1>2 DEF StoreKept, ClearedStaysCleared
  <1>10. TurnKept(o) BY <1>2 DEF TurnKept
  <1> QED BY <1>2, <1>3, <1>8, <1>9, <1>10, StoreAgain

(* A write lands: what it stores is not of before the last clearing. *)
LEMMA WriteStores ==
    ASSUME Inv, StoreKept, NEW o \in Ops, NEW from \in UnderWay,
           NEW to \in {"stored", "marked", "replaced"}, Write(o, from, to),
           to # "stored" => from # "putting"
    PROVE  StoreKept'
  <1>1. OpsFit /\ op[o] \in Calls BY DEF Inv, OpsFit
  <1>2. /\ gen' = gen /\ terms' = terms /\ cleared' = cleared /\ env' = op[o].new
        /\ mutq' = mutq /\ op[o].at = from /\ At(o, to)
    BY DEF Write
  <1>3. /\ op'[o].at = to /\ op'[o].kind = op[o].kind /\ op'[o].gen = op[o].gen
        /\ op'[o].new = op[o].new /\ op'[o].env = op[o].env /\ Others(o)
    BY <1>1, <1>2, AtForm
  <1>4. CallStores(o) BY DEF StoreKept
  <1>5. op[o].new.gen >= cleared BY <1>2, <1>4 DEF CallStores
  <1>6. to \in Rotating => from \in Rotating
    BY DEF UnderWay, Rotating, RefreshSteps
  <1>7. to \notin Queued \cup UnderWay BY DEF Queued, UnderWay
  <1>8. CallStores(o)' BY <1>2, <1>3, <1>4, <1>6, <1>7 DEF CallStores, Changes
  <1>9. ClearedStaysCleared' BY <1>2, <1>5 DEF ClearedStaysCleared
  <1>10. TurnKept(o) BY <1>2 DEF TurnKept
  <1> QED BY <1>2, <1>3, <1>8, <1>9, <1>10, StoreAgain

(* The writes of logins and refreshes. *)
LEMMA WritesStore ==
    ASSUME Inv, StoreKept, NEW o \in Ops,
           \/ PutSession(o) \/ SessionWritten(o) \/ PutMarker(o) \/ MarkerWritten(o)
           \/ PutReplacement(o) \/ ReplacementWritten(o)
    PROVE  StoreKept'
  BY StartStores, WriteStores DEF PutSession, PutMarker, PutReplacement, Queued, UnderWay,
     SessionWritten, MarkerWritten, ReplacementWritten

(* The envelope that a refresh reads is not of before the last clearing. *)
LEMMA RefreshReadStores ==
    ASSUME Inv, StoreKept, NEW o \in Ops, RefreshRead(o), ~Invalidate(o) PROVE StoreKept'
  <1>1. OpsFit /\ op[o] \in Calls BY DEF Inv, OpsFit
  <1>2. gen' = gen /\ terms' = terms /\ cleared' = cleared /\ env' = env
    BY Zenon DEF RefreshRead, storage
  <1>3. TurnKept(o) BY Zenon DEF RefreshRead, TurnKept, Enqueue
  <1>4. CASE Settle(o) BY <1>1, <1>2, <1>3, <1>4, SettleLight, StoreQuiet
  <1>5. ASSUME NEW i, Go(o, [op[o] EXCEPT !.at = "mark", !.env = env, !.new = Marker(o, i)]),
               Bound(op[o].tok), Alive(o)
        PROVE  StoreKept'
    <2>1. op'[o] = [op[o] EXCEPT !.at = "mark", !.env = env, !.new = Marker(o, i)] /\ Others(o)
      BY <1>1, <1>5, GoForm
    <2>2. /\ op'[o].at = "mark" /\ op'[o].kind = op[o].kind /\ op'[o].gen = op[o].gen
          /\ op'[o].env = env /\ op'[o].new = Marker(o, i)
      BY <1>1, <2>1 DEF Calls
    <2>3. env # None /\ env \in Envelopes
      BY <1>5 DEF Bound, Inv, StoreOK, DataOK
    <2>4. env.gen >= cleared BY <2>3 DEF StoreKept, ClearedStaysCleared
    <2>5. Marker(o, i).gen = op[o].gen
      BY <2>3 DEF Marker, Sealed, Envelopes, Payloads
    <2>6. CallStores(o) BY DEF StoreKept
    <2>7. CallStores(o)'
      BY <1>2, <2>2, <2>4, <2>5, <2>6 DEF CallStores, Changes, Queued, UnderWay
    <2>8. ClearedStaysCleared' BY <1>2 DEF StoreKept, ClearedStaysCleared
    <2> QED BY <1>2, <1>3, <2>1, <2>7, <2>8, StoreAgain
  <1> QED BY Zenon, <1>4, <1>5 DEF RefreshRead

(* A refresh goes on with the envelope it has read. *)
LEMMA RotatingGoes ==
    ASSUME Inv, StoreKept, NEW o \in Ops, op[o].at \in Rotating, TurnKept(o), Others(o),
           op'[o].at \in Rotating \ UnderWay, op'[o].kind = op[o].kind,
           op'[o].gen = op[o].gen, op'[o].env = op[o].env,
           op'[o].at \in Queued => op'[o].new.gen = op[o].gen,
           gen' = gen, terms' = terms, cleared' = cleared, ClearedStaysCleared'
    PROVE  StoreKept'
  BY StoreAgain DEF StoreKept, CallStores, Changes

(* The marker is stored. *)
LEMMA RefreshMarkedStores ==
    ASSUME Inv, StoreKept, NEW o \in Ops, RefreshMarked(o) PROVE StoreKept'
  BY AtForm, RotatingGoes DEF Inv, OpsFit, RefreshMarked, storage, TurnKept, Release, StoreKept,
     ClearedStaysCleared, Rotating, RefreshSteps, UnderWay, Queued

(* The server has not answered: the old session is to be restored. *)
LEMMA RefreshUnansweredStores ==
    ASSUME Inv, StoreKept, NEW o \in Ops, RefreshUnanswered(o) PROVE StoreKept'
  <1>1. OpsFit /\ op[o] \in Calls BY DEF Inv, OpsFit
  <1>2. /\ gen' = gen /\ terms' = terms /\ cleared' = cleared /\ env' = env
        /\ op[o].at = "network"
    BY DEF RefreshUnanswered, storage
  <1>3. TurnKept(o) BY Zenon DEF RefreshUnanswered, TurnKept, Enqueue
  <1>4. CASE At(o, "restore")
    BY <1>1, <1>4, AtForm, <1>2, <1>3, RotatingGoes DEF StoreKept, ClearedStaysCleared, Rotating,
       RefreshSteps, UnderWay, Queued
  <1>5. CASE Settle(o) BY <1>1, <1>2, <1>3, <1>5, SettleLight, StoreQuiet
  <1> QED BY Zenon, <1>4, <1>5 DEF RefreshUnanswered

(* The server has rotated the token. *)
LEMMA RotatedStores ==
    ASSUME Inv, StoreKept, NEW o \in Ops, Rotated(o) PROVE StoreKept'
  <1>1. OpsFit /\ op[o] \in Calls BY DEF Inv, OpsFit
  <1>2. gen' = gen /\ terms' = terms /\ cleared' = cleared /\ env' = env
    BY Zenon DEF Rotated, storage
  <1>3. op[o].at = "network" BY Zenon DEF Rotated
  <1>4. TurnKept(o) BY Zenon DEF Rotated, TurnKept, Enqueue
  <1>5. CASE Settle(o) BY <1>1, <1>2, <1>4, <1>5, SettleLight, StoreQuiet
  <1>6. ASSUME NEW t, NEW i, Go(o, [op[o] EXCEPT !.at = "replace", !.tok.tok = t,
                        !.new = Sealed(o, op[o].env, "active", t, i)])
        PROVE  StoreKept'
    <2>1. /\ op'[o] = [op[o] EXCEPT !.at = "replace", !.tok.tok = t,
                        !.new = Sealed(o, op[o].env, "active", t, i)]
          /\ Others(o)
      BY <1>1, <1>6, GoForm
    <2>2. /\ op'[o].at = "replace" /\ op'[o].kind = op[o].kind /\ op'[o].gen = op[o].gen
          /\ op'[o].env = op[o].env /\ op'[o].new = Sealed(o, op[o].env, "active", t, i)
      BY <1>1, <2>1 DEF Calls
    <2>3. op[o].env \in Envelopes
      BY <1>3 DEF Inv, OpsFit, Fits, Holds, Rotating, RefreshSteps
    <2>4. Sealed(o, op[o].env, "active", t, i).gen = op[o].gen
      BY <2>3 DEF Sealed, Envelopes, Payloads
    <2>5. ClearedStaysCleared' BY <1>2 DEF StoreKept, ClearedStaysCleared
    <2> QED
      BY <1>2, <1>3, <1>4, <2>1, <2>2, <2>4, <2>5, RotatingGoes
         DEF Rotating, RefreshSteps, UnderWay, Queued
  <1> QED BY Zenon, <1>5, <1>6 DEF Rotated

-----------------------------------------------------------------------------
(* Terminations, and the calls that begin.                                   *)

(* A termination takes no turn on the queue away. *)
LEMMA InvalidateStores ==
    ASSUME Inv, Inv', StoreKept, NEW o \in Ops, Invalidate(o) PROVE StoreKept'
  <1>1. OpsFit BY DEF Inv
  <1>2. gen' = gen + 1 /\ cleared' = cleared /\ env' = env /\ At(o, "invalidate") /\ Enqueue(o)
    BY DEF Invalidate, Terminate, storage
  <1>3. TurnKept(o) BY <1>2 DEF TurnKept, Enqueue
  <1>4. op'[o].at = "invalidate" /\ op'[o].gen = op[o].gen /\ Others(o)
    BY <1>1, <1>2, AtForm
  <1>5. op'[o].gen <= gen BY <1>4 DEF StoreKept, CallStores
  <1>6. op'[o].at \notin Queued \cup UnderWay \cup Rotating
    BY <1>4 DEF Queued, UnderWay, Rotating, RefreshSteps
  <1> QED BY <1>2, <1>3, <1>4, <1>5, <1>6, StoreEnds DEF Others

(* A session that cannot be proven current is ended. *)
LEMMA FailClosedStores ==
    ASSUME Inv, Inv', StoreKept, NEW o \in Ops, FailClosed(o), TurnKept(o),
           env' = env, cleared' = cleared
    PROVE  StoreKept'
  BY AtForm, StoreEnds DEF Inv, FailClosed, Terminate, StoreKept, CallStores, Queued, UnderWay,
     Rotating, RefreshSteps, Others

(* The server refuses the token. *)
LEMMA RefreshRefusedStores ==
    ASSUME Inv, Inv', StoreKept, NEW o \in Ops, RefreshRefused(o) PROVE StoreKept'
  BY FailClosedStores, SettleLight, StoreQuiet DEF Inv, RefreshRefused, storage, TurnKept, Enqueue

(* A refresh restores what it read only in its own lifecycle. *)
LEMMA RefreshRestoreStores ==
    ASSUME Inv, Inv', StoreKept, NEW o \in Ops, RefreshRestore(o) PROVE StoreKept'
  <1>1. OpsFit /\ op[o].at = "restore" /\ HasTurn(o) /\ Alive(o) /\ cleared' = cleared
    BY DEF Inv, RefreshRestore
  <1>2. CASE env' = op[o].env /\ At(o, "restored") /\ UNCHANGED <<gen, terms, mutq>>
    BY <1>1, AliveGen, <1>2, AtForm, RotatingGoes DEF StoreKept, CallStores, Rotating, RefreshSteps,
       ClearedStaysCleared, UnderWay, Queued, TurnKept
  <1>3. CASE FailClosed(o) /\ mutq' = Append(Tail(mutq), o) /\ UNCHANGED env
    BY <1>1, <1>3, FailClosedStores DEF TurnKept
  <1> QED BY Zenon, <1>2, <1>3 DEF RefreshRestore

(* A termination ends, with or without clearing the store. *)
LEMMA InvalidatedStores ==
    ASSUME Inv, StoreKept, NEW o \in Ops, Invalidated(o) PROVE StoreKept'
  <1>1. OpsFit /\ op[o].at = "invalidate" /\ HasTurn(o)
        /\ cleared' = gen /\ env' = None /\ gen' = gen /\ mutq' = Tail(mutq)
    BY DEF Inv, Invalidated, Release
  <1>2. terms # 0 BY <1>1, OwedTerms DEF Owed
  <1>7. \A q \in Ops : Light(q) \/ (q # o /\ op'[q] = op[q])
    BY <1>1, AtLight, SettleLight, EndLight DEF Invalidated, Queued, UnderWay, Rotating,
       RefreshSteps, Others
  <1> QED BY <1>1, <1>2, <1>7, StoreCleared DEF TurnKept

(* The session that could not be proven current is cleared. *)
LEMMA RefreshClosedStores ==
    ASSUME Inv, StoreKept, NEW o \in Ops, RefreshClosed(o) PROVE StoreKept'
  BY OwedTerms, SettleLight, StoreCleared DEF Inv, RefreshClosed, Release, Owed, TurnKept

(* A lock has read whose it is. *)
LEMMA LockReadStores ==
    ASSUME Inv, StoreKept, NEW o \in Ops, LockRead(o), ~Invalidate(o) PROVE StoreKept'
  BY OwedTerms, EndLight, StoreCleared DEF Inv, LockRead, storage, OpsFit, Fits, Kind, LoginSteps,
     UnlockSteps, RefreshSteps, Owed, TurnKept, Others

(* A logout clears the store. *)
LEMMA LogoutClearStores ==
    ASSUME Inv, StoreKept, NEW o \in Ops, LogoutClear(o) PROVE StoreKept'
  BY OwedTerms, EndLight, StoreCleared DEF Inv, LogoutClear, Release, OpsFit, Fits, Kind,
     LoginSteps, UnlockSteps, RefreshSteps, Owed, TurnKept, Others

(* A call that may change the session begins while nothing is being ended. *)
LEMMA StartStored ==
    ASSUME Inv, StoreKept, NEW o \in Ops, NEW c, Go(o, c), mutq' = mutq, env' = env,
           gen' = gen, terms' = terms, cleared' = cleared,
           c.gen <= gen, Changes(c) => terms = 0,
           c.at \notin Queued \cup UnderWay \cup Rotating
    PROVE  StoreKept'
  BY GoForm, StoreAgain DEF Inv, CallStores, Changes, StoreKept, ClearedStaysCleared, TurnKept

(* A call begins. *)
LEMMA CallStoresKept ==
    ASSUME Inv, Inv', StoreKept, NEW o \in Ops, Call(o) PROVE StoreKept'
  <1>0. OpsFit /\ gen \in Nat /\ 0 <= gen BY DEF Inv, StoreOK, DataOK
  <1>1. ASSUME NEW a \in Accounts, Login(o, a) PROVE StoreKept'
    <2> DEFINE c == [Idle EXCEPT !.kind = "login", !.at = "kdf", !.gen = gen, !.acct = a]
    <2>1. Go(o, c) /\ terms = 0 /\ mutq' = mutq /\ env' = env /\ gen' = gen
          /\ terms' = terms /\ cleared' = cleared
      BY <1>1 DEF Login, storage
    <2>2. c.gen = gen /\ c.at \notin Queued \cup UnderWay \cup Rotating
      BY DEF Idle, Queued, UnderWay, Rotating, RefreshSteps
    <2> HIDE DEF c
    <2> QED BY <1>0, <2>1, <2>2, StartStored
  <1>2. CASE CompleteTotp(o)
    <2> DEFINE c == [Idle EXCEPT !.kind = "login", !.at = "totp", !.gen = gen,
                          !.acct = totp.acct, !.buf = totp.buf]
    <2>1. Go(o, c) /\ terms = 0 /\ mutq' = mutq /\ env' = env /\ gen' = gen
          /\ terms' = terms /\ cleared' = cleared
      BY <1>2 DEF CompleteTotp, storage, Current
    <2>2. c.gen = gen /\ c.at \notin Queued \cup UnderWay \cup Rotating
      BY DEF Idle, Queued, UnderWay, Rotating, RefreshSteps
    <2> HIDE DEF c
    <2> QED BY <1>0, <2>1, <2>2, StartStored
  <1>3. CASE Unlock(o)
    <2> DEFINE c == [Idle EXCEPT !.kind = "unlock", !.at = "envelope", !.gen = gen]
    <2>1. Go(o, c) /\ terms = 0 /\ mutq' = mutq /\ env' = env /\ gen' = gen
          /\ terms' = terms /\ cleared' = cleared
      BY <1>3 DEF Unlock, storage
    <2>2. c.gen = gen /\ c.at \notin Queued \cup UnderWay \cup Rotating
      BY DEF Idle, Queued, UnderWay, Rotating, RefreshSteps
    <2> HIDE DEF c
    <2> QED BY <1>0, <2>1, <2>2, StartStored
  <1>4. CASE RefreshStart(o)
    <2> DEFINE c == [Idle EXCEPT !.kind = "refresh", !.at = "rotate", !.gen = gen,
                          !.buf = BufferOf(keys), !.tok = tokens]
    <2>1. Go(o, c) /\ terms = 0 /\ mutq' = mutq /\ env' = env /\ gen' = gen
          /\ terms' = terms /\ cleared' = cleared
      BY <1>4 DEF RefreshStart, storage
    <2>2. c.gen = gen /\ c.at \notin Queued \cup UnderWay \cup Rotating
      BY DEF Idle, Queued, UnderWay, Rotating, RefreshSteps
    <2> HIDE DEF c
    <2> QED BY <1>0, <2>1, <2>2, StartStored
  <1>5. CASE Read(o)
    <2> DEFINE c == [Idle EXCEPT !.kind = "read", !.at = "read", !.tok = tokens]
    <2>1. Go(o, c) /\ mutq' = mutq /\ env' = env /\ gen' = gen
          /\ terms' = terms /\ cleared' = cleared
      BY <1>5 DEF Read, storage
    <2>2. c.gen = 0 /\ c.kind = "read" /\ c.at \notin Queued \cup UnderWay \cup Rotating
      BY DEF Idle, Queued, UnderWay, Rotating, RefreshSteps
    <2> HIDE DEF c
    <2> QED BY <1>0, <2>1, <2>2, StartStored DEF Changes
  <1>6. ASSUME NEW k \in {"lock", "logout"},
               Go(o, [Idle EXCEPT !.kind = k, !.at = k]), Terminate(1),
               UNCHANGED <<mutq, storage>>
        PROVE  StoreKept'
    <2>1. op'[o] = [Idle EXCEPT !.kind = k, !.at = k] /\ Others(o)
      BY <1>0, <1>6, GoForm
    <2>2. op'[o].gen = 0 /\ op'[o].at = k BY <2>1 DEF Idle
    <2>3. op'[o].at \notin Queued \cup UnderWay \cup Rotating
      BY <2>2 DEF Queued, UnderWay, Rotating, RefreshSteps
    <2>4. gen' = gen + 1 /\ cleared' = cleared /\ env' = env /\ mutq' = mutq
      BY <1>6 DEF Terminate, storage
    <2> QED BY <1>0, <2>1, <2>2, <2>3, <2>4, StoreEnds DEF Others, TurnKept
  <1>7. CASE Lock(o)
    <2>1. UNCHANGED <<mutq, storage>> BY <1>7 DEF Lock
    <2>2. CASE Terminate(1) /\ Go(o, [Idle EXCEPT !.kind = "lock", !.at = "lock"])
      BY <1>6, <2>1, <2>2
    <2>3. CASE Terminate(0) /\ UNCHANGED op
      BY <1>7, <2>3, <2>1, <1>0, StoreEnds DEF Lock, Slot, Idle, Queued, UnderWay, Rotating,
         RefreshSteps, Terminate, storage, TurnKept
    <2> QED BY Zenon, <1>7, <2>2, <2>3 DEF Lock
  <1>8. CASE Logout(o) BY <1>8, <1>6 DEF Logout
  <1> QED BY Zenon, <1>1, <1>2, <1>3, <1>4, <1>5, <1>7, <1>8 DEF Call

(* The steps that are of no call. *)
LEMMA OtherStores ==
    ASSUME Inv, StoreKept,
           DropTotp \/ SetAutoLockPolicy \/ Expire \/ Restart \/ UNCHANGED vars
    PROVE  StoreKept'
  <1>1. CASE DropTotp \/ SetAutoLockPolicy \/ Expire \/ UNCHANGED vars
    BY <1>1 DEF DropTotp, SetAutoLockPolicy, Expire, vars, storage, StoreKept, CallStores, Changes,
       HasTurn, ClearedStaysCleared
  <1>2. CASE Restart
    <2>1. cleared' = 0 /\ gen' = 0 /\ terms' = 0 BY <1>2 DEF Restart
    <2>2. \A o \in Ops : op'[o] = Idle BY <1>2 DEF Restart
    <2>3. \A o \in Ops : CallStores(o)'
      BY <2>1, <2>2 DEF CallStores, Changes, Idle, Queued, UnderWay, Rotating, RefreshSteps
    <2>4. env \in Envelopes \cup {None} BY DEF Inv, StoreOK, DataOK
    <2>5. PICK e : e = env OBVIOUS
    <2>6. env' = IF e = None THEN None ELSE [e EXCEPT !.gen = 0] BY <1>2, <2>5 DEF Restart
    <2>7. env' # None => env'.gen = 0
      BY <2>4, <2>5, <2>6 DEF Envelopes, Payloads
    <2>8. ClearedStaysCleared' BY <2>1, <2>7 DEF ClearedStaysCleared
    <2> QED BY <2>1, <2>3, <2>8 DEF StoreKept
  <1> QED BY <1>1, <1>2

(* Every step of a call that is under way. *)
LEMMA ContinueStores ==
    ASSUME Inv, Inv', StoreKept, NEW o \in Ops, Continue(o) PROVE StoreKept'
  <1>1. CASE Invalidate(o) BY <1>1, InvalidateStores
  <1>2. CASE LoginStep(o)
    BY <1>2, LoginKdfStores, LoginAuthStores, TotpVerifiedStores, OpenAccountStores,
       WritesStore, LoginSupersededStores, LoginStoredStores, LoginSharedStores
       DEF LoginStep
  <1>3. CASE UnlockStep(o) /\ ~Invalidate(o)
    BY <1>3, UnlockReadStores, UnlockDeriveStores, UnlockBindStores, UnlockOpenStores,
       UnlockDiscardStores, UnlockSharedStores, UnlockRefreshedStores
       DEF UnlockStep
  <1>4. CASE RefreshStep(o) /\ ~Invalidate(o)
    BY <1>4, RefreshReadStores, WritesStore, RefreshSupersededStores,
       RefreshMarkedStores, RotatedStores, RefreshUnansweredStores, RefreshRefusedStores,
       RefreshReplacedStores, RefreshRestoreStores, RefreshRestoredStores,
       RefreshClosedStores
       DEF RefreshStep
  <1>5. CASE EndStep(o) /\ ~Invalidate(o)
    BY <1>5, InvalidatedStores, LockReadStores, LogoutReadStores, LogoutClearStores
       DEF EndStep
  <1>6. CASE (Publish(o) \/ PublishRefused(o) \/ ReadDone(o)) /\ ~Invalidate(o)
    BY <1>6, PublishStores, PublishRefusedStores, ReadDoneStores
  <1> QED BY Zenon, <1>1, <1>2, <1>3, <1>4, <1>5, <1>6 DEF Continue

(* Nothing is in flight at the start. *)
LEMMA StoreInit == Init => StoreKept
  <1> SUFFICES ASSUME Init PROVE StoreKept OBVIOUS
  <1>1. gen = 0 /\ cleared = 0 /\ terms = 0 /\ \A o \in Ops : op[o] = Idle BY DEF Init
  <1>2. \A o \in Ops : CallStores(o)
    BY <1>1 DEF CallStores, Changes, Idle, Queued, UnderWay, Rotating, RefreshSteps
  <1>3. env # None => env.gen = 0 BY DEF Init, Remembered
  <1> QED BY <1>1, <1>2, <1>3 DEF StoreKept, ClearedStaysCleared

(* Every step keeps it. *)
LEMMA StoreNext == Inv /\ Inv' /\ StoreKept /\ [Next]_vars => StoreKept'
  BY ContinueStores, CallStoresKept, OtherStores DEF Next

-----------------------------------------------------------------------------
(* The key material of the calls.                                            *)

(* A call that owns a buffer shares it with nobody, and while its lifecycle  *)
(* lasts the buffer is not wiped; a second factor keeps its challenge's      *)
(* buffer while the challenge is pending; and what is not wiped is tracked,  *)
(* or live, or pending, so that a termination finds it.                      *)
Owns(o) == op[o].kind \in {"login", "unlock"} /\ op[o].buf # None
Pend == BufferOf(totp)
Live == BufferOf(keys)
Before == {"kdf", "derive"}
Apart == {"totp", "discard"}
CallOwns(o) ==
    /\ op[o].at \in Before => op[o].buf = None
    /\ Owns(o) /\ op[o].at \notin Apart =>
         /\ op[o].gen = gen => op[o].buf \in plain
         /\ op[o].buf # Pend
    /\ op[o].at = "totp" => op[o].buf = Pend \/ op[o].buf \notin plain
    /\ op[o].at = "discard" => op[o].buf \notin plain
    /\ Owns(o) => op[o].buf # Live
    /\ op[o].kind = "login" /\ op[o].at # "totp" => totp = None
Separate(o, p) ==
    /\ Owns(o) /\ Owns(p) => op[o].buf # op[p].buf
    /\ ~(op[o].kind = "login" /\ op[p].kind = "login")
HasOwner(b) ==
    \/ b = Live \/ b = Pend
    \/ \E o \in Ops : Owns(o) /\ op[o].buf = b /\ op[o].gen = gen
MaterialKept ==
    /\ plain \subseteq tracked \cup {Live, Pend}
    /\ totp # None => Pend \in plain /\ Pend # Live /\ terms = 0 /\ totp.gen = gen
    /\ keys # None => Live \in plain
    /\ \A b \in plain : HasOwner(b)
    /\ \A o \in Ops : CallOwns(o)
    /\ \A o, p \in Ops : o # p => Separate(o, p)

(* A call that goes on with its buffer, or ends or begins without one that   *)
(* is its own.                                                               *)
Passes(q) ==
    \/ op'[q] = op[q]
    \/ Goes(q) /\ op[q].at \notin Apart /\ op'[q].at \notin Before \cup Apart
    \/ /\ op'[q].kind # "login" /\ op'[q].at \notin Apart
       /\ op'[q].at \in Before => op'[q].buf = None
       /\ op'[q].kind = "unlock" => op'[q].buf = None
       /\ Owns(q) => op[q].buf = Pend \/ op[q].buf \notin plain

(* A step that wipes nothing and derives nothing. *)
LEMMA MaterialQuiet ==
    ASSUME Inv, MaterialKept, plain' = plain, keys' = keys, totp' = totp, gen' = gen,
           plain \subseteq tracked' \cup {Live, Pend}, totp # None => terms' = 0,
           \A q \in Ops : Passes(q)
    PROVE  MaterialKept'
  <1>1. Live' = Live /\ Pend' = Pend BY DEF Live, Pend, BufferOf
  <1>2. \A q \in Ops : Owns(q)' => Owns(q) /\ op'[q].buf = op[q].buf /\ op'[q].gen = op[q].gen
    BY DEF Passes, Owns, Goes
  <1>3. \A q \in Ops : op'[q].kind = "login" => op[q].kind = "login"
    BY DEF Passes, Goes
  <1>4. ASSUME NEW q \in Ops PROVE CallOwns(q)'
    BY <1>1 DEF MaterialKept, CallOwns, Owns, Goes, Apart, Passes
  <1>5. \A o, p \in Ops : o # p => Separate(o, p)'
    BY <1>2, <1>3 DEF MaterialKept, Separate
  <1>6. ASSUME NEW b \in plain PROVE HasOwner(b)'
    BY <1>1 DEF MaterialKept, HasOwner, Passes, Goes, Owns
  <1> QED BY <1>1, <1>4, <1>5, <1>6 DEF MaterialKept

(* A call wipes the buffer it owns. *)
LEMMA MaterialWiped ==
    ASSUME Inv, MaterialKept, NEW o \in Ops, Owns(o), op[o].at \notin Apart, Others(o),
           keys' = keys, totp' = totp, gen' = gen, terms' = terms,
           plain' = plain \ {op[o].buf},
           tracked' = tracked \/ tracked' = tracked \ {op[o].buf},
           op'[o] = Idle \/ (Goes(o) /\ op'[o].at = "discard")
    PROVE  MaterialKept'
  <1>1. Live' = Live /\ Pend' = Pend BY DEF Live, Pend, BufferOf
  <1>2. CallOwns(o) /\ op[o].buf # Pend /\ op[o].buf # Live
    BY DEF MaterialKept, CallOwns
  <1>3. \A q \in Ops : Owns(q)' => Owns(q) /\ op'[q].buf = op[q].buf /\ op'[q].gen = op[q].gen
    BY DEF Owns, Goes, Idle, Others
  <1>4. \A q \in Ops : op'[q].kind = "login" => op[q].kind = "login"
    BY DEF Goes, Idle, Others
  <1>5. ASSUME NEW q \in Ops PROVE CallOwns(q)'
    BY <1>1, <1>2 DEF MaterialKept, Others, Separate, CallOwns, Owns, Idle, Goes, Before, Apart
  <1>6. \A q, p \in Ops : q # p => Separate(q, p)'
    BY <1>3, <1>4 DEF MaterialKept, Separate
  <1>7. ASSUME NEW b \in plain, b # op[o].buf PROVE HasOwner(b)'
    BY <1>1, <1>7 DEF MaterialKept, HasOwner, Others, Owns
  <1> QED BY <1>1, <1>2, <1>5, <1>6, <1>7 DEF MaterialKept

(* A termination wipes all there is. *)
LEMMA MaterialEnds ==
    ASSUME Inv, Inv', StoreKept, MaterialKept, NEW o \in Ops, NEW n, Terminate(n), Others(o),
           \/ op'[o] = op[o]
           \/ Goes(o) /\ op'[o].at \notin Before \cup Apart
           \/ op'[o].kind \notin {"login", "unlock"} /\ op'[o].at \notin Before \cup Apart
    PROVE  MaterialKept'
  <1>1. /\ keys' = None /\ totp' = None /\ gen' = gen + 1 /\ plain' = {} /\ tracked' = {}
    BY DEF Terminate, ClearPendingTotp, Forget, WipedMaterial, MaterialKept, Live, Pend
  <1>2. Live' = None /\ Pend' = None BY <1>1 DEF Live, Pend, BufferOf
  <1>3. \A q \in Ops : Owns(q)' => Owns(q) /\ op'[q].buf = op[q].buf
    BY DEF Owns, Goes, Others
  <1>4. \A q \in Ops : op'[q].kind = "login" => op[q].kind = "login"
    BY DEF Goes, Others
  <1>5. ASSUME NEW q \in Ops PROVE CallOwns(q)'
    <2>1. CallOwns(q) BY DEF MaterialKept
    <2>2. op'[q].at \in Before => op'[q].buf = None
      BY <2>1 DEF CallOwns, Others
    <2>3. Owns(q)' => op'[q].buf # None BY DEF Owns
    <2>4. gen \in Nat /\ op[q].gen \in Nat /\ op[q].gen <= gen
      BY DEF Inv, StoreOK, DataOK, OpsFit, Calls, StoreKept, CallStores
    <2>5. Owns(q)' => op'[q].gen # gen' BY <1>1, <2>4 DEF Owns, Goes, Others
    <2> QED BY <1>1, <1>2, <2>2, <2>3, <2>5 DEF CallOwns
  <1>6. \A q, p \in Ops : q # p => Separate(q, p)'
    BY <1>3, <1>4 DEF MaterialKept, Separate
  <1> QED BY <1>1, <1>5, <1>6 DEF MaterialKept

(* Which calls can be suspended at a step. *)
LEMMA KindOf ==
    ASSUME OpsFit, NEW o \in Ops
    PROVE  /\ op[o].at \in LoginSteps => op[o].kind = "login"
           /\ op[o].at \in {"share", "publish"} => op[o].kind \in {"login", "unlock"}
           /\ op[o].at \in {"envelope", "derive", "bind", "open", "discard", "wait", "refreshed"}
                => op[o].kind = "unlock"
           /\ op[o].at \in RefreshSteps => op[o].kind \in {"refresh", "unlock"}
           /\ op[o].at = "invalidate" => op[o].kind # "login"
  BY DEF OpsFit, Fits, Kind, LoginSteps, UnlockSteps, RefreshSteps

(* A call derives its keys into a buffer that nothing refers to. *)
LEMMA MaterialDerived ==
    ASSUME Inv, MaterialKept, NEW o \in Ops, NEW b \in Fresh(Buffers, UsedBuffers),
           op[o].at \in Before, op[o].gen = gen, Others(o),
           op'[o].kind = op[o].kind, op'[o].gen = op[o].gen, op'[o].buf = b,
           op'[o].at \notin Before \cup Apart,
           keys' = keys, totp' = totp, gen' = gen, terms' = terms,
           plain' = plain \cup {b}, tracked' = tracked \cup {b}
    PROVE  MaterialKept'
  <1>1. Live' = Live /\ Pend' = Pend BY DEF Live, Pend, BufferOf
  <1>2. /\ b \in Buffers /\ b \notin plain /\ b # Live /\ b # Pend
        /\ \A q \in Ops : op[q].buf # b
    BY DEF Fresh, UsedBuffers, Live, Pend
  <1>3. op[o].kind \in {"login", "unlock"} /\ ~Owns(o)
    BY KindOf DEF Inv, Before, LoginSteps, MaterialKept, CallOwns, Owns
  <1>4. b # None BY <1>2, SessionAssumption DEF Buffers
  <1>5. Owns(o)' BY <1>3, <1>4 DEF Owns
  <1>6. ASSUME NEW q \in Ops PROVE CallOwns(q)'
    BY <1>1, <1>2, <1>3 DEF MaterialKept, CallOwns, Owns, Others, Before, Apart
  <1>7. \A q, p \in Ops : q # p => Separate(q, p)'
    BY <1>2 DEF MaterialKept, Separate, Owns, Others
  <1>8. ASSUME NEW x \in plain PROVE HasOwner(x)'
    BY <1>1, <1>3 DEF MaterialKept, HasOwner, Others, Owns
  <1>9. HasOwner(b)' BY <1>5 DEF HasOwner
  <1> QED BY <1>1, <1>2, <1>6, <1>7, <1>8, <1>9 DEF MaterialKept

(* The buffer of a call is not absence. *)
LEMMA BufferIsReal == \A b \in Buffers : b # None
  BY SessionAssumption DEF Buffers

(* A login's keys go to the challenge of its second factor. *)
LEMMA ChallengeBegins ==
    ASSUME Inv, MaterialKept, NEW o \in Ops, op[o].at = "auth", Alive(o), Others(o),
           op'[o] = Idle,
           totp' = [acct |-> op[o].acct, buf |-> op[o].buf, gen |-> op[o].gen],
           tracked' = tracked \ {op[o].buf}, plain' = plain,
           keys' = keys, gen' = gen, terms' = terms
    PROVE  MaterialKept'
  <1>1. op[o].kind = "login" /\ op[o].buf \in Buffers /\ op[o].acct \in Accounts
        /\ op[o].gen \in Nat
    BY KindOf DEF Inv, LoginSteps, OpsFit, Fits, Holds, UnlockSteps, RefreshSteps, Calls
  <1>2. op[o].buf # None BY <1>1, BufferIsReal
  <1>3. Owns(o) /\ op[o].gen = gen /\ terms = 0 BY <1>1, <1>2 DEF Owns, Alive, Current
  <1>4. CallOwns(o) BY DEF MaterialKept
  <1>5. totp = None /\ op[o].buf \in plain /\ op[o].buf # Live
    BY <1>1, <1>3, <1>4 DEF CallOwns, Apart
  <1>6. PICK a \in Accounts, b \in Buffers, g \in Nat :
          a = op[o].acct /\ b = op[o].buf /\ g = op[o].gen
    BY <1>1
  <1>7. totp' = [acct |-> a, buf |-> b, gen |-> g] BY <1>6
  <1>8. totp' \in Pending BY <1>7 DEF Pending
  <1>9. totp' # None BY <1>8, AbsenceAssumption
  <1>10. Pend' = b /\ totp'.gen = g /\ Live' = Live
    BY <1>7, <1>9 DEF Pend, Live, BufferOf
  <1>11. Pend = None BY <1>5 DEF Pend, BufferOf
  <1>12. ASSUME NEW q \in Ops, q # o PROVE CallOwns(q)'
    BY <1>12, <1>1, <1>3, <1>6, KindOf, <1>10 DEF MaterialKept, Others, Separate, Inv, LoginSteps,
       CallOwns, Owns
  <1>13. CallOwns(o)' BY DEF CallOwns, Owns, Idle, Before, Apart
  <1>14. \A q, p \in Ops : q # p => Separate(q, p)'
    BY DEF MaterialKept, Separate, Owns, Others, Idle
  <1>15. ASSUME NEW x \in plain PROVE HasOwner(x)'
    BY <1>10, <1>11, BufferIsReal, <1>6 DEF MaterialKept, HasOwner, Inv, StoreOK, DataOK, Others,
       Owns
  <1>16. plain' \subseteq tracked' \cup {Live', Pend'}
    BY <1>6, <1>10, <1>11, BufferIsReal DEF MaterialKept, Inv, StoreOK, DataOK
  <1>17. totp'.gen = gen /\ Pend' \in plain /\ Pend' # Live
    BY <1>3, <1>5, <1>6, <1>10
  <1>18. keys' # None => Live' \in plain' BY <1>10 DEF MaterialKept
  <1>19. \A q \in Ops : CallOwns(q)' BY <1>12, <1>13
  <1> QED BY <1>3, <1>10, <1>14, <1>15, <1>16, <1>17, <1>18, <1>19 DEF MaterialKept

(* The second factor is confirmed: its call has the buffer. *)
LEMMA ChallengeMet ==
    ASSUME Inv, MaterialKept, NEW o \in Ops, op[o].at = "totp", Pend = op[o].buf, Others(o),
           Alive(o),
           Goes(o), op'[o].at = "account", totp' = None,
           tracked' = tracked \cup {op[o].buf}, plain' = plain,
           keys' = keys, gen' = gen, terms' = terms
    PROVE  MaterialKept'
  <1>1. op[o].kind = "login" /\ op[o].buf \in Buffers
    BY KindOf DEF Inv, LoginSteps, OpsFit, Fits, Holds, UnlockSteps, RefreshSteps
  <1>2. op[o].buf # None BY <1>1, BufferIsReal
  <1>3. Owns(o) /\ op[o].gen = gen /\ CallOwns(o)
    BY <1>1, <1>2 DEF Owns, Alive, Current, MaterialKept
  <1>4. totp # None BY <1>2 DEF Pend, BufferOf
  <1>5. Pend \in plain /\ Pend # Live BY <1>4 DEF MaterialKept
  <1>6. Pend' = None /\ Live' = Live BY DEF Pend, Live, BufferOf
  <1>7. \A q \in Ops : op'[q].kind = op[q].kind /\ op'[q].gen = op[q].gen
                       /\ op'[q].buf = op[q].buf
    BY DEF Goes, Others
  <1>8. ASSUME NEW q \in Ops, q # o PROVE CallOwns(q)'
    BY <1>8, <1>1, KindOf, <1>6 DEF MaterialKept, Others, Separate, Inv, LoginSteps, CallOwns, Owns
  <1>9. CallOwns(o)'
    BY <1>2, <1>3, <1>5, <1>6, <1>7 DEF CallOwns, Owns, Before, Apart
  <1>10. \A q, p \in Ops : q # p => Separate(q, p)'
    BY <1>7 DEF MaterialKept, Separate, Owns
  <1>11. ASSUME NEW x \in plain PROVE HasOwner(x)'
    BY <1>6, <1>3, <1>7 DEF MaterialKept, HasOwner, Owns
  <1>12. plain' \subseteq tracked' \cup {Live', Pend'} BY <1>6 DEF MaterialKept
  <1>13. \A q \in Ops : CallOwns(q)' BY <1>8, <1>9
  <1> QED BY <1>6, <1>10, <1>11, <1>12, <1>13 DEF MaterialKept

(* The challenge is dropped. *)
LEMMA ChallengeDropped ==
    ASSUME Inv, MaterialKept, plain' = plain \ {Pend}, totp' = None, tracked' = tracked,
           keys' = keys, gen' = gen,
           \/ op' = op
           \/ \E o \in Ops : /\ Others(o) /\ \A q \in Ops : op[q].kind # "login"
                             /\ op'[o].at = "kdf" /\ op'[o].buf = None
                             /\ op'[o].kind = "login" /\ op[o] = Idle
    PROVE  MaterialKept'
  <1>1. Pend' = None /\ Live' = Live BY DEF Pend, Live, BufferOf
  <1>2. ASSUME NEW q \in Ops PROVE CallOwns(q)'
    BY <1>1 DEF MaterialKept, CallOwns, Owns, Before, Apart, Others
  <1>3. \A q, p \in Ops : q # p => Separate(q, p)'
    BY DEF MaterialKept, Separate, Owns, Others
  <1>4. ASSUME NEW x \in plain, x # Pend PROVE HasOwner(x)'
    BY <1>1, <1>4 DEF MaterialKept, HasOwner, Owns, Idle, Others
  <1>5. keys # None => Live # Pend
    BY BufferIsReal DEF Pend, BufferOf, Inv, StoreOK, DataOK, Keys, Live, MaterialKept
  <1> QED BY <1>1, <1>2, <1>3, <1>4, <1>5 DEF MaterialKept

(* A second factor is sent: its call holds the challenge's buffer. *)
LEMMA ChallengeSent ==
    ASSUME Inv, MaterialKept, NEW o \in Ops, totp # None, Others(o), op[o] = Idle,
           \A q \in Ops : op[q].kind # "login",
           op'[o].at = "totp" /\ op'[o].kind = "login" /\ op'[o].buf = Pend,
           totp' = totp, tracked' = tracked, plain' = plain,
           keys' = keys, gen' = gen, terms' = terms
    PROVE  MaterialKept'
  <1>1. Pend' = Pend /\ Live' = Live BY DEF Pend, Live, BufferOf
  <1>2. Pend # Live BY DEF MaterialKept
  <1>3. \A q \in Ops : q # o => op'[q] = op[q] /\ op[q].at # "totp" /\ op[q].kind # "login"
    BY KindOf DEF Others, Inv, LoginSteps
  <1>4. ASSUME NEW q \in Ops PROVE CallOwns(q)'
    BY <1>1, <1>3, <1>2 DEF MaterialKept, CallOwns, Owns, Before, Apart
  <1>5. \A q \in Ops : Owns(q) /\ op[q].at \notin Apart => op[q].buf # Pend
    BY DEF MaterialKept, CallOwns
  <1>6. \A q \in Ops : q # o /\ Owns(q) => op[q].buf # Pend
    BY <1>3, <1>5 DEF MaterialKept, CallOwns, Apart
  <1>7. ASSUME NEW q \in Ops, NEW p \in Ops, q # p PROVE Separate(q, p)'
    BY <1>3, <1>7, <1>6 DEF MaterialKept, Separate, Owns
  <1>8. ASSUME NEW x \in plain PROVE HasOwner(x)'
    BY <1>1 DEF MaterialKept, HasOwner, Owns, Idle, Others
  <1> QED BY <1>1, <1>4, <1>7, <1>8 DEF MaterialKept

(* The keys of a call become the live ones. *)
LEMMA MaterialPublished ==
    ASSUME Inv, MaterialKept, NEW o \in Ops, Owns(o), op[o].at \notin Apart, Alive(o), Others(o),
           op[o].acct \in Accounts, op'[o] = Idle,
           keys' = [acct |-> op[o].acct, buf |-> op[o].buf, gen |-> op[o].gen],
           plain' = plain \ {Live}, tracked' = tracked \ {op[o].buf},
           totp' = totp, gen' = gen, terms' = terms
    PROVE  MaterialKept'
  <1>1. op[o].buf \in Buffers /\ op[o].gen \in Nat
    BY DEF Inv, OpsFit, Calls, Owns
  <1>2. PICK a \in Accounts, b \in Buffers, g \in Nat :
          a = op[o].acct /\ b = op[o].buf /\ g = op[o].gen
    BY <1>1
  <1>3. keys' = [acct |-> a, buf |-> b, gen |-> g] BY <1>2
  <1>4. keys' \in Keys BY <1>3 DEF Keys
  <1>5. Live' = b /\ Pend' = Pend
    BY <1>3, <1>4, AbsenceAssumption DEF Live, Pend, BufferOf
  <1>6. CallOwns(o) /\ op[o].gen = gen BY DEF MaterialKept, Alive, Current
  <1>7. b \in plain /\ b # Pend /\ b # Live BY <1>2, <1>6 DEF CallOwns
  <1>8. ASSUME NEW q \in Ops, q # o PROVE CallOwns(q)'
    BY <1>8, <1>2, <1>5 DEF MaterialKept, Others, Separate, CallOwns, Owns
  <1>9. CallOwns(o)' BY DEF CallOwns, Owns, Idle, Before, Apart
  <1>10. \A q, p \in Ops : q # p => Separate(q, p)'
    BY DEF MaterialKept, Separate, Owns, Others, Idle
  <1>11. ASSUME NEW x \in plain, x # Live PROVE HasOwner(x)'
    BY <1>5, <1>2, <1>11 DEF MaterialKept, HasOwner, Others, Owns
  <1>12. plain' \subseteq tracked' \cup {Live', Pend'}
    BY <1>2, <1>5 DEF MaterialKept
  <1>13. totp' # None => Pend' \in plain' /\ Pend' # Live' /\ terms' = 0 /\ totp'.gen = gen'
    BY <1>5, <1>7 DEF MaterialKept
  <1>14. \A q \in Ops : CallOwns(q)' BY <1>8, <1>9
  <1> QED BY <1>5, <1>7, <1>10, <1>11, <1>12, <1>13, <1>14 DEF MaterialKept

-----------------------------------------------------------------------------
(* What each step does to the key material.                                  *)

Still == /\ plain' = plain /\ tracked' = tracked
         /\ keys' = keys /\ totp' = totp /\ gen' = gen /\ terms' = terms

(* A call that has derived its keys owns them until it ends. *)
Owning == {"auth", "totp", "account", "put", "putting", "stored", "share", "publish",
           "bind", "open", "discard", "wait", "refreshed"}

(* The step at which a call is suspended tells that it owns its buffer. *)
LEMMA OwnerAt ==
    ASSUME Inv, NEW o \in Ops, op[o].at \in Owning PROVE Owns(o) /\ op[o].acct \in Accounts
  BY KindOf, BufferIsReal DEF Inv, OpsFit, Fits, Holds, Owning, LoginSteps, UnlockSteps,
     RefreshSteps, Owns

(* The same, with all of the key material as it was. *)
LEMMA StillPasses ==
    ASSUME Inv, MaterialKept, Still, \A q \in Ops : Passes(q) PROVE MaterialKept'
  BY MaterialQuiet DEF MaterialKept, Still

(* A call goes on with its buffer. *)
LEMMA GoStill ==
    ASSUME Inv, MaterialKept, Still, NEW o \in Ops, NEW c, Go(o, c), op[o].at \notin Apart,
           c.kind = op[o].kind, c.gen = op[o].gen, c.buf = op[o].buf,
           c.at \notin Before \cup Apart
    PROVE  MaterialKept'
  BY GoForm, StillPasses DEF Inv, Passes, Goes, Others

(* The same, with nothing else of the call changed. *)
LEMMA AtStill ==
    ASSUME Inv, MaterialKept, Still, NEW o \in Ops, NEW s, At(o, s), op[o].at \notin Apart,
           s \notin Before \cup Apart
    PROVE  MaterialKept'
  BY AtForm, StillPasses DEF Inv, Goes, Passes, Others

(* A call ends that has no buffer of its own, or one that is not its to wipe. *)
LEMMA EndPasses ==
    ASSUME Inv, NEW o \in Ops, End(o), Owns(o) => op[o].buf = Pend \/ op[o].buf \notin plain
    PROVE  \A q \in Ops : Passes(q)
  BY EndForm DEF Inv, Passes, Idle, Others, Before, Apart

(* The end of a refresh leaves every buffer with its call. *)
LEMMA SettlePasses ==
    ASSUME Inv, NEW o \in Ops, Settle(o), op[o].at \notin Apart, op[o].kind # "login"
    PROVE  \A q \in Ops : Passes(q)
  <1> SUFFICES ASSUME NEW q \in Ops PROVE Passes(q) OBVIOUS
  <1>1. op[q] \in Calls BY DEF Inv, OpsFit
  <1>2. CASE op[q].at = "wait" \/ (q = o /\ op[q].kind = "unlock")
    BY <1>1, <1>2 DEF Settle, Calls, Goes, Apart, Passes, Before
  <1>3. CASE q = o /\ ~(op[q].at = "wait" \/ op[q].kind = "unlock")
    BY <1>3 DEF Settle, Owns, Passes, Idle, Before, Apart
  <1>4. CASE q # o /\ op[q].at # "wait" BY <1>4 DEF Settle, Passes
  <1> QED BY <1>2, <1>3, <1>4

(* A call that gives up wipes its buffer, which is nobody else's. *)
LEMMA GiveUpWipes ==
    ASSUME Inv, MaterialKept, NEW o \in Ops, GiveUp(o), op[o].at \in Owning \ Apart,
           keys' = keys, totp' = totp, gen' = gen, terms' = terms
    PROVE  MaterialKept'
  BY EndForm, OwnerAt, MaterialWiped DEF Inv, GiveUp, Forget, Untrack

(* An unlock that reads the stored session holds nothing yet. *)
LEMMA OpsHold ==
    ASSUME Inv, NEW o \in Ops, op[o].at = "envelope" PROVE op[o].buf = None
  BY DEF Inv, OpsFit, Fits, Holds

(* A login derives its keys. *)
LEMMA LoginKdfMaterial ==
    ASSUME Inv, MaterialKept, NEW o \in Ops, LoginKdf(o) PROVE MaterialKept'
  <1>1. OpsFit /\ op[o] \in Calls BY DEF Inv, OpsFit
  <1>2. op[o].at = "kdf" BY Zenon DEF LoginKdf
  <1>3. UNCHANGED <<keys, gen, terms, totp>> BY Zenon DEF LoginKdf, memory
  <1>4. ASSUME Alive(o), NEW b \in Fresh(Buffers, UsedBuffers), plain' = plain \cup {b},
               tracked' = tracked \cup {b},
               Go(o, [op[o] EXCEPT !.at = "auth", !.buf = b])
        PROVE  MaterialKept'
    <2> DEFINE c == [op[o] EXCEPT !.at = "auth", !.buf = b]
    <2>3. b \in Buffers BY <1>4 DEF Fresh
    <2>4. /\ c.kind = op[o].kind /\ c.gen = op[o].gen /\ c.buf = b
          /\ c.at \notin Before \cup Apart
      BY <1>1, <2>3 DEF Calls, Before, Apart
    <2>5. op'[o] = c /\ Others(o) BY <1>1, <1>4, GoForm
    <2> HIDE DEF c
    <2>1. /\ op'[o].kind = op[o].kind /\ op'[o].gen = op[o].gen /\ op'[o].buf = b
          /\ op'[o].at \notin Before \cup Apart /\ Others(o)
      BY <2>4, <2>5
    <2>2. op[o].at \in Before /\ op[o].gen = gen BY <1>2, <1>4 DEF Before, Alive, Current
    <2> QED BY <1>3, <1>4, <2>1, <2>2, MaterialDerived
  <1>5. CASE End(o) /\ UNCHANGED <<material>>
    BY <1>3, <1>5, <1>2, EndPasses, StillPasses DEF Still, material, MaterialKept, CallOwns, Owns,
       Before
  <1> QED BY Zenon, <1>4, <1>5 DEF LoginKdf, material

(* The password is answered. *)
LEMMA LoginAuthMaterial ==
    ASSUME Inv, MaterialKept, NEW o \in Ops, LoginAuth(o) PROVE MaterialKept'
  <1>1. OpsFit /\ op[o] \in Calls BY DEF Inv, OpsFit
  <1>2. op[o].at = "auth" BY Zenon DEF LoginAuth
  <1>3. UNCHANGED <<keys, gen, terms>> BY Zenon DEF LoginAuth, memory
  <1>4. CASE GiveUp(o) /\ UNCHANGED totp
    BY <1>2, <1>3, <1>4, GiveUpWipes DEF Owning, Apart
  <1>5. CASE /\ Alive(o) /\ End(o) /\ Untrack({op[o].buf}) /\ plain' = plain
          /\ totp' = [acct |-> op[o].acct, buf |-> op[o].buf, gen |-> op[o].gen]
    BY <1>1, <1>5, EndForm, <1>2, <1>3, ChallengeBegins DEF Untrack
  <1>6. ASSUME NEW t, Go(o, [op[o] EXCEPT !.at = "account", !.tok = [acct |-> op[o].acct, tok |-> t]]), UNCHANGED <<material, totp>>
        PROVE  MaterialKept'
    <2> DEFINE c == [op[o] EXCEPT !.at = "account", !.tok = [acct |-> op[o].acct, tok |-> t]]
    <2>1. Go(o, c) BY <1>6
    <2>2. /\ c.kind = op[o].kind /\ c.gen = op[o].gen /\ c.buf = op[o].buf
          /\ c.at \notin Before \cup Apart
      BY <1>1 DEF Calls, Before, Apart
    <2>3. Still BY <1>3, <1>6 DEF Still, material
    <2>4. op[o].at \notin Apart BY <1>2 DEF Apart
    <2> HIDE DEF c
    <2> QED BY <2>1, <2>2, <2>3, <2>4, GoStill
  <1> QED BY Zenon, <1>4, <1>5, <1>6 DEF LoginAuth, material

(* The second factor is answered. *)
LEMMA TotpVerifiedMaterial ==
    ASSUME Inv, MaterialKept, NEW o \in Ops, TotpVerified(o) PROVE MaterialKept'
  <1>1. OpsFit /\ op[o] \in Calls BY DEF Inv, OpsFit
  <1>2. op[o].at = "totp" /\ plain' = plain BY Zenon DEF TotpVerified
  <1>3. UNCHANGED <<keys, gen, terms>> BY Zenon DEF TotpVerified, memory
  <1>4. CASE End(o) /\ UNCHANGED <<totp, tracked>>
    BY <1>2, <1>3, <1>4, EndPasses, StillPasses DEF Still, MaterialKept, CallOwns
  <1>5. ASSUME Alive(o), BufferOf(totp) = op[o].buf, totp' = None,
               tracked' = tracked \cup {op[o].buf}, NEW t,
               Go(o, [op[o] EXCEPT !.at = "account", !.tok = [acct |-> op[o].acct, tok |-> t]])
        PROVE  MaterialKept'
    <2> DEFINE c == [op[o] EXCEPT !.at = "account", !.tok = [acct |-> op[o].acct, tok |-> t]]
    <2>1. c.at = "account" /\ c.kind = op[o].kind /\ c.gen = op[o].gen /\ c.buf = op[o].buf
      BY <1>1 DEF Calls
    <2>2. op'[o] = c /\ Others(o) BY <1>1, <1>5, GoForm
    <2> HIDE DEF c
    <2>3. Goes(o) /\ op'[o].at = "account" BY <2>1, <2>2 DEF Goes
    <2>4. Pend = op[o].buf BY <1>5 DEF Pend
    <2> QED BY <1>2, <1>3, <1>5, <2>2, <2>3, <2>4, ChallengeMet
  <1> QED BY Zenon, <1>4, <1>5 DEF TotpVerified, material

(* The account is opened, or refused. *)
LEMMA OpenAccountMaterial ==
    ASSUME Inv, MaterialKept, NEW o \in Ops, OpenAccount(o) PROVE MaterialKept'
  <1>1. OpsFit /\ op[o] \in Calls BY DEF Inv, OpsFit
  <1>2. op[o].at = "account" BY Zenon DEF OpenAccount
  <1>3. UNCHANGED <<keys, gen, terms, totp>> BY Zenon DEF OpenAccount, memory
  <1>4. CASE GiveUp(o) BY <1>2, <1>3, <1>4, GiveUpWipes DEF Owning, Apart
  <1>5. ASSUME NEW i, Go(o, [op[o] EXCEPT !.at = "put",
                        !.new = [acct |-> op[o].acct, era |-> era, state |-> "active",
                                 tok |-> op[o].tok.tok, sealed |-> op[o].buf \in plain,
                                 id |-> i, gen |-> op[o].gen]]), UNCHANGED <<material>>
        PROVE  MaterialKept'
    <2> DEFINE c == [op[o] EXCEPT !.at = "put",
                        !.new = [acct |-> op[o].acct, era |-> era, state |-> "active",
                                 tok |-> op[o].tok.tok, sealed |-> op[o].buf \in plain,
                                 id |-> i, gen |-> op[o].gen]]
    <2>1. Go(o, c) BY <1>5
    <2>2. /\ c.kind = op[o].kind /\ c.gen = op[o].gen /\ c.buf = op[o].buf
          /\ c.at \notin Before \cup Apart
      BY <1>1 DEF Calls, Before, Apart
    <2>3. Still BY <1>3, <1>5 DEF Still, material
    <2>4. op[o].at \notin Apart BY <1>2 DEF Apart
    <2> HIDE DEF c
    <2> QED BY <2>1, <2>2, <2>3, <2>4, GoStill
  <1> QED BY Zenon, <1>4, <1>5 DEF OpenAccount, material

(* A write begins, or lands. *)
LEMMA WritesMaterial ==
    ASSUME Inv, MaterialKept, NEW o \in Ops,
           \/ PutSession(o) \/ SessionWritten(o) \/ PutMarker(o) \/ MarkerWritten(o)
           \/ PutReplacement(o) \/ ReplacementWritten(o)
    PROVE  MaterialKept'
  <1>1. ASSUME NEW from \in Queued \cup UnderWay,
               NEW to \in UnderWay \cup {"stored", "marked", "replaced"},
               StartWrite(o, from, to) \/ Write(o, from, to)
        PROVE  MaterialKept'
    BY <1>1, AtStill DEF StartWrite, Write, Still, memory, material, Queued, UnderWay, Before, Apart
  <1> QED
    BY <1>1 DEF PutSession, PutMarker, PutReplacement, SessionWritten, MarkerWritten,
       ReplacementWritten, Queued, UnderWay

(* A login finds its lifecycle over. *)
LEMMA LoginSupersededMaterial ==
    ASSUME Inv, MaterialKept, NEW o \in Ops, LoginSuperseded(o) PROVE MaterialKept'
  BY GiveUpWipes DEF Inv, OpsFit, LoginSuperseded, memory, Owning, Apart, material

(* A login is stored. *)
LEMMA LoginStoredMaterial ==
    ASSUME Inv, MaterialKept, NEW o \in Ops, LoginStored(o) PROVE MaterialKept'
  <1>1. OpsFit /\ op[o] \in Calls BY DEF Inv, OpsFit
  <1>2. op[o].at = "stored" BY Zenon DEF LoginStored
  <1>3. UNCHANGED <<keys, gen, terms, totp>> BY Zenon DEF LoginStored, memory
  <1>4. ASSUME Go(o, [op[o] EXCEPT !.at = "share", !.new = None]), UNCHANGED <<material>>
        PROVE  MaterialKept'
    <2> DEFINE c == [op[o] EXCEPT !.at = "share", !.new = None]
    <2>1. Go(o, c) BY <1>4
    <2>2. /\ c.kind = op[o].kind /\ c.gen = op[o].gen /\ c.buf = op[o].buf
          /\ c.at \notin Before \cup Apart
      BY <1>1 DEF Calls, Before, Apart
    <2>3. Still BY <1>3, <1>4 DEF Still, material
    <2>4. op[o].at \notin Apart BY <1>2 DEF Apart
    <2> HIDE DEF c
    <2> QED BY <2>1, <2>2, <2>3, <2>4, GoStill
  <1> QED BY Zenon, <1>4 DEF LoginStored, material

(* A login publishes its tokens, or gives up. *)
LEMMA LoginSharedMaterial ==
    ASSUME Inv, MaterialKept, NEW o \in Ops, LoginShared(o) PROVE MaterialKept'
  <1>1. OpsFit /\ op[o] \in Calls BY DEF Inv, OpsFit
  <1>2. op[o].at = "share" BY Zenon DEF LoginShared
  <1>3. UNCHANGED <<keys, gen, terms, totp>> BY Zenon DEF LoginShared, memory
  <1>4. ASSUME Go(o, [op[o] EXCEPT !.at = "publish", !.rev = rev, !.tok = None]), UNCHANGED <<material>>
        PROVE  MaterialKept'
    <2> DEFINE c == [op[o] EXCEPT !.at = "publish", !.rev = rev, !.tok = None]
    <2>1. Go(o, c) BY <1>4
    <2>2. /\ c.kind = op[o].kind /\ c.gen = op[o].gen /\ c.buf = op[o].buf
          /\ c.at \notin Before \cup Apart
      BY <1>1 DEF Calls, Before, Apart
    <2>3. Still BY <1>3, <1>4 DEF Still, material
    <2>4. op[o].at \notin Apart BY <1>2 DEF Apart
    <2> HIDE DEF c
    <2> QED BY <2>1, <2>2, <2>3, <2>4, GoStill
  <1>5. CASE GiveUp(o) BY <1>2, <1>3, <1>5, GiveUpWipes DEF Owning, Apart
  <1> QED BY Zenon, <1>4, <1>5 DEF LoginShared, material

(* The keys are published. *)
LEMMA PublishMaterial ==
    ASSUME Inv, MaterialKept, NEW o \in Ops, Publish(o) PROVE MaterialKept'
  BY OwnerAt, EndForm, MaterialPublished DEF Publish, Owning, Apart, Inv, Forget, Untrack, Live

(* The publication is refused. *)
LEMMA PublishRefusedMaterial ==
    ASSUME Inv, MaterialKept, NEW o \in Ops, PublishRefused(o) PROVE MaterialKept'
  BY GiveUpWipes DEF Inv, OpsFit, PublishRefused, memory, Owning, Apart, material

(* An unlock reads the stored session. *)
LEMMA UnlockReadMaterial ==
    ASSUME Inv, MaterialKept, NEW o \in Ops, UnlockRead(o), ~Invalidate(o) PROVE MaterialKept'
  <1>1. OpsFit /\ op[o] \in Calls BY DEF Inv, OpsFit
  <1>2. op[o].at = "envelope" BY Zenon DEF UnlockRead
  <1>3. UNCHANGED <<keys, gen, terms, totp>> BY Zenon DEF UnlockRead, memory
  <1>4. CASE End(o) /\ UNCHANGED <<material>>
    BY <1>3, <1>4, <1>2, OpsHold, EndPasses, StillPasses DEF Still, material, Owns
  <1>5. CASE Go(o, [op[o] EXCEPT !.at = "derive", !.env = env, !.acct = env.acct])
          /\ UNCHANGED material
    <2> DEFINE c == [op[o] EXCEPT !.at = "derive", !.env = env, !.acct = env.acct]
    <2>1. op[o].buf = None /\ op[o].kind = "unlock" BY <1>1, <1>2, OpsHold, KindOf
    <2>2. c.at = "derive" /\ c.kind = "unlock" /\ c.buf = None BY <1>1, <2>1 DEF Calls
    <2>3. op'[o] = c /\ Others(o) BY <1>1, <1>5, GoForm
    <2> HIDE DEF c
    <2>4. Still BY <1>3, <1>5 DEF Still, material
    <2>5. \A q \in Ops : Passes(q)
      BY <2>1, <2>2, <2>3 DEF Passes, Owns, Others, Apart
    <2> QED BY <2>4, <2>5, StillPasses
  <1> QED BY Zenon, <1>4, <1>5 DEF UnlockRead, material

(* An unlock derives its keys. *)
LEMMA UnlockDeriveMaterial ==
    ASSUME Inv, MaterialKept, NEW o \in Ops, UnlockDerive(o) PROVE MaterialKept'
  <1>1. OpsFit /\ op[o] \in Calls BY DEF Inv, OpsFit
  <1>2. op[o].at = "derive" BY Zenon DEF UnlockDerive
  <1>3. UNCHANGED <<keys, gen, terms, totp>> BY Zenon DEF UnlockDerive, memory
  <1>4. CASE End(o) /\ UNCHANGED <<material>>
    BY <1>3, <1>4, <1>2, EndPasses, StillPasses DEF Still, material, MaterialKept, CallOwns, Owns,
       Before
  <1>5. ASSUME Alive(o), NEW b \in Fresh(Buffers, UsedBuffers), plain' = plain \cup {b},
               tracked' = tracked \cup {b},
               Go(o, [op[o] EXCEPT
                         !.at = IF tokens = None THEN "open" ELSE "bind",
                         !.buf = b, !.tok = tokens])
        PROVE  MaterialKept'
    <2> DEFINE c == [op[o] EXCEPT
                         !.at = IF tokens = None THEN "open" ELSE "bind",
                         !.buf = b, !.tok = tokens]
    <2>3. b \in Buffers BY <1>5 DEF Fresh
    <2>4. /\ c.kind = op[o].kind /\ c.gen = op[o].gen /\ c.buf = b
          /\ c.at \notin Before \cup Apart
      BY <1>1, <2>3 DEF Calls, Before, Apart
    <2>5. op'[o] = c /\ Others(o) BY <1>1, <1>5, GoForm
    <2> HIDE DEF c
    <2>1. /\ op'[o].kind = op[o].kind /\ op'[o].gen = op[o].gen /\ op'[o].buf = b
          /\ op'[o].at \notin Before \cup Apart /\ Others(o)
      BY <2>4, <2>5
    <2>2. op[o].at \in Before /\ op[o].gen = gen BY <1>2, <1>5 DEF Before, Alive, Current
    <2> QED BY <1>3, <1>5, <2>1, <2>2, MaterialDerived
  <1> QED BY Zenon, <1>4, <1>5 DEF UnlockDerive, material

(* An unlock adopts tokens, or gives up. *)
LEMMA AdoptMaterial ==
    ASSUME Inv, MaterialKept, NEW o \in Ops, NEW t, Adopt(o, t), op[o].at \in {"bind", "open"},
           UNCHANGED <<keys, totp, gen, terms>>
    PROVE  MaterialKept'
  <1>1. op[o] \in Calls BY DEF Inv, OpsFit
  <1>2. CASE Go(o, [op[o] EXCEPT !.at = "share", !.tok = None, !.env = None])
             /\ UNCHANGED material
    <2> DEFINE c == [op[o] EXCEPT !.at = "share", !.tok = None, !.env = None]
    <2>1. Go(o, c) BY <1>2
    <2>2. /\ c.kind = op[o].kind /\ c.gen = op[o].gen /\ c.buf = op[o].buf
          /\ c.at \notin Before \cup Apart
      BY <1>1 DEF Calls, Before, Apart
    <2>3. Still /\ op[o].at \notin Apart BY <1>2 DEF Still, material, Apart
    <2> HIDE DEF c
    <2> QED BY <2>1, <2>2, <2>3, GoStill
  <1>3. CASE GiveUp(o) BY <1>3, GiveUpWipes DEF Owning, Apart
  <1> QED BY Zenon, <1>2, <1>3 DEF Adopt

(* The tokens in memory are bound to the account, or are not. *)
LEMMA UnlockBindMaterial ==
    ASSUME Inv, MaterialKept, NEW o \in Ops, UnlockBind(o), ~Invalidate(o) PROVE MaterialKept'
  <1>1. OpsFit /\ op[o] \in Calls BY DEF Inv, OpsFit
  <1>2. op[o].at = "bind" BY Zenon DEF UnlockBind
  <1>3. UNCHANGED <<keys, gen, terms, totp>> BY Zenon DEF UnlockBind, memory
  <1>4. CASE Adopt(o, op[o].tok) BY <1>2, <1>3, <1>4, AdoptMaterial
  <1>5. CASE At(o, "open") /\ UNCHANGED material
    BY <1>3, <1>5, <1>2, AtStill DEF Still, material, Before, Apart
  <1> QED BY Zenon, <1>4, <1>5 DEF UnlockBind, material

(* The stored session opens, or its keys are wiped. *)
LEMMA UnlockOpenMaterial ==
    ASSUME Inv, MaterialKept, NEW o \in Ops, UnlockOpen(o) PROVE MaterialKept'
  BY AdoptMaterial, AtForm, OwnerAt, MaterialWiped DEF Inv, OpsFit, UnlockOpen, memory, Forget,
     Goes, Owning, Apart, material

(* The envelope that did not open is discarded. *)
LEMMA UnlockDiscardMaterial ==
    ASSUME Inv, MaterialKept, NEW o \in Ops, UnlockDiscard(o) PROVE MaterialKept'
  BY EndPasses, MaterialQuiet DEF UnlockDiscard, Untrack, MaterialKept, CallOwns

(* An unlock goes on to publish, or to refresh, or gives up. *)
LEMMA UnlockSharedMaterial ==
    ASSUME Inv, MaterialKept, NEW o \in Ops, UnlockShared(o) PROVE MaterialKept'
  <1>1. OpsFit /\ op[o] \in Calls BY DEF Inv, OpsFit
  <1>2. op[o].at = "share" BY Zenon DEF UnlockShared
  <1>3. UNCHANGED <<keys, gen, terms, totp>> BY Zenon DEF UnlockShared, memory
  <1>4. ASSUME Go(o, [op[o] EXCEPT !.at = "publish", !.rev = rev]), UNCHANGED <<material>>
        PROVE  MaterialKept'
    <2> DEFINE c == [op[o] EXCEPT !.at = "publish", !.rev = rev]
    <2>1. Go(o, c) BY <1>4
    <2>2. /\ c.kind = op[o].kind /\ c.gen = op[o].gen /\ c.buf = op[o].buf
          /\ c.at \notin Before \cup Apart
      BY <1>1 DEF Calls, Before, Apart
    <2>3. Still BY <1>3, <1>4 DEF Still, material
    <2>4. op[o].at \notin Apart BY <1>2 DEF Apart
    <2> HIDE DEF c
    <2> QED BY <2>1, <2>2, <2>3, <2>4, GoStill
  <1>5. CASE GiveUp(o) BY <1>2, <1>3, <1>5, GiveUpWipes DEF Owning, Apart
  <1>6. ASSUME Go(o, [op[o] EXCEPT !.at = IF Refreshing THEN "wait" ELSE "rotate", !.tok = tokens]), UNCHANGED <<material>>
        PROVE  MaterialKept'
    <2> DEFINE c == [op[o] EXCEPT !.at = IF Refreshing THEN "wait" ELSE "rotate", !.tok = tokens]
    <2>1. Go(o, c) BY <1>6
    <2>2. /\ c.kind = op[o].kind /\ c.gen = op[o].gen /\ c.buf = op[o].buf
          /\ c.at \notin Before \cup Apart
      BY <1>1 DEF Calls, Before, Apart
    <2>3. Still BY <1>3, <1>6 DEF Still, material
    <2>4. op[o].at \notin Apart BY <1>2 DEF Apart
    <2> HIDE DEF c
    <2> QED BY <2>1, <2>2, <2>3, <2>4, GoStill
  <1> QED BY Zenon, <1>4, <1>5, <1>6 DEF UnlockShared, material

(* An unlock goes on after the refresh. *)
LEMMA UnlockRefreshedMaterial ==
    ASSUME Inv, MaterialKept, NEW o \in Ops, UnlockRefreshed(o), ~Invalidate(o) PROVE MaterialKept'
  <1>1. OpsFit /\ op[o] \in Calls BY DEF Inv, OpsFit
  <1>2. op[o].at = "refreshed" BY Zenon DEF UnlockRefreshed
  <1>3. UNCHANGED <<keys, gen, terms, totp>> BY Zenon DEF UnlockRefreshed, memory
  <1>4. ASSUME Go(o, [op[o] EXCEPT !.at = "publish", !.rev = rev]), UNCHANGED <<material>>
        PROVE  MaterialKept'
    <2> DEFINE c == [op[o] EXCEPT !.at = "publish", !.rev = rev]
    <2>1. Go(o, c) BY <1>4
    <2>2. /\ c.kind = op[o].kind /\ c.gen = op[o].gen /\ c.buf = op[o].buf
          /\ c.at \notin Before \cup Apart
      BY <1>1 DEF Calls, Before, Apart
    <2>3. Still BY <1>3, <1>4 DEF Still, material
    <2>4. op[o].at \notin Apart BY <1>2 DEF Apart
    <2> HIDE DEF c
    <2> QED BY <2>1, <2>2, <2>3, <2>4, GoStill
  <1>5. CASE GiveUp(o) BY <1>2, <1>3, <1>5, GiveUpWipes DEF Owning, Apart
  <1> QED BY Zenon, <1>4, <1>5 DEF UnlockRefreshed, material

(* A refresh has read tokens and envelope. *)
LEMMA RefreshReadMaterial ==
    ASSUME Inv, MaterialKept, NEW o \in Ops, RefreshRead(o), ~Invalidate(o) PROVE MaterialKept'
  <1>1. OpsFit /\ op[o] \in Calls BY DEF Inv, OpsFit
  <1>2. op[o].at = "rotate" BY Zenon DEF RefreshRead
  <1>3. UNCHANGED <<keys, gen, terms, totp>> BY Zenon DEF RefreshRead, memory
  <1>4. ASSUME NEW i, Go(o, [op[o] EXCEPT !.at = "mark", !.env = env, !.new = Marker(o, i)]), UNCHANGED <<material>>
        PROVE  MaterialKept'
    <2> DEFINE c == [op[o] EXCEPT !.at = "mark", !.env = env, !.new = Marker(o, i)]
    <2>1. Go(o, c) BY <1>4
    <2>2. /\ c.kind = op[o].kind /\ c.gen = op[o].gen /\ c.buf = op[o].buf
          /\ c.at \notin Before \cup Apart
      BY <1>1 DEF Calls, Before, Apart
    <2>3. Still BY <1>3, <1>4 DEF Still, material
    <2>4. op[o].at \notin Apart BY <1>2 DEF Apart
    <2> HIDE DEF c
    <2> QED BY <2>1, <2>2, <2>3, <2>4, GoStill
  <1>5. CASE Settle(o) /\ UNCHANGED material
    BY <1>3, <1>5, <1>1, <1>2, KindOf, SettlePasses, StillPasses DEF Still, material, RefreshSteps,
       Apart
  <1> QED BY Zenon, <1>4, <1>5 DEF RefreshRead, material

(* A refresh finds its lifecycle over. *)
LEMMA RefreshSupersededMaterial ==
    ASSUME Inv, MaterialKept, NEW o \in Ops, RefreshSuperseded(o) PROVE MaterialKept'
  BY KindOf, SettlePasses, StillPasses DEF Inv, OpsFit, RefreshSuperseded, memory, Still, material,
     RefreshSteps, Apart

(* The marker is stored. *)
LEMMA RefreshMarkedMaterial ==
    ASSUME Inv, MaterialKept, NEW o \in Ops, RefreshMarked(o) PROVE MaterialKept'
  <1>1. OpsFit /\ op[o] \in Calls BY DEF Inv, OpsFit
  <1>2. op[o].at = "marked" BY Zenon DEF RefreshMarked
  <1>3. UNCHANGED <<keys, gen, terms, totp>> BY Zenon DEF RefreshMarked, memory
  <1>4. CASE At(o, "network") /\ UNCHANGED material
    BY <1>3, <1>4, <1>2, AtStill DEF Still, material, Before, Apart
  <1> QED BY Zenon, <1>4 DEF RefreshMarked, material

(* The server has rotated the token. *)
LEMMA RotatedMaterial ==
    ASSUME Inv, MaterialKept, NEW o \in Ops, Rotated(o) PROVE MaterialKept'
  <1>1. OpsFit /\ op[o] \in Calls BY DEF Inv, OpsFit
  <1>2. op[o].at = "network" BY Zenon DEF Rotated
  <1>3. UNCHANGED <<keys, gen, terms, totp>> BY Zenon DEF Rotated, memory
  <1>4. ASSUME NEW t, NEW i, Go(o, [op[o] EXCEPT !.at = "replace", !.tok.tok = t,
                        !.new = Sealed(o, op[o].env, "active", t, i)]), UNCHANGED <<material>>
        PROVE  MaterialKept'
    <2> DEFINE c == [op[o] EXCEPT !.at = "replace", !.tok.tok = t,
                        !.new = Sealed(o, op[o].env, "active", t, i)]
    <2>1. Go(o, c) BY <1>4
    <2>2. /\ c.kind = op[o].kind /\ c.gen = op[o].gen /\ c.buf = op[o].buf
          /\ c.at \notin Before \cup Apart
      BY <1>1 DEF Calls, Before, Apart
    <2>3. Still BY <1>3, <1>4 DEF Still, material
    <2>4. op[o].at \notin Apart BY <1>2 DEF Apart
    <2> HIDE DEF c
    <2> QED BY <2>1, <2>2, <2>3, <2>4, GoStill
  <1>5. CASE Settle(o) /\ UNCHANGED material
    BY <1>3, <1>5, <1>1, <1>2, KindOf, SettlePasses, StillPasses DEF Still, material, RefreshSteps,
       Apart
  <1> QED BY Zenon, <1>4, <1>5 DEF Rotated, material

(* The server has not answered. *)
LEMMA RefreshUnansweredMaterial ==
    ASSUME Inv, MaterialKept, NEW o \in Ops, RefreshUnanswered(o) PROVE MaterialKept'
  <1>1. OpsFit /\ op[o] \in Calls BY DEF Inv, OpsFit
  <1>2. op[o].at = "network" BY Zenon DEF RefreshUnanswered
  <1>3. UNCHANGED <<keys, gen, terms, totp>> BY Zenon DEF RefreshUnanswered, memory
  <1>4. CASE At(o, "restore") /\ UNCHANGED material
    BY <1>3, <1>4, <1>2, AtStill DEF Still, material, Before, Apart
  <1>5. CASE Settle(o) /\ UNCHANGED material
    BY <1>3, <1>5, <1>1, <1>2, KindOf, SettlePasses, StillPasses DEF Still, material, RefreshSteps,
       Apart
  <1> QED BY Zenon, <1>4, <1>5 DEF RefreshUnanswered, material

(* The new session is stored. *)
LEMMA RefreshReplacedMaterial ==
    ASSUME Inv, MaterialKept, NEW o \in Ops, RefreshReplaced(o) PROVE MaterialKept'
  BY KindOf, SettlePasses, StillPasses DEF Inv, OpsFit, RefreshReplaced, memory, Still, material,
     RefreshSteps, Apart

(* The old session is stored again. *)
LEMMA RefreshRestoredMaterial ==
    ASSUME Inv, MaterialKept, NEW o \in Ops, RefreshRestored(o) PROVE MaterialKept'
  BY KindOf, SettlePasses, StillPasses DEF Inv, OpsFit, RefreshRestored, memory, Still, material,
     RefreshSteps, Apart

(* A refused refresh ends the session. *)
LEMMA FailClosedMaterial ==
    ASSUME Inv, Inv', StoreKept, MaterialKept, NEW o \in Ops, FailClosed(o)
    PROVE  MaterialKept'
  BY AtForm, MaterialEnds DEF FailClosed, Inv, Goes, Before, Apart

(* An expired session is ended. *)
LEMMA InvalidateMaterial ==
    ASSUME Inv, Inv', StoreKept, MaterialKept, NEW o \in Ops, Invalidate(o)
    PROVE  MaterialKept'
  BY AtForm, MaterialEnds DEF Invalidate, Inv, Goes, Before, Apart

(* The server refuses the token. *)
LEMMA RefreshRefusedMaterial ==
    ASSUME Inv, Inv', StoreKept, MaterialKept, NEW o \in Ops, RefreshRefused(o)
    PROVE  MaterialKept'
  BY FailClosedMaterial, KindOf, SettlePasses, StillPasses DEF RefreshRefused, Still, memory,
     material, Inv, RefreshSteps, Apart

(* The old session is restored, or ended. *)
LEMMA RefreshRestoreMaterial ==
    ASSUME Inv, Inv', StoreKept, MaterialKept, NEW o \in Ops, RefreshRestore(o)
    PROVE  MaterialKept'
  <1>1. op[o].at = "restore" BY DEF RefreshRestore
  <1>2. CASE FailClosed(o) BY <1>2, FailClosedMaterial
  <1>3. CASE At(o, "restored") /\ UNCHANGED <<gen, terms, memory, material>>
    BY <1>3, <1>1, AtStill DEF Still, memory, material, Before, Apart
  <1> QED BY Zenon, <1>2, <1>3 DEF RefreshRestore

(* A termination ends: no challenge is pending while it lasts. *)
LEMMA MaterialEnded ==
    ASSUME Inv, MaterialKept, NEW o \in Ops, Owed(op[o]) # {}, \A q \in Ops : Passes(q),
           UNCHANGED <<gen, keys, totp, material>>
    PROVE  MaterialKept'
  BY OwedTerms, MaterialQuiet DEF MaterialKept, material

(* The session that could not be proven current is cleared. *)
LEMMA RefreshClosedMaterial ==
    ASSUME Inv, MaterialKept, NEW o \in Ops, RefreshClosed(o) PROVE MaterialKept'
  BY KindOf, SettlePasses, MaterialEnded DEF RefreshClosed, memory, Inv, RefreshSteps, Apart, Owed

(* The expired session is cleared. *)
LEMMA InvalidatedMaterial ==
    ASSUME Inv, MaterialKept, NEW o \in Ops, Invalidated(o) PROVE MaterialKept'
  <1>1. op[o].at = "invalidate" /\ UNCHANGED <<gen, keys, totp, material>>
    BY DEF Invalidated
  <1>2. Owed(op[o]) # {} BY <1>1 DEF Owed
  <1>3. op[o].kind # "login" /\ op[o].at \notin Apart BY <1>1, KindOf DEF Inv, Apart
  <1>4. ASSUME NEW s, At(o, s), s \notin Before \cup Apart PROVE \A q \in Ops : Passes(q)
    BY <1>4, AtForm, <1>3 DEF Inv, Goes, Passes, Others
  <1>5. op[o].kind \in {"lock", "logout"} /\ At(o, op[o].kind) => \A q \in Ops : Passes(q)
    BY <1>4 DEF Before, Apart
  <1>6. At(o, "open") \/ At(o, "refreshed") => \A q \in Ops : Passes(q)
    BY <1>4 DEF Before, Apart
  <1>7. Settle(o) => \A q \in Ops : Passes(q) BY <1>3, SettlePasses
  <1>8. (op[o].kind = "read" \/ (op[o].kind = "unlock" /\ op[o].buf = None)) /\ End(o)
          => \A q \in Ops : Passes(q)
    BY EndPasses DEF Owns
  <1>10. \A q \in Ops : Passes(q)
    BY Zenon, <1>5, <1>6, <1>7, <1>8 DEF Invalidated
  <1> QED BY <1>1, <1>2, <1>10, MaterialEnded

(* A lock or a logout ends. *)
LEMMA EndingsMaterial ==
    ASSUME Inv, MaterialKept, NEW o \in Ops,
           (LockRead(o) /\ ~Invalidate(o)) \/ LogoutClear(o)
    PROVE  MaterialKept'
  BY EndPasses, MaterialEnded DEF LockRead, LogoutClear, Inv, OpsFit, Fits, Kind, LoginSteps,
     UnlockSteps, RefreshSteps, Owed, Owns

(* A logout or a status read goes on. *)
LEMMA ReadersMaterial ==
    ASSUME Inv, MaterialKept, NEW o \in Ops,
           (LogoutRead(o) \/ ReadDone(o)) /\ ~Invalidate(o)
    PROVE  MaterialKept'
  <1>1. op[o].at \in {"logout", "read"} /\ Still
    BY DEF LogoutRead, ReadDone, Still, material
  <1>2. op[o].kind \in {"logout", "read"}
    BY <1>1 DEF Inv, OpsFit, Fits, Kind, LoginSteps, UnlockSteps, RefreshSteps
  <1>3. CASE End(o) BY <1>1, <1>2, <1>3, EndPasses, StillPasses DEF Owns
  <1>4. CASE Go(o, [op[o] EXCEPT !.at = "clear", !.acct = Account(env)])
    <2> DEFINE c == [op[o] EXCEPT !.at = "clear", !.acct = Account(env)]
    <2>1. Go(o, c) BY <1>4
    <2>2. op[o] \in Calls BY DEF Inv, OpsFit
    <2>3. /\ c.kind = op[o].kind /\ c.gen = op[o].gen /\ c.buf = op[o].buf
          /\ c.at \notin Before \cup Apart
      BY <2>2 DEF Calls, Before, Apart
    <2>4. op[o].at \notin Apart BY <1>1 DEF Apart
    <2> HIDE DEF c
    <2> QED BY <1>1, <2>1, <2>3, <2>4, GoStill
  <1> QED BY Zenon, <1>3, <1>4 DEF LogoutRead, ReadDone

(* A call without a buffer of its own begins. *)
LEMMA StartMaterial ==
    ASSUME Inv, MaterialKept, Still, NEW o \in Ops, NEW c, Go(o, c), op[o] = Idle,
           c.kind # "login", c.kind = "unlock" => c.buf = None, c.at \notin Before \cup Apart
    PROVE  MaterialKept'
  BY GoForm, StillPasses DEF Inv, Owns, Idle, Passes, Others

(* A call begins. *)
LEMMA CallMaterial ==
    ASSUME Inv, Inv', StoreKept, MaterialKept, NEW o \in Ops, Call(o) PROVE MaterialKept'
  <1>0. OpsFit BY DEF Inv
  <1>1. ASSUME NEW a \in Accounts, Login(o, a) PROVE MaterialKept'
    <2> DEFINE c == [Idle EXCEPT !.kind = "login", !.at = "kdf", !.gen = gen, !.acct = a]
    <2>1. c.at = "kdf" /\ c.buf = None /\ c.kind = "login" BY DEF Idle
    <2>2. Go(o, c) /\ op[o] = Idle /\ totp' = None /\ plain' = plain \ {Pend}
          /\ tracked' = tracked /\ keys' = keys /\ gen' = gen /\ Started("login") = {}
      BY <1>1 DEF Login, Slot, ClearPendingTotp, Forget, Pend
    <2>3. op'[o] = c /\ Others(o) BY <1>0, <2>2, GoForm
    <2> HIDE DEF c
    <2>4. \A q \in Ops : op[q].kind # "login" BY <2>2 DEF Started
    <2> QED BY <2>1, <2>2, <2>3, <2>4, ChallengeDropped
  <1>2. CASE CompleteTotp(o)
    <2> DEFINE c == [Idle EXCEPT !.kind = "login", !.at = "totp", !.gen = gen,
                          !.acct = totp.acct, !.buf = totp.buf]
    <2>1. c.at = "totp" /\ c.buf = totp.buf /\ c.kind = "login" BY DEF Idle
    <2>2. Go(o, c) /\ op[o] = Idle /\ totp # None /\ Started("login") = {}
      BY <1>2 DEF CompleteTotp, Slot
    <2>3. UNCHANGED <<totp, plain, tracked, keys, gen, terms>>
      BY <1>2 DEF CompleteTotp, memory, material
    <2>4. op'[o] = c /\ Others(o) BY <1>0, <2>2, GoForm
    <2> HIDE DEF c
    <2>5. \A q \in Ops : op[q].kind # "login" BY <2>2 DEF Started
    <2>6. c.buf = Pend BY <2>1, <2>2 DEF Pend, BufferOf
    <2> QED BY <2>1, <2>2, <2>3, <2>4, <2>5, <2>6, ChallengeSent
  <1>3. CASE Unlock(o)
    <2> DEFINE c == [Idle EXCEPT !.kind = "unlock", !.at = "envelope", !.gen = gen]
    <2>1. c.kind = "unlock" /\ c.buf = None /\ c.at \notin Before \cup Apart
      BY DEF Idle, Before, Apart
    <2>2. Go(o, c) /\ op[o] = Idle /\ Still
      BY <1>3 DEF Unlock, Slot, Still, memory, material
    <2> HIDE DEF c
    <2> QED BY <2>1, <2>2, StartMaterial
  <1>4. CASE RefreshStart(o)
    <2> DEFINE c == [Idle EXCEPT !.kind = "refresh", !.at = "rotate", !.gen = gen,
                          !.buf = BufferOf(keys), !.tok = tokens]
    <2>1. c.kind = "refresh" /\ c.at \notin Before \cup Apart
      BY DEF Idle, Before, Apart
    <2>2. Go(o, c) /\ op[o] = Idle /\ Still
      BY <1>4 DEF RefreshStart, Slot, Still, memory, material
    <2> HIDE DEF c
    <2> QED BY <2>1, <2>2, StartMaterial
  <1>5. CASE Read(o)
    <2> DEFINE c == [Idle EXCEPT !.kind = "read", !.at = "read", !.tok = tokens]
    <2>1. c.kind = "read" /\ c.at \notin Before \cup Apart
      BY DEF Idle, Before, Apart
    <2>2. Go(o, c) /\ op[o] = Idle /\ Still
      BY <1>5 DEF Read, Slot, Still, memory, material
    <2> HIDE DEF c
    <2> QED BY <2>1, <2>2, StartMaterial
  <1>6. ASSUME NEW k \in {"lock", "logout"},
               Go(o, [Idle EXCEPT !.kind = k, !.at = k]), Terminate(1)
        PROVE  MaterialKept'
    <2>1. op'[o] = [Idle EXCEPT !.kind = k, !.at = k] /\ Others(o)
      BY <1>0, <1>6, GoForm
    <2>2. op'[o].kind = k /\ op'[o].at = k BY <2>1 DEF Idle
    <2>3. op'[o].kind \notin {"login", "unlock"} /\ op'[o].at \notin Before \cup Apart
      BY <2>2 DEF Before, Apart
    <2> QED BY <1>6, <2>1, <2>3, MaterialEnds
  <1>7. CASE Lock(o) BY <1>6, MaterialEnds, <1>7 DEF Others, Lock
  <1>8. CASE Logout(o) BY <1>8, <1>6 DEF Logout
  <1> QED BY Zenon, <1>1, <1>2, <1>3, <1>4, <1>5, <1>7, <1>8 DEF Call

(* The steps that are of no call. *)
LEMMA OtherMaterial ==
    ASSUME Inv, MaterialKept,
           DropTotp \/ SetAutoLockPolicy \/ Expire \/ Restart \/ UNCHANGED vars
    PROVE  MaterialKept'
  <1>1. CASE SetAutoLockPolicy \/ Expire \/ UNCHANGED vars
    BY <1>1, StillPasses DEF SetAutoLockPolicy, Expire, vars, Still, memory, material, Passes
  <1>2. CASE DropTotp
    BY <1>2, ChallengeDropped DEF DropTotp, Forget, Pend, BufferOf
  <1>3. CASE Restart
    BY <1>3 DEF Restart, CallOwns, Owns, Idle, Before, Apart, Separate, MaterialKept
  <1> QED BY <1>1, <1>2, <1>3

(* Every step of a call that is under way. *)
LEMMA ContinueMaterial ==
    ASSUME Inv, Inv', StoreKept, MaterialKept, NEW o \in Ops, Continue(o) PROVE MaterialKept'
  <1>1. CASE Invalidate(o) BY <1>1, InvalidateMaterial
  <1>2. CASE LoginStep(o)
    BY <1>2, LoginKdfMaterial, LoginAuthMaterial, TotpVerifiedMaterial, OpenAccountMaterial,
       WritesMaterial, LoginSupersededMaterial, LoginStoredMaterial, LoginSharedMaterial
       DEF LoginStep
  <1>3. CASE UnlockStep(o) /\ ~Invalidate(o)
    BY <1>3, UnlockReadMaterial, UnlockDeriveMaterial, UnlockBindMaterial,
       UnlockOpenMaterial, UnlockDiscardMaterial, UnlockSharedMaterial,
       UnlockRefreshedMaterial
       DEF UnlockStep
  <1>4. CASE RefreshStep(o) /\ ~Invalidate(o)
    BY <1>4, RefreshReadMaterial, WritesMaterial, RefreshSupersededMaterial,
       RefreshMarkedMaterial, RotatedMaterial, RefreshUnansweredMaterial,
       RefreshRefusedMaterial, RefreshReplacedMaterial, RefreshRestoreMaterial,
       RefreshRestoredMaterial, RefreshClosedMaterial
       DEF RefreshStep
  <1>5. CASE EndStep(o) /\ ~Invalidate(o)
    BY <1>5, InvalidatedMaterial, EndingsMaterial, ReadersMaterial DEF EndStep
  <1>6. CASE (Publish(o) \/ PublishRefused(o) \/ ReadDone(o)) /\ ~Invalidate(o)
    BY <1>6, PublishMaterial, PublishRefusedMaterial, ReadersMaterial
  <1> QED BY Zenon, <1>1, <1>2, <1>3, <1>4, <1>5, <1>6 DEF Continue

(* There is no key material at the start. *)
LEMMA MaterialInit == Init => MaterialKept
  BY DEF Init, CallOwns, Owns, Idle, Before, Apart, Separate, MaterialKept

(* Every step keeps it. *)
LEMMA MaterialNext ==
    Inv /\ Inv' /\ StoreKept /\ MaterialKept /\ [Next]_vars => MaterialKept'
  BY ContinueMaterial, CallMaterial, OtherMaterial DEF Next

-----------------------------------------------------------------------------
(* Together with Inv, what the two parts say in the terms of the             *)
(* specification: a call that may change the session and is of this          *)
(* lifecycle is alive.                                                       *)
EndingsInv == Inv /\ StoreKept /\ MaterialKept

(* What the invariant says of the properties. *)
LEMMA EndingsImplied == EndingsInv => ClearedStaysCleared /\ MaterialIsOwned /\ TotpIsCurrent
  <1> SUFFICES ASSUME Inv, StoreKept, MaterialKept
               PROVE  ClearedStaysCleared /\ MaterialIsOwned /\ TotpIsCurrent
    BY DEF EndingsInv
  <1>1. ClearedStaysCleared BY DEF StoreKept
  <1>2. LiveKeysIntact BY DEF MaterialKept, LiveKeysIntact, Live, BufferOf
  <1>3. TotpIsCurrent BY DEF MaterialKept, TotpIsCurrent
  <1>4. ASSUME NEW o \in Ops, Owns(o), op[o].gen = gen PROVE Alive(o)
    BY <1>4 DEF StoreKept, CallStores, Changes, Owns, Alive, Current
  <1>5. NoStrayKeyMaterial
    BY <1>4 DEF NoStrayKeyMaterial, Live, Pend, MaterialKept, HasOwner, Owns
  <1> QED BY <1>1, <1>2, <1>3, <1>5 DEF MaterialIsOwned

(* The invariant holds of every behaviour. *)
LEMMA EndingsInvariant == Spec => []EndingsInv
  <1>1. Init => EndingsInv BY InvInit, StoreInit, MaterialInit DEF EndingsInv
  <1>2. EndingsInv /\ [Next]_vars => EndingsInv'
    BY InvNext, StoreNext, MaterialNext DEF EndingsInv
  <1> QED BY <1>1, <1>2, PTL DEF Spec

(* What a lock, a logout, an expiry or a refused rotation ends stays ended,  *)
(* however many calls were suspended then: no write still queued brings the  *)
(* stored session back, no derived key outlives its call's lifecycle or is   *)
(* wiped while it is live, and no second factor completes a sign-in that is  *)
(* over (terminate, wipeKeys and runDurableMutation of SessionManager).      *)
THEOREM EndingsFinal == Spec => []EndingsAreFinal
  <1>1. EndingsInv => EndingsAreFinal BY EndingsImplied DEF EndingsAreFinal
  <1> QED BY <1>1, EndingsInvariant, PTL

=============================================================================
