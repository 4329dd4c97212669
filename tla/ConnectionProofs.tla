-------------------------- MODULE ConnectionProofs --------------------------
(* Proofs about the connection to a server: ServerChange, which chooses it,  *)
(* and RealtimeHints, which hears it, each for any bounds.                   *)
(*                                                                           *)
(* ServerChange: a change only commits after the drain (Drains) and after    *)
(* the session and the cache of another server are gone (Retired), and it    *)
(* does so in the turn it alone has (InLine).  Together with the counting of *)
(* leases (Counted) and the agreement of memory and storage (Follows) that   *)
(* is inductive.                                                             *)
(*                                                                           *)
(* RealtimeHints: hints are kept, applied one at a time and never marked by  *)
(* a session that did not hear them, and the vault service takes itself to   *)
(* be connected exactly while the present session's hub is up.               *)
EXTENDS ServerChange, RealtimeHints, FiniteSetTheorems, TLAPS

-----------------------------------------------------------------------------
(* The change of the server. *)

(* The commands under way are the queue; only its head has got its turn. *)
Waits(c) == \E i \in 1..Len(turns) : turns[i] = c
InLine ==
    /\ pendingMutations = Len(turns)
    /\ \A c \in Changes : chg[c].at # "idle" <=> Waits(c)
    /\ \A i, j \in 1..Len(turns) : turns[i] = turns[j] => i = j
    /\ \A c \in Changes : chg[c].at \notin {"idle", "turn"} => c = turns[1]

(* The lease counter counts the operations that run. *)
Running == {o \in Ops : op[o] # Idle}
Counted == active = Cardinality(Running)

(* Until a worker is initialized nothing runs. *)
Booted ==
    mem.ready # "yes" => Running = {} /\ \A c \in Changes : chg[c].at = "idle"

(* A change past its drain has no lease out. *)
Drains ==
    \A c \in Changes :
        \/ chg[c].at \in {"idle", "turn"}
        \/ chg[c].at = "drain" /\ drain
        \/ active = 0

(* What start-up has read so far, and what it would read outside a commit.  *)
Follows ==
    /\ mem.ready = "no" => mem = Fresh
    /\ mem.ready = "url" =>
         mem.url = IF disk.url # None THEN disk.url ELSE Packaged
    /\ RestartKeepsServer

(* A command that commits another server has retired the session and the    *)
(* cache of the one before.                                                  *)
Retired ==
    \A c \in Changes :
        /\ chg[c].at = "clear" => session = None
        /\ chg[c].at \in {"sharing", "save"} =>
             Url(c) = mem.url \/ (session = None /\ cache = {})
        /\ chg[c].at = "saved" => Committed = Url(c)

-----------------------------------------------------------------------------
LEMMA Finite == IsFiniteSet(Running) /\ Cardinality(Running) \in Nat
  BY ServerAssumption, FS_Subset, FS_CardinalityType DEF Running

(* The counter is zero exactly when no operation runs. *)
LEMMA CountedNone == Counted => (active = 0 <=> Running = {})
  BY Finite, FS_EmptySet DEF Counted

(* A command that is replaced by one that fits leaves all commands fitting. *)
LEMMA Moves ==
  ASSUME ChangesOK, NEW c \in Changes, NEW r, Fits(r),
         chg' = [chg EXCEPT ![c] = r]
  PROVE  ChangesOK'
  BY DEF Fits, ChangesOK, Commands, Early, Later

(* A step within its phase, or to the end, keeps what the command holds. *)
LEMMA Advances ==
  ASSUME ChangesOK, NEW c \in Changes, NEW step, At(c, step),
         \/ step = "end"
         \/ step \in Early /\ chg[c].at \in Early
         \/ step \in Later /\ chg[c].at \in Later
  PROVE  ChangesOK'
  <1> DEFINE r == [chg[c] EXCEPT !.at = step]
  <1>1. chg[c] \in Commands /\ Fits(chg[c]) BY DEF ChangesOK
  <1>2. r = [at |-> step, cmd |-> chg[c].cmd, next |-> chg[c].next,
             prev |-> chg[c].prev, olds |-> chg[c].olds]
    BY <1>1 DEF Commands
  <1>3. r \in Commands BY <1>1, <1>2 DEF Commands, Early, Later
  <1>4. Fits(r) BY <1>1, <1>2, <1>3 DEF Fits, Early, Later
  <1>5. chg' = [chg EXCEPT ![c] = r] BY DEF At, ChangesOK
  <1> HIDE DEF r
  <1> QED BY <1>4, <1>5, Moves

(* While an operation runs the counter is positive. *)
LEMMA LeaseOut ==
  ASSUME Counted, NEW o \in Ops, op[o] # Idle PROVE active \in Nat \ {0}
  BY CountedNone, Finite DEF Counted, Running

(* A command under way is in the queue. *)
LEMMA QueueHolds ==
  ASSUME BarrierOK, InLine, NEW c \in Changes, chg[c].at # "idle"
  PROVE  Len(turns) \in Nat \ {0} /\ turns # <<>>
  BY DEF InLine, Waits, BarrierOK

(* Every step leaves every command with what its next step depends on. *)
LEMMA CommandsFit ==
  ASSUME ChangesOK, StoreOK, [Next]_vars PROVE ChangesOK'
  <1> USE ServerAssumption
  <1>1. CASE InitUrl BY <1>1 DEF InitUrl, ChangesOK
  <1>2. CASE InitConnections BY <1>2 DEF InitConnections, ChangesOK
  <1>3. ASSUME NEW o \in Ops, NEW k \in {"signin", "sync", "signout"}, Acquire(o, k)
        PROVE  ChangesOK'
    BY <1>3 DEF Acquire, ChangesOK
  <1>4. ASSUME NEW o \in Ops, SignedIn(o)
        PROVE  ChangesOK'
    BY <1>4 DEF SignedIn, ChangesOK
  <1>5. ASSUME NEW o \in Ops, Synced(o)
        PROVE  ChangesOK'
    BY <1>5 DEF Synced, ChangesOK
  <1>6. ASSUME NEW o \in Ops, SignedOut(o)
        PROVE  ChangesOK'
    BY <1>6 DEF SignedOut, ChangesOK
  <1>7. ASSUME NEW c \in Changes, TakeTurn(c)
        PROVE  ChangesOK'
    BY <1>7, Advances DEF TakeTurn, Early, Later
  <1>8. ASSUME NEW c \in Changes, Drained(c)
        PROVE  ChangesOK'
    BY <1>8, Advances DEF Drained, Only, Early, Later
  <1>9. ASSUME NEW c \in Changes, Begin(c)
        PROVE  ChangesOK'
    <2>1. CASE Target(c) = None \/ Unchanged(c)
      BY <1>9, <2>1, Advances DEF Begin
    <2>2. CASE ~(Target(c) = None \/ Unchanged(c))
      <3> DEFINE r == [chg[c] EXCEPT !.at = "access", !.next = Target(c)]
      <3>1. chg[c] \in Commands /\ Fits(chg[c]) /\ chg[c].at = "begin"
        BY <1>9 DEF ChangesOK, Begin
      <3>2. Target(c) \in IF chg[c].cmd = "set" THEN Servers ELSE Connections
        <4>1. CASE chg[c].cmd = "activate"
          <5> DEFINE known == {k \in mem.conns : k.api = chg[c].next}
          <5>1. known # {} /\ Target(c) \in known BY <2>2, <4>1 DEF Target
          <5>2. known \subseteq Connections BY DEF StoreOK
          <5> QED BY <4>1, <5>1, <5>2
        <4>2. CASE chg[c].cmd # "activate"
          BY <4>2, <3>1 DEF Target, Commands, Fits, Early, Later
        <4> QED BY <4>1, <4>2
      <3>3. Target(c) \in Servers \cup Connections BY <3>2
      <3>4. r \in Commands BY <3>1, <3>3 DEF Commands, Early, Later
      <3>5. r.at = "access" /\ r.cmd = chg[c].cmd /\ r.next = Target(c)
        BY <3>1 DEF Commands
      <3>7. Fits(r) BY <3>1, <3>2, <3>4, <3>5 DEF Fits, Early, Later
      <3>6. chg' = [chg EXCEPT ![c] = r] BY <1>9, <2>2 DEF Begin
      <3> HIDE DEF r
      <3> QED BY <3>6, <3>7, Moves
    <2> QED BY <2>1, <2>2
  <1>10. ASSUME NEW c \in Changes, Access(c)
        PROVE  ChangesOK'
    <2>1. CASE ~Granted(Asks(c))
      BY <1>10, <2>1, Advances DEF Access, Early, Later
    <2>2. CASE Granted(Asks(c))
      <3> DEFINE step == IF Retires(c) THEN "logout"
                         ELSE IF SharingChanges(c) THEN "sharing" ELSE "save"
      <3> DEFINE r == [chg[c] EXCEPT !.prev = mem.url, !.olds = mem.conns,
                                     !.at = step]
      <3>1. chg[c] \in Commands /\ Fits(chg[c]) /\ chg[c].at = "access"
        BY <1>10 DEF ChangesOK, Access
      <3>2. step \in {"logout", "sharing", "save"} OBVIOUS
      <3> HIDE DEF step
      <3>3. mem.url \in Servers /\ mem.conns \in SUBSET Connections
        BY DEF StoreOK
      <3>4. r \in Commands BY <3>1, <3>2, <3>3 DEF Commands, Early, Later
      <3>5. r.at = step /\ r.cmd = chg[c].cmd /\ r.next = chg[c].next
        BY <3>1 DEF Commands
      <3>7. Fits(r) BY <3>1, <3>2, <3>4, <3>5 DEF Fits, Early, Later
      <3>6. chg' = [chg EXCEPT ![c] = r] BY <1>10, <2>2 DEF Access, step
      <3> HIDE DEF r
      <3> QED BY <3>6, <3>7, Moves
    <2> QED BY <2>1, <2>2
  <1>11. ASSUME NEW c \in Changes, Fails(c)
        PROVE  ChangesOK'
    BY <1>11, Advances DEF Fails, Only, Early, Later
  <1>12. ASSUME NEW c \in Changes, RetireSession(c)
        PROVE  ChangesOK'
    BY <1>12, Advances DEF RetireSession, Early, Later
  <1>13. ASSUME NEW c \in Changes, ClearCache(c)
        PROVE  ChangesOK'
    BY <1>13, Advances DEF ClearCache, Early, Later
  <1>14. ASSUME NEW c \in Changes, SaveSharing(c)
        PROVE  ChangesOK'
    BY <1>14, Advances DEF SaveSharing, Only, Early, Later
  <1>15. ASSUME NEW c \in Changes, Store(c)
        PROVE  ChangesOK'
    BY <1>15, Advances DEF Store, Early, Later
  <1>16. ASSUME NEW c \in Changes, Stored(c)
        PROVE  ChangesOK'
    BY <1>16, Advances DEF Stored, Early, Later
  <1>17. ASSUME NEW c \in Changes, CleanUp(c)
        PROVE  ChangesOK'
    BY <1>17, Advances DEF CleanUp, Early, Later
  <1>18. ASSUME NEW c \in Changes, EndTurn(c)
        PROVE  ChangesOK'
    BY <1>18, Moves DEF Fits, Nothing, Commands, Early, Later, EndTurn
  <1>19. ASSUME NEW c \in Changes, NEW s \in Servers, SetServer(c, s)
        PROVE  ChangesOK'
    <2> DEFINE r == [Nothing EXCEPT !.at = "turn", !.cmd = "set",
                                    !.next = s]
    <2>1. Nothing \in Commands BY DEF Nothing, Commands
    <2>2. r \in Commands BY <2>1 DEF Commands, Early, Later
    <2>3. r.at = "turn" /\ r.cmd = "set" /\ r.next = s BY <2>1 DEF Commands
    <2>5. Fits(r) BY <2>2, <2>3 DEF Fits, Early, Later
    <2>4. chg' = [chg EXCEPT ![c] = r] BY <1>19 DEF SetServer, Mutate, r
    <2> HIDE DEF r
    <2> QED BY <2>4, <2>5, Moves
  <1>20. ASSUME NEW c \in Changes, NEW k \in Connections, SaveConnection(c, k)
        PROVE  ChangesOK'
    <2> DEFINE r == [Nothing EXCEPT !.at = "turn", !.cmd = "save",
                                    !.next = k]
    <2>1. Nothing \in Commands BY DEF Nothing, Commands
    <2>2. r \in Commands BY <2>1 DEF Commands, Early, Later
    <2>3. r.at = "turn" /\ r.cmd = "save" /\ r.next = k BY <2>1 DEF Commands
    <2>5. Fits(r) BY <2>2, <2>3 DEF Fits, Early, Later
    <2>4. chg' = [chg EXCEPT ![c] = r] BY <1>20 DEF SaveConnection, Mutate, r
    <2> HIDE DEF r
    <2> QED BY <2>4, <2>5, Moves
  <1>21. ASSUME NEW c \in Changes, NEW s \in Servers, ActivateConnection(c, s)
        PROVE  ChangesOK'
    <2> DEFINE r == [Nothing EXCEPT !.at = "turn", !.cmd = "activate",
                                    !.next = s]
    <2>1. Nothing \in Commands BY DEF Nothing, Commands
    <2>2. r \in Commands BY <2>1 DEF Commands, Early, Later
    <2>3. r.at = "turn" /\ r.cmd = "activate" /\ r.next = s
      BY <2>1 DEF Commands
    <2>5. Fits(r) BY <2>2, <2>3 DEF Fits, Early, Later
    <2>4. chg' = [chg EXCEPT ![c] = r] BY <1>21 DEF ActivateConnection, Mutate, r
    <2> HIDE DEF r
    <2> QED BY <2>4, <2>5, Moves
  <1>22. CASE Expire BY <1>22 DEF Expire, ChangesOK
  <1>23. CASE StatusRead BY <1>23 DEF StatusRead, ChangesOK
  <1>24. CASE Restart
    BY <1>24 DEF Fits, Nothing, Commands, Early, Later, Restart, ChangesOK
  <1>25. CASE UNCHANGED vars BY <1>25 DEF ChangesOK, vars
  <1> QED BY <1>1, <1>2, <1>3, <1>4, <1>5, <1>6, <1>7, <1>8, <1>9, <1>10, <1>11, <1>12, <1>13, <1>14, <1>15, <1>16, <1>17, <1>18, <1>19, <1>20, <1>21, <1>22, <1>23, <1>24, <1>25
         DEF Next, OpStep, ChangeStep, Request

(* Every step keeps the types of everything else. *)
LEMMA TypesStep ==
  ASSUME TypeOK, InLine, Counted, LeaseKeepsServer, [Next]_vars PROVE BarrierOK' /\ OpsOK' /\ StoreOK' /\ RestOK'
  <1> USE ServerAssumption
  <1>1. CASE InitUrl
    BY <1>1 DEF InitUrl, barrier, BarrierOK, OpsOK, StoreOK, RestOK, TypeOK
  <1>2. CASE InitConnections
    BY <1>2 DEF ConnectionOf, StoreOK, TypeOK, InitConnections, BarrierOK, OpsOK, RestOK, barrier
  <1>3. ASSUME NEW o \in Ops, NEW k \in {"signin", "sync", "signout"}, Acquire(o, k)
        PROVE  BarrierOK' /\ OpsOK' /\ StoreOK' /\ RestOK'
    BY <1>3 DEF StoreOK, TypeOK, Acquire, OpsOK, BarrierOK, RestOK
  <1>4. ASSUME NEW o \in Ops, SignedIn(o)
        PROVE  BarrierOK' /\ OpsOK' /\ StoreOK' /\ RestOK'
    <2>1. op[o] # Idle BY <1>4 DEF SignedIn, Idle
    <2>2. active \in Nat \ {0} BY <2>1, LeaseOut
    <2>3. BarrierOK' BY <1>4, <2>2 DEF SignedIn, Return, BarrierOK, TypeOK
    <2>4. Idle \in [kind : {"none", "signin", "sync", "signout"},
                    url : Servers \cup {None}]
      BY DEF Idle
    <2>5. OpsOK' BY <1>4, <2>4 DEF SignedIn, OpsOK, TypeOK
    <2>6. StoreOK' BY <1>4 DEF SignedIn, StoreOK, TypeOK
    <2>7. RestOK'
      <3>1. op[o].url \in Servers
        BY <1>4 DEF SignedIn, LeaseKeepsServer, Idle, StoreOK, TypeOK
      <3>2. Active = None \/ Active \in Connections
        BY DEF Active, ConnectionOf, StoreOK, TypeOK
      <3>3. Pair \in [url : Servers, web : Panels \cup {None}, http : BOOLEAN]
        BY <3>2 DEF Pair, StoreOK, TypeOK
      <3> QED BY <1>4, <3>1, <3>3 DEF SignedIn, RestOK, TypeOK
    <2> QED BY <2>3, <2>5, <2>6, <2>7
  <1>5. ASSUME NEW o \in Ops, Synced(o)
        PROVE  BarrierOK' /\ OpsOK' /\ StoreOK' /\ RestOK'
    BY <1>5, LeaseOut DEF Synced, Idle, Return, BarrierOK, TypeOK, OpsOK, StoreOK, LeaseKeepsServer,
       RestOK
  <1>6. ASSUME NEW o \in Ops, SignedOut(o)
        PROVE  BarrierOK' /\ OpsOK' /\ StoreOK' /\ RestOK'
    BY <1>6, LeaseOut DEF SignedOut, Idle, Return, BarrierOK, TypeOK, OpsOK, StoreOK, RestOK
  <1>7. ASSUME NEW c \in Changes, TakeTurn(c)
        PROVE  BarrierOK' /\ OpsOK' /\ StoreOK' /\ RestOK'
    <2>1. drain' \in BOOLEAN BY <1>7, Zenon DEF TakeTurn, BarrierOK, TypeOK
    <2>2. gen' = gen + 1 /\ active' = active /\ pendingMutations' = pendingMutations
            /\ turns' = turns
      BY <1>7, Zenon DEF TakeTurn
    <2>3. BarrierOK' BY <2>1, <2>2 DEF BarrierOK, TypeOK
    <2> QED BY <1>7, <2>3 DEF TakeTurn, OpsOK, StoreOK, RestOK, TypeOK
  <1>8. ASSUME NEW c \in Changes, Drained(c)
        PROVE  BarrierOK' /\ OpsOK' /\ StoreOK' /\ RestOK'
    BY <1>8 DEF Drained, Only, barrier, BarrierOK, OpsOK, StoreOK, RestOK, TypeOK
  <1>9. ASSUME NEW c \in Changes, Begin(c)
        PROVE  BarrierOK' /\ OpsOK' /\ StoreOK' /\ RestOK'
    BY <1>9 DEF Begin, barrier, BarrierOK, OpsOK, StoreOK, RestOK, TypeOK
  <1>10. ASSUME NEW c \in Changes, Access(c)
        PROVE  BarrierOK' /\ OpsOK' /\ StoreOK' /\ RestOK'
    BY <1>10 DEF Access, barrier, BarrierOK, OpsOK, StoreOK, RestOK, TypeOK
  <1>11. ASSUME NEW c \in Changes, Fails(c)
        PROVE  BarrierOK' /\ OpsOK' /\ StoreOK' /\ RestOK'
    BY <1>11 DEF Fails, Only, barrier, BarrierOK, OpsOK, StoreOK, RestOK, TypeOK
  <1>12. ASSUME NEW c \in Changes, RetireSession(c)
        PROVE  BarrierOK' /\ OpsOK' /\ StoreOK' /\ RestOK'
    BY <1>12 DEF RetireSession, barrier, BarrierOK, OpsOK, StoreOK, RestOK, TypeOK
  <1>13. ASSUME NEW c \in Changes, ClearCache(c)
        PROVE  BarrierOK' /\ OpsOK' /\ StoreOK' /\ RestOK'
    BY <1>13 DEF ClearCache, barrier, BarrierOK, OpsOK, StoreOK, RestOK, TypeOK
  <1>14. ASSUME NEW c \in Changes, SaveSharing(c)
        PROVE  BarrierOK' /\ OpsOK' /\ StoreOK' /\ RestOK'
    BY <1>14 DEF SaveSharing, Only, barrier, BarrierOK, OpsOK, StoreOK, RestOK, TypeOK
  <1>15. ASSUME NEW c \in Changes, Store(c)
        PROVE  BarrierOK' /\ OpsOK' /\ StoreOK' /\ RestOK'
    <2>1. chg[c].next \in IF chg[c].cmd = "set" THEN Servers
                                                 ELSE Connections
      BY <1>15 DEF Store, TypeOK, ChangesOK, Fits, Later
    <2>2. CASE chg[c].cmd = "set"
      BY <2>1, <2>2, <1>15 DEF Commit, StoreOK, TypeOK, Store, Commits, BarrierOK, OpsOK, RestOK,
         barrier
    <2>3. CASE chg[c].cmd # "set"
      BY <2>1, <2>3, <1>15 DEF Url, StoreOK, TypeOK, Commit, Store, Commits, BarrierOK, OpsOK,
         RestOK, barrier
    <2> QED BY <2>2, <2>3
  <1>16. ASSUME NEW c \in Changes, Stored(c)
        PROVE  BarrierOK' /\ OpsOK' /\ StoreOK' /\ RestOK'
    <2>1. chg[c].next \in IF chg[c].cmd = "set" THEN Servers
                                                 ELSE Connections
      BY <1>16 DEF Stored, TypeOK, ChangesOK, Fits, Later
    <2>2. Url(c) \in Servers BY <2>1 DEF Url
    <2> HIDE DEF Url
    <2>3. disk.conns \in SUBSET Connections /\ disk.act \in Servers \cup {None}
      BY DEF StoreOK, TypeOK
    <2> QED BY <1>16, <2>2, <2>3 DEF Stored, BarrierOK, OpsOK, StoreOK, RestOK,
                                  TypeOK, barrier
  <1>17. ASSUME NEW c \in Changes, CleanUp(c)
        PROVE  BarrierOK' /\ OpsOK' /\ StoreOK' /\ RestOK'
    BY <1>17 DEF CleanUp, barrier, BarrierOK, OpsOK, StoreOK, RestOK, TypeOK
  <1>18. ASSUME NEW c \in Changes, EndTurn(c)
        PROVE  BarrierOK' /\ OpsOK' /\ StoreOK' /\ RestOK'
    BY <1>18, QueueHolds DEF EndTurn, TypeOK, BarrierOK, InLine, OpsOK, StoreOK, RestOK
  <1>19. ASSUME NEW c \in Changes, NEW s \in Servers, SetServer(c, s)
        PROVE  BarrierOK' /\ OpsOK' /\ StoreOK' /\ RestOK'
    BY <1>19 DEF SetServer, Mutate, barrier, BarrierOK, OpsOK, StoreOK, RestOK, TypeOK
  <1>20. ASSUME NEW c \in Changes, NEW k \in Connections, SaveConnection(c, k)
        PROVE  BarrierOK' /\ OpsOK' /\ StoreOK' /\ RestOK'
    BY <1>20 DEF Origins, SaveConnection, Mutate, RestOK, TypeOK, BarrierOK, OpsOK, StoreOK
  <1>21. ASSUME NEW c \in Changes, NEW s \in Servers, ActivateConnection(c, s)
        PROVE  BarrierOK' /\ OpsOK' /\ StoreOK' /\ RestOK'
    BY <1>21 DEF ActivateConnection, Mutate, barrier, BarrierOK, OpsOK, StoreOK, RestOK, TypeOK
  <1>22. CASE Expire
    BY <1>22 DEF Expire, barrier, BarrierOK, OpsOK, StoreOK, RestOK, TypeOK
  <1>23. CASE StatusRead
    BY <1>23 DEF StatusRead, barrier, BarrierOK, OpsOK, StoreOK, RestOK, TypeOK
  <1>24. CASE Restart
    <2>1. Idle \in [kind : {"none", "signin", "sync", "signout"},
                    url : Servers \cup {None}]
      BY DEF Idle
    <2>2. OpsOK' BY <1>24, <2>1 DEF Restart, OpsOK
    <2>3. Fresh \in [url : Servers, conns : SUBSET Connections,
                     act : Servers \cup {None}, ready : {"no", "url", "yes"}]
      BY DEF Fresh
    <2>4. BarrierOK'
      <3>1. <<>> \in Seq(Changes) OBVIOUS
      <3> QED BY <1>24, <3>1 DEF Restart, BarrierOK
    <2> QED BY <1>24, <2>2, <2>3, <2>4 DEF Restart, StoreOK, RestOK, TypeOK
  <1>25. CASE UNCHANGED vars
    BY <1>25 DEF vars, barrier, BarrierOK, OpsOK, StoreOK, RestOK, TypeOK
  <1> QED BY <1>1, <1>2, <1>3, <1>4, <1>5, <1>6, <1>7, <1>8, <1>9, <1>10, <1>11, <1>12, <1>13, <1>14, <1>15, <1>16, <1>17, <1>18, <1>19, <1>20, <1>21, <1>22, <1>23, <1>24, <1>25
         DEF Next, OpStep, ChangeStep, Request

(* A step that sets only the place of one command. *)
LEMMA AtOnly ==
  ASSUME ChangesOK, NEW c \in Changes, NEW step, At(c, step)
  PROVE  /\ chg'[c].at = step
         /\ chg'[c].cmd = chg[c].cmd /\ chg'[c].next = chg[c].next
         /\ \A d \in Changes \ {c} : chg'[d] = chg[d]
  BY DEF At, ChangesOK, Commands

(* Beginning and being granted access keep the queue as it is: the command  *)
(* has its turn and does not give it back.                                   *)
LEMMA BeginMoves ==
  ASSUME ChangesOK, NEW c \in Changes, Begin(c)
  PROVE  /\ chg'[c].at \in {"end", "access"}
         /\ \A d \in Changes \ {c} : chg'[d] = chg[d]
  <1>1. CASE Target(c) = None \/ Unchanged(c) BY <1>1, AtOnly DEF Begin
  <1>2. CASE ~(Target(c) = None \/ Unchanged(c))
    BY <1>2 DEF Begin, ChangesOK, Commands
  <1> QED BY <1>1, <1>2

LEMMA AccessMoves ==
  ASSUME ChangesOK, NEW c \in Changes, Access(c)
  PROVE  /\ chg'[c].at \in {"clean", "end", "logout", "sharing", "save"}
         /\ chg'[c].cmd = chg[c].cmd /\ chg'[c].next = chg[c].next
         /\ chg'[c].at = "sharing" => ~Retires(c) /\ SharingChanges(c)
         /\ chg'[c].at = "save" => ~Retires(c) /\ ~SharingChanges(c)
         /\ \A d \in Changes \ {c} : chg'[d] = chg[d]
  <1>1. CASE ~Granted(Asks(c)) BY <1>1, AtOnly DEF Access
  <1>2. CASE Granted(Asks(c))
    <2> DEFINE step == IF Retires(c) THEN "logout"
                       ELSE IF SharingChanges(c) THEN "sharing" ELSE "save"
    <2>1. chg' = [chg EXCEPT ![c] = [@ EXCEPT !.prev = mem.url,
                                       !.olds = mem.conns, !.at = step]]
      BY <1>2 DEF Access
    <2>2. step \in {"logout", "sharing", "save"}
      /\ (step = "sharing" => ~Retires(c) /\ SharingChanges(c))
      /\ (step = "save" => ~Retires(c) /\ ~SharingChanges(c))
      OBVIOUS
    <2> HIDE DEF step
    <2> QED BY <2>1, <2>2 DEF ChangesOK, Commands
  <1> QED BY <1>1, <1>2

(* A step of the command at the head leaves the queue as it is. *)
LEMMA Stays ==
  ASSUME InLine, NEW c \in Changes, chg[c].at # "idle", chg'[c].at # "idle",
         chg[c].at # "turn" \/ c = turns[1],
         \A d \in Changes \ {c} : chg'[d] = chg[d],
         turns' = turns, pendingMutations' = pendingMutations
  PROVE  InLine'
  BY DEF InLine, Waits

(* A command that is requested queues behind those under way. *)
LEMMA Enqueues ==
  ASSUME ChangesOK, BarrierOK, InLine, NEW c \in Changes, NEW cmd, NEW next,
         Mutate(c, cmd, next)
  PROVE  InLine'
  <1>1. chg[c].at = "idle" BY DEF Mutate, Nothing
  <1>2. /\ chg'[c].at = "turn"
        /\ \A d \in Changes \ {c} : chg'[d] = chg[d]
    BY DEF Mutate, Nothing, ChangesOK
  <1>3. /\ Len(turns') = Len(turns) + 1 /\ turns'[Len(turns) + 1] = c
        /\ \A i \in 1..Len(turns) : turns'[i] = turns[i]
        /\ pendingMutations' = pendingMutations + 1 /\ Len(turns) \in Nat
    BY DEF Mutate, BarrierOK
  <1>4. \A i \in 1..Len(turns) : turns[i] # c BY <1>1 DEF InLine, Waits
  <1>5. \A i \in 1..Len(turns') : i \in 1..Len(turns) \/ i = Len(turns) + 1
    BY <1>3
  <1>6. \A d \in Changes : Waits(d)' <=> Waits(d) \/ d = c
    BY <1>3, <1>5 DEF Waits
  <1>7. \A d \in Changes : chg'[d].at # "idle" <=> Waits(d)'
    BY <1>1, <1>2, <1>6 DEF InLine
  <1>8. \A i, j \in 1..Len(turns') : turns'[i] = turns'[j] => i = j
    BY <1>3, <1>4, <1>5 DEF InLine
  <1>9. \A d \in Changes : chg'[d].at \notin {"idle", "turn"} => d = turns'[1]
    BY <1>2, <1>3 DEF InLine, Waits
  <1>10. pendingMutations' = Len(turns') BY <1>3 DEF InLine
  <1> QED BY <1>7, <1>8, <1>9, <1>10 DEF InLine

(* Every step keeps the queue of commands. *)
LEMMA QueuedStep ==
  ASSUME BarrierOK, ChangesOK, InLine, [Next]_vars PROVE InLine'
  <1>1. CASE InitUrl BY <1>1 DEF InitUrl, barrier, vars, InLine, Waits
  <1>2. CASE InitConnections
    BY <1>2 DEF InitConnections, barrier, vars, InLine, Waits
  <1>3. ASSUME NEW o \in Ops, NEW k \in {"signin", "sync", "signout"}, Acquire(o, k)
        PROVE  InLine'
    BY <1>3 DEF Acquire, barrier, vars, InLine, Waits
  <1>4. ASSUME NEW o \in Ops, SignedIn(o)
        PROVE  InLine'
    BY <1>4 DEF SignedIn, barrier, vars, InLine, Waits
  <1>5. ASSUME NEW o \in Ops, Synced(o)
        PROVE  InLine'
    BY <1>5 DEF Synced, barrier, vars, InLine, Waits
  <1>6. ASSUME NEW o \in Ops, SignedOut(o)
        PROVE  InLine'
    BY <1>6 DEF SignedOut, barrier, vars, InLine, Waits
  <1>7. ASSUME NEW c \in Changes, TakeTurn(c)
        PROVE  InLine'
    BY <1>7, QueueHolds, AtOnly, Stays DEF TakeTurn, BarrierOK
  <1>8. ASSUME NEW c \in Changes, Drained(c)
        PROVE  InLine'
    BY <1>8, AtOnly, Stays DEF Drained, Only, barrier
  <1>9. ASSUME NEW c \in Changes, Begin(c)
        PROVE  InLine'
    BY <1>9, BeginMoves, Stays DEF Begin, barrier
  <1>10. ASSUME NEW c \in Changes, Access(c)
        PROVE  InLine'
    BY <1>10, AccessMoves, Stays DEF Access, barrier
  <1>11. ASSUME NEW c \in Changes, Fails(c)
        PROVE  InLine'
    BY <1>11, AtOnly, Stays DEF Fails, Only, barrier
  <1>12. ASSUME NEW c \in Changes, RetireSession(c)
        PROVE  InLine'
    BY <1>12, AtOnly, Stays DEF RetireSession, barrier
  <1>13. ASSUME NEW c \in Changes, ClearCache(c)
        PROVE  InLine'
    BY <1>13, AtOnly, Stays DEF ClearCache, barrier
  <1>14. ASSUME NEW c \in Changes, SaveSharing(c)
        PROVE  InLine'
    BY <1>14, AtOnly, Stays DEF SaveSharing, Only, barrier
  <1>15. ASSUME NEW c \in Changes, Store(c)
        PROVE  InLine'
    BY <1>15, AtOnly, Stays DEF Store, barrier
  <1>16. ASSUME NEW c \in Changes, Stored(c)
        PROVE  InLine'
    BY <1>16, AtOnly, Stays DEF Stored, barrier
  <1>17. ASSUME NEW c \in Changes, CleanUp(c)
        PROVE  InLine'
    BY <1>17, AtOnly, Stays DEF CleanUp, barrier
  <1>18. ASSUME NEW c \in Changes, EndTurn(c)
        PROVE  InLine'
    <2>1. Len(turns) \in Nat \ {0} BY <1>18, QueueHolds DEF EndTurn
    <2>2. c = turns[1] BY <1>18 DEF EndTurn, InLine
    <2>3. /\ chg'[c].at = "idle"
          /\ \A d \in Changes \ {c} : chg'[d] = chg[d]
      BY <1>18 DEF EndTurn, Nothing, ChangesOK
    <2>4. /\ turns' \in Seq(Changes) /\ Len(turns') = Len(turns) - 1
          /\ \A i \in 1..Len(turns') : turns'[i] = turns[i + 1]
          /\ pendingMutations' = pendingMutations - 1
      BY <1>18, <2>1 DEF EndTurn, BarrierOK
    <2>5. \A d \in Changes : chg'[d].at # "idle" <=> Waits(d)'
      <3> SUFFICES ASSUME NEW d \in Changes
                   PROVE  chg'[d].at # "idle" <=> Waits(d)'
        OBVIOUS
      <3>1. CASE d = c
        <4>1. ~Waits(d)'
          <5> SUFFICES ASSUME NEW i \in 1..Len(turns'), turns'[i] = c
                       PROVE  FALSE
            BY <3>1 DEF Waits
          <5>1. i + 1 \in 1..Len(turns) /\ 1 \in 1..Len(turns) BY <2>1, <2>4
          <5>2. turns[i + 1] = turns[1] BY <2>2, <2>4
          <5>3. i + 1 = 1 BY <5>1, <5>2 DEF InLine
          <5> QED BY <5>3
        <4> QED BY <2>3, <3>1, <4>1
      <3>2. CASE d # c
        <4>1. Waits(d) <=> Waits(d)'
          <5>1. ASSUME NEW i \in 1..Len(turns), turns[i] = d
                PROVE  i - 1 \in 1..Len(turns') /\ turns'[i - 1] = d
            BY <2>2, <3>2, <5>1, <2>1, <2>4
          <5>2. ASSUME NEW i \in 1..Len(turns'), turns'[i] = d
                PROVE  i + 1 \in 1..Len(turns) /\ turns[i + 1] = d
            BY <2>1, <2>4, <5>2
          <5> QED BY <5>1, <5>2 DEF Waits
        <4> QED BY <2>3, <3>2, <4>1 DEF InLine
      <3> QED BY <3>1, <3>2
    <2>6. \A i, j \in 1..Len(turns') : turns'[i] = turns'[j] => i = j
      BY <2>1, <2>4 DEF InLine
    <2>7. \A d \in Changes : chg'[d].at \notin {"idle", "turn"} => d = turns'[1]
      BY <2>2, <2>3 DEF InLine
    <2>8. pendingMutations' = Len(turns') BY <2>4 DEF InLine
    <2> QED BY <2>5, <2>6, <2>7, <2>8 DEF InLine
  <1>19. ASSUME NEW c \in Changes, NEW s \in Servers, SetServer(c, s)
        PROVE  InLine'
    BY <1>19, Enqueues DEF SetServer
  <1>20. ASSUME NEW c \in Changes, NEW k \in Connections, SaveConnection(c, k)
        PROVE  InLine'
    BY <1>20, Enqueues DEF SaveConnection
  <1>21. ASSUME NEW c \in Changes, NEW s \in Servers, ActivateConnection(c, s)
        PROVE  InLine'
    BY <1>21, Enqueues DEF ActivateConnection
  <1>22. CASE Expire BY <1>22 DEF Expire, barrier, vars, InLine, Waits
  <1>23. CASE StatusRead BY <1>23 DEF StatusRead, barrier, vars, InLine, Waits
  <1>24. CASE Restart BY <1>24 DEF Restart, Nothing, InLine, Waits
  <1>25. CASE UNCHANGED vars BY <1>25 DEF barrier, vars, InLine, Waits
  <1> QED BY <1>1, <1>2, <1>3, <1>4, <1>5, <1>6, <1>7, <1>8, <1>9, <1>10, <1>11, <1>12, <1>13, <1>14, <1>15, <1>16, <1>17, <1>18, <1>19, <1>20, <1>21, <1>22, <1>23, <1>24, <1>25
         DEF Next, OpStep, ChangeStep, Request

(* Every step keeps the lease counter exact. *)
LEMMA CountedStep ==
  ASSUME OpsOK, StoreOK, Counted, [Next]_vars PROVE Counted'
  <1>1. CASE InitUrl BY <1>1 DEF InitUrl, barrier, vars, Counted, Running
  <1>2. CASE InitConnections
    BY <1>2 DEF InitConnections, barrier, vars, Counted, Running
  <1>3. ASSUME NEW o \in Ops, NEW k \in {"signin", "sync", "signout"}, Acquire(o, k)
        PROVE  Counted'
    <2>1. op[o] = Idle /\ active' = active + 1 BY <1>3 DEF Acquire
    <2>2. Running' = Running \cup {o}
      BY <1>3, ServerAssumption DEF Acquire, Running, Idle, OpsOK, StoreOK
    <2>3. o \notin Running BY <2>1 DEF Running
    <2>4. Cardinality(Running') = Cardinality(Running) + 1
      BY <2>2, <2>3, Finite, FS_AddElement
    <2> QED BY <2>1, <2>4 DEF Counted
  <1>4. ASSUME NEW o \in Ops, SignedIn(o)
        PROVE  Counted'
    <2>1. op[o] # Idle /\ active' = active - 1 BY <1>4 DEF SignedIn, Return, Idle
    <2>2. Running' = Running \ {o} BY <1>4 DEF SignedIn, Running, OpsOK
    <2>3. o \in Running BY <2>1 DEF Running
    <2>4. Cardinality(Running') = Cardinality(Running) - 1
      BY <2>2, <2>3, Finite, FS_RemoveElement
    <2> QED BY <2>1, <2>4 DEF Counted
  <1>5. ASSUME NEW o \in Ops, Synced(o)
        PROVE  Counted'
    <2>1. op[o] # Idle /\ active' = active - 1 BY <1>5 DEF Synced, Return, Idle
    <2>2. Running' = Running \ {o} BY <1>5 DEF Synced, Running, OpsOK
    <2>3. o \in Running BY <2>1 DEF Running
    <2>4. Cardinality(Running') = Cardinality(Running) - 1
      BY <2>2, <2>3, Finite, FS_RemoveElement
    <2> QED BY <2>1, <2>4 DEF Counted
  <1>6. ASSUME NEW o \in Ops, SignedOut(o)
        PROVE  Counted'
    <2>1. op[o] # Idle /\ active' = active - 1 BY <1>6 DEF SignedOut, Return, Idle
    <2>2. Running' = Running \ {o} BY <1>6 DEF SignedOut, Running, OpsOK
    <2>3. o \in Running BY <2>1 DEF Running
    <2>4. Cardinality(Running') = Cardinality(Running) - 1
      BY <2>2, <2>3, Finite, FS_RemoveElement
    <2> QED BY <2>1, <2>4 DEF Counted
  <1>7. ASSUME NEW c \in Changes, TakeTurn(c)
        PROVE  Counted'
    BY <1>7 DEF TakeTurn, Counted, Running
  <1>8. ASSUME NEW c \in Changes, Drained(c)
        PROVE  Counted'
    BY <1>8 DEF Drained, Only, barrier, vars, Counted, Running
  <1>9. ASSUME NEW c \in Changes, Begin(c)
        PROVE  Counted'
    BY <1>9 DEF Begin, barrier, vars, Counted, Running
  <1>10. ASSUME NEW c \in Changes, Access(c)
        PROVE  Counted'
    BY <1>10 DEF Access, barrier, vars, Counted, Running
  <1>11. ASSUME NEW c \in Changes, Fails(c)
        PROVE  Counted'
    BY <1>11 DEF Fails, Only, barrier, vars, Counted, Running
  <1>12. ASSUME NEW c \in Changes, RetireSession(c)
        PROVE  Counted'
    BY <1>12 DEF RetireSession, barrier, vars, Counted, Running
  <1>13. ASSUME NEW c \in Changes, ClearCache(c)
        PROVE  Counted'
    BY <1>13 DEF ClearCache, barrier, vars, Counted, Running
  <1>14. ASSUME NEW c \in Changes, SaveSharing(c)
        PROVE  Counted'
    BY <1>14 DEF SaveSharing, Only, barrier, vars, Counted, Running
  <1>15. ASSUME NEW c \in Changes, Store(c)
        PROVE  Counted'
    BY <1>15 DEF Store, barrier, vars, Counted, Running
  <1>16. ASSUME NEW c \in Changes, Stored(c)
        PROVE  Counted'
    BY <1>16 DEF Stored, barrier, vars, Counted, Running
  <1>17. ASSUME NEW c \in Changes, CleanUp(c)
        PROVE  Counted'
    BY <1>17 DEF CleanUp, barrier, vars, Counted, Running
  <1>18. ASSUME NEW c \in Changes, EndTurn(c)
        PROVE  Counted'
    BY <1>18 DEF EndTurn, barrier, vars, Counted, Running
  <1>19. ASSUME NEW c \in Changes, NEW s \in Servers, SetServer(c, s)
        PROVE  Counted'
    BY <1>19 DEF SetServer, Mutate, barrier, vars, Counted, Running
  <1>20. ASSUME NEW c \in Changes, NEW k \in Connections, SaveConnection(c, k)
        PROVE  Counted'
    BY <1>20 DEF SaveConnection, Mutate, barrier, vars, Counted, Running
  <1>21. ASSUME NEW c \in Changes, NEW s \in Servers, ActivateConnection(c, s)
        PROVE  Counted'
    BY <1>21 DEF ActivateConnection, Mutate, barrier, vars, Counted, Running
  <1>22. CASE Expire BY <1>22 DEF Expire, barrier, vars, Counted, Running
  <1>23. CASE StatusRead
    BY <1>23 DEF StatusRead, barrier, vars, Counted, Running
  <1>24. CASE Restart BY <1>24, FS_EmptySet DEF Restart, Running, Counted
  <1>25. CASE UNCHANGED vars BY <1>25 DEF barrier, vars, Counted, Running
  <1> QED BY <1>1, <1>2, <1>3, <1>4, <1>5, <1>6, <1>7, <1>8, <1>9, <1>10, <1>11, <1>12, <1>13, <1>14, <1>15, <1>16, <1>17, <1>18, <1>19, <1>20, <1>21, <1>22, <1>23, <1>24, <1>25
         DEF Next, OpStep, ChangeStep, Request

(* Nothing is admitted before the worker is initialized. *)
LEMMA BootedStep ==
  ASSUME StoreOK, Booted, [Next]_vars PROVE Booted'
  <1>1. CASE InitUrl BY <1>1 DEF InitUrl, Booted, Running
  <1>2. CASE InitConnections BY <1>2 DEF InitConnections, Booted
  <1>3. ASSUME NEW o \in Ops, NEW k \in {"signin", "sync", "signout"}, Acquire(o, k)
        PROVE  Booted'
    BY <1>3 DEF Acquire, Booted
  <1>4. ASSUME NEW o \in Ops, SignedIn(o)
        PROVE  Booted'
    BY <1>4 DEF SignedIn, Running, Idle, Booted
  <1>5. ASSUME NEW o \in Ops, Synced(o)
        PROVE  Booted'
    BY <1>5 DEF Synced, Running, Idle, Booted
  <1>6. ASSUME NEW o \in Ops, SignedOut(o)
        PROVE  Booted'
    BY <1>6 DEF SignedOut, Running, Idle, Booted
  <1>7. ASSUME NEW c \in Changes, TakeTurn(c)
        PROVE  Booted'
    BY <1>7 DEF TakeTurn, Booted
  <1>8. ASSUME NEW c \in Changes, Drained(c)
        PROVE  Booted'
    BY <1>8 DEF Drained, Booted, Only, StoreOK
  <1>9. ASSUME NEW c \in Changes, Begin(c)
        PROVE  Booted'
    BY <1>9 DEF Begin, Booted, StoreOK
  <1>10. ASSUME NEW c \in Changes, Access(c)
        PROVE  Booted'
    BY <1>10 DEF Access, Booted, StoreOK
  <1>11. ASSUME NEW c \in Changes, Fails(c)
        PROVE  Booted'
    BY <1>11 DEF Fails, Booted, Only, StoreOK
  <1>12. ASSUME NEW c \in Changes, RetireSession(c)
        PROVE  Booted'
    BY <1>12 DEF RetireSession, Booted, StoreOK
  <1>13. ASSUME NEW c \in Changes, ClearCache(c)
        PROVE  Booted'
    BY <1>13 DEF ClearCache, Booted, StoreOK
  <1>14. ASSUME NEW c \in Changes, SaveSharing(c)
        PROVE  Booted'
    BY <1>14 DEF SaveSharing, Booted, Only, StoreOK
  <1>15. ASSUME NEW c \in Changes, Store(c)
        PROVE  Booted'
    BY <1>15 DEF Store, Booted, StoreOK
  <1>16. ASSUME NEW c \in Changes, Stored(c)
        PROVE  Booted'
    BY <1>16 DEF Stored, Booted, StoreOK
  <1>17. ASSUME NEW c \in Changes, CleanUp(c)
        PROVE  Booted'
    BY <1>17 DEF CleanUp, Booted, StoreOK
  <1>18. ASSUME NEW c \in Changes, EndTurn(c)
        PROVE  Booted'
    BY <1>18 DEF EndTurn, Booted, StoreOK
  <1>19. ASSUME NEW c \in Changes, NEW s \in Servers, SetServer(c, s)
        PROVE  Booted'
    BY <1>19 DEF SetServer, Mutate, Booted
  <1>20. ASSUME NEW c \in Changes, NEW k \in Connections, SaveConnection(c, k)
        PROVE  Booted'
    BY <1>20 DEF SaveConnection, Mutate, Booted
  <1>21. ASSUME NEW c \in Changes, NEW s \in Servers, ActivateConnection(c, s)
        PROVE  Booted'
    BY <1>21 DEF ActivateConnection, Mutate, Booted
  <1>22. CASE Expire BY <1>22 DEF Expire, barrier, vars, Booted, Running
  <1>23. CASE StatusRead
    BY <1>23 DEF StatusRead, barrier, vars, Booted, Running
  <1>24. CASE Restart BY <1>24 DEF Restart, Running, Nothing, Booted
  <1>25. CASE UNCHANGED vars BY <1>25 DEF barrier, vars, Booted, Running
  <1> QED BY <1>1, <1>2, <1>3, <1>4, <1>5, <1>6, <1>7, <1>8, <1>9, <1>10, <1>11, <1>12, <1>13, <1>14, <1>15, <1>16, <1>17, <1>18, <1>19, <1>20, <1>21, <1>22, <1>23, <1>24, <1>25
         DEF Next, OpStep, ChangeStep, Request

(* Every step keeps the drain: a command goes on only with no lease out. *)
LEMMA DrainsStep ==
  ASSUME BarrierOK, ChangesOK, InLine, Counted, Drains, [Next]_vars PROVE Drains'
  <1>1. CASE InitUrl BY <1>1 DEF InitUrl, barrier, vars, Drains
  <1>2. CASE InitConnections
    BY <1>2 DEF InitConnections, barrier, vars, Drains
  <1>3. ASSUME NEW o \in Ops, NEW k \in {"signin", "sync", "signout"}, Acquire(o, k)
        PROVE  Drains'
    BY <1>3 DEF Acquire, Admits, InLine, Waits, BarrierOK, Drains
  <1>4. ASSUME NEW o \in Ops, SignedIn(o)
        PROVE  Drains'
    <2>1. op[o] # Idle BY <1>4 DEF SignedIn, Idle
    <2>2. active # 0 BY <2>1, LeaseOut
    <2>3. chg' = chg /\ (drain' <=> drain /\ active' # 0)
      BY <1>4 DEF SignedIn, Return
    <2> QED BY <2>2, <2>3 DEF Drains
  <1>5. ASSUME NEW o \in Ops, Synced(o)
        PROVE  Drains'
    <2>1. op[o] # Idle BY <1>5 DEF Synced, Idle
    <2>2. active # 0 BY <2>1, LeaseOut
    <2>3. chg' = chg /\ (drain' <=> drain /\ active' # 0)
      BY <1>5 DEF Synced, Return
    <2> QED BY <2>2, <2>3 DEF Drains
  <1>6. ASSUME NEW o \in Ops, SignedOut(o)
        PROVE  Drains'
    <2>1. op[o] # Idle BY <1>6 DEF SignedOut, Idle
    <2>2. active # 0 BY <2>1, LeaseOut
    <2>3. chg' = chg /\ (drain' <=> drain /\ active' # 0)
      BY <1>6 DEF SignedOut, Return
    <2> QED BY <2>2, <2>3 DEF Drains
  <1>7. ASSUME NEW c \in Changes, TakeTurn(c)
        PROVE  Drains'
    <2>1. active' = active BY <1>7, Zenon DEF TakeTurn
    <2>2. CASE MustDrain BY <1>7, <2>2, AtOnly, <2>1 DEF TakeTurn, Drains
    <2>3. CASE ~MustDrain BY <2>3, <2>1 DEF MustDrain, BarrierOK, Drains
    <2> QED BY <2>2, <2>3
  <1>8. ASSUME NEW c \in Changes, Drained(c)
        PROVE  Drains'
    BY <1>8 DEF Drained, Drains, Only, barrier
  <1>9. ASSUME NEW c \in Changes, Begin(c)
        PROVE  Drains'
    BY <1>9 DEF Begin, Drains, barrier
  <1>10. ASSUME NEW c \in Changes, Access(c)
        PROVE  Drains'
    BY <1>10 DEF Access, Drains, barrier
  <1>11. ASSUME NEW c \in Changes, Fails(c)
        PROVE  Drains'
    BY <1>11 DEF Fails, Drains, Only, barrier
  <1>12. ASSUME NEW c \in Changes, RetireSession(c)
        PROVE  Drains'
    BY <1>12 DEF RetireSession, Drains, barrier
  <1>13. ASSUME NEW c \in Changes, ClearCache(c)
        PROVE  Drains'
    BY <1>13 DEF ClearCache, Drains, barrier
  <1>14. ASSUME NEW c \in Changes, SaveSharing(c)
        PROVE  Drains'
    BY <1>14 DEF SaveSharing, Drains, Only, barrier
  <1>15. ASSUME NEW c \in Changes, Store(c)
        PROVE  Drains'
    BY <1>15 DEF Store, Drains, barrier
  <1>16. ASSUME NEW c \in Changes, Stored(c)
        PROVE  Drains'
    BY <1>16 DEF Stored, Drains, barrier
  <1>17. ASSUME NEW c \in Changes, CleanUp(c)
        PROVE  Drains'
    BY <1>17 DEF CleanUp, Drains, barrier
  <1>18. ASSUME NEW c \in Changes, EndTurn(c)
        PROVE  Drains'
    BY <1>18 DEF EndTurn, Drains, barrier
  <1>19. ASSUME NEW c \in Changes, NEW s \in Servers, SetServer(c, s)
        PROVE  Drains'
    BY <1>19 DEF SetServer, Mutate, Nothing, ChangesOK, Drains
  <1>20. ASSUME NEW c \in Changes, NEW k \in Connections, SaveConnection(c, k)
        PROVE  Drains'
    BY <1>20 DEF SaveConnection, Mutate, Nothing, ChangesOK, Drains
  <1>21. ASSUME NEW c \in Changes, NEW s \in Servers, ActivateConnection(c, s)
        PROVE  Drains'
    BY <1>21 DEF ActivateConnection, Mutate, Nothing, ChangesOK, Drains
  <1>22. CASE Expire BY <1>22 DEF Expire, barrier, vars, Drains
  <1>23. CASE StatusRead BY <1>23 DEF StatusRead, barrier, vars, Drains
  <1>24. CASE Restart BY <1>24 DEF Restart, Drains, Nothing
  <1>25. CASE UNCHANGED vars BY <1>25 DEF barrier, vars, Drains
  <1> QED BY <1>1, <1>2, <1>3, <1>4, <1>5, <1>6, <1>7, <1>8, <1>9, <1>10, <1>11, <1>12, <1>13, <1>14, <1>15, <1>16, <1>17, <1>18, <1>19, <1>20, <1>21, <1>22, <1>23, <1>24, <1>25
         DEF Next, OpStep, ChangeStep, Request

(* Every step leaves the server to the operations that hold a lease. *)
LEMMA LeaseStep ==
  ASSUME OpsOK, Booted, Counted, Drains, LeaseKeepsServer, [Next]_vars PROVE LeaseKeepsServer'
  <1>1. CASE InitUrl BY <1>1 DEF InitUrl, Booted, Running, LeaseKeepsServer
  <1>2. CASE InitConnections
    BY <1>2 DEF InitConnections, Booted, Running, LeaseKeepsServer
  <1>3. ASSUME NEW o \in Ops, NEW k \in {"signin", "sync", "signout"}, Acquire(o, k)
        PROVE  LeaseKeepsServer'
    BY <1>3 DEF Acquire, LeaseKeepsServer, OpsOK
  <1>4. ASSUME NEW o \in Ops, SignedIn(o)
        PROVE  LeaseKeepsServer'
    BY <1>4 DEF SignedIn, LeaseKeepsServer, OpsOK
  <1>5. ASSUME NEW o \in Ops, Synced(o)
        PROVE  LeaseKeepsServer'
    BY <1>5 DEF Synced, LeaseKeepsServer, OpsOK
  <1>6. ASSUME NEW o \in Ops, SignedOut(o)
        PROVE  LeaseKeepsServer'
    BY <1>6 DEF SignedOut, LeaseKeepsServer, OpsOK
  <1>7. ASSUME NEW c \in Changes, TakeTurn(c)
        PROVE  LeaseKeepsServer'
    BY <1>7 DEF TakeTurn, LeaseKeepsServer
  <1>8. ASSUME NEW c \in Changes, Drained(c)
        PROVE  LeaseKeepsServer'
    BY <1>8 DEF Drained, Only, barrier, vars, LeaseKeepsServer
  <1>9. ASSUME NEW c \in Changes, Begin(c)
        PROVE  LeaseKeepsServer'
    BY <1>9 DEF Begin, barrier, vars, LeaseKeepsServer
  <1>10. ASSUME NEW c \in Changes, Access(c)
        PROVE  LeaseKeepsServer'
    BY <1>10 DEF Access, barrier, vars, LeaseKeepsServer
  <1>11. ASSUME NEW c \in Changes, Fails(c)
        PROVE  LeaseKeepsServer'
    BY <1>11 DEF Fails, Only, barrier, vars, LeaseKeepsServer
  <1>12. ASSUME NEW c \in Changes, RetireSession(c)
        PROVE  LeaseKeepsServer'
    BY <1>12 DEF RetireSession, barrier, vars, LeaseKeepsServer
  <1>13. ASSUME NEW c \in Changes, ClearCache(c)
        PROVE  LeaseKeepsServer'
    BY <1>13 DEF ClearCache, barrier, vars, LeaseKeepsServer
  <1>14. ASSUME NEW c \in Changes, SaveSharing(c)
        PROVE  LeaseKeepsServer'
    BY <1>14 DEF SaveSharing, Only, barrier, vars, LeaseKeepsServer
  <1>15. ASSUME NEW c \in Changes, Store(c)
        PROVE  LeaseKeepsServer'
    BY <1>15 DEF Store, barrier, vars, LeaseKeepsServer
  <1>16. ASSUME NEW c \in Changes, Stored(c)
        PROVE  LeaseKeepsServer'
    BY <1>16, CountedNone DEF Stored, Drains, Running, LeaseKeepsServer
  <1>17. ASSUME NEW c \in Changes, CleanUp(c)
        PROVE  LeaseKeepsServer'
    BY <1>17 DEF CleanUp, barrier, vars, LeaseKeepsServer
  <1>18. ASSUME NEW c \in Changes, EndTurn(c)
        PROVE  LeaseKeepsServer'
    BY <1>18 DEF EndTurn, barrier, vars, LeaseKeepsServer
  <1>19. ASSUME NEW c \in Changes, NEW s \in Servers, SetServer(c, s)
        PROVE  LeaseKeepsServer'
    BY <1>19 DEF SetServer, Mutate, barrier, vars, LeaseKeepsServer
  <1>20. ASSUME NEW c \in Changes, NEW k \in Connections, SaveConnection(c, k)
        PROVE  LeaseKeepsServer'
    BY <1>20 DEF SaveConnection, Mutate, barrier, vars, LeaseKeepsServer
  <1>21. ASSUME NEW c \in Changes, NEW s \in Servers, ActivateConnection(c, s)
        PROVE  LeaseKeepsServer'
    BY <1>21 DEF ActivateConnection, Mutate, barrier, vars, LeaseKeepsServer
  <1>22. CASE Expire BY <1>22 DEF Expire, barrier, vars, LeaseKeepsServer
  <1>23. CASE StatusRead
    BY <1>23 DEF StatusRead, barrier, vars, LeaseKeepsServer
  <1>24. CASE Restart BY <1>24 DEF Restart, barrier, vars, LeaseKeepsServer
  <1>25. CASE UNCHANGED vars BY <1>25 DEF barrier, vars, LeaseKeepsServer
  <1> QED BY <1>1, <1>2, <1>3, <1>4, <1>5, <1>6, <1>7, <1>8, <1>9, <1>10, <1>11, <1>12, <1>13, <1>14, <1>15, <1>16, <1>17, <1>18, <1>19, <1>20, <1>21, <1>22, <1>23, <1>24, <1>25
         DEF Next, OpStep, ChangeStep, Request

(* Only one command has its turn. *)
LEMMA OneTurn ==
  ASSUME InLine, NEW c \in Changes, NEW d \in Changes,
         chg[c].at \notin {"idle", "turn"}, chg[d].at \notin {"idle", "turn"}
  PROVE  c = d
  BY DEF InLine

(* While an operation runs no command is past its drain, and the worker is  *)
(* initialized.                                                              *)
LEMMA OpAlone ==
  ASSUME StoreOK, Booted, Counted, Drains, Follows, LeaseKeepsServer,
         NEW o \in Ops, op[o] # Idle
  PROVE  /\ \A c \in Changes : chg[c].at \in {"idle", "turn", "drain"}
         /\ mem.ready = "yes" /\ op[o].url = Committed
  BY LeaseOut DEF Drains, Booted, Running, Follows, RestartKeepsServer, LeaseKeepsServer

(* What the commit leaves in storage is the server that the command set.    *)
LEMMA Commitment ==
  ASSUME ChangesOK, StoreOK, NEW c \in Changes, chg[c].at = "save",
         disk' = Commits(c)
  PROVE  Committed' = Url(c)
  BY ServerAssumption DEF ChangesOK, Fits, Later, Commits, Commit, StoreOK, ConnectionOf, Committed,
     Url

(* A step that changes neither memory nor storage, of a command that has not *)
(* committed.                                                                *)
LEMMA SameStore ==
  ASSUME Follows, NEW c \in Changes, mem' = mem, disk' = disk,
         chg[c].at # "saved", \A d \in Changes \ {c} : chg'[d] = chg[d]
  PROVE  Follows'
  BY DEF Follows, RestartKeepsServer, Committed, ConnectionOf, Fresh

(* Every step keeps memory in step with storage. *)
LEMMA FollowsStep ==
  ASSUME StoreOK, ChangesOK, Booted, Retired, Follows, [Next]_vars PROVE Follows'
  <1>1. CASE InitUrl BY <1>1 DEF InitUrl, Follows, Fresh, RestartKeepsServer
  <1>2. CASE InitConnections
    BY <1>2 DEF InitConnections, Follows, Committed, ConnectionOf, RestartKeepsServer
  <1>3. ASSUME NEW o \in Ops, NEW k \in {"signin", "sync", "signout"}, Acquire(o, k)
        PROVE  Follows'
    BY <1>3 DEF Acquire, barrier, vars, Follows,
       RestartKeepsServer, Committed, ConnectionOf, Fresh
  <1>4. ASSUME NEW o \in Ops, SignedIn(o)
        PROVE  Follows'
    BY <1>4 DEF SignedIn, barrier, vars, Follows,
       RestartKeepsServer, Committed, ConnectionOf, Fresh
  <1>5. ASSUME NEW o \in Ops, Synced(o)
        PROVE  Follows'
    BY <1>5 DEF Synced, barrier, vars, Follows,
       RestartKeepsServer, Committed, ConnectionOf, Fresh
  <1>6. ASSUME NEW o \in Ops, SignedOut(o)
        PROVE  Follows'
    BY <1>6 DEF SignedOut, barrier, vars, Follows,
       RestartKeepsServer, Committed, ConnectionOf, Fresh
  <1>7. ASSUME NEW c \in Changes, TakeTurn(c)
        PROVE  Follows'
    BY <1>7, AtOnly, SameStore DEF TakeTurn
  <1>8. ASSUME NEW c \in Changes, Drained(c)
        PROVE  Follows'
    BY <1>8, AtOnly, SameStore DEF Drained, Only, barrier
  <1>9. ASSUME NEW c \in Changes, Begin(c)
        PROVE  Follows'
    BY <1>9, BeginMoves, SameStore DEF Begin, barrier
  <1>10. ASSUME NEW c \in Changes, Access(c)
        PROVE  Follows'
    BY <1>10, AccessMoves, SameStore DEF Access, barrier
  <1>11. ASSUME NEW c \in Changes, Fails(c)
        PROVE  Follows'
    BY <1>11, AtOnly, SameStore DEF Fails, Only, barrier
  <1>12. ASSUME NEW c \in Changes, RetireSession(c)
        PROVE  Follows'
    BY <1>12, AtOnly, SameStore DEF RetireSession, barrier
  <1>13. ASSUME NEW c \in Changes, ClearCache(c)
        PROVE  Follows'
    BY <1>13, AtOnly, SameStore DEF ClearCache, barrier
  <1>14. ASSUME NEW c \in Changes, SaveSharing(c)
        PROVE  Follows'
    BY <1>14, AtOnly, SameStore DEF SaveSharing, Only, barrier
  <1>15. ASSUME NEW c \in Changes, Store(c)
        PROVE  Follows'
    BY <1>15, AtOnly, SameStore DEF Store, Booted, Follows, RestartKeepsServer
  <1>16. ASSUME NEW c \in Changes, Stored(c)
        PROVE  Follows'
    BY <1>16 DEF Stored, Retired, Committed, ConnectionOf, Follows, RestartKeepsServer
  <1>17. ASSUME NEW c \in Changes, CleanUp(c)
        PROVE  Follows'
    BY <1>17, AtOnly, SameStore DEF CleanUp, barrier
  <1>18. ASSUME NEW c \in Changes, EndTurn(c)
        PROVE  Follows'
    BY <1>18, SameStore DEF EndTurn, barrier, ChangesOK
  <1>19. ASSUME NEW c \in Changes, NEW s \in Servers, SetServer(c, s)
        PROVE  Follows'
    BY <1>19, SameStore DEF SetServer, Mutate, barrier, Nothing, ChangesOK
  <1>20. ASSUME NEW c \in Changes, NEW k \in Connections, SaveConnection(c, k)
        PROVE  Follows'
    BY <1>20, SameStore DEF SaveConnection, Mutate, barrier, Nothing, ChangesOK
  <1>21. ASSUME NEW c \in Changes, NEW s \in Servers, ActivateConnection(c, s)
        PROVE  Follows'
    BY <1>21, SameStore DEF ActivateConnection, Mutate, barrier, Nothing, ChangesOK
  <1>22. CASE Expire
    BY <1>22 DEF Expire, barrier, vars, Follows,
       RestartKeepsServer, Committed, ConnectionOf, Fresh
  <1>23. CASE StatusRead
    BY <1>23 DEF StatusRead, barrier, vars, Follows,
       RestartKeepsServer, Committed, ConnectionOf, Fresh
  <1>24. CASE Restart BY <1>24 DEF Restart, Fresh, Follows, RestartKeepsServer
  <1>25. CASE UNCHANGED vars
    BY <1>25 DEF barrier, vars, Follows,
       RestartKeepsServer, Committed, ConnectionOf, Fresh
  <1> QED BY <1>1, <1>2, <1>3, <1>4, <1>5, <1>6, <1>7, <1>8, <1>9, <1>10, <1>11, <1>12, <1>13, <1>14, <1>15, <1>16, <1>17, <1>18, <1>19, <1>20, <1>21, <1>22, <1>23, <1>24, <1>25
         DEF Next, OpStep, ChangeStep, Request

(* A step that leaves the server alone and at most ends the session and     *)
(* empties the cache, of a command whose next place asks for nothing more.   *)
LEMMA StillRetired ==
  ASSUME Retired, NEW c \in Changes, mem' = mem, disk' = disk,
         session' \in {session, None}, cache' \in {cache, {}},
         \A d \in Changes \ {c} : chg'[d] = chg[d],
         chg'[c].at = "clear" => session' = None,
         chg'[c].at \in {"sharing", "save"} =>
           /\ chg'[c].cmd = chg[c].cmd /\ chg'[c].next = chg[c].next
           /\ Url(c) = mem.url \/ (session' = None /\ cache' = {}),
         chg'[c].at # "saved"
  PROVE  Retired'
  BY DEF Retired, Url, Committed, ConnectionOf

(* A step after which at most commands that wait are left. *)
LEMMA NoneRetires ==
  ASSUME \A d \in Changes :
           chg'[d].at \notin {"clear", "sharing", "save", "saved"}
  PROVE  Retired'
  BY DEF Retired

(* Every step keeps the retirement of another server's session and cache. *)
LEMMA RetiredStep ==
  ASSUME StoreOK, ChangesOK, InLine, Booted, Counted, Drains, Follows,
         LeaseKeepsServer, Retired, [Next]_vars PROVE Retired'
  <1>1. CASE InitUrl BY <1>1, NoneRetires DEF InitUrl, Booted
  <1>2. CASE InitConnections BY <1>2, NoneRetires DEF InitConnections, Booted
  <1>3. ASSUME NEW o \in Ops, NEW k \in {"signin", "sync", "signout"}, Acquire(o, k)
        PROVE  Retired'
    BY <1>3 DEF Acquire, barrier, vars, Retired, Committed, ConnectionOf,
       Url
  <1>4. ASSUME NEW o \in Ops, SignedIn(o)
        PROVE  Retired'
    BY <1>4, OpAlone, NoneRetires DEF SignedIn, Idle
  <1>5. ASSUME NEW o \in Ops, Synced(o)
        PROVE  Retired'
    BY <1>5, OpAlone, NoneRetires DEF Synced, Idle
  <1>6. ASSUME NEW o \in Ops, SignedOut(o)
        PROVE  Retired'
    BY <1>6, OpAlone, NoneRetires DEF SignedOut, Idle
  <1>7. ASSUME NEW c \in Changes, TakeTurn(c)
        PROVE  Retired'
    BY <1>7, AtOnly, StillRetired DEF TakeTurn
  <1>8. ASSUME NEW c \in Changes, Drained(c)
        PROVE  Retired'
    BY <1>8, AtOnly, StillRetired DEF Drained, Only, barrier
  <1>9. ASSUME NEW c \in Changes, Begin(c)
        PROVE  Retired'
    BY <1>9, BeginMoves, StillRetired DEF Begin, barrier
  <1>10. ASSUME NEW c \in Changes, Access(c)
        PROVE  Retired'
    BY <1>10, AccessMoves, StillRetired DEF Access, barrier, Retires
  <1>11. ASSUME NEW c \in Changes, Fails(c)
        PROVE  Retired'
    BY <1>11, AtOnly, StillRetired DEF Fails, Only, barrier
  <1>12. ASSUME NEW c \in Changes, RetireSession(c)
        PROVE  Retired'
    BY <1>12, AtOnly, StillRetired DEF RetireSession, barrier
  <1>13. ASSUME NEW c \in Changes, ClearCache(c)
        PROVE  Retired'
    BY <1>13, AtOnly, StillRetired DEF ClearCache, barrier, Retired
  <1>14. ASSUME NEW c \in Changes, SaveSharing(c)
        PROVE  Retired'
    BY <1>14, AtOnly, StillRetired DEF SaveSharing, Only, barrier, Retired
  <1>15. ASSUME NEW c \in Changes, Store(c)
        PROVE  Retired'
    BY <1>15, AtOnly, StillRetired, Commitment, OneTurn DEF Store, barrier, Url, Retired
  <1>16. ASSUME NEW c \in Changes, Stored(c)
        PROVE  Retired'
    BY <1>16, AtOnly, OneTurn, NoneRetires DEF Stored
  <1>17. ASSUME NEW c \in Changes, CleanUp(c)
        PROVE  Retired'
    BY <1>17, AtOnly, StillRetired DEF CleanUp, barrier
  <1>18. ASSUME NEW c \in Changes, EndTurn(c)
        PROVE  Retired'
    BY <1>18, StillRetired DEF EndTurn, barrier, Nothing, ChangesOK
  <1>19. ASSUME NEW c \in Changes, NEW s \in Servers, SetServer(c, s)
        PROVE  Retired'
    BY <1>19, StillRetired DEF SetServer, Mutate, barrier, Nothing, ChangesOK
  <1>20. ASSUME NEW c \in Changes, NEW k \in Connections, SaveConnection(c, k)
        PROVE  Retired'
    BY <1>20, StillRetired DEF SaveConnection, Mutate, barrier, Nothing, ChangesOK
  <1>21. ASSUME NEW c \in Changes, NEW s \in Servers, ActivateConnection(c, s)
        PROVE  Retired'
    BY <1>21, StillRetired DEF ActivateConnection, Mutate, barrier, Nothing, ChangesOK
  <1>22. CASE Expire
    BY <1>22 DEF Expire, barrier, vars, Retired, Committed, ConnectionOf,
       Url
  <1>23. CASE StatusRead
    BY <1>23 DEF StatusRead, barrier, vars, Retired, Committed, ConnectionOf,
       Url
  <1>24. CASE Restart BY <1>24, NoneRetires DEF Restart, Nothing
  <1>25. CASE UNCHANGED vars
    BY <1>25 DEF barrier, vars, Retired, Committed, ConnectionOf,
       Url
  <1> QED BY <1>1, <1>2, <1>3, <1>4, <1>5, <1>6, <1>7, <1>8, <1>9, <1>10, <1>11, <1>12, <1>13, <1>14, <1>15, <1>16, <1>17, <1>18, <1>19, <1>20, <1>21, <1>22, <1>23, <1>24, <1>25
         DEF Next, OpStep, ChangeStep, Request

(* The session and the cache follow what a start would use. *)
Belongs == SessionIsCommitted /\ CacheIsCommitted

LEMMA SameServer ==
  ASSUME Belongs, disk' = disk, session' \in {session, None, Committed},
         cache' \subseteq cache \cup {Committed}
  PROVE  Belongs'
  BY DEF Committed, ConnectionOf, Belongs, SessionIsCommitted, CacheIsCommitted

(* Every step keeps the session and the cache with their server. *)
LEMMA BelongsStep ==
  ASSUME StoreOK, ChangesOK, InLine, Booted, Counted, Drains, Follows,
         LeaseKeepsServer, Retired, Belongs, [Next]_vars PROVE Belongs'
  <1>1. CASE InitUrl BY <1>1, SameServer DEF InitUrl, barrier, vars
  <1>2. CASE InitConnections
    BY <1>2, SameServer DEF InitConnections, barrier, vars
  <1>3. ASSUME NEW o \in Ops, NEW k \in {"signin", "sync", "signout"}, Acquire(o, k)
        PROVE  Belongs'
    BY <1>3, SameServer DEF Acquire, barrier, vars
  <1>4. ASSUME NEW o \in Ops, SignedIn(o)
        PROVE  Belongs'
    BY <1>4, OpAlone, SameServer DEF SignedIn, Idle
  <1>5. ASSUME NEW o \in Ops, Synced(o)
        PROVE  Belongs'
    BY <1>5, OpAlone, SameServer DEF Synced, Idle
  <1>6. ASSUME NEW o \in Ops, SignedOut(o)
        PROVE  Belongs'
    BY <1>6, SameServer DEF SignedOut, barrier, vars
  <1>7. ASSUME NEW c \in Changes, TakeTurn(c)
        PROVE  Belongs'
    BY <1>7, SameServer DEF TakeTurn, barrier, vars
  <1>8. ASSUME NEW c \in Changes, Drained(c)
        PROVE  Belongs'
    BY <1>8, SameServer DEF Drained, Only, barrier, vars
  <1>9. ASSUME NEW c \in Changes, Begin(c)
        PROVE  Belongs'
    BY <1>9, SameServer DEF Begin, barrier, vars
  <1>10. ASSUME NEW c \in Changes, Access(c)
        PROVE  Belongs'
    BY <1>10, SameServer DEF Access, barrier, vars
  <1>11. ASSUME NEW c \in Changes, Fails(c)
        PROVE  Belongs'
    BY <1>11, SameServer DEF Fails, Only, barrier, vars
  <1>12. ASSUME NEW c \in Changes, RetireSession(c)
        PROVE  Belongs'
    BY <1>12, SameServer DEF RetireSession, barrier, vars
  <1>13. ASSUME NEW c \in Changes, ClearCache(c)
        PROVE  Belongs'
    BY <1>13, SameServer DEF ClearCache, barrier, vars
  <1>14. ASSUME NEW c \in Changes, SaveSharing(c)
        PROVE  Belongs'
    BY <1>14, SameServer DEF SaveSharing, Only, barrier, vars
  <1>15. ASSUME NEW c \in Changes, Store(c)
        PROVE  Belongs'
    BY <1>15, SameServer, Commitment, OneTurn DEF Store, Belongs, SessionIsCommitted,
       CacheIsCommitted, Booted, Follows, RestartKeepsServer, Retired
  <1>16. ASSUME NEW c \in Changes, Stored(c)
        PROVE  Belongs'
    BY <1>16, SameServer DEF Stored, barrier, vars
  <1>17. ASSUME NEW c \in Changes, CleanUp(c)
        PROVE  Belongs'
    BY <1>17, SameServer DEF CleanUp, barrier, vars
  <1>18. ASSUME NEW c \in Changes, EndTurn(c)
        PROVE  Belongs'
    BY <1>18, SameServer DEF EndTurn, barrier, vars
  <1>19. ASSUME NEW c \in Changes, NEW s \in Servers, SetServer(c, s)
        PROVE  Belongs'
    BY <1>19, SameServer DEF SetServer, Mutate, barrier, vars
  <1>20. ASSUME NEW c \in Changes, NEW k \in Connections, SaveConnection(c, k)
        PROVE  Belongs'
    BY <1>20, SameServer DEF SaveConnection, Mutate, barrier, vars
  <1>21. ASSUME NEW c \in Changes, NEW s \in Servers, ActivateConnection(c, s)
        PROVE  Belongs'
    BY <1>21, SameServer DEF ActivateConnection, Mutate, barrier, vars
  <1>22. CASE Expire BY <1>22, SameServer DEF Expire, barrier, vars
  <1>23. CASE StatusRead BY <1>23, SameServer DEF StatusRead, barrier, vars
  <1>24. CASE Restart BY <1>24, SameServer DEF Restart, barrier, vars
  <1>25. CASE UNCHANGED vars BY <1>25, SameServer DEF barrier, vars
  <1> QED BY <1>1, <1>2, <1>3, <1>4, <1>5, <1>6, <1>7, <1>8, <1>9, <1>10, <1>11, <1>12, <1>13, <1>14, <1>15, <1>16, <1>17, <1>18, <1>19, <1>20, <1>21, <1>22, <1>23, <1>24, <1>25
         DEF Next, OpStep, ChangeStep, Request

-----------------------------------------------------------------------------
(* The inductive invariant. *)
Inductive ==
    /\ TypeOK /\ InLine /\ Counted /\ Booted /\ Drains /\ LeaseKeepsServer
    /\ Follows /\ Retired /\ Belongs

LEMMA InitInductive == Init => Inductive
  <1> SUFFICES ASSUME Init PROVE Inductive OBVIOUS
  <1> USE ServerAssumption
  <1>1. \A c \in Changes : chg[c] = Nothing /\ chg[c].at = "idle"
    BY DEF Init, Nothing
  <1>2. \A o \in Ops : op[o] = Idle BY DEF Init
  <1>3. BarrierOK
    <2>1. <<>> \in Seq(Changes) OBVIOUS
    <2> QED BY <2>1 DEF Init, BarrierOK
  <1>4. Idle \in [kind : {"none", "signin", "sync", "signout"},
                  url : Servers \cup {None}]
    BY DEF Idle
  <1>5. OpsOK BY <1>4 DEF Init, OpsOK
  <1>6. Fits(Nothing) BY DEF Fits, Nothing, Commands, Early, Later
  <1>7. ChangesOK BY <1>1, <1>6 DEF Init, ChangesOK, Fits
  <1>8. /\ disk \in [url : Servers \cup {None}, conns : SUBSET Connections,
                     act : Servers \cup {None}]
        /\ perms \subseteq Servers
    BY DEF Init
  <1>9. StoreOK BY <1>8 DEF Init, StoreOK, Fresh
  <1>10. TypeOK BY <1>3, <1>5, <1>7, <1>8, <1>9 DEF TypeOK, Init, RestOK
  <1>11. turns = <<>> /\ Len(turns) = 0 BY DEF Init
  <1>12. InLine BY <1>1, <1>11 DEF Init, InLine, Waits
  <1>13. Running = {} BY <1>2 DEF Running
  <1>14. Counted BY <1>13, FS_EmptySet DEF Init, Counted
  <1>15. Booted /\ Drains /\ LeaseKeepsServer
    BY <1>1, <1>2, <1>13 DEF Booted, Drains, LeaseKeepsServer
  <1>16. Follows BY DEF Init, Fresh, Follows, RestartKeepsServer
  <1>17. Retired BY <1>1 DEF Retired
  <1>18. Belongs BY DEF Init, Belongs, SessionIsCommitted, CacheIsCommitted
  <1> QED BY <1>10, <1>12, <1>14, <1>15, <1>16, <1>17, <1>18 DEF Inductive

LEMMA NextInductive == Inductive /\ [Next]_vars => Inductive'
  <1> SUFFICES ASSUME Inductive, [Next]_vars PROVE Inductive' OBVIOUS
  <1> USE DEF Inductive
  <1>1. BarrierOK /\ OpsOK /\ ChangesOK /\ StoreOK /\ RestOK BY DEF TypeOK
  <1>2. TypeOK' BY <1>1, CommandsFit, TypesStep DEF TypeOK
  <1>3. InLine' BY <1>1, QueuedStep
  <1>4. Counted' BY <1>1, CountedStep
  <1>5. Booted' BY <1>1, BootedStep
  <1>6. Drains' BY <1>1, DrainsStep
  <1>7. LeaseKeepsServer' BY <1>1, LeaseStep
  <1>8. Follows' BY <1>1, FollowsStep
  <1>9. Retired' BY <1>1, RetiredStep
  <1>10. Belongs' BY <1>1, BelongsStep
  <1> QED BY <1>2, <1>3, <1>4, <1>5, <1>6, <1>7, <1>8, <1>9, <1>10

LEMMA AlwaysInductive == Spec => []Inductive
  BY InitInductive, NextInductive, PTL DEF Spec

(* Every variable keeps its type, and every command holds what its next step *)
(* takes for granted (the commands of server-commands and connection-        *)
(* commands).                                                                *)
THEOREM ServerTypeCorrect == Spec => []TypeOK
  <1>1. Inductive => TypeOK BY DEF Inductive
  <1> QED BY <1>1, AlwaysInductive, PTL

(* The server never changes under an operation that holds a lease of the     *)
(* ServerOperationBarrier, however many operations and commands there are.   *)
THEOREM LeaseSafe == Spec => []LeaseKeepsServer
  <1>1. Inductive => LeaseKeepsServer BY DEF Inductive
  <1> QED BY <1>1, AlwaysInductive, PTL

(* At every point where the worker may be restarted, memory agrees with what *)
(* initialize() would read.                                                  *)
THEOREM RestartSafe == Spec => []RestartKeepsServer
  <1>1. Inductive => RestartKeepsServer BY DEF Inductive, Follows
  <1> QED BY <1>1, AlwaysInductive, PTL

(* The stored session belongs to the server that a start would use, through  *)
(* every change of server and every restart in the middle of one.            *)
THEOREM SessionSafe == Spec => []SessionIsCommitted
  <1>1. Inductive => SessionIsCommitted BY DEF Inductive, Belongs
  <1> QED BY <1>1, AlwaysInductive, PTL

(* So do the cached vaults: no server is ever started with the vault data of *)
(* another.                                                                  *)
THEOREM CacheSafe == Spec => []CacheIsCommitted
  <1>1. Inductive => CacheIsCommitted BY DEF Inductive, Belongs
  <1> QED BY <1>1, AlwaysInductive, PTL

(* Together: a change of server is invisible to the operations in flight,    *)
(* and whatever it is interrupted by, no session and no cached vault of one  *)
(* server is left to another (ServerOperationBarrier, server-commands,       *)
(* ServerConfigStore).                                                       *)
THEOREM ServerSafe == Spec => []ServerIsSafe
  <1>1. Inductive => ServerIsSafe
    BY DEF Inductive, ServerIsSafe, Follows, Belongs
  <1> QED BY <1>1, AlwaysInductive, PTL

-----------------------------------------------------------------------------
(* The hints of the server. *)

(* Ranks and maxima. *)

(* A hint's rank is a number that no unset mark reaches. *)
LEMMA RankType ==
    ASSUME NEW h \in Hints PROVE Rank(h) \in Nat /\ Rank(h) > 0
BY HintsAssumption DEF Hints, Rank, Dominating

(* A hint that ranks at least as high says at least as much. *)
LEMMA RankCovers ==
    ASSUME NEW x \in Hints, NEW h \in Hints, Rank(h) <= Rank(x)
    PROVE  Covers(x, h)
BY HintsAssumption DEF Hints, Rank, Dominating, Covers

(* Saying at least as much is transitive. *)
LEMMA CoversTransitive ==
    ASSUME NEW x \in Hints, NEW y \in Hints, NEW z \in Hints,
           Covers(x, y), Covers(y, z)
    PROVE  Covers(x, z)
BY HintsAssumption DEF Hints, Covers

(* The greatest of three numbers is one of them, and no less than any. *)
LEMMA MaxOfThree ==
    ASSUME NEW a \in Int, NEW b \in Int, NEW c \in Int
    PROVE  /\ Max({a, b, c}) \in {a, b, c}
           /\ Max({a, b, c}) >= a /\ Max({a, b, c}) >= b /\ Max({a, b, c}) >= c
BY DEF Max

(* The greater of two numbers is one of them. *)
LEMMA MaxOfTwo ==
    ASSUME NEW a \in Int, NEW b \in Int PROVE Max({a, b}) \in {a, b}
BY DEF Max

-----------------------------------------------------------------------------
(* The coordinator's invariant: what its marks stand for. *)

DrainsAreOld == \A v \in Vaults : \A d \in drains[v] : d.gen <= generation
WorkWasHeard ==
    \A v \in Vaults : /\ AtWork(v) \cup ended[v] \subseteq heard[v]
                      /\ pending[v] # Nil => pending[v] \in heard[v]
AppliedHasEnded ==
    \A v \in Vaults : applied[v] # -1 =>
        \E x \in ended[v] : applied[v] = Rank(x)
InFlightIsAtWork ==
    \A v \in Vaults : inFlight[v] # -1 =>
        \E x \in AtWork(v) : inFlight[v] = Rank(x)
CoordInv ==
    /\ DrainsAreOld /\ WorkWasHeard /\ AppliedHasEnded /\ InFlightIsAtWork
    /\ OneAtATime /\ HintsAreKept

(* The connection's invariant: nothing is of a later session, and a hub that *)
(* no session wants has its stop on the chain.                               *)
GensArePast ==
    /\ hub.gen <= hgen
    /\ retry # Nil => retry <= hgen
    /\ \A i \in DOMAIN chain : chain[i].gen <= hgen
UnwantedIsStopped ==
    hub.at \in {"up", "reconnecting"} /\ ~Wanted(hub.gen) =>
        \E i \in DOMAIN chain : chain[i].op = "disconnect"
HubInv == GensArePast /\ UnwantedIsStopped /\ ConnectedIsTrue

IInv == HintsTypeOK /\ CoordInv /\ HubInv

coord == <<pending, inFlight, applied, running, generation, drains, heard,
           ended>>
link == <<desired, hgen, hub, chain, conn>>

-----------------------------------------------------------------------------
(* Types. *)

(* The coordinator's half of the type invariant. *)
CoordType ==
    /\ pending \in [Vaults -> Hints \cup {Nil}]
    /\ inFlight \in [Vaults -> Int] /\ applied \in [Vaults -> Int]
    /\ running \in [Vaults -> BOOLEAN]
    /\ drains \in [Vaults -> SUBSET [gen : Nat, hint : Hints]]
    /\ heard \in [Vaults -> SUBSET Hints] /\ ended \in [Vaults -> SUBSET Hints]
    /\ generation \in Nat
(* The connection's and the network's half. *)
HubType ==
    /\ hgen \in Nat /\ desired \in BOOLEAN
    /\ hub \in [at : {"none", "starting", "up", "reconnecting", "stopping"},
                gen : Nat]
    /\ chain \in Seq([op : {"connect", "disconnect"}, gen : Nat])
    /\ retry \in Nat \cup {Nil} /\ conn \in BOOLEAN /\ repair \in BOOLEAN
    /\ Waiting => chain # <<>>
    /\ version \in [Vaults -> 0..MaxVer] /\ wire \subseteq Vaults \X Hints
    /\ losses \in Nat /\ missed \subseteq Vaults

LEMMA Halves == HintsTypeOK <=> CoordType /\ HubType
  BY DEF HintsTypeOK, CoordType, HubType

(* A hint that is let through is well typed. *)
LEMMA AcceptType ==
    ASSUME HintsTypeOK, NEW v \in Vaults, NEW h \in Hints, Accept(v, h)
    PROVE  /\ pending' \in [Vaults -> Hints \cup {Nil}]
           /\ inFlight' \in [Vaults -> Int] /\ applied' = applied
           /\ running' \in [Vaults -> BOOLEAN] /\ generation' = generation
           /\ drains' \in [Vaults -> SUBSET [gen : Nat, hint : Hints]]
           /\ heard' \in [Vaults -> SUBSET Hints]
<1>1. Rank(h) \in Int /\ Drain(h) \in [gen : Nat, hint : Hints]
  BY RankType DEF Drain, HintsTypeOK
<1>2. heard' = [heard EXCEPT ![v] = @ \cup {h}]
      /\ applied' = applied /\ generation' = generation
  BY DEF Accept
<1>3. CASE UNCHANGED <<pending, inFlight, running, drains>>
  BY <1>2, <1>3 DEF HintsTypeOK
<1>4. CASE Keep(v, h) BY <1>2, <1>4 DEF HintsTypeOK, Keep
<1>5. CASE /\ running' = [running EXCEPT ![v] = TRUE]
           /\ drains' = [drains EXCEPT ![v] = @ \cup {Drain(h)}]
           /\ inFlight' = [inFlight EXCEPT ![v] = Rank(h)]
           /\ UNCHANGED pending
  BY <1>1, <1>2, <1>5 DEF HintsTypeOK
<1> QED BY <1>3, <1>4, <1>5 DEF Accept

(* The end of an application leaves the coordinator well typed. *)
LEMMA SettledType ==
    ASSUME HintsTypeOK, NEW v \in Vaults, NEW d \in drains[v],
           NEW ok \in BOOLEAN, Settled(v, d, ok)
    PROVE  HintsTypeOK'
<1>1. d \in [gen : Nat, hint : Hints] /\ d.hint \in Hints BY DEF HintsTypeOK
<1>2. Rank(d.hint) \in Int BY <1>1, RankType
<1>3. applied' \in [Vaults -> Int]
  <2>1. Max({applied[v], Rank(d.hint)}) \in Int
    BY <1>2, MaxOfTwo DEF HintsTypeOK
  <2> QED BY <2>1 DEF HintsTypeOK, Settled
<1>4. ended' \in [Vaults -> SUBSET Hints] BY <1>1 DEF HintsTypeOK, Settled
<1>5. TakeNext(v, d) BY DEF Settled
<1>6. /\ pending' \in [Vaults -> Hints \cup {Nil}]
      /\ inFlight' \in [Vaults -> Int] /\ running' \in [Vaults -> BOOLEAN]
      /\ drains' \in [Vaults -> SUBSET [gen : Nat, hint : Hints]]
  <2>0. CoordType BY Halves
  <2>1. CASE pending[v] = Nil
    <3>1. /\ pending' = pending
          /\ inFlight' = [inFlight EXCEPT ![v] = -1]
          /\ running' = [running EXCEPT ![v] = FALSE]
          /\ drains' = [drains EXCEPT ![v] = @ \ {d}]
      BY <1>5, <2>1 DEF TakeNext, GoesOn, Ends
    <3>2. drains' \in [Vaults -> SUBSET [gen : Nat, hint : Hints]]
      BY <2>0, <3>1 DEF CoordType
    <3> QED BY <2>0, <3>1, <3>2 DEF CoordType
  <2>2. CASE pending[v] # Nil
    <3>1. pending[v] \in Hints BY <2>2 DEF HintsTypeOK
    <3>2. /\ Rank(pending[v]) \in Int
          /\ Drain(pending[v]) \in [gen : Nat, hint : Hints]
      BY <3>1, RankType DEF Drain, HintsTypeOK
    <3>3. /\ pending' = [pending EXCEPT ![v] = Nil]
          /\ inFlight' = [inFlight EXCEPT ![v] = Rank(pending[v])]
          /\ running' = running
          /\ drains' = [drains EXCEPT ![v] = (@ \ {d}) \cup {Drain(pending[v])}]
      BY <1>5, <2>2 DEF TakeNext, GoesOn
    <3> QED BY <2>0, <3>2, <3>3 DEF CoordType
  <2> QED BY <2>1, <2>2
<1>7. UNCHANGED <<generation, connection, network, repair, heard, missed>>
  BY DEF Settled
<1> QED BY <1>3, <1>4, <1>6, <1>7
        DEF HintsTypeOK, connection, network, Waiting

(* A lock leaves the coordinator empty and well typed. *)
LEMMA ClearType ==
    ASSUME HintsTypeOK, Clear
    PROVE  /\ pending' \in [Vaults -> Hints \cup {Nil}]
           /\ inFlight' \in [Vaults -> Int] /\ applied' \in [Vaults -> Int]
           /\ running' \in [Vaults -> BOOLEAN] /\ generation' \in Nat
           /\ drains' \in [Vaults -> SUBSET [gen : Nat, hint : Hints]]
           /\ heard' \in [Vaults -> SUBSET Hints]
           /\ ended' \in [Vaults -> SUBSET Hints]
  BY DEF HintsTypeOK, Clear, Forgets, KeepsDrains

(* A chain grows at its end, and shrinks at its head. *)
LEMMA ChainType ==
    ASSUME HintsTypeOK
    PROVE  /\ \A e \in [op : {"connect", "disconnect"}, gen : Nat] :
                /\ Append(chain, e)
                     \in Seq([op : {"connect", "disconnect"}, gen : Nat])
                /\ Append(chain, e) # <<>>
           /\ chain # <<>> =>
                /\ Tail(chain)
                     \in Seq([op : {"connect", "disconnect"}, gen : Nat])
                /\ chain[1] \in [op : {"connect", "disconnect"}, gen : Nat]
<1> DEFINE E == [op : {"connect", "disconnect"}, gen : Nat]
<1>1. chain \in Seq(E) BY DEF HintsTypeOK
<1> HIDE DEF E
<1>2. ASSUME NEW e \in E
      PROVE  Append(chain, e) \in Seq(E) /\ Append(chain, e) # <<>>
  <2>1. Append(chain, e) \in Seq(E) /\ Len(Append(chain, e)) = Len(chain) + 1
    BY <1>1
  <2>2. Len(Append(chain, e)) # 0 BY <1>1, <2>1
  <2>3. Len(<<>>) = 0 OBVIOUS
  <2>4. Append(chain, e) # <<>> BY <2>2, <2>3, Zenon
  <2> QED BY <2>1, <2>4
<1>3. chain # <<>> => Tail(chain) \in Seq(E) /\ chain[1] \in E BY <1>1
<1> QED BY <1>2, <1>3 DEF E

(* A step of the connection keeps its half. *)
LEMMA HubTypeStep ==
    ASSUME HintsTypeOK,
           \/ HubUnlock \/ Connection \/ Reconnecting \/ Reconnected \/ Repair
    PROVE  HubType'
<1> USE DEF HubType, Waiting
<1>0. HubType BY Halves
<1>1. CASE HubUnlock BY <1>0, <1>1, ChainType DEF HubUnlock, network, history
<1>2. CASE Connect
  <2>1. /\ chain' \in Seq([op : {"connect", "disconnect"}, gen : Nat])
        /\ hub'.at \in {"starting", "stopping"} => chain' # <<>>
    BY <1>0, <1>2, ChainType DEF Connect, Awaited, InTurn
  <2>2. hub' \in [at : {"none", "starting", "up", "reconnecting", "stopping"},
                  gen : Nat]
    BY <1>2, ChainType, <1>0 DEF Connect
  <2> QED BY <1>0, <1>2, <2>1, <2>2 DEF Connect, network, history
<1>3. CASE HubStarted
  BY <1>0, <1>3, ChainType DEF HubStarted, network, history
<1>4. CASE StartFails
  <2>1. chain # <<>> BY <1>0, <1>4 DEF StartFails
  <2>2. retry' \in Nat \cup {Nil}
    BY <1>0, <1>4 DEF StartFails, Schedule, Schedules
  <2>3. losses' \in Nat /\ missed' \subseteq Vaults
    BY <1>0, <1>4 DEF StartFails, history
  <2>4. hub' = Down /\ Down \in
          [at : {"none", "starting", "up", "reconnecting", "stopping"},
           gen : Nat]
    BY <1>4 DEF StartFails, Down
  <2>5. ~Waiting' BY <2>4 DEF Down
  <2>6. chain' \in Seq([op : {"connect", "disconnect"}, gen : Nat])
    BY <1>4, <2>1, ChainType DEF StartFails
  <2>7. conn' = FALSE /\ UNCHANGED <<desired, hgen, version, wire, repair>>
    BY <1>4 DEF StartFails
  <2> QED BY <1>0, <2>2, <2>3, <2>4, <2>5, <2>6, <2>7
<1>5. CASE RetryFires
  BY <1>0, <1>5, ChainType DEF RetryFires, network, history
<1>6. CASE Disconnect
  BY <1>0, <1>6, ChainType DEF Disconnect, network, history
<1>7. CASE Stopped BY <1>0, <1>7, ChainType DEF Stopped, Down, history
<1>8. CASE Closed
  BY <1>0, <1>8 DEF Closed, Schedule, Schedules, Down, network, history
<1>9. CASE Reconnecting
  <2>1. losses' \in Nat /\ missed' \subseteq Vaults
    BY <1>0, <1>9 DEF Reconnecting, history
  <2>2. hub' \in [at : {"none", "starting", "up", "reconnecting", "stopping"},
                  gen : Nat]
    BY <1>0, <1>9 DEF Reconnecting
  <2>3. ~Waiting' BY <1>0, <1>9 DEF Reconnecting
  <2>4. conn' = FALSE /\ wire' = {}
        /\ UNCHANGED <<desired, hgen, chain, retry, version, repair>>
    BY <1>9 DEF Reconnecting
  <2> QED BY <1>0, <2>1, <2>2, <2>3, <2>4
<1>10. CASE Reconnected BY <1>0, <1>10 DEF Reconnected, network, history
<1>11. CASE Repair BY <1>0, <1>11 DEF Repair, connection, network
<1> QED BY <1>1, <1>2, <1>3, <1>4, <1>5, <1>6, <1>7, <1>8, <1>9, <1>10, <1>11
        DEF Connection

(* Every step keeps the types. *)
LEMMA TypeStep == HintsTypeOK /\ [HintsNext]_hintVars => HintsTypeOK'
<1> SUFFICES ASSUME HintsTypeOK, [HintsNext]_hintVars PROVE HintsTypeOK'
  OBVIOUS
<1>0. CoordType /\ HubType BY Halves
<1>1. CASE \/ HubUnlock \/ Connection \/ Reconnecting \/ Reconnected \/ Repair
  <2>1. UNCHANGED coord
    BY <1>1 DEF HubUnlock, Connection, Connect, HubStarted, StartFails, RetryFires,
                Disconnect, Stopped, Closed, Reconnecting, Reconnected,
                Repair, coordinator, history, coord
  <2>2. CoordType' BY <1>0, <2>1 DEF CoordType, coord
  <2> QED BY <1>1, <2>2, HubTypeStep, Halves DEF HintsTypeOK, CoordType, HubType
<1>2. CASE HubLock
  <2>1. [op |-> "disconnect", gen |-> hgen + 1]
          \in [op : {"connect", "disconnect"}, gen : Nat]
    BY <1>0 DEF HubType
  <2>2. /\ chain' \in Seq([op : {"connect", "disconnect"}, gen : Nat])
        /\ chain' # <<>>
    BY <1>2, <2>1, ChainType DEF HubLock
  <2>3. HubType'
    <3>1. hgen' \in Nat /\ retry' = Nil BY <1>0, <1>2 DEF HubType, HubLock
    <3>2. conn' = FALSE /\ missed' = {} /\ repair' = FALSE /\ desired' = FALSE
          /\ UNCHANGED <<hub, version, wire, losses>>
      BY <1>2 DEF HubLock, network
    <3> QED BY <1>0, <2>2, <3>1, <3>2 DEF HubType, Waiting
  <2>4. CoordType' BY <1>2, ClearType DEF CoordType, HubLock
  <2> QED BY <2>3, <2>4 DEF HintsTypeOK, CoordType, HubType
<1>3. ASSUME NEW v \in Vaults, Mutates(v) PROVE HintsTypeOK'
  <2>1. CoordType' BY <1>0, <1>3 DEF CoordType, Mutates, coordinator
  <2>2. version[v] + 1 \in 1..MaxVer
    BY <1>0, <1>3, HintsAssumption DEF HubType, Mutates
  <2>3. version' \in [Vaults -> 0..MaxVer]
    BY <1>0, <1>3, <2>2, HintsAssumption DEF HubType, Mutates
  <2>4. wire' \subseteq Vaults \X Hints
    <3>1. PICK removals \in (SUBSET BOOLEAN) \ {{}} :
            LET sent == {<<v, [ver |-> version[v] + 1, removed |-> r]>> :
                           r \in removals} IN
            wire' = IF hub.at = "up" THEN wire \cup sent ELSE wire
      BY <1>3 DEF Mutates
    <3>2. \A r \in removals : <<v, [ver |-> version[v] + 1, removed |-> r]>>
                                \in Vaults \X Hints
      BY <2>2 DEF Hints
    <3> QED BY <1>0, <3>1, <3>2 DEF HubType
  <2>5. missed' \subseteq Vaults BY <1>0, <1>3 DEF HubType, Mutates
  <2>6. HubType'
    BY <1>0, <1>3, <2>3, <2>4, <2>5 DEF HubType, Mutates, connection, Waiting
  <2> QED BY <2>1, <2>6 DEF HintsTypeOK, CoordType, HubType
<1>4. ASSUME NEW m \in wire, Deliver(m) PROVE HintsTypeOK'
  BY <1>0, <1>4, AcceptType DEF HubType, CoordType, Deliver, connection, network, Waiting,
     HintsTypeOK
<1>5. ASSUME NEW v \in Vaults, Applying(v) PROVE HintsTypeOK'
  BY <1>5, SettledType DEF Applying
<1>6. CASE UNCHANGED hintVars
  BY <1>6 DEF HintsTypeOK, Waiting, hintVars, coordinator, connection, network, history
<1> QED BY <1>1, <1>2, <1>3, <1>4, <1>5, <1>6 DEF HintsNext

-----------------------------------------------------------------------------
(* The coordinator. *)

(* The parts of its invariant, for one vault. *)
KeptFor(v) ==
    \A h \in heard[v] :
        \/ pending[v] # Nil /\ Covers(pending[v], h)
        \/ \E x \in AtWork(v) \cup ended[v] : Covers(x, h)
OneFor(v) == IF running[v] THEN \E d \in drains[v] : drains[v] = {d}
                           ELSE drains[v] = {}
CoordFor(v) ==
    /\ \A d \in drains[v] : d.gen <= generation
    /\ AtWork(v) \cup ended[v] \subseteq heard[v]
    /\ pending[v] # Nil => pending[v] \in heard[v]
    /\ applied[v] # -1 => \E x \in ended[v] : applied[v] = Rank(x)
    /\ inFlight[v] # -1 => \E x \in AtWork(v) : inFlight[v] = Rank(x)
    /\ OneFor(v)
    /\ KeptFor(v)

LEMMA CoordByVault == CoordInv <=> \A v \in Vaults : CoordFor(v)
  BY DEF CoordInv, DrainsAreOld, WorkWasHeard, AppliedHasEnded,
         InFlightIsAtWork, OneAtATime, HintsAreKept, CoordFor, OneFor, KeptFor
LEMMA CoordNext == CoordInv' <=> \A v \in Vaults : CoordFor(v)'
  BY DEF CoordInv, DrainsAreOld, WorkWasHeard, AppliedHasEnded,
         InFlightIsAtWork, OneAtATime, HintsAreKept, CoordFor, OneFor, KeptFor

(* A vault that a step leaves alone keeps its invariant. *)
LEMMA CoordSame ==
    ASSUME NEW v \in Vaults, CoordFor(v), generation' = generation,
           pending'[v] = pending[v], inFlight'[v] = inFlight[v],
           applied'[v] = applied[v], running'[v] = running[v],
           drains'[v] = drains[v], heard'[v] = heard[v], ended'[v] = ended[v]
    PROVE  CoordFor(v)'
  BY DEF CoordFor, OneFor, KeptFor, AtWork

(* A hint that ranks no higher than what was seen is covered by it. *)
LEMMA SeenCovers ==
    ASSUME HintsTypeOK, NEW v \in Vaults, CoordFor(v), NEW h \in Hints,
           Rank(h) <= HighestSeen(v)
    PROVE  \/ pending[v] # Nil /\ Covers(pending[v], h)
           \/ \E x \in AtWork(v) \cup ended[v] : Covers(x, h)
<1>0. CoordType BY Halves
<1>1. /\ Rank(h) \in Nat /\ Rank(h) > 0
      /\ applied[v] \in Int /\ inFlight[v] \in Int
      /\ heard[v] \subseteq Hints
  BY <1>0, RankType DEF CoordType
<1>2. Queued(v) \in Int BY <1>0, RankType DEF Queued, CoordType
<1>3. HighestSeen(v) \in {applied[v], inFlight[v], Queued(v)}
  BY <1>1, <1>2, MaxOfThree DEF HighestSeen
<1>4. CASE HighestSeen(v) = applied[v]
  <2>1. PICK x \in ended[v] : applied[v] = Rank(x) BY <1>1, <1>4 DEF CoordFor
  <2>2. x \in Hints BY <1>1, <2>1 DEF CoordFor
  <2> QED BY <1>1, <1>4, <2>1, <2>2, RankCovers
<1>5. CASE HighestSeen(v) = inFlight[v]
  <2>1. PICK x \in AtWork(v) : inFlight[v] = Rank(x)
    BY <1>1, <1>5 DEF CoordFor
  <2>2. x \in Hints BY <1>1, <2>1 DEF CoordFor
  <2> QED BY <1>1, <1>5, <2>1, <2>2, RankCovers
<1>6. CASE HighestSeen(v) = Queued(v)
  BY <1>1, <1>6, <1>0, RankCovers DEF Queued, CoordType
<1> QED BY <1>3, <1>4, <1>5, <1>6

(* Whatever the coordinator does with a hint, the vault's hints are kept. *)
LEMMA AcceptKeeps ==
    ASSUME HintsTypeOK, CoordInv, NEW v \in Vaults, NEW h \in Hints, Accept(v, h),
           UNCHANGED ended
    PROVE  CoordInv'
<1>0. CoordType /\ \A w \in Vaults : CoordFor(w) BY Halves, CoordByVault
<1>1. /\ heard' = [heard EXCEPT ![v] = @ \cup {h}]
      /\ applied' = applied /\ generation' = generation /\ ended' = ended
  BY DEF Accept
<1>2. heard'[v] = heard[v] \cup {h} /\ \A w \in Vaults \ {v} : heard'[w] = heard[w]
  BY <1>0, <1>1 DEF CoordType
<1>3. CASE Rank(h) <= HighestSeen(v)
  <2>1. UNCHANGED <<pending, inFlight, running, drains>> BY <1>3 DEF Accept
  <2>2. CoordFor(v)'
    BY <1>0, <1>1, <1>2, <1>3, <2>1, SeenCovers
       DEF CoordFor, OneFor, KeptFor, AtWork
  <2>3. \A w \in Vaults \ {v} : CoordFor(w)'
    BY <1>0, <1>1, <1>2, <2>1, CoordSame
  <2> QED BY <2>2, <2>3, CoordNext
<1>4. CASE ~(Rank(h) <= HighestSeen(v)) /\ running[v]
  <2>1. /\ pending' = [pending EXCEPT ![v] = h]
        /\ UNCHANGED <<inFlight, running, drains>>
    BY <1>4 DEF Accept, Keep
  <2>2. pending'[v] = h /\ \A w \in Vaults \ {v} : pending'[w] = pending[w]
    BY <1>0, <2>1 DEF CoordType
  <2>3. h # Nil BY HintsAssumption DEF Hints
  <2>4. KeptFor(v)'
    <3>1. SUFFICES ASSUME NEW g \in heard'[v]
                   PROVE  \/ Covers(h, g)
                          \/ \E x \in AtWork(v) \cup ended[v] : Covers(x, g)
      BY <1>1, <2>1, <2>2, <2>3 DEF KeptFor, AtWork
    <3>2. CASE g = h BY <3>2 DEF Covers
    <3>3. CASE g \in heard[v] /\ pending[v] # Nil /\ Covers(pending[v], g)
      <4>1. pending[v] \in Hints /\ g \in Hints BY <1>0, <3>3 DEF CoordType
      <4>2. /\ applied[v] \in Int /\ inFlight[v] \in Int /\ Queued(v) \in Int
            /\ Queued(v) = Rank(pending[v])
        BY <1>0, <3>3, <4>1, RankType DEF CoordType, Queued
      <4>3. HighestSeen(v) \in Int /\ HighestSeen(v) >= Rank(pending[v])
        BY <4>2, MaxOfThree DEF HighestSeen
      <4>4. Rank(pending[v]) <= Rank(h) BY <1>4, <4>1, <4>3, RankType
      <4> QED BY <3>3, <4>1, <4>4, RankCovers, CoversTransitive
    <3> QED BY <1>0, <1>2, <3>2, <3>3 DEF CoordFor, KeptFor
  <2>5. CoordFor(v)'
    BY <1>0, <1>1, <1>2, <2>1, <2>2, <2>4 DEF CoordFor, OneFor, AtWork
  <2>6. \A w \in Vaults \ {v} : CoordFor(w)'
    BY <1>0, <1>1, <1>2, <2>1, <2>2, CoordSame
  <2> QED BY <2>5, <2>6, CoordNext
<1>5. CASE ~(Rank(h) <= HighestSeen(v)) /\ ~running[v]
  <2>1. /\ running' = [running EXCEPT ![v] = TRUE]
        /\ drains' = [drains EXCEPT ![v] = @ \cup {Drain(h)}]
        /\ inFlight' = [inFlight EXCEPT ![v] = Rank(h)]
        /\ UNCHANGED pending
    BY <1>5 DEF Accept
  <2>2. drains[v] = {} BY <1>0, <1>5 DEF CoordFor, OneFor
  <2>3. /\ running'[v] = TRUE /\ drains'[v] = {Drain(h)}
        /\ inFlight'[v] = Rank(h) /\ pending'[v] = pending[v]
    BY <1>0, <2>1, <2>2 DEF CoordType
  <2>4. \A w \in Vaults \ {v} :
          /\ running'[w] = running[w] /\ drains'[w] = drains[w]
          /\ inFlight'[w] = inFlight[w]
    BY <1>0, <2>1 DEF CoordType
  <2>6. /\ Drain(h).gen = generation /\ Drain(h).hint = h
        /\ generation \in Nat
    BY <1>0 DEF Drain, CoordType
  <2>5. AtWork(v)' = {h} /\ AtWork(v) = {}
    BY <2>2, <1>1, <2>3, <2>6 DEF AtWork
  <2>7. Covers(h, h) BY DEF Covers
  <2>8. KeptFor(v)'
    BY <1>0, <1>1, <1>2, <2>3, <2>5, <2>7 DEF CoordFor, KeptFor
  <2>9. OneFor(v)' /\ \A d \in drains'[v] : d.gen <= generation'
    BY <1>1, <2>3, <2>6 DEF OneFor
  <2>10. CoordFor(v)' BY <1>0, <1>1, <1>2, <2>3, <2>5, <2>8, <2>9 DEF CoordFor
  <2>11. \A w \in Vaults \ {v} : CoordFor(w)'
    BY <1>0, <1>1, <1>2, <2>1, <2>4, CoordSame
  <2> QED BY <2>10, <2>11, CoordNext
<1> QED BY <1>3, <1>4, <1>5

(* When an application ends, its hint is done and the next one is at work.   *)
LEMMA SettledKeeps ==
    ASSUME HintsTypeOK, CoordInv, NEW v \in Vaults, NEW d \in drains[v],
           NEW ok \in BOOLEAN, Settled(v, d, ok)
    PROVE  CoordInv'
<1>0. CoordType /\ \A w \in Vaults : CoordFor(w) BY Halves, CoordByVault
<1>1. d.hint \in Hints /\ Rank(d.hint) \in Nat /\ generation \in Nat
  BY <1>0, RankType DEF CoordType
<1>2. TakeNext(v, d) /\ generation' = generation /\ heard' = heard
  BY DEF Settled
<1>3. drains[v] = {d} BY <1>0 DEF CoordFor, OneFor
<1>4. AtWork(v) = IF d.gen = generation THEN {d.hint} ELSE {}
  BY <1>3 DEF AtWork
<1>5. ended'[v] = ended[v] \cup AtWork(v) BY <1>0, <1>4 DEF Settled, CoordType
<1>6. applied'[v] # -1 => \E x \in ended'[v] : applied'[v] = Rank(x)
  BY <1>0, <1>5, <1>1, MaxOfTwo, <1>4 DEF CoordFor, CoordType, Settled, Marks
<1>7. \A w \in Vaults \ {v} : applied'[w] = applied[w] /\ ended'[w] = ended[w]
  BY <1>0 DEF CoordType, Settled
<1>8. CASE pending[v] = Nil
  <2>1. /\ pending' = pending
        /\ inFlight' = [inFlight EXCEPT ![v] = -1]
        /\ running' = [running EXCEPT ![v] = FALSE]
        /\ drains' = [drains EXCEPT ![v] = @ \ {d}]
    BY <1>2, <1>8 DEF TakeNext, GoesOn, Ends
  <2>2. /\ inFlight'[v] = -1 /\ running'[v] = FALSE /\ drains'[v] = {}
        /\ pending'[v] = Nil
    BY <1>0, <1>3, <1>8, <2>1 DEF CoordType
  <2>3. \A w \in Vaults \ {v} :
          /\ running'[w] = running[w] /\ drains'[w] = drains[w]
          /\ inFlight'[w] = inFlight[w] /\ pending'[w] = pending[w]
    BY <1>0, <2>1 DEF CoordType
  <2>4. AtWork(v)' = {} BY <2>2 DEF AtWork
  <2>5. KeptFor(v)' /\ OneFor(v)'
    BY <1>0, <1>2, <1>5, <1>8, <2>2, <2>4 DEF CoordFor, KeptFor, OneFor
  <2>6. CoordFor(v)' BY <1>0, <1>2, <1>5, <1>6, <2>2, <2>4, <2>5 DEF CoordFor
  <2>7. \A w \in Vaults \ {v} : CoordFor(w)'
    BY <1>0, <1>2, <1>7, <2>3, CoordSame
  <2> QED BY <2>6, <2>7, CoordNext
<1>9. CASE pending[v] # Nil
  <2> DEFINE h == pending[v]
  <2>1. /\ pending' = [pending EXCEPT ![v] = Nil]
        /\ inFlight' = [inFlight EXCEPT ![v] = Rank(h)]
        /\ running' = running
        /\ drains' = [drains EXCEPT ![v] = (@ \ {d}) \cup {Drain(h)}]
    BY <1>2, <1>9 DEF TakeNext, GoesOn
  <2>2. /\ inFlight'[v] = Rank(h) /\ drains'[v] = {Drain(h)}
        /\ pending'[v] = Nil
    BY <1>0, <1>3, <2>1 DEF CoordType
  <2>3. \A w \in Vaults \ {v} :
          /\ running'[w] = running[w] /\ drains'[w] = drains[w]
          /\ inFlight'[w] = inFlight[w] /\ pending'[w] = pending[w]
    BY <1>0, <2>1 DEF CoordType
  <2>4. Drain(h).gen = generation /\ Drain(h).hint = h BY DEF Drain
  <2>5. AtWork(v)' = {h} BY <1>2, <2>2, <2>4 DEF AtWork
  <2>6. h \in heard[v] BY <1>0, <1>9 DEF CoordFor
  <2> HIDE DEF h
  <2>7. KeptFor(v)' BY <1>0, <1>2, <1>5, <2>5 DEF CoordFor, KeptFor, h
  <2>8. OneFor(v)' BY <1>0, <1>3, <2>1, <2>2 DEF CoordFor, OneFor
  <2>9. \A e \in drains'[v] : e.gen <= generation' BY <1>1, <1>2, <2>2, <2>4
  <2>10. CoordFor(v)'
    BY <1>0, <1>2, <1>5, <1>6, <2>2, <2>5, <2>6, <2>7, <2>8, <2>9 DEF CoordFor
  <2>11. \A w \in Vaults \ {v} : CoordFor(w)'
    BY <1>0, <1>2, <1>7, <2>1, <2>3, CoordSame
  <2> QED BY <2>10, <2>11, CoordNext
<1> QED BY <1>8, <1>9

(* A lock starts afresh: what is still at work is of an older generation.    *)
LEMMA ClearKeeps ==
    ASSUME HintsTypeOK, CoordInv, Clear PROVE CoordInv'
BY Halves, CoordByVault, CoordNext DEF Clear, Forgets, KeepsDrains, CoordType, CoordFor, AtWork,
   OneFor, KeptFor

(* Every step keeps the coordinator's invariant.                             *)
LEMMA CoordStep == HintsTypeOK /\ CoordInv /\ [HintsNext]_hintVars => CoordInv'
<1> SUFFICES ASSUME HintsTypeOK, CoordInv, [HintsNext]_hintVars PROVE CoordInv'
  OBVIOUS
<1>1. CASE UNCHANGED coord
  BY CoordByVault, <1>1, CoordSame, CoordNext DEF coord
<1>2. CASE HubLock BY <1>2, ClearKeeps DEF HubLock
<1>3. ASSUME NEW m \in wire, Deliver(m) PROVE CoordInv'
  BY <1>3, AcceptKeeps DEF Deliver, HintsTypeOK
<1>4. ASSUME NEW v \in Vaults, Applying(v) PROVE CoordInv'
  BY <1>4, SettledKeeps DEF Applying
<1>5. CASE HubUnlock \/ Connection \/ Reconnecting \/ Reconnected \/ Repair
  <2>1. UNCHANGED coord
    BY <1>5 DEF HubUnlock, Connection, Connect, HubStarted, StartFails, RetryFires,
                Disconnect, Stopped, Closed, Reconnecting, Reconnected,
                Repair, coordinator, history, coord
  <2> QED BY <1>1, <2>1
<1>6. ASSUME NEW v \in Vaults, Mutates(v) PROVE CoordInv'
  BY <1>6, <1>1 DEF Mutates, coordinator, coord
<1>7. CASE UNCHANGED hintVars
  BY <1>1, <1>7 DEF hintVars, coordinator, history, coord
<1> QED BY <1>2, <1>3, <1>4, <1>5, <1>6, <1>7 DEF HintsNext

-----------------------------------------------------------------------------
(* The connection. *)

(* A stop on a chain outlives its growth, and the work before it.            *)
LEMMA StopStays ==
    ASSUME HintsTypeOK
    PROVE  /\ \A e : \A i \in DOMAIN chain :
                i \in DOMAIN Append(chain, e) /\ Append(chain, e)[i] = chain[i]
           /\ \A e : /\ Len(chain) + 1 \in DOMAIN Append(chain, e)
                     /\ Append(chain, e)[Len(chain) + 1] = e
           /\ \A e : \A i \in DOMAIN Append(chain, e) :
                Append(chain, e)[i] = e
                \/ (i \in DOMAIN chain /\ Append(chain, e)[i] = chain[i])
           /\ chain # <<>> =>
                /\ \A i \in DOMAIN chain \ {1} :
                     i - 1 \in DOMAIN Tail(chain) /\ Tail(chain)[i - 1] = chain[i]
                /\ \A i \in DOMAIN Tail(chain) :
                     i + 1 \in DOMAIN chain /\ Tail(chain)[i] = chain[i + 1]
<1> DEFINE E == [op : {"connect", "disconnect"}, gen : Nat]
<1>1. chain \in Seq(E) BY DEF HintsTypeOK
<1> HIDE DEF E
<1>2. /\ DOMAIN chain = 1..Len(chain) /\ Len(chain) \in Nat BY <1>1
<1> QED BY <1>1, <1>2

(* Nothing belongs to a later session than the present one.                  *)
LEMMA GensStep == HintsTypeOK /\ GensArePast /\ [HintsNext]_hintVars => GensArePast'
<1> SUFFICES ASSUME HintsTypeOK, GensArePast, [HintsNext]_hintVars PROVE GensArePast'
  OBVIOUS
<1>0. /\ hgen \in Nat /\ hub.gen \in Nat /\ hub.gen <= hgen
      /\ retry # Nil => retry \in Nat /\ retry <= hgen
      /\ \A i \in DOMAIN chain : chain[i].gen \in Nat /\ chain[i].gen <= hgen
  <2>1. chain \in Seq([op : {"connect", "disconnect"}, gen : Nat])
    BY DEF HintsTypeOK
  <2>2. \A i \in DOMAIN chain : chain[i].gen \in Nat
    <3> DEFINE E == [op : {"connect", "disconnect"}, gen : Nat]
    <3>1. \A e \in E : e.gen \in Nat OBVIOUS
    <3>2. chain \in Seq(E) BY <2>1
    <3> HIDE DEF E
    <3>3. \A i \in DOMAIN chain : chain[i] \in E BY <3>2
    <3> QED BY <3>1, <3>3
  <2>3. hgen \in Nat /\ hub.gen \in Nat /\ retry \in Nat \cup {Nil}
    BY DEF HintsTypeOK
  <2> QED BY <2>2, <2>3 DEF GensArePast
<1>1. CASE HubUnlock \/ HubLock
  <2>1. PICK e : /\ chain' = Append(chain, e) /\ e.gen = hgen + 1
                 /\ hgen' = hgen + 1 /\ hub' = hub /\ retry' \in {retry, Nil}
    BY <1>1 DEF HubUnlock, HubLock
  <2>2. \A i \in DOMAIN chain' :
          chain'[i] = e \/ (i \in DOMAIN chain /\ chain'[i] = chain[i])
    BY <2>1, StopStays
  <2> QED BY <1>0, <2>1, <2>2 DEF GensArePast
<1>2. CASE RetryFires
  <2>1. PICK e : /\ chain' = Append(chain, e) /\ e.gen = retry
                 /\ hgen' = hgen /\ hub' = hub /\ retry' = Nil
    BY <1>2 DEF RetryFires
  <2>2. \A i \in DOMAIN chain' :
          chain'[i] = e \/ (i \in DOMAIN chain /\ chain'[i] = chain[i])
    BY <2>1, StopStays
  <2>3. retry <= hgen BY <1>2 DEF RetryFires, GensArePast
  <2> QED BY <1>0, <2>1, <2>2, <2>3 DEF GensArePast
<1>3. CASE Connect
  <2>1. chain # <<>> /\ 1 \in DOMAIN chain BY <1>3 DEF Connect, HintsTypeOK
  <2>2. /\ hub'.gen \in {hub.gen, chain[1].gen} /\ hgen' = hgen
        /\ chain' \in {chain, Tail(chain)} /\ retry' = retry
    BY <1>3 DEF Connect, Awaited, InTurn
  <2> QED BY <1>0, <2>1, <2>2, StopStays DEF GensArePast
<1>4. CASE HubStarted \/ Disconnect \/ Reconnecting \/ Reconnected
  <2>1. /\ hub'.gen = hub.gen /\ hgen' = hgen /\ retry' = retry
        /\ chain' = chain \/ (chain # <<>> /\ chain' = Tail(chain))
    BY <1>4 DEF HubStarted, Disconnect, Reconnecting, Reconnected, HintsTypeOK, Waiting
  <2> QED BY <1>0, <2>1, StopStays DEF GensArePast
<1>5. CASE StartFails \/ Stopped \/ Closed
  <2>1. /\ hub'.gen = 0 /\ hgen' = hgen /\ retry' \in {retry, hub.gen}
        /\ chain' = chain \/ (chain # <<>> /\ chain' = Tail(chain))
    BY <1>5 DEF StartFails, Stopped, Closed, Schedule, Schedules, Down,
                HintsTypeOK, Waiting
  <2> QED BY <1>0, <2>1, StopStays DEF GensArePast
<1>6. CASE UNCHANGED <<hub, hgen, chain, retry>> BY <1>6 DEF GensArePast
<1>7. CASE Repair BY <1>6, <1>7 DEF Repair, connection
<1>8. ASSUME NEW v \in Vaults, Mutates(v) \/ Applying(v) PROVE GensArePast'
  BY <1>6, <1>8 DEF Mutates, Applying, Settled, connection
<1>9. ASSUME NEW m \in wire, Deliver(m) PROVE GensArePast'
  BY <1>6, <1>9 DEF Deliver, connection
<1>10. CASE UNCHANGED hintVars BY <1>6, <1>10 DEF hintVars, connection
<1> QED BY <1>1, <1>2, <1>3, <1>4, <1>5, <1>7, <1>8, <1>9, <1>10
        DEF HintsNext, Connection

(* A hub that no session wants is up only as long as its stop is to come.    *)
LEMMA UnwantedStep ==
    HintsTypeOK /\ UnwantedIsStopped /\ [HintsNext]_hintVars => UnwantedIsStopped'
<1> SUFFICES ASSUME HintsTypeOK, UnwantedIsStopped, [HintsNext]_hintVars,
                    hub'.at \in {"up", "reconnecting"}, ~Wanted(hub.gen)'
             PROVE  \E i \in DOMAIN chain' : chain'[i].op = "disconnect"
  BY DEF UnwantedIsStopped
<1>1. CASE UNCHANGED <<desired, hub, hgen, chain>>
  BY <1>1 DEF UnwantedIsStopped, Wanted
<1>2. CASE HubLock
  <2>1. PICK e : chain' = Append(chain, e) /\ e.op = "disconnect"
    BY <1>2 DEF HubLock
  <2> QED BY <2>1, StopStays
<1>3. CASE HubUnlock
  <2>1. PICK e : chain' = Append(chain, e) /\ hub' = hub /\ ~desired
    BY <1>3 DEF HubUnlock
  <2>2. PICK i \in DOMAIN chain : chain[i].op = "disconnect"
    BY <2>1 DEF UnwantedIsStopped, Wanted
  <2> QED BY <2>1, <2>2, StopStays
<1>4. CASE RetryFires
  <2>1. PICK e : chain' = Append(chain, e)
                 /\ UNCHANGED <<hub, hgen, desired>>
    BY <1>4 DEF RetryFires
  <2>2. PICK i \in DOMAIN chain : chain[i].op = "disconnect"
    BY <2>1 DEF UnwantedIsStopped, Wanted
  <2> QED BY <2>1, <2>2, StopStays
<1>5. CASE Connect
  <2>1. chain # <<>> /\ chain[1].op = "connect" BY <1>5 DEF Connect
  <2>2. /\ hub' = hub /\ chain' = Tail(chain)
        /\ UNCHANGED <<hgen, desired>>
    BY <1>5 DEF Connect
  <2>3. PICK i \in DOMAIN chain : chain[i].op = "disconnect"
    BY <2>2 DEF UnwantedIsStopped, Wanted
  <2>4. i # 1 BY <2>1, <2>3
  <2> QED BY ZenonT(30), <2>1, <2>2, <2>3, <2>4, StopStays
<1>6. CASE HubStarted
  BY <1>6 DEF HubStarted, ForThisSession, Wanted, HintsTypeOK
<1>7. CASE StartFails \/ Stopped \/ Closed
  BY <1>7 DEF StartFails, Stopped, Closed, Down
<1>8. CASE Disconnect BY <1>8 DEF Disconnect, HintsTypeOK
<1>9. CASE Reconnecting \/ Reconnected
  BY <1>9 DEF Reconnecting, Reconnected, HintsTypeOK, UnwantedIsStopped, Wanted
<1>10. CASE Repair BY <1>1, <1>10 DEF Repair, connection
<1>11. ASSUME NEW v \in Vaults, Mutates(v) \/ Applying(v)
       PROVE  \E i \in DOMAIN chain' : chain'[i].op = "disconnect"
  BY <1>1, <1>11 DEF Mutates, Applying, Settled, connection
<1>12. ASSUME NEW m \in wire, Deliver(m)
       PROVE  \E i \in DOMAIN chain' : chain'[i].op = "disconnect"
  BY <1>1, <1>12 DEF Deliver, connection
<1>13. CASE UNCHANGED hintVars BY <1>1, <1>13 DEF hintVars, connection
<1> QED BY <1>2, <1>3, <1>4, <1>5, <1>6, <1>7, <1>8, <1>9, <1>10, <1>11,
           <1>12, <1>13 DEF HintsNext, Connection

(* What the vault service is told follows the present session's hub.         *)
LEMMA ConnectedStep ==
    HintsTypeOK /\ HubInv /\ [HintsNext]_hintVars => ConnectedIsTrue'
<1> SUFFICES ASSUME HintsTypeOK, HubInv, [HintsNext]_hintVars PROVE ConnectedIsTrue'
  OBVIOUS
<1>0. /\ hgen \in Nat /\ desired \in BOOLEAN /\ conn \in BOOLEAN
      /\ hub \in [at : {"none", "starting", "up", "reconnecting", "stopping"},
                  gen : Nat]
      /\ hub = [at |-> hub.at, gen |-> hub.gen]
      /\ hub.gen <= hgen
  BY DEF HintsTypeOK, HubInv, GensArePast
<1>00. conn <=> (desired /\ hub.at = "up" /\ hub.gen = hgen)
  BY <1>0 DEF HubInv, ConnectedIsTrue
<1>1. CASE UNCHANGED <<desired, hub, hgen, conn>>
  BY <1>1 DEF ConnectedIsTrue, HubInv
<1>2. CASE HubLock BY <1>2 DEF HubLock, ConnectedIsTrue
<1>3. CASE HubUnlock BY <1>3, <1>0, <1>00 DEF HubUnlock, ConnectedIsTrue
<1>4. CASE Connect BY <1>4, <1>1, <1>00 DEF Connect, ConnectedIsTrue
<1>5. CASE HubStarted
  BY <1>0, <1>00, <1>5 DEF HubStarted, ForThisSession, Wanted, ConnectedIsTrue
<1>6. CASE StartFails \/ Stopped \/ Closed
  BY <1>6 DEF StartFails, Stopped, Closed, Down, ConnectedIsTrue
<1>7. CASE Disconnect BY <1>0, <1>7 DEF Disconnect, ConnectedIsTrue
<1>8. CASE Reconnecting BY <1>0, <1>8 DEF Reconnecting, ConnectedIsTrue
<1>9. CASE Reconnected
  BY <1>9, <1>0 DEF Reconnected, Quiet, Waiting, HubInv, UnwantedIsStopped, Wanted, ConnectedIsTrue
<1>10. CASE RetryFires \/ Repair
  BY <1>1, <1>10 DEF RetryFires, Repair, connection
<1>11. ASSUME NEW v \in Vaults, Mutates(v) \/ Applying(v)
       PROVE  ConnectedIsTrue'
  BY <1>1, <1>11 DEF Mutates, Applying, Settled, connection
<1>12. ASSUME NEW m \in wire, Deliver(m) PROVE ConnectedIsTrue'
  BY <1>1, <1>12 DEF Deliver, connection
<1>13. CASE UNCHANGED hintVars BY <1>1, <1>13 DEF hintVars, connection
<1> QED BY <1>2, <1>3, <1>4, <1>5, <1>6, <1>7, <1>8, <1>9, <1>10, <1>11,
           <1>12, <1>13 DEF HintsNext, Connection

-----------------------------------------------------------------------------
(* The inductive invariant, and what follows from it. *)

LEMMA Initially == HintsInit => IInv
<1> SUFFICES ASSUME HintsInit PROVE IInv
  OBVIOUS
<1>1. \A v \in Vaults : /\ drains[v] = {} /\ ended[v] = {} /\ heard[v] = {}
                        /\ pending[v] = Nil /\ applied[v] = -1
                        /\ inFlight[v] = -1 /\ running[v] = FALSE
  BY DEF HintsInit
<1>2. /\ hgen = 0 /\ hub = Down /\ chain = <<>> /\ retry = Nil
      /\ conn = FALSE /\ desired = FALSE
  BY DEF HintsInit
<1>3. HintsTypeOK
  <2>1. chain \in Seq([op : {"connect", "disconnect"}, gen : Nat]) BY <1>2
  <2>2. version \in [Vaults -> 0..MaxVer] BY HintsAssumption DEF HintsInit
  <2>3. /\ hub \in [at : {"none", "starting", "up", "reconnecting", "stopping"},
                    gen : Nat]
        /\ ~Waiting
    BY <1>2 DEF Down, Waiting
  <2>4. /\ wire = {} /\ missed = {} /\ losses = 0 /\ repair = FALSE
        /\ generation = 0
    BY DEF HintsInit
  <2>5. /\ pending \in [Vaults -> Hints \cup {Nil}]
        /\ inFlight \in [Vaults -> Int] /\ applied \in [Vaults -> Int]
        /\ running \in [Vaults -> BOOLEAN]
        /\ drains \in [Vaults -> SUBSET [gen : Nat, hint : Hints]]
        /\ heard \in [Vaults -> SUBSET Hints]
        /\ ended \in [Vaults -> SUBSET Hints]
    BY DEF HintsInit
  <2> QED BY <1>2, <2>1, <2>2, <2>3, <2>4, <2>5 DEF HintsTypeOK
<1>4. \A v \in Vaults : AtWork(v) = {} BY <1>1 DEF AtWork
<1>5. CoordInv BY <1>1, <1>4, CoordByVault DEF CoordFor, OneFor, KeptFor
<1>6. HubInv
  BY <1>2 DEF HubInv, GensArePast, UnwantedIsStopped, ConnectedIsTrue, Down
<1> QED BY <1>3, <1>5, <1>6 DEF IInv

LEMMA HintsInductive == IInv /\ [HintsNext]_hintVars => IInv'
  BY TypeStep, CoordStep, GensStep, UnwantedStep, ConnectedStep
     DEF IInv, HubInv

LEMMA Invariance == HintsSpec => []IInv
<1>1. HintsInit => IInv BY Initially
<1>2. IInv /\ [HintsNext]_hintVars => IInv' BY HintsInductive
<1> QED BY <1>1, <1>2, PTL DEF HintsSpec

(* Every variable has its type, and the chain is never empty while it waits  *)
(* for the hub.                                                              *)
THEOREM HintsTypeCorrect == HintsSpec => []HintsTypeOK
<1>1. IInv => HintsTypeOK BY DEF IInv
<1> QED BY <1>1, Invariance, PTL

(* One drain per vault is at work, and none when the coordinator says so,    *)
(* through any number of locks (startDrain, drain, clear).                   *)
THEOREM OneDrain == HintsSpec => []OneAtATime
<1>1. IInv => OneAtATime BY DEF IInv, CoordInv
<1> QED BY <1>1, Invariance, PTL

(* Coalescing loses no hint: what arrived in this session is covered by what *)
(* waits, is being applied or has been (accept, drain).                      *)
THEOREM NoHintLost == HintsSpec => []HintsAreKept
<1>1. IInv => HintsAreKept BY DEF IInv, CoordInv
<1> QED BY <1>1, Invariance, PTL

(* A completion that a lock overtook marks nothing for the next session      *)
(* (drain's generation check).                                               *)
THEOREM MarksAreHeard == HintsSpec => []AppliedWasHeard
<1>1. IInv => AppliedWasHeard
  BY DEF IInv, CoordInv, AppliedHasEnded, WorkWasHeard, AppliedWasHeard, Rank
<1> QED BY <1>1, Invariance, PTL

(* The vault service takes itself to be connected exactly while the present  *)
(* session's hub is up (connect, onreconnected, disconnect).                 *)
THEOREM ConnectedSafe == HintsSpec => []ConnectedIsTrue
<1>1. IInv => ConnectedIsTrue BY DEF IInv, HubInv
<1> QED BY <1>1, Invariance, PTL

(* Together, for any vaults, hints and number of locks: coalescing, draining *)
(* and reconnecting neither lose a hint, nor apply one twice at a time, nor  *)
(* carry one into another session (the hint coordinator and the hub).        *)
THEOREM HintsSafe == HintsSpec => []HintsAreSafe
<1>1. IInv => HintsAreSafe
  BY DEF HintsAreSafe, IInv, CoordInv, HubInv, AppliedHasEnded, WorkWasHeard,
         AppliedWasHeard, Rank
<1> QED BY <1>1, Invariance, PTL
=============================================================================
