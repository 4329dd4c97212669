--------------------------- MODULE VaultSyncProofs --------------------------
(* Proofs about VaultSync, for any calls, users, vaults, entries and scenes: *)
(* the copies are sound, they never turn older, and nobody waits for a call  *)
(* that has ended.                                                           *)
EXTENDS VaultSync, WellFoundedInduction, FiniteSetTheorems, TLAPS

-----------------------------------------------------------------------------
(* The inductive invariant. *)

(* Types, without the bounds. *)
Changes == [entry : Entries, dead : BOOLEAN]
Holdings == [Entries -> Nat]
SyncCopies == [seq : Nat, vseq : Nat, items : Holdings,
               pol : {"offline", "disabled"}, by : Users]
Stages == [by : Ops, seq : Nat, items : Holdings]
Reached == [Vaults -> Nat \cup {None}]
CallKinds == {"none", "refresh", "repair", "hint", "removed", "delete", "read", "clear"}
Calls == [kind : CallKinds, at : Steps, user : Users \cup {None},
          v : Vaults \cup {None}, vseq : Nat \cup {None}, mine : BOOLEAN, was : Nat,
          floor : Nat \cup {None}, exp : Nat, upper : Nat \cup {None}, pers : BOOLEAN, rt : Nat,
          need : SUBSET Entries, items : Holdings \cup {None},
          todo : SUBSET Vaults, who : Users \cup {None},
          listed : Reached \cup {None}, detail : Reached \cup {None}, redo : BOOLEAN]

ServerTyped ==
    /\ scene \in Scenes
    /\ log \in [Vaults -> Seq(Changes)] /\ \A v \in Vaults : Now(v) <= MaxSeq
    /\ members \in [Vaults -> SUBSET Users]
    /\ policy \in [Vaults -> {"offline", "disabled"}]
    /\ retain \in [Vaults -> Nat] /\ \A v \in Vaults : retain[v] <= Now(v)
    /\ gone \subseteq Users \X Vaults \X Entries
CopiesTyped ==
    /\ cache \in [Users -> [Vaults -> [act : SyncCopies \cup {None},
                                       pend : Stages \cup {None}]]]
    /\ vol \in [Vaults -> SyncCopies \cup {None}]
    /\ purges \subseteq Users \X Vaults
CallsTyped ==
    /\ flight \in [by : Ops, repair : BOOLEAN] \cup {None}
    /\ queue \in Seq(Ops) /\ op \in [Ops -> Calls]
LinkTyped ==
    /\ user \in Users \cup {None} /\ owed \subseteq Users
    /\ hub \in BOOLEAN /\ conn \in BOOLEAN /\ rt \in Nat
Typed == ServerTyped /\ CopiesTyped /\ CallsTyped /\ LinkTyped

(* The queue. *)
Queued(o) == op[o].at \notin {"idle", "await"}
Under(o) == op[o].at \notin {"idle", "await", "turn"}
Serial ==
    /\ \A i, j \in 1..Len(queue) : queue[i] = queue[j] => i = j
    /\ \A o \in Ops : Queued(o) <=> \E i \in 1..Len(queue) : queue[i] = o
    /\ \A i \in 2..Len(queue) : op[queue[i]].at = "turn"
    /\ flight # None =>
         Queued(flight.by) /\ op[flight.by].kind \in {"refresh", "repair"}
    /\ \A o \in Ops : /\ op[o].at = "await" => flight # None
                      /\ op[o].at \in {"send", "purge"} => op[o].kind = "delete"

(* The server's history. *)
DeadLast ==
    \A v \in Vaults : \A i, j \in 1..Now(v) :
        log[v][i].dead /\ log[v][j].entry = log[v][i].entry => j <= i
GoneDead ==
    \A d \in gone : \E i \in 1..Now(d[2]) :
        log[d[2]][i].entry = d[3] /\ log[d[2]][i].dead
History == DeadLast /\ GoneDead

(* Whose copies there are, and where. *)
Owned ==
    /\ hub => user # None
    /\ conn => hub
    /\ \A v \in Vaults : vol[v] # None => conn /\ vol[v].by = user
    /\ \A u \in Users, v \in Vaults :
         cache[u][v].act # None => cache[u][v].act.by = u /\ cache[u][v].act.pol = "offline"
Ours(o) == Under(o) => \A v \in Vaults : vol[v] # None => op[o].user = user

(* What a copy holds. *)
Of(v, e, i) == i # 0 => i \in 1..Now(v) /\ log[v][i].entry = e
Holds(v, e, i, q) ==
    \/ i >= LastChange(v, e, q)
    \/ ~Alive(v, i) /\ ~Alive(v, LastChange(v, e, Now(v)))
Full(v, items, q) ==
    /\ q <= Now(v)
    /\ \A e \in Entries : Of(v, e, items[e]) /\ Holds(v, e, items[e], q)
Partial(v, items, need, q) ==
    /\ q <= Now(v)
    /\ \A e \in Entries : /\ Of(v, e, items[e])
                          /\ e \in need => items[e] = 0
                          /\ e \notin need => Holds(v, e, items[e], q)
Whole ==
    /\ \A v \in Vaults : vol[v] # None => Full(v, vol[v].items, vol[v].seq)
                                          /\ vol[v].vseq <= Now(v)
    /\ \A u \in Users, v \in Vaults :
         /\ cache[u][v].act # None =>
              /\ Full(v, cache[u][v].act.items, cache[u][v].act.seq)
              /\ cache[u][v].act.vseq <= Now(v)
         /\ cache[u][v].pend # None =>
              /\ cache[u][v].pend.seq <= Now(v)
              /\ \A e \in Entries : Of(v, e, cache[u][v].pend.items[e])

(* A call. *)
Located == {"sync", "delta", "snap", "page", "close", "done", "vpage", "vclose"}
Storing == {"page", "close", "done"}
Going == Located \cup {"scan", "index", "rebuild"}
Placed(o) ==
    /\ Under(o) \/ op[o].kind = "clear" => op[o].user \in Users
    /\ op[o].kind \in {"hint", "removed", "delete"} => op[o].v \in Vaults
    /\ op[o].at \in Going \cup {"list"} => op[o].kind \in {"refresh", "repair", "hint"}
    /\ op[o].at \in Located => op[o].v \in Vaults \ op[o].todo
    /\ op[o].at \in Going => op[o].listed \in Reached
    /\ op[o].at \in Going /\ op[o].kind # "hint" => op[o].detail \in Reached
    /\ op[o].at \in {"list", "index", "rebuild"} => op[o].kind # "hint"
    /\ op[o].at = "scan" /\ op[o].kind = "hint" =>
         \A w \in Vaults : op[o].listed[w] = None
    /\ op[o].at \in {"sync", "delta"} => op[o].vseq \in Nat /\ op[o].vseq <= Now(op[o].v)
    /\ op[o].at \in {"delta", "snap"} => op[o].floor \in Nat
    /\ op[o].at = "rebuild" => op[o].redo
    /\ op[o].redo =>
         /\ op[o].at \in {"index", "rebuild", "snap", "vpage", "vclose"} \cup Storing
         /\ op[o].kind # "hint" /\ op[o].detail \in Reached
         /\ \A w \in op[o].todo : op[o].detail[w] \in Nat
Gathered(o) ==
    /\ op[o].at \in Storing \cup {"delta", "vpage", "vclose"} => op[o].exp <= Now(op[o].v)
    /\ op[o].at \in {"close", "done", "vclose"} => op[o].need = {}
    /\ op[o].at \in Storing /\ Pending(o) =>
         Partial(op[o].v, Copy(o).pend.items, op[o].need, op[o].exp)
    /\ op[o].at \in {"vpage", "vclose"} =>
         op[o].items \in Holdings /\ Partial(op[o].v, op[o].items, op[o].need, op[o].exp)
Forward(o) ==
    /\ op[o].at = "sync" /\ Active(op[o].user, op[o].v) # None =>
         Active(op[o].user, op[o].v).seq <= op[o].vseq
    /\ op[o].at = "delta" =>
         /\ op[o].was <= op[o].floor /\ op[o].was <= op[o].exp
         /\ Copy(o).act # None => op[o].was <= Copy(o).act.seq
    /\ op[o].at = "snap" => op[o].was <= op[o].floor
    /\ op[o].at \in Storing => op[o].was <= op[o].exp
    /\ op[o].at \in Storing \cup {"snap"} => Copy(o).act = None
    /\ op[o].redo => \A w \in op[o].todo : cache[op[o].user][w].act = None

(* A number that is not from before the deletion. *)
Knows(d, q) == \A i \in 1..Now(d[2]) : log[d[2]][i].entry = d[3] => i <= q
Told(o) ==
    \A d \in gone : Under(o) /\ d[1] = op[o].user =>
        /\ op[o].at \in Going /\ op[o].listed[d[2]] # None => Knows(d, op[o].listed[d[2]])
        /\ op[o].at \in Going /\ op[o].kind # "hint" /\ op[o].detail[d[2]] # None =>
             Knows(d, op[o].detail[d[2]])
        /\ d[2] = op[o].v =>
             /\ op[o].at \in {"sync", "delta"} => Knows(d, op[o].vseq)
             /\ op[o].at \in {"delta", "snap"} => Knows(d, op[o].floor)
             /\ op[o].at \in Storing \cup {"delta", "vpage", "vclose"} =>
                  Knows(d, op[o].exp)
Hidden ==
    \A d \in gone : <<d[1], d[2]>> \notin purges =>
        /\ cache[d[1]][d[2]].act # None => Knows(d, cache[d[1]][d[2]].act.seq)
        /\ vol[d[2]] # None /\ user = d[1] => Knows(d, vol[d[2]].seq)

SyncInv ==
    /\ Typed /\ Serial /\ History /\ Owned /\ Whole /\ Hidden
    /\ \A o \in Ops : Ours(o) /\ Placed(o) /\ Gathered(o) /\ Forward(o) /\ Told(o)

-----------------------------------------------------------------------------
(* The last change of an entry, and a history that grows.                    *)

(* A nonempty set of numbers up to a bound has a greatest one. *)
LEMMA MaxOf ==
    ASSUME NEW q \in Nat, NEW S \in SUBSET (0..q), S # {}
    PROVE  Max(S) \in S /\ \A y \in S : y <= Max(S)
<1> DEFINE R == OpToRel(<, Nat)
           T == {q - i : i \in S}
<1>1. T \subseteq Nat /\ T # {} OBVIOUS
<1>2. PICK x \in T : \A y \in T : ~(<<y, x>> \in R)
  BY <1>1, WFMin, NatLessThanWellFounded
<1>3. \A y \in T : ~(y < x) BY <1>1, <1>2 DEF OpToRel
<1>4. PICK m \in S : x = q - m BY <1>2
<1>5. ASSUME NEW y \in S PROVE m >= y
  <2>1. ~(q - y < q - m) BY <1>3, <1>4
  <2> QED BY <2>1
<1>6. \E z \in S : \A y \in S : z >= y BY <1>5
<1> QED BY <1>6 DEF Max

LEMMA MaxTwo ==
    ASSUME NEW a \in Nat, NEW b \in Nat
    PROVE  Max({a, b}) \in Nat /\ a <= Max({a, b}) /\ b <= Max({a, b})
BY DEF Max

LEMMA LogTypes ==
    ASSUME ServerTyped
    PROVE  /\ scene \in Scenes /\ scene.seq \in Nat
           /\ \A v \in Vaults : /\ log[v] \in Seq(Changes) /\ Now(v) \in Nat
                                /\ Now(v) <= scene.seq
                                /\ \A i \in 1..Now(v) :
                                     log[v][i].entry \in Entries /\ log[v][i].dead \in BOOLEAN
<1>1. scene \in Scenes /\ scene.seq \in Nat BY SyncAssumption DEF ServerTyped
<1>2. ASSUME NEW v \in Vaults
      PROVE  /\ log[v] \in Seq(Changes) /\ Now(v) \in Nat /\ Now(v) <= scene.seq
             /\ \A i \in 1..Now(v) : log[v][i].entry \in Entries /\ log[v][i].dead \in BOOLEAN
  <2>1. log[v] \in Seq(Changes) /\ Now(v) <= scene.seq
    BY DEF ServerTyped, MaxSeq
  <2>2. \A i \in 1..Len(log[v]) : log[v][i] \in Changes BY <2>1
  <2> QED BY <2>1, <2>2 DEF Changes, Now
<1> QED BY <1>1, <1>2

(* The last change of an entry is the greatest number of one. *)
LEMMA LastOf ==
    ASSUME NEW l, NEW e, NEW q \in Nat
    PROVE  LET m == Max({0} \cup {i \in 1..q : l[i].entry = e}) IN
           /\ m \in 0..q
           /\ m # 0 => l[m].entry = e
           /\ \A i \in 1..q : l[i].entry = e => i <= m
<1> DEFINE S == {0} \cup {i \in 1..q : l[i].entry = e}
<1>1. S \in SUBSET (0..q) /\ S # {} OBVIOUS
<1>2. Max(S) \in S /\ \A y \in S : y <= Max(S) BY <1>1, MaxOf
<1> QED BY <1>2

LEMMA Last ==
    ASSUME NEW v, NEW e, NEW q \in Nat
    PROVE  /\ LastChange(v, e, q) \in 0..q
           /\ LastChange(v, e, q) # 0 => log[v][LastChange(v, e, q)].entry = e
           /\ \A i \in 1..q : log[v][i].entry = e => i <= LastChange(v, e, q)
BY LastOf DEF LastChange

LEMMA LastNext ==
    ASSUME NEW v, NEW e, NEW q \in Nat
    PROVE  /\ LastChange(v, e, q)' \in 0..q
           /\ LastChange(v, e, q)' # 0 => log'[v][LastChange(v, e, q)'].entry = e
           /\ \A i \in 1..q : log'[v][i].entry = e => i <= LastChange(v, e, q)'
BY LastOf DEF LastChange

LEMMA LastGrows ==
    ASSUME ServerTyped, NEW v \in Vaults, NEW e, NEW q \in Nat, NEW r \in Nat, q <= r
    PROVE  /\ LastChange(v, e, q) \in Nat /\ LastChange(v, e, r) \in Nat
           /\ LastChange(v, e, q) <= LastChange(v, e, r)
           /\ LastChange(v, e, r) <= q => LastChange(v, e, r) = LastChange(v, e, q)
BY Last

(* The server's log only grows. *)
Later ==
    \A w \in Vaults : /\ Len(log[w]) <= Len(log'[w])
                      /\ \A i \in 1..Len(log[w]) : log'[w][i] = log[w][i]

LEMMA LastKept ==
    ASSUME ServerTyped, ServerTyped', Later, NEW v \in Vaults, NEW e,
           NEW q \in Nat, q <= Now(v)
    PROVE  LastChange(v, e, q)' = LastChange(v, e, q)
<1>1. Now(v) \in Nat /\ \A i \in 1..q : log'[v][i] = log[v][i]
  BY LogTypes DEF Later, Now
<1>2. {i \in 1..q : log'[v][i].entry = e} = {i \in 1..q : log[v][i].entry = e}
  BY <1>1
<1> QED BY <1>2 DEF LastChange

LEMMA AliveKept ==
    ASSUME ServerTyped, Later, NEW v \in Vaults, NEW i \in 0..Now(v)
    PROVE  Alive(v, i)' = Alive(v, i)
BY LogTypes DEF Now, Alive, Later

LEMMA OfKept ==
    ASSUME ServerTyped, ServerTyped', Later, NEW v \in Vaults, NEW e, NEW i \in Nat, Of(v, e, i)
    PROVE  Of(v, e, i)'
BY LogTypes DEF Later, Now, ServerTyped, Of

(* What a copy holds of an entry stays enough. *)
LEMMA HoldsKept ==
    ASSUME ServerTyped, ServerTyped', Later, DeadLast', NEW v \in Vaults, NEW e,
           NEW i \in Nat, Of(v, e, i), NEW q \in Nat, q <= Now(v), Holds(v, e, i, q)
    PROVE  Holds(v, e, i, q)'
<1>1. Now(v) \in Nat /\ Now(v)' \in Nat /\ Now(v) <= Now(v)'
  BY LogTypes DEF Later, Now, ServerTyped
<1>2. LastChange(v, e, q)' = LastChange(v, e, q) BY LastKept
<1>3. CASE i >= LastChange(v, e, q) BY <1>2, <1>3 DEF Holds
<1>4. CASE ~Alive(v, i) /\ ~Alive(v, LastChange(v, e, Now(v)))
  <2> DEFINE m == LastChange(v, e, Now(v))
  <2>1. i \in 0..Now(v) BY <1>1 DEF Of
  <2>2. ~Alive(v, i)' BY <1>4, <2>1, AliveKept
  <2>3. /\ m \in 0..Now(v) /\ (m # 0 => log[v][m].entry = e)
        /\ \A j \in 1..Now(v) : log[v][j].entry = e => j <= m
    BY <1>1, Last
  <2>4. CASE m = 0 BY <1>1, LastGrows, <1>2, <2>4 DEF Holds
  <2>5. CASE m # 0
    <3>1. m \in 1..Len(log[v]) /\ log'[v][m] = log[v][m] /\ log[v][m].dead
      BY <1>4, <2>3, <2>5 DEF Alive, Later, Now
    <3>0. PICK r \in Nat : r = Now(v)' BY <1>1
    <3>2. /\ LastChange(v, e, r)' \in 0..r
          /\ LastChange(v, e, r)' # 0 => log'[v][LastChange(v, e, r)'].entry = e
          /\ \A j \in 1..r : log'[v][j].entry = e => j <= LastChange(v, e, r)'
      BY LastNext
    <3>21. PICK n : n = LastChange(v, e, r)' OBVIOUS
    <3>3. m \in 1..Now(v)' /\ log'[v][m].entry = e BY <1>1, <2>3, <2>5, <3>1
    <3>4. n # 0 /\ n \in 1..Now(v)' /\ log'[v][n].entry = log'[v][m].entry
      BY <3>0, <3>2, <3>21, <3>3
    <3>5. n <= m BY <3>1, <3>3, <3>4 DEF DeadLast
    <3>6. n = m BY <3>0, <3>2, <3>21, <3>3, <3>5, <2>3
    <3>7. ~Alive(v, LastChange(v, e, r))' BY <3>1, <3>21, <3>6 DEF Alive
    <3>8. ~Alive(v, LastChange(v, e, Now(v)))' BY <3>0, <3>7, Zenon
    <3> QED BY <2>2, <3>8 DEF Holds
  <2> QED BY <2>4, <2>5
<1> QED BY <1>3, <1>4 DEF Holds

LEMMA KnowsKept ==
    ASSUME ServerTyped, ServerTyped', Later, DeadLast', GoneDead, NEW d \in gone,
           NEW q \in Nat, Knows(d, q)
    PROVE  Knows(d, q)'
<1>1. d[2] \in Vaults BY DEF ServerTyped
<1>2. Now(d[2]) \in Nat /\ Now(d[2])' \in Nat /\ Now(d[2]) <= Now(d[2])'
  BY <1>1, LogTypes DEF Later, Now, ServerTyped
<1>3. PICK k \in 1..Now(d[2]) : log[d[2]][k].entry = d[3] /\ log[d[2]][k].dead
  BY DEF GoneDead
<1>4. k <= q BY <1>3 DEF Knows
<1>5. k \in 1..Now(d[2])' /\ log'[d[2]][k] = log[d[2]][k]
  BY <1>1, <1>2, <1>3 DEF Later, Now
<1>6. ASSUME NEW j \in 1..Now(d[2])', log'[d[2]][j].entry = d[3] PROVE j <= q
  BY <1>1, <1>3, <1>5, <1>6, <1>4 DEF DeadLast
<1> QED BY <1>6 DEF Knows

-----------------------------------------------------------------------------
(* Pages and deltas.                                                         *)

(* A deletion is the last change of its entry. *)
LEMMA DeadIsLast ==
    ASSUME ServerTyped, DeadLast, NEW v \in Vaults, NEW e, NEW q \in Nat, q <= Now(v),
           LastChange(v, e, q) # 0, ~Alive(v, LastChange(v, e, q))
    PROVE  LastChange(v, e, Now(v)) = LastChange(v, e, q)
<1>1. Now(v) \in Nat /\ \A i \in 1..Now(v) : log[v][i].dead \in BOOLEAN
  BY LogTypes
<1>2. PICK m, n : m = LastChange(v, e, q) /\ n = LastChange(v, e, Now(v))
  OBVIOUS
<1>3. /\ m \in 0..q /\ log[v][m].entry = e /\ log[v][m].dead /\ m # 0
  BY <1>2, Last DEF Alive
<1>4. n \in 0..Now(v) /\ (n # 0 => log[v][n].entry = e) /\ m <= n
  BY <1>1, <1>2, <1>3, Last
<1>5. m \in 1..Now(v) /\ n \in 1..Now(v) /\ log[v][n].entry = log[v][m].entry
  BY <1>1, <1>3, <1>4
<1>6. n <= m BY <1>3, <1>5 DEF DeadLast
<1> QED BY <1>2, <1>4, <1>5, <1>6

LEMMA NothingAlive == \A v : ~Alive(v, 0)
BY DEF Alive

(* A change page makes a full copy one of a later sequence. *)
LEMMA DeltaFull ==
    ASSUME ServerTyped, NEW v \in Vaults, NEW items \in Holdings, NEW from \in Nat,
           NEW to \in Nat, NEW q \in {to, Now(v)}, from <= to, to <= Now(v),
           Full(v, items, from)
    PROVE  LET m == Merge(items, DeltaItems(v, from, to, q)) IN
           /\ m \in Holdings /\ Full(v, m, to)
           /\ \A e \in Entries : items[e] <= m[e]
<1>1. Now(v) \in Nat /\ q \in Nat /\ to <= q /\ q <= Now(v) BY LogTypes
<1>2. PICK new : new = DeltaItems(v, from, to, q) OBVIOUS
<1>3. PICK m : m = Merge(items, new) OBVIOUS
<1>4. ASSUME NEW e \in Entries
      PROVE  /\ m[e] \in Nat /\ items[e] <= m[e] /\ items[e] \in Nat
             /\ Of(v, e, m[e]) /\ Holds(v, e, m[e], to)
  BY <1>1, Last, LastGrows, <1>2, <1>3 DEF Full, Holdings, DeltaItems, Merge, Of, Holds, Changed
<1>5. m = [e \in Entries |-> m[e]] BY <1>3 DEF Merge
<1>6. m \in Holdings BY <1>4, <1>5 DEF Holdings
<1>7. Full(v, m, to) BY <1>4 DEF Full
<1> QED BY <1>2, <1>3, <1>4, <1>6, <1>7

(* A page of entries serves those it is about. *)
LEMMA PageServes ==
    ASSUME ServerTyped, DeadLast, NEW v \in Vaults, NEW es, NEW base \in Nat,
           base <= Now(v), NEW q \in {base, Now(v)}
    PROVE  LET new == PageItems(v, es, q) IN
           /\ new \in Holdings
           /\ \A e \in Entries : /\ Of(v, e, new[e]) /\ (e \notin es => new[e] = 0)
                                 /\ e \in es => Holds(v, e, new[e], base)
<1>1. Now(v) \in Nat /\ q \in Nat /\ base <= q /\ q <= Now(v) BY LogTypes
<1>2. PICK new : new = PageItems(v, es, q) OBVIOUS
<1>4. ASSUME NEW e \in Entries
      PROVE  /\ new[e] \in Nat /\ Of(v, e, new[e]) /\ (e \notin es => new[e] = 0)
             /\ e \in es => Holds(v, e, new[e], base)
  BY <1>1, Last, LastGrows, <1>2, DeadIsLast, NothingAlive DEF PageItems, Of, Holds
<1>5. new = [e \in Entries |-> new[e]] BY <1>2 DEF PageItems
<1>6. new \in Holdings BY <1>4, <1>5 DEF Holdings
<1> QED BY <1>2, <1>4, <1>6

LEMMA FirstPage ==
    ASSUME ServerTyped, DeadLast, NEW v \in Vaults, NEW es, NEW base \in Nat,
           base <= Now(v), NEW q \in {base, Now(v)}
    PROVE  Partial(v, PageItems(v, es, q), Entries \ es, base)
BY PageServes DEF Partial

LEMMA NextPage ==
    ASSUME ServerTyped, DeadLast, NEW v \in Vaults, NEW need, NEW es \in SUBSET need,
           NEW base \in Nat, base <= Now(v), NEW q \in {base, Now(v)},
           NEW items \in Holdings, Partial(v, items, need, base)
    PROVE  LET m == Merge(items, PageItems(v, es, q)) IN
           m \in Holdings /\ Partial(v, m, need \ es, base)
<1>1. PICK new : new = PageItems(v, es, q) OBVIOUS
<1>2. PICK m : m = Merge(items, new) OBVIOUS
<1>3. /\ new \in Holdings
      /\ \A e \in Entries : /\ Of(v, e, new[e]) /\ (e \notin es => new[e] = 0)
                            /\ e \in es => Holds(v, e, new[e], base)
  BY <1>1, PageServes
<1>4. ASSUME NEW e \in Entries
      PROVE  /\ m[e] \in Nat /\ Of(v, e, m[e])
             /\ e \in need \ es => m[e] = 0
             /\ e \notin need \ es => Holds(v, e, m[e], base)
  BY <1>2, <1>3 DEF Merge, Holdings, Partial
<1>5. m = [e \in Entries |-> m[e]] BY <1>2 DEF Merge
<1>6. m \in Holdings BY <1>4, <1>5 DEF Holdings
<1>7. Partial(v, m, need \ es, base) BY <1>4 DEF Partial
<1> QED BY <1>1, <1>2, <1>6, <1>7

LEMMA PartialIsFull ==
    ASSUME NEW v, NEW items, NEW q
    PROVE  Partial(v, items, {}, q) <=> Full(v, items, q)
BY DEF Partial, Full

-----------------------------------------------------------------------------
(* The queue.                                                                *)

LEMMA StepNames ==
    {"turn", "await", "list", "scan", "sync", "delta", "snap", "page", "vpage", "close",
     "vclose", "done", "index", "rebuild", "send", "purge"} \subseteq Steps
BY DEF Steps, Networked

LEMMA IdleTyped ==
    Idle \in Calls /\ Idle.kind = "none" /\ Idle.at = "idle" /\ Idle.redo = FALSE
<1>1. PICK r : r = Idle OBVIOUS
<1>2. /\ r.kind = "none" /\ r.at = "idle" /\ r.user = None /\ r.v = None /\ r.vseq = 0
      /\ r.mine = TRUE /\ r.was = 0 /\ r.floor = 0 /\ r.exp = 0 /\ r.upper = None
      /\ r.pers = FALSE /\ r.rt = 0 /\ r.need = {} /\ r.items = None /\ r.todo = {}
      /\ r.who = None /\ r.listed = None /\ r.detail = None /\ r.redo = FALSE
  BY <1>1 DEF Idle
<1>3. r \in Calls BY <1>1 DEF Idle, Calls, CallKinds, Steps, Networked
<1> QED BY <1>1, <1>2, <1>3

(* The call whose turn it is. *)
AtHead(o) == queue # <<>> /\ queue[1] = o /\ Queued(o)

LEMMA QueueTypes ==
    ASSUME CallsTyped
    PROVE  /\ Len(queue) \in Nat /\ \A i \in 1..Len(queue) : queue[i] \in Ops
           /\ \A o \in Ops : op[o] \in Calls
           /\ flight # None => flight.by \in Ops /\ flight.repair \in BOOLEAN
BY DEF CallsTyped

LEMMA TurnIsHead ==
    ASSUME CallsTyped, Serial, NEW o \in Ops, NEW kinds, Turn(o, kinds)
    PROVE  AtHead(o) /\ ~Under(o)
<1>1. Queued(o) /\ ~Under(o) BY DEF Turn, Queued, Under
<1>2. PICK i \in 1..Len(queue) : queue[i] = o BY <1>1 DEF Serial
<1> QED BY <1>1, <1>2, QueueTypes DEF AtHead, Turn

LEMMA UnderIsHead ==
    ASSUME CallsTyped, Serial, NEW o \in Ops, Under(o)
    PROVE  AtHead(o)
<1>1. Queued(o) /\ op[o].at # "turn" BY DEF Under, Queued
<1>2. PICK i \in 1..Len(queue) : queue[i] = o BY <1>1 DEF Serial
<1>3. i \notin 2..Len(queue) BY <1>1, <1>2 DEF Serial
<1> QED BY <1>1, <1>2, <1>3, QueueTypes DEF AtHead

LEMMA OneAtATime ==
    ASSUME CallsTyped, Serial, NEW o \in Ops, AtHead(o), NEW p \in Ops, p # o
    PROVE  ~Under(p)
BY UnderIsHead DEF AtHead

LEMMA TailOf ==
    ASSUME CallsTyped, NEW o \in Ops, AtHead(o)
    PROVE  /\ Len(queue) \in Nat /\ Len(queue) >= 1
           /\ Tail(queue) \in Seq(Ops) /\ Len(Tail(queue)) = Len(queue) - 1
           /\ \A i \in 1..(Len(queue) - 1) : Tail(queue)[i] = queue[i + 1]
BY DEF CallsTyped, AtHead

LEMMA AppendOf ==
    ASSUME NEW q \in Seq(Ops), NEW o \in Ops
    PROVE  /\ Append(q, o) \in Seq(Ops) /\ Len(q) \in Nat /\ Len(Append(q, o)) = Len(q) + 1
           /\ \A i \in 1..Len(q) : Append(q, o)[i] = q[i]
           /\ Append(q, o)[Len(q) + 1] = o
OBVIOUS

(* A call goes on to its next step. *)
Moved(o, r) ==
    /\ op' = [op EXCEPT ![o] = r] /\ r \in Calls /\ r.kind = op[o].kind
    /\ r.at \notin {"idle", "await", "turn"}
    /\ r.at \in {"send", "purge"} => r.kind = "delete"
    /\ UNCHANGED <<queue, flight>>

LEMMA SerialMoved ==
    ASSUME CallsTyped, Serial, NEW o \in Ops, NEW r, AtHead(o), Moved(o, r)
    PROVE  /\ CallsTyped' /\ Serial' /\ op'[o] = r
           /\ \A p \in Ops : p # o => op'[p] = op[p] /\ ~Under(p)'
<1>1. op'[o] = r /\ \A p \in Ops : p # o => op'[p] = op[p]
  BY DEF Moved, CallsTyped
<1>2. CallsTyped' BY DEF Moved, CallsTyped
<1>3. \A p \in Ops : p # o => ~Under(p)' BY <1>1, OneAtATime DEF Under
<1>4. \A p \in Ops : Queued(p)' <=> Queued(p)
  BY <1>1 DEF Queued, Moved, AtHead
<1>5. UNCHANGED <<queue, flight>> BY DEF Moved
<1>6. \A i \in 2..Len(queue') : op'[queue'[i]].at = "turn"
  BY <1>5, QueueTypes, <1>1 DEF Serial, AtHead
<1>7. flight' # None => Queued(flight.by)' /\ op'[flight'.by].kind \in {"refresh", "repair"}
  BY <1>1, <1>4, <1>5, QueueTypes DEF Serial, Moved
<1>8. \A p \in Ops : /\ op'[p].at = "await" => flight' # None
                     /\ op'[p].at \in {"send", "purge"} => op'[p].kind = "delete"
  BY <1>1, <1>5 DEF Moved, Serial
<1>9. Serial' BY <1>4, <1>5, <1>6, <1>7, <1>8 DEF Serial
<1> QED BY <1>1, <1>2, <1>3, <1>9

(* What is left of the calls once one is settled. *)
Left(o) ==
    \A p \in Ops : /\ ~Under(p)'
                   /\ \/ op'[p] = Idle
                      \/ /\ ~Under(p) /\ op'[p].redo = op[p].redo
                         /\ op'[p].kind = op[p].kind /\ op'[p].user = op[p].user
                         /\ op'[p].v = op[p].v

LEMMA SerialSettled ==
    ASSUME CallsTyped, Serial, NEW o \in Ops, AtHead(o), Settle(o)
    PROVE  CallsTyped' /\ Serial' /\ Left(o)
<1> DEFINE ended == {o} \cup (Joined(o) \ Waiting(o))
           n == Len(queue)
<1>0. /\ n \in Nat /\ n >= 1 /\ Tail(queue) \in Seq(Ops) /\ Len(Tail(queue)) = n - 1
      /\ \A i \in 1..(n - 1) : Tail(queue)[i] = queue[i + 1]
      /\ \A i \in 1..n : queue[i] \in Ops
      /\ \A i, j \in 1..n : queue[i] = queue[j] => i = j
      /\ queue[1] = o
  BY TailOf, QueueTypes DEF Serial, AtHead
<1>01. /\ \A i \in 1..n : i = n \/ i \in 1..(n - 1)
       /\ n \in 1..n /\ \A i \in 1..(n - 1) : i \in 1..n /\ i + 1 \in 1..n
  <2>1. PICK k : k = n OBVIOUS
  <2>2. k \in Nat /\ k >= 1 BY <1>0, <2>1
  <2>3. /\ \A i \in 1..k : i = k \/ i \in 1..(k - 1)
        /\ k \in 1..k /\ \A i \in 1..(k - 1) : i \in 1..k /\ i + 1 \in 1..k
    BY <2>2
  <2> QED BY <2>1, <2>3
<1>1. \A p \in Ops : /\ Queued(p) <=> \E i \in 1..n : queue[i] = p
                     /\ p # o => (Queued(p) <=> \E i \in 1..(n - 1) : queue[i + 1] = p)
  <2>1. \A p \in Ops : Queued(p) <=> \E i \in 1..n : queue[i] = p
    BY DEF Serial
  <2>2. ASSUME NEW p \in Ops, p # o
        PROVE  (\E i \in 1..n : queue[i] = p) <=> \E i \in 1..(n - 1) : queue[i + 1] = p
    <3>1. ASSUME NEW i \in 1..n, queue[i] = p PROVE \E j \in 1..(n - 1) : queue[j + 1] = p
      <4>1. i - 1 \in 1..(n - 1) /\ queue[(i - 1) + 1] = p
        BY <1>0, <2>2, <3>1
      <4> QED BY <4>1
    <3>2. ASSUME NEW i \in 1..(n - 1), queue[i + 1] = p PROVE \E j \in 1..n : queue[j] = p
      <4>1. i + 1 \in 1..n
        BY <1>0
      <4> QED BY <3>2, <4>1
    <3> QED BY <3>1, <3>2
  <2> QED BY <2>1, <2>2
<1>2. \A p \in Joined(o) : /\ p \in Ops /\ op[p].at = "await" /\ ~Queued(p) /\ p # o
                           /\ flight # None /\ flight.by = o
  BY DEF Joined, Queued, AtHead
<1>3. \A p \in Ops : op[p] \in Calls BY QueueTypes
<1>4. \A p \in Ops : p # o => ~Under(p) BY OneAtATime
<1>5. CASE Waiting(o) = {}
  <2>1. /\ op' = [p \in Ops |-> IF p \in ended THEN Idle ELSE op[p]]
        /\ queue' = Tail(queue)
        /\ flight' = IF flight # None /\ flight.by = o THEN None ELSE flight
    BY <1>5 DEF Settle, Released
  <2>2. \A p \in Ops : op'[p] = IF p \in ended THEN Idle ELSE op[p] BY <2>1
  <2>3. CallsTyped' BY <1>0, <1>3, <2>1, IdleTyped DEF CallsTyped
  <2>4. Left(o) BY <1>4, <2>2, IdleTyped DEF Left, Under
  <2>5. \A p \in Ops : Queued(p)' <=> p # o /\ Queued(p)
    BY <1>2, <2>2, IdleTyped DEF Queued
  <2>6. \A p \in Ops : Queued(p)' <=> \E i \in 1..Len(queue') : queue'[i] = p
    BY <1>0, <2>1, <1>1, <2>5
  <2>7. \A i, j \in 1..Len(queue') : queue'[i] = queue'[j] => i = j
    BY <1>0, <2>1
  <2>8. \A i \in 2..Len(queue') : op'[queue'[i]].at = "turn"
    BY <1>0, <2>1, <1>2, <2>2 DEF Serial
  <2>9. flight' # None => Queued(flight.by)' /\ op'[flight'.by].kind \in {"refresh", "repair"}
    BY <2>1, QueueTypes, <1>2, <2>2 DEF Serial, Queued
  <2>10. \A p \in Ops : /\ op'[p].at = "await" => flight' # None
                        /\ op'[p].at \in {"send", "purge"} => op'[p].kind = "delete"
    BY <2>2, IdleTyped, <1>5, <2>1 DEF Serial, Joined
  <2>11. Serial' BY <2>6, <2>7, <2>8, <2>9, <2>10 DEF Serial
  <2> QED BY <2>3, <2>4, <2>11
<1>6. CASE Waiting(o) # {}
  <2>1. PICK first \in Waiting(o) :
         /\ op' = [p \in Ops |-> IF p = first THEN [op[p] EXCEPT !.at = "turn"]
                                 ELSE IF p \in ended THEN Idle ELSE op[p]]
         /\ queue' = Append(Tail(queue), first)
         /\ flight' = [by |-> first, repair |-> TRUE]
    BY <1>6 DEF Settle, Released
  <2>2. /\ first \in Joined(o) /\ first \in Ops /\ op[first].kind = "repair"
        /\ first \notin ended /\ first # o /\ op[first].at = "await" /\ ~Queued(first)
    BY <1>2, <2>1 DEF Waiting
  <2>3. PICK r : r = [op[first] EXCEPT !.at = "turn"] OBVIOUS
  <2>4. /\ r \in Calls /\ r.at = "turn" /\ r.kind = op[first].kind
        /\ r.user = op[first].user /\ r.v = op[first].v /\ r.redo = op[first].redo
    BY <1>3, <2>2, <2>3, StepNames DEF Calls
  <2>5. \A p \in Ops : op'[p] = IF p = first THEN r ELSE IF p \in ended THEN Idle ELSE op[p]
    BY <2>1, <2>3
  <2>6. /\ queue' \in Seq(Ops) /\ Len(queue') = n
        /\ \A i \in 1..(n - 1) : queue'[i] = queue[i + 1]
        /\ queue'[n] = first
    <3>1. PICK t \in Seq(Ops) : t = Tail(queue) BY <1>0
    <3> QED BY <1>0, <2>1, <2>2, <3>1, AppendOf
  <2>71. flight' = [by |-> first, repair |-> TRUE] /\ first \in Ops
    BY <2>1, <2>2
  <2>7. flight' \in [by : Ops, repair : BOOLEAN] /\ flight' # None /\ flight'.by = first
    <3>1. flight' \in [by : Ops, repair : BOOLEAN] /\ flight'.by = first
      BY <2>71
    <3> QED BY <3>1, NoneIsNoRefresh
  <2>8. op' \in [Ops -> Calls] BY <2>1, <1>3, <2>4, <2>5, IdleTyped
  <2>9. CallsTyped' BY <2>6, <2>7, <2>8 DEF CallsTyped
  <2>10. Left(o) BY <1>4, <2>2, <2>4, <2>5, IdleTyped DEF Left, Under
  <2>11. \A p \in Ops : Queued(p)' <=> p = first \/ (p # o /\ Queued(p))
    BY <1>2, <2>2, <2>4, <2>5, IdleTyped DEF Queued
  <2>12. \A p \in Ops : Queued(p)' <=> \E i \in 1..Len(queue') : queue'[i] = p
    <3>1. \A p \in Ops : (\E i \in 1..n : queue'[i] = p)
                           <=> p = first \/ \E i \in 1..(n - 1) : queue[i + 1] = p
      BY <1>01, <2>6
    <3>2. ~\E i \in 1..(n - 1) : queue[i + 1] = o BY <1>0
    <3> QED BY <1>1, <2>6, <2>11, <3>1, <3>2
  <2>13. \A i \in 1..n : queue[i] # first BY <1>1, <2>2
  <2>14. \A i, j \in 1..Len(queue') : queue'[i] = queue'[j] => i = j
    <3> SUFFICES ASSUME NEW i \in 1..n, NEW j \in 1..n, queue'[i] = queue'[j]
                 PROVE  i = j
      BY <2>6
    <3>1. \A k \in 1..(n - 1) : k + 1 \in 1..n /\ queue'[k] # first
      BY <1>0, <2>6, <2>13
    <3>0. \A k \in 1..n : k = n \/ k \in 1..(n - 1) BY <1>01
    <3>2. CASE i = n \/ j = n BY <2>6, <3>0, <3>1, <3>2
    <3>3. CASE i # n /\ j # n
      <4>1. i \in 1..(n - 1) /\ j \in 1..(n - 1) /\ i + 1 \in 1..n /\ j + 1 \in 1..n
        BY <3>0, <3>1, <3>3
      <4>2. queue[i + 1] = queue[j + 1] BY <2>6, <4>1
      <4>3. i + 1 = j + 1 BY <1>0, <4>1, <4>2
      <4> QED BY <4>3
    <3> QED BY <3>2, <3>3
  <2>15. \A i \in 2..Len(queue') : op'[queue'[i]].at = "turn"
    <3> SUFFICES ASSUME NEW i \in 2..n PROVE op'[queue'[i]].at = "turn"
      BY <2>6
    <3>1. CASE i = n BY <2>2, <2>4, <2>5, <2>6, <3>1
    <3>2. CASE i # n
      <4>0. i \in 1..(n - 1) /\ i + 1 \in 2..n /\ i + 1 \in 1..n
        <5>1. PICK k : k = n OBVIOUS
        <5>2. k \in Nat /\ k >= 1 /\ i \in 2..k /\ i # k BY <1>0, <3>2, <5>1
        <5>3. i \in 1..(k - 1) /\ i + 1 \in 2..k /\ i + 1 \in 1..k BY <5>2
        <5> QED BY <5>1, <5>3
      <4>1. /\ i + 1 \in 2..n /\ i + 1 \in 1..n /\ queue'[i] = queue[i + 1]
            /\ queue[i + 1] \in Ops /\ queue[i + 1] # o
        BY <1>0, <2>6, <4>0
      <4>2. op[queue[i + 1]].at = "turn" BY <4>1 DEF Serial
      <4>3. queue[i + 1] \notin ended /\ queue[i + 1] # first
        BY <1>2, <2>13, <4>1, <4>2
      <4> QED BY <2>5, <4>1, <4>2, <4>3
    <3> QED BY <3>1, <3>2
  <2>16. Queued(flight.by)' /\ op'[flight'.by].kind \in {"refresh", "repair"}
    BY <2>2, <2>4, <2>5, <2>7 DEF Queued
  <2>17. \A p \in Ops : op'[p].at \in {"send", "purge"} => op'[p].kind = "delete"
    BY <2>4, <2>5, IdleTyped DEF Serial
  <2>18. Serial' BY <2>7, <2>12, <2>14, <2>15, <2>16, <2>17 DEF Serial
  <2> QED BY <2>9, <2>10, <2>18
<1> QED BY <1>5, <1>6

-----------------------------------------------------------------------------
(* Calls that begin.                                                         *)

(* A call takes its place in the queue, or waits for the refresh in flight.  *)
LEMMA SerialJoined ==
    ASSUME CallsTyped, Serial, NEW o \in Ops, NEW q \in Seq(Ops), NEW r \in Calls,
           \A i, j \in 1..Len(q) : q[i] = q[j] => i = j,
           \A i \in 1..Len(q) : q[i] # o,
           \A p \in Ops : p # o => (Queued(p) <=> \E i \in 1..Len(q) : q[i] = p),
           \A i \in 2..Len(q) : op[q[i]].at = "turn",
           flight # None => flight.by # o,
           r.at \in {"await", "turn"}, r.at = "await" => flight # None,
           op' = [op EXCEPT ![o] = r],
           queue' = IF r.at = "turn" THEN Append(q, o) ELSE q,
           \/ flight' = flight
           \/ /\ flight = None /\ r.at = "turn" /\ r.kind \in {"refresh", "repair"}
              /\ \E b \in BOOLEAN : flight' = [by |-> o, repair |-> b]
    PROVE  /\ CallsTyped' /\ Serial' /\ op'[o] = r /\ ~Under(o)'
           /\ \A p \in Ops : p # o => op'[p] = op[p]
<1>1. op'[o] = r /\ (\A p \in Ops : p # o => op'[p] = op[p]) /\ op' \in [Ops -> Calls]
  BY DEF CallsTyped
<1>2. PICK n \in Nat : n = Len(q) OBVIOUS
<1>3. /\ queue' \in Seq(Ops)
      /\ r.at = "turn" => /\ Len(queue') = n + 1 /\ queue'[n + 1] = o
                          /\ \A i \in 1..n : queue'[i] = q[i]
      /\ r.at # "turn" => queue' = q
  BY <1>2, AppendOf
<1>4. flight' \in [by : Ops, repair : BOOLEAN] \cup {None} BY DEF CallsTyped
<1>5. CallsTyped' BY <1>1, <1>3, <1>4 DEF CallsTyped
<1>6. \A i \in 1..(n + 1) : i = n + 1 \/ i \in 1..n BY <1>2
<1>7. n + 1 \in 1..(n + 1) /\ \A i \in 1..n : i \in 1..(n + 1) BY <1>2
<1>8. \A p \in Ops : /\ p # o => (Queued(p)' <=> Queued(p))
                     /\ Queued(o)' <=> r.at = "turn"
  BY <1>1 DEF Queued
<1>9. \A p \in Ops : Queued(p)' <=> \E i \in 1..Len(queue') : queue'[i] = p
  BY <1>2, <1>3, <1>6, <1>7, <1>8
<1>10. \A i, j \in 1..Len(queue') : queue'[i] = queue'[j] => i = j
  BY <1>2, <1>3, <1>6, <1>7
<1>11. \A i \in 2..Len(queue') : op'[queue'[i]].at = "turn"
  BY <1>2, <1>1, <1>3
<1>12. flight' # None => Queued(flight.by)' /\ op'[flight'.by].kind \in {"refresh", "repair"}
  BY QueueTypes, <1>1 DEF Serial, Queued
<1>13. flight # None => flight' # None OBVIOUS
<1>14. \A p \in Ops : /\ op'[p].at = "await" => flight' # None
                      /\ op'[p].at \in {"send", "purge"} => op'[p].kind = "delete"
  BY <1>1, <1>13 DEF Serial
<1>15. Serial' BY <1>9, <1>10, <1>11, <1>12, <1>14 DEF Serial
<1> QED BY <1>1, <1>5, <1>15 DEF Under

(* An idle call is in no queue. *)
LEMMA IdleIsFree ==
    ASSUME CallsTyped, Serial, NEW o \in Ops, op[o] = Idle
    PROVE  /\ queue \in Seq(Ops)
           /\ \A i, j \in 1..Len(queue) : queue[i] = queue[j] => i = j
           /\ \A i \in 1..Len(queue) : queue[i] # o
           /\ \A p \in Ops : p # o => (Queued(p) <=> \E i \in 1..Len(queue) : queue[i] = p)
           /\ \A i \in 2..Len(queue) : op[queue[i]].at = "turn"
           /\ flight # None => flight.by # o
BY IdleTyped DEF Queued, CallsTyped, Serial

(* What a call that has begun holds: its kind and whom it is about. *)
Begun(o, kind) ==
    /\ ~Under(o)' /\ op'[o].kind = kind /\ ~op'[o].redo
    /\ \A p \in Ops : p # o => op'[p] = op[p]

LEMMA SerialBegun ==
    ASSUME CallsTyped, Serial, NEW o \in Ops, NEW q \in Seq(Ops),
           NEW kind \in {"refresh", "repair"}, Begin(o, kind, q),
           \A i, j \in 1..Len(q) : q[i] = q[j] => i = j,
           \A i \in 1..Len(q) : q[i] # o,
           \A p \in Ops : p # o => (Queued(p) <=> \E i \in 1..Len(q) : q[i] = p),
           \A i \in 2..Len(q) : op[q[i]].at = "turn",
           flight # None => flight.by # o
    PROVE  CallsTyped' /\ Serial' /\ Begun(o, kind)
<1>1. PICK c : c = [Idle EXCEPT !.kind = kind] OBVIOUS
<1>2. PICK s : s = [c EXCEPT !.at = IF flight # None THEN "await" ELSE "turn"]
  OBVIOUS
<1>3. c \in Calls /\ c.kind = kind /\ c.redo = FALSE
  BY <1>1, IdleTyped DEF Calls, CallKinds
<1>4. s \in Calls /\ s.kind = kind /\ s.redo = FALSE /\ s.at = IF flight # None THEN "await" ELSE "turn"
  BY <1>2, <1>3, StepNames DEF Calls
<1>5. /\ op' = [op EXCEPT ![o] = s]
      /\ queue' = IF s.at = "turn" THEN Append(q, o) ELSE q
      /\ \/ flight' = flight
         \/ /\ flight = None /\ s.at = "turn"
            /\ flight' = [by |-> o, repair |-> kind = "repair"]
  <2>1. CASE flight # None BY <1>2, <1>4, <2>1, <1>1 DEF Begin, Set
  <2>2. CASE flight = None BY <1>2, <1>4, <2>2, <1>1 DEF Begin, Set
  <2> QED BY <2>1, <2>2
<1>6. \/ flight' = flight
      \/ /\ flight = None /\ s.at = "turn" /\ s.kind \in {"refresh", "repair"}
         /\ \E b \in BOOLEAN : flight' = [by |-> o, repair |-> b]
  BY <1>4, <1>5
<1>7. s.at \in {"await", "turn"} /\ (s.at = "await" => flight # None) BY <1>4
<1>8. /\ CallsTyped' /\ Serial' /\ op'[o] = s /\ ~Under(o)'
      /\ \A p \in Ops : p # o => op'[p] = op[p]
  BY <1>4, <1>5, <1>6, <1>7, SerialJoined
<1> QED BY <1>4, <1>8 DEF Begun

LEMMA SerialRefresh ==
    ASSUME CallsTyped, Serial, NEW o \in Ops, NEW kind \in {"refresh", "repair"},
           Refresh(o, kind)
    PROVE  CallsTyped' /\ Serial' /\ Begun(o, kind)
BY IdleIsFree, SerialBegun DEF Refresh

LEMMA SerialSent ==
    ASSUME CallsTyped, Serial, NEW o \in Ops, op[o].at = "purge",
           Begin(o, "repair", Tail(queue))
    PROVE  CallsTyped' /\ Serial' /\ Begun(o, "repair")
<1>1. AtHead(o) /\ op[o].kind = "delete" BY UnderIsHead DEF Under, Serial
<1>2. /\ Len(queue) \in Nat /\ Len(queue) >= 1 /\ Tail(queue) \in Seq(Ops)
      /\ Len(Tail(queue)) = Len(queue) - 1
      /\ \A i \in 1..(Len(queue) - 1) : Tail(queue)[i] = queue[i + 1]
  BY <1>1, TailOf
<1>3. PICK n, t : n = Len(queue) /\ t = Tail(queue) OBVIOUS
<1>4. /\ n \in Nat /\ n >= 1 /\ t \in Seq(Ops) /\ Len(t) = n - 1 /\ queue[1] = o
      /\ \A i \in 1..(n - 1) : t[i] = queue[i + 1] /\ i + 1 \in 1..n /\ i + 1 \in 2..n
  BY <1>1, <1>2, <1>3 DEF AtHead
<1>41. 1 \in 1..n /\ \A i \in 1..n : i = 1 \/ (i - 1 \in 1..(n - 1) /\ (i - 1) + 1 = i)
  BY <1>4
<1>5. \A i, j \in 1..n : queue[i] = queue[j] => i = j BY <1>3 DEF Serial
<1>6. \A i, j \in 1..Len(t) : t[i] = t[j] => i = j BY <1>4, <1>5
<1>7. \A i \in 1..Len(t) : t[i] # o BY <1>4, <1>41, <1>5
<1>8. ASSUME NEW p \in Ops, p # o PROVE Queued(p) <=> \E i \in 1..Len(t) : t[i] = p
  <2>1. Queued(p) <=> \E i \in 1..n : queue[i] = p BY <1>3 DEF Serial
  <2>2. (\E i \in 1..n : queue[i] = p) => \E i \in 1..(n - 1) : t[i] = p
    <3> SUFFICES ASSUME NEW i \in 1..n, queue[i] = p PROVE \E j \in 1..(n - 1) : t[j] = p
      OBVIOUS
    <3>1. i - 1 \in 1..(n - 1) /\ t[i - 1] = p BY <1>4, <1>41, <1>8
    <3> QED BY <3>1
  <2>3. (\E i \in 1..(n - 1) : t[i] = p) => \E i \in 1..n : queue[i] = p
    BY <1>4
  <2> QED BY <1>4, <2>1, <2>2, <2>3
<1>9. \A i \in 2..Len(t) : op[t[i]].at = "turn" BY <1>4, <1>3 DEF Serial
<1>10. flight # None => flight.by # o BY <1>1 DEF Serial
<1>11. Begin(o, "repair", t) BY <1>3
<1> QED BY <1>4, <1>6, <1>7, <1>8, <1>9, <1>10, <1>11, SerialBegun

LEMMA SerialEnqueued ==
    ASSUME CallsTyped, Serial, NEW o \in Ops, NEW kind \in CallKinds, NEW u \in Users \cup {None},
           NEW v \in Vaults \cup {None}, Enqueue(o, kind, u, v)
    PROVE  CallsTyped' /\ Serial' /\ Begun(o, kind) /\ op'[o].user = u /\ op'[o].v = v
<1>1. PICK r : r = [Idle EXCEPT !.kind = kind, !.at = "turn", !.user = u, !.v = v]
  OBVIOUS
<1>2. r \in Calls /\ r.kind = kind /\ r.at = "turn" /\ r.user = u /\ r.v = v /\ ~r.redo
  BY <1>1, IdleTyped, StepNames DEF Calls
<1>3. /\ op[o] = Idle /\ op' = [op EXCEPT ![o] = r] /\ queue' = Append(queue, o)
      /\ flight' = flight
  BY <1>1 DEF Enqueue, Set
<1>4. /\ CallsTyped' /\ Serial' /\ op'[o] = r /\ ~Under(o)'
      /\ \A p \in Ops : p # o => op'[p] = op[p]
  <2>1. /\ r.at \in {"await", "turn"} /\ (r.at = "await" => flight # None)
        /\ queue' = IF r.at = "turn" THEN Append(queue, o) ELSE queue
    BY <1>2, <1>3
  <2>2. PICK q \in Seq(Ops) : q = queue BY IdleIsFree, <1>3
  <2>3. /\ \A i, j \in 1..Len(q) : q[i] = q[j] => i = j
        /\ \A i \in 1..Len(q) : q[i] # o
        /\ \A p \in Ops : p # o => (Queued(p) <=> \E i \in 1..Len(q) : q[i] = p)
        /\ \A i \in 2..Len(q) : op[q[i]].at = "turn"
        /\ flight # None => flight.by # o
    BY IdleIsFree, <1>3, <2>2
  <2>4. queue' = IF r.at = "turn" THEN Append(q, o) ELSE q BY <2>1, <2>2
  <2> QED BY <1>2, <1>3, <2>1, <2>3, <2>4, SerialJoined
<1> QED BY <1>2, <1>4 DEF Begun

-----------------------------------------------------------------------------
(* What is stored may be dropped.                                            *)

Places == [act : SyncCopies \cup {None}, pend : Stages \cup {None}]
Stock == History /\ Owned /\ Whole /\ Hidden

LEMMA CopyTypes ==
    ASSUME CopiesTyped
    PROVE  /\ cache \in [Users -> [Vaults -> Places]]
           /\ \A u \in Users, v \in Vaults :
                /\ cache[u][v] \in Places
                /\ cache[u][v].act \in SyncCopies \cup {None}
                /\ cache[u][v].pend \in Stages \cup {None}
           /\ \A v \in Vaults : vol[v] \in SyncCopies \cup {None}
BY DEF CopiesTyped, Places

LEMMA EmptyTyped == Empty \in Places /\ Empty.act = None /\ Empty.pend = None
BY DEF Empty, Places

(* Copies are dropped, and a mark only once what it marks is gone.           *)
Drops ==
    /\ \A u \in Users, v \in Vaults : cache'[u][v] \in {cache[u][v], Empty}
    /\ \A v \in Vaults : vol'[v] \in {vol[v], None}
    /\ purges' \subseteq purges
    /\ \A u \in Users, v \in Vaults : <<u, v>> \in purges \ purges' =>
         cache'[u][v] = Empty /\ vol'[v] = None

LEMMA DropsTyped ==
    ASSUME CopiesTyped, Drops, cache' \in [Users -> [Vaults -> Places]],
           vol' \in [Vaults -> SyncCopies \cup {None}]
    PROVE  CopiesTyped'
BY DEF CopiesTyped, Drops, Places

LEMMA PurgedDrops ==
    ASSUME CopiesTyped, NEW u \in Users, NEW v \in Vaults, Purged(u, v)
    PROVE  /\ CopiesTyped' /\ Drops
           /\ cache'[u][v] = Empty /\ vol'[v] = None
           /\ \A w \in Users, x \in Vaults :
                w # u \/ x # v => cache'[w][x] = cache[w][x]
           /\ \A x \in Vaults : x # v => vol'[x] = vol[x]
BY CopyTypes, EmptyTyped, DropsTyped DEF Purged, CopiesTyped, Drops

LEMMA PurgeBrokenDrops ==
    ASSUME CopiesTyped, NEW u \in Users, NEW v \in Vaults, PurgeBreaks(u, v)
    PROVE  /\ CopiesTyped' /\ Drops /\ cache' = cache /\ vol'[v] = None
           /\ \A x \in Vaults : x # v => vol'[x] = vol[x]
BY DEF PurgeBreaks, PurgeFailed, CopiesTyped, Drops

(* Who is signed in and connected may change as long as no volatile copy     *)
(* outlives it.                                                              *)
LinkKept ==
    /\ hub' => user' # None
    /\ conn' => hub'
    /\ \A v \in Vaults : vol'[v] # None => conn' /\ user' = user

LEMMA FullSame ==
    ASSUME log' = log, NEW v \in Vaults, NEW items, NEW q, NEW need
    PROVE  /\ Full(v, items, q) => Full(v, items, q)'
           /\ Partial(v, items, need, q) => Partial(v, items, need, q)'
           /\ \A e \in Entries : \A i : Of(v, e, i) => Of(v, e, i)'
<1>1. Now(v)' = Now(v) BY DEF Now
<1>2. \A e, i : Of(v, e, i)' <=> Of(v, e, i) BY DEF Of, Now
<1>3. \A e, i, n : Holds(v, e, i, n)' <=> Holds(v, e, i, n)
  BY DEF Holds, LastChange, Alive, Now
<1>4. Full(v, items, q) => Full(v, items, q)' BY <1>1, <1>2, <1>3 DEF Full
<1>5. Partial(v, items, need, q) => Partial(v, items, need, q)'
  BY <1>1, <1>2, <1>3 DEF Partial
<1> QED BY <1>2, <1>4, <1>5

LEMMA KnowsSame ==
    ASSUME log' = log, NEW d, NEW q, Knows(d, q)
    PROVE  Knows(d, q)'
BY DEF Knows, Now

LEMMA StockDropped ==
    ASSUME CopiesTyped, Stock, Drops, LinkKept, log' = log, gone' \subseteq gone,
           gone \subseteq Users \X Vaults \X Entries
    PROVE  Stock'
<1>1. History' BY DEF Stock, History, DeadLast, GoneDead, Now
<1>2. \A u \in Users, v \in Vaults :
        /\ cache'[u][v].act # None => cache'[u][v].act = cache[u][v].act
        /\ cache'[u][v].pend # None => cache'[u][v].pend = cache[u][v].pend
  BY EmptyTyped DEF Drops
<1>3. \A v \in Vaults : vol'[v] # None => vol'[v] = vol[v] /\ conn' /\ user' = user
  BY DEF Drops, LinkKept
<1>4. Owned' BY <1>2, <1>3 DEF Stock, Owned, LinkKept
<1>5. Whole'
  <2>1. ASSUME NEW v \in Vaults, vol'[v] # None
        PROVE  Full(v, vol[v].items, vol[v].seq)' /\ vol'[v].vseq <= Now(v)'
               /\ vol'[v] = vol[v]
    <3>1. vol'[v] = vol[v] /\ vol[v] # None BY <1>3, <2>1
    <3>2. Full(v, vol[v].items, vol[v].seq) /\ vol[v].vseq <= Now(v)
      BY <3>1 DEF Stock, Whole
    <3>3. PICK items, q : items = vol[v].items /\ q = vol[v].seq OBVIOUS
    <3>4. Full(v, items, q)' BY <3>2, <3>3, FullSame
    <3>5. Full(v, vol[v].items, vol[v].seq)' BY <3>1, <3>3, <3>4 DEF Full
    <3> QED BY <3>1, <3>2, <3>5 DEF Now
  <2>2. ASSUME NEW u \in Users, NEW v \in Vaults, cache'[u][v].act # None
        PROVE  Full(v, cache[u][v].act.items, cache[u][v].act.seq)' /\ cache'[u][v].act.vseq <= Now(v)'
               /\ cache'[u][v].act = cache[u][v].act
    <3>1. cache'[u][v].act = cache[u][v].act /\ cache[u][v].act # None
      BY <1>2, <2>2
    <3>2. Full(v, cache[u][v].act.items, cache[u][v].act.seq) /\ cache[u][v].act.vseq <= Now(v)
      BY <3>1 DEF Stock, Whole
    <3>3. PICK items, q : items = cache[u][v].act.items /\ q = cache[u][v].act.seq
      OBVIOUS
    <3>4. Full(v, items, q)' BY <3>2, <3>3, FullSame
    <3>5. Full(v, cache[u][v].act.items, cache[u][v].act.seq)'
      BY <3>1, <3>3, <3>4 DEF Full
    <3> QED BY <3>1, <3>2, <3>5 DEF Now
  <2>3. ASSUME NEW u \in Users, NEW v \in Vaults, cache'[u][v].pend # None
        PROVE  /\ cache'[u][v].pend.seq <= Now(v)'
               /\ \A e \in Entries : Of(v, e, cache[u][v].pend.items[e])'
               /\ cache'[u][v].pend = cache[u][v].pend
    <3>1. cache'[u][v].pend = cache[u][v].pend /\ cache[u][v].pend # None
      BY <1>2, <2>3
    <3>2. cache[u][v].pend.seq <= Now(v) /\ \A e \in Entries : Of(v, e, cache[u][v].pend.items[e])
      BY <3>1 DEF Stock, Whole
    <3> QED BY <3>1, <3>2 DEF Of, Now
  <2> QED BY <2>1, <2>2, <2>3 DEF Whole
<1>6. Hidden' BY <1>2, <1>3, EmptyTyped DEF Hidden, Drops, Stock, Knows, Now
<1> QED BY <1>1, <1>4, <1>5, <1>6 DEF Stock

-----------------------------------------------------------------------------
(* What is stored may be replaced, and the server may go on.                 *)

(* What is stored of a vault for a user may be replaced by what is as good.  *)
LEMMA StockStored ==
    ASSUME CopiesTyped, Stock, gone \subseteq Users \X Vaults \X Entries,
           NEW u \in Users, NEW v \in Vaults, NEW c \in Places,
           cache' = [cache EXCEPT ![u][v] = c],
           UNCHANGED <<log, gone, user, hub, conn, vol, purges>>,
           c.act # None =>
             /\ c.act.by = u /\ c.act.pol = "offline" /\ c.act.vseq <= Now(v)
             /\ Full(v, c.act.items, c.act.seq)
             /\ \A d \in gone : d[1] = u /\ d[2] = v /\ <<u, v>> \notin purges =>
                  Knows(d, c.act.seq),
           c.pend # None =>
             c.pend.seq <= Now(v) /\ \A e \in Entries : Of(v, e, c.pend.items[e])
    PROVE  CopiesTyped' /\ Stock'
<1>1. /\ cache' \in [Users -> [Vaults -> Places]] /\ cache'[u][v] = c
      /\ \A w \in Users, x \in Vaults : w # u \/ x # v => cache'[w][x] = cache[w][x]
  BY CopyTypes
<1>2. CopiesTyped' BY <1>1 DEF CopiesTyped, Places
<1>3. History' BY DEF Stock, History, DeadLast, GoneDead, Now
<1>4. Owned' BY <1>1 DEF Stock, Owned
<1>5. Whole'
  <2>1. ASSUME NEW x \in Vaults, vol[x] # None
        PROVE  Full(x, vol[x].items, vol[x].seq)' /\ vol[x].vseq <= Now(x)'
    <3>1. PICK b : b = vol[x] OBVIOUS
    <3>2. Full(x, b.items, b.seq) /\ b.vseq <= Now(x)
      BY <2>1, <3>1 DEF Stock, Whole
    <3>3. Full(x, b.items, b.seq)' /\ b.vseq <= Now(x)'
      BY <3>2, FullSame DEF Now
    <3> QED BY <3>1, <3>3 DEF Full
  <2>2. ASSUME NEW w \in Users, NEW x \in Vaults, cache'[w][x].act # None
        PROVE  Full(x, cache[w][x].act.items, cache[w][x].act.seq)'
               /\ cache'[w][x].act.vseq <= Now(x)'
    <3>1. PICK a : a = cache'[w][x].act OBVIOUS
    <3>2. Full(x, a.items, a.seq) /\ a.vseq <= Now(x)
      BY <1>1, <2>2, <3>1 DEF Stock, Whole
    <3>3. Full(x, a.items, a.seq)' /\ a.vseq <= Now(x)'
      BY <3>2, FullSame DEF Now
    <3> QED BY <3>1, <3>3 DEF Full
  <2>3. ASSUME NEW w \in Users, NEW x \in Vaults, cache'[w][x].pend # None
        PROVE  /\ cache'[w][x].pend.seq <= Now(x)'
               /\ \A e \in Entries : Of(x, e, cache[w][x].pend.items[e])'
    <3>1. PICK a : a = cache'[w][x].pend OBVIOUS
    <3>2. a.seq <= Now(x) /\ \A e \in Entries : Of(x, e, a.items[e])
      BY <1>1, <2>3, <3>1 DEF Stock, Whole
    <3> QED BY <3>1, <3>2 DEF Of, Now
  <2> QED BY <2>1, <2>2, <2>3 DEF Whole
<1>6. Hidden'
  <2> SUFFICES ASSUME NEW d \in gone, <<d[1], d[2]>> \notin purges
               PROVE  /\ cache'[d[1]][d[2]].act # None => Knows(d, cache[d[1]][d[2]].act.seq)'
                      /\ vol[d[2]] # None /\ user = d[1] => Knows(d, vol[d[2]].seq)'
    BY DEF Hidden
  <2>1. d[1] \in Users /\ d[2] \in Vaults OBVIOUS
  <2>2. vol[d[2]] # None /\ user = d[1] => Knows(d, vol[d[2]].seq)
    BY DEF Stock, Hidden
  <2>3. PICK a : a = cache'[d[1]][d[2]].act OBVIOUS
  <2>4. a # None => Knows(d, a.seq) BY <1>1, <2>1, <2>3 DEF Stock, Hidden
  <2> QED BY <2>2, <2>3, <2>4 DEF Knows, Now
<1> QED BY <1>2, <1>3, <1>4, <1>5, <1>6 DEF Stock

LEMMA StockHeld ==
    ASSUME CopiesTyped, Stock, gone \subseteq Users \X Vaults \X Entries,
           NEW v \in Vaults, NEW a \in SyncCopies, vol' = [vol EXCEPT ![v] = a],
           UNCHANGED <<log, gone, user, hub, conn, cache, purges>>,
           conn, a.by = user, a.vseq <= Now(v), Full(v, a.items, a.seq),
           \A d \in gone : d[1] = user /\ d[2] = v /\ <<d[1], v>> \notin purges =>
             Knows(d, a.seq)
    PROVE  CopiesTyped' /\ Stock'
<1>1. /\ vol' \in [Vaults -> SyncCopies \cup {None}] /\ vol'[v] = a
      /\ \A x \in Vaults : x # v => vol'[x] = vol[x]
  BY DEF CopiesTyped
<1>2. CopiesTyped' BY <1>1 DEF CopiesTyped
<1>3. History' BY DEF Stock, History, DeadLast, GoneDead, Now
<1>4. Owned' BY <1>1 DEF Stock, Owned
<1>5. Whole'
  <2>1. ASSUME NEW x \in Vaults, vol'[x] # None
        PROVE  Full(x, vol[x].items, vol[x].seq)' /\ vol'[x].vseq <= Now(x)'
    <3>1. PICK b : b = vol'[x] OBVIOUS
    <3>2. Full(x, b.items, b.seq) /\ b.vseq <= Now(x)
      BY <1>1, <2>1, <3>1 DEF Stock, Whole
    <3>3. Full(x, b.items, b.seq)' /\ b.vseq <= Now(x)'
      BY <3>2, FullSame DEF Now
    <3> QED BY <3>1, <3>3 DEF Full
  <2>2. ASSUME NEW w \in Users, NEW x \in Vaults, cache[w][x].act # None
        PROVE  Full(x, cache[w][x].act.items, cache[w][x].act.seq)'
               /\ cache[w][x].act.vseq <= Now(x)'
    <3>1. PICK b : b = cache[w][x].act OBVIOUS
    <3>2. Full(x, b.items, b.seq) /\ b.vseq <= Now(x)
      BY <2>2, <3>1 DEF Stock, Whole
    <3>3. Full(x, b.items, b.seq)' /\ b.vseq <= Now(x)'
      BY <3>2, FullSame DEF Now
    <3> QED BY <3>1, <3>3 DEF Full
  <2>3. ASSUME NEW w \in Users, NEW x \in Vaults, cache[w][x].pend # None
        PROVE  /\ cache[w][x].pend.seq <= Now(x)'
               /\ \A e \in Entries : Of(x, e, cache[w][x].pend.items[e])'
    BY <2>3 DEF Stock, Whole, Of, Now
  <2> QED BY <2>1, <2>2, <2>3 DEF Whole
<1>6. Hidden'
  <2> SUFFICES ASSUME NEW d \in gone, <<d[1], d[2]>> \notin purges
               PROVE  /\ cache[d[1]][d[2]].act # None => Knows(d, cache[d[1]][d[2]].act.seq)'
                      /\ vol'[d[2]] # None /\ user = d[1] => Knows(d, vol[d[2]].seq)'
    BY DEF Hidden
  <2>1. d[1] \in Users /\ d[2] \in Vaults OBVIOUS
  <2>2. cache[d[1]][d[2]].act # None => Knows(d, cache[d[1]][d[2]].act.seq)
    BY DEF Stock, Hidden
  <2>3. PICK b : b = vol'[d[2]] OBVIOUS
  <2>4. b # None /\ user = d[1] => Knows(d, b.seq)
    BY <1>1, <2>1, <2>3 DEF Stock, Hidden
  <2> QED BY <2>2, <2>3, <2>4 DEF Knows, Now
<1> QED BY <1>2, <1>3, <1>4, <1>5, <1>6 DEF Stock

(* The server goes on: copies that were good stay so.                        *)
LEMMA StockGrown ==
    ASSUME ServerTyped, ServerTyped', CopiesTyped, Stock, Later, DeadLast', GoneDead',
           UNCHANGED <<user, hub, conn, cache, vol>>,
           purges \subseteq purges', purges' \subseteq Users \X Vaults, gone \subseteq gone',
           \A d \in gone' \ gone : <<d[1], d[2]>> \in purges'
    PROVE  CopiesTyped' /\ Stock'
<1>1. CopiesTyped' BY DEF CopiesTyped
<1>2. History' BY DEF History
<1>3. Owned' BY DEF Stock, Owned
<1>4. \A v \in Vaults : Now(v) \in Nat /\ Now(v)' \in Nat /\ Now(v) <= Now(v)'
  BY LogTypes DEF Later, Now, ServerTyped
<1>5. ASSUME NEW v \in Vaults, NEW items \in Holdings, NEW q \in Nat, Full(v, items, q)
      PROVE  Full(v, items, q)'
  BY <1>4, <1>5, OfKept, HoldsKept DEF Full, Holdings
<1>6. Whole'
  <2>1. ASSUME NEW x \in Vaults, vol[x] # None
        PROVE  Full(x, vol[x].items, vol[x].seq)' /\ vol[x].vseq <= Now(x)'
    <3>1. PICK b \in SyncCopies : b = vol[x] BY <2>1, CopyTypes
    <3>2. Full(x, b.items, b.seq) /\ b.vseq <= Now(x) /\ b.items \in Holdings
          /\ b.seq \in Nat /\ b.vseq \in Nat
      BY <2>1, <3>1 DEF Stock, Whole, SyncCopies
    <3>3. Full(x, b.items, b.seq)' /\ b.vseq <= Now(x)' BY <1>4, <1>5, <3>2
    <3> QED BY <3>1, <3>3 DEF Full
  <2>2. ASSUME NEW w \in Users, NEW x \in Vaults, cache[w][x].act # None
        PROVE  Full(x, cache[w][x].act.items, cache[w][x].act.seq)'
               /\ cache[w][x].act.vseq <= Now(x)'
    <3>1. PICK b \in SyncCopies : b = cache[w][x].act BY <2>2, CopyTypes
    <3>2. Full(x, b.items, b.seq) /\ b.vseq <= Now(x) /\ b.items \in Holdings
          /\ b.seq \in Nat /\ b.vseq \in Nat
      BY <2>2, <3>1 DEF Stock, Whole, SyncCopies
    <3>3. Full(x, b.items, b.seq)' /\ b.vseq <= Now(x)' BY <1>4, <1>5, <3>2
    <3> QED BY <3>1, <3>3 DEF Full
  <2>3. ASSUME NEW w \in Users, NEW x \in Vaults, cache[w][x].pend # None
        PROVE  /\ cache[w][x].pend.seq <= Now(x)'
               /\ \A e \in Entries : Of(x, e, cache[w][x].pend.items[e])'
    <3>1. PICK b \in Stages : b = cache[w][x].pend BY <2>3, CopyTypes
    <3>2. b.seq \in Nat /\ b.seq <= Now(x) /\ b.seq <= Now(x)'
      BY <1>4, <2>3, <3>1 DEF Stock, Whole, Stages
    <3>3. \A e \in Entries : b.items[e] \in Nat /\ Of(x, e, b.items[e])
      BY <2>3, <3>1 DEF Stock, Whole, Stages, Holdings
    <3>4. \A e \in Entries : Of(x, e, b.items[e])' BY <3>3, OfKept
    <3> QED BY <3>1, <3>2, <3>4 DEF Of
  <2> QED BY <2>1, <2>2, <2>3 DEF Whole
<1>7. Hidden'
  BY KnowsKept, CopyTypes DEF Hidden, ServerTyped, Stock, History, SyncCopies, Knows
<1> QED BY <1>1, <1>2, <1>3, <1>6, <1>7 DEF Stock

-----------------------------------------------------------------------------
(* A call that settles, moves on, or is not concerned.                       *)

OpInv(o) == Ours(o) /\ Placed(o) /\ Gathered(o) /\ Forward(o) /\ Told(o)

LEMMA SyncParts ==
    SyncInv <=> Typed /\ Serial /\ Stock /\ \A o \in Ops : OpInv(o)
BY DEF SyncInv, Stock, OpInv

(* A call whose turn has not come holds little. *)
About(o) ==
    /\ ~op[o].redo
    /\ op[o].kind = "clear" => op[o].user \in Users
    /\ op[o].kind \in {"hint", "removed", "delete"} => op[o].v \in Vaults

LEMMA OpQuiet ==
    ASSUME NEW p \in Ops, ~Under(p)', About(p)'
    PROVE  OpInv(p)'
BY DEF Under, Ours, Placed, About, Located, Going, Gathered, Storing, Forward, Told, OpInv

LEMMA OpAbout ==
    ASSUME NEW p \in Ops, OpInv(p), ~Under(p)
    PROVE  About(p)
BY DEF OpInv, Placed, About, Under, Storing

LEMMA WhenSettled ==
    ASSUME SyncInv, NEW o \in Ops, AtHead(o), Settle(o),
           ServerTyped', CopiesTyped', LinkTyped', Stock'
    PROVE  SyncInv'
BY SerialSettled, SyncParts, OpAbout, IdleTyped, OpQuiet DEF SyncInv, Typed, Left, About, Stock,
   OpInv

LEMMA WhenMoved ==
    ASSUME SyncInv, NEW o \in Ops, NEW r, AtHead(o), Moved(o, r),
           ServerTyped', CopiesTyped', LinkTyped', Stock', OpInv(o)'
    PROVE  SyncInv'
BY SerialMoved, OneAtATime, SyncParts, OpAbout, OpQuiet DEF SyncInv, Typed, About, Stock, OpInv

(* What a call holds while nothing that it relates to changes, or volatile   *)
(* copies are dropped.                                                       *)
LEMMA OpKept ==
    ASSUME NEW p \in Ops, op'[p] = op[p], cache' = cache, log' = log, gone' = gone,
           gone \subseteq Users \X Vaults \X Entries,
           \A v \in Vaults : vol'[v] \in {vol[v], None},
           \A v \in Vaults : vol'[v] # None => user' = user,
           OpInv(p)
    PROVE  OpInv(p)'
<1>1. \A v : Now(v)' = Now(v) BY DEF Now
<1>2. Ours(p)' BY DEF OpInv, Ours, Under
<1>3. Placed(p)' BY <1>1 DEF OpInv, Placed, Under
<1>4. Gathered(p)'
  <2>1. \A v, items, need, q : Partial(v, items, need, q)' <=> Partial(v, items, need, q)
    BY DEF Partial, Of, Holds, LastChange, Alive, Now
  <2>2. Pending(p)' <=> Pending(p) BY DEF Pending, Copy
  <2>3. Copy(p)' = Copy(p) BY DEF Copy
  <2>4. Gathered(p) BY DEF OpInv
  <2>5. op[p].at \in Storing /\ Pending(p)' =>
          Partial(op[p].v, Copy(p).pend.items, op[p].need, op[p].exp)'
    BY SMTT(30), <2>1, <2>2, <2>3, <2>4 DEF Gathered, Partial
  <2> QED BY <1>1, <2>1, <2>4, <2>5 DEF Gathered
<1>5. Forward(p)' BY DEF Copy, Active, OpInv, Placed, Located, Forward, Under
<1>6. Told(p)' BY DEF Knows, Now, OpInv, Told, Under
<1> QED BY <1>2, <1>3, <1>4, <1>5, <1>6 DEF OpInv

LEMMA WhenLinked ==
    ASSUME SyncInv, UNCHANGED <<server, cache, gone, queue, flight, op>>,
           purges' = purges, \A v \in Vaults : vol'[v] \in {vol[v], None},
           vol' \in [Vaults -> SyncCopies \cup {None}], LinkKept, LinkTyped'
    PROVE  SyncInv'
<1>1. CopiesTyped' /\ Drops BY DEF CopiesTyped, SyncInv, Typed, Drops
<1>2. Stock'
  BY <1>1, StockDropped DEF SyncInv, Stock, Typed, ServerTyped, server
<1>3. ServerTyped' /\ CallsTyped' /\ Serial'
  BY DEF SyncInv, Typed, ServerTyped, CallsTyped, Serial, Queued, server, Now, MaxSeq
<1>4. \A p \in Ops : OpInv(p)'
  BY SyncParts, OpKept DEF LinkKept, server, SyncInv, Typed, ServerTyped
<1> QED BY <1>1, <1>2, <1>3, <1>4 DEF SyncInv, Stock, OpInv, Typed

LEMMA ServerKept ==
    ASSUME ServerTyped, UNCHANGED <<server, gone>>
    PROVE  ServerTyped'
BY DEF ServerTyped, server, Now, MaxSeq

(* A call begins: nothing else changes but what its caller is owed.          *)
LEMMA WhenBegun ==
    ASSUME SyncInv, NEW o \in Ops, NEW kind, Begun(o, kind), CallsTyped', Serial',
           About(o)', UNCHANGED <<server, user, link, cache, vol, purges, gone>>,
           owed' \subseteq Users
    PROVE  SyncInv'
<1>1. ServerTyped' /\ CopiesTyped' /\ LinkTyped'
  BY ServerKept DEF SyncInv, Typed, CopiesTyped, LinkTyped, link
<1>2. Stock'
  BY StockDropped DEF Drops, LinkKept, SyncInv, Owned, link, Stock, Typed, ServerTyped, server
<1>3. ASSUME NEW p \in Ops PROVE OpInv(p)'
  BY OpQuiet, SyncParts, OpKept DEF Begun, server, SyncInv, Typed, ServerTyped
<1> QED BY <1>1, <1>2, <1>3 DEF SyncInv, Stock, OpInv, Typed

(* The server goes on while calls are suspended. *)
LEMMA OpGrown ==
    ASSUME ServerTyped, ServerTyped', Later, DeadLast', GoneDead, CallsTyped, CopiesTyped,
           NEW p \in Ops, op'[p] = op[p],
           UNCHANGED <<cache, vol, user, gone>>, OpInv(p)
    PROVE  OpInv(p)'
<1>1. \A v \in Vaults : Now(v) \in Nat /\ Now(v)' \in Nat /\ Now(v) <= Now(v)'
  BY LogTypes DEF Later, Now, ServerTyped
<1>2. op[p] \in Calls BY DEF CallsTyped
<1>3. Ours(p)' BY DEF OpInv, Ours, Under
<1>4. Placed(p)' BY <1>1 DEF OpInv, Placed, Located, Under
<1>5. ASSUME NEW v \in Vaults, NEW items \in Holdings, NEW need, NEW q \in Nat,
             Partial(v, items, need, q)
      PROVE  Partial(v, items, need, q)'
  BY <1>1, <1>5, OfKept, HoldsKept DEF Partial, Holdings
<1>6. Gathered(p)'
  <2>1. Gathered(p) BY DEF OpInv
  <2>2. op[p].at \in Storing \cup {"delta", "vpage", "vclose"} =>
          op[p].v \in Vaults /\ op[p].user \in Users
    BY <1>2 DEF OpInv, Placed, Located, Storing, Under
  <2>3. op[p].at \in Storing \cup {"delta", "vpage", "vclose"} => op[p].exp <= Now(op[p].v)'
    BY <1>1, <1>2, <2>1, <2>2 DEF Gathered, Calls
  <2>4. op[p].at \in Storing /\ Pending(p)' =>
          Partial(op[p].v, Copy(p).pend.items, op[p].need, op[p].exp)'
    <3> SUFFICES ASSUME op[p].at \in Storing, Pending(p)'
                 PROVE  Partial(op[p].v, Copy(p).pend.items, op[p].need, op[p].exp)'
      OBVIOUS
    <3>1. Copy(p)' = Copy(p) /\ Pending(p) BY DEF Copy, Pending
    <3>2. Partial(op[p].v, Copy(p).pend.items, op[p].need, op[p].exp)
      BY <2>1, <3>1 DEF Gathered
    <3>3. op[p].v \in Vaults /\ op[p].user \in Users /\ op[p].exp \in Nat
      BY <1>2, <2>2 DEF Calls
    <3>4. Copy(p).pend \in Stages BY <3>1, <3>3, CopyTypes DEF Copy, Pending
    <3>5. PICK items \in Holdings : items = Copy(p).pend.items
      BY <3>4 DEF Stages
    <3>6. Partial(op[p].v, items, op[p].need, op[p].exp)'
      BY <1>5, <3>2, <3>3, <3>5
    <3> QED BY <3>1, <3>5, <3>6 DEF Partial
  <2>5. op[p].at \in {"vpage", "vclose"} =>
          Partial(op[p].v, op[p].items, op[p].need, op[p].exp)'
    <3> SUFFICES ASSUME op[p].at \in {"vpage", "vclose"}
                 PROVE  Partial(op[p].v, op[p].items, op[p].need, op[p].exp)'
      OBVIOUS
    <3>1. /\ op[p].items \in Holdings
          /\ Partial(op[p].v, op[p].items, op[p].need, op[p].exp)
      BY <2>1 DEF Gathered
    <3>2. op[p].v \in Vaults /\ op[p].exp \in Nat BY <1>2, <2>2 DEF Calls
    <3>3. PICK items \in Holdings : items = op[p].items BY <3>1
    <3>4. Partial(op[p].v, items, op[p].need, op[p].exp)'
      BY <1>5, <3>1, <3>2, <3>3
    <3> QED BY <3>3, <3>4 DEF Partial
  <2> QED BY <2>1, <2>3, <2>4, <2>5 DEF Gathered
<1>7. Forward(p)' BY DEF Copy, Active, OpInv, Forward, Under
<1>8. Told(p)'
  <2>1. Told(p) /\ Placed(p) BY DEF OpInv
  <2> SUFFICES ASSUME NEW d \in gone, Under(p), d[1] = op[p].user
               PROVE  /\ op[p].at \in Going /\ op[p].listed[d[2]] # None =>
                           Knows(d, op[p].listed[d[2]])'
                      /\ op[p].at \in Going /\ op[p].kind # "hint"
                           /\ op[p].detail[d[2]] # None =>
                           Knows(d, op[p].detail[d[2]])'
                      /\ d[2] = op[p].v =>
                           /\ op[p].at \in {"sync", "delta"} => Knows(d, op[p].vseq)'
                           /\ op[p].at \in {"delta", "snap"} => Knows(d, op[p].floor)'
                           /\ op[p].at \in Storing \cup {"delta", "vpage", "vclose"} =>
                                Knows(d, op[p].exp)'
    BY DEF Told, Under
  <2>2. \A q \in Nat : Knows(d, q) => Knows(d, q)' BY KnowsKept
  <2>3. d[2] \in Vaults BY DEF ServerTyped
  <2>4. op[p].at \in Going /\ op[p].listed[d[2]] # None => op[p].listed[d[2]] \in Nat
    BY <2>1, <2>3 DEF Placed, Reached
  <2>5. op[p].at \in Going
          /\ op[p].kind # "hint" /\ op[p].detail[d[2]] # None => op[p].detail[d[2]] \in Nat
    BY <2>1, <2>3 DEF Placed, Reached
  <2>6. op[p].exp \in Nat BY <1>2 DEF Calls
  <2>7. /\ op[p].at \in {"sync", "delta"} => op[p].vseq \in Nat
        /\ op[p].at \in {"delta", "snap"} => op[p].floor \in Nat
    BY <2>1 DEF Placed
  <2> QED BY <2>1, <2>2, <2>4, <2>5, <2>6, <2>7 DEF Told
<1> QED BY <1>3, <1>4, <1>6, <1>7, <1>8 DEF OpInv

-----------------------------------------------------------------------------
(* What the server does.                                                     *)

(* One change more, of an entry that has not been deleted. *)
LEMMA LogGrown ==
    ASSUME ServerTyped, DeadLast, NEW v \in Vaults, NEW e \in Entries, NEW dead \in BOOLEAN,
           Now(v) < MaxSeq, LastChange(v, e, Now(v)) # 0 => Alive(v, LastChange(v, e, Now(v))),
           log' = [log EXCEPT ![v] = Append(@, [entry |-> e, dead |-> dead])],
           UNCHANGED <<scene, members, policy, retain>>,
           gone' \subseteq Users \X Vaults \X Entries
    PROVE  /\ ServerTyped' /\ Later /\ DeadLast'
           /\ Now(v) \in Nat /\ Now(v)' = Now(v) + 1
           /\ log'[v][Now(v) + 1].entry = e /\ log'[v][Now(v) + 1].dead = dead
           /\ \A i \in 1..Now(v) : log'[v][i] = log[v][i]
           /\ \A x \in Vaults : x # v => log'[x] = log[x]
<1>1. PICK c : c = [entry |-> e, dead |-> dead] OBVIOUS
<1>2. c \in Changes /\ c.entry = e /\ c.dead = dead BY <1>1 DEF Changes
<1>3. PICK l \in Seq(Changes) : l = log[v] BY DEF ServerTyped
<1>4. /\ Append(l, c) \in Seq(Changes) /\ Len(l) \in Nat /\ Len(Append(l, c)) = Len(l) + 1
      /\ Append(l, c)[Len(l) + 1] = c /\ \A i \in 1..Len(l) : Append(l, c)[i] = l[i]
  BY <1>2
<1>5. /\ log' \in [Vaults -> Seq(Changes)] /\ log'[v] = Append(l, c)
      /\ \A x \in Vaults : x # v => log'[x] = log[x]
  BY <1>1, <1>3, <1>4 DEF ServerTyped
<1>6. Now(v) = Len(l) /\ Now(v)' = Len(l) + 1 BY <1>3, <1>4, <1>5 DEF Now
<1>7. ServerTyped' BY LogTypes, <1>4, <1>6, <1>5 DEF ServerTyped, MaxSeq, Now
<1>8. Later BY <1>3, <1>4, <1>5, <1>6, LogTypes DEF Now, Later
<1>9. DeadLast'
  <2> SUFFICES ASSUME NEW x \in Vaults, NEW i \in 1..Len(log'[x]), NEW j \in 1..Len(log'[x]),
                      log'[x][i].dead, log'[x][j].entry = log'[x][i].entry
               PROVE  j <= i
    BY DEF DeadLast, Now
  <2>1. CASE x # v BY <1>5, <2>1 DEF DeadLast, Now
  <2>2. CASE x = v /\ i = Len(l) + 1 BY <1>4, <1>5, <2>2
  <2>3. CASE x = v /\ i # Len(l) + 1 /\ j # Len(l) + 1
    <3>1. i \in 1..Len(l) /\ j \in 1..Len(l)
      BY <1>4, <1>5, <2>3
    <3>2. l[i].dead /\ l[j].entry = l[i].entry
      BY <1>4, <1>5, <2>3, <3>1
    <3> QED BY <1>3, <1>6, <2>3, <3>1, <3>2 DEF DeadLast
  <2>4. CASE x = v /\ i # Len(l) + 1 /\ j = Len(l) + 1
    <3>1. i \in 1..Len(l) BY <1>4, <1>5, <2>4
    <3>2. l[i].dead /\ l[i].entry = e BY SMTT(30), <1>2, <1>4, <1>5, <2>4, <3>1
    <3>3. PICK m : m = LastChange(v, e, Now(v)) OBVIOUS
    <3>4. m \in 0..Len(l) /\ i <= m /\ (m # 0 => log[v][m].entry = e)
      BY <1>3, <1>4, <1>6, <3>1, <3>2, <3>3, Last
    <3>5. m # 0 /\ m \in 1..Len(l) /\ ~l[m].dead
      BY <1>3, <1>4, <3>1, <3>3, <3>4 DEF Alive
    <3>6. m <= i BY <1>3, <1>6, <3>1, <3>2, <3>4, <3>5 DEF DeadLast
    <3>7. m = i BY <1>4, <3>1, <3>4, <3>5, <3>6
    <3> QED BY <3>2, <3>5, <3>7
  <2> QED BY <2>1, <2>2, <2>3, <2>4
<1> QED BY <1>2, <1>3, <1>4, <1>5, <1>6, <1>7, <1>8, <1>9

LEMMA AfterChange ==
    ASSUME SyncInv, NEW v \in Vaults, Change(v)
    PROVE  SyncInv'
<1>1. ServerTyped /\ DeadLast /\ GoneDead /\ Stock /\ CopiesTyped /\ CallsTyped
  BY SyncParts DEF Typed, Stock, History
<1>2. PICK e \in scene.entries, dead \in BOOLEAN :
        /\ LastChange(v, e, Now(v)) # 0 => Alive(v, LastChange(v, e, Now(v)))
        /\ dead => LastChange(v, e, Now(v)) # 0
        /\ log' = [log EXCEPT ![v] = Append(@, [entry |-> e, dead |-> dead])]
  BY DEF Change
<1>3. e \in Entries BY <1>1, SyncAssumption DEF ServerTyped
<1>4. /\ ServerTyped' /\ Later /\ DeadLast' /\ Now(v) \in Nat /\ Now(v)' = Now(v) + 1
      /\ \A i \in 1..Now(v) : log'[v][i] = log[v][i]
      /\ \A x \in Vaults : x # v => log'[x] = log[x]
  BY <1>1, <1>2, <1>3, LogGrown DEF Change, ServerTyped
<1>5. GoneDead'
  <2>1. ASSUME NEW d \in gone
        PROVE  \E i \in 1..Now(d[2])' : log'[d[2]][i].entry = d[3] /\ log'[d[2]][i].dead
    <3>1. d[2] \in Vaults BY <1>1 DEF ServerTyped
    <3>2. PICK i \in 1..Now(d[2]) : log[d[2]][i].entry = d[3] /\ log[d[2]][i].dead
      BY <1>1 DEF GoneDead
    <3>3. i \in 1..Now(d[2])' /\ log'[d[2]][i] = log[d[2]][i]
      BY <1>4, <3>1 DEF Now
    <3> QED BY <3>2, <3>3
  <2> QED BY <2>1 DEF GoneDead, Change
<1>6. CopiesTyped' /\ Stock'
  BY <1>1, <1>4, <1>5, StockGrown DEF CopiesTyped, Change, link
<1>7. \A p \in Ops : OpInv(p)' BY <1>1, <1>4, OpGrown, SyncParts DEF Change
<1>8. CallsTyped' /\ Serial' /\ LinkTyped'
  BY DEF SyncInv, Typed, CallsTyped, Serial, Queued, LinkTyped, Change, link
<1> QED BY <1>4, <1>6, <1>7, <1>8 DEF SyncInv, Stock, OpInv, Typed

(* Who may read a vault, its policy, and how far back its deltas reach, are  *)
(* asked afresh.                                                             *)
LEMMA WhenAsked ==
    ASSUME SyncInv, UNCHANGED <<log, user, link, cache, vol, purges, flight, queue, op, owed, gone>>,
           ServerTyped'
    PROVE  SyncInv'
<1>1. CopiesTyped' /\ CallsTyped' /\ LinkTyped' /\ Serial'
  BY DEF SyncInv, Typed, CopiesTyped, CallsTyped, Serial, Queued, LinkTyped, link
<1>2. Stock'
  BY StockDropped DEF Drops, LinkKept, SyncInv, Owned, link, Stock, Typed, ServerTyped
<1>3. \A p \in Ops : OpInv(p)'
  BY SyncParts, OpKept DEF SyncInv, Typed, ServerTyped
<1> QED BY <1>1, <1>2, <1>3 DEF SyncInv, Stock, OpInv, Typed

LEMMA AfterWithdraw ==
    ASSUME SyncInv, NEW v \in Vaults, Withdraw(v)
    PROVE  SyncInv'
BY WhenAsked DEF SyncInv, Typed, ServerTyped, Withdraw, Now, MaxSeq

LEMMA AfterChangePolicy ==
    ASSUME SyncInv, NEW v \in Vaults, ChangePolicy(v)
    PROVE  SyncInv'
BY WhenAsked DEF SyncInv, Typed, ServerTyped, ChangePolicy, Now, MaxSeq

LEMMA AfterCompact ==
    ASSUME SyncInv, NEW v \in Vaults, Compact(v)
    PROVE  SyncInv'
<1>1. ServerTyped'
  BY LogTypes DEF SyncInv, Typed, ServerTyped, Compact, Now, MaxSeq
<1> QED BY <1>1, WhenAsked DEF Compact

-----------------------------------------------------------------------------
(* Users, the hub, the worker, and calls that begin.                         *)

(* Without a user there is no connection, and without one no volatile copy.  *)
LEMMA NobodyNothing ==
    ASSUME SyncInv, user = None
    PROVE  hub = FALSE /\ conn = FALSE /\ \A v \in Vaults : vol[v] = None
BY DEF SyncInv, Owned, Typed, LinkTyped

LEMMA AfterSignIn ==
    ASSUME SyncInv, NEW u \in scene.users, SignIn(u)
    PROVE  SyncInv'
BY SyncAssumption, NobodyNothing, WhenLinked DEF SyncInv, Typed, ServerTyped, SignIn, LinkKept,
   LinkTyped, link, CopiesTyped

LEMMA AfterSkipClear ==
    ASSUME SyncInv, NEW u, SkipClear(u)
    PROVE  SyncInv'
BY WhenLinked DEF LinkKept, LinkTyped, SkipClear, link, SyncInv, Typed, Owned, CopiesTyped

LEMMA Unlinked ==
    ASSUME rt \in Nat, Connected(FALSE)
    PROVE  rt' \in Nat /\ conn' = FALSE /\ vol' = [v \in Vaults |-> None]
<1>1. conn' = FALSE BY Zenon DEF Connected
<1>2. vol' = [v \in Vaults |-> None] BY Zenon DEF Connected
<1>3. rt' = rt + 1 \/ rt' = rt BY Zenon DEF Connected
<1>4. rt' \in Nat BY <1>3
<1> QED BY <1>1, <1>2, <1>4

LEMMA Linked ==
    ASSUME rt \in Nat, Connected(TRUE)
    PROVE  rt' \in Nat /\ conn' = TRUE /\ vol' = vol
<1>1. conn' = TRUE BY Zenon DEF Connected
<1>2. vol' = vol BY Zenon DEF Connected
<1>3. rt' = rt + 1 \/ rt' = rt BY Zenon DEF Connected
<1>4. rt' \in Nat BY <1>3
<1> QED BY <1>1, <1>2, <1>4

LEMMA AfterSignOut ==
    ASSUME SyncInv, SignOut
    PROVE  SyncInv'
BY Unlinked, WhenLinked DEF SignOut, SyncInv, Typed, LinkTyped, LinkKept

LEMMA AfterHubUp ==
    ASSUME SyncInv, HubUp
    PROVE  SyncInv'
BY Linked, WhenLinked DEF HubUp, SyncInv, Typed, LinkTyped, CopiesTyped, LinkKept

LEMMA AfterHubDown ==
    ASSUME SyncInv, HubDown
    PROVE  SyncInv'
BY Unlinked, WhenLinked DEF HubDown, SyncInv, Typed, LinkTyped, LinkKept

(* A restart leaves what is stored, and nothing else. *)
LEMMA AfterRestart ==
    ASSUME SyncInv, Restart
    PROVE  SyncInv'
<1>1. /\ hub' = FALSE /\ conn' = FALSE /\ rt' = 0 /\ vol' = [v \in Vaults |-> None]
      /\ purges' = {} /\ flight' = None /\ queue' = <<>> /\ owed' = {} /\ gone' = {}
      /\ op' = [o \in Ops |-> Idle] /\ log' = log /\ user' = user /\ cache' = cache
      /\ scene' = scene /\ members' = members /\ policy' = policy /\ retain' = retain
  BY DEF Restart, server
<1>2. ServerTyped' /\ CopiesTyped' /\ LinkTyped'
  BY <1>1 DEF ServerTyped, CopiesTyped, LinkTyped, SyncInv, Typed, Now, MaxSeq
<1>3. CallsTyped' BY <1>1, IdleTyped DEF CallsTyped
<1>4. Serial' BY <1>1, IdleTyped DEF Queued, Serial
<1>5. History' BY <1>1 DEF SyncInv, History, DeadLast, GoneDead, Now
<1>6. Owned' /\ Hidden' BY <1>1 DEF SyncInv, Owned, Hidden
<1>7. Whole'
  <2>1. ASSUME NEW u \in Users, NEW v \in Vaults, cache[u][v].act # None
        PROVE  Full(v, cache[u][v].act.items, cache[u][v].act.seq)'
               /\ cache[u][v].act.vseq <= Now(v)'
    <3>1. PICK b : b = cache[u][v].act OBVIOUS
    <3>2. Full(v, b.items, b.seq) /\ b.vseq <= Now(v)
      BY <2>1, <3>1 DEF SyncInv, Whole
    <3>3. Full(v, b.items, b.seq)' /\ b.vseq <= Now(v)'
      BY <1>1, <3>2, FullSame DEF Now
    <3> QED BY <1>1, <3>1, <3>3 DEF Full
  <2>2. ASSUME NEW u \in Users, NEW v \in Vaults, cache[u][v].pend # None
        PROVE  /\ cache[u][v].pend.seq <= Now(v)'
               /\ \A e \in Entries : Of(v, e, cache[u][v].pend.items[e])'
    <3>1. PICK b : b = cache[u][v].pend OBVIOUS
    <3>2. b.seq <= Now(v) /\ \A e \in Entries : Of(v, e, b.items[e])
      BY <2>2, <3>1 DEF SyncInv, Whole
    <3>3. b.seq <= Now(v)' /\ \A e \in Entries : Of(v, e, b.items[e])'
      BY <1>1, <3>2 DEF Of, Now
    <3> QED BY <1>1, <3>1, <3>3 DEF Of
  <2> QED BY <1>1, <2>1, <2>2 DEF Whole
<1>8. \A p \in Ops : OpInv(p)' BY <1>1, IdleTyped, OpQuiet DEF Under, About
<1> QED BY <1>2, <1>3, <1>4, <1>5, <1>6, <1>7, <1>8 DEF SyncInv, OpInv, Typed

LEMMA AfterRefresh ==
    ASSUME SyncInv, NEW o \in Ops, NEW kind \in {"refresh", "repair"}, Refresh(o, kind)
    PROVE  SyncInv'
BY SerialRefresh, WhenBegun DEF SyncInv, Typed, Begun, About, Refresh, LinkTyped

LEMMA AfterCall ==
    ASSUME SyncInv, NEW o \in Ops, Call(o)
    PROVE  SyncInv'
<1>1. ASSUME NEW kind \in CallKinds, NEW v \in Vaults \cup {None}, Enqueue(o, kind, None, v),
             owed' = owed, kind \in {"hint", "removed", "delete"} => v \in Vaults, kind # "clear"
      PROVE  SyncInv'
  <2>1. CallsTyped' /\ Serial' /\ Begun(o, kind) /\ op'[o].v = v
    BY <1>1, SerialEnqueued DEF SyncInv, Typed
  <2>2. About(o)' BY <1>1, <2>1 DEF Begun, About
  <2>3. owed' \subseteq Users BY <1>1 DEF SyncInv, Typed, LinkTyped
  <2> QED BY <1>1, <2>1, <2>2, <2>3, WhenBegun DEF Enqueue
<1>2. ASSUME NEW kind \in {"hint", "removed", "delete"}, NEW v \in Vaults,
             Enqueue(o, kind, None, v), owed' = owed
      PROVE  SyncInv'
  BY <1>1, <1>2 DEF CallKinds
<1>3. ASSUME Enqueue(o, "read", None, None), owed' = owed
      PROVE  SyncInv'
  BY <1>1, <1>3 DEF CallKinds
<1> QED BY <1>2, <1>3 DEF Call

LEMMA AfterClearProfile ==
    ASSUME SyncInv, NEW o \in Ops, NEW u \in Users, ClearProfile(o, u)
    PROVE  SyncInv'
<1>1. "clear" \in CallKinds BY DEF CallKinds
<1>2. CallsTyped' /\ Serial' /\ Begun(o, "clear") /\ op'[o].user = u
  BY <1>1, SerialEnqueued DEF SyncInv, Typed, ClearProfile
<1>3. About(o)' BY <1>2 DEF Begun, About
<1>4. owed' \subseteq Users BY DEF ClearProfile, SyncInv, Typed, LinkTyped
<1> QED BY <1>2, <1>3, <1>4, WhenBegun DEF ClearProfile, Enqueue

-----------------------------------------------------------------------------
(* Steps that end a call.                                                    *)

LEMMA Undisturbed ==
    ASSUME SyncInv, UNCHANGED <<server, user, link, cache, vol, purges, owed, gone>>
    PROVE  ServerTyped' /\ CopiesTyped' /\ LinkTyped' /\ Stock'
BY ServerKept, StockDropped DEF SyncInv, Typed, CopiesTyped, LinkTyped, link, Drops, LinkKept,
   Owned, Stock, ServerTyped, server

LEMMA OnceDropped ==
    ASSUME SyncInv, Drops, CopiesTyped', UNCHANGED <<server, user, hub, rt, owed, gone>>,
           conn' \in BOOLEAN, conn' => conn, \A v \in Vaults : vol'[v] # None => conn'
    PROVE  ServerTyped' /\ LinkTyped' /\ Stock'
BY ServerKept, StockDropped DEF SyncInv, Typed, LinkTyped, Drops, LinkKept, Owned, Stock,
   ServerTyped, server

LEMMA OncePurged ==
    ASSUME SyncInv, NEW u \in Users, NEW v \in Vaults, Purged(u, v) \/ PurgeBreaks(u, v),
           UNCHANGED <<server, user, link, owed, gone>>
    PROVE  ServerTyped' /\ CopiesTyped' /\ LinkTyped' /\ Stock'
BY PurgedDrops, PurgeBrokenDrops, OnceDropped DEF SyncInv, Typed, Drops, Owned, link, LinkTyped

(* Where a call has a place in the queue, it is at its head. *)
LEMMA UnderWhere ==
    ASSUME SyncInv, NEW o \in Ops, op[o].at \notin {"idle", "await", "turn"}
    PROVE  AtHead(o) /\ Under(o) /\ op[o].user \in Users /\ op[o] \in Calls
BY UnderIsHead DEF SyncInv, Typed, Under, CallsTyped, Placed

LEMMA AfterFails ==
    ASSUME SyncInv, NEW o \in Ops, Fails(o)
    PROVE  SyncInv'
BY UnderWhere, Undisturbed, WhenSettled DEF Fails, Networked

LEMMA AfterIndex ==
    ASSUME SyncInv, NEW o \in Ops, Index(o)
    PROVE  SyncInv'
BY UnderWhere, Undisturbed, WhenSettled DEF Index

LEMMA AfterUnconnected ==
    ASSUME SyncInv, NEW o \in Ops, Unconnected(o)
    PROVE  SyncInv'
BY UnderWhere, OncePurged, WhenSettled DEF Unconnected, SyncInv, Placed, Located

LEMMA AfterAbandon ==
    ASSUME SyncInv, NEW o \in Ops, Abandon(o)
    PROVE  SyncInv'
BY UnderWhere, OncePurged, WhenSettled DEF Abandon, SyncInv, Placed, Located

LEMMA AfterRead ==
    ASSUME SyncInv, NEW o \in Ops, Read(o)
    PROVE  SyncInv'
BY TurnIsHead, Undisturbed, WhenSettled, OncePurged DEF Read, SyncInv, Typed, Readable, LinkTyped

LEMMA AfterClear ==
    ASSUME SyncInv, NEW o \in Ops, Clear(o)
    PROVE  SyncInv'
<1>1. AtHead(o) /\ op[o].user \in Users
  BY TurnIsHead DEF Clear, SyncInv, Typed, Placed, Turn
<1>2. PICK blank : blank = [v \in Vaults |-> Empty] OBVIOUS
<1>3. blank \in [Vaults -> Places] /\ \A v \in Vaults : blank[v] = Empty
  BY <1>2, EmptyTyped
<1>4. cache' = [cache EXCEPT ![op[o].user] = blank] BY <1>2 DEF Clear
<1>5. cache' \in [Users -> [Vaults -> Places]] /\ cache'[op[o].user] = blank
      /\ \A u \in Users : u # op[o].user => cache'[u] = cache[u]
  BY <1>1, <1>3, <1>4, CopyTypes DEF SyncInv, Typed
<1>6. \A v \in Vaults : vol'[v] = None BY DEF Clear
<1>7. vol' \in [Vaults -> SyncCopies \cup {None}] BY DEF Clear
<1>8. Drops BY <1>3, <1>5, <1>6 DEF Drops, Clear
<1>9. CopiesTyped' BY <1>5, <1>7, <1>8, DropsTyped DEF SyncInv, Typed
<1>10. conn' = FALSE BY DEF Clear
<1>11. ServerTyped' /\ LinkTyped' /\ Stock'
  BY <1>6, <1>8, <1>9, <1>10, OnceDropped DEF Clear
<1> QED BY <1>1, <1>9, <1>11, WhenSettled DEF Clear

-----------------------------------------------------------------------------
(* Refreshes that start, and deletions.                                      *)

(* A call goes on with the record r. *)
LEMMA MovedIs ==
    ASSUME SyncInv, NEW o \in Ops, NEW r, Moved(o, r)
    PROVE  op'[o] = r
BY DEF SyncInv, Typed, CallsTyped, Moved

LEMMA OursNow ==
    ASSUME NEW o \in Ops, op'[o].user = user'
    PROVE  Ours(o)'
BY DEF Ours

LEMMA OursStill ==
    ASSUME NEW o \in Ops, Ours(o), Under(o), op'[o].user = op[o].user, user' = user,
           \A v \in Vaults : vol'[v] \in {vol[v], None}
    PROVE  Ours(o)'
BY DEF Ours

(* A refresh that lists the vaults, a deletion that is sent.                 *)
LEMMA OpAway ==
    ASSUME NEW o \in Ops, op'[o].at \in {"list", "send", "purge"}, op'[o].user \in Users,
           op'[o].redo = FALSE, Ours(o)',
           op'[o].at = "list" => op'[o].kind \in {"refresh", "repair"},
           op'[o].at # "list" => op'[o].v \in Vaults /\ op'[o].kind = "delete"
    PROVE  OpInv(o)'
BY DEF Placed, Located, Going, Gathered, Storing, Forward, Told, OpInv

LEMMA TurnWhere ==
    ASSUME SyncInv, NEW o \in Ops, NEW kinds, Turn(o, kinds)
    PROVE  AtHead(o) /\ op[o] \in Calls /\ op[o].redo = FALSE /\ op[o].kind \in kinds /\ About(o)
BY TurnIsHead, OpAbout, SyncParts DEF SyncInv, Typed, CallsTyped, Turn, About, Calls

LEMMA AfterStartRefresh ==
    ASSUME SyncInv, NEW o \in Ops, StartRefresh(o)
    PROVE  SyncInv'
<1>1. /\ AtHead(o) /\ op[o] \in Calls /\ op[o].redo = FALSE
      /\ op[o].kind \in {"refresh", "repair"}
  BY TurnWhere DEF StartRefresh
<1>2. CASE user = None
  BY <1>2, OnceDropped, <1>1, WhenSettled DEF StartRefresh, Drops, CopiesTyped, SyncInv, Typed
<1>3. CASE user # None
  <2>1. PICK r : r = [op[o] EXCEPT !.at = "list", !.user = user] OBVIOUS
  <2>2. user \in Users BY <1>3 DEF SyncInv, Typed, LinkTyped
  <2>3. /\ r \in Calls /\ r.at = "list" /\ r.user = user /\ r.kind = op[o].kind
        /\ r.redo = FALSE
    BY <1>1, <2>1, <2>2, StepNames DEF Calls
  <2>4. Moved(o, r) BY <1>3, <2>1, <2>3 DEF Moved, StartRefresh, Set, Stays
  <2>5. UNCHANGED <<server, user, link, cache, vol, purges, owed, gone>>
    BY <1>3 DEF StartRefresh, link
  <2>6. op'[o] = r BY <2>4, MovedIs
  <2>7. OpInv(o)' BY <1>1, <2>2, <2>3, <2>5, <2>6, OpAway, OursNow
  <2> QED BY <1>1, <2>4, <2>5, <2>7, Undisturbed, WhenMoved
<1> QED BY <1>2, <1>3

LEMMA AfterStartDelete ==
    ASSUME SyncInv, NEW o \in Ops, StartDelete(o)
    PROVE  SyncInv'
<1>1. /\ AtHead(o) /\ op[o] \in Calls /\ op[o].redo = FALSE /\ op[o].kind = "delete"
      /\ op[o].v \in Vaults
  BY TurnWhere DEF StartDelete, About
<1>2. CASE user # None /\ Authorized(op[o].v)
  <2>1. PICK r : r = [op[o] EXCEPT !.at = "send", !.user = user] OBVIOUS
  <2>2. user \in Users BY <1>2 DEF SyncInv, Typed, LinkTyped
  <2>3. /\ r \in Calls /\ r.at = "send" /\ r.user = user /\ r.kind = op[o].kind
        /\ r.redo = FALSE /\ r.v = op[o].v
    BY <1>1, <2>1, <2>2, StepNames DEF Calls
  <2>4. Moved(o, r)
    BY <1>1, <1>2, <2>1, <2>3 DEF Moved, StartDelete, Set, Stays
  <2>5. UNCHANGED <<server, user, link, cache, vol, purges, owed, gone>>
    BY DEF StartDelete
  <2>6. op'[o] = r BY <2>4, MovedIs
  <2>7. OpInv(o)' BY <1>1, <2>2, <2>3, <2>5, <2>6, OpAway, OursNow
  <2> QED BY <1>1, <2>4, <2>5, <2>7, Undisturbed, WhenMoved
<1>3. CASE ~(user # None /\ Authorized(op[o].v))
  BY <1>1, <1>3, Undisturbed, WhenSettled DEF StartDelete
<1> QED BY <1>2, <1>3

LEMMA AfterAfterSend ==
    ASSUME SyncInv, NEW o \in Ops, AfterSend(o)
    PROVE  SyncInv'
<1>1. op[o].user \in Users /\ op[o].v \in Vaults
  BY UnderWhere DEF AfterSend, SyncInv, Serial, Placed
<1>2. ServerTyped' /\ CopiesTyped' /\ LinkTyped' /\ Stock'
  BY <1>1, OncePurged DEF AfterSend
<1>3. CallsTyped' /\ Serial' /\ Begun(o, "repair")
  BY SerialSent DEF AfterSend, SyncInv, Typed
<1>4. ASSUME NEW p \in Ops PROVE OpInv(p)'
  BY <1>3, OpQuiet, UnderWhere, OneAtATime, OpAbout, SyncParts DEF Begun, About, AfterSend, SyncInv,
     Typed, Under
<1> QED BY <1>2, <1>3, <1>4 DEF SyncInv, Stock, OpInv, Typed

-----------------------------------------------------------------------------
(* What a refresh is told.                                                   *)

(* What a refresh was told of the vaults is not from before a deletion.      *)
Informed(o) ==
    \A d \in gone : d[1] = op[o].user =>
        /\ op[o].listed[d[2]] # None => Knows(d, op[o].listed[d[2]])
        /\ op[o].kind # "hint" /\ op[o].detail[d[2]] # None =>
             Knows(d, op[o].detail[d[2]])

(* A refresh that goes through the vaults, or the one a hint names.          *)
LEMMA OpScans ==
    ASSUME NEW o \in Ops, op'[o].at = "scan", op'[o].user \in Users,
           op'[o].redo = FALSE, op'[o].kind \in {"refresh", "repair", "hint"}, Ours(o)',
           op'[o].listed \in Reached,
           op'[o].kind # "hint" => op'[o].detail \in Reached,
           op'[o].kind = "hint" =>
             op'[o].v \in Vaults /\ \A w \in Vaults : op'[o].listed[w] = None,
           Informed(o)'
    PROVE  OpInv(o)'
BY DEF Placed, Located, Going, Gathered, Storing, Forward, Told, Informed, OpInv

LEMMA KnowsNow == \A d : Knows(d, Now(d[2]))
BY DEF Knows, Now

LEMMA AfterList ==
    ASSUME SyncInv, NEW o \in Ops, List(o)
    PROVE  SyncInv'
<1>1. AtHead(o) /\ Under(o) /\ op[o].user \in Users /\ op[o] \in Calls /\ OpInv(o)
  BY UnderWhere, SyncParts DEF List
<1>2. op[o].kind \in {"refresh", "repair"} /\ op[o].redo = FALSE
  BY <1>1 DEF List, OpInv, Placed, Storing, Calls, Going
<1>3. PICK vs : vs = {v \in Vaults : user \in members[v]} OBVIOUS
<1>4. PICK lt : lt = [v \in Vaults |-> IF v \in vs THEN Now(v) ELSE None]
  OBVIOUS
<1>5. PICK dt : dt = [v \in Vaults |-> None] OBVIOUS
<1>6. lt \in Reached /\ dt \in Reached
  BY <1>4, <1>5, LogTypes DEF Reached, SyncInv, Typed
<1>61. vs \subseteq Vaults BY <1>3
<1>7. PICK r : r = [op[o] EXCEPT !.at = "scan", !.who = user, !.todo = vs,
                                 !.listed = lt, !.detail = dt]
  OBVIOUS
<1>8. user \in Users BY DEF List, SyncInv, Typed, LinkTyped
<1>9. /\ r \in Calls /\ r.at = "scan" /\ r.user = op[o].user /\ r.kind = op[o].kind
      /\ r.redo = op[o].redo /\ r.listed = lt /\ r.detail = dt /\ r.v = op[o].v
  BY <1>1, <1>6, <1>61, <1>7, <1>8, StepNames DEF Calls
<1>10. Moved(o, r) BY <1>3, <1>4, <1>5, <1>7, <1>9 DEF Moved, List, Set, Stays
<1>11. UNCHANGED <<server, user, link, cache, vol, purges, owed, gone>>
  BY DEF List
<1>12. op'[o] = r BY <1>10, MovedIs
<1>13. Ours(o)' BY <1>1, <1>9, <1>11, <1>12, OursStill DEF OpInv
<1>14. ASSUME NEW d \in gone'
       PROVE  lt[d[2]] # None => Knows(d, lt[d[2]])'
  BY <1>11, <1>4, KnowsNow DEF SyncInv, Typed, ServerTyped, Knows, Now, server
<1>15. ASSUME NEW d \in gone' PROVE dt[d[2]] = None
  BY <1>5, <1>11 DEF SyncInv, Typed, ServerTyped
<1>16. OpInv(o)'
  BY <1>9, <1>12, <1>14, <1>15, <1>1, <1>2, <1>6, <1>13, OpScans DEF Informed, Knows
<1> QED BY <1>1, <1>10, <1>11, <1>16, Undisturbed, WhenMoved

LEMMA AfterHint ==
    ASSUME SyncInv, NEW o \in Ops, Hint(o)
    PROVE  SyncInv'
<1>1. /\ AtHead(o) /\ op[o] \in Calls /\ op[o].redo = FALSE
      /\ op[o].kind \in {"hint", "removed"} /\ op[o].v \in Vaults
  BY TurnWhere DEF Hint, About
<1>2. CASE user = None /\ Settle(o) /\ UNCHANGED <<cache, vol, purges>>
  BY <1>1, <1>2, Undisturbed, WhenSettled DEF Hint
<1>3. CASE /\ op[o].kind = "removed" /\ user # None
           /\ Purged(user, op[o].v) \/ PurgeBreaks(user, op[o].v)
           /\ Settle(o)
  BY <1>3, <1>1, OncePurged, WhenSettled DEF SyncInv, Typed, LinkTyped, Hint
<1>4. CASE /\ op[o].kind = "hint" /\ user # None
           /\ Set(o, [op[o] EXCEPT !.user = user, !.at = "scan", !.todo = {op[o].v},
                                  !.who = user, !.listed = [w \in Vaults |-> None]])
           /\ Stays /\ UNCHANGED <<cache, vol, purges>>
  <2>1. user \in Users BY <1>4 DEF SyncInv, Typed, LinkTyped
  <2>2. PICK lt : lt = [w \in Vaults |-> None] OBVIOUS
  <2>3. lt \in Reached /\ \A w \in Vaults : lt[w] = None BY <2>2 DEF Reached
  <2>4. PICK r : r = [op[o] EXCEPT !.user = user, !.at = "scan", !.todo = {op[o].v},
                                   !.who = user, !.listed = lt]
    OBVIOUS
  <2>5. /\ r \in Calls /\ r.at = "scan" /\ r.user = user /\ r.kind = op[o].kind
        /\ r.redo = op[o].redo /\ r.listed = lt /\ r.v = op[o].v
    BY <1>1, <2>1, <2>3, <2>4, StepNames DEF Calls
  <2>6. Moved(o, r) BY <1>4, <2>2, <2>4, <2>5 DEF Moved, Set, Stays
  <2>7. UNCHANGED <<server, user, link, cache, vol, purges, owed, gone>>
    BY <1>4 DEF Hint
  <2>8. op'[o] = r BY <2>6, MovedIs
  <2>9. Ours(o)' BY <2>5, <2>7, <2>8, OursNow
  <2>10. ASSUME NEW d \in gone' PROVE lt[d[2]] = None
    BY <2>3, <2>7 DEF SyncInv, Typed, ServerTyped
  <2>12. Informed(o)' BY <1>4, <2>5, <2>8, <2>10 DEF Informed
  <2>11. OpInv(o)' BY <1>1, <1>4, <2>1, <2>3, <2>5, <2>8, <2>9, <2>12, OpScans
  <2> QED BY <1>1, <2>6, <2>7, <2>11, Undisturbed, WhenMoved
<1> QED BY <1>2, <1>3, <1>4 DEF Hint

(* What a call has not synchronized yet, or looks up in its copy. *)
LEMMA ScanWhere ==
    ASSUME SyncInv, NEW o \in Ops, op[o].at = "scan"
    PROVE  /\ AtHead(o) /\ Under(o) /\ op[o].user \in Users /\ op[o] \in Calls /\ OpInv(o)
           /\ op[o].kind \in {"refresh", "repair", "hint"} /\ op[o].redo = FALSE
           /\ op[o].listed \in Reached
           /\ op[o].kind # "hint" => op[o].detail \in Reached
           /\ op[o].kind = "hint" => op[o].v \in Vaults /\ \A w \in Vaults : op[o].listed[w] = None
           /\ \A d \in gone : d[1] = op[o].user =>
                /\ op[o].listed[d[2]] # None => Knows(d, op[o].listed[d[2]])
                /\ op[o].kind # "hint" /\ op[o].detail[d[2]] # None =>
                     Knows(d, op[o].detail[d[2]])
BY UnderWhere, SyncParts DEF OpInv, Placed, Storing, Calls, Going, Told

LEMMA AfterSkip ==
    ASSUME SyncInv, NEW o \in Ops, NEW v \in Vaults, Skip(o, v)
    PROVE  SyncInv'
<1>1. /\ AtHead(o) /\ Under(o) /\ op[o].user \in Users /\ op[o] \in Calls /\ OpInv(o)
      /\ op[o].kind \in {"refresh", "repair", "hint"} /\ op[o].redo = FALSE
      /\ op[o].listed \in Reached
      /\ op[o].kind # "hint" => op[o].detail \in Reached
      /\ op[o].kind = "hint" => op[o].v \in Vaults /\ \A w \in Vaults : op[o].listed[w] = None
      /\ \A d \in gone : d[1] = op[o].user =>
           /\ op[o].listed[d[2]] # None => Knows(d, op[o].listed[d[2]])
           /\ op[o].kind # "hint" /\ op[o].detail[d[2]] # None =>
                Knows(d, op[o].detail[d[2]])
  BY ScanWhere DEF Skip
<1>2. PICK a : a = Active(op[o].user, v) OBVIOUS
<1>3. a # None /\ a.seq = op[o].listed[v] /\ a.vseq = op[o].listed[v]
  BY <1>2 DEF Skip, MaySkip, Unchanged
<1>4. a \in SyncCopies
  BY <1>1, <1>2, <1>3, CopyTypes DEF Active, SyncInv, Typed
<1>5. a.seq \in Nat /\ a.vseq \in Nat /\ op[o].listed[v] \in Nat /\ op[o].listed[v] # None
  BY <1>3, <1>4, SyncAssumption DEF SyncCopies
<1>6. op[o].kind # "hint" BY <1>1, <1>5
<1>7. PICK m : m = [op[o].detail EXCEPT ![v] = a.vseq] OBVIOUS
<1>8. m \in Reached /\ m[v] = a.vseq /\ \A w \in Vaults : w # v => m[w] = op[o].detail[w]
  BY <1>1, <1>5, <1>6, <1>7 DEF Reached
<1>9. PICK r : r = [op[o] EXCEPT !.todo = @ \ {v}, !.detail = m] OBVIOUS
<1>10. /\ r \in Calls /\ r.at = op[o].at /\ r.user = op[o].user /\ r.kind = op[o].kind
       /\ r.redo = op[o].redo /\ r.listed = op[o].listed /\ r.detail = m
  BY <1>1, <1>8, <1>9, StepNames DEF Calls
<1>11. op' = [op EXCEPT ![o] = r] BY <1>2, <1>7, <1>9 DEF Skip, Set
<1>12. Moved(o, r) BY <1>10, <1>11 DEF Moved, Skip, Stays
<1>13. UNCHANGED <<server, user, link, cache, vol, purges, owed, gone>>
  BY DEF Skip
<1>14. op'[o] = r BY <1>12, MovedIs
<1>15. Ours(o)' BY <1>1, <1>10, <1>13, <1>14, OursStill DEF OpInv
<1>16. ASSUME NEW d \in gone', d[1] = op[o].user
       PROVE  /\ r.listed[d[2]] # None => Knows(d, r.listed[d[2]])'
              /\ m[d[2]] # None => Knows(d, m[d[2]])'
  <2>1. d \in gone /\ d[2] \in Vaults BY <1>13 DEF SyncInv, Typed, ServerTyped
  <2>2. op[o].listed[d[2]] # None => Knows(d, op[o].listed[d[2]])
    BY <1>1, <1>16, <2>1
  <2>3. m[d[2]] # None => Knows(d, m[d[2]])
    BY <1>3, <1>5, <1>8, <2>2, <1>1, <1>6, <1>16, <2>1
  <2> QED BY <1>10, <1>13, <2>2, <2>3, KnowsSame DEF server
<1>17. op[o].at = "scan" BY DEF Skip
<1>18. OpInv(o)'
  BY <1>10, <1>14, <1>16, <1>1, <1>6, <1>8, <1>15, <1>17, OpScans DEF Informed, Knows
<1> QED BY <1>1, <1>12, <1>13, <1>18, Undisturbed, WhenMoved

-----------------------------------------------------------------------------
(* A synchronization under way.                                              *)

(* What a synchronization carries from vault to vault. *)
Carried(o) ==
    /\ op[o].user \in Users /\ op[o].kind \in {"refresh", "repair", "hint"}
    /\ op[o].listed \in Reached
    /\ op[o].kind # "hint" => op[o].detail \in Reached
    /\ op[o].redo =>
         /\ op[o].kind # "hint"
         /\ \A w \in op[o].todo : op[o].detail[w] \in Nat /\ cache[op[o].user][w].act = None
    /\ Informed(o) /\ Ours(o)

(* A number from no earlier than the deletions of the vault at hand. *)
Aware(o, q) == \A d \in gone : d[1] = op[o].user /\ d[2] = op[o].v => Knows(d, q)

LEMMA CarriedHolds ==
    ASSUME SyncInv, NEW o \in Ops, op[o].at \in Going
    PROVE  /\ Carried(o) /\ AtHead(o) /\ Under(o) /\ op[o] \in Calls
           /\ op[o].at \in Located => op[o].v \in Vaults \ op[o].todo
           /\ op[o].at \in {"scan", "sync", "delta"} => op[o].redo = FALSE
           /\ op[o].at \in {"index", "rebuild"} => op[o].kind # "hint"
           /\ op[o].at = "rebuild" => op[o].redo
BY UnderWhere, SyncParts DEF Going, Located, OpInv, Told, Informed, Placed, Storing, Calls, Carried,
   Forward

LEMMA AwareHolds ==
    ASSUME SyncInv, NEW o \in Ops
    PROVE  /\ op[o].at \in {"sync", "delta"} => Aware(o, op[o].vseq)
           /\ op[o].at \in {"delta", "snap"} => Aware(o, op[o].floor)
           /\ op[o].at \in Storing \cup {"delta", "vpage", "vclose"} => Aware(o, op[o].exp)
BY DEF SyncInv, Under, Storing, Told, Aware

LEMMA AwareMore ==
    ASSUME SyncInv, NEW o \in Ops, op[o].v \in Vaults, NEW p \in Nat, NEW q \in Nat,
           p <= q, Aware(o, p)
    PROVE  Aware(o, q)
BY LogTypes DEF Aware, Knows, SyncInv, Typed

LEMMA AwareKept ==
    ASSUME NEW o \in Ops, NEW q, Aware(o, q), log' = log, gone' = gone,
           op'[o].user = op[o].user, op'[o].v = op[o].v
    PROVE  Aware(o, q)'
BY DEF Aware, Knows, Now

LEMMA CarriedKept ==
    ASSUME NEW o \in Ops, Carried(o), Under(o), log' = log, gone' = gone, user' = user,
           gone \subseteq Users \X Vaults \X Entries,
           op'[o].user = op[o].user, op'[o].kind = op[o].kind, op'[o].redo = op[o].redo,
           op'[o].listed = op[o].listed, op'[o].detail = op[o].detail,
           op'[o].todo \subseteq op[o].todo,
           \A w \in Vaults : vol'[w] \in {vol[w], None} \/ user = op[o].user,
           \A w \in op'[o].todo :
             cache'[op[o].user][w].act \in {cache[op[o].user][w].act, None}
    PROVE  Carried(o)'
BY DEF Informed, Knows, Now, Carried, Ours

LEMMA OpSyncs ==
    ASSUME NEW o \in Ops, op'[o].at = "sync", Carried(o)', op'[o].redo = FALSE,
           op'[o].v \in Vaults \ op'[o].todo,
           op'[o].vseq \in Nat, op'[o].vseq <= Now(op[o].v)',
           Active(op[o].user, op[o].v)' # None => Active(op[o].user, op[o].v)'.seq <= op'[o].vseq,
           Aware(o, op[o].vseq)'
    PROVE  OpInv(o)'
BY DEF Placed, Carried, Located, Gathered, Storing, Forward, Told, Informed, Aware, OpInv

LEMMA OpSnaps ==
    ASSUME NEW o \in Ops, op'[o].at = "snap", Carried(o)',
           op'[o].v \in Vaults \ op'[o].todo, op'[o].floor \in Nat,
           op'[o].was <= op'[o].floor, Copy(o)'.act = None, Aware(o, op[o].floor)'
    PROVE  OpInv(o)'
BY DEF Placed, Carried, Located, Gathered, Storing, Forward, Told, Informed, Aware, OpInv

LEMMA OpDeltas ==
    ASSUME NEW o \in Ops, op'[o].at = "delta", Carried(o)', op'[o].redo = FALSE,
           op'[o].v \in Vaults \ op'[o].todo,
           op'[o].vseq \in Nat, op'[o].vseq <= Now(op[o].v)', op'[o].floor \in Nat,
           op'[o].exp <= Now(op[o].v)', op'[o].was <= op'[o].floor, op'[o].was <= op'[o].exp,
           Copy(o)'.act # None => op'[o].was <= Copy(o)'.act.seq,
           Aware(o, op[o].vseq)', Aware(o, op[o].floor)', Aware(o, op[o].exp)'
    PROVE  OpInv(o)'
BY DEF Placed, Carried, Located, Gathered, Storing, Forward, Told, Informed, Aware, OpInv

LEMMA OpStores ==
    ASSUME NEW o \in Ops, op'[o].at \in Storing, Carried(o)',
           op'[o].v \in Vaults \ op'[o].todo, op'[o].exp <= Now(op[o].v)',
           op'[o].at # "page" => op'[o].need = {},
           Pending(o)' => Partial(op[o].v, Copy(o).pend.items, op[o].need, op[o].exp)',
           op'[o].was <= op'[o].exp, Copy(o)'.act = None, Aware(o, op[o].exp)'
    PROVE  OpInv(o)'
BY DEF Placed, Carried, Located, Storing, Gathered, Forward, Told, Informed, Aware, OpInv

LEMMA OpHolds ==
    ASSUME NEW o \in Ops, op'[o].at \in {"vpage", "vclose"}, Carried(o)',
           op'[o].v \in Vaults \ op'[o].todo, op'[o].exp <= Now(op[o].v)',
           op'[o].at # "vpage" => op'[o].need = {}, op'[o].items \in Holdings,
           Partial(op[o].v, op[o].items, op[o].need, op[o].exp)', Aware(o, op[o].exp)'
    PROVE  OpInv(o)'
BY DEF Placed, Carried, Located, Storing, Gathered, Forward, Told, Informed, Aware, OpInv

LEMMA OpIndexes ==
    ASSUME NEW o \in Ops, op'[o].at \in {"index", "rebuild"}, Carried(o)',
           op'[o].kind # "hint", op'[o].at = "rebuild" => op'[o].redo
    PROVE  OpInv(o)'
BY DEF Placed, Carried, Located, Storing, Gathered, Forward, Told, Informed, OpInv

-----------------------------------------------------------------------------
(* From one vault to the next.                                               *)

(* The active copy is not newer than the vault. *)
LEMMA ActiveTyped ==
    ASSUME SyncInv, NEW u \in Users, NEW v \in Vaults, Active(u, v) # None
    PROVE  /\ Active(u, v) \in SyncCopies /\ Active(u, v).seq <= Now(v)
           /\ Active(u, v).vseq <= Now(v)
           /\ Full(v, Active(u, v).items, Active(u, v).seq)
BY CopyTypes DEF Active, SyncInv, Typed, Whole, Full

LEMMA AfterFetch ==
    ASSUME SyncInv, NEW o \in Ops, NEW v \in Vaults, Fetch(o, v)
    PROVE  SyncInv'
<1>1. /\ Carried(o) /\ AtHead(o) /\ Under(o) /\ op[o] \in Calls /\ op[o].redo = FALSE
      /\ op[o].at = "scan" /\ v \in op[o].todo
  BY CarriedHolds DEF Fetch, Going
<1>2. PICK b \in BOOLEAN : b <=> Unchanged(o, v) OBVIOUS
<1>3. PICK m \in BOOLEAN : m = (Unchanged(o, v) \/ user = op[o].user) OBVIOUS
<1>4. PICK q : q = IF Unchanged(o, v) THEN op[o].listed[v] ELSE Now(v) OBVIOUS
<1>5. op[o].user \in Users /\ op[o].listed \in Reached BY <1>1 DEF Carried
<1>6. /\ q \in Nat /\ q <= Now(v)
      /\ Active(op[o].user, v) # None => Active(op[o].user, v).seq <= q
      /\ \A d \in gone : d[1] = op[o].user /\ d[2] = v => Knows(d, q)
  <2>1. CASE Unchanged(o, v)
    <3>1. PICK a : a = Active(op[o].user, v) OBVIOUS
    <3>2. a # None /\ a.seq = op[o].listed[v] /\ q = op[o].listed[v]
      BY <1>4, <2>1, <3>1 DEF Unchanged
    <3>3. a.seq \in Nat /\ a.seq <= Now(v)
      BY <1>5, <3>1, <3>2, ActiveTyped DEF SyncCopies
    <3>4. q # None BY <3>2, <3>3, SyncAssumption
    <3>5. \A d \in gone : d[1] = op[o].user /\ d[2] = v => Knows(d, q)
      BY <1>1, <3>2, <3>4 DEF Carried, Informed
    <3> QED BY <3>1, <3>2, <3>3, <3>5
  <2>2. CASE ~Unchanged(o, v)
    BY <1>4, <2>2, LogTypes, <1>5, ActiveTyped, KnowsNow DEF SyncInv, Typed
  <2> QED BY <2>1, <2>2
<1>7. PICK r : r = [op[o] EXCEPT !.todo = @ \ {v}, !.v = v, !.at = "sync",
                                 !.vseq = q, !.mine = m]
  OBVIOUS
<1>8. /\ r \in Calls /\ r.at = "sync" /\ r.user = op[o].user /\ r.kind = op[o].kind
      /\ r.redo = op[o].redo /\ r.listed = op[o].listed /\ r.detail = op[o].detail
      /\ r.v = v /\ r.vseq = q /\ r.todo = op[o].todo \ {v}
  BY <1>1, <1>6, <1>7, StepNames DEF Calls
<1>9. op' = [op EXCEPT ![o] = r] BY <1>3, <1>4, <1>7 DEF Fetch, Set
<1>10. Moved(o, r) BY <1>8, <1>9 DEF Moved, Fetch, Stays
<1>11. UNCHANGED <<server, user, link, cache, vol, purges, owed, gone>>
  BY DEF Fetch
<1>12. op'[o] = r BY <1>10, MovedIs
<1>13. Carried(o)'
  BY <1>1, <1>8, <1>11, <1>12, CarriedKept DEF SyncInv, Typed, ServerTyped, server
<1>14. Aware(o, op[o].vseq)'
  BY <1>6, <1>8, <1>11, <1>12 DEF Aware, Knows, Now, server
<1>16. /\ op'[o].vseq <= Now(op[o].v)'
       /\ Active(op[o].user, op[o].v)' # None =>
            Active(op[o].user, op[o].v)'.seq <= op'[o].vseq
  BY <1>6, <1>8, <1>11, <1>12 DEF Now, Active, server
<1>17. OpInv(o)' BY <1>1, <1>6, <1>8, <1>12, <1>13, <1>14, <1>16, OpSyncs
<1> QED BY <1>1, <1>10, <1>11, <1>17, Undisturbed, WhenMoved

LEMMA AfterFinish ==
    ASSUME SyncInv, NEW o \in Ops, Finish(o)
    PROVE  SyncInv'
<1>1. /\ Carried(o) /\ AtHead(o) /\ Under(o) /\ op[o] \in Calls /\ op[o].redo = FALSE
      /\ op[o].at = "scan" /\ op[o].kind # "hint"
  BY CarriedHolds DEF Finish, Going
<1>2. PICK missing : missing = {v \in Vaults : op[o].listed[v] = None} OBVIOUS
<1>3. PICK row : row = [v \in Vaults |-> IF v \in missing THEN Empty ELSE cache[op[o].user][v]]
  OBVIOUS
<1>4. /\ cache' = [cache EXCEPT ![op[o].user] = row]
      /\ vol' = [v \in Vaults |-> IF v \in missing THEN None ELSE vol[v]]
  BY <1>2, <1>3 DEF Finish
<1>5. op[o].user \in Users BY <1>1 DEF Carried
<1>6. row \in [Vaults -> Places] /\ \A v \in Vaults : row[v] \in {cache[op[o].user][v], Empty}
  BY <1>3, <1>5, EmptyTyped, CopyTypes DEF SyncInv, Typed
<1>7. /\ cache' \in [Users -> [Vaults -> Places]] /\ cache'[op[o].user] = row
      /\ \A u \in Users : u # op[o].user => cache'[u] = cache[u]
  BY <1>4, <1>5, <1>6, CopyTypes DEF SyncInv, Typed
<1>8. vol' \in [Vaults -> SyncCopies \cup {None}] /\ \A v \in Vaults : vol'[v] \in {vol[v], None}
  BY <1>4, CopyTypes DEF SyncInv, Typed
<1>9. Drops BY <1>6, <1>7, <1>8 DEF Drops, Finish
<1>10. CopiesTyped' BY <1>7, <1>8, <1>9, DropsTyped DEF SyncInv, Typed
<1>11. UNCHANGED <<server, user, link, purges, owed, gone>> BY DEF Finish
<1>12. ServerTyped' /\ LinkTyped' /\ Stock'
  BY <1>8, <1>11, <1>9, <1>10, OnceDropped DEF link, SyncInv, Typed, LinkTyped, Owned
<1>13. PICK r : r = [op[o] EXCEPT !.at = "index"] OBVIOUS
<1>14. /\ r \in Calls /\ r.at = "index" /\ r.user = op[o].user /\ r.kind = op[o].kind
       /\ r.redo = op[o].redo /\ r.listed = op[o].listed /\ r.detail = op[o].detail
       /\ r.todo = op[o].todo
  BY <1>1, <1>13, StepNames DEF Calls
<1>15. Moved(o, r) BY <1>13, <1>14 DEF Moved, Finish, Goes, Set, Stays
<1>16. op'[o] = r BY <1>15, MovedIs
<1>17. Carried(o)'
  BY <1>1, <1>8, <1>11, <1>14, <1>16, CarriedKept DEF Finish, SyncInv, Typed, ServerTyped, server
<1>18. OpInv(o)' BY <1>1, <1>14, <1>16, <1>17, OpIndexes
<1> QED BY <1>1, <1>10, <1>12, <1>15, <1>18, WhenMoved

LEMMA AfterRefused ==
    ASSUME SyncInv, NEW o \in Ops, NEW v \in Vaults, Refused(o, v)
    PROVE  SyncInv'
<1>1. /\ Carried(o) /\ AtHead(o) /\ Under(o) /\ op[o] \in Calls /\ op[o].redo = FALSE
      /\ op[o].user \in Users
  BY CarriedHolds DEF Refused, Going, Located, Calls, Carried
<1>2. UNCHANGED <<server, user, link, owed, gone>> BY DEF Refused
<1>3. CASE Settle(o) /\ (Purged(op[o].user, v) \/ PurgeBreaks(op[o].user, v))
  BY <1>1, <1>2, <1>3, OncePurged, WhenSettled
<1>4. CASE /\ Purged(op[o].user, v) /\ op[o].kind # "hint" /\ Stays
           /\ Set(o, [op[o] EXCEPT !.at = "scan", !.v = None, !.items = None,
                                   !.todo = @ \ {v}])
  <2>1. PICK r : r = [op[o] EXCEPT !.at = "scan", !.v = None, !.items = None,
                                   !.todo = @ \ {v}]
    OBVIOUS
  <2>2. /\ r \in Calls /\ r.at = "scan" /\ r.user = op[o].user /\ r.kind = op[o].kind
        /\ r.redo = op[o].redo /\ r.listed = op[o].listed /\ r.detail = op[o].detail
        /\ r.todo = op[o].todo \ {v}
    BY <1>1, <2>1, StepNames DEF Calls
  <2>3. Moved(o, r) BY <1>4, <2>1, <2>2 DEF Moved, Set, Stays
  <2>4. op'[o] = r BY <2>3, MovedIs
  <2>5. /\ \A x \in Vaults : vol'[x] \in {vol[x], None}
        /\ \A x \in Vaults : cache'[op[o].user][x].act \in {cache[op[o].user][x].act, None}
    BY <1>1, <1>4, PurgedDrops, EmptyTyped DEF SyncInv, Typed, Drops
  <2>6. Carried(o)'
    BY <1>1, <1>2, <2>2, <2>4, <2>5, CarriedKept DEF Calls, SyncInv, Typed, ServerTyped, server
  <2>7. OpInv(o)' BY <1>1, <1>4, <2>2, <2>4, <2>6, OpScans DEF Carried
  <2> QED BY <1>1, <1>2, <1>4, <2>3, <2>7, OncePurged, WhenMoved
<1> QED BY <1>3, <1>4 DEF Refused

-----------------------------------------------------------------------------
(* Rebuilding the copies.                                                    *)

LEMMA AfterRebuild ==
    ASSUME SyncInv, NEW o \in Ops, NEW v \in Vaults, Rebuild(o, v)
    PROVE  SyncInv'
<1>1. /\ Carried(o) /\ AtHead(o) /\ Under(o) /\ op[o] \in Calls /\ op[o].kind # "hint"
      /\ op[o].user \in Users
  BY CarriedHolds DEF Rebuild, Going, Carried
<1>2. user \in Users BY DEF Rebuild, Readable, SyncInv, Typed, LinkTyped
<1>3. UNCHANGED <<server, user, link, owed, gone>> BY DEF Rebuild
<1>4. CASE op[o].redo
  BY <1>1, <1>2, <1>3, <1>4, OncePurged, WhenSettled DEF Rebuild
<1>5. CASE ~op[o].redo
  <2>1. PICK blank : blank = [w \in Vaults |-> Empty] OBVIOUS
  <2>2. blank \in [Vaults -> Places] /\ \A w \in Vaults : blank[w] = Empty
    BY <2>1, EmptyTyped
  <2>3. PICK k : k = Kept(o) OBVIOUS
  <2>4. PICK r : r = [op[o] EXCEPT !.at = "rebuild", !.redo = TRUE, !.todo = k]
    OBVIOUS
  <2>5. /\ cache' = [cache EXCEPT ![user][v] = Empty, ![op[o].user] = blank]
        /\ vol' = [vol EXCEPT ![v] = None]
        /\ purges' = purges \ {<<user, v>>}
        /\ op' = [op EXCEPT ![o] = r] /\ UNCHANGED <<queue, flight>>
    BY <1>5, <2>1, <2>3, <2>4 DEF Rebuild, Set, Stays
  <2>6. PICK c : c = [cache EXCEPT ![user][v] = Empty] OBVIOUS
  <2>7. /\ c \in [Users -> [Vaults -> Places]]
        /\ c[user][v] = Empty
        /\ \A u \in Users, x \in Vaults : c[u][x] \in {cache[u][x], Empty}
    BY <1>2, <2>6, EmptyTyped, CopyTypes DEF SyncInv, Typed
  <2>8. cache' = [c EXCEPT ![op[o].user] = blank] BY <2>5, <2>6
  <2>9. /\ cache' \in [Users -> [Vaults -> Places]] /\ cache'[op[o].user] = blank
        /\ \A u \in Users : u # op[o].user => cache'[u] = c[u]
    BY <1>1, <2>2, <2>7, <2>8
  <2>10. /\ cache'[user][v] = Empty
         /\ \A u \in Users, x \in Vaults : cache'[u][x] \in {cache[u][x], Empty}
    BY <2>2, <2>7, <2>9, <1>2
  <2>11. /\ vol' \in [Vaults -> SyncCopies \cup {None}] /\ vol'[v] = None
         /\ \A x \in Vaults : vol'[x] \in {vol[x], None}
    BY <2>5, CopyTypes DEF SyncInv, Typed, CopiesTyped
  <2>12. Drops BY <2>5, <2>10, <2>11 DEF Drops
  <2>13. CopiesTyped' BY <2>9, <2>11, <2>12, DropsTyped DEF SyncInv, Typed
  <2>14. ServerTyped' /\ LinkTyped' /\ Stock'
    BY <1>3, <2>11, <2>12, <2>13, OnceDropped DEF link, SyncInv, Typed, LinkTyped, Owned
  <2>15. k \subseteq Vaults /\ \A w \in k : op[o].detail[w] # None
    BY <2>3 DEF Kept
  <2>16. /\ r \in Calls /\ r.at = "rebuild" /\ r.user = op[o].user /\ r.kind = op[o].kind
         /\ r.redo = TRUE /\ r.listed = op[o].listed /\ r.detail = op[o].detail /\ r.todo = k
    BY <1>1, <2>4, <2>15, StepNames DEF Calls
  <2>17. Moved(o, r) BY <2>5, <2>16 DEF Moved
  <2>18. op'[o] = r BY <2>17, MovedIs
  <2>19. Carried(o)'
    <3>1. Ours(o)'
      BY <1>1, <1>3, <2>11, <2>16, <2>18, OursStill DEF Carried
    <3>2. Informed(o)'
      BY <1>1, <1>3, <2>16, <2>18 DEF Carried, Informed, Knows, Now, server
    <3>3. \A w \in k : op[o].detail[w] \in Nat /\ cache'[op[o].user][w].act = None
      BY <1>1, <2>2, <2>9, <2>15, EmptyTyped DEF Carried, Reached
    <3> QED BY <1>1, <2>16, <2>18, <3>1, <3>2, <3>3 DEF Carried
  <2>20. OpInv(o)' BY <1>1, <2>16, <2>18, <2>19, OpIndexes
  <2> QED BY <1>1, <2>13, <2>14, <2>17, <2>20, WhenMoved
<1> QED BY <1>4, <1>5

LEMMA AfterRebuildNext ==
    ASSUME SyncInv, NEW o \in Ops, RebuildNext(o)
    PROVE  SyncInv'
<1>1. /\ Carried(o) /\ AtHead(o) /\ Under(o) /\ op[o] \in Calls /\ op[o].kind # "hint"
      /\ op[o].redo = TRUE /\ op[o].user \in Users
  BY CarriedHolds DEF RebuildNext, Going, Carried, Calls
<1>2. UNCHANGED <<server, user, link, cache, vol, purges, owed, gone>>
  BY DEF RebuildNext
<1>3. CASE op[o].todo = {}
  <2>1. PICK r : r = [op[o] EXCEPT !.at = "index"] OBVIOUS
  <2>2. /\ r \in Calls /\ r.at = "index" /\ r.user = op[o].user /\ r.kind = op[o].kind
        /\ r.redo = op[o].redo /\ r.listed = op[o].listed /\ r.detail = op[o].detail
        /\ r.todo = op[o].todo
    BY <1>1, <2>1, StepNames DEF Calls
  <2>3. Moved(o, r)
    BY <1>3, <2>1, <2>2 DEF Moved, RebuildNext, Goes, Set, Stays
  <2>4. op'[o] = r BY <2>3, MovedIs
  <2>5. Carried(o)'
    BY <1>1, <1>2, <2>2, <2>4, CarriedKept DEF SyncInv, Typed, ServerTyped, server
  <2>6. OpInv(o)' BY <1>1, <2>2, <2>4, <2>5, OpIndexes
  <2> QED BY <1>1, <1>2, <2>3, <2>6, Undisturbed, WhenMoved
<1>4. CASE op[o].todo # {}
  <2>1. PICK v \in op[o].todo :
          Set(o, [op[o] EXCEPT !.todo = @ \ {v}, !.v = v, !.at = "snap",
                    !.vseq = op[o].detail[v], !.floor = op[o].detail[v],
                    !.mine = TRUE, !.was = 0, !.rt = rt])
    BY <1>4 DEF RebuildNext
  <2>2. v \in Vaults /\ op[o].detail[v] \in Nat /\ cache[op[o].user][v].act = None /\ rt \in Nat
    BY <1>1, <2>1 DEF Carried, Calls, SyncInv, Typed, LinkTyped
  <2>3. PICK q : q = op[o].detail[v] OBVIOUS
  <2>31. PICK rest : rest = op[o].todo \ {v} OBVIOUS
  <2>32. q \in Nat /\ rest \in SUBSET Vaults /\ v \in Vaults
    BY <1>1, <2>2, <2>3, <2>31 DEF Calls
  <2>33. PICK s : s = [op[o] EXCEPT !.todo = rest, !.v = v, !.at = "snap", !.vseq = q]
    OBVIOUS
  <2>34. /\ s \in Calls /\ s.at = "snap" /\ s.user = op[o].user /\ s.kind = op[o].kind
         /\ s.redo = op[o].redo /\ s.listed = op[o].listed /\ s.detail = op[o].detail
         /\ s.todo = rest /\ s.v = v
    BY <1>1, <2>32, <2>33, StepNames DEF Calls
  <2>35. PICK r : r = [op[o] EXCEPT !.todo = rest, !.v = v, !.at = "snap",
                    !.vseq = q, !.floor = q, !.mine = TRUE, !.was = 0, !.rt = rt]
    OBVIOUS
  <2>36. PICK t \in Nat : t = rt BY <2>2
  <2>37. r = [s EXCEPT !.floor = q, !.mine = TRUE, !.was = 0, !.rt = t]
    BY <1>1, <2>33, <2>35, <2>36 DEF Calls
  <2>38. r \in Calls BY <2>32, <2>34, <2>37 DEF Calls
  <2>5. /\ r \in Calls /\ r.at = "snap" /\ r.user = op[o].user /\ r.kind = op[o].kind
        /\ r.redo = op[o].redo /\ r.listed = op[o].listed /\ r.detail = op[o].detail
        /\ r.todo = op[o].todo \ {v} /\ r.v = v /\ r.floor = q /\ r.was = 0
    BY <2>31, <2>32, <2>34, <2>37, <2>38 DEF Calls
  <2>6. Moved(o, r)
    BY <2>1, <2>3, <2>31, <2>35, <2>5 DEF Moved, RebuildNext, Set, Stays
  <2>7. op'[o] = r BY <2>6, MovedIs
  <2>8. Carried(o)'
    BY <1>1, <1>2, <2>5, <2>7, CarriedKept DEF SyncInv, Typed, ServerTyped, server
  <2>9. Aware(o, op[o].floor)'
    BY <1>1, <2>2, <2>3, SyncAssumption, <1>2, <2>5, <2>7 DEF Carried, Informed, Aware, Knows, Now,
       server
  <2>10. Copy(o)'.act = None BY <1>2, <2>2, <2>5, <2>7 DEF Copy
  <2>11. OpInv(o)' BY <2>2, <2>3, <2>5, <2>7, <2>8, <2>9, <2>10, OpSnaps
  <2> QED BY <1>1, <1>2, <2>6, <2>11, Undisturbed, WhenMoved
<1> QED BY <1>3, <1>4

(* A snapshot is asked for in place of the copy that was there. *)
LEMMA WhenToSnap ==
    ASSUME SyncInv, NEW o \in Ops, op[o].at \in {"sync", "delta"},
           NEW floor \in Nat, NEW was \in Nat, ToSnap(o, floor, was), was <= floor,
           UNCHANGED <<server, user, link, owed, gone>>,
           \/ UNCHANGED <<cache, vol, purges>> /\ Copy(o).act = None
           \/ Purged(op[o].user, op[o].v),
           Aware(o, floor)
    PROVE  SyncInv'
<1>1. /\ Carried(o) /\ AtHead(o) /\ Under(o) /\ op[o] \in Calls
      /\ op[o].v \in Vaults \ op[o].todo /\ op[o].user \in Users
  BY CarriedHolds DEF Going, Located, Carried
<1>2. PICK r : r = [op[o] EXCEPT !.at = "snap", !.floor = floor, !.was = was, !.rt = rt,
                                 !.upper = None]
  OBVIOUS
<1>3. rt \in Nat BY DEF SyncInv, Typed, LinkTyped
<1>4. /\ r \in Calls /\ r.at = "snap" /\ r.user = op[o].user /\ r.kind = op[o].kind
      /\ r.redo = op[o].redo /\ r.listed = op[o].listed /\ r.detail = op[o].detail
      /\ r.todo = op[o].todo /\ r.v = op[o].v /\ r.floor = floor /\ r.was = was
  BY <1>1, <1>2, <1>3, StepNames DEF Calls
<1>5. Moved(o, r) BY <1>2, <1>4 DEF Moved, ToSnap, Set, Stays
<1>6. op'[o] = r BY <1>5, MovedIs
<1>7. /\ ServerTyped' /\ CopiesTyped' /\ LinkTyped' /\ Stock'
      /\ \A x \in Vaults : vol'[x] \in {vol[x], None}
      /\ \A x \in Vaults : cache'[op[o].user][x].act \in {cache[op[o].user][x].act, None}
      /\ cache'[op[o].user][op[o].v].act = None
  <2>1. CASE UNCHANGED <<cache, vol, purges>> /\ Copy(o).act = None
    BY <1>1, <2>1, Undisturbed DEF Copy
  <2>2. CASE Purged(op[o].user, op[o].v)
    BY <1>1, <2>2, PurgedDrops, EmptyTyped, OncePurged DEF SyncInv, Typed, Drops
  <2> QED BY <2>1, <2>2
<1>8. Carried(o)'
  BY <1>1, <1>4, <1>6, <1>7, CarriedKept DEF Calls, SyncInv, Typed, ServerTyped, server
<1>9. Aware(o, op[o].floor)' BY <1>4, <1>6 DEF Aware, Knows, Now, server
<1>10. Copy(o)'.act = None BY <1>4, <1>6, <1>7 DEF Copy
<1>11. OpInv(o)' BY <1>1, <1>4, <1>6, <1>8, <1>9, <1>10, OpSnaps
<1> QED BY <1>1, <1>5, <1>7, <1>11, WhenMoved

-----------------------------------------------------------------------------
(* Starting a synchronization, and starting it over.                         *)

LEMMA AfterSynchronize ==
    ASSUME SyncInv, NEW o \in Ops, Synchronize(o)
    PROVE  SyncInv'
<1>1. /\ Carried(o) /\ AtHead(o) /\ Under(o) /\ op[o] \in Calls /\ op[o].redo = FALSE
      /\ op[o].v \in Vaults \ op[o].todo /\ op[o].at = "sync" /\ op[o].user \in Users
  BY CarriedHolds DEF Synchronize, Going, Located, Carried
<1>2. PICK u \in Users : u = op[o].user BY <1>1
<1>3. PICK v \in Vaults : v = op[o].v BY <1>1
<1>4. PICK a : a = Active(u, v) OBVIOUS
<1>5. /\ op[o].vseq \in Nat /\ op[o].vseq <= Now(v) /\ (a # None => a.seq <= op[o].vseq)
      /\ Aware(o, op[o].vseq)
  BY <1>1, <1>2, <1>3, <1>4, AwareHolds DEF SyncInv, Placed, Forward
<1>6. PICK vs \in Nat : vs = op[o].vseq BY <1>5
<1>7. UNCHANGED <<server, user, link, owed, gone>> BY DEF Synchronize
<1>8. a # None => a \in SyncCopies /\ a.seq \in Nat /\ a.seq <= Now(v)
  BY <1>4, ActiveTyped DEF SyncCopies
<1>9. CASE Purged(u, v) /\ ToSnap(o, vs, IF a = None THEN 0 ELSE a.seq)
  <2>1. PICK was \in Nat : was = IF a = None THEN 0 ELSE a.seq BY <1>8
  <2>2. was <= vs BY <1>5, <1>6, <2>1
  <2>3. ToSnap(o, vs, was) BY <1>9, <2>1
  <2>4. Purged(op[o].user, op[o].v) BY <1>2, <1>3, <1>9
  <2> QED BY <1>1, <1>5, <1>6, <1>7, <2>2, <2>3, <2>4, WhenToSnap
<1>10. CASE PurgeBreaks(u, v) /\ Settle(o)
  BY <1>1, <1>7, <1>10, OncePurged, WhenSettled
<1>11. CASE a = None /\ ToSnap(o, vs, 0) /\ UNCHANGED <<cache, vol, purges>>
  BY <1>2, <1>3, <1>4, <1>11, <1>1, <1>5, <1>6, <1>7, WhenToSnap DEF Active, Copy
<1>12. CASE /\ <<u, v>> \notin purges /\ a # None
            /\ Set(o, [op[o] EXCEPT !.at = "delta", !.exp = a.seq, !.was = a.seq,
                       !.floor = Max({vs, a.seq}), !.upper = None,
                       !.rt = rt, !.pers = cache[u][v].act # None])
            /\ Stays /\ UNCHANGED <<cache, vol, purges>>
  <2>1. PICK b \in BOOLEAN : b = (cache[u][v].act # None) OBVIOUS
  <2>2. PICK t \in Nat : t = rt BY DEF SyncInv, Typed, LinkTyped
  <2>3. PICK q \in Nat : q = a.seq BY <1>8, <1>12
  <2>4. PICK m \in Nat : m = Max({vs, q}) /\ vs <= m /\ q <= m BY MaxTwo
  <2>5. PICK r : r = [op[o] EXCEPT !.at = "delta", !.exp = q, !.was = q, !.floor = m,
                                   !.upper = None, !.rt = t, !.pers = b]
    OBVIOUS
  <2>6. r \in Calls BY <1>1, <2>5, StepNames DEF Calls
  <2>7. /\ r.at = "delta" /\ r.user = op[o].user /\ r.kind = op[o].kind
        /\ r.redo = op[o].redo /\ r.listed = op[o].listed /\ r.detail = op[o].detail
        /\ r.todo = op[o].todo /\ r.v = v /\ r.vseq = vs /\ r.exp = q /\ r.was = q
        /\ r.floor = m
    BY <1>1, <1>3, <1>6, <2>5 DEF Calls
  <2>8. op' = [op EXCEPT ![o] = r]
    BY <1>12, <2>1, <2>2, <2>3, <2>4, <2>5 DEF Set
  <2>9. Moved(o, r) BY <1>12, <2>6, <2>7, <2>8 DEF Moved, Stays
  <2>10. op'[o] = r BY <2>9, MovedIs
  <2>11. Carried(o)'
    BY <1>1, <1>7, <1>12, <2>7, <2>10, CarriedKept DEF SyncInv, Typed, ServerTyped, server
  <2>12. Aware(o, q)
    BY <1>2, <1>3, <1>12, <1>4, <2>3, <1>1 DEF Aware, SyncInv, Hidden, Active, Carried, Ours
  <2>13. Aware(o, m) /\ Aware(o, vs)
    BY <1>1, <1>5, <1>6, <2>4, <2>12, AwareMore
  <2>14. Aware(o, op[o].vseq)' /\ Aware(o, op[o].floor)' /\ Aware(o, op[o].exp)'
    BY <1>3, <1>7, <2>7, <2>10, <2>12, <2>13, AwareKept DEF server, Aware
  <2>15. Now(op[o].v)' = Now(v) /\ q <= Now(v) /\ vs <= Now(v)
    BY <1>5, <1>6, <1>7, <1>8, <1>12, <2>3, <2>7, <2>10 DEF Now, server
  <2>16. Copy(o)'.act # None => q <= Copy(o)'.act.seq
    <3>1. Copy(o)' = cache[u][v] BY <1>2, <1>12, <2>7, <2>10 DEF Copy
    <3> QED BY <1>4, <2>3, <3>1 DEF Active
  <2>17. OpInv(o)'
    <3>1. /\ op'[o].at = "delta" /\ op'[o].redo = FALSE /\ op'[o].v \in Vaults \ op'[o].todo
          /\ op'[o].vseq \in Nat /\ op'[o].floor \in Nat
          /\ op'[o].was <= op'[o].floor /\ op'[o].was <= op'[o].exp
      BY <1>1, <1>3, <2>4, <2>7, <2>10
    <3>2. op'[o].vseq <= Now(op[o].v)' /\ op'[o].exp <= Now(op[o].v)'
      BY <2>7, <2>10, <2>15
    <3>3. Copy(o)'.act # None => op'[o].was <= Copy(o)'.act.seq
      BY <2>7, <2>10, <2>16
    <3> QED BY <2>11, <2>14, <3>1, <3>2, <3>3, OpDeltas
  <2> QED BY <1>1, <1>7, <1>12, <2>9, <2>17, Undisturbed, WhenMoved
<1> QED BY <1>2, <1>3, <1>4, <1>6, <1>9, <1>10, <1>11, <1>12 DEF Synchronize

LEMMA AfterStartOver ==
    ASSUME SyncInv, NEW o \in Ops, StartOver(o)
    PROVE  SyncInv'
<1>1. /\ Carried(o) /\ AtHead(o) /\ Under(o) /\ op[o] \in Calls
      /\ op[o].v \in Vaults \ op[o].todo /\ op[o].at = "delta" /\ op[o].user \in Users
  BY CarriedHolds DEF StartOver, Going, Located, Carried
<1>2. UNCHANGED <<server, user, link, owed, gone>> BY DEF StartOver
<1>3. PICK v \in Vaults : v = op[o].v BY <1>1
<1>4. CASE PurgeBreaks(op[o].user, op[o].v) /\ Settle(o)
  BY <1>1, <1>2, <1>4, OncePurged, WhenSettled
<1>5. ASSUME NEW q \in Nat, Purged(op[o].user, op[o].v),
             ToSnap(o, Max({op[o].floor, q}), op[o].was)
      PROVE  SyncInv'
  <2>1. /\ op[o].floor \in Nat /\ op[o].was \in Nat /\ op[o].was <= op[o].floor
        /\ Aware(o, op[o].floor)
    BY <1>1, AwareHolds DEF SyncInv, Placed, Forward, Calls
  <2>2. PICK f, was \in Nat : f = op[o].floor /\ was = op[o].was BY <2>1
  <2>3. PICK m \in Nat : m = Max({f, q}) /\ f <= m BY <2>1, <2>2, MaxTwo
  <2>4. Aware(o, m) /\ was <= m /\ ToSnap(o, m, was)
    BY <1>1, <1>5, <2>1, <2>2, <2>3, AwareMore
  <2> QED BY <1>1, <1>2, <1>5, <2>4, WhenToSnap
<1>6. Now(v) \in Nat BY LogTypes DEF SyncInv, Typed
<1>7. \A q \in Uppers(o) : q \in Nat BY <1>1, <1>3, <1>6 DEF Uppers, Calls
<1> QED BY <1>3, <1>4, <1>5, <1>6, <1>7 DEF StartOver

-----------------------------------------------------------------------------
(* The first page of a snapshot.                                             *)

LEMMA PartialStored ==
    ASSUME NEW o \in Ops, NEW v, NEW items, NEW need, NEW q, op'[o].v = v,
           Copy(o)'.pend.items = items, op'[o].need = need, op'[o].exp = q,
           Partial(v, items, need, q)'
    PROVE  Partial(op[o].v, Copy(o).pend.items, op[o].need, op[o].exp)'
BY DEF Partial

LEMMA PartialHeld ==
    ASSUME NEW o \in Ops, NEW v, NEW items, NEW need, NEW q, op'[o].v = v,
           op'[o].items = items, op'[o].need = need, op'[o].exp = q,
           Partial(v, items, need, q)'
    PROVE  Partial(op[o].v, op[o].items, op[o].need, op[o].exp)'
BY DEF Partial

(* A page of a pending copy is stored beside the active one. *)
LEMMA PendStored ==
    ASSUME SyncInv, NEW o \in Ops, NEW u \in Users, NEW v \in Vaults, NEW p \in Stages,
           u = op[o].user, v = op[o].v, WithPend(o, p), p.seq <= Now(v),
           \A e \in Entries : Of(v, e, p.items[e]),
           UNCHANGED <<server, user, link, vol, purges, owed, gone>>
    PROVE  /\ ServerTyped' /\ CopiesTyped' /\ LinkTyped' /\ Stock'
           /\ cache'[u][v].pend = p /\ cache'[u][v].act = cache[u][v].act
           /\ \A x \in Vaults : cache'[u][x].act = cache[u][x].act
<1>1. CopiesTyped /\ Stock /\ gone \subseteq Users \X Vaults \X Entries
  BY SyncParts DEF Typed, ServerTyped
<1>2. PICK c : c = [cache[u][v] EXCEPT !.pend = p] OBVIOUS
<1>3. cache[u][v] \in Places BY <1>1, CopyTypes
<1>4. c \in Places /\ c.pend = p /\ c.act = cache[u][v].act
  BY <1>2, <1>3 DEF Places
<1>5. cache' = [cache EXCEPT ![u][v] = c] BY <1>2 DEF WithPend
<1>6. c.act # None =>
        /\ c.act.by = u /\ c.act.pol = "offline" /\ c.act.vseq <= Now(v)
        /\ Full(v, c.act.items, c.act.seq)
        /\ \A d \in gone : d[1] = u /\ d[2] = v /\ <<u, v>> \notin purges => Knows(d, c.act.seq)
  <2> SUFFICES ASSUME c.act # None
               PROVE  /\ c.act.by = u /\ c.act.pol = "offline" /\ c.act.vseq <= Now(v)
                      /\ Full(v, c.act.items, c.act.seq)
                      /\ \A d \in gone : d[1] = u /\ d[2] = v /\ <<u, v>> \notin purges =>
                           Knows(d, c.act.seq)
    OBVIOUS
  <2>1. c.act.by = u /\ c.act.pol = "offline" BY <1>1, <1>4 DEF Stock, Owned
  <2>2. c.act.vseq <= Now(v) /\ Full(v, c.act.items, c.act.seq)
    BY <1>1, <1>4 DEF Stock, Whole, Full
  <2>3. ASSUME NEW d \in gone, d[1] = u, d[2] = v, <<u, v>> \notin purges
        PROVE  Knows(d, c.act.seq)
    BY <1>1, <1>4, <2>3 DEF Stock, Hidden
  <2> QED BY <2>1, <2>2, <2>3
<1>7. CopiesTyped' /\ Stock'
  BY <1>1, <1>4, <1>5, <1>6, StockStored DEF server, link
<1>8. ServerTyped' /\ LinkTyped'
  BY ServerKept DEF SyncInv, Typed, LinkTyped, link
<1>9. /\ cache'[u][v] = c
      /\ \A x \in Vaults : x # v => cache'[u][x] = cache[u][x]
  BY <1>1, <1>4, <1>5, CopyTypes
<1> QED BY <1>4, <1>7, <1>8, <1>9

LEMMA PagesAre ==
    ASSUME NEW o, NEW need, NEW base, NEW p \in Pages(o, need, base)
    PROVE  \E es \in SUBSET need, q \in {base, Now(op[o].v)} :
             p.left = need \ es /\ p.items = PageItems(op[o].v, es, q)
BY DEF Pages

LEMMA AfterSnapshot ==
    ASSUME SyncInv, NEW o \in Ops, Snapshot(o)
    PROVE  SyncInv'
<1>1. /\ Carried(o) /\ AtHead(o) /\ Under(o) /\ op[o] \in Calls
      /\ op[o].v \in Vaults \ op[o].todo /\ op[o].at = "snap" /\ op[o].user \in Users
  BY CarriedHolds DEF Snapshot, Going, Located, Carried
<1>2. PICK u \in Users : u = op[o].user BY <1>1
<1>3. PICK v \in Vaults : v = op[o].v BY <1>1
<1>4. PICK off \in BOOLEAN : off = (policy[v] = "disabled") OBVIOUS
<1>5. PICK base \in 0..Now(v) : \E pg \in Pages(o, Entries, base) :
        /\ Recent(o, base)
        /\ IF off
           THEN Purged(u, v)
           ELSE /\ WithPend(o, [by |-> o, seq |-> base, items |-> pg.items])
                /\ UNCHANGED <<vol, purges>>
        /\ Set(o, [op[o] EXCEPT !.exp = base, !.upper = None, !.need = pg.left,
              !.items = IF off THEN pg.items ELSE None,
              !.at = IF off THEN IF pg.left = {} THEN "vclose" ELSE "vpage"
                            ELSE IF pg.left = {} THEN "close" ELSE "page"])
  BY <1>2, <1>3, <1>4 DEF Snapshot
<1>6. PICK pg \in Pages(o, Entries, base) :
        /\ Recent(o, base)
        /\ IF off
           THEN Purged(u, v)
           ELSE /\ WithPend(o, [by |-> o, seq |-> base, items |-> pg.items])
                /\ UNCHANGED <<vol, purges>>
        /\ Set(o, [op[o] EXCEPT !.exp = base, !.upper = None, !.need = pg.left,
              !.items = IF off THEN pg.items ELSE None,
              !.at = IF off THEN IF pg.left = {} THEN "vclose" ELSE "vpage"
                            ELSE IF pg.left = {} THEN "close" ELSE "page"])
  BY <1>5
<1>7. UNCHANGED <<server, user, link, owed, gone>> BY DEF Snapshot
<1>8. PICK es \in SUBSET Entries, q \in {base, Now(v)} :
        pg.left = Entries \ es /\ pg.items = PageItems(v, es, q)
  BY <1>3, PagesAre
<1>9. ServerTyped /\ DeadLast /\ Now(v) \in Nat /\ base \in Nat /\ base <= Now(v)
  BY LogTypes DEF SyncInv, Typed, History
<1>10. PICK items : items = pg.items OBVIOUS
<1>11. PICK left : left = pg.left OBVIOUS
<1>12. items \in Holdings /\ Partial(v, items, left, base) /\ left \in SUBSET Entries
  BY <1>8, <1>9, <1>10, <1>11, PageServes, FirstPage
<1>13. Partial(v, items, left, base)' BY <1>7, <1>12, FullSame DEF server
<1>14. op[o].was \in Nat /\ op[o].was <= base /\ op[o].floor \in Nat /\ op[o].floor <= base
  BY <1>1, <1>6, <1>9 DEF SyncInv, Forward, Placed, Recent, Calls
<1>15. Aware(o, base) BY <1>1, <1>3, <1>9, <1>14, AwareHolds, AwareMore
<1>16. Copy(o).act = None BY <1>1 DEF SyncInv, Forward
<1>17. Now(v)' = Now(v) BY <1>7 DEF Now, server
<1>18. CASE off
  <2>1. PICK at \in {"vclose", "vpage"} : at = IF left = {} THEN "vclose" ELSE "vpage"
    OBVIOUS
  <2>2. PICK r : r = [op[o] EXCEPT !.exp = base, !.upper = None, !.need = left,
                                   !.items = items, !.at = at]
    OBVIOUS
  <2>3. /\ r \in Calls /\ r.at = at /\ r.user = op[o].user /\ r.kind = op[o].kind
        /\ r.redo = op[o].redo /\ r.listed = op[o].listed /\ r.detail = op[o].detail
        /\ r.todo = op[o].todo /\ r.v = v /\ r.exp = base /\ r.need = left /\ r.items = items
    BY ZenonT(30), <1>1, <1>3, <1>9, <1>12, <2>2, StepNames DEF Calls
  <2>4. op' = [op EXCEPT ![o] = r]
    BY <1>6, <1>10, <1>11, <1>18, <2>1, <2>2 DEF Set
  <2>5. Moved(o, r) BY <2>1, <2>3, <2>4 DEF Moved, Snapshot, Stays
  <2>6. op'[o] = r BY <2>5, MovedIs
  <2>7. Purged(u, v) BY <1>6, <1>18
  <2>8. /\ \A x \in Vaults : vol'[x] \in {vol[x], None}
        /\ \A x \in Vaults : cache'[u][x].act \in {cache[u][x].act, None}
    BY <2>7, PurgedDrops, EmptyTyped DEF SyncInv, Typed, Drops
  <2>9. Carried(o)'
    BY <1>1, <1>2, <1>7, <2>3, <2>6, <2>8, CarriedKept DEF Calls, SyncInv, Typed, ServerTyped,
       server
  <2>10. Aware(o, op[o].exp)'
    BY <1>3, <1>7, <1>15, <2>3, <2>6, AwareKept DEF server, Aware
  <2>11. Partial(op[o].v, op[o].items, op[o].need, op[o].exp)'
    BY <1>13, <2>3, <2>6, PartialHeld
  <2>12. /\ op'[o].at \in {"vpage", "vclose"} /\ op'[o].v \in Vaults \ op'[o].todo
         /\ op'[o].exp <= Now(op[o].v)' /\ (op'[o].at # "vpage" => op'[o].need = {})
         /\ op'[o].items \in Holdings
    BY <1>1, <1>3, <1>9, <1>12, <1>17, <2>1, <2>3, <2>6
  <2>13. OpInv(o)' BY <2>9, <2>10, <2>11, <2>12, OpHolds
  <2> QED BY <1>1, <1>7, <2>5, <2>7, <2>13, OncePurged, WhenMoved
<1>19. CASE ~off
  <2>1. PICK at \in {"close", "page"} : at = IF left = {} THEN "close" ELSE "page"
    OBVIOUS
  <2>2. PICK r : r = [op[o] EXCEPT !.exp = base, !.upper = None, !.need = left,
                                   !.items = None, !.at = at]
    OBVIOUS
  <2>3. /\ r \in Calls /\ r.at = at /\ r.user = op[o].user /\ r.kind = op[o].kind
        /\ r.redo = op[o].redo /\ r.listed = op[o].listed /\ r.detail = op[o].detail
        /\ r.todo = op[o].todo /\ r.v = v /\ r.exp = base /\ r.need = left
        /\ r.was = op[o].was
    BY ZenonT(30), <1>1, <1>3, <1>9, <1>12, <2>2, StepNames DEF Calls
  <2>4. op' = [op EXCEPT ![o] = r]
    BY <1>6, <1>10, <1>11, <1>19, <2>1, <2>2 DEF Set
  <2>5. Moved(o, r) BY <2>1, <2>3, <2>4 DEF Moved, Snapshot, Stays
  <2>6. op'[o] = r BY <2>5, MovedIs
  <2>7. PICK p : p = [by |-> o, seq |-> base, items |-> items] OBVIOUS
  <2>8. p \in Stages /\ p.seq = base /\ p.items = items
    BY <1>9, <1>12, <2>7 DEF Stages
  <2>9. WithPend(o, p) /\ UNCHANGED <<vol, purges>>
    BY <1>6, <1>10, <1>19, <2>7
  <2>10. \A e \in Entries : Of(v, e, p.items[e]) BY <1>12, <2>8 DEF Partial
  <2>11. /\ ServerTyped' /\ CopiesTyped' /\ LinkTyped' /\ Stock'
         /\ cache'[u][v].pend = p /\ cache'[u][v].act = cache[u][v].act
         /\ \A x \in Vaults : cache'[u][x].act = cache[u][x].act
    BY <1>2, <1>3, <1>7, <1>9, <2>8, <2>9, <2>10, PendStored
  <2>12. Carried(o)'
    BY <1>1, <1>2, <1>7, <2>3, <2>6, <2>9, <2>11, CarriedKept DEF Calls, SyncInv, Typed,
       ServerTyped, server
  <2>13. Aware(o, op[o].exp)'
    BY <1>3, <1>7, <1>15, <2>3, <2>6, AwareKept DEF server, Aware
  <2>14. Copy(o)'.pend = p /\ Copy(o)'.act = None
    BY <1>2, <1>3, <1>16, <2>3, <2>6, <2>11 DEF Copy
  <2>15. Partial(op[o].v, Copy(o).pend.items, op[o].need, op[o].exp)'
    BY <1>13, <2>3, <2>6, <2>8, <2>14, PartialStored
  <2>16. /\ op'[o].at \in Storing /\ op'[o].v \in Vaults \ op'[o].todo
         /\ op'[o].exp <= Now(op[o].v)' /\ (op'[o].at # "page" => op'[o].need = {})
         /\ op'[o].was <= op'[o].exp
    BY <1>1, <1>3, <1>9, <1>14, <1>17, <2>1, <2>3, <2>6 DEF Storing
  <2>17. OpInv(o)' BY <2>12, <2>13, <2>14, <2>15, <2>16, OpStores
  <2> QED BY <1>1, <2>5, <2>11, <2>17, WhenMoved
<1> QED BY <1>18, <1>19

-----------------------------------------------------------------------------
(* The pages that follow.                                                    *)

(* A vault is synchronized: on to the next one, or that was all. *)
LEMMA WhenNext ==
    ASSUME SyncInv, NEW o \in Ops, op[o].at \in Located, NEW seq \in Nat,
           NextVault(o, seq), Aware(o, seq), op[o].at # "sync",
           ServerTyped', CopiesTyped', LinkTyped', Stock',
           UNCHANGED <<log, gone, user>>,
           \A w \in Vaults : vol'[w] \in {vol[w], None} \/ user = op[o].user,
           \A w \in op[o].todo :
             cache'[op[o].user][w].act \in {cache[op[o].user][w].act, None}
    PROVE  SyncInv'
<1>1. /\ Carried(o) /\ AtHead(o) /\ Under(o) /\ op[o] \in Calls
      /\ op[o].v \in Vaults \ op[o].todo /\ op[o].user \in Users
  BY CarriedHolds DEF Going, Carried
<1>2. CASE op[o].kind = "hint" BY <1>1, <1>2, WhenSettled DEF NextVault
<1>3. CASE op[o].kind # "hint"
  <2>1. PICK v \in Vaults : v = op[o].v BY <1>1
  <2>2. PICK at \in {"rebuild", "scan"} : at = IF op[o].redo THEN "rebuild" ELSE "scan"
    OBVIOUS
  <2>3. PICK m : m = [op[o].detail EXCEPT ![v] = seq] OBVIOUS
  <2>4. op[o].detail \in Reached BY <1>1, <1>3 DEF Carried
  <2>5. m \in Reached /\ m[v] = seq /\ \A w \in Vaults : w # v => m[w] = op[o].detail[w]
    BY <2>3, <2>4 DEF Reached
  <2>6. PICK r : r = [op[o] EXCEPT !.at = at, !.detail = m, !.v = None, !.items = None]
    OBVIOUS
  <2>7. /\ r \in Calls /\ r.at = at /\ r.user = op[o].user /\ r.kind = op[o].kind
        /\ r.redo = op[o].redo /\ r.listed = op[o].listed /\ r.detail = m
        /\ r.todo = op[o].todo
    BY <1>1, <2>5, <2>6, StepNames DEF Calls
  <2>8. op' = [op EXCEPT ![o] = r]
    BY <1>3, <2>1, <2>2, <2>3, <2>6 DEF NextVault, Set
  <2>9. Moved(o, r) BY <1>3, <2>7, <2>8 DEF Moved, NextVault, Stays
  <2>10. op'[o] = r BY <2>9, MovedIs
  <2>11. Informed(o)'
    <3> SUFFICES ASSUME NEW d \in gone, d[1] = op[o].user
                 PROVE  /\ op[o].listed[d[2]] # None => Knows(d, op[o].listed[d[2]])
                        /\ m[d[2]] # None => Knows(d, m[d[2]])
      BY <2>7, <2>10 DEF Informed, Knows, Now
    <3>1. d[2] \in Vaults BY DEF SyncInv, Typed, ServerTyped
    <3>2. CASE d[2] = v BY <1>1, <2>1, <2>5, <3>2 DEF Aware, Carried, Informed
    <3>3. CASE d[2] # v BY <1>1, <1>3, <2>5, <3>1, <3>3 DEF Carried, Informed
    <3> QED BY <3>2, <3>3
  <2>12. Ours(o)' BY <1>1, <2>7, <2>10 DEF Carried, Ours
  <2>13. Carried(o)'
    BY <1>1, <2>5, <1>3, <2>7, <2>10, <2>11, <2>12 DEF Calls, Carried
  <2>14. OpInv(o)'
    BY <2>2, <1>3, <2>7, <2>10, <2>13, OpIndexes, <1>1, OpScans DEF Calls, Carried
  <2> QED BY <1>1, <2>9, <2>14, WhenMoved
<1> QED BY <1>2, <1>3

(* A pending copy takes another page. *)
LEMMA WhenPended ==
    ASSUME SyncInv, NEW o \in Ops, op[o].at \in Storing, NEW r, Moved(o, r),
           r.user = op[o].user, r.redo = op[o].redo, r.listed = op[o].listed,
           r.detail = op[o].detail, r.todo = op[o].todo, r.v = op[o].v, r.was = op[o].was,
           r.at \in Storing, r.at # "page" => r.need = {}, r.exp \in Nat,
           op[o].exp <= r.exp, r.exp <= Now(op[o].v), NEW p \in Stages,
           p.seq <= Now(op[o].v), Partial(op[o].v, p.items, r.need, r.exp), WithPend(o, p),
           UNCHANGED <<server, user, link, vol, purges, owed, gone>>
    PROVE  SyncInv'
<1>1. /\ Carried(o) /\ AtHead(o) /\ Under(o) /\ op[o] \in Calls
      /\ op[o].v \in Vaults \ op[o].todo /\ op[o].user \in Users
  BY CarriedHolds DEF Going, Carried, Located, Storing
<1>2. PICK u \in Users : u = op[o].user BY <1>1
<1>3. PICK v \in Vaults : v = op[o].v BY <1>1
<1>4. op'[o] = r /\ r.kind = op[o].kind BY MovedIs DEF Moved
<1>5. \A e \in Entries : Of(v, e, p.items[e]) BY <1>3 DEF Partial
<1>6. /\ ServerTyped' /\ CopiesTyped' /\ LinkTyped' /\ Stock'
      /\ cache'[u][v].pend = p /\ cache'[u][v].act = cache[u][v].act
      /\ \A x \in Vaults : cache'[u][x].act = cache[u][x].act
  BY <1>2, <1>3, <1>5, PendStored
<1>7. Carried(o)'
  BY <1>1, <1>2, <1>4, <1>6, CarriedKept DEF Calls, SyncInv, Typed, ServerTyped, server
<1>8. PICK items, need, q : items = p.items /\ need = r.need /\ q = r.exp
  OBVIOUS
<1>9. Partial(v, items, need, q)' BY <1>3, <1>8, FullSame DEF server
<1>10. op[o].exp \in Nat /\ op[o].was \in Nat /\ op[o].was <= op[o].exp /\ Copy(o).act = None
       /\ Aware(o, op[o].exp)
  BY <1>1, AwareHolds DEF SyncInv, Forward, Calls
<1>11. Aware(o, q) BY <1>1, <1>8, <1>10, AwareMore
<1>12. Aware(o, op[o].exp)' BY <1>4, <1>11, AwareKept, <1>8 DEF server, Aware
<1>13. Copy(o)'.pend = p /\ Copy(o)'.act = None
  BY <1>2, <1>3, <1>4, <1>6, <1>10 DEF Copy
<1>14. Partial(op[o].v, Copy(o).pend.items, op[o].need, op[o].exp)'
  BY <1>3, <1>4, <1>8, <1>9, <1>13, PartialStored
<1>15. Now(op[o].v)' = Now(op[o].v) BY <1>4 DEF Now, server
<1>16. /\ op'[o].at \in Storing /\ op'[o].v \in Vaults \ op'[o].todo
       /\ op'[o].exp <= Now(op[o].v)' /\ (op'[o].at # "page" => op'[o].need = {})
       /\ op'[o].was <= op'[o].exp
  BY <1>1, <1>4, <1>10, <1>15
<1>17. OpInv(o)' BY <1>7, <1>12, <1>13, <1>14, <1>16, OpStores
<1> QED BY <1>1, <1>6, <1>17, WhenMoved

(* A page more of a copy that is gathered in memory. *)
LEMMA WhenGathered ==
    ASSUME SyncInv, NEW o \in Ops, op[o].at \in {"vpage", "vclose"}, NEW r, Moved(o, r),
           r.user = op[o].user, r.redo = op[o].redo, r.listed = op[o].listed,
           r.detail = op[o].detail, r.todo = op[o].todo, r.v = op[o].v,
           r.at \in {"vpage", "vclose"}, r.at # "vpage" => r.need = {}, r.exp \in Nat,
           op[o].exp <= r.exp, r.exp <= Now(op[o].v), r.items \in Holdings,
           Partial(op[o].v, r.items, r.need, r.exp),
           UNCHANGED <<server, user, link, cache, vol, purges, owed, gone>>
    PROVE  SyncInv'
<1>1. /\ Carried(o) /\ AtHead(o) /\ Under(o) /\ op[o] \in Calls
      /\ op[o].v \in Vaults \ op[o].todo /\ op[o].user \in Users
  BY CarriedHolds DEF Going, Carried, Located
<1>3. PICK v \in Vaults : v = op[o].v BY <1>1
<1>4. op'[o] = r /\ r.kind = op[o].kind BY MovedIs DEF Moved
<1>7. Carried(o)'
  BY <1>1, <1>4, CarriedKept DEF SyncInv, Typed, ServerTyped, server
<1>8. PICK items, need, q : items = r.items /\ need = r.need /\ q = r.exp
  OBVIOUS
<1>9. Partial(v, items, need, q)' BY <1>3, <1>8, FullSame DEF server
<1>10. op[o].exp \in Nat /\ Aware(o, op[o].exp) BY <1>1, AwareHolds DEF Calls
<1>11. Aware(o, q) BY <1>1, <1>8, <1>10, AwareMore
<1>12. Aware(o, op[o].exp)' BY <1>4, <1>11, AwareKept, <1>8 DEF server, Aware
<1>14. Partial(op[o].v, op[o].items, op[o].need, op[o].exp)'
  BY <1>3, <1>4, <1>8, <1>9, PartialHeld
<1>15. Now(op[o].v)' = Now(op[o].v) BY <1>4 DEF Now, server
<1>16. /\ op'[o].at \in {"vpage", "vclose"} /\ op'[o].v \in Vaults \ op'[o].todo
       /\ op'[o].exp <= Now(op[o].v)' /\ (op'[o].at # "vpage" => op'[o].need = {})
       /\ op'[o].items \in Holdings
  BY <1>1, <1>4, <1>15
<1>17. OpInv(o)' BY <1>7, <1>12, <1>14, <1>16, OpHolds
<1> QED BY <1>1, <1>17, Undisturbed, WhenMoved

LEMMA AfterPage ==
    ASSUME SyncInv, NEW o \in Ops, Page(o)
    PROVE  SyncInv'
<1>1. /\ op[o] \in Calls /\ op[o].v \in Vaults /\ op[o].at = "page" /\ op[o].user \in Users
  BY CarriedHolds DEF Page, Going, Located, Carried
<1>2. PICK v \in Vaults : v = op[o].v BY <1>1
<1>3. PICK pg \in Pages(o, op[o].need, op[o].exp) :
        /\ WithPend(o, [Copy(o).pend EXCEPT !.items = Merge(@, pg.items)])
        /\ Set(o, [op[o] EXCEPT !.need = pg.left,
                     !.at = IF pg.left = {} THEN "close" ELSE "page"])
  BY DEF Page
<1>4. PICK es \in SUBSET op[o].need, q \in {op[o].exp, Now(v)} :
        pg.left = op[o].need \ es /\ pg.items = PageItems(v, es, q)
  BY <1>2, PagesAre
<1>5. PICK c : c = Copy(o).pend OBVIOUS
<1>6. Pending(o) /\ c \in Stages
  BY <1>1, <1>5, CopyTypes DEF Page, Pending, Copy, SyncInv, Typed
<1>7. PICK items \in Holdings : items = c.items BY <1>6 DEF Stages
<1>8. PICK need \in SUBSET Entries : need = op[o].need BY <1>1 DEF Calls
<1>9. PICK base \in Nat : base = op[o].exp BY <1>1 DEF Calls
<1>10. Partial(v, items, need, base) /\ base <= Now(v) /\ ServerTyped /\ DeadLast
  BY <1>1, <1>2, <1>5, <1>6, <1>7, <1>8, <1>9
     DEF SyncInv, Gathered, Storing, Typed, History, Partial
<1>11. PICK m : m = Merge(items, PageItems(v, es, q)) OBVIOUS
<1>12. m \in Holdings /\ Partial(v, m, need \ es, base)
  BY <1>4, <1>8, <1>9, <1>10, <1>11, NextPage
<1>13. PICK p : p = [c EXCEPT !.items = m] OBVIOUS
<1>14. p \in Stages /\ p.items = m /\ p.seq = c.seq
  BY <1>6, <1>12, <1>13 DEF Stages
<1>15. p.seq = base BY <1>5, <1>6, <1>9, <1>14 DEF Pending
<1>16. WithPend(o, p) BY <1>3, <1>4, <1>5, <1>7, <1>11, <1>13
<1>17. PICK at \in {"close", "page"} : at = IF pg.left = {} THEN "close" ELSE "page"
  OBVIOUS
<1>18. PICK left \in SUBSET Entries : left = pg.left BY <1>4, <1>8
<1>19. PICK r : r = [op[o] EXCEPT !.need = left, !.at = at] OBVIOUS
<1>20. /\ r \in Calls /\ r.at = at /\ r.user = op[o].user /\ r.kind = op[o].kind
       /\ r.redo = op[o].redo /\ r.listed = op[o].listed /\ r.detail = op[o].detail
       /\ r.todo = op[o].todo /\ r.v = op[o].v /\ r.exp = base /\ r.need = left
       /\ r.was = op[o].was
  BY ZenonT(30), <1>1, <1>9, <1>19, StepNames DEF Calls
<1>21. op' = [op EXCEPT ![o] = r] BY <1>3, <1>17, <1>18, <1>19 DEF Set
<1>22. Moved(o, r) BY <1>20, <1>21 DEF Moved, Page, Stays
<1>23. UNCHANGED <<server, user, link, vol, purges, owed, gone>> BY DEF Page
<1>24. Partial(op[o].v, p.items, r.need, r.exp)
  BY <1>2, <1>4, <1>8, <1>12, <1>14, <1>18, <1>20
<1>25. /\ op[o].at \in Storing /\ r.at \in Storing /\ (r.at # "page" => r.need = {})
       /\ r.exp \in Nat /\ op[o].exp <= r.exp /\ r.exp <= Now(op[o].v) /\ p.seq <= Now(op[o].v)
  BY <1>1, <1>2, <1>9, <1>10, <1>15, <1>17, <1>18, <1>20 DEF Storing
<1> QED BY <1>14, <1>16, <1>20, <1>22, <1>23, <1>24, <1>25, WhenPended

LEMMA AfterVolatilePage ==
    ASSUME SyncInv, NEW o \in Ops, VolatilePage(o)
    PROVE  SyncInv'
<1>1. /\ op[o] \in Calls /\ op[o].v \in Vaults /\ op[o].at = "vpage"
  BY CarriedHolds DEF VolatilePage, Going, Located
<1>2. PICK v \in Vaults : v = op[o].v BY <1>1
<1>3. PICK pg \in Pages(o, op[o].need, op[o].exp) :
        Set(o, [op[o] EXCEPT !.need = pg.left, !.items = Merge(@, pg.items),
                  !.at = IF pg.left = {} THEN "vclose" ELSE "vpage"])
  BY DEF VolatilePage
<1>4. PICK es \in SUBSET op[o].need, q \in {op[o].exp, Now(v)} :
        pg.left = op[o].need \ es /\ pg.items = PageItems(v, es, q)
  BY <1>2, PagesAre
<1>7. PICK items \in Holdings : items = op[o].items
  BY <1>1 DEF SyncInv, Gathered
<1>8. PICK need \in SUBSET Entries : need = op[o].need BY <1>1 DEF Calls
<1>9. PICK base \in Nat : base = op[o].exp BY <1>1 DEF Calls
<1>10. Partial(v, items, need, base) /\ base <= Now(v) /\ ServerTyped /\ DeadLast
  BY <1>1, <1>2, <1>7, <1>8, <1>9 DEF SyncInv, Gathered, Typed, History, Partial
<1>11. PICK m : m = Merge(items, PageItems(v, es, q)) OBVIOUS
<1>12. m \in Holdings /\ Partial(v, m, need \ es, base)
  BY <1>4, <1>8, <1>9, <1>10, <1>11, NextPage
<1>17. PICK at \in {"vclose", "vpage"} : at = IF pg.left = {} THEN "vclose" ELSE "vpage"
  OBVIOUS
<1>18. PICK left \in SUBSET Entries : left = pg.left BY <1>4, <1>8
<1>19. PICK r : r = [op[o] EXCEPT !.need = left, !.items = m, !.at = at]
  OBVIOUS
<1>20. /\ r \in Calls /\ r.at = at /\ r.user = op[o].user /\ r.kind = op[o].kind
       /\ r.redo = op[o].redo /\ r.listed = op[o].listed /\ r.detail = op[o].detail
       /\ r.todo = op[o].todo /\ r.v = op[o].v /\ r.exp = base /\ r.need = left
       /\ r.items = m
  BY ZenonT(30), <1>1, <1>9, <1>12, <1>19, StepNames DEF Calls
<1>21. op' = [op EXCEPT ![o] = r]
  BY <1>3, <1>4, <1>7, <1>11, <1>17, <1>18, <1>19 DEF Set
<1>22. Moved(o, r) BY <1>20, <1>21 DEF Moved, VolatilePage, Stays
<1>23. UNCHANGED <<server, user, link, cache, vol, purges, owed, gone>>
  BY DEF VolatilePage
<1>24. Partial(op[o].v, r.items, r.need, r.exp)
  BY <1>2, <1>4, <1>8, <1>12, <1>18, <1>20
<1>25. /\ op[o].at \in {"vpage", "vclose"} /\ r.at \in {"vpage", "vclose"}
       /\ (r.at # "vpage" => r.need = {}) /\ r.items \in Holdings
       /\ r.exp \in Nat /\ op[o].exp <= r.exp /\ r.exp <= Now(op[o].v)
  BY <1>1, <1>2, <1>9, <1>10, <1>12, <1>17, <1>18, <1>20
<1> QED BY <1>20, <1>22, <1>23, <1>24, <1>25, WhenGathered

(* The safe prefix of an answer reaches at least as far as what is known.    *)
LEMMA PrefixesAre ==
    ASSUME ServerTyped, NEW o \in Ops, op[o] \in Calls, op[o].v \in Vaults,
           NEW p \in Prefixes(o)
    PROVE  /\ p[1] \in Nat /\ op[o].exp <= p[1] /\ p[1] <= Now(op[o].v)
           /\ p[2] \in Nat
BY LogTypes DEF Calls, Prefixes, Uppers

LEMMA AfterClose ==
    ASSUME SyncInv, NEW o \in Ops, Close(o)
    PROVE  SyncInv'
<1>1. /\ op[o] \in Calls /\ op[o].v \in Vaults /\ op[o].at = "close" /\ op[o].user \in Users
  BY CarriedHolds DEF Close, Going, Located, Carried
<1>2. PICK v \in Vaults : v = op[o].v BY <1>1
<1>3. PICK p \in Prefixes(o) : \E q \in {p[1], Now(v)} :
        /\ WithPend(o, [Copy(o).pend EXCEPT !.seq = p[1],
              !.items = Merge(@, DeltaItems(v, op[o].exp, p[1], q))])
        /\ Set(o, [op[o] EXCEPT !.exp = p[1], !.upper = p[2],
                     !.at = IF p[1] = p[2] THEN "done" ELSE "close"])
  BY <1>2 DEF Close
<1>4. PICK q \in {p[1], Now(v)} :
        /\ WithPend(o, [Copy(o).pend EXCEPT !.seq = p[1],
              !.items = Merge(@, DeltaItems(v, op[o].exp, p[1], q))])
        /\ Set(o, [op[o] EXCEPT !.exp = p[1], !.upper = p[2],
                     !.at = IF p[1] = p[2] THEN "done" ELSE "close"])
  BY <1>3
<1>5. PICK c : c = Copy(o).pend OBVIOUS
<1>6. Pending(o) /\ c \in Stages
  BY <1>1, <1>5, CopyTypes DEF Close, Pending, Copy, SyncInv, Typed
<1>7. PICK items \in Holdings : items = c.items BY <1>6 DEF Stages
<1>8. PICK from \in Nat : from = op[o].exp BY <1>1 DEF Calls
<1>9. ServerTyped /\ op[o].need = {} /\ Partial(v, items, {}, from)
  BY <1>1, <1>2, <1>5, <1>6, <1>7, <1>8 DEF SyncInv, Gathered, Storing, Typed, Partial
<1>10. PICK to, top \in Nat : to = p[1] /\ top = p[2]
  BY <1>1, <1>9, PrefixesAre
<1>11. from <= to /\ to <= Now(v)
  BY <1>1, <1>2, <1>8, <1>9, <1>10, PrefixesAre
<1>12. PICK m : m = Merge(items, DeltaItems(v, from, to, q)) OBVIOUS
<1>13. m \in Holdings /\ Partial(v, m, {}, to)
  BY <1>9, PartialIsFull, <1>4, <1>10, <1>11, <1>12, DeltaFull
<1>14. PICK w : w = [c EXCEPT !.seq = to, !.items = m] OBVIOUS
<1>15. w \in Stages /\ w.items = m /\ w.seq = to
  BY <1>6, <1>13, <1>14 DEF Stages
<1>16. WithPend(o, w) BY <1>4, <1>5, <1>7, <1>8, <1>10, <1>12, <1>14
<1>17. PICK at \in {"close", "done"} : at = IF to = top THEN "done" ELSE "close"
  OBVIOUS
<1>19. PICK r : r = [op[o] EXCEPT !.exp = to, !.upper = top, !.at = at]
  OBVIOUS
<1>20. /\ r \in Calls /\ r.at = at /\ r.user = op[o].user /\ r.kind = op[o].kind
       /\ r.redo = op[o].redo /\ r.listed = op[o].listed /\ r.detail = op[o].detail
       /\ r.todo = op[o].todo /\ r.v = op[o].v /\ r.exp = to /\ r.need = op[o].need
       /\ r.was = op[o].was
  BY ZenonT(30), <1>1, <1>19, StepNames DEF Calls
<1>21. op' = [op EXCEPT ![o] = r] BY <1>4, <1>10, <1>17, <1>19 DEF Set
<1>22. Moved(o, r) BY <1>20, <1>21 DEF Moved, Close, Stays
<1>23. UNCHANGED <<server, user, link, vol, purges, owed, gone>> BY DEF Close
<1>24. Partial(op[o].v, w.items, r.need, r.exp)
  BY <1>2, <1>9, <1>13, <1>15, <1>20
<1>25. /\ op[o].at \in Storing /\ r.at \in Storing /\ (r.at # "page" => r.need = {})
       /\ r.exp \in Nat /\ op[o].exp <= r.exp /\ r.exp <= Now(op[o].v) /\ w.seq <= Now(op[o].v)
  BY <1>1, <1>2, <1>8, <1>9, <1>11, <1>15, <1>17, <1>20 DEF Storing
<1> QED BY <1>15, <1>16, <1>20, <1>22, <1>23, <1>24, <1>25, WhenPended

-----------------------------------------------------------------------------
(* The end of a snapshot.                                                    *)

LEMMA AfterVolatileClose ==
    ASSUME SyncInv, NEW o \in Ops, VolatileClose(o)
    PROVE  SyncInv'
<1>1. /\ Carried(o) /\ op[o] \in Calls /\ op[o].v \in Vaults \ op[o].todo
      /\ op[o].at = "vclose" /\ op[o].user \in Users
  BY CarriedHolds DEF VolatileClose, Going, Located, Carried
<1>2. PICK v \in Vaults : v = op[o].v BY <1>1
<1>3. PICK p \in Prefixes(o) : \E q \in {p[1], Now(v)} :
         LET to == p[1]
             items == Merge(op[o].items, DeltaItems(v, op[o].exp, to, q)) IN
         IF to = p[2]
         THEN /\ vol' = [vol EXCEPT ![v] =
                   [seq |-> to, vseq |-> to, items |-> items,
                    pol |-> "disabled", by |-> user]]
              /\ NextVault(o, to)
         ELSE /\ Set(o, [op[o] EXCEPT !.exp = to, !.upper = p[2],
                                      !.items = items])
              /\ Stays /\ UNCHANGED vol
  BY <1>2 DEF VolatileClose
<1>4. PICK q \in {p[1], Now(v)} :
         IF p[1] = p[2]
         THEN /\ vol' = [vol EXCEPT ![v] =
                   [seq |-> p[1], vseq |-> p[1],
                    items |-> Merge(op[o].items, DeltaItems(v, op[o].exp, p[1], q)),
                    pol |-> "disabled", by |-> user]]
              /\ NextVault(o, p[1])
         ELSE /\ Set(o, [op[o] EXCEPT !.exp = p[1], !.upper = p[2],
                           !.items = Merge(op[o].items, DeltaItems(v, op[o].exp, p[1], q))])
              /\ Stays /\ UNCHANGED vol
  BY <1>3
<1>5. UNCHANGED <<server, user, link, cache, purges, owed, gone>>
  BY DEF VolatileClose
<1>7. PICK items \in Holdings : items = op[o].items
  BY <1>1 DEF SyncInv, Gathered
<1>8. PICK from \in Nat : from = op[o].exp BY <1>1 DEF Calls
<1>9. ServerTyped /\ op[o].need = {} /\ Partial(v, items, {}, from)
  BY <1>1, <1>2, <1>7, <1>8 DEF SyncInv, Gathered, Typed
<1>10. PICK to, top \in Nat : to = p[1] /\ top = p[2]
  BY <1>1, <1>9, PrefixesAre
<1>11. from <= to /\ to <= Now(v)
  BY <1>1, <1>2, <1>8, <1>9, <1>10, PrefixesAre
<1>12. PICK m : m = Merge(items, DeltaItems(v, from, to, q)) OBVIOUS
<1>13. m \in Holdings /\ Full(v, m, to) /\ Partial(v, m, {}, to)
  BY <1>9, PartialIsFull, <1>4, <1>10, <1>11, <1>12, DeltaFull
<1>14. CASE to # top
  <2>1. PICK r : r = [op[o] EXCEPT !.exp = to, !.upper = top, !.items = m]
    OBVIOUS
  <2>2. /\ r \in Calls /\ r.at = "vclose" /\ r.user = op[o].user /\ r.kind = op[o].kind
        /\ r.redo = op[o].redo /\ r.listed = op[o].listed /\ r.detail = op[o].detail
        /\ r.todo = op[o].todo /\ r.v = op[o].v /\ r.exp = to /\ r.need = op[o].need
        /\ r.items = m
    BY <1>1, <1>13, <2>1 DEF Calls
  <2>3. op' = [op EXCEPT ![o] = r] /\ Stays /\ UNCHANGED vol
    BY <1>4, <1>7, <1>8, <1>10, <1>12, <1>14, <2>1 DEF Set
  <2>4. Moved(o, r) BY <2>2, <2>3 DEF Moved, Stays
  <2>5. UNCHANGED <<server, user, link, cache, vol, purges, owed, gone>>
    BY <1>5, <2>3
  <2>6. Partial(op[o].v, r.items, r.need, r.exp) BY <1>2, <1>9, <1>13, <2>2
  <2>7. /\ op[o].at \in {"vpage", "vclose"} /\ r.at \in {"vpage", "vclose"}
        /\ (r.at # "vpage" => r.need = {}) /\ r.items \in Holdings
        /\ r.exp \in Nat /\ op[o].exp <= r.exp /\ r.exp <= Now(op[o].v)
    BY <1>1, <1>2, <1>8, <1>9, <1>11, <1>13, <2>2
  <2> QED BY <2>2, <2>4, <2>5, <2>6, <2>7, WhenGathered
<1>15. CASE to = top
  <2>1. user = op[o].user /\ conn /\ user \in Users
    BY <1>1 DEF VolatileClose, Authentic, SameUser, SameLink
  <2>2. PICK a : a = [seq |-> to, vseq |-> to, items |-> m, pol |-> "disabled", by |-> user]
    OBVIOUS
  <2>3. a \in SyncCopies /\ a.seq = to /\ a.vseq = to /\ a.items = m /\ a.by = user
    BY <1>13, <2>1, <2>2 DEF SyncCopies
  <2>4. vol' = [vol EXCEPT ![v] = a] /\ NextVault(o, to)
    BY <1>4, <1>7, <1>8, <1>10, <1>12, <1>15, <2>2
  <2>5. Aware(o, to) BY <1>1, <1>8, AwareHolds, <1>11, AwareMore
  <2>6. \A d \in gone : d[1] = user /\ d[2] = v /\ <<d[1], v>> \notin purges =>
          Knows(d, a.seq)
    BY <1>2, <2>1, <2>3, <2>5 DEF Aware
  <2>7. CopiesTyped /\ Stock /\ gone \subseteq Users \X Vaults \X Entries
    BY SyncParts DEF Typed, ServerTyped
  <2>8. UNCHANGED <<log, gone, user, hub, conn, cache, purges>>
    BY <1>5 DEF server, link
  <2>9. CopiesTyped' /\ Stock'
    BY <1>11, <1>13, <2>3, <2>1, <2>4, <2>6, <2>7, <2>8, StockHeld
  <2>10. ServerTyped' /\ LinkTyped'
    BY <1>5, ServerKept DEF SyncInv, Typed, LinkTyped, link
  <2>11. \A w \in Vaults : vol'[w] \in {vol[w], None} \/ user = op[o].user
    BY <2>1
  <2>12. \A w \in op[o].todo :
           cache'[op[o].user][w].act \in {cache[op[o].user][w].act, None}
    BY <1>5
  <2> QED BY <1>1, <2>4, <2>5, <2>8, <2>9, <2>10, <2>11, <2>12, WhenNext DEF Located
<1> QED BY <1>14, <1>15

(* The pending copy becomes the active one. *)
LEMMA AfterComplete ==
    ASSUME SyncInv, NEW o \in Ops, Complete(o)
    PROVE  SyncInv'
<1>1. /\ Carried(o) /\ op[o] \in Calls /\ op[o].v \in Vaults \ op[o].todo
      /\ op[o].at = "done" /\ op[o].user \in Users
  BY CarriedHolds DEF Complete, Going, Located, Carried
<1>2. PICK u \in Users : u = op[o].user BY <1>1
<1>3. PICK v \in Vaults : v = op[o].v BY <1>1
<1>4. UNCHANGED <<server, user, link, vol, purges, owed, gone>>
  BY DEF Complete
<1>5. Pending(o) BY DEF Complete
<1>6. CopiesTyped /\ Stock /\ gone \subseteq Users \X Vaults \X Entries /\ ServerTyped
  BY SyncParts DEF Typed, ServerTyped
<1>7. cache[u][v].pend \in Stages /\ Copy(o) = cache[u][v]
  BY <1>2, <1>3, <1>5, <1>6, CopyTypes DEF Copy, Pending
<1>8. PICK items \in Holdings : items = cache[u][v].pend.items
  BY <1>7 DEF Stages
<1>9. PICK seq \in Nat : seq = op[o].exp BY <1>1 DEF Calls
<1>10. Full(v, items, seq) /\ seq <= Now(v)
  BY <1>1, <1>3, <1>5, <1>7, <1>8, <1>9, PartialIsFull DEF SyncInv, Gathered, Storing
<1>11. PICK a : a = [seq |-> seq, vseq |-> seq, pol |-> "offline", items |-> items, by |-> u]
  OBVIOUS
<1>12. /\ a \in SyncCopies /\ a.seq = seq /\ a.vseq = seq /\ a.items = items /\ a.by = u
       /\ a.pol = "offline"
  BY <1>11 DEF SyncCopies
<1>13. PICK c : c = [act |-> a, pend |-> None] OBVIOUS
<1>14. c \in Places /\ c.act = a /\ c.pend = None BY <1>12, <1>13 DEF Places
<1>15. cache' = [cache EXCEPT ![u][v] = c]
  BY <1>2, <1>3, <1>9, <1>8, <1>11, <1>13 DEF Complete
<1>16. Aware(o, seq) BY <1>1, <1>9, AwareHolds DEF Storing
<1>17. c.act # None =>
         /\ c.act.by = u /\ c.act.pol = "offline" /\ c.act.vseq <= Now(v)
         /\ Full(v, c.act.items, c.act.seq)
         /\ \A d \in gone : d[1] = u /\ d[2] = v /\ <<u, v>> \notin purges =>
              Knows(d, c.act.seq)
  BY <1>2, <1>3, <1>10, <1>12, <1>14, <1>16 DEF Aware
<1>18. CopiesTyped' /\ Stock'
  BY <1>4, <1>6, <1>14, <1>15, <1>17, StockStored DEF server, link
<1>19. ServerTyped' /\ LinkTyped'
  BY <1>4, ServerKept DEF SyncInv, Typed, LinkTyped, link
<1>20. \A w \in op[o].todo :
         cache'[op[o].user][w].act \in {cache[op[o].user][w].act, None}
  BY <1>1, <1>3, <1>2, <1>6, <1>15, CopyTypes DEF Calls
<1>21. NextVault(o, seq) BY <1>9 DEF Complete
<1>22. UNCHANGED <<log, gone, user>> /\ \A w \in Vaults : vol'[w] \in {vol[w], None}
  BY <1>4 DEF server
<1> QED BY <1>1, <1>16, <1>18, <1>19, <1>20, <1>21, <1>22, WhenNext DEF Located

-----------------------------------------------------------------------------
(* The pages of a delta.                                                     *)

(* A copy that takes a page of changes is as good at the page's end.         *)
LEMMA GrownIs ==
    ASSUME SyncInv, NEW o \in Ops, op[o].at = "delta", op[o].v \in Vaults, op[o] \in Calls,
           NEW a \in SyncCopies, NEW v \in Vaults, v = op[o].v, a.seq = op[o].exp,
           Full(v, a.items, a.seq), user \in Users,
           NEW to \in Nat, op[o].exp <= to, to <= Now(v), NEW q \in {to, Now(v)},
           NEW n, n = Grown(o, a, DeltaItems(v, op[o].exp, to, q), to)
    PROVE  /\ n \in SyncCopies /\ n.seq = to /\ n.by = user /\ n.pol = policy[v]
           /\ n.vseq = IF op[o].pers THEN op[o].vseq ELSE to
           /\ n.vseq \in Nat /\ n.vseq <= Now(v) /\ Full(v, n.items, to)
           /\ \A e \in Entries : a.items[e] <= n.items[e]
<1>1. ServerTyped BY DEF SyncInv, Typed
<1>2. PICK from \in Nat : from = op[o].exp BY DEF Calls
<1>3. PICK items \in Holdings : items = a.items BY DEF SyncCopies
<1>4. PICK m : m = Merge(items, DeltaItems(v, from, to, q)) OBVIOUS
<1>5. m \in Holdings /\ Full(v, m, to) /\ \A e \in Entries : items[e] <= m[e]
  BY <1>1, <1>2, <1>3, <1>4, DeltaFull
<1>6. op[o].vseq \in Nat /\ op[o].vseq <= Now(v) /\ op[o].pers \in BOOLEAN
  BY DEF SyncInv, Placed, Calls
<1>7. PICK vs \in Nat : vs = IF op[o].pers THEN op[o].vseq ELSE to BY <1>6
<1>8. PICK pol \in {"offline", "disabled"} : pol = policy[v]
  BY <1>1 DEF ServerTyped
<1>9. n = [a EXCEPT !.items = m, !.seq = to, !.vseq = vs, !.pol = pol, !.by = user]
  BY <1>2, <1>3, <1>4, <1>7, <1>8 DEF Grown
<1>10. /\ n \in SyncCopies /\ n.items = m /\ n.seq = to /\ n.vseq = vs /\ n.pol = pol
       /\ n.by = user
  BY <1>5, <1>9 DEF SyncCopies
<1> QED BY <1>3, <1>5, <1>6, <1>7, <1>8, <1>10

LEMMA AfterDeltaPage ==
    ASSUME SyncInv, NEW o \in Ops, DeltaPage(o)
    PROVE  SyncInv'
<1>1. /\ Carried(o) /\ AtHead(o) /\ Under(o) /\ op[o] \in Calls
      /\ op[o].v \in Vaults \ op[o].todo /\ op[o].at = "delta" /\ op[o].user \in Users
      /\ op[o].redo = FALSE
  BY CarriedHolds DEF DeltaPage, Going, Located, Carried
<1>2. PICK u \in Users : u = op[o].user BY <1>1
<1>3. PICK v \in Vaults : v = op[o].v BY <1>1
<1>4. PICK a : a = Active(u, v) OBVIOUS
<1>5. PICK p \in Prefixes(o) : \E q \in {p[1], Now(v)} :
         LET to == p[1]
             next == Grown(o, a, DeltaItems(v, op[o].exp, to, q), to) IN
         /\ IF op[o].pers THEN WithAct(o, next) /\ UNCHANGED vol
            ELSE vol' = [vol EXCEPT ![v] = next] /\ UNCHANGED cache
         /\ IF to = p[2] THEN NextVault(o, next.vseq)
            ELSE /\ Set(o, [op[o] EXCEPT !.exp = to, !.upper = p[2],
                             !.floor = Max({@, p[2]})])
                 /\ Stays
  BY <1>2, <1>3, <1>4 DEF DeltaPage
<1>6. PICK q \in {p[1], Now(v)} :
         LET to == p[1]
             next == Grown(o, a, DeltaItems(v, op[o].exp, to, q), to) IN
         /\ IF op[o].pers THEN WithAct(o, next) /\ UNCHANGED vol
            ELSE vol' = [vol EXCEPT ![v] = next] /\ UNCHANGED cache
         /\ IF to = p[2] THEN NextVault(o, next.vseq)
            ELSE /\ Set(o, [op[o] EXCEPT !.exp = to, !.upper = p[2],
                             !.floor = Max({@, p[2]})])
                 /\ Stays
  BY <1>5
<1>7. PICK n : n = Grown(o, a, DeltaItems(v, op[o].exp, p[1], q), p[1])
  OBVIOUS
<1>8. /\ IF op[o].pers THEN WithAct(o, n) /\ UNCHANGED vol
         ELSE vol' = [vol EXCEPT ![v] = n] /\ UNCHANGED cache
      /\ IF p[1] = p[2] THEN NextVault(o, n.vseq)
         ELSE /\ Set(o, [op[o] EXCEPT !.exp = p[1], !.upper = p[2],
                          !.floor = Max({@, p[2]})])
              /\ Stays
  BY <1>6, <1>7
<1>9. UNCHANGED <<server, user, link, purges, owed, gone>> BY DEF DeltaPage
<1>10. /\ Authentic(o) /\ ~Flips(o) /\ Continues(o) /\ a # None /\ a.seq = op[o].exp
  BY <1>2, <1>3, <1>4 DEF DeltaPage
<1>11. user = u /\ user \in Users BY <1>2, <1>10 DEF Authentic, SameUser
<1>12. ServerTyped /\ CopiesTyped /\ Stock /\ gone \subseteq Users \X Vaults \X Entries
  BY SyncParts DEF Typed, ServerTyped
<1>13. a \in SyncCopies /\ Full(v, a.items, a.seq) BY <1>4, <1>10, ActiveTyped
<1>14. PICK to, top \in Nat : to = p[1] /\ top = p[2]
  BY <1>1, <1>12, PrefixesAre
<1>15. op[o].exp <= to /\ to <= Now(v) /\ op[o].exp \in Nat
  BY <1>1, <1>3, <1>12, <1>14, PrefixesAre DEF Calls
<1>16. /\ n \in SyncCopies /\ n.seq = to /\ n.by = user /\ n.pol = policy[v]
       /\ n.vseq = IF op[o].pers THEN op[o].vseq ELSE to
       /\ n.vseq \in Nat /\ n.vseq <= Now(v) /\ Full(v, n.items, to)
  BY <1>1, <1>3, <1>6, <1>7, <1>10, <1>11, <1>13, <1>14, <1>15, GrownIs
<1>17. Aware(o, to) /\ Aware(o, op[o].vseq) /\ Aware(o, op[o].floor) /\ Aware(o, op[o].exp)
  BY <1>1, AwareHolds, <1>15, AwareMore
<1>18. \A d \in gone : d[1] = u /\ d[2] = v => Knows(d, n.seq)
  BY <1>2, <1>3, <1>16, <1>17 DEF Aware
<1>19. /\ CopiesTyped' /\ Stock'
       /\ \A x \in Vaults : x # v => cache'[u][x].act = cache[u][x].act
       /\ IF op[o].pers THEN cache'[u][v].act = n ELSE cache'[u][v].act = cache[u][v].act
  <2>1. CASE op[o].pers
    <3>1. PICK c : c = [cache[u][v] EXCEPT !.act = n] OBVIOUS
    <3>2. cache[u][v] \in Places BY <1>12, CopyTypes
    <3>3. c \in Places /\ c.act = n /\ c.pend = cache[u][v].pend
      BY <1>16, <3>1, <3>2 DEF Places
    <3>4. cache' = [cache EXCEPT ![u][v] = c]
      BY <1>2, <1>3, <1>8, <2>1, <3>1 DEF WithAct
    <3>5. n.pol = "offline"
      BY <1>3, <1>10, <1>12, <1>16, <2>1 DEF Flips, ServerTyped
    <3>6. c.pend # None =>
            c.pend.seq <= Now(v) /\ \A e \in Entries : Of(v, e, c.pend.items[e])
      BY <1>12, <3>3 DEF Stock, Whole
    <3>7. c.act # None =>
             /\ c.act.by = u /\ c.act.pol = "offline" /\ c.act.vseq <= Now(v)
             /\ Full(v, c.act.items, c.act.seq)
             /\ \A d \in gone : d[1] = u /\ d[2] = v /\ <<u, v>> \notin purges =>
                  Knows(d, c.act.seq)
      BY <1>11, <1>16, <1>18, <3>3, <3>5
    <3>8. UNCHANGED <<log, gone, user, hub, conn, vol, purges>>
      BY <1>8, <1>9, <2>1 DEF server, link
    <3>9. CopiesTyped' /\ Stock'
      BY <1>12, <3>3, <3>4, <3>6, <3>7, <3>8, StockStored
    <3>10. cache'[u][v] = c /\ \A x \in Vaults : x # v => cache'[u][x] = cache[u][x]
      BY <1>12, <3>4, CopyTypes
    <3> QED BY <2>1, <3>3, <3>9, <3>10
  <2>2. CASE ~op[o].pers
    BY <1>8, <1>10, <2>2, <1>9, <1>16, <1>11, <1>18, <1>12, StockHeld DEF Continues, SameLink,
       server, link
  <2> QED BY <2>1, <2>2
<1>20. ServerTyped' /\ LinkTyped'
  BY <1>9, ServerKept DEF SyncInv, Typed, LinkTyped, link
<1>21. /\ \A w \in Vaults : vol'[w] \in {vol[w], None} \/ user = op[o].user
       /\ \A w \in op[o].todo :
            cache'[op[o].user][w].act \in {cache[op[o].user][w].act, None}
  BY <1>1, <1>3, <1>2, <1>11, <1>19 DEF Calls
<1>22. UNCHANGED <<log, gone, user>> BY <1>9 DEF server
<1>23. CASE to = top
  BY <1>8, <1>14, <1>23, <1>16, <1>17, <1>1, <1>19, <1>20, <1>21, <1>22, WhenNext DEF Located
<1>24. CASE to # top
  <2>1. PICK fl \in Nat : fl = op[o].floor BY <1>1 DEF SyncInv, Placed
  <2>2. PICK up \in Nat : up = Max({fl, top}) /\ fl <= up
    BY <1>14, <2>1, MaxTwo
  <2>3. PICK r : r = [op[o] EXCEPT !.exp = to, !.upper = top, !.floor = up]
    OBVIOUS
  <2>4. /\ r \in Calls /\ r.at = "delta" /\ r.user = op[o].user /\ r.kind = op[o].kind
        /\ r.redo = op[o].redo /\ r.listed = op[o].listed /\ r.detail = op[o].detail
        /\ r.todo = op[o].todo /\ r.v = op[o].v /\ r.exp = to /\ r.floor = up
        /\ r.was = op[o].was /\ r.vseq = op[o].vseq
    BY <1>1, <2>3 DEF Calls
  <2>5. op' = [op EXCEPT ![o] = r] /\ Stays
    BY <1>8, <1>14, <1>24, <2>1, <2>2, <2>3 DEF Set
  <2>6. Moved(o, r) BY <1>1, <2>4, <2>5 DEF Moved, Stays
  <2>7. op'[o] = r BY <2>6, MovedIs
  <2>8. Carried(o)' BY <1>1, <1>12, <1>21, <1>22, <2>4, <2>7, CarriedKept
  <2>9. Aware(o, op[o].vseq)' /\ Aware(o, op[o].floor)' /\ Aware(o, op[o].exp)'
    <3>1. PICK vs : vs = op[o].vseq OBVIOUS
    <3>2. Aware(o, up) BY <1>1, <1>17, <2>1, <2>2, AwareMore
    <3>3. Aware(o, vs)' /\ Aware(o, up)' /\ Aware(o, to)'
      BY <1>17, <1>22, <2>4, <2>7, <3>1, <3>2, AwareKept
    <3> QED BY <2>4, <2>7, <3>1, <3>3 DEF Aware
  <2>10. /\ op[o].vseq \in Nat /\ op[o].vseq <= Now(v) /\ op[o].was \in Nat
         /\ op[o].was <= fl /\ op[o].was <= op[o].exp
         /\ cache[u][v].act # None => op[o].was <= cache[u][v].act.seq
    BY <1>1, <1>2, <1>3, <2>1 DEF SyncInv, Placed, Forward, Calls, Copy
  <2>11. Now(op[o].v)' = Now(v) BY <1>3, <1>22, <2>4, <2>7 DEF Now
  <2>12. /\ op'[o].at = "delta" /\ op'[o].redo = FALSE /\ op'[o].v \in Vaults \ op'[o].todo
         /\ op'[o].vseq \in Nat /\ op'[o].vseq <= Now(op[o].v)' /\ op'[o].floor \in Nat
         /\ op'[o].exp <= Now(op[o].v)' /\ op'[o].was <= op'[o].floor
         /\ op'[o].was <= op'[o].exp
    BY <1>1, <1>3, <1>15, <2>1, <2>2, <2>4, <2>7, <2>10, <2>11
  <2>13. Copy(o)'.act # None => op'[o].was <= Copy(o)'.act.seq
    BY SMTT(30), <1>2, <1>3, <2>4, <2>7, <1>15, <1>16, <1>19, <2>10 DEF Copy
  <2>14. OpInv(o)' BY <2>8, <2>9, <2>12, <2>13, OpDeltas
  <2> QED BY <1>1, <1>19, <1>20, <2>6, <2>14, WhenMoved
<1> QED BY <1>23, <1>24

-----------------------------------------------------------------------------
(* A deletion, and the start.                                                *)

(* A deletion is sent: the server may commit it whatever comes back.         *)
LEMMA AfterSent ==
    ASSUME SyncInv, NEW o \in Ops, Send(o)
    PROVE  SyncInv'
<1>1. /\ AtHead(o) /\ Under(o) /\ op[o].user \in Users /\ op[o] \in Calls /\ op[o].at = "send"
  BY UnderWhere DEF Send
<1>2. op[o].kind = "delete" /\ op[o].v \in Vaults /\ op[o].redo = FALSE
  BY <1>1 DEF SyncInv, Serial, Placed, Storing, Calls
<1>3. PICK u \in Users : u = op[o].user BY <1>1
<1>4. PICK v \in Vaults : v = op[o].v BY <1>2
<1>5. PICK r : r = [op[o] EXCEPT !.at = "purge"] OBVIOUS
<1>6. /\ r \in Calls /\ r.at = "purge" /\ r.user = u /\ r.kind = "delete" /\ r.v = v
      /\ r.redo = FALSE
  BY <1>1, <1>2, <1>3, <1>4, <1>5, StepNames DEF Calls
<1>7. Moved(o, r) BY <1>5, <1>2, <1>6 DEF Send, Goes, Set, Moved, Stays
<1>8. op'[o] = r BY <1>7, MovedIs
<1>9. user' = user /\ user = u BY <1>3 DEF Send
<1>10. OpInv(o)' BY <1>6, <1>8, <1>9, OursNow, OpAway
<1>11. UNCHANGED <<scene, members, policy, retain, user, link, cache, vol, owed>>
  BY DEF Send
<1>12. LinkTyped' BY <1>11 DEF SyncInv, Typed, LinkTyped, link
<1>13. /\ ServerTyped /\ CopiesTyped /\ Stock /\ DeadLast /\ GoneDead
       /\ gone \subseteq Users \X Vaults \X Entries /\ purges \subseteq Users \X Vaults
  BY SyncParts DEF Typed, ServerTyped, CopiesTyped, Stock, History
<1>14. purges' = purges \cup {<<u, v>>} BY <1>3, <1>4 DEF Send, Marked
<1>15. purges \subseteq purges' /\ purges' \subseteq Users \X Vaults
  BY <1>13, <1>14
<1>16. UNCHANGED <<user, hub, conn, cache, vol>> BY <1>11 DEF link
<1>17. CASE UNCHANGED <<log, gone>>
  <2>1. ServerTyped' BY <1>11, <1>13, <1>17, ServerKept DEF server
  <2>2. Later /\ DeadLast' /\ GoneDead'
    BY <1>13, <1>17, LogTypes DEF Later, DeadLast, GoneDead, Now
  <2>3. CopiesTyped' /\ Stock'
    BY <1>13, <1>15, <1>16, <1>17, <2>1, <2>2, StockGrown
  <2> QED BY <1>1, <1>7, <1>10, <1>12, <2>1, <2>3, WhenMoved
<1>18. ASSUME NEW e \in Entries, Alive(v, LastChange(v, e, Now(v))), Now(v) < MaxSeq,
              log' = [log EXCEPT ![v] = Append(@, [entry |-> e, dead |-> TRUE])],
              gone' = gone \cup {<<u, v, e>>}
       PROVE  SyncInv'
  <2>1. gone' \subseteq Users \X Vaults \X Entries BY <1>13, <1>18
  <2>2. /\ ServerTyped' /\ Later /\ DeadLast' /\ Now(v) \in Nat /\ Now(v)' = Now(v) + 1
        /\ log'[v][Now(v) + 1].entry = e /\ log'[v][Now(v) + 1].dead = TRUE
    BY <1>11, <1>13, <1>18, <2>1, LogGrown
  <2>3. GoneDead'
    <3> SUFFICES ASSUME NEW d \in gone'
                 PROVE  \E i \in 1..Len(log'[d[2]]) : log'[d[2]][i].entry = d[3] /\ log'[d[2]][i].dead
      BY DEF GoneDead, Now
    <3>1. CASE d \in gone
      <4>1. d[2] \in Vaults BY <1>13, <3>1
      <4>2. PICK i \in 1..Len(log[d[2]]) : log[d[2]][i].entry = d[3] /\ log[d[2]][i].dead
        BY <1>13, <3>1 DEF GoneDead, Now
      <4>3. Len(log[d[2]]) <= Len(log'[d[2]]) /\ log'[d[2]][i] = log[d[2]][i]
        BY <2>2, <4>1 DEF Later
      <4>4. Len(log[d[2]]) \in Nat /\ Len(log'[d[2]]) \in Nat
        BY <1>13, <2>2, <4>1 DEF ServerTyped
      <4>5. i \in 1..Len(log'[d[2]]) BY <4>3, <4>4
      <4> QED BY <4>2, <4>3, <4>5
    <3>2. CASE d = <<u, v, e>> BY <3>2, <2>2 DEF Now
    <3> QED BY <1>18, <3>1, <3>2
  <2>4. gone \subseteq gone' /\ \A d \in gone' \ gone : <<d[1], d[2]>> \in purges'
    BY <1>14, <1>18
  <2>5. CopiesTyped' /\ Stock'
    BY <1>13, <1>15, <1>16, <2>2, <2>3, <2>4, StockGrown
  <2> QED BY <1>1, <1>7, <1>10, <1>12, <2>2, <2>5, WhenMoved
<1> QED BY <1>3, <1>4, <1>17, <1>18 DEF Send

(* At the start nothing is kept and nobody waits.                            *)
LEMMA InitSync ==
    ASSUME Init
    PROVE  SyncInv
<1>1. scene \in Scenes /\ scene.users \subseteq Users /\ scene.policies \subseteq {"offline", "disabled"}
      /\ scene.seq \in Nat
  BY SyncAssumption DEF Init
<1>2. \A v \in Vaults : Now(v) = 0 /\ log[v] = <<>> BY DEF Init, Now
<1>3. ServerTyped BY <1>1, <1>2 DEF Init, MaxSeq, ServerTyped
<1>4. CopiesTyped /\ \A u \in Users, v \in Vaults : cache[u][v].act = None /\ cache[u][v].pend = None
  BY EmptyTyped DEF CopiesTyped, Init, Places
<1>5. CallsTyped /\ LinkTyped
  <2>1. queue \in Seq(Ops) /\ flight = None BY DEF Init
  <2>2. op \in [Ops -> Calls] BY IdleTyped, Zenon DEF Init
  <2>3. LinkTyped BY DEF LinkTyped, Init
  <2> QED BY <2>1, <2>2, <2>3 DEF CallsTyped
<1>6. \A o \in Ops : op[o] = Idle BY DEF Init
<1>7. Serial BY <1>6, IdleTyped DEF Init, Serial, Queued
<1>8. Stock
  BY <1>2, <1>4 DEF History, DeadLast, GoneDead, Init, Owned, Whole, Hidden, Stock
<1>9. \A o \in Ops : OpInv(o)
  BY <1>6, IdleTyped DEF Under, Ours, Told, Placed, Going, Located, Storing, Gathered, Forward,
     OpInv
<1> QED BY <1>3, <1>4, <1>5, <1>7, <1>8, <1>9, SyncParts DEF Typed

-----------------------------------------------------------------------------
(* Every step.                                                               *)

(* Every step of a call keeps the invariant. *)
LEMMA StepKeeps ==
    ASSUME SyncInv, NEW o \in Ops, Step(o)
    PROVE  SyncInv'
<1>1. CASE Fails(o) BY <1>1, AfterFails
<1>2. CASE StartRefresh(o) BY <1>2, AfterStartRefresh
<1>3. CASE List(o) BY <1>3, AfterList
<1>4. CASE Finish(o) BY <1>4, AfterFinish
<1>5. CASE Index(o) BY <1>5, AfterIndex
<1>6. CASE RebuildNext(o) BY <1>6, AfterRebuildNext
<1>7. CASE Synchronize(o) BY <1>7, AfterSynchronize
<1>8. CASE DeltaPage(o) BY <1>8, AfterDeltaPage
<1>9. CASE StartOver(o) BY <1>9, AfterStartOver
<1>10. CASE Snapshot(o) BY <1>10, AfterSnapshot
<1>11. CASE Unconnected(o) BY <1>11, AfterUnconnected
<1>12. CASE Page(o) BY <1>12, AfterPage
<1>13. CASE VolatilePage(o) BY <1>13, AfterVolatilePage
<1>14. CASE Abandon(o) BY <1>14, AfterAbandon
<1>15. CASE Close(o) BY <1>15, AfterClose
<1>16. CASE Complete(o) BY <1>16, AfterComplete
<1>17. CASE VolatileClose(o) BY <1>17, AfterVolatileClose
<1>18. CASE Hint(o) BY <1>18, AfterHint
<1>19. CASE Read(o) BY <1>19, AfterRead
<1>20. CASE Clear(o) BY <1>20, AfterClear
<1>21. CASE StartDelete(o) BY <1>21, AfterStartDelete
<1>22. CASE Send(o) BY <1>22, AfterSent
<1>23. CASE AfterSend(o) BY <1>23, AfterAfterSend
<1>24. ASSUME NEW v \in Vaults, Skip(o, v) \/ Fetch(o, v) \/ Refused(o, v) \/ Rebuild(o, v)
       PROVE  SyncInv'
  BY <1>24, AfterSkip, AfterFetch, AfterRefused, AfterRebuild
<1> QED BY <1>1, <1>2, <1>3, <1>4, <1>5, <1>6, <1>7, <1>8, <1>9, <1>10, <1>11, <1>12,
           <1>13, <1>14, <1>15, <1>16, <1>17, <1>18, <1>19, <1>20, <1>21, <1>22, <1>23,
           <1>24 DEF Step

(* So does everything that happens around the calls. *)
LEMMA EnvironmentKeeps ==
    ASSUME SyncInv, Environment
    PROVE  SyncInv'
BY AfterChange, AfterWithdraw, AfterChangePolicy, AfterCompact, AfterSignIn, AfterSkipClear,
   AfterSignOut, AfterHubUp, AfterHubDown, AfterRestart DEF Environment

LEMMA SyncUnchanged ==
    ASSUME SyncInv, UNCHANGED vars
    PROVE  SyncInv'
BY ServerKept, WhenAsked DEF vars, server, SyncInv, Typed

LEMMA SyncKept ==
    ASSUME SyncInv, [Next]_vars
    PROVE  SyncInv'
BY StepKeeps, AfterCall, AfterRefresh, AfterClearProfile, EnvironmentKeeps, SyncUnchanged DEF Next

(* The invariant that carries everything else. *)
THEOREM SyncHolds == Spec => []SyncInv
<1>1. Init => SyncInv BY InitSync
<1>2. SyncInv /\ [Next]_vars => SyncInv' BY SyncKept
<1> QED BY <1>1, <1>2, PTL DEF Spec

-----------------------------------------------------------------------------
(* What the invariant says of the copies. *)

(* A copy of the proof is a copy of the specification. *)
LEMMA CopyIs ==
    ASSUME ServerTyped, NEW v \in Vaults, NEW a \in SyncCopies, Full(v, a.items, a.seq),
           a.vseq <= Now(v)
    PROVE  a \in Copies /\ Covers(v, a)
BY LogTypes DEF MaxSeq, SyncCopies, Full, Holdings, Of, Items, Covers, Holds, Copies

LEMMA StageIs ==
    ASSUME ServerTyped, NEW v \in Vaults, NEW p \in Stages, p.seq <= Now(v),
           \A e \in Entries : Of(v, e, p.items[e])
    PROVE  p \in [by : Ops, seq : 0..MaxSeq, items : Items]
BY LogTypes DEF MaxSeq, Stages, Holdings, Of, Items

LEMMA CopiesAre ==
    ASSUME SyncInv
    PROVE  /\ \A v \in Vaults : vol[v] # None => vol[v] \in Copies /\ Covers(v, vol[v])
           /\ \A u \in Users, v \in Vaults :
                /\ cache[u][v].act # None =>
                     cache[u][v].act \in Copies /\ Covers(v, cache[u][v].act)
                /\ cache[u][v].pend # None =>
                     cache[u][v].pend \in [by : Ops, seq : 0..MaxSeq, items : Items]
BY CopyTypes, CopyIs, StageIs DEF SyncInv, Typed, Whole

LEMMA SyncTypes ==
    ASSUME SyncInv
    PROVE  TypeOK
BY CopiesAre, QueueTypes DEF SyncInv, Typed, ServerTyped, LinkTyped, CopiesTyped, Serial, Queued,
   Calls, TypeOK

(* A copy from no earlier than a deletion does not show the entry.           *)
LEMMA DeadIsHidden ==
    ASSUME ServerTyped, History, NEW d \in gone, NEW a \in SyncCopies,
           Full(d[2], a.items, a.seq), Knows(d, a.seq)
    PROVE  ~Alive(d[2], a.items[d[3]])
<1>1. PICK v \in Vaults, e \in Entries : v = d[2] /\ e = d[3]
  BY DEF ServerTyped
<1>2. PICK i \in 1..Now(v) : log[v][i].entry = e /\ log[v][i].dead
  BY <1>1 DEF History, GoneDead
<1>3. a.seq \in Nat /\ a.items[e] \in Nat /\ Now(v) \in Nat
  BY <1>1, LogTypes DEF SyncCopies, Holdings
<1>4. i <= a.seq BY <1>1, <1>2 DEF Knows
<1>5. Of(v, e, a.items[e]) /\ Holds(v, e, a.items[e], a.seq) BY <1>1 DEF Full
<1> SUFFICES ASSUME Alive(v, a.items[e])
             PROVE  FALSE
  BY <1>1
<1>6. a.items[e] >= LastChange(v, e, a.seq) BY <1>5 DEF Holds
<1>7. i <= LastChange(v, e, a.seq) /\ LastChange(v, e, a.seq) \in Nat
  BY <1>2, <1>3, <1>4, Last
<1>8. a.items[e] \in 1..Now(v) /\ log[v][a.items[e]].entry = e /\ ~log[v][a.items[e]].dead
  BY <1>5 DEF Of, Alive
<1>9. a.items[e] <= i BY <1>2, <1>8 DEF History, DeadLast
<1>10. a.items[e] = i BY <1>3, <1>6, <1>7, <1>9
<1> QED BY <1>2, <1>8, <1>10

LEMMA SyncIsSound ==
    ASSUME SyncInv
    PROVE  CopiesAreSound
<1>1. ServerTyped /\ CopiesTyped /\ History /\ Owned /\ Whole /\ Hidden
  BY DEF SyncInv, Typed
<1>2. TypeOK /\ CopiesCover BY SyncTypes, CopiesAre DEF CopiesCover
<1>3. CopiesAreOwn /\ DisabledStaysVolatile
  BY <1>1 DEF CopiesAreOwn, DisabledStaysVolatile, Owned
<1>4. DeletedStaysHidden
  <2> SUFFICES ASSUME NEW d \in gone, <<d[1], d[2]>> \notin purges
               PROVE  /\ cache[d[1]][d[2]].act # None =>
                           ~Alive(d[2], cache[d[1]][d[2]].act.items[d[3]])
                      /\ user = d[1] /\ vol[d[2]] # None =>
                           ~Alive(d[2], vol[d[2]].items[d[3]])
    BY DEF DeletedStaysHidden
  <2>1. d[1] \in Users /\ d[2] \in Vaults BY <1>1 DEF ServerTyped
  <2>2. cache[d[1]][d[2]].act # None => ~Alive(d[2], cache[d[1]][d[2]].act.items[d[3]])
    <3>1. CASE cache[d[1]][d[2]].act # None
      <4>1. PICK a \in SyncCopies : a = cache[d[1]][d[2]].act
        BY <1>1, <2>1, <3>1, CopyTypes
      <4>2. Full(d[2], a.items, a.seq) /\ Knows(d, a.seq)
        BY <1>1, <2>1, <3>1, <4>1 DEF Whole, Hidden
      <4> QED BY <1>1, <4>1, <4>2, DeadIsHidden
    <3> QED BY <3>1
  <2>3. user = d[1] /\ vol[d[2]] # None => ~Alive(d[2], vol[d[2]].items[d[3]])
    <3>1. CASE vol[d[2]] # None /\ user = d[1]
      <4>1. PICK a \in SyncCopies : a = vol[d[2]]
        BY <1>1, <2>1, <3>1, CopyTypes
      <4>2. Full(d[2], a.items, a.seq) /\ Knows(d, a.seq)
        BY <1>1, <2>1, <3>1, <4>1 DEF Whole, Hidden
      <4> QED BY <1>1, <4>1, <4>2, DeadIsHidden
    <3> QED BY <3>1
  <2> QED BY <2>2, <2>3
<1> QED BY <1>2, <1>3, <1>4 DEF CopiesAreSound

(* The queue holds every call that needs it, once.                           *)
LEMMA NobodyForgotten ==
    ASSUME SyncInv
    PROVE  NobodyIsForgotten
<1> DEFINE queued == {o \in Ops : op[o].at \notin {"idle", "await"}}
<1>1. CallsTyped /\ Serial BY DEF SyncInv, Typed
<1>2. Len(queue) \in Nat /\ \A i \in 1..Len(queue) : queue[i] \in Ops
  BY <1>1, QueueTypes
<1>3. \A o \in Ops : Queued(o) <=> o \in queued BY DEF Queued
<1>4. {queue[i] : i \in 1..Len(queue)} = queued BY <1>1, <1>2, <1>3 DEF Serial
<1>5. Len(queue) = Cardinality(queued)
  <2> HIDE DEF queued
  <2>1. PICK f : f = [i \in 1..Len(queue) |-> queue[i]] OBVIOUS
  <2>2. f \in [1..Len(queue) -> queued] BY <1>4, <2>1
  <2>3. \A i, j \in 1..Len(queue) : f[i] = f[j] => i = j
    BY <1>1, <2>1 DEF Serial
  <2>4. \A o \in queued : \E i \in 1..Len(queue) : f[i] = o BY <1>4, <2>1
  <2>5. f \in Bijection(1..Len(queue), queued)
    BY <2>2, <2>3, <2>4 DEF Bijection, Injection, Surjection, IsInjective
  <2>6. ExistsBijection(1..Len(queue), queued) BY <2>5 DEF ExistsBijection
  <2> QED BY <1>2, <2>6, FS_CountingElements
<1>6. \A i \in 2..Len(queue) : op[queue[i]].at = "turn" BY <1>1 DEF Serial
<1>7. flight # None => flight.by \in queued
  BY <1>1, <1>3, QueueTypes DEF Serial
<1>8. (\E o \in Ops : op[o].at = "await") => flight # None BY <1>1 DEF Serial
<1> QED BY <1>4, <1>5, <1>6, <1>7, <1>8 DEF NobodyIsForgotten

-----------------------------------------------------------------------------
(* What a step does to the stored copies. *)

(* No stored copy takes the place of another. *)
Steady ==
    \A u \in Users, v \in Vaults : cache'[u][v].act \in {cache[u][v].act, None}

LEMMA SteadyDropped ==
    ASSUME Drops
    PROVE  Steady
BY EmptyTyped DEF Drops, Steady

LEMMA SteadyPurged ==
    ASSUME SyncInv, NEW u \in Users, NEW v \in Vaults, Purged(u, v) \/ PurgeBreaks(u, v)
    PROVE  Steady
BY PurgedDrops, PurgeBrokenDrops, SteadyDropped DEF SyncInv, Typed

LEMMA SteadyPended ==
    ASSUME SyncInv, NEW o \in Ops, op[o].user \in Users, op[o].v \in Vaults, NEW p,
           WithPend(o, p)
    PROVE  Steady
<1>1. PICK u \in Users, v \in Vaults : u = op[o].user /\ v = op[o].v OBVIOUS
<1>2. PICK c : c = [cache[u][v] EXCEPT !.pend = p] OBVIOUS
<1>3. cache' = [cache EXCEPT ![u][v] = c] BY <1>1, <1>2 DEF WithPend
<1>4. cache \in [Users -> [Vaults -> Places]] BY CopyTypes DEF SyncInv, Typed
<1>5. c.act = cache[u][v].act BY <1>4, <1>2 DEF Places
<1>6. \A w \in Users, x \in Vaults :
        cache'[w][x] = IF w = u /\ x = v THEN c ELSE cache[w][x]
  BY <1>3, <1>4
<1> QED BY <1>5, <1>6 DEF Steady

LEMMA SteadyClosed ==
    ASSUME SyncInv, NEW o \in Ops,
           \/ Synchronize(o) \/ StartOver(o) \/ Unconnected(o)
           \/ Abandon(o) \/ AfterSend(o)
    PROVE  Steady
<1>1. cache' = cache => Steady BY DEF Steady
<1>2. op[o].at \notin {"idle", "await", "turn"} => op[o].user \in Users
  BY UnderWhere
<1>3. op[o].at \in Located => op[o].v \in Vaults BY CarriedHolds DEF Going
<1>4. op[o].at = "purge" => op[o].v \in Vaults BY DEF SyncInv, Serial, Placed
<1>6. CASE Synchronize(o)
  BY <1>2, <1>3, <1>6, <1>1, SteadyPurged DEF Synchronize, Located
<1>7. CASE StartOver(o)
  BY <1>2, <1>3, <1>7, SteadyPurged DEF StartOver, Located
<1>8. CASE Unconnected(o)
  BY <1>2, <1>3, <1>8, SteadyPurged DEF Unconnected, Located
<1>9. CASE Abandon(o) BY <1>2, <1>3, <1>9, SteadyPurged DEF Abandon, Located
<1>10. CASE AfterSend(o) BY <1>2, <1>4, <1>10, SteadyPurged DEF AfterSend
<1> QED BY <1>6, <1>7, <1>8, <1>9, <1>10

LEMMA SteadyRefused ==
    ASSUME SyncInv, NEW o \in Ops, NEW v \in Vaults, Refused(o, v)
    PROVE  Steady
BY UnderWhere, SteadyPurged DEF Refused

LEMMA SteadyRebuilt ==
    ASSUME SyncInv, NEW o \in Ops, NEW v \in Vaults, Rebuild(o, v)
    PROVE  Steady
<1>1. op[o].user \in Users /\ user \in Users
  BY UnderWhere DEF Rebuild, Readable, SyncInv, Typed, LinkTyped
<1>2. CASE Purged(user, v) BY <1>1, <1>2, SteadyPurged
<1>3. CASE cache' = [cache EXCEPT ![user][v] = Empty, ![op[o].user] = [w \in Vaults |-> Empty]]
  <2>1. PICK c : c = [cache EXCEPT ![user][v] = Empty] OBVIOUS
  <2>2. cache \in [Users -> [Vaults -> Places]]
    BY CopyTypes DEF SyncInv, Typed
  <2>3. /\ c \in [Users -> [Vaults -> Places]]
        /\ \A w \in Users, x \in Vaults : c[w][x] \in {cache[w][x], Empty}
    BY <1>1, <2>1, <2>2, EmptyTyped
  <2>4. cache' = [c EXCEPT ![op[o].user] = [w \in Vaults |-> Empty]]
    BY <1>3, <2>1
  <2>5. \A w \in Users, x \in Vaults : cache'[w][x] \in {cache[w][x], Empty}
    BY <1>1, <2>3, <2>4
  <2> QED BY <2>5, EmptyTyped DEF Steady
<1> QED BY <1>2, <1>3 DEF Rebuild

(* Removing whole rows. *)
LEMMA SteadyFinished ==
    ASSUME SyncInv, NEW o \in Ops, Finish(o)
    PROVE  Steady
<1>1. op[o].user \in Users BY UnderWhere DEF Finish
<1>2. PICK missing \in SUBSET Vaults :
        cache' = [cache EXCEPT ![op[o].user] =
                    [v \in Vaults |-> IF v \in missing THEN Empty ELSE @[v]]]
  BY DEF Finish
<1>3. cache \in [Users -> [Vaults -> Places]] BY CopyTypes DEF SyncInv, Typed
<1>4. \A w \in Users, x \in Vaults : cache'[w][x] \in {cache[w][x], Empty}
  BY <1>1, <1>2, <1>3
<1> QED BY <1>4, EmptyTyped DEF Steady

LEMMA SteadyCleared ==
    ASSUME SyncInv, NEW o \in Ops, Clear(o)
    PROVE  Steady
<1>1. op[o].user \in Users
  <2>1. Turn(o, {"clear"}) BY DEF Clear
  <2>2. op[o].kind \in {"clear"} /\ About(o) BY <2>1, TurnWhere
  <2> QED BY <2>2 DEF About
<1>2. cache' = [cache EXCEPT ![op[o].user] = [v \in Vaults |-> Empty]]
  BY DEF Clear
<1>3. cache \in [Users -> [Vaults -> Places]] BY CopyTypes DEF SyncInv, Typed
<1>4. \A w \in Users, x \in Vaults : cache'[w][x] \in {cache[w][x], Empty}
  BY <1>1, <1>2, <1>3
<1> QED BY <1>4, EmptyTyped DEF Steady

LEMMA SteadyElse ==
    ASSUME SyncInv, NEW o \in Ops, Snapshot(o) \/ Page(o) \/ Close(o) \/ Hint(o) \/ Read(o)
    PROVE  Steady
<1>1. cache' = cache => Steady BY DEF Steady
<1>2. op[o].at \notin {"idle", "await", "turn"} => op[o].user \in Users
  BY UnderWhere
<1>3. op[o].at \in Located => op[o].v \in Vaults BY CarriedHolds DEF Going
<1>4. CASE Snapshot(o)
  BY <1>2, <1>3, <1>4, SteadyPurged, SteadyPended DEF Snapshot, Located
<1>5. CASE Page(o) BY <1>2, <1>3, <1>5, SteadyPended DEF Page, Located
<1>6. CASE Close(o) BY <1>2, <1>3, <1>6, SteadyPended DEF Close, Located
<1>7. CASE Hint(o)
  BY <1>7, TurnWhere, <1>1, SteadyPurged DEF SyncInv, Typed, LinkTyped, Hint, About
<1>8. CASE Read(o)
  BY <1>8, <1>1, SteadyPurged DEF SyncInv, Typed, LinkTyped, Read, Readable
<1> QED BY <1>4, <1>5, <1>6, <1>7, <1>8

(* Every step but these two leaves a stored copy as it is, or removes it.    *)
LEMMA SteadyStep ==
    ASSUME SyncInv, NEW o \in Ops, Step(o)
    PROVE  Steady \/ DeltaPage(o) \/ Complete(o)
<1>1. cache' = cache => Steady BY DEF Steady
<1>2. CASE \/ Fails(o) \/ StartRefresh(o) \/ List(o) \/ Index(o) \/ RebuildNext(o)
           \/ VolatilePage(o) \/ VolatileClose(o) \/ StartDelete(o) \/ Send(o)
  BY <1>1, <1>2 DEF Fails, StartRefresh, List, Index, RebuildNext, VolatilePage,
                    VolatileClose, StartDelete, Send
<1>3. CASE \/ Synchronize(o) \/ StartOver(o) \/ Unconnected(o) \/ Abandon(o) \/ AfterSend(o)
  BY <1>3, SteadyClosed
<1>4. CASE Snapshot(o) \/ Page(o) \/ Close(o) \/ Hint(o) \/ Read(o)
  BY <1>4, SteadyElse
<1>5. CASE Finish(o) BY <1>5, SteadyFinished
<1>6. CASE Clear(o) BY <1>6, SteadyCleared
<1>7. ASSUME NEW v \in Vaults, Skip(o, v) \/ Fetch(o, v) \/ Refused(o, v) \/ Rebuild(o, v)
      PROVE  Steady
  BY <1>1, <1>7, SteadyRefused, SteadyRebuilt DEF Skip, Fetch
<1> QED BY <1>2, <1>3, <1>4, <1>5, <1>6, <1>7 DEF Step

LEMMA SteadyNext ==
    ASSUME SyncInv, [Next]_vars
    PROVE  Steady \/ \E o \in Ops : DeltaPage(o) \/ Complete(o)
<1>1. cache' = cache => Steady BY DEF Steady
<1>2. ASSUME NEW o \in Ops, Step(o)
      PROVE  Steady \/ DeltaPage(o) \/ Complete(o)
  BY <1>2, SteadyStep
<1>3. ASSUME NEW o \in Ops, Call(o) \/ Refresh(o, "refresh") \/ Refresh(o, "repair")
      PROVE  cache' = cache
  BY <1>3 DEF Call, Enqueue, Refresh
<1>4. ASSUME NEW o \in Ops, NEW u \in Users, ClearProfile(o, u)
      PROVE  cache' = cache
  BY <1>4 DEF ClearProfile, Enqueue
<1>5. ASSUME Environment
      PROVE  cache' = cache
  BY <1>5 DEF Environment, Change, Withdraw, ChangePolicy, Compact, SignIn, SkipClear, SignOut,
              HubUp, HubDown, Restart
<1>6. UNCHANGED vars => cache' = cache BY DEF vars
<1> QED BY <1>1, <1>2, <1>3, <1>4, <1>5, <1>6 DEF Next

(* What takes a page of changes, or completes a snapshot, is newer.          *)
Newer(o) ==
    LET u == op[o].user  v == op[o].v IN
    /\ \A w \in Users, x \in Vaults : w # u \/ x # v =>
         cache'[w][x].act = cache[w][x].act
    /\ cache'[u][v].act # None => cache'[u][v].act.seq >= op[o].was
    /\ cache[u][v].act # None /\ cache'[u][v].act # None =>
         \A e \in Entries : cache'[u][v].act.items[e] >= cache[u][v].act.items[e]

LEMMA NewerByDelta ==
    ASSUME SyncInv, NEW o \in Ops, DeltaPage(o)
    PROVE  Newer(o) /\ Under(o)
<1>1. /\ Under(o) /\ op[o] \in Calls /\ op[o].v \in Vaults /\ op[o].at = "delta"
      /\ op[o].user \in Users
  BY CarriedHolds DEF DeltaPage, Going, Located, Carried
<1>2. PICK u \in Users : u = op[o].user BY <1>1
<1>3. PICK v \in Vaults : v = op[o].v BY <1>1
<1>4. PICK a : a = Active(u, v) OBVIOUS
<1>5. PICK p \in Prefixes(o) : \E q \in {p[1], Now(v)} :
         LET next == Grown(o, a, DeltaItems(v, op[o].exp, p[1], q), p[1]) IN
         IF op[o].pers THEN WithAct(o, next) ELSE UNCHANGED cache
  BY <1>2, <1>3, <1>4 DEF DeltaPage
<1>6. PICK q \in {p[1], Now(v)} :
         LET next == Grown(o, a, DeltaItems(v, op[o].exp, p[1], q), p[1]) IN
         IF op[o].pers THEN WithAct(o, next) ELSE UNCHANGED cache
  BY <1>5
<1>7. PICK n : n = Grown(o, a, DeltaItems(v, op[o].exp, p[1], q), p[1])
  OBVIOUS
<1>8. IF op[o].pers THEN WithAct(o, n) ELSE UNCHANGED cache BY <1>6, <1>7
<1>9. a # None /\ a.seq = op[o].exp /\ user \in Users
  BY <1>1, <1>2, <1>3, <1>4 DEF DeltaPage, Authentic, SameUser
<1>10. a \in SyncCopies /\ Full(v, a.items, a.seq) BY <1>4, <1>9, ActiveTyped
<1>11. PICK to \in Nat : to = p[1] /\ op[o].exp <= to /\ to <= Now(v)
  BY <1>1, <1>3, PrefixesAre DEF SyncInv, Typed
<1>12. n \in SyncCopies /\ n.seq = to /\ \A e \in Entries : a.items[e] <= n.items[e]
  BY <1>1, <1>3, <1>6, <1>7, <1>9, <1>10, <1>11, GrownIs
<1>13. /\ op[o].was \in Nat /\ op[o].exp \in Nat /\ op[o].was <= op[o].exp
       /\ cache[u][v].act # None => op[o].was <= cache[u][v].act.seq
  BY <1>1, <1>2, <1>3 DEF SyncInv, Forward, Calls, Copy
<1>14. cache \in [Users -> [Vaults -> Places]] BY CopyTypes DEF SyncInv, Typed
<1>15. \A e \in Entries : a.items[e] \in Nat /\ n.items[e] \in Nat
  BY <1>10, <1>12 DEF SyncCopies, Holdings
<1>16. CASE op[o].pers
  <2>1. PICK c : c = [cache[u][v] EXCEPT !.act = n] OBVIOUS
  <2>2. c.act = n BY <1>14, <2>1 DEF Places
  <2>3. cache' = [cache EXCEPT ![u][v] = c]
    BY <1>2, <1>3, <1>8, <1>16, <2>1 DEF WithAct
  <2>4. /\ cache'[u][v] = c
        /\ \A w \in Users, x \in Vaults : w # u \/ x # v => cache'[w][x] = cache[w][x]
    BY <1>14, <2>3
  <2>5. cache'[u][v].act.seq >= op[o].was BY <1>11, <1>12, <1>13, <2>2, <2>4
  <2>6. cache[u][v].act # None =>
          \A e \in Entries : cache'[u][v].act.items[e] >= cache[u][v].act.items[e]
    BY <1>4, <1>12, <1>15, <2>2, <2>4 DEF Active
  <2> QED BY <1>1, <1>2, <1>3, <2>4, <2>5, <2>6 DEF Newer
<1>17. CASE ~op[o].pers
  <2>1. cache' = cache BY <1>8, <1>17
  <2>2. cache[u][v].act # None => cache[u][v].act.seq >= op[o].was
    BY CopyTypes, <1>13 DEF SyncInv, Typed, SyncCopies
  <2>3. cache[u][v].act # None =>
          \A e \in Entries : cache[u][v].act.items[e] >= cache[u][v].act.items[e]
    BY <1>4, <1>15 DEF Active
  <2> QED BY <1>1, <1>2, <1>3, <2>1, <2>2, <2>3 DEF Newer
<1> QED BY <1>16, <1>17

LEMMA NewerByCompletion ==
    ASSUME SyncInv, NEW o \in Ops, Complete(o)
    PROVE  Newer(o) /\ Under(o)
<1>1. /\ Under(o) /\ op[o] \in Calls /\ op[o].v \in Vaults /\ op[o].at = "done"
      /\ op[o].user \in Users
  BY CarriedHolds DEF Complete, Going, Located, Carried
<1>2. PICK u \in Users : u = op[o].user BY <1>1
<1>3. PICK v \in Vaults : v = op[o].v BY <1>1
<1>4. /\ op[o].was \in Nat /\ op[o].exp \in Nat /\ op[o].was <= op[o].exp
      /\ cache[u][v].act = None
  BY <1>1, <1>2, <1>3 DEF SyncInv, Forward, Storing, Calls, Copy
<1>5. PICK a : a = [seq |-> op[o].exp, vseq |-> op[o].exp, pol |-> "offline",
                    items |-> cache[u][v].pend.items, by |-> op[o].user]
  OBVIOUS
<1>6. PICK c : c = [act |-> a, pend |-> None] OBVIOUS
<1>7. cache' = [cache EXCEPT ![u][v] = c]
  BY <1>2, <1>3, <1>5, <1>6 DEF Complete
<1>8. cache \in [Users -> [Vaults -> Places]] BY CopyTypes DEF SyncInv, Typed
<1>9. /\ cache'[u][v] = c
      /\ \A w \in Users, x \in Vaults : w # u \/ x # v => cache'[w][x] = cache[w][x]
  BY <1>7, <1>8
<1>10. cache'[u][v].act.seq >= op[o].was BY <1>4, <1>5, <1>6, <1>9
<1> QED BY <1>1, <1>2, <1>3, <1>4, <1>9, <1>10 DEF Newer

LEMMA StepsGoForward ==
    ASSUME SyncInv, [Next]_vars
    PROVE  /\ \A o \in Ops : op[o].at \in {"delta", "done"} =>
                LET u == op[o].user  v == op[o].v IN
                cache'[u][v].act # None => cache'[u][v].act.seq >= op[o].was
           /\ \A u \in Users, v \in Vaults, e \in Entries :
                cache[u][v].act # None /\ cache'[u][v].act # None =>
                  cache'[u][v].act.items[e] >= cache[u][v].act.items[e]
<1>1. Steady \/ \E o \in Ops : DeltaPage(o) \/ Complete(o) BY SteadyNext
<1>2. \A u \in Users, v \in Vaults :
        cache[u][v].act # None =>
          /\ cache[u][v].act.seq \in Nat
          /\ \A e \in Entries : cache[u][v].act.items[e] \in Nat
  BY CopyTypes DEF SyncInv, Typed, SyncCopies, Holdings
<1>3. ASSUME NEW o \in Ops, op[o].at \in {"delta", "done"}
      PROVE  /\ op[o].user \in Users /\ op[o].v \in Vaults /\ op[o].was \in Nat /\ Under(o)
             /\ AtHead(o)
             /\ cache[op[o].user][op[o].v].act # None =>
                  op[o].was <= cache[op[o].user][op[o].v].act.seq
  BY <1>3, CarriedHolds DEF Going, Located, Carried, Calls, SyncInv, Forward, Storing, Copy
<1>4. CASE Steady BY <1>2, <1>3, <1>4 DEF Steady
<1>5. ASSUME NEW p \in Ops, DeltaPage(p) \/ Complete(p)
      PROVE  /\ \A o \in Ops : op[o].at \in {"delta", "done"} =>
                  (cache'[op[o].user][op[o].v].act # None =>
                     cache'[op[o].user][op[o].v].act.seq >= op[o].was)
             /\ \A u \in Users, v \in Vaults, e \in Entries :
                  cache[u][v].act # None /\ cache'[u][v].act # None =>
                    cache'[u][v].act.items[e] >= cache[u][v].act.items[e]
  <2>1. Newer(p) /\ Under(p) BY <1>5, NewerByDelta, NewerByCompletion
  <2>2. ASSUME NEW o \in Ops, op[o].at \in {"delta", "done"}
        PROVE  o = p
    BY <1>3, <2>2, <2>1, OneAtATime DEF SyncInv, Typed
  <2>3. \A o \in Ops : op[o].at \in {"delta", "done"} =>
          (cache'[op[o].user][op[o].v].act # None =>
             cache'[op[o].user][op[o].v].act.seq >= op[o].was)
    BY <2>1, <2>2 DEF Newer
  <2>4. ASSUME NEW u \in Users, NEW v \in Vaults, NEW e \in Entries,
               cache[u][v].act # None, cache'[u][v].act # None
        PROVE  cache'[u][v].act.items[e] >= cache[u][v].act.items[e]
    <3>1. CASE u # op[p].user \/ v # op[p].v
      <4>1. cache'[u][v].act = cache[u][v].act BY <2>1, <3>1 DEF Newer
      <4> QED BY <1>2, <2>4, <4>1
    <3>2. CASE u = op[p].user /\ v = op[p].v BY <2>1, <2>4, <3>2 DEF Newer
    <3> QED BY <3>1, <3>2
  <2> QED BY <2>3, <2>4
<1> QED BY <1>1, <1>4, <1>5

-----------------------------------------------------------------------------
(* The theorems. *)

(* In whatever order accounts, hints, failures and restarts come, a copy     *)
(* holds all that it claims, only what its own user was served, only where   *)
(* the vault's policy allows, and nothing that was deleted (service.ts,      *)
(* synchronization and deletion; cache.ts, what is stored).                  *)
THEOREM CopiesSound == Spec => []CopiesAreSound
<1>1. SyncInv => CopiesAreSound BY SyncIsSound
<1> QED BY <1>1, SyncHolds, PTL

(* Nobody waits for a call that has ended: the queue of the service holds    *)
(* exactly the calls that need it, and who joined a refresh finds one still  *)
(* in flight (service.ts, enqueueSync and refresh).                            *)
THEOREM NobodyForgottenEver == Spec => []NobodyIsForgotten
<1>1. SyncInv => NobodyIsForgotten BY NobodyForgotten
<1> QED BY <1>1, SyncHolds, PTL

(* What a synchronization stores is never older than what it found, and an   *)
(* entry that stays in a copy never loses a change (service.ts, the floor a  *)
(* synchronization keeps).                                                   *)
THEOREM CopiesForward == Spec => CopiesNeverGoBack
<1>1. SyncInv /\ [Next]_vars =>
        [\A o \in Ops : op[o].at \in {"delta", "done"} =>
           LET u == op[o].user  v == op[o].v IN
           cache'[u][v].act # None => cache'[u][v].act.seq >= op[o].was]_vars
  BY StepsGoForward
<1>2. SyncInv /\ [Next]_vars =>
        [\A u \in Users, v \in Vaults, e \in Entries :
           cache[u][v].act # None /\ cache'[u][v].act # None =>
             cache'[u][v].act.items[e] >= cache[u][v].act.items[e]]_vars
  BY StepsGoForward
<1> QED BY <1>1, <1>2, SyncHolds, PTL DEF Spec, CopiesNeverGoBack, NeverBehind, EntriesNeverGoBack

=============================================================================
