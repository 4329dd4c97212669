---------------------------- MODULE MCVaultSync ----------------------------
(* Instances of VaultSync for TLC: what pages, deltas and compaction do to a *)
(* vault's content; accounts that come and go; copies that may not be        *)
(* stored; deletions and what fails.                                         *)
EXTENDS VaultSync, TLC

Content(u) ==
    [kinds |-> {"refresh", "hint", "compact", "lag", "policy", "restart"},
     users |-> {u}, entries |-> Entries, seq |-> 3, links |-> 3,
     policies |-> {"offline", "disabled"}]

Coming(beside, policies) ==
    [kinds |-> {"refresh", "clear", "signout", beside},
     users |-> Users, entries |-> Entries, seq |-> 1, links |-> 1,
     policies |-> policies]

Deletion(u, e) ==
    [kinds |-> {"refresh", "repair", "hint", "removed", "withdraw", "delete",
                "read", "storage", "corrupt", "lag", "lease"},
     users |-> {u}, entries |-> {e}, seq |-> 2, links |-> 3,
     policies |-> {"offline"}]

Unstored(u) ==
    [kinds |-> {"refresh", "hint", "policy", "hub"},
     users |-> {u}, entries |-> Entries, seq |-> 2, links |-> 2,
     policies |-> {"offline", "disabled"}]

AllScenes ==
    {Coming("policy", {"offline", "disabled"}), Coming("hub", {"disabled"})}
      \cup {Content(u) : u \in Users} \cup {Unstored(u) : u \in Users}
      \cup {Deletion(u, e) : u \in Users, e \in Entries}

\* Calls, users and entries are interchangeable, and so are the scenes.
Symmetry == Permutations(Ops) \cup Permutations(Entries) \cup Permutations(Users)
=============================================================================
