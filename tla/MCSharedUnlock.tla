--------------------------- MODULE MCSharedUnlock ---------------------------
(* TLC instance of shared unlock: the link of one pairing, and a transfer    *)
(* between its two clients.  A behaviour is one of one component, `part`,    *)
(* and leaves the other as it began.                                         *)
EXTENDS SharedLink, UnlockTransfer, TLC

VARIABLE part

SharedInit ==
    /\ part \in {"link", "transfer"}
    /\ LinkInit /\ TransferInit
    /\ part = "link" =>
         home["web"].status = "unlocked" /\ home["ext"].acct = Nobody
    /\ part = "transfer" => disk = None

LinkPart == part = "link" /\ LinkNext /\ UNCHANGED <<part, transferVars>>
TransferPart == part = "transfer" /\ TransferNext /\ UNCHANGED <<part, linkVars>>

SharedSpec ==
    SharedInit /\ [][LinkPart \/ TransferPart]_<<part, linkVars, transferVars>>

AnyPerson == Permutations(People)
=============================================================================
