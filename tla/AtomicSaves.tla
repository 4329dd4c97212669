---------------------------- MODULE AtomicSaves ----------------------------
(* What saving to a vault promises its caller: a save either takes effect    *)
(* once, on top of everything saved before it, or not at all, and what the   *)
(* caller is told agrees with which of the two it was.                       *)
CONSTANT Saves     \* the saves this worker is asked for
CONSTANT Elsewhere \* edits made by other members and devices

VARIABLES
    content, \* the edits that are in the vault
    result   \* what the caller of each save has been told

Init ==
    /\ content = {}
    /\ result = [s \in Saves |-> "none"]

Commit(s) ==
    /\ result[s] = "none" /\ s \notin content
    /\ content' = content \cup {s}
    /\ UNCHANGED result

(* "unknown": the answer was lost, or came too late to be given; "present":  *)
(* there was nothing to save.                                                *)
Report(s, r) ==
    /\ result[s] = "none"
    /\ r = "saved" => s \in content
    /\ r = "refused" => s \notin content
    /\ result' = [result EXCEPT ![s] = r]
    /\ UNCHANGED content

EditElsewhere(e) ==
    /\ content' = content \cup {e}
    /\ UNCHANGED result

Next ==
    \/ \E s \in Saves : Commit(s) \/ \E r \in {"saved", "refused", "unknown",
                                                      "present"} :
                                        Report(s, r)
    \/ \E e \in Elsewhere : EditElsewhere(e)

Spec == Init /\ [][Next]_<<content, result>>
=============================================================================
