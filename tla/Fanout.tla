------------------------------- MODULE Fanout -------------------------------
(***************************************************************************)
(* What publishing promises, however the copies travel: who gets a notice  *)
(* is decided once, when it is published, and each of those gets it once   *)
(* or not at all.  Nobody else ever does, and a copy that has arrived, or  *)
(* has been given up, stays so.                                            *)
(***************************************************************************)
CONSTANTS Receivers, Notices

VARIABLE fate   \* of each copy: <<receiver, notice>> -> what became of it

Copies == Receivers \X Notices

Fates == {"unpublished", "underway", "arrived", "missed"}

Init == fate = [copy \in Copies |-> "unpublished"]

Publish(notice) ==
    /\ \A receiver \in Receivers :
          /\ fate[<<receiver, notice>>] = "unpublished"
          /\ fate'[<<receiver, notice>>] \in {"underway", "missed"}
    /\ \A copy \in Copies : copy[2] # notice => fate'[copy] = fate[copy]
    /\ fate' \in [Copies -> Fates]

Leave(copy) ==
    /\ fate[copy] = "underway"
    /\ \E end \in {"arrived", "missed"} : fate' = [fate EXCEPT ![copy] = end]

Next == (\E notice \in Notices : Publish(notice)) \/ (\E copy \in Copies : Leave(copy))

Spec == Init /\ [][Next]_fate
=============================================================================
