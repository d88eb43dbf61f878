------------------------------ MODULE ByteStream ------------------------------
(***************************************************************************)
(* What one direction of a proxy promises to those at its ends, however    *)
(* the items are held and cut on their way: what is received is what was   *)
(* sent, in order, each item once.  It may end early; nothing received is  *)
(* taken back.                                                             *)
(***************************************************************************)
EXTENDS Integers, Sequences

VARIABLES
    sent,   \* how many items were sent: they are their own numbers
    got     \* the items received

streamVars == <<sent, got>>

\* The n items that follow the ones received.
Following(n) == [i \in 1..n |-> Len(got) + i]

Init == sent = 0 /\ got = <<>>

Send ==
    /\ sent' = sent + 1
    /\ UNCHANGED got

Receive ==
    /\ \E n \in 1..(sent - Len(got)) : got' = got \o Following(n)
    /\ UNCHANGED sent

Spec == Init /\ [][Send \/ Receive]_streamVars
=============================================================================
