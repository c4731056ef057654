-------------------------------- MODULE Peer --------------------------------
(***************************************************************************)
(* What hub and browser promise each other while they negotiate.  The hub  *)
(* asks for a device, and sends offers only after the browser has selected *)
(* one; the browser answers each question and each offer once, and sends   *)
(* candidates only after its first answer.  BrowserSession implements it   *)
(* with the hub as its environment, HubSession with the browser as its:    *)
(* what one assumes of the other is what the other does.                   *)
(***************************************************************************)
EXTENDS Naturals

VARIABLES
    asked,      \* questions the browser has not answered
    chosen,     \* it has answered one
    due,        \* offers the browser has not answered
    answered,   \* it has answered an offer
    trickled    \* candidates it sent

vars == <<asked, chosen, due, answered, trickled>>

Init == asked = 0 /\ chosen = FALSE /\ due = 0 /\ answered = FALSE /\ trickled = 0

Ask == asked' = asked + 1 /\ UNCHANGED <<chosen, due, answered, trickled>>

Offer ==
    /\ chosen /\ due' = due + 1
    /\ UNCHANGED <<asked, chosen, answered, trickled>>

Select ==
    /\ asked > 0 /\ asked' = asked - 1
    /\ chosen' = TRUE
    /\ UNCHANGED <<due, answered, trickled>>

Answer ==
    /\ due > 0 /\ due' = due - 1
    /\ answered' = TRUE
    /\ UNCHANGED <<asked, chosen, trickled>>

Trickle ==
    /\ answered /\ trickled' = trickled + 1
    /\ UNCHANGED <<asked, chosen, due, answered>>

Next == Ask \/ Offer \/ Select \/ Answer \/ Trickle

Spec == Init /\ [][Next]_vars
=============================================================================
