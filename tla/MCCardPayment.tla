---------------------------- MODULE MCCardPayment ----------------------------
(* Instances of CardPayment for TLC.                                        *)
EXTENDS CardPayment, TLC

CONSTANTS p1, a1, a2, o1, o2, w1

OneAppt == {p1}
OneAttempt == {a1}
TwoAttempts == {a1, a2}
OneOrder == {o1}
TwoOrders == {o1, o2}
OneRequest == {w1}

Shared == [a \in Attempt |-> p1]

\* The first order matches what the attempt asked for, the second does not.
InitOneMatches == Init /\ exact = {o1}
OneMatches == InitOneMatches /\ [][Next]_vars /\ Loops

\* Requests, orders and the attempts of one appointment are alike.
Alike == Permutations(Request) \cup Permutations(Order) \cup Permutations(Attempt)
=============================================================================
