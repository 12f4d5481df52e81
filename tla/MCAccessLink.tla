---------------------------- MODULE MCAccessLink ----------------------------
(* Instances of AccessLink for TLC.                                         *)
EXTENDS AccessLink, TLC

CONSTANTS r1, r2, v1, k1, k2, email, sms

TwoRequests == {r1, r2}
OneRequest == {r1}
OneVisit == {v1}
NoVisit == {}
OneKey == {k1}
TwoKeys == {k1, k2}
TwoChannels == {email, sms}
OneChannel == {email}

\* Executions of a route, and channels, are told apart by nothing.
Alike == Permutations(Request) \cup Permutations(Channel) \cup Permutations(Key)
=============================================================================
