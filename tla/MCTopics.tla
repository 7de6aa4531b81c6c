------------------------------ MODULE MCTopics ------------------------------
EXTENDS Topics, TLC

CONSTANTS u1, u2, u3, i1, t1, t2, t3

ThreeUsers == {u1, u2, u3}
OneInvite == {i1}
ThreeCalls == {t1, t2, t3}

\* At the start somebody is not a member: else there is nobody to invite.
MCInit == Init /\ \E u \in Users : role[u] = "none"

MCSpec == MCInit /\ [][Next]_vars

Symmetry == Permutations(Users) \cup Permutations(Calls)
=============================================================================
