----------------------------- MODULE MCAccounts -----------------------------
EXTENDS Accounts, TLC

CONSTANTS u1, u2, c1, t1, t2, t3

TwoUsers == {u1, u2}
Rows3 == {[status |-> "none", role |-> "user"], [status |-> "active", role |-> "admin"],
          [status |-> "deleted", role |-> "user"]}
OneChallenge == {c1}
ThreeCalls == {t1, t2, t3}

Symmetry == Permutations(Users) \cup Permutations(Calls)
=============================================================================
