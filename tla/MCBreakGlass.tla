---------------------------- MODULE MCBreakGlass ----------------------------
(* An instance of the break glass manager for TLC. *)
EXTENDS BreakGlass

CONSTANTS s1, s2, c1, c2

TwoSessions == {s1, s2}
TwoChallenges == {c1, c2}

=============================================================================
