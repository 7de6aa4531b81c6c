---------------------------- MODULE MCRotation ------------------------------
EXTENDS Rotation

CONSTANT c1

OneCaller == {c1}
=============================================================================
