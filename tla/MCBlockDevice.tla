--------------------------- MODULE MCBlockDevice -----------------------------
EXTENDS BlockDevice, TLC

CONSTANTS m1, m2, a1

TwoMounters == {m1, m2}
OneMounter == {m1}
OneAttacher == {a1}
MounterSymmetry == Permutations(TwoMounters)
=============================================================================
