----------------------------- MODULE MCUpgrade -----------------------------
\* Upgrades one after the other (u1 from 1 to 2, then u2 from 2 to 3) and in
\* competition (u3 from 1 to 3).
EXTENDS Upgrade, TLC

CONSTANTS i1, i2, u1, u2, u3

MCFrom == [u \in Upgrades |-> IF u = u2 THEN 2 ELSE 1]
MCTo   == [u \in Upgrades |-> IF u = u1 THEN 2 ELSE 3]
=============================================================================
