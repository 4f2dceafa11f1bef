-------------------------- MODULE MCPoolBalancing ---------------------------
\* Instances of PoolBalancing for TLC.
EXTENDS PoolBalancing

CONSTANTS dev, dev0, p1, p2, backup, m1, m2, m3

FivePools == <<p1, dev0, backup, p2, dev>>
Shares == [p \in {p1, p2, backup, dev0} |->
            CASE p = p1 -> 2 [] p = p2 -> 1 [] p = dev0 -> 25 [] OTHER -> 0]

ThreeMiners == <<m1, m2, m3>>
=============================================================================
