-------------------------------- MODULE MCQuotas --------------------------------
EXTENDS Quotas

CONSTANTS a, c, alice, bob

\* Two users of one project, with an instance each.
MCOwner == [i \in Instances |-> IF i = a THEN alice ELSE bob]

\* Bounds of the exploration: a pass of the expiry finds one reservation, and
\* nothing is reclaimed any more once usage is known to be lost, when only the
\* reservations matter, which a reclaim does not touch.
MCBounds == Cardinality(due) <= 1 /\ (slips # {} => reclaiming = {})

=================================================================================
