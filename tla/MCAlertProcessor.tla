-------------------------- MODULE MCAlertProcessor --------------------------
(***************************************************************************)
(* AlertProcessor on small instances.                                      *)
(***************************************************************************)
EXTENDS AlertProcessor, TLC

CONSTANTS c1, c2, p1, u1

AlertOf(k, s) == [user |-> u1, kind |-> k, score |-> s, surge |-> FALSE, large |-> FALSE]

\* A critical alert, which blocks its user, then one for a manual review.
MCLog == p1 :> <<AlertOf("alert", 9), AlertOf("alert", 8)>>

\* Messages that are no alerts, around a critical one.  The first is committed,
\* so that a process which dies on the second leaves an offset to start from.
MCBadLog == p1 :> <<AlertOf("bad_json", 0), AlertOf("alert", 9), AlertOf("bad_bytes", 0)>>

Lengths(log) == [p \in DOMAIN log |-> Len(log[p])]
MCLogSize == Lengths(MCLog)
MCBadLogSize == Lengths(MCBadLog)

Symmetry == Permutations(Consumers)
=============================================================================
