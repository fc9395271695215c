--------------------------- MODULE MCBatchDetector ---------------------------
(***************************************************************************)
(* BatchDetector on small instances.                                       *)
(***************************************************************************)
EXTENDS BatchDetector, TLC

CONSTANTS c1, c2, p1, p2, u1

Txn(k, v) == [user |-> u1, kind |-> k, verdicts |-> v]

\* Two transactions of one user, which one batch or two may hold, and messages
\* that end the process.
MCLog == (p1 :> <<Txn("transaction", {"fair"}), Txn("no_object", {"fair"})>>)
           @@ (p2 :> <<Txn("unreadable", {"fair"}), Txn("transaction", {"fair", "raises"})>>)

\* A message that is not JSON, in front of a transaction.
MCUnreadableLog ==
    p1 :> <<Txn("transaction", {"fair"}), Txn("unreadable", {"fair"}), Txn("transaction", {"fair"})>>

Lengths(log) == [p \in DOMAIN log |-> Len(log[p])]
MCLogSize == Lengths(MCLog)
MCUnreadableLogSize == Lengths(MCUnreadableLog)
=============================================================================
