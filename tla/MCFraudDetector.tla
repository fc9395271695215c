-------------------------- MODULE MCFraudDetector --------------------------
(***************************************************************************)
(* FraudDetector on small instances.                                       *)
(***************************************************************************)
EXTENDS FraudDetector, TLC

CONSTANTS c1, c2, p1, p2, u1

Txn(k, v) == [user |-> u1, kind |-> k, verdicts |-> v]

\* One user, whose transactions are spread over both partitions: the producer
\* keys a message by its transaction, not by its user.
MCLog == (p1 :> <<Txn("bad_bytes", {"fair"}), Txn("transaction", {"fraud"})>>)
           @@ (p2 :> <<Txn("transaction", {"fair", "raises"})>>)

\* The messages that are no transactions: one that is not JSON, and is committed,
\* with a transaction behind it, and one that cannot be decoded, and is not.
MCLiveLog == (p1 :> <<Txn("bad_json", {"fair"}), Txn("transaction", {"fraud", "fair"})>>)
               @@ (p2 :> <<Txn("bad_bytes", {"fair"})>>)

Lengths(log) == [p \in DOMAIN log |-> Len(log[p])]
MCLogSize == Lengths(MCLog)
MCLiveLogSize == Lengths(MCLiveLog)

Symmetry == Permutations(Consumers)
=============================================================================
