--------------------------- MODULE MCPersistence ---------------------------
EXTENDS Persistence

CONSTANTS c1, c2, p1, p2, u1

item(topic, kind, severity) ==
    [topic |-> topic, kind |-> kind, user |-> u1, severity |-> severity]

\* One partition holds what poll() returns of the four topics.
MCLog == (p1 :> <<item("results", "complete", "high"),
                  item("results", "malformed", "medium"),
                  item("records", "complete", "low"),
                  item("results", "unreadable", "medium"),
                  item("results", "complete", "medium")>>)
MCLogSize == [p \in Partitions |-> Len(MCLog[p])]
=============================================================================
