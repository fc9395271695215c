---------------------------- MODULE MCStandalone ----------------------------
(***************************************************************************)
(* Parts that stand alone, in one run: the test orchestrator, the enhanced *)
(* detector, the fraud detector's scoring and the producer. Every behaviour *)
(* is one of theirs, and leaves the others' variables as they are.         *)
(***************************************************************************)
EXTENDS Services, EnhancedDetector, Scorer, Producer, TLC

CONSTANTS s1, s2, s3, u1, u2, w1, w2, a1

MCProfiles == (SUBSET Names) \ {{}}

Txn(u) == [user |-> u, kind |-> "transaction", verdicts |-> {"fair", "fraud"}]
MCLog == <<Txn(u1), Txn(u2), [Txn(u1) EXCEPT !.kind = "bad_json"], Txn(u1), Txn(u2)>>

MCSigns == <<{"five_times_average"}, {"rapid"}, {}, {"rapid", "high_amount"}>>

VARIABLE subject

\* The subject's initial states, with one of each other part's.
NoServices == dependencies = [s \in Names |-> {}]
NoDetector == epc = "off"
NoScorer == ~useModel /\ deployed = "nothing" /\ ~experiment /\ ~batching
NoProducer == total = 0 /\ topic /\ slot = 0

MCInit ==
  /\ subject \in {"services", "detector", "scorer", "producer"}
  /\ Init /\ (subject # "services" => NoServices)
  /\ EInit /\ (subject # "detector" => NoDetector)
  /\ SInit /\ (subject # "scorer" => NoScorer)
  /\ PInit /\ (subject # "producer" => NoProducer)

MCNext ==
  \/ subject = "services" /\ Next /\ UNCHANGED <<subject, evars, svars, pvars>>
  \/ subject = "detector" /\ ENext /\ UNCHANGED <<subject, vars, svars, pvars>>
  \/ subject = "scorer" /\ SNext /\ UNCHANGED <<subject, vars, evars, pvars>>
  \/ subject = "producer" /\ PNext /\ UNCHANGED <<subject, vars, evars, svars>>

MCSpec == MCInit /\ [][MCNext]_<<subject, vars, evars, svars, pvars>>

Symmetry == Permutations(Names)
=============================================================================
