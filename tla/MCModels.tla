------------------------------ MODULE MCModels ------------------------------
(***************************************************************************)
(* Training and Experiments on small instances, in one run: the processes  *)
(* that train models and those that try models out share nothing, so each  *)
(* behaviour is one of the ones or of the others.                          *)
(***************************************************************************)
EXTENDS Training, Experiments, TLC

CONSTANTS p1, p2, m1, m2, t1, t2, u1, u2

\* u1 falls under control and u2 under treatment, whatever the experiment.
MCBucket == [ue \in {u1, u2} \X Ids |-> IF ue[1] = u1 THEN 0 ELSE 90]

VARIABLE subject

MCInit == subject \in {"training", "experiments"} /\ Init /\ XInit

MCNext ==
  \/ subject = "training" /\ Next /\ UNCHANGED <<subject, xvars>>
  \/ subject = "experiments" /\ XNext /\ UNCHANGED <<subject, vars>>

MCSpec == MCInit /\ [][MCNext]_<<subject, vars, xvars>>

Symmetry == Permutations({p1, p2}) \cup Permutations({m1, m2})
=============================================================================
