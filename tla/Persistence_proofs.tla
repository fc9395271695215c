------------------------- MODULE Persistence_proofs -------------------------
(***************************************************************************)
(* The persistence consumer, for every number of consumers, partitions and *)
(* users, every log, batch size, number of rebalances and troubles: what   *)
(* is committed is kept, and accounts count the alert rows.                *)
(***************************************************************************)
EXTENDS Persistence, FiniteSetTheorems, TLAPS

(* Every set of numbers that is not empty has a least one.                 *)
Below == {p \in Nat \X Nat : p[1] < p[2]}

LEMMA MinNat ==
  ASSUME NEW T \in SUBSET Nat, T # {}
  PROVE  \E x \in T : \A y \in T : x <= y
<1>1. IsWellFoundedOn(Below, Nat)
  BY NatLessThanWellFounded DEF OpToRel, Below
<1>2. PICK x \in T : \A y \in T : ~ (<<y, x>> \in Below)
  BY <1>1, WFMin
<1>3. ASSUME NEW y \in T PROVE x <= y
  <2>1. x \in Nat /\ y \in Nat /\ ~ (<<y, x>> \in Below)
    BY <1>2
  <2> QED
    BY <2>1 DEF Below
<1> QED
  BY <1>3

LEMMA MinIsLeast ==
  ASSUME NEW T \in SUBSET Nat, T # {}
  PROVE  Min(T) \in T /\ \A y \in T : Min(T) <= y
<1>1. PICK x \in T : \A y \in T : x <= y
  BY MinNat
<1> QED
  BY <1>1 DEF Min

(* Induction over the numbers, for the set of those of which something     *)
(* holds.                                                                  *)
LEMMA Induct ==
  ASSUME NEW S \in SUBSET Nat, 0 \in S, \A n \in S : n + 1 \in S
  PROVE  S = Nat
<1> SUFFICES ASSUME Nat \ S # {} PROVE FALSE
  OBVIOUS
<1>1. PICK n \in Nat \ S : \A m \in Nat \ S : n <= m
  <2>1. Nat \ S \in SUBSET Nat
    OBVIOUS
  <2> QED
    BY <2>1, MinNat
<1>2. n # 0 /\ n - 1 \in Nat /\ n - 1 < n
  BY <1>1
<1>3. n - 1 \in S
  BY <1>1, <1>2
<1> QED
  BY <1>1, <1>2, <1>3

-----------------------------------------------------------------------------
(* The grouping of a batch.                                                *)

LEMMA FirstOfTopicType ==
  ASSUME NEW b \in Seq(LogItems), NEW i \in DOMAIN b
  PROVE  FirstOfTopic(b, i) \in DOMAIN b
<1> DEFINE T == {j \in DOMAIN b : At(b[j]).topic = At(b[i]).topic}
<1>1. T \in SUBSET Nat /\ T # {} /\ T \subseteq DOMAIN b
  OBVIOUS
<1>2. FirstOfTopic(b, i) = Min(T)
  BY DEF FirstOfTopic
<1> HIDE DEF T
<1> QED
  BY <1>1, <1>2, MinIsLeast

(* Of two messages one comes before the other, and more come before that.  *)
LEMMA MoreComeBefore ==
  ASSUME NEW b \in Seq(LogItems), NEW i \in DOMAIN b, NEW j \in DOMAIN b, ComesBefore(b, i, j)
  PROVE  LET before(k) == Cardinality({l \in DOMAIN b : ComesBefore(b, l, k)})
         IN  before(i) \in 0 .. Len(b) - 1 /\ before(j) \in 0 .. Len(b) - 1 /\ before(i) < before(j)
<1> DEFINE S(k) == {l \in DOMAIN b : ComesBefore(b, l, k)}
<1>1. IsFiniteSet(DOMAIN b) /\ Cardinality(DOMAIN b) = Len(b) /\ Len(b) \in Nat
  <2> DEFINE n == Len(b)
  <2>1. DOMAIN b = 1 .. n /\ n \in Nat
    OBVIOUS
  <2> HIDE DEF n
  <2>2. IsFiniteSet(1 .. n) /\ Cardinality(1 .. n) = IF 1 > n THEN 0 ELSE n - 1 + 1
    BY <2>1, FS_Interval
  <2> QED
    BY <2>1, <2>2 DEF n
<1>2. \A k \in DOMAIN b : k \in Int /\ FirstOfTopic(b, k) \in Int
  BY FirstOfTopicType
<1>3. S(i) \subseteq S(j) /\ i \in S(j) /\ i \notin S(i) /\ j \notin S(j)
  BY <1>2 DEF ComesBefore
<1>4. S(i) \in SUBSET (DOMAIN b) /\ S(j) \in SUBSET (DOMAIN b)
  OBVIOUS
<1>5. S(i) # S(j) /\ S(i) # DOMAIN b /\ S(j) # DOMAIN b
  BY <1>3
<1> HIDE DEF S
<1>6. /\ IsFiniteSet(S(i)) /\ IsFiniteSet(S(j))
      /\ Cardinality(S(i)) <= Len(b) /\ Cardinality(S(i)) # Len(b)
      /\ Cardinality(S(j)) <= Len(b) /\ Cardinality(S(j)) # Len(b)
  BY <1>1, <1>4, <1>5, FS_Subset
<1>7. Cardinality(S(i)) \in Nat /\ Cardinality(S(j)) \in Nat
  BY <1>6, FS_CardinalityType
<1>8. Cardinality(S(i)) <= Cardinality(S(j)) /\ Cardinality(S(i)) # Cardinality(S(j))
  BY <1>3, <1>5, <1>6, FS_Subset
<1>9. /\ Cardinality(S(i)) \in 0 .. Len(b) - 1 /\ Cardinality(S(j)) \in 0 .. Len(b) - 1
      /\ Cardinality(S(i)) < Cardinality(S(j))
  BY <1>1, <1>6, <1>7, <1>8
<1> QED
  BY <1>9 DEF S

(* The grouping has the messages of the batch, each once.                  *)
LEMMA GroupedKeeps ==
  ASSUME NEW b \in Seq(LogItems)
  PROVE  /\ Grouped(b) \in Seq(LogItems) /\ Len(Grouped(b)) = Len(b)
         /\ ToSet(Grouped(b)) = ToSet(b)
<1> DEFINE before(i) == Cardinality({j \in DOMAIN b : ComesBefore(b, j, i)})
           f == [i \in DOMAIN b |-> before(i)]
           n == Len(b)
<1>1. DOMAIN b = 1 .. n /\ n \in Nat
  OBVIOUS
<1>2. ASSUME NEW i \in DOMAIN b, NEW j \in DOMAIN b, i # j PROVE ComesBefore(b, i, j) \/ ComesBefore(b, j, i)
  <2>1. FirstOfTopic(b, i) \in Int /\ FirstOfTopic(b, j) \in Int /\ i \in Int /\ j \in Int
    BY FirstOfTopicType
  <2> QED
    BY <1>2, <2>1 DEF ComesBefore
<1>3. ASSUME NEW i \in DOMAIN b PROVE before(i) \in 0 .. n - 1
  <2>1. CASE \E j \in DOMAIN b : i # j
    <3>1. PICK j \in DOMAIN b : i # j
      BY <2>1
    <3> QED
      BY <1>2, <3>1, MoreComeBefore
  <2>2. CASE \A j \in DOMAIN b : j = i
    <3>1. i \in Int /\ n \in Nat /\ n > 0 /\ FirstOfTopic(b, i) \in Int
      BY FirstOfTopicType
    <3>2. {j \in DOMAIN b : ComesBefore(b, j, i)} = {}
      BY <2>2, <3>1 DEF ComesBefore
    <3>3. before(i) = 0
      BY <3>2, FS_EmptySet
    <3> HIDE DEF before
    <3> QED
      BY <3>1, <3>3
  <2> QED
    BY <2>1, <2>2
<1>4. ASSUME NEW i \in DOMAIN b, NEW j \in DOMAIN b, i # j PROVE before(i) # before(j)
  <2>1. before(i) < before(j) \/ before(j) < before(i)
    BY <1>2, <1>4, MoreComeBefore
  <2>2. before(i) \in Int /\ before(j) \in Int
    BY <1>3
  <2> HIDE DEF before
  <2> QED
    BY <2>1, <2>2
<1> HIDE DEF before
<1>5. f \in Injection(DOMAIN b, 0 .. n - 1)
  BY <1>3, <1>4 DEF Injection, IsInjective
<1>6. IsFiniteSet(DOMAIN b) /\ IsFiniteSet(0 .. n - 1) /\ Cardinality(DOMAIN b) = Cardinality(0 .. n - 1)
  BY <1>1, FS_Interval
<1>7. f \in Surjection(DOMAIN b, 0 .. n - 1)
  BY <1>5, <1>6, FS_Injection
<1>8. \A m \in DOMAIN b : \E i \in DOMAIN b : before(i) = m - 1
  <2>1. ASSUME NEW m \in DOMAIN b PROVE \E i \in DOMAIN b : before(i) = m - 1
    <3>1. m - 1 \in 0 .. n - 1
      BY <1>1
    <3>2. PICK i \in DOMAIN b : f[i] = m - 1
      BY <1>7, <3>1 DEF Surjection
    <3> QED
      BY <3>2
  <2> QED
    BY <2>1
<1> DEFINE pick == [m \in DOMAIN b |-> CHOOSE i \in DOMAIN b : before(i) = m - 1]
<1>9. \A m \in DOMAIN b : pick[m] \in DOMAIN b /\ before(pick[m]) = m - 1
  BY <1>8
<1>10. \A i \in DOMAIN b : before(i) + 1 \in DOMAIN b /\ pick[before(i) + 1] = i
  <2>1. ASSUME NEW i \in DOMAIN b PROVE before(i) + 1 \in DOMAIN b /\ pick[before(i) + 1] = i
    <3> DEFINE m == before(i) + 1
    <3>1. m \in DOMAIN b /\ m - 1 = before(i)
      BY <1>1, <1>3
    <3> HIDE DEF m, pick
    <3>2. pick[m] \in DOMAIN b /\ before(pick[m]) = before(i)
      BY <1>9, <3>1
    <3>3. pick[m] = i
      BY <1>4, <3>2
    <3> QED
      BY <3>1, <3>3 DEF m
  <2> QED
    BY <2>1
<1> DEFINE g == [m \in 1 .. n |-> b[pick[m]]]
<1>11. Grouped(b) = g
  BY <1>1 DEF Grouped, before
<1> HIDE DEF pick
<1>12. g \in Seq(LogItems) /\ Len(g) = n /\ DOMAIN g = 1 .. n
  <2>1. \A m \in 1 .. n : b[pick[m]] \in LogItems
    BY <1>1, <1>9
  <2> QED
    BY <1>1, <2>1
<1>13. ToSet(g) = ToSet(b)
  BY <1>1, <1>9, <1>10, <1>12 DEF ToSet
<1> QED
  BY <1>11, <1>12, <1>13

(* What is written together is at the front, and of one topic.             *)
LEMMA RunIsOfOneTopic ==
  ASSUME NEW s \in Seq(LogItems), s # <<>>
  PROVE  /\ RunLength(s) \in DOMAIN s
         /\ \A i \in 1 .. RunLength(s) : At(s[i]).topic = At(s[1]).topic
<1> DEFINE T == {n \in DOMAIN s : n = Len(s) \/ At(s[n + 1]).topic # At(s[1]).topic}
           r == RunLength(s)
<1>1. T \in SUBSET Nat /\ Len(s) \in T /\ DOMAIN s = 1 .. Len(s) /\ Len(s) \in Nat
  OBVIOUS
<1>2. r = Min(T)
  BY DEF RunLength
<1>3. r \in T /\ \A n \in T : r <= n
  <2> HIDE DEF T, r
  <2> QED
    BY <1>1, <1>2, MinIsLeast
<1>4. r \in DOMAIN s
  BY <1>3
<1>5. ASSUME NEW i \in 1 .. r PROVE At(s[i]).topic = At(s[1]).topic
  <2>1. CASE i = 1
    BY <2>1
  <2>2. CASE i # 1
    <3> DEFINE k == i - 1
    <3>1. k \in DOMAIN s /\ k < r /\ k # Len(s) /\ k + 1 = i
      BY <1>1, <1>4, <2>2
    <3> HIDE DEF r
    <3>2. k \notin T
      BY <1>1, <1>3, <1>4, <3>1
    <3> HIDE DEF k
    <3> QED
      BY <3>1, <3>2
  <2> QED
    BY <2>1, <2>2
<1> QED
  BY <1>4, <1>5

-----------------------------------------------------------------------------
(* The types.                                                              *)

(* An offset that is committed has been read, and one that is read is of   *)
(* the log.                                                                *)
GroupInv ==
  /\ GroupTypeOK
  /\ \A p \in Partitions :
        committed[p] <= position[p] /\ position[p] <= logEnd[p] /\ logEnd[p] <= LogSize[p]

Steps == {"down", "poll", "work", "alert", "account", "audit", "close"}

(* A process that polls has room in its batch, one that ends has nothing   *)
(* in it, and one that is about to ask PostgreSQL does so for an alert.    *)
ProcessInv ==
  /\ pc \in [Consumers -> Steps]
  /\ batch \in [Consumers -> Seq(LogItems)]
  /\ todo \in [Consumers -> Seq(LogItems)]
  /\ ending \in [Consumers -> BOOLEAN]
  /\ \A c \in Consumers :
        /\ Len(batch[c]) <= BatchSize
        /\ pc[c] \in {"alert", "account", "audit"} => todo[c] # <<>> /\ IsAlert(Current(c))
        /\ pc[c] \in {"down", "close"} => batch[c] = <<>>
        /\ pc[c] = "poll" => Len(batch[c]) < BatchSize

TableInv ==
  /\ stored \in SUBSET LogItems
  /\ alertRows \in [LogItems -> Nat]
  /\ account \in [Users -> Account]
  /\ audited \in SUBSET LogItems
  /\ troubles \in 0 .. MaxTroubles
  /\ excused \in SUBSET LogItems
  /\ torn \in [Users -> Nat]

LetterInv == Dead!LettersTypeOK /\ letterCommitted <= readerNext

TypeInv == GroupInv /\ ProcessInv /\ TableInv /\ LetterInv

LEMMA TypeInvImpliesTypeOK == TypeInv => TypeOK
BY DEF TypeInv, GroupInv, ProcessInv, TableInv, LetterInv, TypeOK, Steps

LEMMA LogItemIs ==
  ASSUME NEW x \in LogItems
  PROVE  /\ x.part \in Partitions /\ x.off \in 0 .. LogSize[x.part] - 1
         /\ x = [part |-> x.part, off |-> x.off] /\ At(x) \in Item
<1>1. PICK p \in Partitions : \E o \in 0 .. LogSize[p] - 1 : x = [part |-> p, off |-> o]
  BY DEF LogItems
<1> PICK o \in 0 .. LogSize[p] - 1 : x = [part |-> p, off |-> o]
  BY <1>1
<1>2. x.part = p /\ x.off = o
  OBVIOUS
<1>3. LogSize[p] \in Nat /\ LogSize[p] = Len(Log[p]) /\ Log[p] \in Seq(Item)
  BY GroupAssumption, PersistenceAssumption DEF GroupAssumption, PersistenceAssumption
<1>4. o + 1 \in 1 .. Len(Log[p])
  BY <1>3
<1>5. Log[p][o + 1] \in Item
  BY <1>3, <1>4
<1> QED
  BY <1>2, <1>5 DEF At

LEMMA TypeInit == Init => TypeInv
<1> SUFFICES ASSUME Init PROVE TypeInv
  OBVIOUS
<1>1. GroupInv
  BY GroupAssumption DEF GroupAssumption, Init, GroupInit, GroupInv, GroupTypeOK, NoOffset
<1>2. ProcessInv
  BY PersistenceAssumption DEF PersistenceAssumption, Init, ProcessInv, Steps
<1>3. TableInv
  BY PersistenceAssumption DEF PersistenceAssumption, Init, TableInv, NoAccount, Account
<1>4. LetterInv
  BY DEF Init, Dead!LettersInit, LetterInv, Dead!LettersTypeOK
<1> QED
  BY <1>1, <1>2, <1>3, <1>4 DEF TypeInv

(* One process takes a step.                                               *)
LEMMA OneProcess ==
  ASSUME ProcessInv, NEW c \in Consumers, NEW q \in Steps, NEW b \in Seq(LogItems),
         NEW t \in Seq(LogItems), NEW e \in BOOLEAN,
         pc' = [pc EXCEPT ![c] = q], batch' = [batch EXCEPT ![c] = b],
         todo' = [todo EXCEPT ![c] = t], ending' = [ending EXCEPT ![c] = e],
         Len(b) <= BatchSize,
         q \in {"alert", "account", "audit"} => t # <<>> /\ IsAlert(Head(t)),
         q \in {"down", "close"} => b = <<>>,
         q = "poll" => Len(b) < BatchSize
  PROVE  ProcessInv'
<1>1. /\ pc' \in [Consumers -> Steps] /\ batch' \in [Consumers -> Seq(LogItems)]
      /\ todo' \in [Consumers -> Seq(LogItems)] /\ ending' \in [Consumers -> BOOLEAN]
  BY DEF ProcessInv
<1>2. /\ pc'[c] = q /\ batch'[c] = b /\ todo'[c] = t
      /\ \A d \in Consumers \ {c} : pc'[d] = pc[d] /\ batch'[d] = batch[d] /\ todo'[d] = todo[d]
  BY DEF ProcessInv
<1>3. ASSUME NEW d \in Consumers
      PROVE  /\ Len(batch'[d]) <= BatchSize
             /\ pc'[d] \in {"alert", "account", "audit"} => todo'[d] # <<>> /\ IsAlert(Head(todo'[d]))
             /\ pc'[d] \in {"down", "close"} => batch'[d] = <<>>
             /\ pc'[d] = "poll" => Len(batch'[d]) < BatchSize
  <2>1. CASE d = c
    BY <1>2, <2>1
  <2>2. CASE d # c
    BY <1>2, <2>2 DEF ProcessInv, Current
  <2> QED
    BY <2>1, <2>2
<1> QED
  BY <1>1, <1>3 DEF ProcessInv, Current, IsAlert, At

(* What is done with is no longer among what is to do.                     *)
LEMMA RestOf ==
  ASSUME NEW s \in Seq(LogItems), NEW n \in DOMAIN s
  PROVE  LET rest == SubSeq(s, n + 1, Len(s))
         IN  /\ rest \in Seq(LogItems)
             /\ \A i \in DOMAIN s : i > n => s[i] \in ToSet(rest)
             /\ ToSet(rest) \subseteq ToSet(s)
<1> DEFINE rest == SubSeq(s, n + 1, Len(s))
<1>1. rest \in Seq(LogItems) /\ Len(s) \in Nat /\ n \in Nat /\ n <= Len(s)
  OBVIOUS
<1>2. Len(rest) = Len(s) - n /\ \A i \in 1 .. Len(s) - n : rest[i] = s[n + i]
  BY <1>1
<1>3. ASSUME NEW i \in DOMAIN s, i > n PROVE s[i] \in ToSet(rest)
  <2> DEFINE k == i - n
  <2>1. k \in 1 .. Len(s) - n /\ n + k = i
    BY <1>1, <1>3
  <2> HIDE DEF k, rest
  <2>2. rest[k] = s[i] /\ k \in DOMAIN rest
    BY <1>1, <1>2, <2>1
  <2> QED
    BY <2>2 DEF ToSet
<1>4. ASSUME NEW k \in DOMAIN rest PROVE rest[k] \in ToSet(s)
  <2>1. k \in 1 .. Len(s) - n /\ n + k \in DOMAIN s
    BY <1>1, <1>2
  <2> HIDE DEF rest
  <2> QED
    BY <1>2, <2>1 DEF ToSet
<1>5. ToSet(rest) \subseteq ToSet(s)
  <2> HIDE DEF rest
  <2> QED
    BY <1>4 DEF ToSet
<1> QED
  BY <1>1, <1>3, <1>5

LEMMA FinishType ==
  ASSUME ProcessInv, NEW c \in Consumers, NEW n \in DOMAIN todo[c], Finish(c, n), UNCHANGED ending
  PROVE  ProcessInv'
<1> DEFINE rest == SubSeq(todo[c], n + 1, Len(todo[c]))
           b == IF rest = <<>> THEN <<>> ELSE batch[c]
           q == IF rest # <<>> THEN "work" ELSE IF ending[c] THEN "close" ELSE "poll"
<1>1. rest \in Seq(LogItems)
  BY RestOf DEF ProcessInv
<1>2. /\ todo' = [todo EXCEPT ![c] = rest] /\ pc' = [pc EXCEPT ![c] = q]
  BY DEF Finish, Goto
<1>3. batch' = [batch EXCEPT ![c] = b] /\ ending' = [ending EXCEPT ![c] = ending[c]]
  BY DEF Finish, ProcessInv
<1>4. b \in Seq(LogItems) /\ q \in Steps /\ ending[c] \in BOOLEAN
  BY DEF ProcessInv, Steps
<1>5. Len(b) <= BatchSize /\ (b = <<>> => Len(b) < BatchSize) /\ (q # "work" => b = <<>>)
  BY PersistenceAssumption DEF PersistenceAssumption, ProcessInv
<1>6. q \notin {"alert", "account", "audit", "down"}
  OBVIOUS
<1> HIDE DEF rest, b, q
<1> QED
  BY <1>1, <1>2, <1>3, <1>4, <1>5, <1>6, OneProcess

(* A process changes nothing but its step.                                 *)
LEMMA GotoType ==
  ASSUME ProcessInv, NEW c \in Consumers, NEW q \in {"work", "alert", "account", "audit", "poll", "close"},
         Goto(c, q), UNCHANGED <<batch, todo, ending>>,
         q \in {"alert", "account", "audit"} => todo[c] # <<>> /\ IsAlert(Current(c)),
         q \in {"poll", "close"} => batch[c] = <<>>
  PROVE  ProcessInv'
<1>1. /\ pc' = [pc EXCEPT ![c] = q] /\ batch' = [batch EXCEPT ![c] = batch[c]]
      /\ todo' = [todo EXCEPT ![c] = todo[c]] /\ ending' = [ending EXCEPT ![c] = ending[c]]
  BY DEF Goto, ProcessInv
<1>2. batch[c] \in Seq(LogItems) /\ todo[c] \in Seq(LogItems) /\ ending[c] \in BOOLEAN /\ q \in Steps
  BY DEF ProcessInv, Steps
<1>3. Len(batch[c]) <= BatchSize /\ (batch[c] = <<>> => Len(batch[c]) < BatchSize)
  BY PersistenceAssumption DEF PersistenceAssumption, ProcessInv
<1>4. q \in {"alert", "account", "audit"} => todo[c] # <<>> /\ IsAlert(Head(todo[c]))
  BY DEF Current
<1> QED
  BY <1>1, <1>2, <1>3, <1>4, OneProcess

(* A process begins to write a batch.                                      *)
LEMMA StartType ==
  ASSUME ProcessInv, NEW c \in Consumers, NEW b \in Seq(LogItems), Len(b) <= BatchSize, NEW e \in BOOLEAN,
         StartBatch(c, b), batch' = [batch EXCEPT ![c] = b], ending' = [ending EXCEPT ![c] = e]
  PROVE  ProcessInv'
<1>1. Grouped(b) \in Seq(LogItems) /\ "work" \in Steps
  BY GroupedKeeps DEF Steps
<1>2. pc' = [pc EXCEPT ![c] = "work"] /\ todo' = [todo EXCEPT ![c] = Grouped(b)]
  BY DEF StartBatch, Goto
<1> QED
  BY <1>1, <1>2, OneProcess

LEMMA CurrentType ==
  ASSUME ProcessInv, NEW c \in Consumers, todo[c] # <<>>
  PROVE  Current(c) \in LogItems /\ 1 \in DOMAIN todo[c] /\ Current(c) = todo[c][1]
<1>1. todo[c] \in Seq(LogItems)
  BY DEF ProcessInv
<1> QED
  BY <1>1 DEF Current

(* What poll() returns is of the log.                                      *)
LEMMA PollType ==
  ASSUME GroupInv, NEW c \in Consumers, NEW p \in Partitions, CanPoll(c, p)
  PROVE  [part |-> p, off |-> position[p]] \in LogItems
<1>1. position[p] \in Nat /\ position[p] < LogSize[p] /\ LogSize[p] \in Nat
  BY GroupAssumption DEF GroupAssumption, GroupInv, GroupTypeOK, CanPoll
<1> QED
  BY <1>1 DEF LogItems

WriteSteps ==
  \E c \in Consumers :
     InsertRows(c) \/ RejectResult(c) \/ InsertResult(c) \/ InsertAlert(c) \/ UpsertAccount(c) \/ AuditAlert(c)

LEMMA GroupNext == TypeInv /\ [Next]_vars => GroupInv'
<1> SUFFICES ASSUME GroupInv, [Next]_vars PROVE GroupInv'
  BY DEF TypeInv
<1>0. ASSUME NEW q \in Partitions
      PROVE  /\ position[q] \in Nat /\ logEnd[q] \in Nat /\ LogSize[q] \in Nat /\ committed[q] \in Int
             /\ committed[q] <= position[q] /\ position[q] <= logEnd[q] /\ logEnd[q] <= LogSize[q]
  BY GroupAssumption DEF GroupAssumption, GroupInv, GroupTypeOK, NoOffset
<1> DEFINE Bounds(q) == committed[q] <= position[q] /\ position[q] <= logEnd[q] /\ logEnd[q] <= LogSize[q]
<1>1. CASE Group
  <2>1. PICK p \in Partitions : Produce(p) \/ Revoke(p) \/ \E c \in Consumers : Assign(c, p)
    BY <1>1 DEF Group
  <2>2. CASE Produce(p)
    <3>1. /\ logEnd' = [logEnd EXCEPT ![p] = @ + 1] /\ logEnd[p] < LogSize[p]
          /\ UNCHANGED <<owner, position, committed, commitQueue, resetTo, rebalances>>
      BY <2>2 DEF Produce
    <3>2. logEnd' \in [Partitions -> Nat]
      BY <3>1 DEF GroupInv, GroupTypeOK
    <3>3. ASSUME NEW q \in Partitions PROVE Bounds(q)'
      BY <1>0, <3>1 DEF GroupInv, GroupTypeOK
    <3> QED
      BY <3>1, <3>2, <3>3 DEF GroupInv, GroupTypeOK
  <2>3. CASE Revoke(p)
    BY <2>3 DEF Revoke, GroupInv, GroupTypeOK
  <2>4. CASE \E c \in Consumers : Assign(c, p)
    <3>1. PICK c \in Consumers : Assign(c, p)
      BY <2>4
    <3>2. StartOffset(p) \in Nat /\ committed[p] <= StartOffset(p) /\ StartOffset(p) <= position[p]
      BY PersistenceAssumption DEF PersistenceAssumption, StartOffset, GroupInv, GroupTypeOK, NoOffset
    <3>3. /\ position' = [position EXCEPT ![p] = StartOffset(p)]
          /\ owner' = [owner EXCEPT ![p] = c]
          /\ resetTo' = [resetTo EXCEPT ![p] = StartOffset(p)] \/ resetTo' = resetTo
          /\ UNCHANGED <<logEnd, committed, commitQueue, rebalances>>
      BY <3>1 DEF Assign
    <3>4. /\ position' \in [Partitions -> Nat] /\ resetTo' \in [Partitions -> Nat]
          /\ owner' \in [Partitions -> Consumers \cup {NoOwner}]
      BY <3>2, <3>3 DEF GroupInv, GroupTypeOK
    <3>5. ASSUME NEW q \in Partitions PROVE Bounds(q)'
      BY <1>0, <3>2, <3>3 DEF GroupInv, GroupTypeOK
    <3> QED
      BY <3>3, <3>4, <3>5 DEF GroupInv, GroupTypeOK
  <2> QED
    BY <2>1, <2>2, <2>3, <2>4
<1>2. ASSUME NEW c \in Consumers, NEW p \in Partitions, Poll(c, p) PROVE GroupInv'
  <2>1. /\ position[p] < logEnd[p] /\ position' = [position EXCEPT ![p] = @ + 1]
        /\ UNCHANGED <<logEnd, owner, committed, commitQueue, resetTo, rebalances>>
    BY <1>2 DEF Poll, CanPoll, Advance
  <2>2. position' \in [Partitions -> Nat]
    BY <2>1 DEF GroupInv, GroupTypeOK
  <2>3. ASSUME NEW q \in Partitions PROVE Bounds(q)'
    BY <1>0, <2>1 DEF GroupInv, GroupTypeOK
  <2> QED
    BY <2>1, <2>2, <2>3 DEF GroupInv, GroupTypeOK
<1>3. ASSUME NEW c \in Consumers, Close(c) PROVE GroupInv'
  <2>1. /\ \A p \in Partitions : committed'[p] = committed[p] \/ committed'[p] = position[p]
        /\ committed' = [p \in Partitions |-> committed'[p]]
        /\ \A p \in Partitions : owner'[p] = owner[p] \/ owner'[p] = NoOwner
        /\ owner' = [p \in Partitions |-> owner'[p]]
        /\ commitQueue' = [commitQueue EXCEPT ![c] = <<>>]
        /\ UNCHANGED <<logEnd, position, resetTo, rebalances>>
    BY <1>3 DEF Close
  <2>2. ASSUME NEW q \in Partitions PROVE committed'[q] \in Nat \cup {NoOffset} /\ Bounds(q)'
    <3>1. committed[q] \in Nat \cup {NoOffset}
      BY DEF GroupInv, GroupTypeOK
    <3> QED
      BY <1>0, <2>1, <3>1
  <2>4. committed' \in [Partitions -> Nat \cup {NoOffset}]
    BY <2>1, <2>2
  <2>3. owner' \in [Partitions -> Consumers \cup {NoOwner}] /\ commitQueue' \in [Consumers -> Seq(Request)]
    BY <2>1 DEF GroupInv, GroupTypeOK
  <2> QED
    BY <2>1, <2>2, <2>3, <2>4 DEF GroupInv, GroupTypeOK
<1>4. ASSUME NEW c \in Consumers, Crash(c) PROVE GroupInv'
  <2>1. /\ owner' = [p \in Partitions |-> IF owner[p] = c THEN NoOwner ELSE owner[p]]
        /\ commitQueue' = [commitQueue EXCEPT ![c] = <<>>]
        /\ UNCHANGED <<logEnd, position, committed, resetTo, rebalances>>
    BY <1>4 DEF Crash, Leave
  <2> QED
    BY <2>1 DEF GroupInv, GroupTypeOK
<1>5. ASSUME NEW c \in Consumers, NEW p \in Partitions, AutoCommit(c, p) PROVE GroupInv'
  <2>1. /\ committed' = [committed EXCEPT ![p] = position[p]]
        /\ UNCHANGED <<logEnd, owner, position, commitQueue, resetTo, rebalances>>
    BY <1>5 DEF AutoCommit
  <2> QED
    BY <2>1 DEF GroupInv, GroupTypeOK
<1>6. CASE UNCHANGED groupVars
  BY <1>6 DEF groupVars, GroupInv, GroupTypeOK
<1>7. CASE \/ ReadLetters \/ DisturbReader \/ UNCHANGED vars
           \/ \E c \in Consumers : Start(c) \/ TimerFires(c) \/ StopRunning(c) \/ WriteBatch(c)
  <2>1. UNCHANGED groupVars
    BY <1>7 DEF ReadLetters, DisturbReader, Start, TimerFires, StopRunning, WriteBatch, InsertRows,
       RejectResult, InsertResult, InsertAlert, UpsertAccount, AuditAlert, vars
  <2> QED
    BY <1>6, <2>1
<1> QED
  BY <1>1, <1>2, <1>3, <1>4, <1>5, <1>7 DEF Next

LEMMA ProcessNext == TypeInv /\ [Next]_vars => ProcessInv'
<1> SUFFICES ASSUME TypeInv, [Next]_vars PROVE ProcessInv'
  OBVIOUS
<1>0. ProcessInv /\ GroupInv
  BY DEF TypeInv
<1>1. CASE UNCHANGED processVars
  BY <1>0, <1>1 DEF processVars, ProcessInv, Current, IsAlert, At
<1>2. CASE Group \/ ReadLetters \/ DisturbReader \/ UNCHANGED vars \/ \E c \in Consumers, p \in Partitions : AutoCommit(c, p)
  <2>1. UNCHANGED processVars
    BY <1>2 DEF Group, ReadLetters, DisturbReader, AutoCommit, vars, localVars
  <2> QED
    BY <1>1, <2>1
<1>3. ASSUME NEW c \in Consumers, Start(c) PROVE ProcessInv'
  <2>1. pc[c] = "down" /\ Goto(c, "poll") /\ UNCHANGED <<batch, todo, ending>>
    BY <1>3 DEF Start
  <2> QED
    BY <1>0, <2>1, GotoType DEF ProcessInv
<1>4. ASSUME NEW c \in Consumers, NEW p \in Partitions, Poll(c, p) PROVE ProcessInv'
  <2> DEFINE x == [part |-> p, off |-> position[p]]
             b == Append(batch[c], x)
  <2>1. x \in LogItems /\ pc[c] = "poll"
    BY <1>0, <1>4, PollType DEF Poll
  <2>2. UNCHANGED ending
    BY <1>4 DEF Poll
  <2>3. CASE At(x).kind = "unreadable"
    <3>1. UNCHANGED processVars
      BY <1>4, <2>2, <2>3 DEF Poll, processVars
    <3> QED
      BY <1>1, <3>1
  <2>4. CASE At(x).kind # "unreadable"
    <3>1. /\ batch' = [batch EXCEPT ![c] = b]
          /\ IF Len(b) >= BatchSize THEN StartBatch(c, b) ELSE UNCHANGED <<pc, todo>>
      BY <1>4, <2>4 DEF Poll
    <3>2. b \in Seq(LogItems) /\ Len(b) = Len(batch[c]) + 1 /\ Len(b) <= BatchSize /\ Len(b) \in Nat
      BY <1>0, <2>1, PersistenceAssumption DEF ProcessInv, PersistenceAssumption
    <3>3. ending' = [ending EXCEPT ![c] = ending[c]] /\ ending[c] \in BOOLEAN
      BY <1>0, <2>2 DEF ProcessInv
    <3> HIDE DEF b, x
    <3>4. CASE Len(b) >= BatchSize
      BY <1>0, <3>1, <3>2, <3>3, <3>4, StartType
    <3>5. CASE ~(Len(b) >= BatchSize)
      <4>1. /\ pc' = [pc EXCEPT ![c] = "poll"] /\ todo' = [todo EXCEPT ![c] = todo[c]]
            /\ todo[c] \in Seq(LogItems) /\ "poll" \in Steps
        BY <1>0, <2>1, <3>1, <3>5 DEF ProcessInv, Steps
      <4>2. Len(b) < BatchSize
        BY <3>2, <3>5, PersistenceAssumption DEF PersistenceAssumption
      <4> QED
        BY <1>0, <3>1, <3>2, <3>3, <4>1, <4>2, OneProcess
    <3> QED
      BY <3>4, <3>5
  <2> QED
    BY <2>3, <2>4
<1>5. ASSUME NEW c \in Consumers, TimerFires(c) PROVE ProcessInv'
  <2>1. StartBatch(c, batch[c]) /\ UNCHANGED <<batch, ending>>
    BY <1>5 DEF TimerFires
  <2>2. /\ batch' = [batch EXCEPT ![c] = batch[c]] /\ ending' = [ending EXCEPT ![c] = ending[c]]
        /\ batch[c] \in Seq(LogItems) /\ Len(batch[c]) <= BatchSize /\ ending[c] \in BOOLEAN
    BY <1>0, <2>1 DEF ProcessInv
  <2> QED
    BY <1>0, <2>1, <2>2, StartType
<1>6. ASSUME NEW c \in Consumers, StopRunning(c) PROVE ProcessInv'
  <2>1. pc[c] = "poll" /\ FinalBatch(c) /\ ending' = [ending EXCEPT ![c] = TRUE] /\ UNCHANGED batch
    BY <1>6 DEF StopRunning
  <2>2. /\ batch' = [batch EXCEPT ![c] = batch[c]]
        /\ batch[c] \in Seq(LogItems) /\ Len(batch[c]) <= BatchSize /\ todo[c] \in Seq(LogItems)
    BY <1>0, <2>1 DEF ProcessInv
  <2>3. CASE batch[c] = <<>>
    <3>1. /\ pc' = [pc EXCEPT ![c] = "close"] /\ todo' = [todo EXCEPT ![c] = todo[c]] /\ "close" \in Steps
      BY <1>0, <2>1, <2>3 DEF FinalBatch, Goto, ProcessInv, Steps
    <3> QED
      BY <1>0, <2>1, <2>2, <2>3, <3>1, OneProcess
  <2>4. CASE batch[c] # <<>>
    <3>1. StartBatch(c, batch[c])
      BY <2>1, <2>4 DEF FinalBatch
    <3> QED
      BY <1>0, <2>1, <2>2, <3>1, StartType
  <2> QED
    BY <2>3, <2>4
<1>7. ASSUME NEW c \in Consumers, Close(c) \/ Crash(c) PROVE ProcessInv'
  <2>1. PICK t \in {todo[c], <<>>} :
          /\ pc' = [pc EXCEPT ![c] = "down"] /\ batch' = [batch EXCEPT ![c] = <<>>]
          /\ todo' = [todo EXCEPT ![c] = t] /\ ending' = [ending EXCEPT ![c] = FALSE]
    BY <1>0, <1>7 DEF Close, Crash, Goto, ProcessInv
  <2>2. todo[c] \in Seq(LogItems) /\ "down" \in Steps
    BY <1>0 DEF ProcessInv, Steps
  <2>3. <<>> \in Seq(LogItems) /\ Len(<<>>) = 0 /\ 0 <= BatchSize
    BY PersistenceAssumption DEF PersistenceAssumption
  <2>4. t \in Seq(LogItems)
    BY <2>2, <2>3
  <2> QED
    BY <1>0, <2>1, <2>2, <2>3, <2>4, OneProcess
<1>8. ASSUME NEW c \in Consumers, NEW n \in DOMAIN todo[c], Finish(c, n), UNCHANGED ending PROVE ProcessInv'
  BY <1>0, <1>8, FinishType
<1>9. ASSUME NEW c \in Consumers, InsertRows(c) PROVE ProcessInv'
  <2>1. todo[c] # <<>> /\ todo[c] \in Seq(LogItems) /\ UNCHANGED ending
    BY <1>0, <1>9 DEF InsertRows, ProcessInv
  <2>2. Finish(c, RunLength(todo[c])) \/ Finish(c, 1)
    BY <1>9 DEF InsertRows
  <2>3. RunLength(todo[c]) \in DOMAIN todo[c] /\ 1 \in DOMAIN todo[c]
    BY <2>1, RunIsOfOneTopic
  <2> QED
    BY <1>8, <2>1, <2>2, <2>3
<1>10. ASSUME NEW c \in Consumers, todo[c] # <<>>, Finish(c, 1), UNCHANGED ending PROVE ProcessInv'
  BY <1>0, <1>8, <1>10, CurrentType
<1>11. ASSUME NEW c \in Consumers, RejectResult(c) \/ AuditAlert(c) PROVE ProcessInv'
  <2>1. todo[c] # <<>> /\ Finish(c, 1) /\ UNCHANGED ending
    BY <1>0, <1>11 DEF RejectResult, AuditAlert, WritingResult, ProcessInv
  <2> QED
    BY <1>10, <2>1
<1>12. ASSUME NEW c \in Consumers, InsertResult(c) PROVE ProcessInv'
  <2>1. todo[c] # <<>> /\ UNCHANGED ending
    BY <1>12 DEF InsertResult, WritingResult
  <2>2. CASE IsAlert(Current(c))
    <3>1. Goto(c, "alert") /\ UNCHANGED <<todo, batch>>
      BY <1>12, <2>2 DEF InsertResult
    <3> QED
      BY <1>0, <2>1, <2>2, <3>1, GotoType
  <2>3. CASE ~IsAlert(Current(c))
    <3>1. Finish(c, 1)
      BY <1>12, <2>3 DEF InsertResult
    <3> QED
      BY <1>10, <2>1, <3>1
  <2> QED
    BY <2>2, <2>3
<1>13. ASSUME NEW c \in Consumers, InsertAlert(c) \/ UpsertAccount(c) PROVE ProcessInv'
  <2>1. todo[c] # <<>> /\ IsAlert(Current(c)) /\ UNCHANGED ending
    BY <1>0, <1>13 DEF InsertAlert, UpsertAccount, ProcessInv
  <2>2. \/ (Goto(c, "account") \/ Goto(c, "audit")) /\ UNCHANGED <<todo, batch>>
        \/ Finish(c, 1)
    BY <1>13 DEF InsertAlert, UpsertAccount
  <2>3. CASE (Goto(c, "account") \/ Goto(c, "audit")) /\ UNCHANGED <<todo, batch>>
    BY <1>0, <2>1, <2>3, GotoType
  <2> QED
    BY <1>10, <2>1, <2>2, <2>3
<1> QED
  BY <1>2, <1>3, <1>4, <1>5, <1>6, <1>7, <1>9, <1>11, <1>12, <1>13 DEF Next, WriteBatch

LEMMA UpsertType ==
  ASSUME NEW a \in Account, NEW s \in {"low", "medium", "high"}
  PROVE  UpsertedAccount(a, s) \in Account
BY DEF Account, UpsertedAccount

LEMMA TableNext == TypeInv /\ [Next]_vars => TableInv'
<1> SUFFICES ASSUME TypeInv, [Next]_vars PROVE TableInv'
  OBVIOUS
<1>0. ProcessInv /\ GroupInv /\ TableInv /\ Dead!LettersTypeOK
  BY DEF TypeInv, LetterInv
<1>1. CASE UNCHANGED <<tableVars, ghostVars>>
  BY <1>0, <1>1 DEF tableVars, ghostVars, TableInv
<1>2. ASSUME NEW xs \in SUBSET LogItems, CallWorks \/ CallFails(xs)
      PROVE  troubles' \in 0 .. MaxTroubles /\ excused' \in SUBSET LogItems
  BY <1>0, <1>2, PersistenceAssumption DEF PersistenceAssumption, CallWorks, CallFails, Trouble, TableInv
<1>3. CASE Group \/ ReadLetters \/ UNCHANGED vars
  BY <1>1, <1>3 DEF Group, ReadLetters, vars, localVars
<1>4. CASE DisturbReader
  <2>1. PICK xs \in SUBSET LogItems : CallFails(xs)
    <3>1. CASE readerPc = "poll" /\ readerNext < Len(letterTopic) /\ CallFails({letterTopic[readerNext + 1]})
      <4>1. letterTopic[readerNext + 1] \in LogItems
        BY <1>0, <3>1 DEF Dead!LettersTypeOK
      <4> QED
        BY <3>1, <4>1
    <3>2. CASE CallFails({})
      BY <3>2
    <3> QED
      BY <1>4, <3>1, <3>2 DEF DisturbReader, Dead!ReadLetter
  <2> QED
    BY <1>0, <1>2, <1>4, <2>1 DEF DisturbReader, TableInv, tableVars
<1>5. ASSUME NEW c \in Consumers,
             Start(c) \/ TimerFires(c) \/ RejectResult(c) \/ \E p \in Partitions : Poll(c, p) \/ AutoCommit(c, p)
      PROVE  TableInv'
  BY <1>1, <1>5 DEF Start, TimerFires, RejectResult, Poll, AutoCommit, localVars
<1>6. ASSUME NEW c \in Consumers, todo[c] # <<>>
      PROVE  /\ Current(c) \in LogItems /\ At(Current(c)).user \in Users
             /\ At(Current(c)).severity \in {"low", "medium", "high"}
  BY <1>0, <1>6, CurrentType, LogItemIs DEF Item
<1>7. ASSUME NEW c \in Consumers, InsertRows(c) PROVE TableInv'
  <2>1. todo[c] \in Seq(LogItems) /\ todo[c] # <<>>
    BY <1>0, <1>7 DEF ProcessInv, InsertRows
  <2>2. RunLength(todo[c]) \in DOMAIN todo[c] /\ 1 \in DOMAIN todo[c]
    BY <2>1, RunIsOfOneTopic
  <2>3. ASSUME NEW n \in DOMAIN todo[c] PROVE ToSet(SubSeq(todo[c], 1, n)) \subseteq LogItems
    BY <2>1 DEF ToSet
  <2> DEFINE n == IF At(Current(c)).topic = "records" THEN RunLength(todo[c]) ELSE 1
             parsed == {x \in ToSet(SubSeq(todo[c], 1, n)) : At(x).kind = "complete"}
  <2>4. parsed \in SUBSET LogItems
    BY <2>2, <2>3
  <2>5. /\ (CallWorks /\ stored' = stored \cup parsed) \/ (CallFails(parsed) /\ UNCHANGED stored)
        /\ UNCHANGED <<alertRows, account, audited, torn>>
    BY <1>7 DEF InsertRows
  <2> HIDE DEF parsed
  <2>6. stored' \in SUBSET LogItems
    BY <1>0, <2>4, <2>5 DEF TableInv
  <2> QED
    BY <1>0, <1>2, <2>4, <2>5, <2>6 DEF TableInv
<1>8. ASSUME NEW c \in Consumers, InsertResult(c) PROVE TableInv'
  <2>1. Current(c) \in LogItems
    BY <1>6, <1>8 DEF InsertResult, WritingResult
  <2>2. /\ (CallWorks /\ stored' = stored \cup {Current(c)}) \/ (CallFails({Current(c)}) /\ UNCHANGED stored)
        /\ UNCHANGED <<alertRows, account, audited, torn>>
    BY <1>8 DEF InsertResult
  <2> QED
    BY <1>0, <1>2, <2>1, <2>2 DEF TableInv
<1>9. ASSUME NEW c \in Consumers, InsertAlert(c) PROVE TableInv'
  <2>1. Current(c) \in LogItems
    BY <1>0, <1>6, <1>9 DEF InsertAlert, ProcessInv
  <2>2. /\ \/ CallWorks /\ alertRows' = [alertRows EXCEPT ![Current(c)] = @ + 1]
           \/ CallFails({Current(c)}) /\ UNCHANGED alertRows
        /\ UNCHANGED <<stored, account, audited, torn>>
    BY <1>9 DEF InsertAlert
  <2>3. alertRows' \in [LogItems -> Nat]
    BY <1>0, <2>1, <2>2 DEF TableInv
  <2> QED
    BY <1>0, <1>2, <2>1, <2>2, <2>3 DEF TableInv
<1>10. ASSUME NEW c \in Consumers, UpsertAccount(c) PROVE TableInv'
  <2>1. /\ Current(c) \in LogItems /\ At(Current(c)).user \in Users
        /\ At(Current(c)).severity \in {"low", "medium", "high"}
    BY <1>0, <1>6, <1>10 DEF UpsertAccount, ProcessInv
  <2> DEFINE u == At(Current(c)).user
             s == At(Current(c)).severity
  <2>2. /\ \/ CallWorks /\ account' = [account EXCEPT ![u] = UpsertedAccount(@, s)] /\ UNCHANGED torn
           \/ CallFails({Current(c)}) /\ torn' = [torn EXCEPT ![u] = @ + 1] /\ UNCHANGED account
        /\ UNCHANGED <<stored, alertRows, audited>>
    BY <1>10 DEF UpsertAccount
  <2> HIDE DEF u, s
  <2>3. account' \in [Users -> Account] /\ torn' \in [Users -> Nat]
    BY <1>0, <2>1, <2>2, UpsertType DEF TableInv, u, s
  <2> QED
    BY <1>0, <1>2, <2>1, <2>2, <2>3 DEF TableInv
<1>11. ASSUME NEW c \in Consumers, AuditAlert(c) PROVE TableInv'
  <2>1. Current(c) \in LogItems
    BY <1>0, <1>6, <1>11 DEF AuditAlert, ProcessInv
  <2>2. /\ (CallWorks /\ audited' = audited \cup {Current(c)}) \/ (CallFails({Current(c)}) /\ UNCHANGED audited)
        /\ UNCHANGED <<stored, alertRows, account, torn>>
    BY <1>11 DEF AuditAlert
  <2> QED
    BY <1>0, <1>2, <2>1, <2>2 DEF TableInv
<1>12. ASSUME NEW c \in Consumers, StopRunning(c) PROVE TableInv'
  BY <1>0, <1>12, PersistenceAssumption DEF PersistenceAssumption, StopRunning, Trouble, TableInv, tableVars
<1>13. ASSUME NEW c \in Consumers, Close(c) PROVE TableInv'
  BY <1>0, <1>13 DEF Close, TableInv, tableVars, Dead!LettersTypeOK
<1>14. ASSUME NEW c \in Consumers, Crash(c) PROVE TableInv'
  <2>1. ToSet(batch[c]) \subseteq LogItems /\ letterQueue[c] \subseteq LogItems
    BY <1>0 DEF ProcessInv, Dead!LettersTypeOK, ToSet
  <2>2. excused' \in SUBSET LogItems /\ troubles' \in 0 .. MaxTroubles
    BY <1>0, <1>14, <2>1, PersistenceAssumption DEF PersistenceAssumption, Crash, Trouble, TableInv
  <2>3. torn' \in [Users -> Nat]
    <3>1. CASE pc[c] = "account"
      <4>1. At(Current(c)).user \in Users
        BY <1>0, <1>6, <3>1 DEF ProcessInv
      <4> QED
        BY <1>0, <1>14, <3>1, <4>1 DEF Crash, TableInv
    <3> QED
      BY <1>0, <1>14, <3>1 DEF Crash, TableInv
  <2> QED
    BY <1>0, <1>14, <2>2, <2>3 DEF Crash, TableInv, tableVars
<1> QED
  BY <1>3, <1>4, <1>5, <1>7, <1>8, <1>9, <1>10, <1>11, <1>12, <1>13, <1>14 DEF Next, WriteBatch

LEMMA LetterNext == TypeInv /\ [Next]_vars => LetterInv'
<1> SUFFICES ASSUME TypeInv, [Next]_vars PROVE LetterInv'
  OBVIOUS
<1>0. ProcessInv /\ GroupInv /\ LetterInv
  BY DEF TypeInv
<1>1. CASE UNCHANGED letterVars
  BY <1>0, <1>1 DEF letterVars, restOfLetters, LetterInv, Dead!LettersTypeOK
<1>2. ASSUME UNCHANGED restOfLetters, letterQueue' \in [Consumers -> SUBSET LogItems] PROVE LetterInv'
  BY <1>0, <1>2 DEF restOfLetters, LetterInv, Dead!LettersTypeOK
<1>3. ASSUME NEW c \in Consumers, NEW x \in LogItems, Dead!PublishLetters(c, {x}), UNCHANGED restOfLetters
      PROVE  LetterInv'
  BY <1>0, <1>2, <1>3 DEF Dead!PublishLetters, LetterInv, Dead!LettersTypeOK
<1>4. ASSUME NEW c \in Consumers, Dead!ForgetLetters(c), UNCHANGED restOfLetters PROVE LetterInv'
  BY <1>0, <1>2, <1>4 DEF Dead!ForgetLetters, LetterInv, Dead!LettersTypeOK
<1>5. ASSUME NEW c \in Consumers, NEW p \in Partitions, Poll(c, p) PROVE LetterInv'
  <2>1. [part |-> p, off |-> position[p]] \in LogItems
    BY <1>0, <1>5, PollType DEF Poll
  <2>2. \/ UNCHANGED letterVars
        \/ Dead!PublishLetters(c, {[part |-> p, off |-> position[p]]}) /\ UNCHANGED restOfLetters
    BY <1>5 DEF Poll, letterVars
  <2> QED
    BY <1>1, <1>3, <2>1, <2>2
<1>6. ASSUME NEW c \in Consumers, RejectResult(c) PROVE LetterInv'
  <2>1. Current(c) \in LogItems
    BY <1>0, <1>6, CurrentType DEF RejectResult, WritingResult
  <2> QED
    BY <1>3, <1>6, <2>1 DEF RejectResult
<1>7. ASSUME NEW c \in Consumers, Close(c) \/ Crash(c) PROVE LetterInv'
  BY <1>4, <1>7 DEF Close, Crash
<1>8. CASE ReadLetters \/ DisturbReader
  <2>1. CASE \E c \in Consumers : Dead!DeliverLetter(c)
    <3>1. PICK c \in Consumers : Dead!DeliverLetter(c)
      BY <2>1
    <3>2. PICK x \in letterQueue[c] :
            /\ letterTopic' = Append(letterTopic, x) /\ letterQueue' = [letterQueue EXCEPT ![c] = @ \ {x}]
            /\ UNCHANGED <<readerPc, readerNext, letterCommitted, letterFile>>
      BY <3>1 DEF Dead!DeliverLetter
    <3>3. /\ x \in LogItems /\ letterTopic \in Seq(LogItems) /\ letterQueue \in [Consumers -> SUBSET LogItems]
          /\ readerNext \in 0 .. Len(letterTopic) /\ letterCommitted \in 0 .. Len(letterTopic)
      BY <1>0 DEF LetterInv, Dead!LettersTypeOK
    <3>4. /\ letterTopic' \in Seq(LogItems) /\ Len(letterTopic') = Len(letterTopic) + 1
          /\ letterQueue' \in [Consumers -> SUBSET LogItems]
      BY <3>2, <3>3
    <3>5. readerNext' \in 0 .. Len(letterTopic') /\ letterCommitted' \in 0 .. Len(letterTopic')
      BY <3>2, <3>3, <3>4
    <3> QED
      BY <1>0, <3>2, <3>4, <3>5 DEF LetterInv, Dead!LettersTypeOK
  <2>2. CASE Dead!StartReader \/ Dead!StopReader \/ Dead!CommitLetter(TRUE) \/ Dead!CommitLetter(FALSE)
    BY <1>0, <2>2 DEF LetterInv, Dead!LettersTypeOK, Dead!StartReader, Dead!StopReader, Dead!CommitLetter,
       Dead!ReaderStart
  <2>3. CASE Dead!ReadLetter(TRUE) \/ Dead!ReadLetter(FALSE)
    <3>1. readerNext < Len(letterTopic) /\ readerNext \in 0 .. Len(letterTopic) /\ letterTopic \in Seq(LogItems)
      BY <1>0, <2>3 DEF LetterInv, Dead!LettersTypeOK, Dead!ReadLetter
    <3>2. letterTopic[readerNext + 1] \in LogItems
      BY <3>1
    <3>3. /\ letterFile' = letterFile \cup {letterTopic[readerNext + 1]} \/ letterFile' = letterFile
          /\ readerNext' = readerNext + 1 /\ readerPc' = "commit"
          /\ UNCHANGED <<letterQueue, letterTopic, letterCommitted>>
      BY <2>3 DEF Dead!ReadLetter, Dead!WriteLetter
    <3> QED
      BY <1>0, <3>1, <3>2, <3>3 DEF LetterInv, Dead!LettersTypeOK
  <2> QED
    BY <1>8, <2>1, <2>2, <2>3 DEF ReadLetters, DisturbReader
<1>9. CASE \/ Group \/ UNCHANGED vars
           \/ \E c \in Consumers :
                 \/ Start(c) \/ TimerFires(c) \/ StopRunning(c) \/ InsertRows(c) \/ InsertResult(c)
                 \/ InsertAlert(c) \/ UpsertAccount(c) \/ AuditAlert(c) \/ \E p \in Partitions : AutoCommit(c, p)
  <2>1. UNCHANGED letterVars
    BY <1>9 DEF Group, Start, TimerFires, StopRunning, InsertRows, InsertResult, InsertAlert, UpsertAccount,
       AuditAlert, AutoCommit, vars
  <2> QED
    BY <1>1, <2>1
<1> QED
  BY <1>5, <1>6, <1>7, <1>8, <1>9 DEF Next, WriteBatch

LEMMA TypeNext == TypeInv /\ [Next]_vars => TypeInv'
BY GroupNext, ProcessNext, TableNext, LetterNext DEF TypeInv

(* Every variable has its type.                                            *)
THEOREM PersistenceTypesCorrect == Spec => []TypeOK
BY TypeInit, TypeNext, TypeInvImpliesTypeOK, PTL DEF Spec

-----------------------------------------------------------------------------
(* What is committed is kept.                                              *)

(* A message is safe when no process has to do anything more for it.       *)
Safe(x) ==
  \/ x \in excused \/ Recorded(x)
  \/ \E c \in Consumers : x \in letterQueue[c]
  \/ \E i \in readerNext + 1 .. Len(letterTopic) : letterTopic[i] = x

(* Of the batch a process writes, what is no longer to do is safe; and a   *)
(* step of an alert is taken after the ones before it.                     *)
WorkKept(c) ==
  /\ \A x \in ToSet(batch[c]) \cup ToSet(todo[c]) : At(x).kind # "unreadable"
  /\ pc[c] \in {"work", "alert", "account", "audit"} =>
       \A x \in ToSet(batch[c]) : x \in ToSet(todo[c]) \/ Safe(x)
  /\ pc[c] \in {"alert", "account", "audit"} => Current(c) \in stored \cup excused
  /\ pc[c] \in {"account", "audit"} => alertRows[Current(c)] > 0

LettersFiled == \A i \in 1 .. readerNext : letterTopic[i] \in letterFile \cup excused

(* What has been read is safe or in a batch.                               *)
KeepInv ==
  /\ LettersFiled
  /\ \A x \in LogItems : x.off < position[x.part] => Safe(x) \/ \E c \in Consumers : x \in ToSet(batch[c])
  /\ \A c \in Consumers : WorkKept(c)

LEMMA KeepImplies == TypeInv /\ KeepInv => CommittedIsKept
<1> SUFFICES ASSUME TypeInv, KeepInv, NEW p \in Partitions, NEW o \in 0 .. committed[p] - 1
             PROVE  LET x == [part |-> p, off |-> o] IN Recorded(x) \/ Held(x) \/ x \in excused
  BY DEF CommittedIsKept
<1> DEFINE x == [part |-> p, off |-> o]
<1>1. /\ position[p] \in Nat /\ logEnd[p] \in Nat /\ LogSize[p] \in Nat /\ committed[p] \in Int
      /\ committed[p] <= position[p] /\ position[p] <= logEnd[p] /\ logEnd[p] <= LogSize[p]
  BY GroupAssumption DEF GroupAssumption, TypeInv, GroupInv, GroupTypeOK, NoOffset
<1>2. o \in 0 .. LogSize[p] - 1 /\ o < position[p]
  BY <1>1
<1>3. x \in LogItems /\ x.off < position[x.part]
  BY <1>2 DEF LogItems
<1>4. Safe(x) \/ \E c \in Consumers : x \in ToSet(batch[c])
  BY <1>3 DEF KeepInv
<1> HIDE DEF x
<1>5. Recorded(x) \/ Held(x) \/ x \in excused
  BY <1>4 DEF Safe, Held
<1> QED
  BY <1>5 DEF x

LEMMA KeepInit == Init => KeepInv
<1> SUFFICES ASSUME Init PROVE KeepInv
  OBVIOUS
<1>1. \A x \in LogItems : ~ (x.off < position[x.part])
  BY LogItemIs, GroupAssumption DEF GroupAssumption, Init, GroupInit
<1>2. ASSUME NEW c \in Consumers PROVE WorkKept(c)
  <2>1. batch[c] = <<>> /\ todo[c] = <<>> /\ pc[c] = "down"
    BY DEF Init
  <2>2. ToSet(<<>>) = {}
    BY DEF ToSet
  <2> QED
    BY <2>1, <2>2 DEF WorkKept
<1>3. LettersFiled
  BY DEF Init, Dead!LettersInit, LettersFiled
<1> QED
  BY <1>1, <1>2, <1>3 DEF KeepInv

(* Rows, lines and excuses are never taken back.                           *)
Grows ==
  /\ stored \subseteq stored' /\ audited \subseteq audited' /\ excused \subseteq excused'
  /\ letterFile \subseteq letterFile'
  /\ \A x \in LogItems : alertRows[x] > 0 => alertRows'[x] > 0

LEMMA RecordedStays ==
  ASSUME Grows, NEW x \in LogItems, Recorded(x) PROVE Recorded(x)'
BY DEF Grows, Recorded, IsAlert, At

(* While the readers of the dead letters rest.                             *)
LEMMA SafeStays ==
  ASSUME Grows, UNCHANGED <<letterTopic, readerNext>>,
         \A c \in Consumers : letterQueue[c] \subseteq letterQueue'[c] \cup excused',
         NEW x \in LogItems, Safe(x)
  PROVE  Safe(x)'
<1>1. CASE x \in excused
  BY <1>1 DEF Safe, Grows
<1>2. CASE Recorded(x)
  BY <1>2, RecordedStays DEF Safe
<1>3. CASE \E c \in Consumers : x \in letterQueue[c]
  BY <1>3 DEF Safe
<1>4. CASE \E i \in readerNext + 1 .. Len(letterTopic) : letterTopic[i] = x
  BY <1>4 DEF Safe
<1> QED
  BY <1>1, <1>2, <1>3, <1>4 DEF Safe

LEMMA OthersWork ==
  ASSUME ProcessInv, Grows, \A x \in LogItems : Safe(x) => Safe(x)', NEW d \in Consumers, WorkKept(d),
         pc'[d] = pc[d], batch'[d] = batch[d], todo'[d] = todo[d]
  PROVE  WorkKept(d)'
<1>1. ToSet(batch[d]) \subseteq LogItems /\ (todo[d] # <<>> => Current(d) \in LogItems)
  BY CurrentType DEF ProcessInv, ToSet
<1>2. pc[d] \in {"alert", "account", "audit"} => todo[d] # <<>>
  BY DEF ProcessInv
<1>3. Current(d)' = Current(d)
  BY DEF Current
<1>4. \A x \in ToSet(batch'[d]) \cup ToSet(todo'[d]) : At(x)'.kind # "unreadable"
  BY DEF WorkKept, At
<1>5. pc'[d] \in {"work", "alert", "account", "audit"} =>
        \A x \in ToSet(batch'[d]) : x \in ToSet(todo'[d]) \/ Safe(x)'
  BY <1>1 DEF WorkKept
<1>6. /\ pc'[d] \in {"alert", "account", "audit"} => Current(d)' \in stored' \cup excused'
      /\ pc'[d] \in {"account", "audit"} => alertRows'[Current(d)'] > 0
  BY <1>1, <1>2, <1>3 DEF WorkKept, Grows
<1> QED
  BY <1>4, <1>5, <1>6 DEF WorkKept, At

(* One process takes a step; what it reads, and what it clears from its    *)
(* batch, is safe.                                                         *)
LEMMA KeepStep ==
  ASSUME TypeInv, KeepInv, NEW c \in Consumers, Grows, LettersFiled',
         \A x \in LogItems : Safe(x) => Safe(x)',
         \A d \in Consumers \ {c} : pc'[d] = pc[d] /\ batch'[d] = batch[d] /\ todo'[d] = todo[d],
         WorkKept(c)',
         \A x \in LogItems :
            x.off < position'[x.part] => x.off < position[x.part] \/ Safe(x)' \/ x \in ToSet(batch'[c]),
         \A x \in ToSet(batch[c]) : Safe(x)' \/ x \in ToSet(batch'[c])
  PROVE  KeepInv'
<1>1. ASSUME NEW d \in Consumers PROVE WorkKept(d)'
  <2>1. CASE d = c
    BY <2>1
  <2>2. CASE d # c
    BY <2>2, OthersWork DEF KeepInv, TypeInv
  <2> QED
    BY <2>1, <2>2
<1>2. ASSUME NEW x \in LogItems, x.off < position'[x.part]
      PROVE  Safe(x)' \/ \E d \in Consumers : x \in ToSet(batch'[d])
  <2>1. CASE x.off < position[x.part] /\ Safe(x)
    BY <2>1
  <2>2. CASE \E d \in Consumers : x \in ToSet(batch[d])
    BY <2>2
  <2>3. CASE ~ (x.off < position[x.part])
    BY <1>2, <2>3
  <2> QED
    BY <2>1, <2>2, <2>3 DEF KeepInv
<1> QED
  BY <1>1, <1>2 DEF KeepInv

(* What is done with leaves the batch once all of it is safe.              *)
LEMMA FinishKeeps ==
  ASSUME ProcessInv, NEW c \in Consumers, NEW n \in DOMAIN todo[c], Finish(c, n), WorkKept(c),
         pc[c] \in {"work", "alert", "account", "audit"},
         \A x \in LogItems : Safe(x) => Safe(x)',
         NEW D \in SUBSET LogItems, \A i \in DOMAIN todo[c] : i <= n => todo[c][i] \in D,
         \A x \in D : Safe(x)'
  PROVE  WorkKept(c)' /\ \A x \in ToSet(batch[c]) : Safe(x)' \/ x \in ToSet(batch'[c])
<1> DEFINE rest == SubSeq(todo[c], n + 1, Len(todo[c]))
<1>1. todo[c] \in Seq(LogItems) /\ ToSet(batch[c]) \subseteq LogItems
  BY DEF ProcessInv, ToSet
<1>2. /\ \A i \in DOMAIN todo[c] : i > n => todo[c][i] \in ToSet(rest)
      /\ ToSet(rest) \subseteq ToSet(todo[c])
  BY <1>1, RestOf
<1>3. /\ todo'[c] = rest
      /\ batch'[c] = IF rest = <<>> THEN <<>> ELSE batch[c]
      /\ pc'[c] \in {"work", "close", "poll"}
      /\ rest = <<>> => pc'[c] # "work"
  BY DEF Finish, Goto, ProcessInv
<1> HIDE DEF rest
<1>4. ASSUME NEW x \in ToSet(batch[c]) PROVE Safe(x)' \/ x \in ToSet(rest)
  <2>1. CASE x \in ToSet(todo[c])
    <3>1. PICK i \in DOMAIN todo[c] : x = todo[c][i]
      BY <2>1 DEF ToSet
    <3>2. i <= n \/ i > n
      BY <1>1
    <3> QED
      BY <1>2, <3>1, <3>2
  <2>2. CASE Safe(x)
    BY <1>1, <2>2
  <2> QED
    BY <2>1, <2>2 DEF WorkKept
<1>5. ToSet(<<>>) = {}
  BY DEF ToSet
<1>6. ToSet(batch'[c]) \subseteq ToSet(batch[c]) /\ ToSet(todo'[c]) \subseteq ToSet(todo[c])
  BY <1>2, <1>3, <1>5
<1>7. \A x \in ToSet(batch'[c]) \cup ToSet(todo'[c]) : At(x)'.kind # "unreadable"
  BY <1>6 DEF WorkKept, At
<1>8. pc'[c] = "work" => \A x \in ToSet(batch'[c]) : x \in ToSet(todo'[c]) \/ Safe(x)'
  BY <1>3, <1>4, <1>6
<1>9. WorkKept(c)'
  BY <1>3, <1>7, <1>8 DEF WorkKept
<1> QED
  BY <1>3, <1>4, <1>5, <1>9

(* A process that begins to write has all of its batch to do.              *)
LEMMA StartKeeps ==
  ASSUME ProcessInv, NEW c \in Consumers, NEW b \in Seq(LogItems), StartBatch(c, b), batch'[c] = b,
         \A x \in ToSet(b) : At(x).kind # "unreadable"
  PROVE  WorkKept(c)'
<1>1. ToSet(Grouped(b)) = ToSet(b)
  BY GroupedKeeps
<1>2. pc'[c] = "work" /\ todo'[c] = Grouped(b)
  BY DEF StartBatch, Goto, ProcessInv
<1>3. \A x \in ToSet(batch'[c]) \cup ToSet(todo'[c]) : At(x)'.kind # "unreadable"
  BY <1>1, <1>2 DEF At
<1>4. \A x \in ToSet(batch'[c]) : x \in ToSet(todo'[c]) \/ Safe(x)'
  BY <1>1, <1>2
<1> QED
  BY <1>2, <1>3, <1>4 DEF WorkKept

(* Neither the group nor the timed commit touches a message.               *)
LEMMA KeepQuiet ==
  ASSUME TypeInv, KeepInv, UNCHANGED <<localVars, letterVars>>,
         \A p \in Partitions : position'[p] <= position[p], \A p \in Partitions : position'[p] \in Nat
  PROVE  KeepInv'
<1>1. \A x \in LogItems : x.off < position'[x.part] => x.off < position[x.part]
  BY LogItemIs, GroupAssumption DEF GroupAssumption, TypeInv, GroupInv, GroupTypeOK
<1> USE DEF localVars, letterVars, restOfLetters, processVars, tableVars, ghostVars
<1>2. ASSUME NEW x \in LogItems PROVE Safe(x)' = Safe(x)
  BY DEF Safe, Recorded, IsAlert, At
<1>3. Grows
  BY DEF Grows
<1>4. \A c \in Consumers : WorkKept(c)'
  BY <1>2, <1>3, OthersWork DEF KeepInv, TypeInv
<1>5. LettersFiled'
  BY DEF KeepInv, LettersFiled
<1> QED
  BY <1>1, <1>2, <1>4, <1>5 DEF KeepInv

LEMMA KeepGroup ==
  ASSUME TypeInv, KeepInv,
         \/ Group \/ UNCHANGED vars
         \/ \E c \in Consumers, p \in Partitions : AutoCommit(c, p)
  PROVE  KeepInv'
<1>1. UNCHANGED <<localVars, letterVars>>
  BY DEF Group, vars, AutoCommit
<1>2. ASSUME NEW q \in Partitions PROVE position'[q] \in Nat /\ position'[q] <= position[q]
  <2>1. position[q] \in Nat /\ committed[q] \in Nat \cup {NoOffset} /\ committed[q] <= position[q]
    BY DEF TypeInv, GroupInv, GroupTypeOK
  <2>2. CASE UNCHANGED position
    BY <2>1, <2>2
  <2>3. CASE \E c \in Consumers, p \in Partitions : Assign(c, p)
    <3>1. PICK p \in Partitions : position' = [position EXCEPT ![p] = StartOffset(p)]
      BY <2>3 DEF Assign
    <3>2. position'[q] = position[q] \/ (p = q /\ position'[q] = StartOffset(q))
      BY <3>1 DEF TypeInv, GroupInv, GroupTypeOK
    <3>3. StartOffset(q) \in Nat /\ StartOffset(q) <= position[q]
      BY <2>1, PersistenceAssumption DEF PersistenceAssumption, StartOffset, NoOffset
    <3> QED
      BY <2>1, <3>2, <3>3
  <2> QED
    BY <2>2, <2>3 DEF Group, Produce, Revoke, AutoCommit, vars, groupVars
<1> QED
  BY <1>1, <1>2, KeepQuiet

LEMMA FartherBack ==
  ASSUME NEW a \in Int, NEW b \in Int, NEW n \in Int, a <= b, NEW i \in b + 1 .. n
  PROVE  i \in a + 1 .. n
OBVIOUS

(* The readers of the dead letters.                                        *)
LEMMA KeepLetters ==
  ASSUME TypeInv, KeepInv, ReadLetters \/ DisturbReader PROVE KeepInv'
<1>0. ProcessInv /\ LetterInv /\ letterTopic \in Seq(LogItems) /\ readerNext \in 0 .. Len(letterTopic)
  BY DEF TypeInv, LetterInv, Dead!LettersTypeOK
<1>1. UNCHANGED <<position, pc, batch, todo, stored, alertRows, audited>>
  BY DEF ReadLetters, DisturbReader, groupVars, localVars, processVars, tableVars
<1>2. excused \subseteq excused' /\ letterFile \subseteq letterFile'
  BY DEF ReadLetters, DisturbReader, localVars, ghostVars, CallFails, Dead!StartReader, Dead!ReadLetter,
     Dead!WriteLetter, Dead!CommitLetter, Dead!DeliverLetter, Dead!StopReader
<1>3. Grows
  BY <1>1, <1>2 DEF Grows
<1>4. (\A x \in LogItems : Safe(x) => Safe(x)') /\ LettersFiled'
  <2>1. CASE \E c \in Consumers : Dead!DeliverLetter(c)
    <3>1. PICK c \in Consumers : Dead!DeliverLetter(c)
      BY <2>1
    <3>2. PICK y \in letterQueue[c] :
            /\ letterTopic' = Append(letterTopic, y) /\ letterQueue' = [letterQueue EXCEPT ![c] = @ \ {y}]
            /\ UNCHANGED <<readerNext, letterFile>>
      BY <3>1 DEF Dead!DeliverLetter
    <3>3. letterQueue \in [Consumers -> SUBSET LogItems] /\ y \in LogItems
      BY DEF TypeInv, LetterInv, Dead!LettersTypeOK
    <3>4. /\ Len(letterTopic') = Len(letterTopic) + 1 /\ letterTopic'[Len(letterTopic) + 1] = y
          /\ \A i \in 1 .. Len(letterTopic) : letterTopic'[i] = letterTopic[i]
          /\ Len(letterTopic) \in Nat
      BY <1>0, <3>2, <3>3
    <3>5. ASSUME NEW x \in LogItems, Safe(x) PROVE Safe(x)'
      <4>1. CASE x \in excused \/ Recorded(x)
        BY <1>3, <4>1, RecordedStays DEF Safe, Grows
      <4>2. CASE x = y
        <5>1. Len(letterTopic) + 1 \in readerNext' + 1 .. Len(letterTopic')
          BY <1>0, <3>2, <3>4
        <5> QED
          BY <3>4, <4>2, <5>1 DEF Safe
      <4>3. CASE x # y /\ \E d \in Consumers : x \in letterQueue[d]
        BY <3>2, <3>3, <4>3 DEF Safe
      <4>4. CASE \E i \in readerNext + 1 .. Len(letterTopic) : letterTopic[i] = x
        <5>1. PICK i \in readerNext + 1 .. Len(letterTopic) : letterTopic[i] = x
          BY <4>4
        <5>2. i \in readerNext' + 1 .. Len(letterTopic') /\ letterTopic'[i] = x
          BY <1>0, <3>2, <3>4, <5>1
        <5> QED
          BY <5>2 DEF Safe
      <4> QED
        BY <3>5, <4>1, <4>2, <4>3, <4>4 DEF Safe
    <3>6. LettersFiled'
      BY <1>0, <1>2, <3>2, <3>4 DEF LettersFiled, KeepInv
    <3> QED
      BY <3>5, <3>6
  <2>2. CASE UNCHANGED <<letterTopic, letterQueue>> /\ readerNext' \in 0 .. readerNext
    <3>1. ASSUME NEW x \in LogItems, Safe(x) PROVE Safe(x)'
      <4>1. CASE x \in excused \/ Recorded(x)
        BY <1>3, <4>1, RecordedStays DEF Safe, Grows
      <4>2. CASE \E d \in Consumers : x \in letterQueue[d]
        BY <2>2, <4>2 DEF Safe
      <4>3. CASE \E i \in readerNext + 1 .. Len(letterTopic) : letterTopic[i] = x
        <5>1. PICK i \in readerNext + 1 .. Len(letterTopic) : letterTopic[i] = x
          BY <4>3
        <5>2. readerNext' <= readerNext /\ readerNext' \in Nat /\ UNCHANGED letterTopic
          BY <1>0, <2>2
        <5>5. readerNext \in Int /\ Len(letterTopic) \in Int
          BY <1>0
        <5>6. readerNext' \in Int
          BY <5>2
        <5>7. readerNext' <= readerNext
          BY <5>2
        <5>8. i \in readerNext + 1 .. Len(letterTopic)
          BY <5>1
        <5>3. i \in readerNext' + 1 .. Len(letterTopic)
          BY <5>5, <5>6, <5>7, <5>8, FartherBack
        <5>4. i \in readerNext' + 1 .. Len(letterTopic') /\ letterTopic'[i] = x
          BY <5>1, <5>2, <5>3
        <5> QED
          BY <5>4 DEF Safe
      <4> QED
        BY <3>1, <4>1, <4>2, <4>3 DEF Safe
    <3>2. LettersFiled'
      BY <1>0, <1>2, <2>2 DEF LettersFiled, KeepInv
    <3> QED
      BY <3>1, <3>2
  <2>3. CASE Dead!ReadLetter(TRUE) \/ (Dead!ReadLetter(FALSE) /\ CallFails({letterTopic[readerNext + 1]}))
    <3>1. /\ readerNext < Len(letterTopic) /\ readerNext' = readerNext + 1
          /\ letterTopic[readerNext + 1] \in letterFile' \cup excused'
          /\ UNCHANGED <<letterTopic, letterQueue>>
      BY <2>3 DEF Dead!ReadLetter, Dead!WriteLetter, CallFails
    <3>2. ASSUME NEW x \in LogItems, Safe(x) PROVE Safe(x)'
      <4>1. CASE x \in excused \/ Recorded(x)
        BY <1>3, <4>1, RecordedStays DEF Safe, Grows
      <4>2. CASE \E d \in Consumers : x \in letterQueue[d]
        BY <3>1, <4>2 DEF Safe
      <4>3. CASE \E i \in readerNext + 1 .. Len(letterTopic) : letterTopic[i] = x
        <5>1. PICK i \in readerNext + 1 .. Len(letterTopic) : letterTopic[i] = x
          BY <4>3
        <5>2. CASE i = readerNext + 1
          BY <3>1, <5>1, <5>2 DEF Safe, Recorded
        <5>3. CASE i # readerNext + 1
          <6>1. i \in readerNext' + 1 .. Len(letterTopic') /\ letterTopic'[i] = x
            BY <1>0, <3>1, <5>1, <5>3
          <6> QED
            BY <6>1 DEF Safe
        <5> QED
          BY <5>2, <5>3
      <4> QED
        BY <3>2, <4>1, <4>2, <4>3 DEF Safe
    <3>3. LettersFiled'
      <4>1. ASSUME NEW i \in 1 .. readerNext' PROVE letterTopic'[i] \in letterFile' \cup excused'
        <5>1. i \in 1 .. readerNext \/ i = readerNext + 1
          BY <1>0, <3>1
        <5> QED
          BY <1>2, <3>1, <5>1 DEF LettersFiled, KeepInv
      <4> QED
        BY <4>1 DEF LettersFiled
    <3> QED
      BY <3>2, <3>3
  <2>4. CASE Dead!StartReader \/ Dead!StopReader \/ Dead!CommitLetter(TRUE) \/ Dead!CommitLetter(FALSE)
    <3>1. UNCHANGED <<letterTopic, letterQueue>> /\ readerNext' \in {readerNext, letterCommitted}
      BY <2>4 DEF Dead!StartReader, Dead!StopReader, Dead!CommitLetter, Dead!ReaderStart
    <3>2. letterCommitted \in 0 .. readerNext /\ readerNext \in 0 .. readerNext
      BY <1>0 DEF LetterInv, Dead!LettersTypeOK
    <3> QED
      BY <2>2, <3>1, <3>2
  <2> QED
    BY <2>1, <2>3, <2>4 DEF ReadLetters, DisturbReader
<1>5. \A c \in Consumers : WorkKept(c)'
  BY <1>0, <1>1, <1>3, <1>4, OthersWork DEF KeepInv
<1>6. ASSUME NEW x \in LogItems, x.off < position'[x.part]
      PROVE  Safe(x)' \/ \E c \in Consumers : x \in ToSet(batch'[c])
  BY <1>1, <1>4, <1>6 DEF KeepInv
<1> QED
  BY <1>4, <1>5, <1>6 DEF KeepInv

LEMMA KeepPoll ==
  ASSUME TypeInv, KeepInv, NEW c \in Consumers, NEW p \in Partitions, Poll(c, p) PROVE KeepInv'
<1> DEFINE y == [part |-> p, off |-> position[p]]
           b == Append(batch[c], y)
<1>0. ProcessInv /\ GroupInv /\ LetterInv /\ pc[c] = "poll" /\ y \in LogItems
  BY PollType DEF TypeInv, Poll
<1>1. /\ UNCHANGED <<restOfLetters, ending, tableVars, ghostVars>>
      /\ position' = [position EXCEPT ![p] = @ + 1]
  BY DEF Poll, Advance
<1>2. Grows
  BY <1>1 DEF Grows, tableVars, ghostVars, restOfLetters
<1>3. LettersFiled'
  BY <1>1 DEF KeepInv, LettersFiled, restOfLetters, ghostVars
<1>4. y \in letterQueue'[c] \/ batch' = [batch EXCEPT ![c] = b]
  BY <1>0 DEF Poll, Dead!PublishLetters, LetterInv, Dead!LettersTypeOK
<1>5. \A d \in Consumers : letterQueue[d] \subseteq letterQueue'[d] \cup excused'
  BY <1>0 DEF Poll, Dead!PublishLetters, LetterInv, Dead!LettersTypeOK
<1>6. \A x \in LogItems : Safe(x) => Safe(x)'
  BY <1>1, <1>2, <1>5, SafeStays DEF restOfLetters
<1>7. \A d \in Consumers \ {c} : pc'[d] = pc[d] /\ batch'[d] = batch[d] /\ todo'[d] = todo[d]
  BY <1>0 DEF Poll, StartBatch, Goto, ProcessInv
<1>8. b \in Seq(LogItems) /\ ToSet(b) = ToSet(batch[c]) \cup {y} /\ batch[c] \in Seq(LogItems)
  <2>1. /\ batch[c] \in Seq(LogItems) /\ Len(b) = Len(batch[c]) + 1 /\ b[Len(batch[c]) + 1] = y
        /\ \A i \in 1 .. Len(batch[c]) : b[i] = batch[c][i]
        /\ b \in Seq(LogItems)
    BY <1>0 DEF ProcessInv
  <2>2. ToSet(b) = {b[i] : i \in 1 .. Len(batch[c]) + 1} /\ ToSet(batch[c]) = {batch[c][i] : i \in 1 .. Len(batch[c])}
    BY <2>1 DEF ToSet
  <2>3. 1 .. Len(batch[c]) + 1 = (1 .. Len(batch[c])) \cup {Len(batch[c]) + 1}
    BY <2>1
  <2> HIDE DEF b, y
  <2> QED
    BY <2>1, <2>2, <2>3
<1>9. WorkKept(c)'
  <2>1. CASE At(y).kind = "unreadable"
    <3>1. UNCHANGED <<pc, batch, todo>>
      BY <2>1 DEF Poll
    <3> QED
      BY <1>0, <1>2, <1>6, <3>1, OthersWork DEF KeepInv
  <2>2. CASE At(y).kind # "unreadable"
    <3>1. /\ batch' = [batch EXCEPT ![c] = b]
          /\ IF Len(b) >= BatchSize THEN StartBatch(c, b) ELSE UNCHANGED <<pc, todo>>
      BY <2>2 DEF Poll
    <3>2. batch'[c] = b
      BY <1>0, <3>1 DEF ProcessInv
    <3>3. \A x \in ToSet(b) : At(x).kind # "unreadable"
      BY <1>8, <2>2 DEF KeepInv, WorkKept
    <3> HIDE DEF b, y
    <3>4. CASE Len(b) >= BatchSize
      BY <1>0, <1>8, <3>1, <3>2, <3>3, <3>4, StartKeeps
    <3>5. CASE ~ (Len(b) >= BatchSize)
      <4>1. UNCHANGED <<pc, todo>>
        BY <3>1, <3>5
      <4> QED
        BY <1>0, <3>2, <3>3, <4>1 DEF KeepInv, WorkKept, At
    <3> QED
      BY <3>4, <3>5
  <2> QED
    BY <2>1, <2>2
<1>10. ASSUME NEW x \in LogItems, x.off < position'[x.part]
       PROVE  x.off < position[x.part] \/ Safe(x)' \/ x \in ToSet(batch'[c])
  <2>1. x.part \in Partitions /\ x.off \in Nat /\ x = [part |-> x.part, off |-> x.off]
    BY LogItemIs, GroupAssumption DEF GroupAssumption
  <2>2. position[x.part] \in Nat
    BY <1>0, <2>1 DEF GroupInv, GroupTypeOK
  <2>3. x.off < position[x.part] \/ (x.part = p /\ x.off = position[p])
    BY <1>0, <1>1, <1>10, <2>1, <2>2 DEF GroupInv, GroupTypeOK
  <2>4. x.off < position[x.part] \/ x = y
    BY <2>1, <2>3
  <2>5. x = y /\ y \in letterQueue'[c] => Safe(x)'
    BY DEF Safe
  <2>6. batch' = [batch EXCEPT ![c] = b] => y \in ToSet(batch'[c])
    BY <1>0, <1>8 DEF ProcessInv
  <2> QED
    BY <1>4, <2>4, <2>5, <2>6
<1>11. \A x \in ToSet(batch[c]) : Safe(x)' \/ x \in ToSet(batch'[c])
  <2>1. batch' = batch \/ batch' = [batch EXCEPT ![c] = b]
    BY DEF Poll
  <2> QED
    BY <1>0, <1>8, <2>1 DEF ProcessInv
<1> QED
  BY <1>2, <1>3, <1>6, <1>7, <1>9, <1>10, <1>11, KeepStep

(* The steps of a process that reads nothing.                              *)
LEMMA KeepLocal ==
  ASSUME TypeInv, KeepInv, NEW c \in Consumers, Grows, UNCHANGED <<position, restOfLetters>>,
         \A d \in Consumers : letterQueue[d] \subseteq letterQueue'[d] \cup excused',
         \A d \in Consumers \ {c} : pc'[d] = pc[d] /\ batch'[d] = batch[d] /\ todo'[d] = todo[d],
         WorkKept(c)',
         \A x \in ToSet(batch[c]) : Safe(x)' \/ x \in ToSet(batch'[c])
  PROVE  KeepInv'
<1>1. LettersFiled'
  BY DEF KeepInv, LettersFiled, restOfLetters, Grows
<1>2. \A x \in LogItems : Safe(x) => Safe(x)'
  BY SafeStays DEF restOfLetters
<1> QED
  BY <1>1, <1>2, KeepStep

LEMMA KeepLife ==
  ASSUME TypeInv, KeepInv, NEW c \in Consumers,
         Start(c) \/ TimerFires(c) \/ StopRunning(c) \/ Close(c) \/ Crash(c)
  PROVE  KeepInv'
<1>0. ProcessInv /\ LetterInv /\ WorkKept(c) /\ letterQueue \in [Consumers -> SUBSET LogItems]
  BY DEF TypeInv, KeepInv, LetterInv, Dead!LettersTypeOK
<1>1. UNCHANGED <<position, restOfLetters, stored, alertRows, account, audited>> /\ excused \subseteq excused'
  BY DEF Start, TimerFires, StopRunning, Close, Crash, Leave, groupVars, letterVars, tableVars, ghostVars
<1>2. Grows
  BY <1>1 DEF Grows, restOfLetters
<1>3. \A d \in Consumers : letterQueue[d] \subseteq letterQueue'[d] \cup excused'
  BY <1>0, <1>1 DEF Start, TimerFires, StopRunning, Close, Crash, letterVars, Dead!ForgetLetters
<1>4. \A d \in Consumers \ {c} : pc'[d] = pc[d] /\ batch'[d] = batch[d] /\ todo'[d] = todo[d]
  BY <1>0 DEF Start, TimerFires, StopRunning, FinalBatch, StartBatch, Close, Crash, Goto, ProcessInv
<1>5. WorkKept(c)' /\ \A x \in ToSet(batch[c]) : Safe(x)' \/ x \in ToSet(batch'[c])
  <2>1. CASE Start(c) \/ (StopRunning(c) /\ batch[c] = <<>>)
    <3>1. UNCHANGED <<batch, todo>> /\ pc'[c] \in {"poll", "close"}
      BY <1>0, <2>1 DEF Start, StopRunning, FinalBatch, Goto, ProcessInv
    <3> QED
      BY <1>0, <3>1 DEF WorkKept, At
  <2>2. CASE TimerFires(c) \/ (StopRunning(c) /\ batch[c] # <<>>)
    <3>1. UNCHANGED batch /\ StartBatch(c, batch[c]) /\ batch[c] \in Seq(LogItems)
      BY <1>0, <2>2 DEF TimerFires, StopRunning, FinalBatch, ProcessInv
    <3>2. \A x \in ToSet(batch[c]) : At(x).kind # "unreadable"
      BY <1>0 DEF WorkKept
    <3>3. batch'[c] = batch[c]
      BY <3>1
    <3> QED
      BY <1>0, <3>1, <3>2, <3>3, StartKeeps
  <2>3. CASE Close(c) \/ Crash(c)
    <3>1. /\ pc'[c] = "down" /\ batch'[c] = <<>> /\ (todo'[c] = todo[c] \/ todo'[c] = <<>>)
      BY <1>0, <2>3 DEF Close, Crash, Goto, ProcessInv
    <3>2. ToSet(<<>>) = {}
      BY DEF ToSet
    <3>3. WorkKept(c)'
      BY <1>0, <3>1, <3>2 DEF WorkKept, At
    <3>4. CASE Close(c)
      BY <1>0, <3>2, <3>3, <3>4 DEF Close, ProcessInv
    <3>5. CASE Crash(c)
      BY <3>3, <3>5 DEF Crash, Safe
    <3> QED
      BY <2>3, <3>4, <3>5
  <2> QED
    BY <2>1, <2>2, <2>3
<1> QED
  BY <1>1, <1>2, <1>3, <1>4, <1>5, KeepLocal

LEMMA KeepWrite ==
  ASSUME TypeInv, KeepInv, NEW c \in Consumers, WriteBatch(c) PROVE KeepInv'
<1>0. /\ ProcessInv /\ LetterInv /\ WorkKept(c) /\ letterQueue \in [Consumers -> SUBSET LogItems]
      /\ TableInv
  BY DEF TypeInv, KeepInv, LetterInv, Dead!LettersTypeOK
<1>1. pc[c] \in {"work", "alert", "account", "audit"} /\ todo[c] # <<>> /\ todo[c] \in Seq(LogItems)
  BY <1>0 DEF WriteBatch, InsertRows, RejectResult, InsertResult, InsertAlert, UpsertAccount, AuditAlert,
     WritingResult, ProcessInv
<1>2. Current(c) \in LogItems /\ 1 \in DOMAIN todo[c] /\ Current(c) = todo[c][1]
  BY <1>0, <1>1, CurrentType
<1>3. UNCHANGED <<position, restOfLetters>> /\ excused \subseteq excused' /\ stored \subseteq stored' /\ audited \subseteq audited'
  BY DEF WriteBatch, InsertRows, RejectResult, InsertResult, InsertAlert, UpsertAccount, AuditAlert, CallWorks,
     CallFails, groupVars, letterVars, tableVars, ghostVars
<1>4. \A x \in LogItems : alertRows[x] > 0 => alertRows'[x] > 0
  <2>1. alertRows' = alertRows \/ alertRows' = [alertRows EXCEPT ![Current(c)] = @ + 1]
    BY DEF WriteBatch, InsertRows, RejectResult, InsertResult, InsertAlert, UpsertAccount, AuditAlert, tableVars
  <2> QED
    BY <1>0, <1>2, <2>1 DEF TableInv
<1>5. Grows
  BY <1>3, <1>4 DEF Grows, restOfLetters
<1>6. \A d \in Consumers : letterQueue[d] \subseteq letterQueue'[d] \cup excused'
  BY <1>0 DEF WriteBatch, InsertRows, RejectResult, InsertResult, InsertAlert, UpsertAccount, AuditAlert,
     letterVars, Dead!PublishLetters
<1>7. \A x \in LogItems : Safe(x) => Safe(x)'
  BY <1>3, <1>5, <1>6, SafeStays DEF restOfLetters
<1>8. \A d \in Consumers \ {c} : pc'[d] = pc[d] /\ batch'[d] = batch[d] /\ todo'[d] = todo[d]
  BY <1>0 DEF WriteBatch, InsertRows, RejectResult, InsertResult, InsertAlert, UpsertAccount, AuditAlert,
     Finish, Goto, ProcessInv
<1> DEFINE Kept == WorkKept(c)' /\ \A x \in ToSet(batch[c]) : Safe(x)' \/ x \in ToSet(batch'[c])
<1>9. ASSUME NEW n \in DOMAIN todo[c], Finish(c, n), NEW D \in SUBSET LogItems,
             \A i \in DOMAIN todo[c] : i <= n => todo[c][i] \in D, \A x \in D : Safe(x)'
      PROVE  Kept
  BY <1>0, <1>1, <1>7, <1>9, FinishKeeps
<1>10. ASSUME Finish(c, 1), NEW y \in LogItems, y = Current(c), Safe(y)' PROVE Kept
  <2>1. \A i \in DOMAIN todo[c] : i <= 1 => todo[c][i] \in {y}
    BY <1>1, <1>2, <1>10
  <2>2. {y} \in SUBSET LogItems /\ \A x \in {y} : Safe(x)'
    BY <1>10
  <2> QED
    BY <1>2, <1>9, <1>10, <2>1, <2>2
<1>11. PICK y \in LogItems : y = Current(c)
  BY <1>2
<1>12. At(y).kind # "unreadable" /\ At(y)' = At(y) /\ IsAlert(y)' = IsAlert(y) /\ At(y).kind \in Kinds
  <2>1. y \in ToSet(todo[c])
    BY <1>2, <1>11 DEF ToSet
  <2>2. At(y).kind # "unreadable"
    BY <1>0, <2>1 DEF WorkKept
  <2>3. At(y).kind \in Kinds
    BY LogItemIs DEF Item
  <2> QED
    BY <2>2, <2>3 DEF At, IsAlert
<1>13. CASE InsertRows(c)
  <2> DEFINE topic == At(y).topic
             n == IF topic = "records" THEN RunLength(todo[c]) ELSE 1
             done == SubSeq(todo[c], 1, n)
             parsed == {x \in ToSet(done) : At(x).kind = "complete"}
  <2>1. n \in DOMAIN todo[c] /\ \A i \in 1 .. n : At(todo[c][i]).topic = At(todo[c][1]).topic
    BY <1>1, <1>2, RunIsOfOneTopic
  <2>2. /\ topic # "results" /\ Finish(c, n)
        /\ stored' = stored \cup parsed \/ excused' = excused \cup parsed
    BY <1>11, <1>13 DEF InsertRows, CallFails
  <2> HIDE DEF n
  <2>3. /\ ToSet(done) \subseteq ToSet(todo[c]) /\ ToSet(done) \in SUBSET LogItems
        /\ \A i \in DOMAIN todo[c] : i <= n => todo[c][i] \in ToSet(done)
        /\ \A x \in ToSet(done) : At(x).topic = topic
    <3>1. DOMAIN todo[c] = 1 .. Len(todo[c]) /\ n \in 1 .. Len(todo[c]) /\ Len(todo[c]) \in Nat
      BY <1>1, <2>1
    <3>2. Len(done) = n /\ \A i \in 1 .. n : done[i] = todo[c][i] /\ i \in DOMAIN todo[c]
      BY <1>1, <3>1
    <3>3. DOMAIN done = 1 .. n
      BY <1>1, <3>1
    <3> HIDE DEF done
    <3>4. ToSet(done) = {todo[c][i] : i \in 1 .. n}
      BY <3>2, <3>3 DEF ToSet
    <3> QED
      BY <1>1, <1>2, <1>11, <2>1, <3>1, <3>2, <3>4 DEF ToSet
  <2>4. ASSUME NEW x \in ToSet(done) PROVE Safe(x)'
    <3>1. x \in LogItems /\ At(x).kind # "unreadable" /\ At(x).topic # "results" /\ At(x).kind \in Kinds
      BY <1>0, <2>2, <2>3, LogItemIs DEF WorkKept, Item
    <3>2. At(x)' = At(x)
      BY DEF At
    <3>3. CASE At(x).kind = "complete"
      <4>1. x \in parsed
        BY <3>3
      <4>2. x \in stored' \/ x \in excused'
        BY <2>2, <4>1
      <4>3. ~ IsAlert(x)'
        BY <3>1, <3>2 DEF IsAlert
      <4> QED
        BY <4>2, <4>3 DEF Safe, Recorded
    <3>4. CASE At(x).kind = "malformed"
      BY <3>1, <3>2, <3>4 DEF Safe, Recorded
    <3> QED
      BY <3>1, <3>3, <3>4 DEF Kinds
  <2>5. PICK D \in SUBSET LogItems : D = ToSet(done)
    BY <2>3
  <2>6. \A x \in D : Safe(x)'
    BY <2>4, <2>5
  <2> QED
    BY <1>3, <1>5, <1>6, <1>8, <1>9, <2>1, <2>2, <2>3, <2>5, <2>6, KeepLocal
<1>14. CASE RejectResult(c)
  <2>1. y \in letterQueue'[c] /\ Finish(c, 1)
    BY <1>0, <1>11, <1>14 DEF RejectResult, Dead!PublishLetters
  <2>2. Safe(y)'
    BY <2>1 DEF Safe
  <2> QED
    BY <1>3, <1>5, <1>6, <1>8, <1>10, <1>11, <2>1, <2>2, KeepLocal
<1>15. ASSUME NEW q \in {"alert", "account", "audit"}, Goto(c, q), UNCHANGED <<todo, batch>>,
              y \in stored' \cup excused', q \in {"account", "audit"} => alertRows'[y] > 0
       PROVE  Kept
  <2>1. pc'[c] = q /\ Current(c)' = y /\ batch'[c] = batch[c] /\ todo'[c] = todo[c]
    BY <1>0, <1>11, <1>15 DEF Goto, ProcessInv, Current
  <2>2. \A x \in ToSet(batch'[c]) \cup ToSet(todo'[c]) : At(x)'.kind # "unreadable"
    BY <1>0, <2>1 DEF WorkKept, At
  <2>3. \A x \in ToSet(batch'[c]) : x \in ToSet(todo'[c]) \/ Safe(x)'
    <3>1. ToSet(batch[c]) \subseteq LogItems
      BY <1>0 DEF ProcessInv, ToSet
    <3> QED
      BY <1>0, <1>1, <1>7, <2>1, <3>1 DEF WorkKept
  <2> QED
    BY <1>15, <2>1, <2>2, <2>3 DEF WorkKept
<1>16. CASE InsertResult(c)
  <2>1. y \in stored' \cup excused'
    BY <1>11, <1>16 DEF InsertResult, CallFails
  <2>2. CASE IsAlert(y)
    <3>1. Goto(c, "alert") /\ UNCHANGED <<todo, batch>>
      BY <1>11, <1>16, <2>2 DEF InsertResult
    <3> QED
      BY <1>3, <1>5, <1>6, <1>8, <1>15, <2>1, <3>1, KeepLocal
  <2>3. CASE ~ IsAlert(y)
    <3>1. Finish(c, 1)
      BY <1>11, <1>16, <2>3 DEF InsertResult
    <3>2. Safe(y)'
      BY <1>12, <2>1, <2>3 DEF Safe, Recorded
    <3> QED
      BY <1>3, <1>5, <1>6, <1>8, <1>10, <1>11, <3>1, <3>2, KeepLocal
  <2> QED
    BY <2>2, <2>3
<1>17. pc[c] \in {"alert", "account", "audit"} => y \in stored' \cup excused'
  BY <1>0, <1>3, <1>11 DEF WorkKept
<1>18. ASSUME Finish(c, 1), y \in excused' PROVE Kept
  <2>1. Safe(y)'
    BY <1>18 DEF Safe
  <2> QED
    BY <1>10, <1>11, <1>18, <2>1
<1>19. CASE InsertAlert(c)
  <2>1. pc[c] = "alert"
    BY <1>19 DEF InsertAlert
  <2>2. \/ Goto(c, "account") /\ UNCHANGED <<todo, batch>> /\ alertRows' = [alertRows EXCEPT ![y] = @ + 1]
        \/ Finish(c, 1) /\ y \in excused'
    BY <1>11, <1>19 DEF InsertAlert, CallFails
  <2>3. CASE Goto(c, "account") /\ UNCHANGED <<todo, batch>> /\ alertRows' = [alertRows EXCEPT ![y] = @ + 1]
    <3>1. alertRows'[y] > 0
      BY <1>0, <2>3 DEF TableInv
    <3>2. Kept
      BY <1>15, <1>17, <2>1, <2>3, <3>1
    <3> QED
      BY <1>3, <1>5, <1>6, <1>8, <3>2, KeepLocal
  <2> QED
    BY <1>3, <1>5, <1>6, <1>8, <1>18, <2>2, <2>3, KeepLocal
<1>20. CASE UpsertAccount(c)
  <2>1. pc[c] = "account" /\ UNCHANGED alertRows
    BY <1>20 DEF UpsertAccount
  <2>2. \/ Goto(c, "audit") /\ UNCHANGED <<todo, batch>>
        \/ Finish(c, 1) /\ y \in excused'
    BY <1>11, <1>20 DEF UpsertAccount, CallFails
  <2>3. CASE Goto(c, "audit") /\ UNCHANGED <<todo, batch>>
    <3>1. alertRows'[y] > 0
      BY <1>0, <1>11, <2>1 DEF WorkKept
    <3>2. Kept
      BY <1>15, <1>17, <2>1, <2>3, <3>1
    <3> QED
      BY <1>3, <1>5, <1>6, <1>8, <3>2, KeepLocal
  <2> QED
    BY <1>3, <1>5, <1>6, <1>8, <1>18, <2>2, <2>3, KeepLocal
<1>21. CASE AuditAlert(c)
  <2>1. pc[c] = "audit" /\ UNCHANGED alertRows /\ Finish(c, 1) /\ (y \in audited' \/ y \in excused')
    BY <1>11, <1>21 DEF AuditAlert, CallFails
  <2>2. alertRows'[y] > 0
    BY <1>0, <1>11, <2>1 DEF WorkKept
  <2>3. Safe(y)'
    BY <1>17, <2>1, <2>2 DEF Safe, Recorded
  <2> QED
    BY <1>3, <1>5, <1>6, <1>8, <1>10, <1>11, <2>1, <2>3, KeepLocal
<1> QED
  BY <1>13, <1>14, <1>16, <1>19, <1>20, <1>21 DEF WriteBatch

LEMMA KeepNext == TypeInv /\ KeepInv /\ [Next]_vars => KeepInv'
<1> SUFFICES ASSUME TypeInv, KeepInv, [Next]_vars PROVE KeepInv'
  OBVIOUS
<1>1. CASE Group \/ UNCHANGED vars \/ \E c \in Consumers, p \in Partitions : AutoCommit(c, p)
  BY <1>1, KeepGroup
<1>2. CASE ReadLetters \/ DisturbReader
  BY <1>2, KeepLetters
<1>3. CASE \E c \in Consumers, p \in Partitions : Poll(c, p)
  BY <1>3, KeepPoll
<1>4. CASE \E c \in Consumers : Start(c) \/ TimerFires(c) \/ StopRunning(c) \/ Close(c) \/ Crash(c)
  BY <1>4, KeepLife
<1>5. CASE \E c \in Consumers : WriteBatch(c)
  BY <1>5, KeepWrite
<1> QED
  BY <1>1, <1>2, <1>3, <1>4, <1>5 DEF Next

(* Offsets are committed by a timer, ahead of the work; still a message    *)
(* below the committed offset is recorded, held by somebody, or one a      *)
(* failing call or the end of a process lost (PersistenceConsumer).        *)
THEOREM CommittedMessagesKept == Spec => []CommittedIsKept
BY TypeInit, TypeNext, KeepInit, KeepNext, KeepImplies, PTL DEF Spec

-----------------------------------------------------------------------------
(* The sum of the numbers m gives the elements of a set, taken one after   *)
(* the other as the fold takes them: g holds the sums of the subsets, the  *)
(* ones of at most n elements.                                             *)
First(s) == CHOOSE x \in s : TRUE
Summed(m, g, s) == IF s = {} THEN 0 ELSE m[First(s)] + g[s \ {First(s)}]
UpTo(S, n) == {s \in SUBSET S : Cardinality(s) <= n}
Sums(m, S, n, g) == g = [s \in UpTo(S, n) |-> Summed(m, g, s)]

(* A set without the element that is chosen first is smaller by one.       *)
LEMMA Smaller ==
  ASSUME NEW S, IsFiniteSet(S), NEW s \in SUBSET S, s # {}
  PROVE  /\ First(s) \in s /\ s \ {First(s)} \in SUBSET S
         /\ Cardinality(s) \in Nat /\ Cardinality(s) > 0
         /\ Cardinality(s \ {First(s)}) = Cardinality(s) - 1
<1>1. First(s) \in s
  BY DEF First
<1>2. IsFiniteSet(s)
  BY FS_Subset
<1>3. Cardinality(s) \in Nat /\ Cardinality(s) # 0
  BY <1>2, FS_CardinalityType, FS_EmptySet
<1>4. Cardinality(s \ {First(s)}) = Cardinality(s) - 1
  BY <1>1, <1>2, FS_RemoveElement
<1> QED
  BY <1>1, <1>3, <1>4

LEMMA NoneIsEmpty ==
  ASSUME NEW S, IsFiniteSet(S), NEW s \in SUBSET S, Cardinality(s) <= 0
  PROVE  s = {}
<1> SUFFICES ASSUME s # {} PROVE FALSE
  OBVIOUS
<1>1. Cardinality(s) \in Nat /\ Cardinality(s) > 0
  BY Smaller
<1> QED
  BY <1>1

(* There are such sums, for every size: those of one element more are made *)
(* of the smaller ones.                                                    *)
LEMMA SumsExist ==
  ASSUME NEW S, IsFiniteSet(S), NEW m, NEW n \in Nat
  PROVE  \E g : Sums(m, S, n, g)
<1> DEFINE T == {k \in Nat : \E g : Sums(m, S, k, g)}
<1>1. 0 \in T
  <2> DEFINE g == [s \in UpTo(S, 0) |-> 0]
  <2>1. ASSUME NEW s \in UpTo(S, 0) PROVE s = {}
    <3>1. s \in SUBSET S /\ Cardinality(s) <= 0
      BY DEF UpTo
    <3> QED
      BY <3>1, NoneIsEmpty
  <2>2. Sums(m, S, 0, g)
    BY <2>1 DEF Sums, Summed
  <2> HIDE DEF g
  <2> QED
    BY <2>2
<1>2. ASSUME NEW k \in T PROVE k + 1 \in T
  <2>1. PICK g : Sums(m, S, k, g)
    OBVIOUS
  <2> DEFINE h == [s \in UpTo(S, k + 1) |-> Summed(m, g, s)]
  <2>2. k \in Nat /\ k + 1 \in Nat
    OBVIOUS
  <2>3. \A s \in UpTo(S, k) : g[s] = Summed(m, g, s)
    BY <2>1 DEF Sums
  <2>4. ASSUME NEW s \in UpTo(S, k) PROVE s \in UpTo(S, k + 1) /\ h[s] = g[s]
    <3>1. IsFiniteSet(s) /\ Cardinality(s) \in Nat /\ Cardinality(s) <= k
      BY FS_Subset, FS_CardinalityType DEF UpTo
    <3>2. s \in UpTo(S, k + 1)
      BY <2>2, <3>1 DEF UpTo
    <3> QED
      BY <2>3, <3>2
  <2>5. ASSUME NEW s \in UpTo(S, k + 1), s # {} PROVE s \ {First(s)} \in UpTo(S, k)
    BY <2>2, <2>5, Smaller DEF UpTo
  <2>6. ASSUME NEW s \in UpTo(S, k + 1) PROVE Summed(m, g, s) = Summed(m, h, s)
    <3>1. CASE s = {}
      BY <3>1 DEF Summed
    <3>2. CASE s # {}
      <4>1. h[s \ {First(s)}] = g[s \ {First(s)}]
        BY <2>4, <2>5, <3>2
      <4> HIDE DEF h
      <4> QED
        BY <3>2, <4>1 DEF Summed
    <3> QED
      BY <3>1, <3>2
  <2>7. h = [s \in UpTo(S, k + 1) |-> Summed(m, h, s)]
    <3> DEFINE f == [s \in UpTo(S, k + 1) |-> Summed(m, h, s)]
    <3>1. \A s \in UpTo(S, k + 1) : Summed(m, g, s) = Summed(m, h, s)
      BY <2>6
    <3>2. \A s \in UpTo(S, k + 1) : h[s] = Summed(m, g, s)
      OBVIOUS
    <3> HIDE DEF h
    <3>3. \A s \in UpTo(S, k + 1) : h[s] = f[s]
      BY <3>1, <3>2
    <3>4. h = [s \in UpTo(S, k + 1) |-> h[s]]
      BY DEF h
    <3> QED
      BY <3>3, <3>4
  <2> HIDE DEF h
  <2>8. Sums(m, S, k + 1, h)
    BY <2>7 DEF Sums
  <2> QED
    BY <2>2, <2>8
<1>3. T = Nat
  <2> HIDE DEF T
  <2>1. T \in SUBSET Nat
    BY DEF T
  <2> QED
    BY <1>1, <1>2, <2>1, Induct
<1> QED
  BY <1>3

(* The fold is one of them.                                                *)
LEMMA SumIs ==
  ASSUME NEW S, IsFiniteSet(S), NEW m
  PROVE  \E g : Sums(m, S, Cardinality(S), g) /\ SumOf(m, S) = g[S]
<1> DEFINE n == Cardinality(S)
           rec(h, s) == IF s = {} THEN 0
                        ELSE m[CHOOSE x \in s : TRUE] + h[s \ {CHOOSE x \in s : TRUE}]
           g == CHOOSE h : h = [s \in SUBSET S |-> rec(h, s)]
<1>1. n \in Nat
  BY FS_CardinalityType
<1>2. PICK f : Sums(m, S, n, f)
  BY <1>1, SumsExist
<1>3. UpTo(S, n) = SUBSET S
  BY FS_Subset DEF UpTo
<1>4. f = [s \in SUBSET S |-> rec(f, s)]
  BY <1>2, <1>3 DEF Sums, Summed, First
<1>5. g = [s \in SUBSET S |-> rec(g, s)]
  BY <1>4
<1>6. Sums(m, S, n, g)
  <2> HIDE DEF g
  <2> QED
    BY <1>3, <1>5 DEF Sums, Summed, First
<1>7. SumOf(m, S) = g[S]
  BY DEF SumOf, FoldFunctionOnSet, MapThenFoldSet
<1> HIDE DEF g
<1> QED
  BY <1>6, <1>7

(* One more of one element is one more of the sum, if the element is of    *)
(* the set.                                                                *)
LEMMA SumGrows ==
  ASSUME NEW S, IsFiniteSet(S), NEW L, S \subseteq L, NEW m \in [L -> Nat], NEW y \in L,
         NEW k, k = [m EXCEPT ![y] = @ + 1]
  PROVE  SumOf(m, S) \in Nat /\ SumOf(k, S) = SumOf(m, S) + (IF y \in S THEN 1 ELSE 0)
<1>1. PICK g : Sums(m, S, Cardinality(S), g) /\ SumOf(m, S) = g[S]
  BY SumIs
<1>2. PICK h : Sums(k, S, Cardinality(S), h) /\ SumOf(k, S) = h[S]
  BY SumIs
<1>3. \A s \in SUBSET S : g[s] = Summed(m, g, s) /\ h[s] = Summed(k, h, s) /\ Cardinality(s) \in Nat
  BY <1>1, <1>2, FS_Subset, FS_CardinalityType DEF Sums, UpTo
<1> DEFINE Good(s) == g[s] \in Nat /\ h[s] = g[s] + (IF y \in s THEN 1 ELSE 0)
           T == {n \in Nat : \A s \in SUBSET S : Cardinality(s) <= n => Good(s)}
<1>4. ASSUME NEW s \in SUBSET S, s = {} PROVE Good(s)
  <2>1. Summed(m, g, s) = 0 /\ Summed(k, h, s) = 0
    BY <1>4 DEF Summed
  <2>2. g[s] = 0 /\ h[s] = 0 /\ y \notin s
    BY <1>3, <1>4, <2>1
  <2> QED
    BY <2>2
<1>5. 0 \in T
  BY <1>4, NoneIsEmpty
<1>6. ASSUME NEW n \in T PROVE n + 1 \in T
  <2>1. ASSUME NEW s \in SUBSET S, Cardinality(s) <= n + 1, s # {} PROVE Good(s)
    <3> DEFINE x == First(s)
               r == s \ {x}
    <3>1. x \in s /\ r \in SUBSET S /\ Cardinality(s) \in Nat /\ Cardinality(r) = Cardinality(s) - 1
      BY <2>1, Smaller
    <3>2. Good(r)
      BY <2>1, <3>1
    <3>3. g[s] = m[x] + g[r] /\ h[s] = k[x] + h[r]
      BY <1>3, <2>1 DEF Summed
    <3>4. m[x] \in Nat /\ k[x] = m[x] + (IF x = y THEN 1 ELSE 0)
      BY <3>1
    <3>5. y \in s <=> y \in r \/ x = y
      BY <3>1
    <3>6. x \notin r
      OBVIOUS
    <3> HIDE DEF x, r
    <3> QED
      BY <3>2, <3>3, <3>4, <3>5, <3>6
  <2>2. n + 1 \in Nat
    OBVIOUS
  <2> QED
    BY <1>4, <2>1, <2>2
<1>7. T = Nat
  <2> HIDE DEF T
  <2>1. T \in SUBSET Nat
    BY DEF T
  <2> QED
    BY <1>5, <1>6, <2>1, Induct
<1>8. Good(S)
  BY <1>3, <1>7
<1> QED
  BY <1>1, <1>2, <1>8

LEMMA SumOfNone ==
  ASSUME NEW S, IsFiniteSet(S), NEW m, \A x \in S : m[x] = 0
  PROVE  SumOf(m, S) = 0
<1>1. PICK g : Sums(m, S, Cardinality(S), g) /\ SumOf(m, S) = g[S]
  BY SumIs
<1>2. \A s \in SUBSET S : g[s] = Summed(m, g, s) /\ Cardinality(s) \in Nat
  BY <1>1, FS_Subset, FS_CardinalityType DEF Sums, UpTo
<1> DEFINE T == {n \in Nat : \A s \in SUBSET S : Cardinality(s) <= n => g[s] = 0}
<1>3. 0 \in T
  BY <1>2, NoneIsEmpty DEF Summed
<1>4. ASSUME NEW n \in T PROVE n + 1 \in T
  <2>1. ASSUME NEW s \in SUBSET S, Cardinality(s) <= n + 1, s # {} PROVE g[s] = 0
    <3>1. /\ First(s) \in s /\ s \ {First(s)} \in SUBSET S
          /\ Cardinality(s) \in Nat /\ Cardinality(s \ {First(s)}) = Cardinality(s) - 1
      BY <2>1, Smaller
    <3>2. g[s \ {First(s)}] = 0 /\ m[First(s)] = 0
      BY <2>1, <3>1
    <3>3. Summed(m, g, s) = m[First(s)] + g[s \ {First(s)}]
      BY <2>1 DEF Summed
    <3>4. Summed(m, g, s) = 0
      BY <3>2, <3>3
    <3> QED
      BY <1>2, <3>4
  <2>2. ASSUME NEW s \in SUBSET S, s = {} PROVE g[s] = 0
    BY <1>2, <2>2 DEF Summed
  <2>3. n + 1 \in Nat
    OBVIOUS
  <2> QED
    BY <2>1, <2>2, <2>3
<1>5. T = Nat
  <2> HIDE DEF T
  <2>1. T \in SUBSET Nat
    BY DEF T
  <2> QED
    BY <1>3, <1>4, <2>1, Induct
<1> QED
  BY <1>1, <1>2, <1>5

-----------------------------------------------------------------------------
(* The accounts.                                                           *)

LEMMA LogItemsFinite == IsFiniteSet(LogItems)
<1> DEFINE items(p) == {[part |-> p, off |-> o] : o \in 0 .. LogSize[p] - 1}
           f == [p \in Partitions |-> items(p)]
           T == {items(p) : p \in Partitions}
<1>1. ASSUME NEW p \in Partitions PROVE IsFiniteSet(items(p))
  <2> DEFINE h == [o \in 0 .. LogSize[p] - 1 |-> [part |-> p, off |-> o]]
  <2>1. LogSize[p] \in Nat
    BY GroupAssumption DEF GroupAssumption
  <2>2. IsFiniteSet(0 .. LogSize[p] - 1)
    BY <2>1, FS_Interval
  <2>3. h \in Surjection(0 .. LogSize[p] - 1, items(p))
    BY DEF Surjection
  <2> HIDE DEF h, items
  <2> QED
    BY <2>2, <2>3, FS_Surjection
<1>2. IsFiniteSet(Partitions)
  BY PersistenceAssumption DEF PersistenceAssumption
<1> HIDE DEF items
<1>3. f \in Surjection(Partitions, T)
  BY DEF Surjection
<1>4. IsFiniteSet(T)
  <2> HIDE DEF f, T
  <2> QED
    BY <1>2, <1>3, FS_Surjection
<1>5. \A t \in T : IsFiniteSet(t)
  BY <1>1
<1>6. LogItems = UNION T
  BY DEF LogItems, items
<1> HIDE DEF T
<1> QED
  BY <1>4, <1>5, <1>6, FS_UNION

RowsOf(u) == {x \in LogItems : At(x).user = u}

LEMMA RowsFinite == ASSUME NEW u PROVE IsFiniteSet(RowsOf(u)) /\ RowsOf(u) \subseteq LogItems
<1>1. RowsOf(u) \in SUBSET LogItems
  BY DEF RowsOf
<1> QED
  BY <1>1, LogItemsFinite, FS_Subset

LEMMA AlertRowsAre ==
  ASSUME NEW u
  PROVE  AlertRowsOf(u) = SumOf(alertRows, RowsOf(u)) /\ AlertRowsOf(u)' = SumOf(alertRows', RowsOf(u))
<1>1. AlertRowsOf(u) = SumOf(alertRows, RowsOf(u))
  BY DEF AlertRowsOf, RowsOf
<1>2. AlertRowsOf(u)' = SumOf(alertRows', RowsOf(u))
  BY DEF AlertRowsOf, RowsOf, At
<1> QED
  BY <1>1, <1>2

(* The processes of which a user's account comes next.                     *)
AtAccount(u) == {c \in Consumers : pc[c] = "account" /\ At(Current(c)).user = u}

AccountInv ==
  \A u \in Users :
     /\ AlertRowsOf(u) = account[u].total + torn[u] + Cardinality(AtAccount(u))
     /\ ~ account[u].medium => account[u].high = account[u].total

LEMMA AccountImplies == AccountInv => AccountsCountAlerts
BY DEF AccountInv, AccountsCountAlerts, AtAccount

LEMMA AccountInit == Init => AccountInv
<1> SUFFICES ASSUME Init, NEW u \in Users
             PROVE  /\ AlertRowsOf(u) = account[u].total + torn[u] + Cardinality(AtAccount(u))
                    /\ ~ account[u].medium => account[u].high = account[u].total
  BY DEF AccountInv
<1>1. \A x \in RowsOf(u) : alertRows[x] = 0
  BY RowsFinite DEF Init
<1>2. SumOf(alertRows, RowsOf(u)) = 0
  BY <1>1, RowsFinite, SumOfNone
<1>3. AlertRowsOf(u) = 0
  BY <1>2, AlertRowsAre
<1>4. AtAccount(u) = {}
  BY DEF Init, AtAccount
<1>5. Cardinality(AtAccount(u)) = 0
  BY <1>4, FS_EmptySet
<1>6. account[u].total = 0 /\ account[u].high = 0 /\ torn[u] = 0
  BY DEF Init, NoAccount
<1> QED
  BY <1>3, <1>5, <1>6

LEMMA AtAccountFinite ==
  ASSUME NEW u
  PROVE  IsFiniteSet(AtAccount(u)) /\ Cardinality(AtAccount(u)) \in Nat
<1>1. AtAccount(u) \in SUBSET Consumers /\ IsFiniteSet(Consumers)
  BY PersistenceAssumption DEF AtAccount, PersistenceAssumption
<1> QED
  BY <1>1, FS_Subset, FS_CardinalityType

(* Nothing that is counted changes.                                        *)
LEMMA AccountSame ==
  ASSUME AccountInv, UNCHANGED <<alertRows, account, torn>>, \A u \in Users : AtAccount(u)' = AtAccount(u)
  PROVE  AccountInv'
<1> SUFFICES ASSUME NEW u \in Users
             PROVE  /\ AlertRowsOf(u)' = account'[u].total + torn'[u] + Cardinality(AtAccount(u)')
                    /\ ~ account'[u].medium => account'[u].high = account'[u].total
  BY DEF AccountInv
<1>1. AlertRowsOf(u)' = AlertRowsOf(u)
  BY AlertRowsAre
<1> QED
  BY <1>1 DEF AccountInv

OthersSame(c) == \A d \in Consumers \ {c} : pc'[d] = pc[d] /\ Current(d)' = Current(d)

LEMMA Elsewhere ==
  ASSUME NEW c \in Consumers, OthersSame(c), pc[c] # "account", pc'[c] # "account", NEW u
  PROVE  AtAccount(u)' = AtAccount(u)
BY DEF OthersSame, AtAccount, At

LEMMA Joins ==
  ASSUME NEW c \in Consumers, OthersSame(c), pc[c] # "account", pc'[c] = "account", Current(c)' = Current(c), NEW u
  PROVE  Cardinality(AtAccount(u)') = Cardinality(AtAccount(u)) + (IF At(Current(c)).user = u THEN 1 ELSE 0)
<1>1. c \notin AtAccount(u)
  BY DEF AtAccount
<1>2. AtAccount(u)' = IF At(Current(c)).user = u THEN AtAccount(u) \cup {c} ELSE AtAccount(u)
  BY DEF OthersSame, AtAccount, At
<1>3. Cardinality(AtAccount(u) \cup {c}) = Cardinality(AtAccount(u)) + 1
  BY <1>1, AtAccountFinite, FS_AddElement
<1> QED
  BY <1>2, <1>3, AtAccountFinite

LEMMA Leaves ==
  ASSUME NEW c \in Consumers, OthersSame(c), pc[c] = "account", pc'[c] # "account", NEW u
  PROVE  Cardinality(AtAccount(u)) = Cardinality(AtAccount(u)') + (IF At(Current(c)).user = u THEN 1 ELSE 0)
<1>1. c \notin AtAccount(u)'
  BY DEF AtAccount
<1>2. AtAccount(u) = IF At(Current(c)).user = u THEN AtAccount(u)' \cup {c} ELSE AtAccount(u)'
  BY DEF OthersSame, AtAccount, At
<1>3. AtAccount(u)' \in SUBSET Consumers /\ IsFiniteSet(Consumers)
  BY PersistenceAssumption DEF AtAccount, PersistenceAssumption
<1>4. IsFiniteSet(AtAccount(u)') /\ Cardinality(AtAccount(u)') \in Nat
  BY <1>3, FS_Subset, FS_CardinalityType
<1>5. Cardinality(AtAccount(u)' \cup {c}) = Cardinality(AtAccount(u)') + 1
  BY <1>1, <1>4, FS_AddElement
<1> QED
  BY <1>2, <1>4, <1>5

(* A step changes neither rows nor accounts, nor who is about to update    *)
(* one.                                                                    *)
LEMMA AccountQuiet ==
  ASSUME AccountInv, UNCHANGED <<alertRows, account, torn>>, NEW c \in Consumers, OthersSame(c),
         pc[c] # "account", pc'[c] # "account"
  PROVE  AccountInv'
<1>1. \A u \in Users : AtAccount(u)' = AtAccount(u)
  BY Elsewhere
<1> QED
  BY <1>1, AccountSame

LEMMA AccountAway ==
  ASSUME ProcessInv, AccountInv, NEW c \in Consumers,
         \/ Start(c) \/ TimerFires(c) \/ StopRunning(c) \/ Close(c)
         \/ \E p \in Partitions : Poll(c, p)
         \/ InsertRows(c) \/ RejectResult(c) \/ InsertResult(c) \/ AuditAlert(c)
  PROVE  AccountInv'
<1> USE DEF Start, TimerFires, StopRunning, Close, Poll, InsertRows, RejectResult, InsertResult, AuditAlert
<1>1. pc[c] # "account"
  BY DEF WritingResult
<1>2. UNCHANGED <<alertRows, account, torn>>
  BY DEF tableVars, ghostVars
<1>3. /\ pc'[c] # "account"
      /\ \A d \in Consumers \ {c} : pc'[d] = pc[d] /\ todo'[d] = todo[d]
  BY <1>1 DEF FinalBatch, StartBatch, Finish, Goto, ProcessInv
<1>4. OthersSame(c)
  BY <1>3 DEF OthersSame, Current
<1> QED
  BY <1>1, <1>2, <1>3, <1>4, AccountQuiet

(* An alert's row: its account comes next, unless the call failed.         *)
LEMMA AccountRow ==
  ASSUME ProcessInv, TableInv, AccountInv, NEW c \in Consumers, InsertAlert(c)
  PROVE  AccountInv'
<1>1. todo[c] # <<>> /\ Current(c) \in LogItems /\ pc[c] = "alert" /\ pc[c] # "account"
  BY CurrentType DEF InsertAlert, ProcessInv
<1>2. \A d \in Consumers \ {c} : pc'[d] = pc[d] /\ todo'[d] = todo[d]
  BY DEF InsertAlert, Finish, Goto, ProcessInv
<1>3. OthersSame(c)
  BY <1>2 DEF OthersSame, Current
<1>4. UNCHANGED <<account, torn>>
  BY DEF InsertAlert
<1>5. CASE UNCHANGED alertRows /\ Finish(c, 1)
  <2>1. pc'[c] # "account"
    BY <1>5 DEF Finish, Goto, ProcessInv
  <2> QED
    BY <1>1, <1>3, <1>4, <1>5, <2>1, AccountQuiet
<1>6. CASE alertRows' = [alertRows EXCEPT ![Current(c)] = @ + 1] /\ Goto(c, "account") /\ UNCHANGED <<todo, batch>>
  <2>1. pc'[c] = "account" /\ Current(c)' = Current(c)
    BY <1>6 DEF Goto, Current, ProcessInv
  <2>2. PICK y \in LogItems : y = Current(c)
    BY <1>1
  <2>3. alertRows' = [alertRows EXCEPT ![y] = @ + 1] /\ alertRows \in [LogItems -> Nat]
    BY <1>6, <2>2 DEF TableInv
  <2> SUFFICES ASSUME NEW u \in Users
               PROVE  /\ AlertRowsOf(u)' = account'[u].total + torn'[u] + Cardinality(AtAccount(u)')
                      /\ ~ account'[u].medium => account'[u].high = account'[u].total
    BY DEF AccountInv
  <2> DEFINE one == IF At(y).user = u THEN 1 ELSE 0
  <2>4. Cardinality(AtAccount(u)') = Cardinality(AtAccount(u)) + one
    BY <1>1, <1>3, <2>1, <2>2, Joins
  <2>5. IsFiniteSet(RowsOf(u)) /\ RowsOf(u) \subseteq LogItems /\ (y \in RowsOf(u) <=> At(y).user = u)
    BY RowsFinite DEF RowsOf
  <2>6. SumOf(alertRows', RowsOf(u)) = SumOf(alertRows, RowsOf(u)) + one /\ SumOf(alertRows, RowsOf(u)) \in Nat
    <3>1. PICK k : k = alertRows'
      OBVIOUS
    <3>2. PICK m \in [LogItems -> Nat] : m = alertRows
      BY <2>3
    <3>3. k = [m EXCEPT ![y] = @ + 1]
      BY <2>3, <3>1, <3>2
    <3>4. PICK S : S = RowsOf(u)
      OBVIOUS
    <3>5. IsFiniteSet(S)
      BY <2>5, <3>4
    <3>6. S \subseteq LogItems
      BY <2>5, <3>4
    <3>7. SumOf(m, S) \in Nat /\ SumOf(k, S) = SumOf(m, S) + (IF y \in S THEN 1 ELSE 0)
      BY <3>3, <3>5, <3>6, SumGrows
    <3> QED
      BY <2>5, <3>1, <3>2, <3>4, <3>7
  <2>7. AlertRowsOf(u)' = AlertRowsOf(u) + one /\ AlertRowsOf(u) \in Nat
    BY <2>6, AlertRowsAre
  <2>8. /\ AlertRowsOf(u) = account[u].total + torn[u] + Cardinality(AtAccount(u))
        /\ ~ account[u].medium => account[u].high = account[u].total
    BY DEF AccountInv
  <2>9. account[u].total \in Nat /\ torn[u] \in Nat /\ Cardinality(AtAccount(u)) \in Nat /\ one \in Nat
    BY AtAccountFinite DEF TableInv, Account
  <2> HIDE DEF one
  <2> QED
    BY <1>4, <2>4, <2>7, <2>8, <2>9
<1> QED
  BY <1>5, <1>6 DEF InsertAlert

(* A process that has updated an account, or will not, counts for it as    *)
(* the account or the torn row does from then on.                          *)
LEMMA AccountGoesOn ==
  ASSUME ProcessInv, TableInv, AccountInv, NEW c \in Consumers, pc[c] = "account", pc'[c] # "account",
         OthersSame(c), UNCHANGED alertRows, NEW u \in Users,
         account'[u].total \in Nat, torn'[u] \in Nat,
         account'[u].total + torn'[u] = account[u].total + torn[u] + (IF At(Current(c)).user = u THEN 1 ELSE 0)
  PROVE  AlertRowsOf(u)' = account'[u].total + torn'[u] + Cardinality(AtAccount(u)')
<1> DEFINE one == IF At(Current(c)).user = u THEN 1 ELSE 0
<1>1. Cardinality(AtAccount(u)) = Cardinality(AtAccount(u)') + one
  BY Leaves
<1>2. AlertRowsOf(u)' = AlertRowsOf(u)
  BY AlertRowsAre
<1>3. AlertRowsOf(u) = account[u].total + torn[u] + Cardinality(AtAccount(u))
  BY DEF AccountInv
<1>4. account[u].total \in Nat /\ torn[u] \in Nat /\ one \in Nat
  BY DEF TableInv, Account
<1>5. Cardinality(AtAccount(u)') \in Nat
  <2>1. AtAccount(u)' \in SUBSET Consumers /\ IsFiniteSet(Consumers)
    BY PersistenceAssumption DEF AtAccount, PersistenceAssumption
  <2> QED
    BY <2>1, FS_Subset, FS_CardinalityType
<1>6. account'[u].total + torn'[u] = account[u].total + torn[u] + one
  OBVIOUS
<1> HIDE DEF one
<1> QED
  BY <1>1, <1>2, <1>3, <1>4, <1>5, <1>6

LEMMA AccountUpdate ==
  ASSUME ProcessInv, TableInv, AccountInv, NEW c \in Consumers, UpsertAccount(c)
  PROVE  AccountInv'
<1>1. /\ todo[c] # <<>> /\ Current(c) \in LogItems /\ pc[c] = "account"
      /\ At(Current(c)).severity \in {"medium", "high"} /\ At(Current(c)).user \in Users
  <2>1. todo[c] # <<>> /\ IsAlert(Current(c)) /\ pc[c] = "account"
    BY DEF UpsertAccount, ProcessInv
  <2>2. Current(c) \in LogItems
    BY <2>1, CurrentType
  <2>3. At(Current(c)) \in Item
    BY <2>2, LogItemIs
  <2> QED
    BY <2>1, <2>2, <2>3 DEF IsAlert, Item
<1>2. \A d \in Consumers \ {c} : pc'[d] = pc[d] /\ todo'[d] = todo[d]
  BY DEF UpsertAccount, Finish, Goto, ProcessInv
<1>3. OthersSame(c) /\ pc'[c] # "account" /\ UNCHANGED alertRows
  <2>1. pc'[c] # "account" /\ UNCHANGED alertRows
    BY DEF UpsertAccount, Finish, Goto, ProcessInv
  <2> QED
    BY <1>2, <2>1 DEF OthersSame, Current
<1>4. PICK m \in Item : m = At(Current(c))
  BY <1>1, LogItemIs
<1>5. m.user \in Users /\ m.severity \in {"medium", "high"}
  BY <1>1, <1>4
<1>6. \/ account' = [account EXCEPT ![m.user] = UpsertedAccount(@, m.severity)] /\ UNCHANGED torn
      \/ torn' = [torn EXCEPT ![m.user] = @ + 1] /\ UNCHANGED account
  BY <1>4 DEF UpsertAccount
<1> SUFFICES ASSUME NEW u \in Users
             PROVE  /\ AlertRowsOf(u)' = account'[u].total + torn'[u] + Cardinality(AtAccount(u)')
                    /\ ~ account'[u].medium => account'[u].high = account'[u].total
  BY DEF AccountInv
<1>7. account[u] \in Account /\ torn[u] \in Nat /\ (~ account[u].medium => account[u].high = account[u].total)
  BY DEF TableInv, AccountInv
<1> DEFINE one == IF m.user = u THEN 1 ELSE 0
<1>8. /\ account'[u].total \in Nat /\ torn'[u] \in Nat
      /\ account'[u].total + torn'[u] = account[u].total + torn[u] + one
      /\ ~ account'[u].medium => account'[u].high = account'[u].total
  <2>1. CASE account' = [account EXCEPT ![m.user] = UpsertedAccount(@, m.severity)] /\ UNCHANGED torn
    <3>1. account'[u] = IF m.user = u THEN UpsertedAccount(account[u], m.severity) ELSE account[u]
      BY <1>5, <2>1 DEF TableInv
    <3>2. CASE m.user = u
      <4>1. account'[u] = UpsertedAccount(account[u], m.severity)
        BY <3>1, <3>2
      <4>2. account'[u].total = account[u].total + 1
        BY <4>1 DEF UpsertedAccount
      <4>3. ~ account'[u].medium => ~ account[u].medium /\ account'[u].high = account[u].high + 1
        <5>1. CASE m.severity = "medium"
          <6>1. account'[u].medium = (account[u].medium \/ m.severity = "medium")
            BY <4>1 DEF UpsertedAccount
          <6> QED
            BY <5>1, <6>1
        <5>2. CASE m.severity = "high"
          <6>1. account'[u].high = account[u].high + 1
            BY <4>1, <5>2 DEF UpsertedAccount
          <6>2. account'[u].medium = (account[u].medium \/ m.severity = "medium")
            BY <4>1 DEF UpsertedAccount
          <6> QED
            BY <5>2, <6>1, <6>2
        <5> QED
          BY <1>5, <5>1, <5>2
      <4>4. account[u].total \in Nat /\ account[u].high \in Nat
        BY <1>7 DEF Account
      <4> QED
        BY <1>7, <2>1, <3>2, <4>2, <4>3, <4>4
    <3>3. CASE m.user # u
      BY <1>7, <2>1, <3>1, <3>3 DEF Account
    <3> QED
      BY <3>2, <3>3
  <2>2. CASE torn' = [torn EXCEPT ![m.user] = @ + 1] /\ UNCHANGED account
    <3>1. torn'[u] = torn[u] + one
      BY <1>7, <2>2 DEF TableInv
    <3> QED
      BY <1>7, <2>2, <3>1 DEF Account
  <2> QED
    BY <1>6, <2>1, <2>2
<1>9. one = IF At(Current(c)).user = u THEN 1 ELSE 0
  BY <1>4
<1> QED
  BY <1>1, <1>3, <1>8, <1>9, AccountGoesOn

LEMMA AccountCrash ==
  ASSUME ProcessInv, TableInv, AccountInv, NEW c \in Consumers, Crash(c)
  PROVE  AccountInv'
<1>1. \A d \in Consumers \ {c} : pc'[d] = pc[d] /\ todo'[d] = todo[d]
  BY DEF Crash, Goto, ProcessInv
<1>2. pc'[c] = "down" /\ pc'[c] # "account" /\ UNCHANGED <<alertRows, account>>
  BY DEF Crash, Goto, ProcessInv, tableVars
<1>3. OthersSame(c)
  BY <1>1 DEF OthersSame, Current
<1>4. CASE pc[c] # "account"
  <2>1. UNCHANGED torn
    BY <1>4 DEF Crash
  <2> QED
    BY <1>2, <1>3, <1>4, <2>1, AccountQuiet
<1>5. CASE pc[c] = "account"
  <2>1. torn' = [torn EXCEPT ![At(Current(c)).user] = @ + 1]
    BY <1>5 DEF Crash
  <2> SUFFICES ASSUME NEW u \in Users
               PROVE  /\ AlertRowsOf(u)' = account'[u].total + torn'[u] + Cardinality(AtAccount(u)')
                      /\ ~ account'[u].medium => account'[u].high = account'[u].total
    BY DEF AccountInv
  <2>2. torn[u] \in Nat /\ account[u].total \in Nat
    BY DEF TableInv, Account
  <2>3. torn'[u] = torn[u] + (IF At(Current(c)).user = u THEN 1 ELSE 0)
    BY <2>1, <2>2 DEF TableInv
  <2>4. /\ account'[u].total \in Nat /\ torn'[u] \in Nat
        /\ account'[u].total + torn'[u] = account[u].total + torn[u] + (IF At(Current(c)).user = u THEN 1 ELSE 0)
    BY <1>2, <2>2, <2>3
  <2>5. AlertRowsOf(u)' = account'[u].total + torn'[u] + Cardinality(AtAccount(u)')
    BY <1>2, <1>3, <1>5, <2>4, AccountGoesOn
  <2> QED
    BY <1>2, <2>5 DEF AccountInv
<1> QED
  BY <1>4, <1>5

LEMMA AccountNext == TypeInv /\ AccountInv /\ [Next]_vars => AccountInv'
<1> SUFFICES ASSUME TypeInv, AccountInv, [Next]_vars PROVE AccountInv'
  OBVIOUS
<1>0. ProcessInv /\ TableInv
  BY DEF TypeInv
<1>1. CASE Group \/ ReadLetters \/ DisturbReader \/ UNCHANGED vars \/ \E c \in Consumers, p \in Partitions : AutoCommit(c, p)
  <2>1. UNCHANGED <<pc, todo, alertRows, account, torn>>
    BY <1>1 DEF Group, ReadLetters, DisturbReader, AutoCommit, vars, localVars, processVars, tableVars, ghostVars
  <2>2. \A u \in Users : AtAccount(u)' = AtAccount(u)
    BY <2>1 DEF AtAccount, At, Current
  <2> QED
    BY <2>1, <2>2, AccountSame
<1>2. CASE \E c \in Consumers : \/ Start(c) \/ TimerFires(c) \/ StopRunning(c) \/ Close(c)
                                \/ \E p \in Partitions : Poll(c, p)
                                \/ InsertRows(c) \/ RejectResult(c) \/ InsertResult(c) \/ AuditAlert(c)
  BY <1>0, <1>2, AccountAway
<1>3. CASE \E c \in Consumers : InsertAlert(c) \/ UpsertAccount(c) \/ Crash(c)
  BY <1>0, <1>3, AccountRow, AccountUpdate, AccountCrash
<1> QED
  BY <1>1, <1>2, <1>3 DEF Next, WriteBatch

(* Every account counts the alert rows of its user, those excepted that a  *)
(* failing call or a kill cut off from it and those whose account comes    *)
(* next (update_user_account after insert_fraud_alert).                    *)
THEOREM AccountsAreCounted == Spec => []AccountsCountAlerts
BY TypeInit, TypeNext, AccountInit, AccountNext, AccountImplies, PTL DEF Spec
=============================================================================
