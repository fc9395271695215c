------------------------- MODULE Standalone_proofs --------------------------
(***************************************************************************)
(* The parts that stand alone.  The enhanced detector: every count of a    *)
(* profile, for every topic, cache size and number of failures.  The       *)
(* scoring: whose score a message is given, for every batch size, every    *)
(* number of messages, whatever the rules see in them.  The producer: its  *)
(* counts, for every number of workers, every total, batch and queue size. *)
(* The test orchestrator: the order in which services are started and what *)
(* is left of them, for every set of services and of dependencies.         *)
(***************************************************************************)
EXTENDS EnhancedDetector, Scorer, Producer, Services, FiniteSetTheorems, TLAPS

-----------------------------------------------------------------------------
(* The enhanced detector.                                                  *)

-----------------------------------------------------------------------------
(* The cache of profiles: a list with at most one entry for each user.     *)
Entry == [user: Users, count: Nat]
UsersIn(q) == {q[i].user : i \in DOMAIN q}
CountIn(q, u) == q[CHOOSE i \in DOMAIN q : q[i].user = u].count
OneEach(q) == q \in Seq(Entry) /\ \A i, j \in DOMAIN q : q[i].user = q[j].user => i = j

LEMMA CountOfEntry ==
    ASSUME NEW q, OneEach(q), NEW i \in DOMAIN q
    PROVE  /\ q[i] \in Entry /\ q[i].user \in UsersIn(q) \cap Users
           /\ CountIn(q, q[i].user) = q[i].count /\ q[i].count \in Nat
<1>1. q[i] \in Entry
  BY DEF OneEach
<1>2. (CHOOSE j \in DOMAIN q : q[j].user = q[i].user) = i
  BY DEF OneEach
<1> QED
  BY <1>1, <1>2 DEF CountIn, UsersIn, Entry

LEMMA EntryOf ==
    ASSUME NEW q, OneEach(q), NEW u \in UsersIn(q)
    PROVE  /\ u \in Users /\ CountIn(q, u) \in Nat
           /\ \E i \in DOMAIN q : q[i].user = u /\ q[i].count = CountIn(q, u)
<1>1. PICK i \in DOMAIN q : q[i].user = u
  BY DEF UsersIn
<1> QED
  BY <1>1, CountOfEntry

(* To know the entries is to know the counts.                              *)
LEMMA CountsOfEntries ==
    ASSUME NEW q, OneEach(q), NEW r, OneEach(r), NEW u \in UsersIn(r),
           \A i \in DOMAIN r : r[i].user = u => \E j \in DOMAIN q : q[j] = r[i]
    PROVE  u \in UsersIn(q) /\ CountIn(r, u) = CountIn(q, u)
<1>1. PICK i \in DOMAIN r : r[i].user = u /\ r[i].count = CountIn(r, u)
  BY EntryOf
<1>2. PICK j \in DOMAIN q : q[j] = r[i]
  BY <1>1
<1> QED
  BY <1>1, <1>2, CountOfEntry

LEMMA NothingCached == OneEach(<<>>) /\ UsersIn(<<>>) = {}
BY DEF OneEach, UsersIn

\* r is q with an entry more, or with one count more; o and r are q's first k entries and
\* the others.
Adds(r, q, u, n) == n \in Nat /\ r = Append(q, [user |-> u, count |-> n])
Increments(r, q, u) ==
    r = [i \in DOMAIN q |-> IF q[i].user = u THEN [q[i] EXCEPT !.count = @ + 1] ELSE q[i]]
Splits(q, k, o, r) == k \in 0 .. Len(q) /\ o = SubSeq(q, 1, k) /\ r = SubSeq(q, k + 1, Len(q))

LEMMA EntryAdded ==
    ASSUME NEW q, OneEach(q), NEW u \in Users, u \notin UsersIn(q), NEW n, NEW r, Adds(r, q, u, n)
    PROVE  /\ OneEach(r) /\ UsersIn(r) = UsersIn(q) \cup {u} /\ CountIn(r, u) = n
           /\ \A v \in UsersIn(q) : CountIn(r, v) = CountIn(q, v)
<1>1. /\ r \in Seq(Entry) /\ Len(q) \in Nat /\ DOMAIN q = 1 .. Len(q) /\ DOMAIN r = 1 .. Len(q) + 1
      /\ r[Len(q) + 1].user = u /\ r[Len(q) + 1].count = n
      /\ \A i \in 1 .. Len(q) : r[i] = q[i]
  BY DEF OneEach, Entry, Adds
<1>2. OneEach(r)
  <2> SUFFICES ASSUME NEW i \in DOMAIN r, NEW j \in DOMAIN r, r[i].user = r[j].user PROVE i = j
    BY <1>1 DEF OneEach
  <2>1. CASE i \in DOMAIN q /\ j \in DOMAIN q
    BY <1>1, <2>1 DEF OneEach
  <2>2. CASE i \notin DOMAIN q \/ j \notin DOMAIN q
    <3>1. \A k \in DOMAIN q : r[k].user # u
      BY <1>1 DEF UsersIn
    <3> QED
      BY <1>1, <2>2, <3>1
  <2> QED
    BY <2>1, <2>2
<1>3. UsersIn(r) = UsersIn(q) \cup {u}
  <2>1. UsersIn(r) \subseteq UsersIn(q) \cup {u}
    BY <1>1 DEF UsersIn
  <2>2. UsersIn(q) \cup {u} \subseteq UsersIn(r)
    <3>1. Len(q) + 1 \in DOMAIN r /\ \A i \in DOMAIN q : i \in DOMAIN r
      BY <1>1
    <3> QED
      BY <1>1, <3>1 DEF UsersIn
  <2> QED
    BY <2>1, <2>2
<1>4. CountIn(r, u) = n
  <2>1. PICK i \in DOMAIN r : r[i].user = u /\ r[i].count = n
    BY <1>1
  <2> QED
    BY <1>2, <2>1, CountOfEntry
<1>5. ASSUME NEW v \in UsersIn(q) PROVE CountIn(r, v) = CountIn(q, v)
  <2>1. PICK i \in DOMAIN q : q[i].user = v /\ q[i].count = CountIn(q, v)
    BY EntryOf
  <2>2. i \in DOMAIN r /\ r[i] = q[i]
    BY <1>1
  <2> QED
    BY <1>2, <2>1, <2>2, CountOfEntry
<1> QED
  BY <1>2, <1>3, <1>4, <1>5

LEMMA EntryCounted ==
    ASSUME NEW q, OneEach(q), NEW u \in UsersIn(q), NEW r, Increments(r, q, u)
    PROVE  /\ OneEach(r) /\ UsersIn(r) = UsersIn(q) /\ CountIn(r, u) = CountIn(q, u) + 1
           /\ \A v \in UsersIn(q) \ {u} : CountIn(r, v) = CountIn(q, v)
<1>1. DOMAIN r = DOMAIN q /\ DOMAIN q = 1 .. Len(q) /\ Len(q) \in Nat
  BY DEF OneEach, Increments
<1>2. ASSUME NEW i \in DOMAIN q
      PROVE  /\ r[i] \in Entry /\ r[i].user = q[i].user
             /\ r[i].count = IF q[i].user = u THEN q[i].count + 1 ELSE q[i].count
  <2>1. r[i] = IF q[i].user = u THEN [q[i] EXCEPT !.count = @ + 1] ELSE q[i]
    BY DEF Increments
  <2> QED
    BY <2>1, CountOfEntry DEF Entry
<1>3. r \in Seq(Entry)
  <2>1. r = [i \in 1 .. Len(q) |-> r[i]]
    BY <1>1 DEF Increments
  <2> QED
    BY <1>1, <1>2, <2>1
<1>4. OneEach(r)
  BY <1>1, <1>2, <1>3 DEF OneEach
<1>5. UsersIn(r) = UsersIn(q)
  BY <1>1, <1>2 DEF UsersIn
<1>6. ASSUME NEW v \in UsersIn(q)
      PROVE  CountIn(r, v) = IF v = u THEN CountIn(q, v) + 1 ELSE CountIn(q, v)
  <2>1. PICK i \in DOMAIN q : q[i].user = v /\ q[i].count = CountIn(q, v)
    BY EntryOf
  <2>2. CountIn(r, r[i].user) = r[i].count
    BY <1>1, <1>4, CountOfEntry
  <2> QED
    BY <1>2, <2>1, <2>2
<1> QED
  BY <1>4, <1>5, <1>6

LEMMA OldestAndRest ==
    ASSUME NEW q, OneEach(q), NEW k, NEW o, NEW r, Splits(q, k, o, r)
    PROVE  /\ OneEach(o) /\ OneEach(r) /\ UsersIn(q) = UsersIn(o) \cup UsersIn(r)
           /\ UsersIn(o) \cap UsersIn(r) = {}
           /\ \A v \in UsersIn(r) : CountIn(r, v) = CountIn(q, v)
<1>1. /\ q \in Seq(Entry) /\ Len(q) \in Nat /\ DOMAIN q = 1 .. Len(q)
      /\ k \in 0 .. Len(q) /\ o = SubSeq(q, 1, k) /\ r = SubSeq(q, k + 1, Len(q))
  BY DEF OneEach, Splits
<1>2. /\ o \in Seq(Entry) /\ DOMAIN o = 1 .. k /\ \A i \in 1 .. k : o[i] = q[i]
  BY <1>1
<1>3. /\ r \in Seq(Entry) /\ DOMAIN r = 1 .. Len(q) - k /\ \A i \in 1 .. Len(q) - k : r[i] = q[k + i]
  BY <1>1
<1>4. OneEach(o)
  BY <1>1, <1>2 DEF OneEach
<1>5. OneEach(r)
  <2> SUFFICES ASSUME NEW i \in DOMAIN r, NEW j \in DOMAIN r, r[i].user = r[j].user PROVE i = j
    BY <1>3 DEF OneEach
  <2>0. i \in 1 .. Len(q) - k /\ j \in 1 .. Len(q) - k
    BY <1>3
  <2>1. k + i \in DOMAIN q /\ k + j \in DOMAIN q /\ r[i] = q[k + i] /\ r[j] = q[k + j]
    <3>1. k + i \in 1 .. Len(q) /\ k + j \in 1 .. Len(q)
      BY <1>1, <2>0
    <3> QED
      BY <1>1, <1>3, <2>0, <3>1
  <2>2. k + i = k + j
    BY <2>1 DEF OneEach
  <2> QED
    BY <1>1, <2>0, <2>2
<1>6. UsersIn(q) = UsersIn(o) \cup UsersIn(r)
  <2>1. ASSUME NEW i \in DOMAIN q PROVE q[i].user \in UsersIn(o) \cup UsersIn(r)
    <3>1. CASE i <= k
      BY <1>1, <1>2, <3>1 DEF UsersIn
    <3>2. CASE i > k
      <4>1. i - k \in DOMAIN r /\ r[i - k] = q[i]
        BY <1>1, <1>3, <3>2
      <4> QED
        BY <4>1 DEF UsersIn
    <3> QED
      BY <1>1, <3>1, <3>2
  <2>2. \A i \in DOMAIN o : i \in DOMAIN q /\ o[i] = q[i]
    BY <1>1, <1>2
  <2>3. \A i \in DOMAIN r : k + i \in DOMAIN q /\ r[i] = q[k + i]
    BY <1>1, <1>3
  <2>4. UsersIn(q) \subseteq UsersIn(o) \cup UsersIn(r)
    BY <2>1 DEF UsersIn
  <2>5. UsersIn(o) \subseteq UsersIn(q) /\ UsersIn(r) \subseteq UsersIn(q)
    BY <2>2, <2>3 DEF UsersIn
  <2> QED
    BY <2>4, <2>5
<1>7. UsersIn(o) \cap UsersIn(r) = {}
  <2> SUFFICES ASSUME NEW i \in DOMAIN o, NEW j \in DOMAIN r, o[i].user = r[j].user PROVE FALSE
    BY DEF UsersIn
  <2>1. i \in DOMAIN q /\ k + j \in DOMAIN q /\ o[i] = q[i] /\ r[j] = q[k + j] /\ i # k + j
    BY <1>1, <1>2, <1>3
  <2> QED
    BY <2>1 DEF OneEach
<1>8. ASSUME NEW v \in UsersIn(r) PROVE CountIn(r, v) = CountIn(q, v)
  <2>1. \A i \in DOMAIN r : k + i \in DOMAIN q /\ q[k + i] = r[i]
    BY <1>1, <1>3
  <2>2. \A i \in DOMAIN r : \E j \in DOMAIN q : q[j] = r[i]
    BY <2>1
  <2> QED
    BY <1>5, <2>2, CountsOfEntries
<1> QED
  BY <1>4, <1>5, <1>6, <1>7, <1>8

-----------------------------------------------------------------------------
(* The loop and its place in the topic.                                    *)
Busy == {"profile", "score", "update", "result"}

PlaceInv ==
    /\ position \in Nat \ {0} /\ message \in Messages \cup {0} /\ DOMAIN fate = Messages
    /\ \A m \in Messages : m >= position => fate[m] = "waiting"
    /\ message # 0 => message < position
    /\ epc \in Busy => message # 0 /\ fate[message] = "waiting"

LEMMA MessagesAre == Messages = 1 .. Len(Log) /\ Len(Log) \in Nat /\ 0 \notin Messages
                     /\ \A m \in Messages : Log[m].user \in Users
<1> DEFINE S == [user: Users, kind: {"transaction", "bad_json"}, verdicts: SUBSET {"fair", "fraud"}]
<1>1. Log \in Seq(S)
  BY EnhancedAssumption
<1>2. Messages = 1 .. Len(Log) /\ Len(Log) \in Nat
  BY <1>1 DEF Messages
<1>3. \A m \in 1 .. Len(Log) : Log[m] \in S
  <2> HIDE DEF S
  <2> QED
    BY <1>1
<1>4. \A m \in 1 .. Len(Log) : Log[m].user \in Users
  BY <1>3
<1> QED
  BY <1>2, <1>4

LEMMA PlaceInit == EInit => PlaceInv
BY DEF EInit, PlaceInv, Busy

LEMMA Beyond ==
    ASSUME NEW m \in Nat, NEW p \in Nat, NEW q \in Nat, q >= p, m >= q
    PROVE  m >= p /\ m \notin p .. q - 1
OBVIOUS

LEMMA PlaceNext ==
    ASSUME PlaceInv, [ENext]_evars
    PROVE  PlaceInv'
<1> USE MessagesAre DEF PlaceInv, Busy
<1>1. CASE EStart
  <2>1. /\ epc' = "poll" /\ UNCHANGED message
        /\ position' = position \/ position' \in position .. Len(Log) + 1
        /\ fate' = [m \in Messages |-> IF m \in position .. position' - 1 THEN "skipped" ELSE fate[m]]
    BY <1>1 DEF EStart
  <2>2. position' \in Nat \ {0} /\ position' >= position
    BY <2>1
  <2>3. ASSUME NEW m \in Messages, m >= position' PROVE fate'[m] = "waiting"
    <3>0. m \in Nat /\ position \in Nat /\ position' \in Nat
      BY <2>2
    <3>1. m >= position /\ m \notin position .. position' - 1
      BY <2>2, <2>3, <3>0, Beyond
    <3>2. fate'[m] = fate[m]
      BY <2>1, <3>1
    <3> QED
      BY <3>1, <3>2
  <2>4. message' # 0 => message' < position'
    BY <2>1, <2>2
  <2> QED
    BY <2>1, <2>2, <2>3, <2>4
<1>2. CASE Poll
  BY <1>2 DEF Poll
<1>3. CASE GetUserProfile
  BY <1>3 DEF GetUserProfile, GiveUp
<1>4. CASE Score
  BY <1>4 DEF Score
<1>5. CASE UpdateAndSample
  BY <1>5 DEF UpdateAndSample, GiveUp
<1>6. CASE HandleResult
  BY <1>6 DEF HandleResult
<1>7. CASE PeriodicTasks
  BY <1>7 DEF PeriodicTasks
<1>8. CASE CleanUp
  BY <1>8 DEF CleanUp
<1>9. CASE ECrash
  BY <1>9 DEF ECrash
<1>10. CASE Demo
  BY <1>10 DEF Demo
<1>11. CASE epc = "poll" /\ HourPasses /\ UNCHANGED <<epc, position, message, verdict, cached, stored,
                predictions, model, alerts, fate, excused, faults, bounds>>
  BY <1>11
<1>12. ASSUME NEW u \in Users, Expire(u) \/ OtherDetector(u) PROVE PlaceInv'
  BY <1>12 DEF Expire, OtherDetector
<1>13. CASE UNCHANGED evars
  BY <1>13 DEF evars
<1> QED
  BY <1>1, <1>2, <1>3, <1>4, <1>5, <1>6, <1>7, <1>8, <1>9, <1>10, <1>11, <1>12, <1>13 DEF ENext

-----------------------------------------------------------------------------
(* The counts.  While a user is cached its entry has the count, and what   *)
(* Redis has is not ahead of it; then Redis has it.  Between               *)
(* _update_user_profile and the result, Redis is one behind at least: the  *)
(* transaction that a crash would now undo is not there yet.               *)
InRedis(u) == IF stored[u].type = "string" THEN stored[u].count ELSE 0
Profile(u) == IF u \in UsersIn(cached) THEN CountIn(cached, u) ELSE InRedis(u)

NotAhead(u) ==
    InRedis(u) + (IF epc = "result" /\ u = User THEN 1 ELSE 0) <= CountIn(cached, u)

Right(u) ==
    /\ Profile(u) <= Counting(u)
    /\ u \notin excused => Profile(u) = Counting(u)

CountsInv ==
    /\ OneEach(cached)
    /\ stored \in [Users -> [type: {"none", "string", "hash"}, count: Nat]]
    /\ epc \in {"score", "update", "result"} => User \in UsersIn(cached)
    /\ epc \in {"off", "demo"} => cached = <<>>
    /\ \A u \in UsersIn(cached) : NotAhead(u)
    /\ \A u \in Users : Right(u)

Fates == {"handled", "refused", "no_sample"}
Counted1(u) == {m \in Messages : /\ Log[m].user = u
                                 /\ fate[m] \in Fates \/ (epc = "result" /\ m = message)}

LEMMA CountingIs ==
    ASSUME NEW u
    PROVE  Counting(u) = Cardinality(Counted1(u)) /\ IsFiniteSet(Counted1(u)) /\ Counting(u) \in Nat
<1>1. IsFiniteSet(Messages)
  BY MessagesAre, FS_Interval
<1>2. IsFiniteSet(Counted1(u))
  BY <1>1, FS_Subset DEF Counted1
<1>3. Counting(u) = Cardinality(Counted1(u))
  BY DEF Counting, Counted1, Fates
<1> QED
  BY <1>2, <1>3, FS_CardinalityType

LEMMA CountingSame ==
    ASSUME NEW u, Counted1(u)' = Counted1(u)
    PROVE  Counting(u)' = Counting(u)
<1>1. Counting(u) = Cardinality(Counted1(u))
  BY CountingIs
<1>2. Counting(u)' = Cardinality(Counted1(u)')
  BY DEF Counting, Counted1, Fates
<1> QED
  BY <1>1, <1>2

(* What becomes of a message that was not counted leaves the counts alone. *)
LEMMA CountingIdle ==
    ASSUME epc # "result", epc' # "result", NEW u,
           \A m \in Messages : fate'[m] = fate[m] \/ {fate[m], fate'[m]} \cap Fates = {}
    PROVE  Counting(u)' = Counting(u)
<1>1. Counted1(u)' = Counted1(u)
  BY DEF Counted1
<1> QED
  BY <1>1, CountingSame

LEMMA ProfileType ==
    ASSUME CountsInv, NEW u \in Users
    PROVE  InRedis(u) \in Nat /\ Profile(u) \in Nat
<1>1. InRedis(u) \in Nat
  BY DEF CountsInv, InRedis
<1> QED
  BY <1>1, EntryOf DEF CountsInv, Profile

LEMMA CountsInit == EInit => CountsInv
<1> SUFFICES ASSUME EInit PROVE CountsInv
  OBVIOUS
<1> USE DEF EInit
<1>1. OneEach(cached) /\ UsersIn(cached) = {}
  BY NothingCached
<1>2. stored \in [Users -> [type: {"none", "string", "hash"}, count: Nat]]
  BY DEF Absent
<1>3. ASSUME NEW u \in Users PROVE Right(u)
  <2>1. Counted1(u) = {}
    BY DEF Counted1, Fates
  <2>2. Counting(u) = 0
    BY <2>1, CountingIs, FS_EmptySet
  <2>3. Profile(u) = 0
    BY <1>1 DEF Profile, InRedis, Absent
  <2> QED
    BY <2>2, <2>3 DEF Right
<1> QED
  BY <1>1, <1>2, <1>3 DEF CountsInv

(* A step that leaves the profiles alone.                                  *)
LEMMA CountsIdle ==
    ASSUME CountsInv, UNCHANGED <<cached, stored>>, excused \subseteq excused',
           epc' # "result",
           epc' \in {"score", "update"} => User' \in UsersIn(cached),
           epc' \in {"off", "demo"} => epc \in {"off", "demo"},
           \A u \in Users : Counting(u)' = Counting(u)
    PROVE  CountsInv'
<1>1. ASSUME NEW u \in Users PROVE Right(u)'
  <2>1. Profile(u)' = Profile(u)
    BY DEF Profile, InRedis
  <2> QED
    BY <2>1 DEF CountsInv, Right
<1>2. ASSUME NEW u \in UsersIn(cached) PROVE NotAhead(u)'
  <2>1. InRedis(u)' = InRedis(u) /\ u \in Users /\ CountIn(cached, u) \in Nat
    BY EntryOf DEF InRedis, CountsInv
  <2>2. InRedis(u) \in Nat
    BY <2>1, ProfileType
  <2> QED
    BY <2>1, <2>2 DEF CountsInv, NotAhead
<1> QED
  BY <1>1, <1>2 DEF CountsInv

LEMMA CountsLoop ==
    ASSUME CountsInv, PlaceInv,
           \/ EStart \/ Poll \/ Score \/ PeriodicTasks \/ Demo
           \/ epc = "poll" /\ HourPasses /\ UNCHANGED <<epc, position, message, verdict, cached, stored,
                predictions, model, alerts, fate, excused, faults, bounds>>
    PROVE  CountsInv'
<1> USE MessagesAre DEF Fates
<1>1. CASE EStart
  <2>1. /\ epc = "off" /\ epc' = "poll" /\ cached' = <<>> /\ UNCHANGED <<stored, excused>>
        /\ fate' = [m \in Messages |-> IF m \in position .. position' - 1 THEN "skipped" ELSE fate[m]]
        /\ position \in Nat \ {0}
    BY <1>1 DEF EStart, PlaceInv
  <2>2. \A m \in Messages : m \in position .. position' - 1 => fate[m] = "waiting"
    BY DEF PlaceInv
  <2>3. \A u \in Users : Counting(u)' = Counting(u)
    BY <2>1, <2>2, CountingIdle
  <2> QED
    BY <2>1, <2>3, CountsIdle DEF CountsInv
<1>2. CASE Poll
  <2>1. /\ epc = "poll" /\ epc' \in {"poll", "profile"} /\ UNCHANGED <<cached, stored, excused>>
        /\ fate' = fate \/ fate' = [fate EXCEPT ![position] = "unreadable"]
    BY <1>2 DEF Poll
  <2>2. \A m \in Messages : fate'[m] = fate[m] \/ {fate[m], fate'[m]} \cap Fates = {}
    BY <2>1 DEF PlaceInv
  <2>3. \A u \in Users : Counting(u)' = Counting(u)
    BY <2>1, <2>2, CountingIdle
  <2> QED
    BY <2>1, <2>3, CountsIdle
<1>3. CASE Score
  <2>1. epc = "score" /\ epc' = "update" /\ UNCHANGED <<cached, stored, excused, fate, message>>
    BY <1>3 DEF Score
  <2>2. \A u \in Users : Counting(u)' = Counting(u)
    BY <2>1, CountingIdle
  <2>3. User' \in UsersIn(cached)
    BY <2>1 DEF CountsInv, User
  <2> QED
    BY <2>1, <2>2, <2>3, CountsIdle
<1>4. CASE PeriodicTasks
  <2>1. epc = "periodic" /\ epc' = "poll" /\ UNCHANGED <<cached, stored, excused, fate>>
    BY <1>4 DEF PeriodicTasks
  <2> QED
    BY <2>1, CountingIdle, CountsIdle
<1>5. CASE Demo \/ (epc = "poll" /\ HourPasses /\ UNCHANGED <<epc, position, message, verdict, cached,
                stored, predictions, model, alerts, fate, excused, faults, bounds>>)
  <2>1. epc \in {"demo", "poll"} /\ UNCHANGED <<epc, cached, stored, excused, fate>>
    BY <1>5 DEF Demo
  <2> QED
    BY <2>1, CountingIdle, CountsIdle
<1> QED
  BY <1>1, <1>2, <1>3, <1>4, <1>5

LEMMA SavedIs ==
    ASSUME NEW q, NEW failing
    PROVE  Saved(q, failing) = [u \in Users |-> IF u \in UsersIn(q) /\ u \notin failing
                                                   THEN String(CountIn(cached, u)) ELSE stored[u]]
<1>1. \A u : (\E i \in DOMAIN q : q[i].user = u /\ u \notin failing)
               <=> u \in UsersIn(q) /\ u \notin failing
  BY DEF UsersIn
<1>2. \A u : CountOf(u) = CountIn(cached, u)
  BY DEF CountOf, CountIn
<1> QED
  BY <1>1, <1>2 DEF Saved

(* An entry for a user who had none: with the count Redis has, or for a    *)
(* user Redis does not know, perhaps in place of the oldest entries.       *)
LEMMA CountsLoad ==
    ASSUME CountsInv, PlaceInv, GetUserProfile
    PROVE  CountsInv'
<1> USE MessagesAre DEF Fates
<1>1. /\ epc = "profile" /\ UNCHANGED message /\ User \in Users /\ message \in Messages
      /\ UNCHANGED User /\ fate[message] = "waiting"
  BY DEF GetUserProfile, PlaceInv, Busy, User
<1>2. CachedUsers = UsersIn(cached) /\ OneEach(cached)
  BY DEF CachedUsers, UsersIn, CountsInv
<1>3. CASE User \in CachedUsers /\ epc' = "score" /\ UNCHANGED <<cached, stored, fate, faults, excused>>
  <2>1. \A u \in Users : Counting(u)' = Counting(u)
    BY <1>1, <1>3, CountingIdle
  <2> QED
    BY <1>1, <1>2, <1>3, <2>1, CountsIdle
<1>4. CASE GiveUp("no_profile") /\ UNCHANGED <<cached, stored, excused>>
  <2>1. epc' = "periodic" /\ fate' = [fate EXCEPT ![message] = "no_profile"]
    BY <1>4 DEF GiveUp
  <2>2. \A m \in Messages : fate'[m] = fate[m] \/ {fate[m], fate'[m]} \cap Fates = {}
    BY <1>1, <2>1
  <2>3. \A u \in Users : Counting(u)' = Counting(u)
    BY <1>1, <2>1, <2>2, CountingIdle
  <2> QED
    BY <1>4, <2>1, <2>3, CountsIdle
<1>5. ASSUME NEW n \in Nat, cached' = Append(cached, [user |-> User, count |-> n]),
             User \notin UsersIn(cached), n = InRedis(User), epc' = "score",
             UNCHANGED <<stored, fate, excused>>
      PROVE  CountsInv'
  <2> PICK w : w = User
    OBVIOUS
  <2>1. /\ OneEach(cached') /\ UsersIn(cached') = UsersIn(cached) \cup {w} /\ CountIn(cached', w) = n
        /\ \A v \in UsersIn(cached) : CountIn(cached', v) = CountIn(cached, v)
    <3>1. Adds(cached', cached, w, n)
      BY <1>5 DEF Adds
    <3> QED
      BY <1>1, <1>2, <1>5, <3>1, EntryAdded
  <2>2. \A u \in Users : Counting(u)' = Counting(u)
    BY <1>1, <1>5, CountingIdle
  <2>3. \A u \in Users : InRedis(u)' = InRedis(u)
    BY <1>5 DEF InRedis
  <2>4. ASSUME NEW u \in Users PROVE Right(u)'
    <3>1. Profile(u)' = IF u \in UsersIn(cached') THEN CountIn(cached', u) ELSE InRedis(u)'
      BY DEF Profile, UsersIn, CountIn
    <3>2. Profile(u)' = Profile(u)
      BY <1>5, <2>1, <2>3, <3>1 DEF Profile
    <3> QED
      BY <1>5, <2>2, <3>2 DEF CountsInv, Right
  <2>5. ASSUME NEW u \in UsersIn(cached') PROVE NotAhead(u)'
    <3>1. u \in Users /\ InRedis(u) \in Nat
      BY <2>1, EntryOf, ProfileType
    <3>2. InRedis(u) <= CountIn(cached', u)
      <4>1. CASE u = w
        BY <1>5, <2>1, <3>1, <4>1
      <4>2. CASE u # w
        <5>1. NotAhead(u) /\ CountIn(cached', u) = CountIn(cached, u)
          BY <2>1, <4>2 DEF CountsInv
        <5> QED
          BY <1>1, <3>1, <5>1 DEF NotAhead
      <4> QED
        BY <4>1, <4>2
    <3>3. InRedis(u)' = InRedis(u) /\ CountIn(cached', u) = CountIn(cached, u)'
      BY <2>3, <3>1 DEF CountIn
    <3> QED
      BY <1>5, <3>1, <3>2, <3>3 DEF NotAhead
  <2>6. (\A u \in UsersIn(cached) : NotAhead(u))'
    BY <2>5 DEF UsersIn
  <2>7. User' \in UsersIn(cached)'
    BY <1>1, <2>1 DEF UsersIn
  <2> QED
    BY <1>5, <2>1, <2>4, <2>6, <2>7 DEF CountsInv
<1>6. ASSUME NEW failing \in SUBSET CachedUsers, EvictOldest(failing), Len(cached) + 1 > CacheSize,
             User \notin UsersIn(cached), stored[User].type = "none", epc' = "score", UNCHANGED fate
      PROVE  CountsInv'
  <2> PICK w : w = User
    OBVIOUS
  <2> PICK o : o = SubSeq(cached, 1, EvictSize)
    OBVIOUS
  <2> PICK r : r = SubSeq(cached, EvictSize + 1, Len(cached))
    OBVIOUS
  <2> PICK missed : missed = {u \in failing : u \in UsersIn(o)}
    OBVIOUS
  <2>1. /\ cached' = Append(r, [user |-> w, count |-> 0])
        /\ stored' = [u \in Users |-> IF u \in UsersIn(o) /\ u \notin missed
                                        THEN String(CountIn(cached, u)) ELSE stored[u]]
        /\ excused' = excused \cup missed
    <3>1. \A u : (\E i \in DOMAIN o : o[i].user = u) <=> u \in UsersIn(o)
      BY DEF UsersIn
    <3>2. missed = {u \in failing : \E i \in DOMAIN o : o[i].user = u}
      BY <3>1
    <3>3. Saved(o, missed) = [u \in Users |-> IF u \in UsersIn(o) /\ u \notin missed
                                              THEN String(CountIn(cached, u)) ELSE stored[u]]
      BY SavedIs
    <3>4. /\ cached' = Append(r, [user |-> w, count |-> 0])
          /\ stored' = Saved(o, missed) /\ excused' = excused \cup missed
      BY <1>6, <3>2 DEF EvictOldest
    <3> QED
      BY <3>3, <3>4
  <2>2. EvictSize \in 0 .. Len(cached)
    <3>1. cached \in Seq(Entry)
      BY <1>2 DEF OneEach
    <3>2. Len(cached) \in Nat /\ CacheSize \in Nat /\ EvictSize \in 1 .. CacheSize
      BY <3>1, EnhancedAssumption
    <3> QED
      BY <1>6, <3>2
  <2>3. /\ OneEach(o) /\ OneEach(r) /\ UsersIn(cached) = UsersIn(o) \cup UsersIn(r)
        /\ UsersIn(o) \cap UsersIn(r) = {}
        /\ \A v \in UsersIn(r) : CountIn(r, v) = CountIn(cached, v)
    <3>1. Splits(cached, EvictSize, o, r)
      BY <2>2 DEF Splits
    <3> QED
      BY <1>2, <3>1, OldestAndRest
  <2>4. /\ OneEach(cached') /\ UsersIn(cached') = UsersIn(r) \cup {w} /\ CountIn(cached', w) = 0
        /\ \A v \in UsersIn(r) : CountIn(cached', v) = CountIn(r, v)
    <3>1. Adds(cached', r, w, 0)
      BY <2>1 DEF Adds
    <3> QED
      BY <1>1, <1>6, <2>3, <3>1, EntryAdded
  <2>5. \A u \in UsersIn(cached) : u \in Users /\ CountIn(cached, u) \in Nat
    BY <1>2, EntryOf
  <2>6. stored' \in [Users -> [type: {"none", "string", "hash"}, count: Nat]]
    <3>1. stored \in [Users -> [type: {"none", "string", "hash"}, count: Nat]]
      BY DEF CountsInv
    <3>2. \A u \in UsersIn(o) : String(CountIn(cached, u)) \in [type: {"none", "string", "hash"}, count: Nat]
      BY <2>3, <2>5 DEF String
    <3> QED
      BY <2>1, <3>1, <3>2
  <2>7. \A u \in Users : /\ u \in UsersIn(o) \ missed => InRedis(u)' = CountIn(cached, u)
                         /\ u \notin UsersIn(o) \ missed => InRedis(u)' = InRedis(u)
    <3>1. \A u \in Users : stored'[u] = IF u \in UsersIn(o) /\ u \notin missed
                                          THEN String(CountIn(cached, u)) ELSE stored[u]
      BY <2>1
    <3>2. \A u \in Users : InRedis(u)' = IF stored'[u].type = "string" THEN stored'[u].count ELSE 0
      BY DEF InRedis
    <3>3. \A n : String(n).type = "string" /\ String(n).count = n
      BY DEF String
    <3>4. ASSUME NEW u \in UsersIn(o) \ missed, u \in Users PROVE InRedis(u)' = CountIn(cached, u)
      <4>1. stored'[u] = String(CountIn(cached, u))
        BY <3>1, <3>4
      <4> QED
        BY <3>2, <3>3, <3>4, <4>1
    <3>5. ASSUME NEW u \in Users, u \notin UsersIn(o) \ missed PROVE InRedis(u)' = InRedis(u)
      <4>1. stored'[u] = stored[u]
        BY <3>1, <3>5
      <4> QED
        BY <3>2, <4>1 DEF InRedis
    <3> QED
      BY <3>4, <3>5
  <2>8. \A u \in Users : Counting(u)' = Counting(u)
    BY <1>1, <1>6, CountingIdle
  <2>9. ASSUME NEW u \in Users PROVE Right(u)'
    <3>1. /\ Profile(u) \in Nat /\ InRedis(u) \in Nat /\ Counting(u) \in Nat /\ Right(u)
      BY ProfileType, CountingIs DEF CountsInv
    <3>2. Profile(u)' = IF u \in UsersIn(cached') THEN CountIn(cached', u) ELSE InRedis(u)'
      BY DEF Profile, UsersIn, CountIn
    <3>3. CASE u \in missed
      <4>1. u \in UsersIn(o) /\ u \notin UsersIn(cached') /\ u \in excused'
        BY <1>6, <2>1, <2>3, <2>4, <3>3
      <4>2. Profile(u)' = InRedis(u) /\ Profile(u) = CountIn(cached, u)
        BY <2>3, <2>7, <3>2, <3>3, <4>1 DEF Profile
      <4>3. InRedis(u) <= CountIn(cached, u)
        <5>1. NotAhead(u)
          BY <2>3, <4>1 DEF CountsInv
        <5> QED
          BY <1>1, <3>1, <5>1 DEF NotAhead
      <4> QED
        BY <2>5, <2>8, <3>1, <4>1, <4>2, <4>3 DEF Right
    <3>4. CASE u \notin missed
      <4>1. Profile(u)' = Profile(u)
        <5>1. CASE u \in UsersIn(o)
          BY <1>6, <2>3, <2>4, <2>7, <3>2, <3>4, <5>1 DEF Profile
        <5>2. CASE u \in UsersIn(r)
          BY <2>3, <2>4, <3>2, <5>2 DEF Profile
        <5>3. CASE u = w
          BY <1>6, <2>4, <3>2, <5>3 DEF Profile, InRedis
        <5>4. CASE u \notin UsersIn(cached) /\ u # w
          BY <2>3, <2>4, <2>7, <3>2, <5>4 DEF Profile
        <5> QED
          BY <2>3, <5>1, <5>2, <5>3, <5>4
      <4> QED
        BY <2>1, <2>8, <3>1, <4>1 DEF Right
    <3> QED
      BY <3>3, <3>4
  <2>10. ASSUME NEW u \in UsersIn(cached') PROVE NotAhead(u)'
    <3>1. u \in Users /\ InRedis(u) \in Nat /\ CountIn(cached', u) \in Nat
      BY <2>4, EntryOf, ProfileType
    <3>2. u \notin UsersIn(o)
      BY <1>6, <2>3, <2>4
    <3>3. InRedis(u) <= CountIn(cached', u)
      <4>1. CASE u = w
        BY <1>6, <2>4, <4>1 DEF InRedis
      <4>2. CASE u # w
        <5>1. u \in UsersIn(cached) /\ CountIn(cached', u) = CountIn(cached, u)
          BY <2>3, <2>4, <4>2
        <5>2. NotAhead(u)
          BY <5>1 DEF CountsInv
        <5> QED
          BY <1>1, <3>1, <5>1, <5>2 DEF NotAhead
      <4> QED
        BY <4>1, <4>2
    <3>4. InRedis(u)' = InRedis(u) /\ CountIn(cached', u) = CountIn(cached, u)'
      BY <2>7, <3>1, <3>2 DEF CountIn
    <3> QED
      BY <1>6, <3>1, <3>3, <3>4 DEF NotAhead
  <2>11. (\A u \in UsersIn(cached) : NotAhead(u))'
    BY <2>10 DEF UsersIn
  <2>12. User' \in UsersIn(cached)'
    BY <1>1, <2>4 DEF UsersIn
  <2> QED
    BY <1>6, <2>4, <2>6, <2>9, <2>11, <2>12 DEF CountsInv
<1>7. stored[User].type = "string" => InRedis(User) = stored[User].count
  BY DEF InRedis
<1>8. stored[User].type = "none" => InRedis(User) = 0
  BY DEF InRedis
<1>9. InRedis(User) \in Nat
  BY <1>1, ProfileType
<1>10. CASE /\ User \notin CachedUsers /\ stored[User].type = "string"
            /\ cached' = Append(cached, [user |-> User, count |-> stored[User].count])
            /\ epc' = "score" /\ UNCHANGED <<stored, fate, faults, excused>>
  BY <1>2, <1>5, <1>7, <1>9, <1>10
<1>11. CASE /\ User \notin CachedUsers /\ stored[User].type = "none"
            /\ IF Len(cached) + 1 > CacheSize
                 THEN \E failing \in SUBSET CachedUsers : EvictOldest(failing) /\ MayFail(failing # {})
                 ELSE /\ cached' = Append(cached, [user |-> User, count |-> 0])
                      /\ UNCHANGED <<stored, faults, excused>>
            /\ epc' = "score" /\ fate' = fate
  BY <1>2, <1>5, <1>6, <1>8, <1>9, <1>11
<1> QED
  BY <1>3, <1>4, <1>10, <1>11 DEF GetUserProfile

(* A transaction is counted: in its user's entry, and among the messages   *)
(* that count, whether it is given up or has a result.                     *)
LEMMA CountsUpdate ==
    ASSUME CountsInv, PlaceInv, UpdateAndSample
    PROVE  CountsInv'
<1> PICK w : w = User
  OBVIOUS
<1>1. /\ epc = "update" /\ UNCHANGED <<message, stored, excused>> /\ message \in Messages
      /\ fate[message] = "waiting" /\ DOMAIN fate = Messages /\ w = User' /\ w \in Users
  BY MessagesAre DEF UpdateAndSample, PlaceInv, Busy, User
<1>2. OneEach(cached) /\ w \in UsersIn(cached) /\ w = Log[message].user
  BY <1>1 DEF CountsInv, User
<1>3. \/ epc' = "periodic" /\ fate' = [fate EXCEPT ![message] = "no_sample"]
      \/ epc' = "result" /\ fate' = fate
  BY DEF UpdateAndSample, GiveUp
<1>4. /\ OneEach(cached') /\ UsersIn(cached') = UsersIn(cached)
      /\ CountIn(cached', w) = CountIn(cached, w) + 1
      /\ \A v \in UsersIn(cached) \ {w} : CountIn(cached', v) = CountIn(cached, v)
  <2>1. Increments(cached', cached, w)
    BY DEF UpdateAndSample, Counted, Increments
  <2> QED
    BY <1>2, <2>1, EntryCounted
<1>5. \A u \in Users : InRedis(u)' = InRedis(u)
  BY <1>1 DEF InRedis
<1>6. Counting(w)' = Counting(w) + 1
  <2>1. Counted1(w)' = Counted1(w) \cup {message} /\ message \notin Counted1(w)
    BY <1>1, <1>2, <1>3 DEF Counted1, Fates
  <2>2. Counting(w)' = Cardinality(Counted1(w)')
    BY DEF Counting, Counted1, Fates
  <2> QED
    BY <2>1, <2>2, CountingIs, FS_AddElement
<1>7. ASSUME NEW u \in Users, u # w PROVE Counting(u)' = Counting(u)
  <2>1. Counted1(u)' = Counted1(u)
    BY <1>1, <1>2, <1>3, <1>7 DEF Counted1, Fates
  <2> QED
    BY <2>1, CountingSame
<1>8. ASSUME NEW u \in Users PROVE Right(u)'
  <2>1. /\ Profile(u) \in Nat /\ Counting(u) \in Nat /\ Right(u)
    BY ProfileType, CountingIs DEF CountsInv
  <2>2. Profile(u)' = IF u \in UsersIn(cached') THEN CountIn(cached', u) ELSE InRedis(u)'
    BY DEF Profile, UsersIn, CountIn
  <2>3. CASE u = w
    <3>1. Profile(u)' = Profile(u) + 1 /\ Counting(u)' = Counting(u) + 1
      BY <1>2, <1>4, <1>6, <2>2, <2>3 DEF Profile
    <3> QED
      BY <1>1, <2>1, <3>1 DEF Right
  <2>4. CASE u # w
    <3>1. Profile(u)' = Profile(u) /\ Counting(u)' = Counting(u)
      BY <1>4, <1>5, <1>7, <2>2, <2>4 DEF Profile
    <3> QED
      BY <1>1, <2>1, <3>1 DEF Right
  <2> QED
    BY <2>3, <2>4
<1>9. ASSUME NEW u \in UsersIn(cached') PROVE NotAhead(u)'
  <2>1. u \in Users /\ InRedis(u) \in Nat /\ CountIn(cached, u) \in Nat
    BY <1>2, <1>4, EntryOf, ProfileType
  <2>2. InRedis(u) <= CountIn(cached, u)
    <3>1. NotAhead(u)
      BY <1>4 DEF CountsInv
    <3> QED
      BY <1>1, <2>1, <3>1 DEF NotAhead
  <2>3. InRedis(u)' = InRedis(u) /\ CountIn(cached', u) = CountIn(cached, u)'
    BY <1>5, <2>1 DEF CountIn
  <2>4. CountIn(cached', u) = CountIn(cached, u) + (IF u = w THEN 1 ELSE 0)
    BY <1>4, <2>1
  <2>5. NotAhead(u)' <=> InRedis(u)' + (IF epc' = "result" /\ u = w THEN 1 ELSE 0) <= CountIn(cached, u)'
    BY <1>1 DEF NotAhead
  <2> QED
    BY <2>1, <2>2, <2>3, <2>4, <2>5
<1>10. (\A u \in UsersIn(cached) : NotAhead(u))'
  BY <1>9 DEF UsersIn
<1>11. User' \in UsersIn(cached)'
  BY <1>1, <1>2, <1>4 DEF UsersIn
<1> QED
  BY <1>1, <1>3, <1>4, <1>8, <1>10, <1>11 DEF CountsInv

(* The message that was counted has its result, and the profile is perhaps *)
(* saved.                                                                  *)
LEMMA CountsResult ==
    ASSUME CountsInv, PlaceInv, HandleResult
    PROVE  CountsInv'
<1> PICK w : w = User
  OBVIOUS
<1>1. /\ epc = "result" /\ epc' = "periodic" /\ UNCHANGED <<message, cached, excused>>
      /\ message \in Messages /\ w = User' /\ w \in Users
      /\ fate' = [fate EXCEPT ![message] = "refused"] \/ fate' = [fate EXCEPT ![message] = "handled"]
  BY MessagesAre DEF HandleResult, PlaceInv, Busy, User
<1>2. OneEach(cached) /\ w \in UsersIn(cached) /\ w = Log[message].user
  BY <1>1 DEF CountsInv, User
<1>3. CountOf(w) = CountIn(cached, w) /\ CountIn(cached, w) \in Nat
  BY <1>2, EntryOf DEF CountOf, CountIn
<1>4. stored' = stored \/ stored' = [stored EXCEPT ![w] = String(CountIn(cached, w))]
  BY <1>3 DEF HandleResult
<1>5. stored' \in [Users -> [type: {"none", "string", "hash"}, count: Nat]]
  BY <1>3, <1>4 DEF CountsInv, String
<1>6. ASSUME NEW u \in Users PROVE Counting(u)' = Counting(u)
  <2>1. Counted1(u)' = Counted1(u)
    BY <1>1 DEF Counted1, Fates, PlaceInv
  <2> QED
    BY <2>1, CountingSame
<1>7. ASSUME NEW u \in Users, u # w PROVE InRedis(u)' = InRedis(u)
  <2>1. stored'[u] = stored[u]
    BY <1>4, <1>7 DEF CountsInv
  <2> QED
    BY <2>1 DEF InRedis
<1>8. InRedis(w)' = InRedis(w) \/ InRedis(w)' = CountIn(cached, w)
  <2>1. stored'[w] = stored[w] \/ stored'[w] = String(CountIn(cached, w))
    BY <1>1, <1>4 DEF CountsInv
  <2> QED
    BY <2>1 DEF InRedis, String
<1>9. ASSUME NEW u \in Users PROVE Right(u)'
  <2>1. Profile(u)' = IF u \in UsersIn(cached) THEN CountIn(cached, u) ELSE InRedis(u)'
    BY <1>1 DEF Profile
  <2>2. Profile(u)' = Profile(u)
    BY <1>2, <1>7, <2>1 DEF Profile
  <2> QED
    BY <1>1, <1>6, <2>2 DEF CountsInv, Right
<1>10. ASSUME NEW u \in UsersIn(cached) PROVE NotAhead(u)'
  <2>1. u \in Users /\ InRedis(u) \in Nat /\ CountIn(cached, u) \in Nat /\ NotAhead(u)
    BY <1>2, EntryOf, ProfileType DEF CountsInv
  <2>2. InRedis(u)' <= CountIn(cached, u)
    BY <1>1, <1>7, <1>8, <2>1 DEF NotAhead
  <2>3. CountIn(cached, u)' = CountIn(cached, u) /\ InRedis(u)' \in Nat
    BY <1>1, <1>3, <1>7, <1>8, <2>1
  <2> QED
    BY <1>1, <2>1, <2>2, <2>3 DEF NotAhead
<1>11. (\A u \in UsersIn(cached) : NotAhead(u))'
  BY <1>1, <1>10
<1> QED
  BY <1>1, <1>2, <1>5, <1>9, <1>11 DEF CountsInv

(* The end: what could not be saved was behind, and is excused.            *)
LEMMA CountsCleanUp ==
    ASSUME CountsInv, PlaceInv, CleanUp
    PROVE  CountsInv'
<1>1. /\ epc = "poll" /\ epc' = "off" /\ cached' = <<>> /\ UNCHANGED <<message, fate>>
      /\ OneEach(cached)
  BY DEF CleanUp, CountsInv
<1>2. PICK failing \in SUBSET Behind : stored' = Saved(cached, failing) /\ excused' = excused \cup failing
  BY DEF CleanUp
<1>3. \A u \in Users : stored'[u] = IF u \in UsersIn(cached) /\ u \notin failing
                                     THEN String(CountIn(cached, u)) ELSE stored[u]
  BY <1>2, SavedIs
<1>4. \A u \in UsersIn(cached) : u \in Users /\ CountIn(cached, u) \in Nat
  BY <1>1, EntryOf
<1>5. stored' \in [Users -> [type: {"none", "string", "hash"}, count: Nat]]
  <2>1. stored \in [Users -> [type: {"none", "string", "hash"}, count: Nat]]
    BY DEF CountsInv
  <2>2. \A u \in UsersIn(cached) : String(CountIn(cached, u)) \in [type: {"none", "string", "hash"}, count: Nat]
    BY <1>4 DEF String
  <2>3. stored' = [u \in Users |-> IF u \in UsersIn(cached) /\ u \notin failing
                                     THEN String(CountIn(cached, u)) ELSE stored[u]]
    BY <1>2, SavedIs
  <2> QED
    BY <2>1, <2>2, <2>3
<1>6. OneEach(cached') /\ UsersIn(cached') = {}
  BY <1>1, NothingCached
<1>7. \A u \in Users : Counting(u)' = Counting(u)
  BY <1>1, CountingIdle
<1>8. ASSUME NEW u \in Users PROVE Right(u)'
  <2>1. /\ Profile(u) \in Nat /\ InRedis(u) \in Nat /\ Counting(u) \in Nat /\ Right(u)
    BY ProfileType, CountingIs DEF CountsInv
  <2>2. Profile(u)' = InRedis(u)'
    BY <1>6 DEF Profile, UsersIn
  <2>3. CASE u \in UsersIn(cached) /\ u \notin failing
    <3>1. InRedis(u)' = CountIn(cached, u)
      <4>1. stored'[u] = String(CountIn(cached, u))
        BY <1>3, <2>3
      <4> QED
        BY <4>1 DEF InRedis, String
    <3>2. Profile(u)' = Profile(u)
      BY <2>2, <2>3, <3>1 DEF Profile
    <3> QED
      BY <1>2, <1>7, <2>1, <3>2 DEF Right
  <2>4. CASE u \notin UsersIn(cached) \/ u \in failing
    <3>1. InRedis(u)' = InRedis(u)
      BY <1>3, <2>4 DEF InRedis
    <3>2. CASE u \notin UsersIn(cached)
      <4>1. Profile(u)' = Profile(u)
        BY <2>2, <3>1, <3>2 DEF Profile
      <4> QED
        BY <1>2, <1>7, <2>1, <4>1 DEF Right
    <3>3. CASE u \in failing /\ u \in UsersIn(cached)
      <4>1. InRedis(u) <= CountIn(cached, u)
        <5>1. NotAhead(u)
          BY <3>3 DEF CountsInv
        <5> QED
          BY <1>1, <2>1, <5>1 DEF NotAhead
      <4>2. Profile(u) = CountIn(cached, u) /\ u \in excused' /\ CountIn(cached, u) \in Nat
        BY <1>2, <1>4, <3>3 DEF Profile
      <4> QED
        BY <1>7, <2>1, <2>2, <3>1, <4>1, <4>2 DEF Right
    <3> QED
      BY <2>4, <3>2, <3>3
  <2> QED
    BY <2>3, <2>4
<1> QED
  BY <1>1, <1>5, <1>6, <1>8 DEF CountsInv, UsersIn

(* A crash: Redis has what there is, and the transaction whose result was  *)
(* being handled no longer counts.                                         *)
LEMMA CountsCrash ==
    ASSUME CountsInv, PlaceInv, ECrash
    PROVE  CountsInv'
<1> PICK w : w = User
  OBVIOUS
<1>1. /\ epc' = "off" /\ cached' = <<>> /\ UNCHANGED stored /\ OneEach(cached)
      /\ excused' = excused \cup Behind \cup (IF epc = "result" THEN {w} ELSE {})
      /\ fate' = IF message # 0 /\ fate[message] = "waiting" THEN [fate EXCEPT ![message] = "crashed"] ELSE fate
  BY DEF ECrash, CountsInv
<1>2. OneEach(cached') /\ UsersIn(cached') = {}
  BY <1>1, NothingCached
<1>3. epc = "result" => /\ message \in Messages /\ fate[message] = "waiting" /\ message # 0
                        /\ w = Log[message].user /\ w \in Users /\ w \in UsersIn(cached)
  BY MessagesAre DEF PlaceInv, Busy, User, CountsInv
<1>4. ASSUME NEW u \in Users, epc # "result" \/ u # w PROVE Counting(u)' = Counting(u)
  <2>1. \A m \in Messages : fate'[m] = fate[m] \/ (m = message /\ fate[m] = "waiting" /\ fate'[m] = "crashed")
    BY <1>1 DEF PlaceInv
  <2>2. Counted1(u)' = Counted1(u)
    BY <1>1, <1>3, <1>4, <2>1 DEF Counted1, Fates
  <2> QED
    BY <2>2, CountingSame
<1>5. epc = "result" => Counting(w)' = Counting(w) - 1
  <2> SUFFICES ASSUME epc = "result" PROVE Counting(w)' = Counting(w) - 1
    OBVIOUS
  <2>1. fate' = [fate EXCEPT ![message] = "crashed"]
    BY <1>1, <1>3
  <2>2. Counted1(w)' = Counted1(w) \ {message} /\ message \in Counted1(w)
    BY <1>1, <1>3, <2>1 DEF Counted1, Fates, PlaceInv
  <2>3. Counting(w)' = Cardinality(Counted1(w)')
    BY DEF Counting, Counted1, Fates
  <2> QED
    BY <2>2, <2>3, CountingIs, FS_RemoveElement
<1>6. ASSUME NEW u \in UsersIn(cached)
      PROVE  /\ u \in Users /\ CountIn(cached, u) \in Nat
             /\ InRedis(u) + (IF epc = "result" /\ u = w THEN 1 ELSE 0) <= CountIn(cached, u)
  BY <1>1, EntryOf DEF CountsInv, NotAhead
<1>7. ASSUME NEW u \in UsersIn(cached), u \notin excused' PROVE InRedis(u) = CountIn(cached, u)
  <2>1. u \notin Behind
    BY <1>1, <1>7
  <2>2. u \in CachedUsers /\ CountOf(u) = CountIn(cached, u)
    BY DEF CachedUsers, UsersIn, CountOf, CountIn
  <2>3. stored[u] = String(CountIn(cached, u))
    BY <2>1, <2>2 DEF Behind
  <2> QED
    BY <2>3 DEF InRedis, String
<1>8. ASSUME NEW u \in Users PROVE Right(u)'
  <2>1. /\ Profile(u) \in Nat /\ InRedis(u) \in Nat /\ Counting(u) \in Nat /\ Right(u)
    BY ProfileType, CountingIs DEF CountsInv
  <2>2. Profile(u)' = InRedis(u)
    BY <1>1, <1>2 DEF Profile, UsersIn, InRedis
  <2>3. CASE epc = "result" /\ u = w
    <3>1. /\ u \in excused' /\ Counting(u)' = Counting(u) - 1 /\ u \in UsersIn(cached)
          /\ Profile(u) = CountIn(cached, u)
      BY <1>1, <1>3, <1>5, <2>3 DEF Profile
    <3>2. InRedis(u) + 1 <= CountIn(cached, u) /\ CountIn(cached, u) \in Nat
      BY <1>6, <2>3, <3>1
    <3> QED
      BY <2>1, <2>2, <3>1, <3>2 DEF Right
  <2>4. CASE epc # "result" \/ u # w
    <3>1. Counting(u)' = Counting(u)
      BY <1>4, <2>4
    <3>2. CASE u \in UsersIn(cached)
      <4>1. Profile(u) = CountIn(cached, u) /\ InRedis(u) <= CountIn(cached, u) /\ CountIn(cached, u) \in Nat
        BY <1>6, <2>1, <2>4, <3>2 DEF Profile
      <4>2. u \notin excused' => InRedis(u) = Profile(u) /\ u \notin excused
        BY <1>1, <1>7, <3>2, <4>1
      <4> QED
        BY <2>1, <2>2, <3>1, <4>1, <4>2 DEF Right
    <3>3. CASE u \notin UsersIn(cached)
      <4>1. Profile(u) = InRedis(u)
        BY <3>3 DEF Profile
      <4> QED
        BY <1>1, <2>1, <2>2, <3>1, <4>1 DEF Right
    <3> QED
      BY <3>2, <3>3
  <2> QED
    BY <2>3, <2>4
<1> QED
  BY <1>1, <1>2, <1>8 DEF CountsInv, UsersIn

(* A profile expires, or the fraud detector keeps its own under the key:   *)
(* Redis has less then, never more.                                        *)
LEMMA CountsOthers ==
    ASSUME CountsInv, PlaceInv, NEW u \in Users, Expire(u) \/ OtherDetector(u)
    PROVE  CountsInv'
<1>1. UNCHANGED <<cached, epc, message, fate>> /\ OneEach(cached) /\ UNCHANGED User
  BY DEF Expire, OtherDetector, CountsInv, User
<1>2. stored \in [Users -> [type: {"none", "string", "hash"}, count: Nat]]
  BY DEF CountsInv
<1>3. /\ stored' \in [Users -> [type: {"none", "string", "hash"}, count: Nat]]
      /\ \A v \in Users \ {u} : stored'[v] = stored[v]
      /\ excused \subseteq excused'
      /\ InRedis(u)' = InRedis(u) \/ (InRedis(u)' = 0 /\ (u \in UsersIn(cached) \/ u \in excused'))
  <2>1. CASE Expire(u)
    <3>1. stored' = [stored EXCEPT ![u] = Absent]
      BY <2>1 DEF Expire
    <3>2. excused' = IF u \in UsersIn(cached) THEN excused ELSE excused \cup {u}
      BY <2>1 DEF Expire, CachedUsers, UsersIn
    <3>3. stored'[u] = Absent
      BY <1>2, <3>1
    <3>4. Absent \in [type: {"none", "string", "hash"}, count: Nat]
      BY DEF Absent
    <3>5. InRedis(u)' = 0
      BY <3>3 DEF InRedis, Absent
    <3> QED
      BY <1>2, <3>1, <3>2, <3>4, <3>5
  <2>2. CASE OtherDetector(u) /\ stored[u].type = "string"
    BY <1>2, <2>2 DEF OtherDetector, InRedis
  <2>3. CASE OtherDetector(u) /\ stored[u].type # "string"
    <3> PICK h : h = [type |-> "hash", count |-> stored[u].count + 1]
      OBVIOUS
    <3>1. stored' = [stored EXCEPT ![u] = h] /\ UNCHANGED excused
      BY <2>3 DEF OtherDetector
    <3>2. h \in [type: {"none", "string", "hash"}, count: Nat] /\ h.type = "hash"
      <4>1. stored[u] \in [type: {"none", "string", "hash"}, count: Nat]
        BY <1>2
      <4>2. stored[u].count + 1 \in Nat
        BY <4>1
      <4> QED
        BY <4>2
    <3>3. stored'[u] = h
      BY <1>2, <3>1
    <3>4. InRedis(u)' = 0 /\ InRedis(u) = 0
      BY <2>3, <3>2, <3>3 DEF InRedis
    <3> QED
      BY <1>2, <3>1, <3>2, <3>4
  <2> QED
    BY <2>1, <2>2, <2>3
<1>4. ASSUME NEW v \in Users PROVE Counting(v)' = Counting(v)
  <2>1. Counted1(v)' = Counted1(v)
    BY <1>1 DEF Counted1
  <2> QED
    BY <2>1, CountingSame
<1>5. \A v \in Users \ {u} : InRedis(v)' = InRedis(v)
  BY <1>3 DEF InRedis
<1>6. ASSUME NEW v \in Users PROVE Right(v)'
  <2>1. /\ Profile(v) \in Nat /\ InRedis(v) \in Nat /\ Counting(v) \in Nat /\ Right(v)
    BY ProfileType, CountingIs DEF CountsInv
  <2>2. Profile(v)' = IF v \in UsersIn(cached) THEN CountIn(cached, v) ELSE InRedis(v)'
    BY <1>1 DEF Profile
  <2>3. Profile(v)' = Profile(v) \/ (Profile(v)' = 0 /\ v \in excused')
    BY <1>3, <1>5, <2>2 DEF Profile
  <2> QED
    BY <1>3, <1>4, <2>1, <2>3 DEF Right
<1>7. ASSUME NEW v \in UsersIn(cached) PROVE NotAhead(v)'
  <2>0. v \in Users /\ CountIn(cached, v) \in Nat /\ CountIn(cached, v)' = CountIn(cached, v)
    BY <1>1, EntryOf
  <2>1. InRedis(v) \in Nat /\ (InRedis(v)' = InRedis(v) \/ InRedis(v)' = 0)
    BY <1>3, <1>5, <2>0, ProfileType
  <2>2. InRedis(v) + (IF epc = "result" /\ v = User THEN 1 ELSE 0) <= CountIn(cached, v)
    BY DEF CountsInv, NotAhead
  <2>3. NotAhead(v)' <=> InRedis(v)' + (IF epc = "result" /\ v = User THEN 1 ELSE 0) <= CountIn(cached, v)
    BY <1>1, <2>0 DEF NotAhead
  <2> QED
    BY <2>0, <2>1, <2>2, <2>3
<1>8. (\A v \in UsersIn(cached) : NotAhead(v))'
  BY <1>1, <1>7
<1> QED
  BY <1>1, <1>3, <1>6, <1>8 DEF CountsInv

LEMMA CountsNext ==
    ASSUME CountsInv, PlaceInv, [ENext]_evars
    PROVE  CountsInv'
<1>1. CASE ENext
  BY <1>1, CountsLoop, CountsLoad, CountsUpdate, CountsResult, CountsCleanUp, CountsCrash, CountsOthers
     DEF ENext
<1>2. CASE UNCHANGED evars
  <2>1. UNCHANGED <<cached, stored, epc, message, fate, excused>>
    BY <1>2 DEF evars
  <2>2. UNCHANGED CountsInv
    BY <2>1 DEF CountsInv, NotAhead, Right, Profile, InRedis, Counting, User
  <2> QED
    BY <2>2
<1> QED
  BY <1>1, <1>2

(* A user's transactions are counted once each by the enhanced detector,   *)
(* through loading, evicting, saving, stopping and starting again; only an *)
(* excused user's count may be short, and none is ever too high.           *)
THEOREM ProfilesKeepCount == ESpec => []ProfileKeepsCount
<1>1. EInit => CountsInv /\ PlaceInv
  BY CountsInit, PlaceInit
<1>2. CountsInv /\ PlaceInv /\ [ENext]_evars => (CountsInv /\ PlaceInv)'
  BY CountsNext, PlaceNext
<1>3. CountsInv => ProfileKeepsCount
  <2> SUFFICES ASSUME CountsInv, NEW u \in Users
               PROVE  LET count == IF u \in CachedUsers THEN CountOf(u)
                                   ELSE IF stored[u].type = "string" THEN stored[u].count ELSE 0
                      IN count = Counting(u) \/ (u \in excused /\ count < Counting(u))
    BY DEF ProfileKeepsCount
  <2>1. CachedUsers = UsersIn(cached) /\ CountOf(u) = CountIn(cached, u)
    BY DEF CachedUsers, UsersIn, CountOf, CountIn
  <2>2. Profile(u) \in Nat /\ Counting(u) \in Nat /\ Right(u)
    BY ProfileType, CountingIs DEF CountsInv
  <2>3. Profile(u) = Counting(u) \/ (u \in excused /\ Profile(u) < Counting(u))
    BY <2>2 DEF Right
  <2> QED
    BY <2>1, <2>3 DEF Profile, InRedis
<1> QED
  BY <1>1, <1>2, <1>3, PTL DEF ESpec

-----------------------------------------------------------------------------
(* The scoring of the fraud detector.                                      *)

SSpec == SInit /\ [][SNext]_svars

(* Between two messages there is no score in place; while a message is     *)
(* scored the score in place is its own, and while a batch is scored there *)
(* is none.                                                                *)
Placed ==
  /\ spc \in {"start", "idle", "extract"} \/ phase \in {"matrix", "each"} => override = NoScore
  /\ override = NoScore \/ override.of \in {0, at}

ScoresInv ==
  /\ result \in [DOMAIN Signs -> {result[m] : m \in DOMAIN Signs}]
  /\ batchScores \in [DOMAIN Signs -> {batchScores[m] : m \in DOMAIN Signs}]
  /\ \A m \in DOMAIN Signs : batchScores[m].of \in {0, m}
  /\ Placed
  /\ ScoreBelongsToMessage

LEMMA ScoresInit == SInit => ScoresInv
BY DEF SInit, ScoresInv, Placed, ScoreBelongsToMessage, NoScore

LEMMA OwnScores ==
  ASSUME NEW m, NEW how, NEW ps
  PROVE  ByRules(m).of = m /\ ByModel(m, how, ps).of = m
BY DEF ByRules, ByModel, NoScore

(* The scores stay, and with them the score in place.                      *)
LEMMA ScoresStay ==
  ASSUME ScoresInv, UNCHANGED <<result, batchScores>>, Placed'
  PROVE  ScoresInv'
BY DEF ScoresInv, ScoreBelongsToMessage

(* One more message has its score.                                         *)
LEMMA ScoreGiven ==
  ASSUME ScoresInv, at \in DOMAIN Signs, NEW score, score.of \in {0, at}, Conclude(score),
         UNCHANGED <<batchScores, phase>>
  PROVE  ScoresInv'
<1>1. /\ result' = [result EXCEPT ![at] = score] /\ override' = NoScore
  BY DEF Conclude, AfterExtract
<1>2. /\ result' \in [DOMAIN Signs -> {result'[m] : m \in DOMAIN Signs}]
      /\ \A m \in DOMAIN Signs : result'[m].of \in {0, m}
  BY <1>1 DEF ScoresInv, ScoreBelongsToMessage
<1>3. Placed'
  BY <1>1 DEF Placed
<1> QED
  BY <1>2, <1>3 DEF ScoresInv, ScoreBelongsToMessage

LEMMA ScoreForBatch ==
  ASSUME ScoresInv, at \in DOMAIN Signs, NEW score, score.of \in {0, at}, GiveToBatch(score),
         phase = "each"
  PROVE  ScoresInv'
<1>1. /\ batchScores' = [batchScores EXCEPT ![at] = score] /\ UNCHANGED <<override, result>>
  BY DEF GiveToBatch
<1>2. /\ batchScores' \in [DOMAIN Signs -> {batchScores'[m] : m \in DOMAIN Signs}]
      /\ \A m \in DOMAIN Signs : batchScores'[m].of \in {0, m}
  BY <1>1 DEF ScoresInv
<1>3. override' = NoScore
  BY <1>1 DEF Placed, ScoresInv
<1>4. Placed'
  BY <1>3 DEF Placed
<1>5. /\ result' \in [DOMAIN Signs -> {result'[m] : m \in DOMAIN Signs}]
      /\ ScoreBelongsToMessage'
  BY <1>1 DEF ScoresInv, ScoreBelongsToMessage
<1> QED
  BY <1>2, <1>4, <1>5 DEF ScoresInv

-----------------------------------------------------------------------------
LEMMA ScoresExtract ==
  ASSUME ScoresInv, at \in DOMAIN Signs, Extract
  PROVE  ScoresInv'
<1> DEFINE placed == IF phase = "post" /\ batchScores[at] # NoScore THEN batchScores[at] ELSE override
<1>1. /\ spc = "extract" /\ UNCHANGED <<batchScores, phase>>
      /\ \/ override' = AfterExtract(TRUE, placed) /\ UNCHANGED result
         \/ Conclude(ByRules(at))
         \/ /\ override' = placed /\ UNCHANGED <<at, result>>
            /\ spc' \in {"v_features", "ask"}
  BY DEF Extract
<1>2. CASE override' = AfterExtract(TRUE, placed) /\ UNCHANGED result
  BY <1>1, <1>2, ScoresStay DEF AfterExtract, Placed
<1>3. CASE Conclude(ByRules(at))
  <2>1. ByRules(at).of \in {0, at}
    BY OwnScores
  <2> QED
    BY <1>1, <1>3, <2>1, ScoreGiven
<1>4. CASE override' = placed /\ UNCHANGED <<at, result>> /\ spc' \in {"v_features", "ask"}
  <2>1. override = NoScore
    BY <1>1 DEF ScoresInv, Placed
  <2>2. placed = NoScore \/ (phase = "post" /\ placed.of \in {0, at})
    BY <2>1 DEF ScoresInv
  <2> HIDE DEF placed
  <2>3. Placed'
    BY <1>1, <1>4, <2>2 DEF Placed
  <2> QED
    BY <1>1, <1>4, <2>3, ScoresStay
<1> QED
  BY <1>1, <1>2, <1>3, <1>4

LEMMA ScoresAsk ==
  ASSUME ScoresInv, at \in DOMAIN Signs, Ask
  PROVE  ScoresInv'
<1>1. CASE override = NoScore
  <2>1. UNCHANGED <<at, phase, batchScores, override, result>>
    BY <1>1 DEF Ask
  <2> QED
    BY <1>1, <2>1, ScoresStay DEF Placed, ScoresInv
<1>2. CASE override # NoScore
  <2>1. override.of \in {0, at} /\ phase # "each"
    BY <1>2 DEF ScoresInv, Placed
  <2>2. Conclude(override) /\ UNCHANGED <<phase, batchScores>>
    BY <1>2, <2>1 DEF Ask
  <2> QED
    BY <2>1, <2>2, ScoreGiven
<1> QED
  BY <1>1, <1>2

LEMMA ScoresMatrix ==
  ASSUME ScoresInv, PredictMatrix
  PROVE  ScoresInv'
<1> DEFINE whole == [m \in Batch(first) |-> used[m] \cup {parts.model}]
           scored == [m \in DOMAIN Signs |-> IF m \in Batch(first)
                                             THEN ByModel(m, "model", whole[m]) ELSE NoScore]
<1>1. /\ phase = "matrix" /\ UNCHANGED <<override, result>>
      /\ UNCHANGED batchScores \/ batchScores' = scored
  BY DEF PredictMatrix
<1>2. \A m \in DOMAIN Signs : scored[m].of \in {0, m}
  <2> TAKE m \in DOMAIN Signs
  <2>1. ByModel(m, "model", whole[m]).of = m /\ NoScore.of = 0
    BY OwnScores DEF NoScore
  <2> HIDE DEF whole
  <2> QED
    BY <2>1
<1>3. scored \in [DOMAIN Signs -> {scored[m] : m \in DOMAIN Signs}]
  OBVIOUS
<1> HIDE DEF scored
<1>4. Placed'
  BY <1>1 DEF ScoresInv, Placed
<1> QED
  BY <1>1, <1>2, <1>3, <1>4 DEF ScoresInv, ScoreBelongsToMessage

LEMMA ScoresOne ==
  ASSUME ScoresInv, at \in DOMAIN Signs, PredictOne
  PROVE  ScoresInv'
<1> DEFINE ps == used[at] \cup {IF engine THEN "file" ELSE parts.model}
<1>1. PICK score :
        /\ score = Fallback(at) \/ score = ByModel(at, "model", ps)
        /\ \/ phase = "each" /\ UNCHANGED <<at, phase, batchScores, override, result>>
           \/ phase = "each" /\ GiveToBatch(score)
           \/ Conclude(score) /\ UNCHANGED <<phase, batchScores>>
  BY DEF PredictOne
<1>2. score.of \in {0, at}
  BY <1>1, OwnScores DEF Fallback
<1>3. CASE phase = "each" /\ UNCHANGED <<at, phase, batchScores, override, result>>
  BY <1>3, ScoresStay DEF ScoresInv, Placed
<1> QED
  BY <1>1, <1>2, <1>3, ScoreGiven, ScoreForBatch

LEMMA ScoresVariant ==
  ASSUME ScoresInv, at \in DOMAIN Signs, PredictVariant
  PROVE  ScoresInv'
<1>1. /\ UNCHANGED <<batchScores, phase>>
      /\ \/ Conclude(ByModel(at, "variant", used[at]))
         \/ spc' = "ask" /\ UNCHANGED <<at, override, result>>
  BY DEF PredictVariant
<1>2. ByModel(at, "variant", used[at]).of \in {0, at}
  BY OwnScores
<1>3. CASE spc' = "ask" /\ UNCHANGED <<at, override, result>>
  BY <1>1, <1>3, ScoresStay DEF ScoresInv, Placed
<1> QED
  BY <1>1, <1>2, <1>3, ScoreGiven

LEMMA ScoresNext == ScoresInv /\ [SNext]_svars => ScoresInv'
<1> SUFFICES ASSUME ScoresInv, [SNext]_svars PROVE ScoresInv'
  OBVIOUS
<1>1. CASE UNCHANGED svars
  BY <1>1, ScoresStay DEF svars, ScoresInv, Placed
<1>2. CASE BeginSwap \/ SwapStep \/ SwapVersion \/ EndSwap
  <2>1. UNCHANGED <<result, batchScores, override, at, phase, spc>>
    BY <1>2 DEF BeginSwap, SwapStep, SwapVersion, EndSwap
  <2> QED
    BY <2>1, ScoresStay DEF ScoresInv, Placed
<1>3. CASE StartScorer
  <2>1. spc = "start" /\ UNCHANGED <<result, batchScores, override, at, phase>>
    BY <1>3 DEF StartScorer
  <2> QED
    BY <2>1, ScoresStay DEF ScoresInv, Placed
<1>4. CASE BeginMessages
  <2>1. /\ spc = "idle" /\ UNCHANGED <<override, result>>
        /\ batchScores' = [m \in DOMAIN Signs |-> NoScore]
    BY <1>4 DEF BeginMessages
  <2>2. Placed' /\ NoScore.of = 0
    BY <2>1 DEF ScoresInv, Placed, NoScore
  <2> QED
    BY <2>1, <2>2 DEF ScoresInv, ScoreBelongsToMessage
<1>5. CASE Read
  <2>1. spc \in {"v_features", "lookup", "features", "scale"}
        /\ UNCHANGED <<result, batchScores, override, phase>>
        /\ (at' = at \/ phase = "matrix") /\ spc' \notin {"start", "idle", "extract"}
    BY <1>5 DEF Read
  <2> QED
    BY <2>1, ScoresStay DEF ScoresInv, Placed
<1>6. [SNext]_svars => UNCHANGED svars \/ at \in DOMAIN Signs
  BY DEF SNext
<1> QED
  BY <1>1, <1>2, <1>3, <1>4, <1>5, <1>6, ScoresExtract, ScoresAsk, ScoresMatrix, ScoresOne,
     ScoresVariant DEF SNext

(* A score that the batch, the model, a variant's model or the rules made  *)
(* reaches the message it was made of (_process_batch, extract_features,   *)
(* _calculate_ml_fraud_score).                                             *)
THEOREM ScoresReachTheirMessage == SSpec => []ScoreBelongsToMessage
<1>1. ScoresInv => ScoreBelongsToMessage
  BY DEF ScoresInv
<1> QED
  BY ScoresInit, ScoresNext, <1>1, PTL DEF SSpec

-----------------------------------------------------------------------------
(* The parts of the model.  While no replacement is going on they are one  *)
(* model's, whose prediction may be missing, or they have no names.        *)
Settled ==
  \/ parts.features = "none"
  \/ \E v \in {"file", "reg"} :
       /\ parts.scaler = v /\ parts.features = v /\ parts.lookup = v /\ parts.params = v
       /\ parts.model \in {v, "none"}
       /\ v = "reg" => modelVersion = "reg"

(* What the assignments of a replacement that has begun have set.          *)
SwapInv ==
  /\ DOMAIN parts = DOMAIN NoParts
  /\ swap \in 0 .. 8
  /\ swap = 0 => Settled
  /\ swap # 0 => deployed # "nothing" /\ spc # "start"
  /\ swap = 8 => modelVersion = "reg"
  /\ swap > 1 => parts.model = "reg"
  /\ swap > 2 /\ deployed = "dict" => parts.scaler = "reg"
  /\ swap > 3 => parts.features = IF deployed = "dict" THEN "reg" ELSE "none"
  /\ swap > 4 /\ deployed = "dict" => parts.lookup = "reg"
  /\ swap > 6 /\ deployed = "dict" => parts.params = "reg"
  /\ spc = "start" => ~engine /\ modelVersion = "unknown" /\ parts = NoParts
  /\ ~during => swap = 0

(* When none overlaps the scoring of a message, what has been read for it  *)
(* is what the parts still are.                                            *)
Scaling == IF parts.params = "none" THEN parts.scaler ELSE parts.params
AllRead == {parts.features, parts.lookup, Scaling}

ReadsInv ==
  /\ DOMAIN used = DOMAIN Signs
  /\ ~during /\ target = "production" =>
       /\ spc = "v_features" => used[at] = {}
       /\ spc = "lookup" => used[at] = {parts.features}
       /\ spc \in {"features", "scale"} => used[at] = {parts.features, parts.lookup}
       /\ spc = "predict" => used[at] = AllRead
       /\ phase = "matrix" =>
            /\ \A m \in Batch(first) : m < at => used[m] = AllRead
            /\ \A m \in DOMAIN Signs : m > at => used[m] = {}

Reading == {"v_features", "lookup", "features", "scale", "predict"}
MatrixInv ==
  phase = "matrix" =>
    /\ batching /\ target = "production" /\ at \in Batch(first) /\ spc \in Reading
    /\ spc = "predict" => at + 1 \notin Batch(first)

EngineApart == engine /\ modelVersion = "reg"
OneModel(score) ==
  score.how = "model" /\ ~score.during /\ ~EngineApart => \E v : score.used = {v}

OneModels ==
  /\ OneModel(override)
  /\ \A m \in DOMAIN Signs : OneModel(batchScores[m]) /\ OneModel(result[m])

WholeInv == ScoresInv /\ SwapInv /\ ReadsInv /\ MatrixInv /\ OneModels

LEMMA SwapInit == SInit => SwapInv
BY DEF SInit, SwapInv, Settled, NoParts

LEMMA SwapStays ==
  ASSUME SwapInv, UNCHANGED modelVars, spc' = "start" => spc = "start", ~during' => swap' = 0
  PROVE  SwapInv'
BY DEF SwapInv, Settled, modelVars

LEMMA SwapStart ==
  ASSUME SwapInv, StartScorer
  PROVE  SwapInv' /\ during' = during
<1>1. /\ spc = "start" /\ parts = NoParts /\ ~engine /\ modelVersion = "unknown" /\ swap = 0
      /\ UNCHANGED <<deployed, swap, during>> /\ spc' = "idle"
  BY DEF StartScorer, SwapInv
<1>2. \/ parts' = AllParts("reg") /\ modelVersion' = "reg"
      \/ parts' = [NoParts EXCEPT !.model = "reg"]
      \/ parts' = parts
      \/ parts' = AllParts("file") \/ parts' = [AllParts("file") EXCEPT !.model = "none"]
      \/ parts' = [AllParts("file") EXCEPT !.model = "file"]
  BY <1>1 DEF StartScorer, LoadFromRegistry, LoadFromFile
<1>3. DOMAIN parts' = DOMAIN NoParts /\ Settled'
  BY <1>1, <1>2 DEF Settled, AllParts, NoParts
<1> QED
  BY <1>1, <1>3 DEF SwapInv

LEMMA SwapBegins ==
  ASSUME SwapInv, BeginSwap
  PROVE  SwapInv' /\ during'
<1>1. /\ spc # "start" /\ swap = 0 /\ deployed # "nothing" /\ swap' \in {0, 1} /\ during'
      /\ UNCHANGED <<parts, engine, modelVersion, deployed, spc>>
  BY DEF BeginSwap
<1> QED
  BY <1>1 DEF SwapInv, Settled

LEMMA SwapSteps ==
  ASSUME SwapInv, SwapStep
  PROVE  SwapInv' /\ during'
<1>1. /\ swap \in 1 .. 6 /\ parts' = Assigned(parts, UnpackOrder[swap]) /\ swap' = swap + 1 /\ during'
      /\ UNCHANGED <<engine, modelVersion, deployed, spc>>
  BY DEF SwapStep, UnpackOrder
<1>2. DOMAIN parts = DOMAIN NoParts
  BY DEF SwapInv
<1>3. CASE swap = 1
  BY <1>1, <1>2, <1>3 DEF SwapInv, UnpackOrder, Assigned, NoParts
<1>4. CASE swap = 2
  BY <1>1, <1>2, <1>4 DEF SwapInv, UnpackOrder, Assigned, NoParts
<1>5. CASE swap = 3
  BY <1>1, <1>2, <1>5 DEF SwapInv, UnpackOrder, Assigned, NoParts
<1>6. CASE swap = 4
  BY <1>1, <1>2, <1>6 DEF SwapInv, UnpackOrder, Assigned, NoParts
<1>7. CASE swap = 5
  BY <1>1, <1>2, <1>7 DEF SwapInv, UnpackOrder, Assigned, NoParts
<1>8. CASE swap = 6
  BY <1>1, <1>2, <1>8 DEF SwapInv, UnpackOrder, Assigned, NoParts
<1> QED
  BY <1>1, <1>3, <1>4, <1>5, <1>6, <1>7, <1>8

LEMMA SwapEnds ==
  ASSUME SwapInv, SwapVersion \/ EndSwap
  PROVE  SwapInv' /\ during'
<1>1. /\ during' /\ UNCHANGED <<parts, engine, deployed, spc>>
      /\ \/ swap = 7 /\ swap' = 8 /\ modelVersion' = "reg"
         \/ swap = 8 /\ swap' = 0 /\ modelVersion' = modelVersion
  BY DEF SwapVersion, EndSwap, UnpackOrder
<1>2. CASE swap = 7
  BY <1>1, <1>2 DEF SwapInv
<1>3. CASE swap = 8
  <2>1. deployed = "dict" => parts.model = "reg" /\ parts.scaler = "reg" /\ parts.lookup = "reg" /\ parts.params = "reg"
    BY <1>3 DEF SwapInv
  <2>2. parts.features = (IF deployed = "dict" THEN "reg" ELSE "none") /\ modelVersion = "reg"
    BY <1>3 DEF SwapInv
  <2>3. Settled'
    BY <1>1, <1>3, <2>1, <2>2 DEF Settled
  <2> QED
    BY <1>1, <1>3, <2>3 DEF SwapInv
<1> QED
  BY <1>1, <1>2, <1>3

-----------------------------------------------------------------------------
LEMMA ReadsInit == SInit => ReadsInv /\ MatrixInv
BY DEF SInit, ReadsInv, MatrixInv

(* Between two predictions nothing is being read.                          *)
LEMMA NotReading ==
  ASSUME DOMAIN used' = DOMAIN Signs, spc' \notin Reading, phase' # "matrix"
  PROVE  ReadsInv' /\ MatrixInv'
BY DEF ReadsInv, MatrixInv, Reading

(* The messages of a batch are those up to the last one.                   *)
LEMMA BatchUpTo ==
  ASSUME first \in Nat, NEW i \in Batch(first)
  PROVE  /\ i \in Nat /\ i \in DOMAIN Signs
         /\ \A m \in Batch(first) : m \in Nat /\ m \in DOMAIN Signs
         /\ i + 1 \notin Batch(first) => \A m \in Batch(first) : m <= i
<1>1. /\ i \in 1 .. Len(Signs) /\ DOMAIN Signs = 1 .. Len(Signs) /\ Len(Signs) \in Nat
      /\ first <= i /\ i < first + BatchSize
  BY ScorerAssumption DEF Batch
<1>2. ASSUME NEW m \in Batch(first), m > i, i + 1 \notin Batch(first) PROVE FALSE
  <2>1. m \in 1 .. Len(Signs) /\ m < first + BatchSize
    BY <1>1 DEF Batch
  <2>2. i + 1 \in 1 .. Len(Signs) /\ first <= i + 1 /\ i + 1 < first + BatchSize
    <3>1. i \in Nat /\ m \in Nat /\ i + 1 <= m
      BY <1>1, <1>2, <2>1
    <3>2. i + 1 \in 1 .. Len(Signs)
      BY <1>1, <2>1, <3>1
    <3> QED
      BY <1>1, <2>1, <3>1, <3>2, ScorerAssumption
  <2> QED
    BY <1>1, <1>2, <2>2 DEF Batch
<1>3. \A m \in Batch(first) : m \in Nat /\ m \in DOMAIN Signs
  BY <1>1 DEF Batch
<1> QED
  BY <1>1, <1>2, <1>3

LEMMA ReadsBegin ==
  ASSUME at \in DOMAIN Signs, BeginMessages
  PROVE  ReadsInv' /\ MatrixInv'
<1>1. /\ first' = at /\ at' = at /\ used' = [m \in DOMAIN Signs |-> {}] /\ batching' = batching
      /\ target' = "production"
      /\ \/ phase' = "matrix" /\ batching /\ spc' = "v_features"
         \/ phase' \in {"single", "post"} /\ spc' = "extract"
  BY DEF BeginMessages, modelVars
<1>2. at \in 1 .. Len(Signs) /\ Len(Signs) \in Nat /\ DOMAIN Signs = 1 .. Len(Signs)
  BY ScorerAssumption
<1>3. at \in Batch(first)' /\ \A m \in Batch(first)' : ~(m < at)
  <2>1. Batch(first)' = {n \in DOMAIN Signs : at <= n /\ n < at + BatchSize}
    BY <1>1 DEF Batch
  <2> QED
    BY <1>2, <2>1, ScorerAssumption
<1>4. CASE phase' = "matrix"
  BY <1>1, <1>3, <1>4 DEF ReadsInv, MatrixInv, Reading
<1>5. CASE phase' # "matrix"
  BY <1>1, <1>5, NotReading DEF Reading
<1> QED
  BY <1>4, <1>5

LEMMA ReadsExtract ==
  ASSUME ReadsInv, MatrixInv, Extract
  PROVE  ReadsInv' /\ MatrixInv'
<1>1. /\ spc = "extract" /\ phase' = phase /\ used' = used
      /\ spc' \in {"extract", "idle", "ask"} \/ (spc' = "v_features" /\ target' = "variant")
  BY DEF Extract, NextMessage, Conclude
<1>2. phase # "matrix"
  BY <1>1 DEF MatrixInv, Reading
<1>3. CASE spc' \in {"extract", "idle", "ask"}
  BY <1>1, <1>2, <1>3, NotReading DEF ReadsInv, Reading
<1>4. CASE spc' = "v_features" /\ target' = "variant"
  BY <1>1, <1>2, <1>4 DEF ReadsInv, MatrixInv
<1> QED
  BY <1>1, <1>3, <1>4

LEMMA ReadsAsk ==
  ASSUME ReadsInv, MatrixInv, at \in DOMAIN Signs, Ask
  PROVE  ReadsInv' /\ MatrixInv'
<1>1. spc = "ask"
  BY DEF Ask
<1>2. phase # "matrix"
  BY <1>1 DEF MatrixInv, Reading
<1>3. CASE override = NoScore
  BY <1>2, <1>3 DEF Ask, ReadsInv, MatrixInv, modelVars
<1>4. CASE override # NoScore
  <2>1. used' = used /\ spc' \in {"extract", "idle", "ask"} /\ phase' # "matrix"
    BY <1>2, <1>4 DEF Ask, GiveToBatch, Conclude, NextMessage
  <2> QED
    BY <2>1, NotReading DEF ReadsInv, Reading
<1> QED
  BY <1>3, <1>4

LEMMA ReadsRead ==
  ASSUME ReadsInv, MatrixInv, at \in DOMAIN Signs, Read
  PROVE  ReadsInv' /\ MatrixInv'
<1> PICK ps : ps = CASE spc = "v_features" -> {parts.features} [] spc = "lookup" -> {parts.lookup}
                     [] spc = "features" -> {parts.features} [] spc = "scale" -> {Scaling}
  OBVIOUS
<1>1. /\ UNCHANGED <<phase, first, target, during>> /\ UNCHANGED <<parts, batching>>
      /\ used' = [used EXCEPT ![at] = @ \cup ps]
      /\ \/ spc = "v_features" /\ spc' = "lookup" /\ at' = at
         \/ spc = "lookup" /\ spc' = "features" /\ at' = at
         \/ spc = "features" /\ spc' = "scale" /\ at' = at
         \/ spc = "scale" /\ phase = "matrix" /\ ~LastOfBatch /\ spc' = "v_features" /\ at' = at + 1
         \/ spc = "scale" /\ (phase = "matrix" => LastOfBatch) /\ spc' = "predict" /\ at' = at
  BY DEF Read, Reads, Scaling, modelVars
<1>2. /\ DOMAIN used' = DOMAIN Signs /\ used'[at] = used[at] \cup ps
      /\ \A m \in DOMAIN Signs : m # at => used'[m] = used[m]
  BY <1>1 DEF ReadsInv
<1>3. at \in Nat /\ DOMAIN Signs = 1 .. Len(Signs) /\ Len(Signs) \in Nat
  BY ScorerAssumption
<1>4. AllRead' = AllRead /\ Batch(first)' = Batch(first)
  BY <1>1 DEF AllRead, Scaling, Batch
<1>5. MatrixInv'
  <2> SUFFICES ASSUME phase = "matrix"
               PROVE  /\ batching /\ target = "production" /\ at' \in Batch(first) /\ spc' \in Reading
                      /\ spc' = "predict" => at' + 1 \notin Batch(first)
    BY <1>1, <1>4 DEF MatrixInv
  <2>1. batching /\ target = "production" /\ at \in Batch(first)
    BY DEF MatrixInv
  <2>2. LastOfBatch <=> at + 1 \notin Batch(first)
    BY <2>1 DEF LastOfBatch
  <2> QED
    BY <1>1, <2>1, <2>2 DEF Reading
<1>6. ASSUME ~during, target = "production"
      PROVE  /\ spc' = "v_features" => used'[at'] = {}
             /\ spc' = "lookup" => used'[at'] = {parts.features}
             /\ spc' \in {"features", "scale"} => used'[at'] = {parts.features, parts.lookup}
             /\ spc' = "predict" => used'[at'] = AllRead
             /\ phase = "matrix" =>
                  /\ \A m \in Batch(first) : m < at' => used'[m] = AllRead
                  /\ \A m \in DOMAIN Signs : m > at' => used'[m] = {}
  <2>1. /\ spc = "v_features" => used[at] = {}
        /\ spc = "lookup" => used[at] = {parts.features}
        /\ spc \in {"features", "scale"} => used[at] = {parts.features, parts.lookup}
        /\ phase = "matrix" => /\ \A m \in Batch(first) : m < at => used[m] = AllRead
                               /\ \A m \in DOMAIN Signs : m > at => used[m] = {}
    BY <1>6 DEF ReadsInv
  <2>2. /\ spc = "v_features" => used'[at] = {parts.features}
        /\ spc \in {"lookup", "features"} => used'[at] = {parts.features, parts.lookup}
        /\ spc = "scale" => used'[at] = AllRead
    BY <1>2, <2>1 DEF AllRead
  <2>3. CASE at' = at
    <3>1. phase = "matrix" => /\ \A m \in Batch(first) : m < at => used'[m] = AllRead
                              /\ \A m \in DOMAIN Signs : m > at => used'[m] = {}
      BY <1>2, <1>3, <2>1 DEF Batch
    <3>2. spc' = "predict" <=> spc = "scale"
      BY <1>1, <1>3, <2>3
    <3> QED
      BY <1>1, <1>3, <2>2, <2>3, <3>1, <3>2
  <2>4. CASE at' # at
    <3>1. spc = "scale" /\ phase = "matrix" /\ spc' = "v_features" /\ at' = at + 1 /\ at + 1 \in Batch(first)
      BY <1>1, <2>4 DEF LastOfBatch, MatrixInv
    <3>2. at + 1 \in DOMAIN Signs /\ at + 1 > at
      BY <1>3, <3>1 DEF Batch
    <3>3. used'[at'] = {}
      BY <1>2, <2>1, <3>1, <3>2
    <3>4. \A m \in Batch(first) : m < at + 1 => used'[m] = AllRead
      <4> TAKE m \in Batch(first)
      <4>1. m \in Nat /\ m \in DOMAIN Signs
        BY <1>3 DEF Batch
      <4>2. m < at + 1 => m < at \/ m = at
        BY <1>3, <4>1
      <4>3. m < at => m # at
        BY <1>3, <4>1
      <4> QED
        BY <1>2, <2>1, <2>2, <3>1, <4>1, <4>2, <4>3
    <3>5. \A m \in DOMAIN Signs : m > at + 1 => used'[m] = {}
      <4> TAKE m \in DOMAIN Signs
      <4>1. m > at + 1 => m > at /\ m # at
        BY <1>3
      <4> QED
        BY <1>2, <2>1, <3>1, <4>1
    <3> QED
      BY <3>1, <3>3, <3>4, <3>5
  <2> QED
    BY <2>3, <2>4
<1>7. ReadsInv'
  BY <1>1, <1>2, <1>4, <1>6 DEF ReadsInv
<1> QED
  BY <1>5, <1>7

LEMMA ReadsPredict ==
  ASSUME ReadsInv, MatrixInv, PredictMatrix \/ PredictOne \/ PredictVariant
  PROVE  ReadsInv' /\ MatrixInv'
<1>1. CASE PredictMatrix
  <2>1. used' = used /\ phase' \in {"each", "post"} /\ spc' \in {"ask", "extract"}
    BY <1>1 DEF PredictMatrix
  <2> QED
    BY <2>1, NotReading DEF ReadsInv, Reading
<1>2. CASE PredictOne
  <2>1. used' = used /\ phase' # "matrix" /\ spc' \in {"dead", "ask", "extract", "idle"}
    BY <1>2 DEF PredictOne, GiveToBatch, Conclude, NextMessage
  <2> QED
    BY <2>1, NotReading DEF ReadsInv, Reading
<1>3. CASE PredictVariant
  <2>1. used' = used /\ phase' = phase /\ spc' \in {"ask", "extract", "idle"} /\ phase # "matrix"
    BY <1>3 DEF PredictVariant, Conclude, NextMessage, MatrixInv
  <2> QED
    BY <2>1, NotReading DEF ReadsInv, Reading
<1> QED
  BY <1>1, <1>2, <1>3

LEMMA ReadsAside ==
  ASSUME ReadsInv, MatrixInv,
         StartScorer \/ UNCHANGED svars \/ BeginSwap \/ SwapStep \/ SwapVersion \/ EndSwap
  PROVE  ReadsInv' /\ MatrixInv'
<1>1. CASE StartScorer
  <2>1. spc = "start" /\ spc' = "idle" /\ UNCHANGED <<used, phase>>
    BY <1>1 DEF StartScorer
  <2>2. phase # "matrix"
    BY <2>1 DEF MatrixInv, Reading
  <2> QED
    BY <2>1, <2>2, NotReading DEF ReadsInv, Reading
<1>2. CASE UNCHANGED svars
  BY <1>2 DEF svars, ReadsInv, MatrixInv, Batch, AllRead, Scaling
<1>3. CASE BeginSwap \/ SwapStep \/ SwapVersion \/ EndSwap
  <2>1. during' /\ UNCHANGED <<used, phase, target, spc, at, first, batching>>
    BY <1>3 DEF BeginSwap, SwapStep, SwapVersion, EndSwap
  <2> QED
    BY <2>1 DEF ReadsInv, MatrixInv, Batch
<1> QED
  BY <1>1, <1>2, <1>3

-----------------------------------------------------------------------------
(* What has been scored.  A score in place, or of the batch, is one; and   *)
(* every message before the one at work has one, but for a batch that is   *)
(* scored ahead of its messages.                                           *)
ScoredBefore == IF phase \in {"matrix", "each"} THEN first ELSE at

ScoredInv ==
  /\ first \in Nat /\ at \in Nat /\ first <= at
  /\ override = NoScore \/ override.how # "none"
  /\ \A m \in DOMAIN Signs : batchScores[m] = NoScore \/ batchScores[m].how # "none"
  /\ \A m \in DOMAIN Signs \ Unscorable : m < ScoredBefore => result[m].how # "none"
  /\ phase \in {"matrix", "each"} => spc \notin {"start", "idle", "extract"} /\ target = "production"

LEMMA ScoredInit == SInit => ScoredInv
<1> SUFFICES ASSUME SInit PROVE ScoredInv
  OBVIOUS
<1>1. /\ first = 1 /\ at = 1 /\ override = NoScore /\ phase = "single"
      /\ batchScores = [m \in DOMAIN Signs |-> NoScore]
  BY DEF SInit
<1>2. \A m \in DOMAIN Signs : ~(m < 1)
  BY ScorerAssumption
<1> QED
  BY <1>1, <1>2 DEF ScoredInv, ScoredBefore

LEMMA HasScore ==
  ASSUME NEW m, NEW how, how # "none", NEW ps
  PROVE  ByRules(m).how # "none" /\ ByModel(m, how, ps).how # "none"
BY DEF ByRules, ByModel, NoScore

(* The message at work has its score, or needs none.                       *)
LEMMA ScoredNext ==
  ASSUME ScoresInv, ScoredInv, at \in DOMAIN Signs, phase \notin {"matrix", "each"},
         NextMessage, override' = NoScore, UNCHANGED <<batchScores, phase, first>>,
         \A m \in DOMAIN Signs \ {at} : result'[m] = result[m],
         at \in Unscorable \/ result'[at].how # "none"
  PROVE  ScoredInv'
<1>1. first \in Nat /\ at \in Nat /\ first <= at /\ \A m \in DOMAIN Signs : m \in Nat
  BY ScorerAssumption DEF ScoredInv
<1>2. at' = at + 1 /\ ScoredBefore = at /\ ScoredBefore' = at + 1
  BY DEF NextMessage, ScoredBefore
<1>3. ASSUME NEW m \in DOMAIN Signs \ Unscorable, m < at + 1 PROVE result'[m].how # "none"
  <2>1. m = at \/ m < at
    BY <1>1, <1>3
  <2>2. CASE m = at
    BY <2>2
  <2>3. CASE m # at /\ m < at
    BY <1>2, <2>3 DEF ScoredInv
  <2> QED
    BY <2>1, <2>2, <2>3
<1> QED
  BY <1>1, <1>2, <1>3 DEF ScoredInv

LEMMA ScoredConclude ==
  ASSUME ScoresInv, ScoredInv, at \in DOMAIN Signs, phase \notin {"matrix", "each"},
         NEW score, score.how # "none", Conclude(score), UNCHANGED <<batchScores, phase, first>>
  PROVE  ScoredInv'
<1>1. NextMessage /\ override' = NoScore /\ result' = [result EXCEPT ![at] = score]
  BY DEF Conclude, AfterExtract
<1>2. result'[at] = score /\ \A m \in DOMAIN Signs \ {at} : result'[m] = result[m]
  BY <1>1 DEF ScoresInv
<1> QED
  BY <1>1, <1>2, ScoredNext

LEMMA ScoredForBatch ==
  ASSUME ScoresInv, ScoredInv, at \in DOMAIN Signs, phase = "each",
         NEW score, score.how # "none", GiveToBatch(score), first' = first,
         target' = target \/ target' = "production"
  PROVE  ScoredInv'
<1>1. first \in Nat /\ at \in Nat /\ first <= at
  BY DEF ScoredInv
<1>2. /\ batchScores' = [batchScores EXCEPT ![at] = score] /\ UNCHANGED <<override, result>>
      /\ \/ phase' = "post" /\ at' = first
         \/ phase' = phase /\ spc' = "ask" /\ at' = at + 1
  BY DEF GiveToBatch
<1>3. ScoredBefore = first /\ ScoredBefore' = first
  BY <1>2 DEF ScoredBefore
<1>4. \A m \in DOMAIN Signs : batchScores'[m] = NoScore \/ batchScores'[m].how # "none"
  BY <1>2 DEF ScoredInv, ScoresInv
<1> QED
  BY <1>1, <1>2, <1>3, <1>4 DEF ScoredInv

(* The steps that give no score.                                           *)
LEMMA ScoredStays ==
  ASSUME ScoredInv, UNCHANGED <<first, result>>, at' \in Nat, first <= at',
         override' = NoScore \/ override'.how # "none",
         \A m \in DOMAIN Signs : batchScores'[m] = NoScore \/ batchScores'[m].how # "none",
         ScoredBefore' = ScoredBefore,
         phase' \in {"matrix", "each"} => spc' \notin {"start", "idle", "extract"} /\ target' = "production"
  PROVE  ScoredInv'
BY DEF ScoredInv

LEMMA ScoredExtract ==
  ASSUME ScoresInv, ScoredInv, at \in DOMAIN Signs, Extract
  PROVE  ScoredInv'
<1> PICK placed : placed = IF phase = "post" /\ batchScores[at] # NoScore THEN batchScores[at] ELSE override
  OBVIOUS
<1>1. /\ spc = "extract" /\ UNCHANGED <<batchScores, phase, first>>
      /\ \/ at \in Unscorable /\ override' = AfterExtract(TRUE, placed) /\ NextMessage /\ UNCHANGED result
         \/ Conclude(ByRules(at))
         \/ override' = placed /\ UNCHANGED <<at, result>>
  BY DEF Extract
<1>2. phase \notin {"matrix", "each"} /\ (placed = NoScore \/ placed.how # "none")
  BY <1>1 DEF ScoredInv
<1>3. CASE at \in Unscorable /\ override' = AfterExtract(TRUE, placed) /\ NextMessage /\ UNCHANGED result
  BY <1>1, <1>2, <1>3, ScoredNext DEF AfterExtract
<1>4. CASE Conclude(ByRules(at))
  <2>1. ByRules(at).how # "none"
    BY DEF ByRules, NoScore
  <2> QED
    BY <1>1, <1>2, <1>4, <2>1, ScoredConclude
<1>5. CASE override' = placed /\ UNCHANGED <<at, result>>
  BY <1>1, <1>2, <1>5, ScoredStays DEF ScoredInv, ScoredBefore
<1> QED
  BY <1>1, <1>3, <1>4, <1>5

LEMMA ScoredAsk ==
  ASSUME ScoresInv, ScoredInv, at \in DOMAIN Signs, MatrixInv, Ask
  PROVE  ScoredInv'
<1>1. spc = "ask" /\ first' = first /\ target' = "production"
  BY DEF Ask
<1>2. phase # "matrix"
  BY <1>1 DEF MatrixInv, Reading
<1>3. CASE override = NoScore
  <2>1. UNCHANGED <<at, phase, batchScores, override, result>> /\ spc' = "v_features"
    BY <1>3 DEF Ask
  <2> QED
    BY <1>1, <2>1, ScoredStays DEF ScoredInv, ScoredBefore
<1>4. CASE override # NoScore
  <2>1. override.how # "none"
    BY <1>4 DEF ScoredInv
  <2>2. CASE phase = "each"
    BY <1>1, <1>4, <2>1, <2>2, ScoredForBatch DEF Ask
  <2>3. CASE phase # "each"
    <3>1. Conclude(override) /\ UNCHANGED <<phase, batchScores>>
      BY <1>4, <2>3 DEF Ask
    <3> QED
      BY <1>1, <1>2, <2>1, <2>3, <3>1, ScoredConclude
  <2> QED
    BY <2>2, <2>3
<1> QED
  BY <1>3, <1>4

LEMMA ScoredRead ==
  ASSUME ScoredInv, at \in DOMAIN Signs, Read
  PROVE  ScoredInv'
<1>1. /\ UNCHANGED <<first, result, override, batchScores, phase, target>>
      /\ spc' \in Reading
      /\ at' = at \/ (at' = at + 1 /\ phase = "matrix")
  BY DEF Read, Reading
<1>2. first \in Nat /\ at \in Nat /\ first <= at
  BY DEF ScoredInv
<1>3. at' \in Nat /\ first <= at'
  BY <1>1, <1>2
<1>4. ScoredBefore' = ScoredBefore
  BY <1>1 DEF ScoredBefore
<1> QED
  BY <1>1, <1>3, <1>4, ScoredStays DEF ScoredInv, Reading

LEMMA ScoredMatrix ==
  ASSUME ScoredInv, PredictMatrix
  PROVE  ScoredInv'
<1> PICK whole : whole = [m \in Batch(first) |-> used[m] \cup {parts.model}]
  OBVIOUS
<1>1. /\ phase = "matrix" /\ UNCHANGED <<first, result, override, target>> /\ at' = first
      /\ \/ phase' = "each" /\ spc' = "ask"
         \/ phase' = "post" /\ spc' = "extract"
      /\ \/ UNCHANGED batchScores
         \/ batchScores' = [m \in DOMAIN Signs |-> IF m \in Batch(first)
                                                    THEN ByModel(m, "model", whole[m]) ELSE NoScore]
  BY DEF PredictMatrix
<1>2. \A m \in DOMAIN Signs : batchScores'[m] = NoScore \/ batchScores'[m].how # "none"
  <2>1. \A m \in DOMAIN Signs : ByModel(m, "model", whole[m]).how # "none"
    BY HasScore
  <2> QED
    BY <1>1, <2>1 DEF ScoredInv
<1>3. ScoredBefore' = first /\ ScoredBefore = first /\ first \in Nat /\ first <= first
  BY <1>1 DEF ScoredBefore, ScoredInv
<1> QED
  BY <1>1, <1>2, <1>3, ScoredStays DEF ScoredInv

LEMMA ScoredOne ==
  ASSUME ScoresInv, ScoredInv, at \in DOMAIN Signs, PredictOne
  PROVE  ScoredInv'
<1> PICK ps : ps = used[at] \cup {IF engine THEN "file" ELSE parts.model}
  OBVIOUS
<1>1. PICK score :
        /\ score = Fallback(at) \/ score = ByModel(at, "model", ps)
        /\ phase # "matrix" /\ UNCHANGED <<first, target>>
        /\ \/ phase = "each" /\ spc' = "dead" /\ UNCHANGED <<at, phase, batchScores, override, result>>
           \/ phase = "each" /\ GiveToBatch(score)
           \/ phase # "each" /\ Conclude(score) /\ UNCHANGED <<phase, batchScores>>
  BY DEF PredictOne
<1>2. score.how # "none"
  BY <1>1, HasScore DEF Fallback
<1>3. CASE phase = "each" /\ spc' = "dead" /\ UNCHANGED <<at, phase, batchScores, override, result>>
  BY <1>1, <1>3, ScoredStays DEF ScoredInv, ScoredBefore
<1>4. CASE phase = "each" /\ GiveToBatch(score)
  BY <1>1, <1>2, <1>4, ScoredForBatch
<1>5. CASE phase # "each" /\ Conclude(score) /\ UNCHANGED <<phase, batchScores>>
  BY <1>1, <1>2, <1>5, ScoredConclude
<1> QED
  BY <1>1, <1>3, <1>4, <1>5

LEMMA ScoredVariant ==
  ASSUME ScoresInv, ScoredInv, at \in DOMAIN Signs, PredictVariant
  PROVE  ScoredInv'
<1>1. /\ UNCHANGED <<batchScores, phase, first>> /\ phase \notin {"matrix", "each"}
      /\ \/ Conclude(ByModel(at, "variant", used[at]))
         \/ spc' = "ask" /\ UNCHANGED <<at, override, result>>
  BY DEF PredictVariant, ScoredInv
<1>2. ByModel(at, "variant", used[at]).how # "none"
  BY HasScore
<1>3. CASE spc' = "ask" /\ UNCHANGED <<at, override, result>>
  BY <1>1, <1>3, ScoredStays DEF ScoredInv, ScoredBefore
<1> QED
  BY <1>1, <1>2, <1>3, ScoredConclude

LEMMA ScoredAside ==
  ASSUME ScoredInv, at \in DOMAIN Signs \/ UNCHANGED svars,
         StartScorer \/ BeginMessages \/ UNCHANGED svars
            \/ BeginSwap \/ SwapStep \/ SwapVersion \/ EndSwap
  PROVE  ScoredInv'
<1>1. CASE StartScorer
  <2>1. spc = "start" /\ UNCHANGED <<result, batchScores, override, at, first, phase, target>>
    BY <1>1 DEF StartScorer
  <2> QED
    BY <2>1, ScoredStays DEF ScoredInv, ScoredBefore
<1>2. CASE BeginMessages
  <2>1. /\ spc = "idle" /\ first' = at /\ at' = at /\ UNCHANGED <<override, result>> /\ target' = "production"
        /\ batchScores' = [m \in DOMAIN Signs |-> NoScore]
        /\ phase' \in {"matrix", "each"} => spc' = "v_features"
    BY <1>2 DEF BeginMessages
  <2>2. /\ at \in Nat /\ ScoredBefore = at /\ ScoredBefore' = at
    BY <2>1 DEF ScoredInv, ScoredBefore
  <2>3. \A m \in DOMAIN Signs : batchScores'[m] = NoScore
    BY <2>1
  <2> QED
    BY <2>1, <2>2, <2>3 DEF ScoredInv
<1>3. CASE UNCHANGED svars
  BY <1>3, ScoredStays DEF svars, ScoredInv, ScoredBefore
<1>4. CASE BeginSwap \/ SwapStep \/ SwapVersion \/ EndSwap
  <2>1. UNCHANGED <<result, batchScores, override, at, first, phase, spc, target>>
    BY <1>4 DEF BeginSwap, SwapStep, SwapVersion, EndSwap
  <2> QED
    BY <2>1, ScoredStays DEF ScoredInv, ScoredBefore
<1> QED
  BY <1>1, <1>2, <1>3, <1>4

LEMMA ScoredStep ==
  ASSUME ScoresInv, ScoredInv, MatrixInv, [SNext]_svars
  PROVE  ScoredInv'
<1>1. UNCHANGED svars \/ at \in DOMAIN Signs
  BY DEF SNext
<1> QED
  BY <1>1, ScoredAside, ScoredExtract, ScoredAsk, ScoredRead, ScoredMatrix, ScoredOne, ScoredVariant DEF SNext

-----------------------------------------------------------------------------
(* The models that made the scores.                                        *)
LEMMA OneModelStays ==
  ASSUME NEW score, OneModel(score), EngineApart => EngineApart'
  PROVE  OneModel(score)'
BY DEF OneModel

(* The engine stays, and so does the registry's version, once loaded.      *)
LEMMA ApartStays ==
  ASSUME SwapInv, [SNext]_svars
  PROVE  EngineApart => EngineApart'
<1>1. CASE StartScorer
  BY <1>1 DEF StartScorer, SwapInv, EngineApart
<1>2. CASE ~StartScorer
  <2>1. /\ engine' = engine
        /\ modelVersion' = modelVersion \/ modelVersion' = "reg"
    BY <1>2 DEF SNext, svars, modelVars, BeginMessages, Extract, Ask, Read, PredictMatrix, PredictOne,
                PredictVariant, BeginSwap, SwapStep, SwapVersion, EndSwap
  <2> QED
    BY <2>1 DEF EngineApart
<1> QED
  BY <1>1, <1>2

LEMMA ModelsStay ==
  ASSUME OneModels, EngineApart => EngineApart', UNCHANGED <<override, batchScores, result>>
  PROVE  OneModels'
<1>1. \A score : OneModel(score) => OneModel(score)'
  BY OneModelStays
<1> QED
  BY <1>1 DEF OneModels, OneModel

LEMMA NoScoreOneModel == OneModel(NoScore)' /\ \A m : OneModel(ByRules(m))'
BY DEF OneModel, NoScore, ByRules

LEMMA ModelsConclude ==
  ASSUME OneModels, ScoresInv, EngineApart => EngineApart', at \in DOMAIN Signs,
         NEW score, OneModel(score)', Conclude(score), UNCHANGED batchScores
  PROVE  OneModels'
<1>1. override' = NoScore /\ result' = [result EXCEPT ![at] = score]
  BY DEF Conclude, AfterExtract
<1>2. result'[at] = score /\ \A m \in DOMAIN Signs \ {at} : result'[m] = result[m]
  BY <1>1 DEF ScoresInv
<1>3. \A s : OneModel(s) => OneModel(s)'
  BY OneModelStays
<1>4. \A m \in DOMAIN Signs : OneModel(batchScores[m])' /\ OneModel(result[m])'
  <2> TAKE m \in DOMAIN Signs
  <2>1. OneModel(batchScores[m])'
    BY <1>3 DEF OneModels, OneModel
  <2>2. OneModel(result[m])'
    <3>1. CASE m = at
      BY <1>2, <3>1 DEF OneModel
    <3>2. CASE m # at
      BY <1>2, <1>3, <3>2 DEF OneModels, OneModel
    <3> QED
      BY <3>1, <3>2
  <2> QED
    BY <2>1, <2>2
<1>5. OneModel(override)'
  BY <1>1, NoScoreOneModel DEF OneModel
<1> QED
  BY <1>4, <1>5 DEF OneModels

LEMMA ModelsForBatch ==
  ASSUME OneModels, ScoresInv, EngineApart => EngineApart', at \in DOMAIN Signs,
         NEW score, OneModel(score)', GiveToBatch(score)
  PROVE  OneModels'
<1>1. batchScores' = [batchScores EXCEPT ![at] = score] /\ UNCHANGED <<override, result>>
  BY DEF GiveToBatch
<1>2. batchScores'[at] = score /\ \A m \in DOMAIN Signs \ {at} : batchScores'[m] = batchScores[m]
  BY <1>1 DEF ScoresInv
<1>3. \A s : OneModel(s) => OneModel(s)'
  BY OneModelStays
<1>4. \A m \in DOMAIN Signs : OneModel(batchScores[m])' /\ OneModel(result[m])'
  <2> TAKE m \in DOMAIN Signs
  <2>1. OneModel(result[m])'
    BY <1>1, <1>3 DEF OneModels, OneModel
  <2>2. OneModel(batchScores[m])'
    <3>1. CASE m = at
      BY <1>2, <3>1 DEF OneModel
    <3>2. CASE m # at
      BY <1>2, <1>3, <3>2 DEF OneModels, OneModel
    <3> QED
      BY <3>1, <3>2
  <2> QED
    BY <2>1, <2>2
<1>5. OneModel(override)'
  BY <1>1, <1>3 DEF OneModels, OneModel
<1> QED
  BY <1>4, <1>5 DEF OneModels

(* What no replacement overlapped was read of one model.                   *)
LEMMA OneModelRead ==
  ASSUME SwapInv, ~during, ~EngineApart, NEW q, q = parts.model \/ (engine /\ q = "file"),
         "none" \notin AllRead \cup {q}
  PROVE  \E v : AllRead \cup {q} = {v}
<1>1. Settled
  BY DEF SwapInv
<1>2. parts.features # "none" /\ q # "none"
  BY DEF AllRead
<1>3. PICK v \in {"file", "reg"} :
         /\ parts.scaler = v /\ parts.features = v /\ parts.lookup = v /\ parts.params = v
         /\ parts.model \in {v, "none"}
         /\ v = "reg" => modelVersion = "reg"
  BY <1>1, <1>2 DEF Settled
<1>4. AllRead = {v}
  BY <1>3 DEF AllRead, Scaling
<1>5. q = v
  BY <1>2, <1>3 DEF EngineApart
<1> QED
  BY <1>4, <1>5

LEMMA ScoreNeedsAll == ASSUME NEW ps, Predicts(ps, "score") PROVE "none" \notin ps
BY DEF Predicts, Outcomes

LEMMA ModelsExtract ==
  ASSUME OneModels, ScoresInv, EngineApart => EngineApart', at \in DOMAIN Signs, Extract
  PROVE  OneModels'
<1> PICK placed : placed = IF phase = "post" /\ batchScores[at] # NoScore THEN batchScores[at] ELSE override
  OBVIOUS
<1> PICK r : r = ByRules(at)
  OBVIOUS
<1> PICK none : none = NoScore
  OBVIOUS
<1>1. /\ UNCHANGED batchScores
      /\ \/ override' = none /\ UNCHANGED result
         \/ Conclude(r)
         \/ override' = placed /\ UNCHANGED result
  BY DEF Extract, AfterExtract
<1>2. OneModel(placed)' /\ OneModel(none)' /\ OneModel(r)'
  <2>1. OneModel(placed)
    BY DEF OneModels
  <2> QED
    BY <2>1, OneModelStays, NoScoreOneModel DEF OneModel
<1>3. ASSUME NEW s, OneModel(s)', override' = s, UNCHANGED <<batchScores, result>> PROVE OneModels'
  <2>1. \A score : OneModel(score) => OneModel(score)'
    BY OneModelStays
  <2> QED
    BY <1>3, <2>1 DEF OneModels, OneModel
<1> QED
  BY <1>1, <1>2, <1>3, ModelsConclude

LEMMA ModelsAsk ==
  ASSUME OneModels, ScoresInv, EngineApart => EngineApart', at \in DOMAIN Signs, Ask
  PROVE  OneModels'
<1>1. \/ UNCHANGED <<batchScores, override, result>>
      \/ GiveToBatch(override)
      \/ Conclude(override) /\ UNCHANGED batchScores
  BY DEF Ask
<1>2. OneModel(override)
  BY DEF OneModels
<1> PICK s : s = override
  OBVIOUS
<1>3. OneModel(s)'
  BY <1>2, OneModelStays
<1> QED
  BY <1>1, <1>3, ModelsStay, ModelsForBatch, ModelsConclude

LEMMA ModelsMatrix ==
  ASSUME OneModels, SwapInv, ReadsInv, MatrixInv, first \in Nat, EngineApart => EngineApart', PredictMatrix
  PROVE  OneModels'
<1> PICK whole : whole = [m \in Batch(first) |-> used[m] \cup {parts.model}]
  OBVIOUS
<1>1. /\ phase = "matrix" /\ spc = "predict" /\ UNCHANGED <<override, result, during, engine, modelVersion>>
      /\ \/ UNCHANGED batchScores
         \/ /\ Predicts(UNION {whole[m] : m \in Batch(first)}, "score")
            /\ batchScores' = [m \in DOMAIN Signs |-> IF m \in Batch(first)
                                                       THEN ByModel(m, "model", whole[m]) ELSE NoScore]
  BY DEF PredictMatrix, modelVars
<1>2. CASE UNCHANGED batchScores
  BY <1>1, <1>2, ModelsStay
<1>3. CASE /\ Predicts(UNION {whole[m] : m \in Batch(first)}, "score")
           /\ batchScores' = [m \in DOMAIN Signs |-> IF m \in Batch(first)
                                                      THEN ByModel(m, "model", whole[m]) ELSE NoScore]
  <2>1. "none" \notin UNION {whole[m] : m \in Batch(first)}
    BY <1>3, ScoreNeedsAll
  <2>2. ASSUME NEW m \in Batch(first), ~during, ~EngineApart PROVE \E v : whole[m] = {v}
    <3>1. at \in Batch(first) /\ at + 1 \notin Batch(first) /\ target = "production"
      BY <1>1 DEF MatrixInv
    <3>2. m = at \/ m < at
      <4>1. at \in Nat /\ m \in Nat /\ m <= at
        BY <3>1, BatchUpTo
      <4> QED
        BY <4>1
    <3>3. used[m] = AllRead
      BY <1>1, <2>2, <3>1, <3>2 DEF ReadsInv
    <3>4. whole[m] = AllRead \cup {parts.model} /\ "none" \notin AllRead \cup {parts.model}
      BY <2>1, <3>3
    <3> QED
      BY <2>2, <3>4, OneModelRead
  <2>3. ASSUME NEW m \in Batch(first) PROVE OneModel(ByModel(m, "model", whole[m]))'
    <3> PICK w : w = whole[m]
      OBVIOUS
    <3>1. ByModel(m, "model", w).used = w /\ ByModel(m, "model", w).during = during
      BY DEF ByModel, NoScore
    <3> PICK s : s = ByModel(m, "model", w)
      OBVIOUS
    <3>2. s.used = w /\ s.during = during
      BY <3>1
    <3>3. EngineApart' <=> EngineApart
      BY <1>1 DEF EngineApart
    <3>4. OneModel(s)'
      BY <2>2, <3>2, <3>3 DEF OneModel
    <3>5. s = ByModel(m, "model", whole[m])'
      BY <1>1 DEF ByModel
    <3> QED
      BY <3>4, <3>5 DEF OneModel
  <2>4. ASSUME NEW m \in DOMAIN Signs PROVE OneModel(batchScores[m])'
    <3>1. CASE m \in Batch(first)
      <4>1. batchScores'[m] = ByModel(m, "model", whole[m])
        BY <1>3, <3>1
      <4>2. ByModel(m, "model", whole[m]) = ByModel(m, "model", whole[m])'
        BY <1>1 DEF ByModel
      <4> QED
        BY <2>3, <3>1, <4>1, <4>2 DEF OneModel
    <3>2. CASE m \notin Batch(first)
      BY <1>3, <3>2, NoScoreOneModel DEF OneModel
    <3> QED
      BY <3>1, <3>2
  <2>5. \A s : OneModel(s) => OneModel(s)'
    BY OneModelStays
  <2> QED
    BY <1>1, <2>4, <2>5 DEF OneModels, OneModel
<1> QED
  BY <1>1, <1>2, <1>3

LEMMA ModelsOne ==
  ASSUME OneModels, ScoresInv, SwapInv, ReadsInv, at \in DOMAIN Signs, EngineApart => EngineApart', PredictOne
  PROVE  OneModels'
<1> PICK q : q = IF engine THEN "file" ELSE parts.model
  OBVIOUS
<1> PICK ps : ps = used[at] \cup {q}
  OBVIOUS
<1>1. /\ spc = "predict" /\ target = "production" /\ UNCHANGED <<during, engine, modelVersion>>
      /\ \E outcome \in {"raises", "score"} : \E score :
           /\ Predicts(ps, outcome)
           /\ score = IF outcome = "raises" THEN Fallback(at) ELSE ByModel(at, "model", ps)
           /\ \/ UNCHANGED <<at, phase, batchScores, override, result>>
              \/ GiveToBatch(score)
              \/ Conclude(score) /\ UNCHANGED <<phase, batchScores>>
  BY DEF PredictOne, modelVars
<1>2. PICK outcome \in {"raises", "score"} : \E score :
           /\ Predicts(ps, outcome)
           /\ score = IF outcome = "raises" THEN Fallback(at) ELSE ByModel(at, "model", ps)
           /\ \/ UNCHANGED <<at, phase, batchScores, override, result>>
              \/ GiveToBatch(score)
              \/ Conclude(score) /\ UNCHANGED <<phase, batchScores>>
  BY <1>1
<1>a. PICK score :
           /\ score = IF outcome = "raises" THEN Fallback(at) ELSE ByModel(at, "model", ps)
           /\ \/ UNCHANGED <<at, phase, batchScores, override, result>>
              \/ GiveToBatch(score)
              \/ Conclude(score) /\ UNCHANGED <<phase, batchScores>>
  BY <1>2
<1>3. OneModel(score)'
  <2>1. CASE outcome = "raises"
    BY <1>a, <2>1 DEF OneModel, Fallback, ByRules, NoScore
  <2>2. CASE outcome = "score"
    <3>1. score.used = ps /\ score.during = during
      BY <1>a, <2>2 DEF ByModel, NoScore
    <3>2. EngineApart' <=> EngineApart
      BY <1>1 DEF EngineApart
    <3>3. ASSUME ~during, ~EngineApart PROVE \E v : ps = {v}
      <4>1. used[at] = AllRead
        BY <1>1, <3>3 DEF ReadsInv
      <4>2. ps = AllRead \cup {q} /\ "none" \notin AllRead \cup {q}
        BY <1>2, <2>2, <4>1, ScoreNeedsAll
      <4> QED
        BY <3>3, <4>2, OneModelRead
    <3> QED
      BY <3>1, <3>2, <3>3 DEF OneModel
  <2> QED
    BY <2>1, <2>2
<1> QED
  BY <1>a, <1>3, ModelsStay, ModelsForBatch, ModelsConclude

LEMMA ModelsVariant ==
  ASSUME OneModels, ScoresInv, at \in DOMAIN Signs, EngineApart => EngineApart', PredictVariant
  PROVE  OneModels'
<1> PICK s : s = ByModel(at, "variant", used[at])
  OBVIOUS
<1>1. /\ UNCHANGED batchScores
      /\ Conclude(s) \/ UNCHANGED <<override, result>>
  BY DEF PredictVariant
<1>2. OneModel(s)'
  BY DEF OneModel, ByModel, NoScore
<1> QED
  BY <1>1, <1>2, ModelsStay, ModelsConclude

LEMMA ModelsAside ==
  ASSUME OneModels, EngineApart => EngineApart',
         StartScorer \/ BeginMessages \/ Read \/ UNCHANGED svars
            \/ BeginSwap \/ SwapStep \/ SwapVersion \/ EndSwap
  PROVE  OneModels'
<1>1. CASE BeginMessages
  <2>1. UNCHANGED <<override, result>> /\ \A m \in DOMAIN Signs : batchScores'[m] = NoScore
    BY <1>1 DEF BeginMessages
  <2>2. \A s : OneModel(s) => OneModel(s)'
    BY OneModelStays
  <2> QED
    BY <2>1, <2>2, NoScoreOneModel DEF OneModels, OneModel
<1>2. CASE ~BeginMessages
  <2>1. UNCHANGED <<override, batchScores, result>>
    BY <1>2 DEF StartScorer, Read, svars, BeginSwap, SwapStep, SwapVersion, EndSwap
  <2> QED
    BY <2>1, ModelsStay
<1> QED
  BY <1>1, <1>2

LEMMA WholeInit == SInit => WholeInv /\ ScoredInv
<1>1. SInit => OneModels
  BY DEF SInit, OneModels, OneModel, NoScore
<1> QED
  BY <1>1, ScoresInit, SwapInit, ReadsInit, ScoredInit DEF WholeInv

LEMMA SwapNext == SwapInv /\ [SNext]_svars => SwapInv'
<1> SUFFICES ASSUME SwapInv, [SNext]_svars PROVE SwapInv'
  OBVIOUS
<1>1. CASE BeginMessages
  <2>1. UNCHANGED modelVars /\ spc' # "start" /\ (~during' => swap' = 0)
    BY <1>1 DEF BeginMessages, modelVars
  <2> QED
    BY <2>1, SwapStays
<1>2. CASE Extract \/ Ask \/ Read \/ PredictMatrix \/ PredictOne \/ PredictVariant
  <2>1. UNCHANGED modelVars /\ during' = during /\ (spc' = "start" => spc = "start")
    BY <1>2 DEF Extract, Ask, Read, PredictMatrix, PredictOne, PredictVariant, Conclude, GiveToBatch, NextMessage
  <2>2. ~during' => swap' = 0
    BY <2>1 DEF SwapInv, modelVars
  <2> QED
    BY <2>1, <2>2, SwapStays
<1>3. CASE UNCHANGED svars
  BY <1>3, SwapStays DEF svars, modelVars, SwapInv
<1> QED
  BY <1>1, <1>2, <1>3, SwapStart, SwapBegins, SwapSteps, SwapEnds DEF SNext

LEMMA WholeNext == WholeInv /\ ScoredInv /\ [SNext]_svars => WholeInv' /\ ScoredInv'
<1> SUFFICES ASSUME WholeInv, ScoredInv, [SNext]_svars PROVE WholeInv' /\ ScoredInv'
  OBVIOUS
<1>0. ScoresInv /\ SwapInv /\ ReadsInv /\ MatrixInv /\ OneModels /\ first \in Nat
  BY DEF WholeInv, ScoredInv
<1>1. ScoresInv' /\ SwapInv' /\ ScoredInv'
  BY <1>0, ScoresNext, SwapNext, ScoredStep
<1>2. UNCHANGED svars \/ at \in DOMAIN Signs
  BY DEF SNext
<1>3. ReadsInv' /\ MatrixInv'
  BY <1>0, <1>2, ReadsBegin, ReadsExtract, ReadsAsk, ReadsRead, ReadsPredict, ReadsAside DEF SNext
<1>4. EngineApart => EngineApart'
  BY <1>0, ApartStays
<1>5. OneModels'
  BY <1>0, <1>2, <1>4, ModelsExtract, ModelsAsk, ModelsMatrix, ModelsOne, ModelsVariant, ModelsAside DEF SNext
<1> QED
  BY <1>1, <1>3, <1>5 DEF WholeInv

(* A message that is scored while no replacement of the model is going on  *)
(* (_unpack_model_data, whose lock the scoring thread never takes) is      *)
(* scored by one model: its names, its encoders, its scaling and its       *)
(* prediction.                                                             *)
THEOREM ScoresAreOfOneModel == SSpec => []WholeModelOutsideSwaps
<1>1. WholeInv => WholeModelOutsideSwaps
  <2> SUFFICES ASSUME WholeInv, NEW m \in DOMAIN Signs, result[m].how = "model", ~result[m].during,
                      ~(engine /\ modelVersion = "reg")
               PROVE  Cardinality(result[m].used) = 1
    BY DEF WholeModelOutsideSwaps
  <2>1. PICK v : result[m].used = {v}
    BY DEF WholeInv, OneModels, OneModel, EngineApart
  <2> QED
    BY <2>1, FS_Singleton
<1> QED
  BY WholeInit, WholeNext, <1>1, PTL DEF SSpec

(* No failure of the model, at no moment of a replacement, leaves a        *)
(* message without a score (_calculate_fraud_score scores what the model   *)
(* does not), but one whose amount is not a number.                        *)
THEOREM EveryMessageIsScored == SSpec => []EveryAmountIsScored
<1>1. ScoredInv => EveryAmountIsScored
  <2> SUFFICES ASSUME ScoredInv, NEW m \in DOMAIN Signs \ Unscorable, m < first
               PROVE  result[m].how # "none"
    BY DEF EveryAmountIsScored
  <2>1. m \in Nat /\ first \in Nat /\ at \in Nat /\ first <= at
    BY ScorerAssumption DEF ScoredInv
  <2>2. m < ScoredBefore
    BY <2>1 DEF ScoredBefore
  <2> QED
    BY <2>2 DEF ScoredInv
<1> QED
  BY WholeInit, WholeNext, <1>1, PTL DEF SSpec

-----------------------------------------------------------------------------
(* The producer.                                                           *)

PSpec == PInit /\ [][PNext]_pvars

Counts == [total : Int, fraud : Int, legitimate : Int, errors : Int]
Queue == [waiting : Int, delivered : Int, failed : Int]

(* A worker loses a transaction only by leaving its loop.                  *)
BalanceInv ==
  /\ stats \in [Workers -> Counts] /\ buffer \in [Workers -> Queue] /\ lost \in [Workers -> Int]
  /\ wpc \in [Workers -> {"look", "create", "loop", "batch", "flush", "report", "done", "killed"}]
  /\ \A w \in Workers : wpc[w] \in {"look", "create", "loop", "batch"} => lost[w] = 0
  /\ StatisticsBalance

LEMMA BalanceInit == PInit => BalanceInv
BY DEF PInit, BalanceInv, StatisticsBalance, Buffered, NoStats, EmptyBuffer, Counts, Queue

(* Counts of which some are set are counts.                                *)
LEMMA SetCounts ==
  ASSUME NEW s \in Counts, NEW n \in Int, NEW m \in Int, NEW e \in Int
  PROVE  /\ [s EXCEPT !.fraud = n, !.legitimate = m, !.errors = e] \in Counts
         /\ [s EXCEPT !.total = n, !.errors = e] \in Counts
         /\ [s EXCEPT !.legitimate = n] \in Counts
BY DEF Counts

(* A transaction is counted once, and once more if it is an error.         *)
LEMMA Produced ==
  ASSUME NEW s \in Counts, NEW fraud \in BOOLEAN, NEW queued \in BOOLEAN
  PROVE  LET t == CountProduced(s, fraud, queued)
         IN /\ t \in Counts /\ t.fraud + t.legitimate = s.fraud + s.legitimate + 1
            /\ t.total = s.total /\ t.errors = s.errors + (IF queued THEN 0 ELSE 1)
<1> DEFINE n == s.fraud + (IF fraud THEN 1 ELSE 0)
           m == s.legitimate + (IF fraud THEN 0 ELSE 1)
           e == s.errors + (IF queued THEN 0 ELSE 1)
           t == CountProduced(s, fraud, queued)
<1>1. t = [s EXCEPT !.fraud = n, !.legitimate = m, !.errors = e]
  BY DEF CountProduced
<1>2. n \in Int /\ m \in Int /\ e \in Int /\ n + m = s.fraud + s.legitimate + 1
  BY DEF Counts
<1>3. e = s.errors + (IF queued THEN 0 ELSE 1)
  OBVIOUS
<1> HIDE DEF n, m, e, t
<1>4. t \in Counts
  BY <1>1, <1>2, SetCounts
<1>5. t.fraud = n /\ t.legitimate = m /\ t.errors = e /\ t.total = s.total
  BY <1>1 DEF Counts
<1> QED
  BY <1>2, <1>3, <1>4, <1>5 DEF t

(* A poll counts every report.                                             *)
LEMMA PolledCounts ==
  ASSUME NEW s \in Counts, NEW b \in Queue
  PROVE  /\ Polled(s, b) \in Counts
         /\ Polled(s, b).fraud = s.fraud /\ Polled(s, b).legitimate = s.legitimate
         /\ Polled(s, b).total = s.total + b.delivered /\ Polled(s, b).errors = s.errors + b.failed
<1> DEFINE n == s.total + b.delivered
           e == s.errors + b.failed
           t == Polled(s, b)
<1>1. t = [s EXCEPT !.total = n, !.errors = e]
  BY DEF Polled
<1>2. n \in Int /\ e \in Int /\ 0 \in Int
  BY DEF Counts, Queue
<1>3. n = s.total + b.delivered /\ e = s.errors + b.failed
  OBVIOUS
<1> HIDE DEF n, e, t
<1>4. t \in Counts
  BY <1>1, <1>2, SetCounts
<1>5. t.fraud = s.fraud /\ t.legitimate = s.legitimate /\ t.total = n /\ t.errors = e
  BY <1>1 DEF Counts
<1> QED
  BY <1>3, <1>4, <1>5 DEF t

(* A worker's counts change together; the others keep theirs.              *)
LEMMA OneWorker ==
  ASSUME BalanceInv, NEW w \in Workers, NEW s \in Counts, NEW b \in Queue, NEW n \in Int,
         stats' = [stats EXCEPT ![w] = s], buffer' = [buffer EXCEPT ![w] = b],
         lost' = [lost EXCEPT ![w] = n],
         wpc' \in [Workers -> {"look", "create", "loop", "batch", "flush", "report", "done", "killed"}],
         \A v \in Workers \ {w} : wpc'[v] = wpc[v],
         wpc'[w] \in {"look", "create", "loop", "batch"} => n = 0,
         s.fraud + s.legitimate = s.total + s.errors + (b.waiting + b.delivered + b.failed) + n
  PROVE  BalanceInv'
<1>1. /\ stats' \in [Workers -> Counts] /\ buffer' \in [Workers -> Queue] /\ lost' \in [Workers -> Int]
      /\ stats'[w] = s /\ buffer'[w] = b /\ lost'[w] = n
      /\ \A v \in Workers \ {w} : stats'[v] = stats[v] /\ buffer'[v] = buffer[v] /\ lost'[v] = lost[v]
  BY DEF BalanceInv
<1>2. StatisticsBalance'
  BY <1>1 DEF BalanceInv, StatisticsBalance, Buffered
<1>3. \A v \in Workers : wpc'[v] \in {"look", "create", "loop", "batch"} => lost'[v] = 0
  BY <1>1 DEF BalanceInv
<1> QED
  BY <1>1, <1>2, <1>3 DEF BalanceInv

(* Steps that count nothing: a worker may go on, but not begin again after *)
(* it has left its loop.                                                   *)
LEMMA NothingCounted ==
  ASSUME BalanceInv, NEW w \in Workers, UNCHANGED <<stats, buffer, lost>>,
         NEW p \in {"create", "loop", "batch", "flush", "report", "done", "killed"},
         wpc' = wpc \/ Goto(w, p),
         p \in {"create", "loop", "batch"} => wpc[w] \in {"look", "create", "loop", "batch"}
  PROVE  BalanceInv'
<1>1. wpc' \in [Workers -> {"look", "create", "loop", "batch", "flush", "report", "done", "killed"}]
  BY DEF BalanceInv, Goto
<1>2. \A v \in Workers : wpc'[v] \in {"look", "create", "loop", "batch"} => lost'[v] = 0
  BY DEF BalanceInv, Goto
<1>3. StatisticsBalance'
  BY DEF BalanceInv, StatisticsBalance, Buffered
<1> QED
  BY <1>1, <1>2, <1>3 DEF BalanceInv

-----------------------------------------------------------------------------
LEMMA BalanceNext == BalanceInv /\ [PNext]_pvars => BalanceInv'
<1> SUFFICES ASSUME BalanceInv, [PNext]_pvars PROVE BalanceInv'
  OBVIOUS
<1>1. CASE UNCHANGED pvars \/ TimePasses
  BY <1>1 DEF pvars, TimePasses, counts, BalanceInv, StatisticsBalance, Buffered
<1> SUFFICES ASSUME NEW w \in Workers,
                    \/ LookForTopic(w) \/ CreateTopic(w) \/ BeginBatch(w) \/ ProduceOne(w) \/ PollReports(w)
                    \/ FlushWorker(w) \/ Report(w) \/ Interrupt(w) \/ KillWorker(w) \/ Answer(w)
                    \/ EndTimeComes(w)
             PROVE  BalanceInv'
  BY <1>1 DEF PNext
<1>2. /\ stats[w] \in Counts /\ buffer[w] \in Queue /\ lost[w] \in Int
      /\ stats[w].fraud + stats[w].legitimate
           = stats[w].total + stats[w].errors + (buffer[w].waiting + buffer[w].delivered + buffer[w].failed)
               + lost[w]
      /\ wpc[w] \in {"look", "create", "loop", "batch"} => lost[w] = 0
      /\ lost = [lost EXCEPT ![w] = lost[w]] /\ stats = [stats EXCEPT ![w] = stats[w]]
      /\ buffer = [buffer EXCEPT ![w] = buffer[w]]
  BY DEF BalanceInv, StatisticsBalance, Buffered
<1>3. CASE LookForTopic(w) \/ CreateTopic(w) \/ BeginBatch(w) \/ Report(w) \/ KillWorker(w) \/ EndTimeComes(w)
  <2>1. UNCHANGED <<stats, buffer, lost>>
    BY <1>3 DEF LookForTopic, CreateTopic, BeginBatch, Report, KillWorker, EndTimeComes, counts
  <2>2. \E p \in {"create", "loop", "batch", "flush", "report", "done", "killed"} :
           /\ wpc' = wpc \/ Goto(w, p)
           /\ p \in {"create", "loop", "batch"} => wpc[w] \in {"look", "create", "loop", "batch"}
    BY <1>3 DEF LookForTopic, CreateTopic, BeginBatch, Report, KillWorker, EndTimeComes
  <2> QED
    BY <2>1, <2>2, NothingCounted
<1>4. CASE ProduceOne(w)
  <2>1. PICK fraud \in BOOLEAN, queued \in BOOLEAN :
          /\ stats' = [stats EXCEPT ![w] = CountProduced(stats[w], fraud, queued)]
          /\ buffer' = [buffer EXCEPT ![w] = IF queued THEN [buffer[w] EXCEPT !.waiting = @ + 1] ELSE buffer[w]]
    <3>1. PICK a \in Accounts, fraud \in BOOLEAN, broken \in BOOLEAN :
            LET queued == ~broken /\ Buffered(w) < BufferSize
            IN /\ stats' = [stats EXCEPT ![w] = CountProduced(stats[w], fraud, queued)]
               /\ buffer' = IF queued THEN [buffer EXCEPT ![w].waiting = @ + 1] ELSE buffer
      BY <1>4 DEF ProduceOne
    <3> DEFINE queued == ~broken /\ Buffered(w) < BufferSize
    <3>2. buffer' = [buffer EXCEPT ![w] = IF queued THEN [buffer[w] EXCEPT !.waiting = @ + 1] ELSE buffer[w]]
      BY <1>2, <3>1
    <3>3. stats' = [stats EXCEPT ![w] = CountProduced(stats[w], fraud, queued)] /\ queued \in BOOLEAN
      BY <3>1
    <3> HIDE DEF queued
    <3> QED
      BY <3>2, <3>3
  <2> DEFINE s == CountProduced(stats[w], fraud, queued)
             b == IF queued THEN [buffer[w] EXCEPT !.waiting = @ + 1] ELSE buffer[w]
  <2>2. /\ s \in Counts /\ s.fraud + s.legitimate = stats[w].fraud + stats[w].legitimate + 1
        /\ s.total = stats[w].total /\ s.errors = stats[w].errors + (IF queued THEN 0 ELSE 1)
    BY <1>2, <2>1, Produced
  <2>3. /\ b \in Queue /\ b.delivered = buffer[w].delivered /\ b.failed = buffer[w].failed
        /\ b.waiting = buffer[w].waiting + (IF queued THEN 1 ELSE 0)
    BY <1>2, <2>1 DEF Queue
  <2>4. wpc' = wpc /\ lost' = [lost EXCEPT ![w] = lost[w]]
    BY <1>2, <1>4 DEF ProduceOne
  <2>5. stats' = [stats EXCEPT ![w] = s] /\ buffer' = [buffer EXCEPT ![w] = b]
    BY <2>1
  <2> HIDE DEF s, b
  <2>6. s.fraud + s.legitimate = s.total + s.errors + (b.waiting + b.delivered + b.failed) + lost[w]
    BY <1>2, <2>2, <2>3 DEF Counts, Queue
  <2>7. wpc' \in [Workers -> {"look", "create", "loop", "batch", "flush", "report", "done", "killed"}]
    BY <2>4 DEF BalanceInv
  <2> QED
    BY <1>2, <2>2, <2>3, <2>4, <2>5, <2>6, <2>7, OneWorker
<1>5. CASE PollReports(w) \/ FlushWorker(w)
  <2> DEFINE s == Polled(stats[w], buffer[w])
             b == [EmptyBuffer EXCEPT !.waiting = buffer[w].waiting]
  <2>1. /\ s \in Counts /\ s.fraud = stats[w].fraud /\ s.legitimate = stats[w].legitimate
        /\ s.total = stats[w].total + buffer[w].delivered /\ s.errors = stats[w].errors + buffer[w].failed
    BY <1>2, PolledCounts
  <2>2. b \in Queue /\ b.waiting = buffer[w].waiting /\ b.delivered = 0 /\ b.failed = 0
    BY <1>2 DEF Queue, EmptyBuffer
  <2>3. /\ stats' = [stats EXCEPT ![w] = s] /\ buffer' = [buffer EXCEPT ![w] = b]
        /\ lost' = [lost EXCEPT ![w] = lost[w]]
    BY <1>2, <1>5 DEF PollReports, FlushWorker
  <2>4. /\ wpc' \in [Workers -> {"look", "create", "loop", "batch", "flush", "report", "done", "killed"}]
        /\ \A v \in Workers \ {w} : wpc'[v] = wpc[v]
        /\ wpc'[w] \in {"look", "create", "loop", "batch"} => lost[w] = 0
    BY <1>2, <1>5 DEF PollReports, FlushWorker, Goto, BalanceInv
  <2> HIDE DEF s, b
  <2>5. s.fraud + s.legitimate = s.total + s.errors + (b.waiting + b.delivered + b.failed) + lost[w]
    BY <1>2, <2>1, <2>2 DEF Counts, Queue
  <2> QED
    BY <1>2, <2>1, <2>2, <2>3, <2>4, <2>5, OneWorker
<1>6. CASE Interrupt(w)
  <2>1. PICK midway \in BOOLEAN :
          /\ midway => wpc'[w] = "flush"
          /\ lost' = [lost EXCEPT ![w] = IF midway THEN 1 ELSE 0]
          /\ stats' = IF midway THEN [stats EXCEPT ![w].legitimate = @ + 1] ELSE stats
    BY <1>6 DEF Interrupt
  <2>2. /\ wpc' \in [Workers -> {"look", "create", "loop", "batch", "flush", "report", "done", "killed"}]
        /\ \A v \in Workers \ {w} : wpc'[v] = wpc[v]
        /\ wpc'[w] \in {"flush", "report"} /\ lost[w] = 0
        /\ buffer' = [buffer EXCEPT ![w] = buffer[w]]
    BY <1>2, <1>6 DEF Interrupt, Goto, BalanceInv
  <2>3. CASE midway
    <3> DEFINE s == [stats[w] EXCEPT !.legitimate = @ + 1]
    <3>1. /\ s \in Counts /\ s.fraud = stats[w].fraud /\ s.legitimate = stats[w].legitimate + 1
          /\ s.total = stats[w].total /\ s.errors = stats[w].errors
      BY <1>2 DEF Counts
    <3>2. stats' = [stats EXCEPT ![w] = s] /\ lost' = [lost EXCEPT ![w] = 1]
      BY <2>1, <2>3
    <3> HIDE DEF s
    <3>3. s.fraud + s.legitimate
            = s.total + s.errors + (buffer[w].waiting + buffer[w].delivered + buffer[w].failed) + 1
      BY <1>2, <2>2, <3>1 DEF Counts, Queue
    <3>4. wpc'[w] \notin {"look", "create", "loop", "batch"} /\ 1 \in Int
      BY <2>2
    <3> QED
      BY <1>2, <2>2, <3>1, <3>2, <3>3, <3>4, OneWorker
  <2>4. CASE ~midway
    <3>1. stats' = [stats EXCEPT ![w] = stats[w]] /\ lost' = [lost EXCEPT ![w] = 0]
      BY <1>2, <2>1, <2>4
    <3> QED
      BY <1>2, <2>2, <3>1, OneWorker
  <2> QED
    BY <2>3, <2>4
<1>7. CASE Answer(w)
  <2>1. PICK fails \in BOOLEAN :
          buffer' = [buffer EXCEPT ![w].waiting = @ - 1,
                                   ![w].failed = @ + (IF fails THEN 1 ELSE 0),
                                   ![w].delivered = @ + (IF fails THEN 0 ELSE 1)]
    BY <1>7 DEF Answer
  <2> DEFINE d == buffer[w].delivered + (IF fails THEN 0 ELSE 1)
             f == buffer[w].failed + (IF fails THEN 1 ELSE 0)
             i == buffer[w].waiting - 1
             b == [buffer[w] EXCEPT !.waiting = i, !.failed = f, !.delivered = d]
  <2>2. buffer' = [buffer EXCEPT ![w] = b]
    BY <1>2, <2>1 DEF Queue
  <2>3. /\ d \in Int /\ f \in Int /\ i \in Int
        /\ i + d + f = buffer[w].waiting + buffer[w].delivered + buffer[w].failed
    <3>1. buffer[w].waiting \in Int /\ buffer[w].delivered \in Int /\ buffer[w].failed \in Int
      BY <1>2 DEF Queue
    <3> QED
      BY <3>1
  <2> HIDE DEF d, f, i
  <2>4. b \in Queue /\ b.waiting = i /\ b.delivered = d /\ b.failed = f
    BY <1>2, <2>3 DEF Queue
  <2>5. /\ b \in Queue /\ buffer' = [buffer EXCEPT ![w] = b]
        /\ b.waiting + b.delivered + b.failed = buffer[w].waiting + buffer[w].delivered + buffer[w].failed
    BY <2>2, <2>3, <2>4
  <2>6. /\ stats' = [stats EXCEPT ![w] = stats[w]] /\ lost' = [lost EXCEPT ![w] = lost[w]] /\ wpc' = wpc
        /\ wpc \in [Workers -> {"look", "create", "loop", "batch", "flush", "report", "done", "killed"}]
    BY <1>2, <1>7 DEF Answer, BalanceInv
  <2> HIDE DEF b
  <2>7. stats[w].fraud + stats[w].legitimate
          = stats[w].total + stats[w].errors + (b.waiting + b.delivered + b.failed) + lost[w]
    BY <1>2, <2>5 DEF Counts, Queue
  <2> QED
    BY <1>2, <2>5, <2>6, <2>7, OneWorker
<1> QED
  BY <1>3, <1>4, <1>5, <1>6, <1>7

(* Every transaction counted as fraud or legitimate is delivered, an error *)
(* or in Kafka's hands, but for the one an interrupt may cost              *)
(* (produce_transaction, _delivery_callback, run_production).              *)
THEOREM CountsBalance == PSpec => []StatisticsBalance
<1>1. BalanceInv => StatisticsBalance
  BY DEF BalanceInv
<1> QED
  BY BalanceInit, BalanceNext, <1>1, PTL DEF PSpec

-----------------------------------------------------------------------------
(* The total.                                                              *)

(* Induction over the numbers, for a set of them: the set of those for which*)
(* something holds, when it is cited.                                      *)
Below == {p \in Nat \X Nat : p[1] < p[2]}
LEMMA MinNat ==
  ASSUME NEW T \in SUBSET Nat, T # {}
  PROVE  \E x \in T : \A y \in T : x <= y
<1>1. IsWellFoundedOn(Below, Nat)
  BY NatLessThanWellFounded DEF OpToRel, Below
<1>2. PICK x \in T : \A y \in T : ~ (<<y, x>> \in Below)
  BY <1>1, WFMin
<1>3. ASSUME NEW y \in T PROVE x <= y
  <2>1. x \in Nat /\ y \in Nat /\ ~ (<<y, x>> \in Below)
    BY <1>2
  <2> QED
    BY <2>1 DEF Below
<1> QED
  BY <1>3
LEMMA Induct ==
  ASSUME NEW S \in SUBSET Nat, 0 \in S, \A n \in S : n + 1 \in S
  PROVE  S = Nat
<1> SUFFICES ASSUME Nat \ S # {} PROVE FALSE
  OBVIOUS
<1>1. PICK n \in Nat \ S : \A m \in Nat \ S : n <= m
  <2>1. Nat \ S \in SUBSET Nat
    OBVIOUS
  <2> HIDE DEF Below
  <2> QED BY <2>1, MinNat
<1>2. n # 0 /\ n - 1 \in Nat /\ n - 1 < n
  BY <1>1
<1>3. n - 1 \in S
  BY <1>1, <1>2
<1> QED
  BY <1>1, <1>2, <1>3

(* The sum of the numbers m gives the elements of a set, as FoldSet takes it:*)
(* one after the other. g holds the sums of the subsets, the ones of at most*)
(* n elements.                                                             *)
First(s) == CHOOSE x \in s : TRUE
Summed(m, g, s) == IF s = {} THEN 0 ELSE g[s \ {First(s)}] + m[First(s)]
UpTo(S, n) == {s \in SUBSET S : Cardinality(s) <= n}
Sums(m, S, n, g) == g = [s \in UpTo(S, n) |-> Summed(m, g, s)]

(* A set without the element that is chosen first is smaller by one.       *)
LEMMA Smaller ==
  ASSUME NEW S, IsFiniteSet(S), NEW s \in SUBSET S, s # {}
  PROVE  /\ First(s) \in s /\ s \ {First(s)} \in SUBSET S
         /\ Cardinality(s) \in Nat /\ Cardinality(s) > 0
         /\ Cardinality(s \ {First(s)}) = Cardinality(s) - 1
<1>1. First(s) \in s
  BY DEF First
<1>2. IsFiniteSet(s)
  BY FS_Subset
<1>3. Cardinality(s) \in Nat /\ Cardinality(s) # 0
  BY <1>2, FS_CardinalityType, FS_EmptySet
<1>4. Cardinality(s \ {First(s)}) = Cardinality(s) - 1
  BY <1>1, <1>2, FS_RemoveElement
<1> QED
  BY <1>1, <1>3, <1>4

(* A set of no elements is the empty one.                                  *)
LEMMA NoneIsEmpty ==
  ASSUME NEW S, IsFiniteSet(S), NEW s \in SUBSET S, Cardinality(s) <= 0
  PROVE  s = {}
<1> SUFFICES ASSUME s # {} PROVE FALSE
  OBVIOUS
<1>1. Cardinality(s) \in Nat /\ Cardinality(s) > 0
  BY Smaller
<1> QED
  BY <1>1

(* There are such sums, for every size: those of one element more are made of*)
(* the smaller ones.                                                       *)
LEMMA SumsExist ==
  ASSUME NEW S, IsFiniteSet(S), NEW m, NEW n \in Nat
  PROVE  \E g : Sums(m, S, n, g)
<1> DEFINE T == {k \in Nat : \E g : Sums(m, S, k, g)}
<1>1. 0 \in T
  <2> DEFINE g == [s \in UpTo(S, 0) |-> 0]
  <2>1. ASSUME NEW s \in UpTo(S, 0) PROVE s = {}
    <3>1. s \in SUBSET S /\ Cardinality(s) <= 0
      BY DEF UpTo
    <3> QED
      BY <3>1, NoneIsEmpty
  <2>2. Sums(m, S, 0, g)
    BY <2>1 DEF Sums, Summed
  <2> HIDE DEF g
  <2> QED
    BY <2>2
<1>2. ASSUME NEW k \in T PROVE k + 1 \in T
  <2>1. PICK g : Sums(m, S, k, g)
    OBVIOUS
  <2> DEFINE h == [s \in UpTo(S, k + 1) |-> Summed(m, g, s)]
  <2>2. k \in Nat /\ k + 1 \in Nat
    OBVIOUS
  <2>3. \A s \in UpTo(S, k) : g[s] = Summed(m, g, s)
    BY <2>1 DEF Sums
  <2>4. ASSUME NEW s \in UpTo(S, k) PROVE s \in UpTo(S, k + 1) /\ h[s] = g[s]
    <3>1. IsFiniteSet(s) /\ Cardinality(s) \in Nat /\ Cardinality(s) <= k
      BY FS_Subset, FS_CardinalityType DEF UpTo
    <3>2. s \in UpTo(S, k + 1)
      BY <2>2, <3>1 DEF UpTo
    <3> QED
      BY <2>3, <3>2
  <2>5. ASSUME NEW s \in UpTo(S, k + 1), s # {} PROVE s \ {First(s)} \in UpTo(S, k)
    BY <2>2, <2>5, Smaller DEF UpTo
  <2>6. ASSUME NEW s \in UpTo(S, k + 1) PROVE Summed(m, g, s) = Summed(m, h, s)
    <3>1. CASE s = {}
      BY <3>1 DEF Summed
    <3>2. CASE s # {}
      <4>1. h[s \ {First(s)}] = g[s \ {First(s)}]
        BY <2>4, <2>5, <3>2
      <4> HIDE DEF h
      <4> QED
        BY <3>2, <4>1 DEF Summed
    <3> QED
      BY <3>1, <3>2
  <2>7. h = [s \in UpTo(S, k + 1) |-> Summed(m, h, s)]
    <3> DEFINE f == [s \in UpTo(S, k + 1) |-> Summed(m, h, s)]
    <3>1. \A s \in UpTo(S, k + 1) : Summed(m, g, s) = Summed(m, h, s)
      BY <2>6
    <3>2. \A s \in UpTo(S, k + 1) : h[s] = Summed(m, g, s)
      OBVIOUS
    <3> HIDE DEF h
    <3>3. \A s \in UpTo(S, k + 1) : h[s] = f[s]
      BY <3>1, <3>2
    <3>4. h = [s \in UpTo(S, k + 1) |-> h[s]]
      BY DEF h
    <3> QED
      BY <3>3, <3>4
  <2> HIDE DEF h
  <2>8. Sums(m, S, k + 1, h)
    BY <2>7 DEF Sums
  <2> QED
    BY <2>2, <2>8
<1>3. T = Nat
  <2> HIDE DEF T
  <2>1. T \in SUBSET Nat
    BY DEF T
  <2> QED
    BY <1>1, <1>2, <2>1, Induct
<1> QED
  BY <1>3

(* What is made together is the sum over all workers.                      *)
LEMMA TotalIs ==
  ASSUME IsFiniteSet(Workers)
  PROVE  \E g : /\ Sums(made, Workers, Cardinality(Workers), g)
                /\ MadeTogether = g[Workers]
<1> DEFINE c == Cardinality(Workers)
<1>1. c \in Nat
  BY FS_CardinalityType
<1>2. PICK f : Sums(made, Workers, c, f)
  BY <1>1, SumsExist
<1>3. UpTo(Workers, c) = SUBSET Workers
  BY FS_Subset DEF UpTo
<1>4. f = [s \in SUBSET Workers |-> IF s = {} THEN 0 ELSE f[s \ {CHOOSE x \in s : TRUE}] + made[CHOOSE x \in s : TRUE]]
  BY <1>2, <1>3 DEF Sums, Summed, First
<1> DEFINE g == CHOOSE h : h = [s \in SUBSET Workers |-> IF s = {} THEN 0 ELSE h[s \ {CHOOSE x \in s : TRUE}] + made[CHOOSE x \in s : TRUE]]
<1>5. g = [s \in SUBSET Workers |-> IF s = {} THEN 0 ELSE g[s \ {CHOOSE x \in s : TRUE}] + made[CHOOSE x \in s : TRUE]]
  BY <1>4
<1>6. Sums(made, Workers, c, g)
  <2> HIDE DEF g
  <2> QED
    BY <1>3, <1>5 DEF Sums, Summed, First
<1>7. MadeTogether = g[Workers]
  BY DEF MadeTogether, FoldSet, MapThenFoldSet
<1> HIDE DEF g
<1> QED
  BY <1>6, <1>7

(* One more of k.                                                          *)
LEMMA OneMore == ASSUME NEW c \in Nat, c > 0, NEW k \in Nat PROVE (c - 1) * k + k = c * k
OBVIOUS

(* A sum of numbers that are at most k is at most k for each.              *)
LEMMA SumBound ==
  ASSUME NEW S, IsFiniteSet(S), NEW m \in [S -> Nat], NEW k \in Nat, \A x \in S : m[x] <= k,
         NEW g, Sums(m, S, Cardinality(S), g)
  PROVE  g[S] \in Nat /\ g[S] <= Cardinality(S) * k
<1> DEFINE Good(s) == g[s] \in Nat /\ g[s] <= Cardinality(s) * k
           T == {n \in Nat : \A s \in SUBSET S : Cardinality(s) <= n => Good(s)}
<1>1. \A s \in SUBSET S : g[s] = Summed(m, g, s) /\ Cardinality(s) \in Nat
  BY FS_Subset, FS_CardinalityType DEF Sums, UpTo
<1>2. 0 \in T
  <2>1. ASSUME NEW s \in SUBSET S, Cardinality(s) <= 0 PROVE Good(s)
    <3>1. s = {}
      BY <2>1, NoneIsEmpty
    <3>2. g[s] = 0 /\ Cardinality(s) = 0
      BY <1>1, <3>1, FS_EmptySet DEF Summed
    <3> QED
      BY <3>2
  <2> QED
    BY <2>1
<1>3. ASSUME NEW n \in T PROVE n + 1 \in T
  <2>1. ASSUME NEW s \in SUBSET S, Cardinality(s) <= n + 1, s # {} PROVE Good(s)
    <3> DEFINE r == s \ {First(s)}
               c == Cardinality(s)
    <3>1. First(s) \in s /\ r \in SUBSET S /\ c \in Nat /\ c > 0 /\ Cardinality(r) = c - 1
      BY <2>1, Smaller
    <3>2. Good(r)
      BY <2>1, <3>1
    <3>3. g[s] = g[r] + m[First(s)] /\ m[First(s)] \in Nat /\ m[First(s)] <= k
      BY <1>1, <2>1, <3>1 DEF Summed
    <3>4. g[r] \in Nat /\ g[r] <= (c - 1) * k
      BY <3>1, <3>2
    <3>5. (c - 1) * k + k = c * k /\ (c - 1) * k \in Int /\ c * k \in Int
      BY <3>1, OneMore
    <3> HIDE DEF r, c
    <3>6. g[s] \in Nat /\ g[s] <= c * k
      BY <3>3, <3>4, <3>5
    <3> QED
      BY <3>6 DEF c
  <2>2. ASSUME NEW s \in SUBSET S, s = {} PROVE Good(s)
    <3>1. g[s] = 0 /\ Cardinality(s) = 0
      BY <1>1, <2>2, FS_EmptySet DEF Summed
    <3> QED
      BY <3>1
  <2>3. n + 1 \in Nat
    OBVIOUS
  <2> QED
    BY <2>1, <2>2, <2>3
<1>4. T = Nat
  <2> HIDE DEF T
  <2>1. T \in SUBSET Nat
    BY DEF T
  <2> QED
    BY <1>2, <1>3, <2>1, Induct
<1>5. Good(S)
  BY <1>1, <1>4
<1> QED
  BY <1>5

(* The parts of a division are no more than the whole.                     *)
LEMMA DivBound == ASSUME NEW t \in Nat, NEW c \in Nat, c > 0 PROVE t \div c \in Nat /\ c * (t \div c) <= t
OBVIOUS

(* A worker has made, with what is left of its batch, no more than its     *)
(* share.                                                                  *)
ShareInv ==
  /\ total \in Nat /\ made \in [Workers -> Nat] /\ batchLeft \in [Workers -> Nat]
  /\ Share > 0 => \A w \in Workers : made[w] + batchLeft[w] <= Share

(* The share is a number, and the shares are no more than the total.       *)
LEMMA ShareIs ==
  ASSUME ShareInv
  PROVE  Share \in Nat /\ Cardinality(Workers) \in Nat /\ Cardinality(Workers) * Share <= total
<1> DEFINE c == Cardinality(Workers)
<1>1. IsFiniteSet(Workers) /\ Workers # {}
  BY ProducerAssumption DEF ProducerAssumption
<1>2. c \in Nat /\ c # 0
  BY <1>1, FS_CardinalityType, FS_EmptySet
<1>3. total \in Nat
  BY DEF ShareInv
<1> HIDE DEF c
<1>4. total \div c \in Nat /\ c * (total \div c) <= total
  BY <1>2, <1>3, DivBound
<1> QED
  BY <1>2, <1>4 DEF c, Share

(* Workers that keep to their shares keep to the total.                    *)
LEMMA SharesSum == ShareInv => NeverMoreThanAsked
<1> SUFFICES ASSUME ShareInv, Share > 0
             PROVE  MadeTogether <= total
  BY DEF NeverMoreThanAsked
<1>1. IsFiniteSet(Workers)
  BY ProducerAssumption DEF ProducerAssumption
<1>2. PICK g : /\ Sums(made, Workers, Cardinality(Workers), g)
               /\ MadeTogether = g[Workers]
  BY <1>1, TotalIs
<1>3. made \in [Workers -> Nat] /\ Share \in Nat /\ \A w \in Workers : made[w] <= Share
  BY ShareIs DEF ShareInv
<1>4. g[Workers] \in Nat /\ g[Workers] <= Cardinality(Workers) * Share
  BY <1>1, <1>2, <1>3, SumBound
<1>5. total \in Nat /\ Cardinality(Workers) * Share <= total /\ Cardinality(Workers) * Share \in Nat
  BY <1>1, <1>3, ShareIs DEF ShareInv
<1> QED
  BY <1>2, <1>4, <1>5

(* The lesser of two.                                                      *)
LEMMA MinOfTwo == ASSUME NEW a \in Int, NEW b \in Int PROVE Min({a, b}) = IF a <= b THEN a ELSE b
BY DEF Min

(* A batch takes a worker no further than its share.                       *)
LEMMA BatchFits ==
  ASSUME ShareInv, NEW w \in Workers, ~ (Share > 0 /\ made[w] >= Share)
  PROVE  BatchCount(w) \in Nat /\ (Share > 0 => made[w] + BatchCount(w) <= Share)
<1>1. PollBatch \in Nat
  BY ProducerAssumption DEF ProducerAssumption
<1>2. Share \in Nat /\ made[w] \in Nat
  BY ShareIs DEF ShareInv
<1> DEFINE k == Share
<1>3. Min({PollBatch, k - made[w]}) = IF PollBatch <= k - made[w] THEN PollBatch ELSE k - made[w]
  <2> HIDE DEF k
  <2> QED
    BY <1>1, <1>2, MinOfTwo DEF k
<1> QED
  BY <1>1, <1>2, <1>3 DEF BatchCount

LEMMA ShareInit == PInit => ShareInv
<1> SUFFICES ASSUME PInit PROVE ShareInv
  OBVIOUS
<1>1. total \in Nat /\ made = [w \in Workers |-> 0] /\ batchLeft = [w \in Workers |-> 0]
  BY ProducerAssumption DEF PInit, ProducerAssumption
<1>2. Share > 0 => \A w \in Workers : made[w] + batchLeft[w] <= Share
  <2>1. IsFiniteSet(Workers) /\ Workers # {}
    BY ProducerAssumption DEF ProducerAssumption
  <2>2. Cardinality(Workers) \in Nat /\ Cardinality(Workers) # 0
    BY <2>1, FS_CardinalityType, FS_EmptySet
  <2>3. Share \in Nat
    BY <1>1, <2>2, DivBound DEF Share
  <2> QED
    BY <1>1, <2>3
<1> QED
  BY <1>1, <1>2 DEF ShareInv

LEMMA ShareNext == ShareInv /\ [PNext]_pvars => ShareInv'
<1> SUFFICES ASSUME ShareInv, [PNext]_pvars PROVE ShareInv'
  OBVIOUS
<1>1. total' = total /\ Share' = Share
  BY DEF PNext, pvars, TimePasses, LookForTopic, CreateTopic, BeginBatch, ProduceOne, PollReports,
         FlushWorker, Report, Interrupt, KillWorker, Answer, EndTimeComes, Share
<1>2. CASE UNCHANGED <<made, batchLeft>>
  BY <1>1, <1>2 DEF ShareInv
<1>3. CASE \E w \in Workers : BeginBatch(w) /\ batchLeft' # batchLeft
  <2>1. PICK w \in Workers : BeginBatch(w) /\ batchLeft' # batchLeft
    BY <1>3
  <2>2. /\ batchLeft' = [batchLeft EXCEPT ![w] = BatchCount(w)] /\ made' = made
        /\ ~ (Share > 0 /\ made[w] >= Share)
    BY <2>1 DEF BeginBatch, counts
  <2>3. BatchCount(w) \in Nat /\ (Share > 0 => made[w] + BatchCount(w) <= Share)
    BY <2>2, BatchFits
  <2> QED
    BY <1>1, <2>2, <2>3 DEF ShareInv
<1>4. CASE \E w \in Workers : ProduceOne(w)
  <2>1. PICK w \in Workers : ProduceOne(w)
    BY <1>4
  <2>2. /\ batchLeft' = [batchLeft EXCEPT ![w] = @ - 1] /\ batchLeft[w] > 0
        /\ made' = [made EXCEPT ![w] = @ + 1]
    BY <2>1 DEF ProduceOne
  <2>3. made[w] \in Nat /\ batchLeft[w] \in Nat /\ Share \in Nat
    BY ShareIs DEF ShareInv
  <2>4. made' \in [Workers -> Nat] /\ batchLeft' \in [Workers -> Nat]
    BY <2>2, <2>3 DEF ShareInv
  <2>5. ASSUME NEW v \in Workers PROVE made'[v] + batchLeft'[v] = made[v] + batchLeft[v]
    BY <2>2, <2>3 DEF ShareInv
  <2> QED
    BY <1>1, <2>4, <2>5 DEF ShareInv
<1> QED
  BY <1>2, <1>3, <1>4 DEF PNext, pvars, TimePasses, LookForTopic, CreateTopic, BeginBatch, PollReports,
     FlushWorker, Report, Interrupt, KillWorker, Answer, EndTimeComes, counts

(* The workers together never make more than --total asks for (main's      *)
(* division, the batches of run_production).                               *)
THEOREM TotalIsKept == PSpec => []NeverMoreThanAsked
BY ShareInit, ShareNext, SharesSum, PTL DEF PSpec

-----------------------------------------------------------------------------
(* A time that is kept is no further from the transaction's than a move of *)
(* fraud takes it.                                                         *)
KeptInv ==
  /\ slot \in Nat
  /\ lastTime \in [Accounts -> Int] /\ lastTrue \in [Accounts -> Int]
  /\ \A a \in Accounts : lastTime[a] # NoTime =>
       /\ lastTrue[a] <= slot
       /\ (lastTime[a] - lastTrue[a]) \in (-(DaySlots - 1))..Max(PeakSlots)

(* The last of the peaks is one of the hours of a day.                     *)
LEMMA LastPeak ==
  /\ Max(PeakSlots) \in 0..(DaySlots - 1) /\ \A p \in PeakSlots : p \in Nat /\ p <= Max(PeakSlots)
<1> DEFINE D == DaySlots - 1
           T == {D - p : p \in PeakSlots}
<1>1. D \in Nat /\ PeakSlots \subseteq 0..D /\ PeakSlots # {}
  BY ProducerAssumption DEF ProducerAssumption
<1> HIDE DEF D
<1>2. T \in SUBSET Nat /\ T # {}
  <2>1. ASSUME NEW p \in PeakSlots PROVE D - p \in Nat
    BY <1>1
  <2> QED
    BY <1>1, <2>1
<1>3. PICK t \in T : \A u \in T : t <= u
  BY <1>2, MinNat
<1>4. PICK q \in PeakSlots : t = D - q
  BY <1>3
<1>5. \A p \in PeakSlots : q >= p
  BY <1>1, <1>3, <1>4
<1>6. Max(PeakSlots) \in PeakSlots /\ \A p \in PeakSlots : Max(PeakSlots) >= p
  BY <1>5 DEF Max
<1> DEFINE m == Max(PeakSlots)
<1>7. m \in PeakSlots /\ \A p \in PeakSlots : m >= p
  BY <1>6
<1> HIDE DEF m
<1>8. m \in 0..D /\ \A p \in PeakSlots : p \in Nat /\ p <= m
  BY <1>1, <1>7
<1> QED
  BY <1>8 DEF D, m

(* A remainder is less than the divisor.                                   *)
LEMMA Remainder == ASSUME NEW s \in Nat, NEW d \in Nat \ {0} PROVE s % d \in 0..(d - 1)
OBVIOUS

(* What the moves of fraud are to the time.                                *)
LEMMA TimesNear ==
  ASSUME slot \in Nat, NEW fraud \in BOOLEAN, NEW time \in TimesOf(fraud)
  PROVE  time \in Int /\ (time - slot) \in (-(DaySlots - 1))..Max(PeakSlots)
<1>1. DaySlots \in Nat \ {0}
  BY ProducerAssumption DEF ProducerAssumption
<1>2. slot % DaySlots \in 0..(DaySlots - 1)
  BY <1>1, Remainder
<1> DEFINE r == slot % DaySlots
<1>3. time = slot \/ \E p \in PeakSlots : time = slot - r + p
  BY DEF TimesOf
<1> HIDE DEF r
<1>4. r \in 0..(DaySlots - 1)
  BY <1>2 DEF r
<1>5. CASE time = slot
  BY <1>1, <1>5, LastPeak
<1>6. ASSUME NEW p \in PeakSlots, time = slot - r + p PROVE time \in Int /\ (time - slot) \in (-(DaySlots - 1))..Max(PeakSlots)
  <2>1. p \in Nat /\ p <= Max(PeakSlots) /\ Max(PeakSlots) \in Nat
    BY LastPeak
  <2> QED
    BY <1>1, <1>4, <1>6, <2>1
<1> QED
  BY <1>3, <1>5, <1>6

LEMMA KeptInit == PInit => KeptInv
<1> SUFFICES ASSUME PInit PROVE KeptInv
  OBVIOUS
<1>1. MaxSlot \in Nat
  BY ProducerAssumption DEF ProducerAssumption
<1> QED
  BY <1>1 DEF PInit, KeptInv, NoTime

(* Only a transaction of the worker that is followed changes what is kept. *)
LEMMA KeptSteps ==
  ASSUME [PNext]_pvars
  PROVE  \/ UNCHANGED times /\ (slot' = slot \/ slot' = slot + 1)
         \/ /\ slot' = slot
            /\ \E a \in Accounts, fraud \in BOOLEAN : \E time \in TimesOf(fraud) :
                 /\ lastTime' = [lastTime EXCEPT ![a] = time]
                 /\ lastTrue' = [lastTrue EXCEPT ![a] = slot]
<1>1. CASE \E w \in Workers : ProduceOne(w)
  BY <1>1 DEF ProduceOne, TrackTime
<1> QED
  BY <1>1 DEF PNext, pvars, TimePasses, LookForTopic, CreateTopic, BeginBatch, PollReports,
     FlushWorker, Report, Interrupt, KillWorker, Answer, EndTimeComes, times

LEMMA KeptNext == KeptInv /\ [PNext]_pvars => KeptInv'
<1> SUFFICES ASSUME KeptInv, [PNext]_pvars PROVE KeptInv'
  OBVIOUS
<1>1. CASE UNCHANGED times /\ (slot' = slot \/ slot' = slot + 1)
  BY <1>1 DEF KeptInv, times
<1>2. ASSUME slot' = slot, NEW a \in Accounts, NEW fraud \in BOOLEAN, NEW time \in TimesOf(fraud),
             lastTime' = [lastTime EXCEPT ![a] = time], lastTrue' = [lastTrue EXCEPT ![a] = slot]
      PROVE  KeptInv'
  <2>1. time \in Int /\ (time - slot) \in (-(DaySlots - 1))..Max(PeakSlots) /\ slot \in Int
    BY TimesNear DEF KeptInv
  <2> QED
    BY <1>2, <2>1 DEF KeptInv
<1> QED
  BY <1>1, <1>2, KeptSteps

(* Two moves, of the time kept and of the time now, add up at most.        *)
LEMMA Off ==
  ASSUME NEW d \in Int, NEW m \in Nat, NEW kept \in Int, NEW true \in Int, NEW time \in Int, NEW now \in Int,
         kept - true \in (-d)..m, time - now \in (-d)..m, now >= true, d >= 0
  PROVE  (IF time - kept >= 0 THEN time - kept ELSE 0) - (now - true) \in (-(d + m))..(d + m)
OBVIOUS

(* The greater of a number and zero.                                       *)
LEMMA MaxWithZero == ASSUME NEW n \in Int PROVE Max({0, n}) = IF n >= 0 THEN n ELSE 0
BY DEF Max

(* The time told is as far off as the time kept and the new time together. *)
LEMMA KeptStepsTrue ==
  ASSUME KeptInv, [PNext]_pvars
  PROVE  \A a \in Accounts :
           <<lastTime[a], lastTrue[a]>>' # <<lastTime[a], lastTrue[a]>> /\ lastTime[a] # NoTime =>
             LET told == DaysSince(lastTime[a], lastTime'[a])
                 off == told - (lastTrue'[a] - lastTrue[a])
                 most == DaySlots - 1 + Max(PeakSlots)
             IN off \in -most..most
<1> SUFFICES ASSUME NEW a \in Accounts, lastTime[a] # NoTime,
                    ~ (lastTime'[a] = lastTime[a] /\ lastTrue'[a] = lastTrue[a])
             PROVE  DaysSince(lastTime[a], lastTime'[a]) - (lastTrue'[a] - lastTrue[a])
                      \in (-(DaySlots - 1 + Max(PeakSlots)))..(DaySlots - 1 + Max(PeakSlots))
  OBVIOUS
<1>1. PICK fraud \in BOOLEAN : \E t \in TimesOf(fraud) : lastTime'[a] = t /\ lastTrue'[a] = slot
  <2>1. PICK b \in Accounts, fraud \in BOOLEAN : \E t \in TimesOf(fraud) :
          lastTime' = [lastTime EXCEPT ![b] = t] /\ lastTrue' = [lastTrue EXCEPT ![b] = slot]
    BY KeptSteps DEF times
  <2>2. b = a
    BY <2>1 DEF KeptInv
  <2> QED
    BY <2>1, <2>2 DEF KeptInv
<1>2. PICK time \in TimesOf(fraud) : lastTime'[a] = time /\ lastTrue'[a] = slot
  BY <1>1
<1>3. time \in Int /\ (time - slot) \in (-(DaySlots - 1))..Max(PeakSlots)
  BY TimesNear DEF KeptInv
<1> DEFINE d == DaySlots - 1
           m == Max(PeakSlots)
           kept == lastTime[a]
           true == lastTrue[a]
<1>4. d \in Int /\ d >= 0 /\ m \in Nat
  BY LastPeak, ProducerAssumption DEF ProducerAssumption
<1>5. kept \in Int /\ true \in Int /\ slot \in Int /\ slot >= true /\ kept - true \in (-d)..m
  BY DEF KeptInv
<1>6. DaysSince(kept, time) = IF time - kept >= 0 THEN time - kept ELSE 0
  BY <1>3, <1>5, MaxWithZero DEF DaysSince
<1> HIDE DEF d, m, kept, true
<1>7. time - slot \in (-d)..m
  BY <1>3 DEF d, m
<1>8. (IF time - kept >= 0 THEN time - kept ELSE 0) - (slot - true) \in (-(d + m))..(d + m)
  BY <1>3, <1>4, <1>5, <1>7, Off
<1>9. DaysSince(kept, time) - (slot - true) \in (-(d + m))..(d + m)
  BY <1>6, <1>8
<1> QED
  BY <1>2, <1>9 DEF d, m, kept, true

(* The time told since a user's last transaction is off by no more than    *)
(* one fraud can be moved back in its day and another forward              *)
(* (_generate_time_delta_features, _generate_transaction).                 *)
THEOREM DeltasAreTrue == PSpec => DeltasStayTrue
<1>1. KeptInv /\ [PNext]_pvars =>
        [\A a \in Accounts :
           <<lastTime[a], lastTrue[a]>>' # <<lastTime[a], lastTrue[a]>> /\ lastTime[a] # NoTime =>
             LET told == DaysSince(lastTime[a], lastTime'[a])
                 off == told - (lastTrue'[a] - lastTrue[a])
                 most == DaySlots - 1 + Max(PeakSlots)
             IN off \in -most..most]_pvars
  BY KeptStepsTrue
<1> QED
  BY KeptInit, KeptNext, <1>1, PTL DEF PSpec, DeltasStayTrue

-----------------------------------------------------------------------------
(* The test orchestrator.                                                  *)

(* Lists without repetition.                                               *)
Distinct(q) == \A i, j \in DOMAIN q : q[i] = q[j] => i = j

LEMMA WithOneMore ==
  ASSUME NEW S, NEW q \in Seq(S), NEW x \in S
  PROVE  /\ Append(q, x) \in Seq(S) /\ ToSet(Append(q, x)) = ToSet(q) \cup {x}
         /\ Distinct(q) /\ x \notin ToSet(q) => Distinct(Append(q, x))
<1> DEFINE r == Append(q, x)
<1>1. /\ Len(q) \in Nat /\ r \in Seq(S) /\ Len(r) = Len(q) + 1
      /\ DOMAIN q = 1 .. Len(q) /\ DOMAIN r = 1 .. Len(q) + 1
      /\ r[Len(q) + 1] = x /\ \A i \in DOMAIN q : r[i] = q[i] /\ i \in DOMAIN r
  OBVIOUS
<1> HIDE DEF r
<1>2. \A i \in DOMAIN r : i \in DOMAIN q \/ i = Len(q) + 1
  BY <1>1
<1>3. ToSet(r) = ToSet(q) \cup {x}
  <2>1. Len(q) + 1 \in DOMAIN r
    BY <1>1
  <2> QED
    BY <1>1, <1>2, <2>1 DEF ToSet
<1>4. ASSUME Distinct(q), x \notin ToSet(q) PROVE Distinct(r)
  <2>1. \A i \in DOMAIN q : q[i] # x
    BY <1>4 DEF ToSet
  <2> QED
    BY <1>1, <1>2, <1>4, <2>1 DEF Distinct
<1> QED
  BY <1>1, <1>3, <1>4 DEF r

LEMMA WithoutTheFirst ==
  ASSUME NEW S, NEW q \in Seq(S), q # <<>>
  PROVE  /\ Tail(q) \in Seq(S) /\ Head(q) \in S /\ Head(q) \in ToSet(q)
         /\ Distinct(q) => Distinct(Tail(q)) /\ ToSet(Tail(q)) = ToSet(q) \ {Head(q)}
<1> DEFINE r == Tail(q)
<1>1. /\ Len(q) \in Nat /\ Len(q) > 0 /\ r \in Seq(S) /\ Len(r) = Len(q) - 1 /\ Head(q) = q[1]
      /\ DOMAIN q = 1 .. Len(q) /\ DOMAIN r = 1 .. Len(q) - 1 /\ Head(q) \in S
      /\ \A i \in DOMAIN r : r[i] = q[i + 1]
  OBVIOUS
<1> HIDE DEF r
<1>2. /\ 1 \in DOMAIN q
      /\ \A i \in DOMAIN r : i + 1 \in DOMAIN q /\ i + 1 # 1
      /\ \A i \in DOMAIN q : i # 1 => i - 1 \in DOMAIN r /\ (i - 1) + 1 = i
  BY <1>1
<1>3. Head(q) \in ToSet(q)
  BY <1>1, <1>2 DEF ToSet
<1>4. ASSUME Distinct(q) PROVE Distinct(r) /\ ToSet(r) = ToSet(q) \ {Head(q)}
  <2>1. Distinct(r)
    <3>1. ASSUME NEW i \in DOMAIN r, NEW j \in DOMAIN r, r[i] = r[j] PROVE i = j
      <4>1. i + 1 = j + 1
        BY <1>1, <1>2, <1>4, <3>1 DEF Distinct
      <4> QED
        BY <1>1, <4>1
    <3> QED
      BY <3>1 DEF Distinct
  <2>2. ASSUME NEW i \in DOMAIN r PROVE r[i] \in ToSet(q) \ {Head(q)}
    BY <1>1, <1>2, <1>4 DEF ToSet, Distinct
  <2>3. ASSUME NEW i \in DOMAIN q, q[i] # Head(q) PROVE q[i] \in ToSet(r)
    <3>1. i - 1 \in DOMAIN r /\ r[i - 1] = q[i]
      BY <1>1, <1>2, <2>3
    <3> QED
      BY <3>1 DEF ToSet
  <2> QED
    BY <2>1, <2>2, <2>3 DEF ToSet
<1> QED
  BY <1>1, <1>3, <1>4 DEF r

LEMMA OneAfterTheOther ==
  ASSUME NEW S, NEW q \in Seq(S), NEW r \in Seq(S)
  PROVE  /\ q \o r \in Seq(S) /\ ToSet(q \o r) = ToSet(q) \cup ToSet(r)
         /\ Distinct(q) /\ Distinct(r) /\ ToSet(q) \cap ToSet(r) = {} => Distinct(q \o r)
<1> DEFINE b == q \o r
<1>1. /\ Len(q) \in Nat /\ Len(r) \in Nat /\ b \in Seq(S) /\ Len(b) = Len(q) + Len(r)
      /\ DOMAIN q = 1 .. Len(q) /\ DOMAIN r = 1 .. Len(r) /\ DOMAIN b = 1 .. Len(q) + Len(r)
  OBVIOUS
<1>2. \A i \in DOMAIN q : b[i] = q[i] /\ i \in DOMAIN b
  BY <1>1
<1>3. \A i \in DOMAIN r : b[Len(q) + i] = r[i] /\ Len(q) + i \in DOMAIN b
  <2> SUFFICES ASSUME NEW i \in DOMAIN r PROVE b[Len(q) + i] = r[i] /\ Len(q) + i \in DOMAIN b
    OBVIOUS
  <2>1. Len(q) + i \in 1 .. Len(q) + Len(r) /\ Len(q) + i > Len(q) /\ (Len(q) + i) - Len(q) = i
    BY <1>1
  <2> QED
    BY <1>1, <2>1
<1> HIDE DEF b
<1>4. \A i \in DOMAIN b : i \in DOMAIN q \/ (i - Len(q) \in DOMAIN r /\ Len(q) + (i - Len(q)) = i)
  BY <1>1
<1>5. ASSUME NEW i \in DOMAIN b PROVE b[i] \in ToSet(q) \cup ToSet(r)
  <2>1. CASE i \in DOMAIN q
    BY <1>2, <2>1 DEF ToSet
  <2>2. CASE i - Len(q) \in DOMAIN r /\ Len(q) + (i - Len(q)) = i
    BY <1>3, <2>2 DEF ToSet
  <2> QED
    BY <1>4, <2>1, <2>2
<1>6. ToSet(b) = ToSet(q) \cup ToSet(r)
  <2>1. \A i \in DOMAIN q : q[i] \in ToSet(b)
    BY <1>2 DEF ToSet
  <2>2. \A i \in DOMAIN r : r[i] \in ToSet(b)
    BY <1>3 DEF ToSet
  <2> QED
    BY <1>5, <2>1, <2>2 DEF ToSet
<1>7. ASSUME Distinct(q), Distinct(r), ToSet(q) \cap ToSet(r) = {} PROVE Distinct(b)
  <2> SUFFICES ASSUME NEW i \in DOMAIN b, NEW j \in DOMAIN b, b[i] = b[j] PROVE i = j
    BY DEF Distinct
  <2> DEFINE k == i - Len(q)
             l == j - Len(q)
  <2>1. CASE i \in DOMAIN q /\ j \in DOMAIN q
    BY <1>2, <1>7, <2>1 DEF Distinct
  <2>2. CASE k \in DOMAIN r /\ Len(q) + k = i /\ l \in DOMAIN r /\ Len(q) + l = j
    <3>1. r[k] = r[l]
      BY <1>3, <2>2
    <3>2. k = l
      BY <1>7, <2>2, <3>1 DEF Distinct
    <3> HIDE DEF k, l
    <3> QED
      BY <2>2, <3>2
  <2>3. CASE i \in DOMAIN q /\ l \in DOMAIN r /\ Len(q) + l = j
    <3>1. q[i] = r[l]
      BY <1>2, <1>3, <2>3
    <3> QED
      BY <1>7, <2>3, <3>1 DEF ToSet
  <2>4. CASE j \in DOMAIN q /\ k \in DOMAIN r /\ Len(q) + k = i
    <3>1. q[j] = r[k]
      BY <1>2, <1>3, <2>4
    <3> QED
      BY <1>7, <2>4, <3>1 DEF ToSet
  <2> QED
    BY <1>4, <2>1, <2>2, <2>3, <2>4
<1> QED
  BY <1>1, <1>6, <1>7 DEF b

(* Every order of a set has its elements, each once.                       *)
LEMMA SeqsOfSet ==
  ASSUME NEW S, IsFiniteSet(S), NEW q \in SetToSeqs(S)
  PROVE  q \in Seq(S) /\ Distinct(q) /\ ToSet(q) = S
<1> DEFINE n == Cardinality(S)
<1>1. n \in Nat
  BY FS_CardinalityType
<1>2. q \in [1 .. n -> S] /\ \A i, j \in 1 .. n : i # j => q[i] # q[j]
  BY DEF SetToSeqs
<1>3. q \in Injection(1 .. n, S)
  BY <1>2 DEF Injection, IsInjective
<1>4. Cardinality(1 .. n) = n
  <2>1. Cardinality(1 .. n) = IF 1 > n THEN 0 ELSE n - 1 + 1
    BY <1>1, FS_Interval
  <2> HIDE DEF n
  <2> QED
    BY <1>1, <2>1
<1>5. q \in Surjection(1 .. n, S)
  BY <1>3, <1>4, FS_Injection
<1> HIDE DEF n
<1>6. q \in Seq(S) /\ DOMAIN q = 1 .. n
  BY <1>1, <1>2
<1>7. Distinct(q)
  BY <1>2, <1>6 DEF Distinct
<1>8. ToSet(q) = S
  BY <1>5, <1>6 DEF Surjection, ToSet
<1> QED
  BY <1>6, <1>7, <1>8

-----------------------------------------------------------------------------
(* The dependency manager.                                                 *)

\* The sets of get_service_dependencies, after at most m rounds.
Reached(s, m, r) ==
  r = [n \in 0 .. m |-> IF n = 0 THEN InGraph(s) ELSE r[n - 1] \cup UNION {InGraph(d) : d \in r[n - 1]}]

LEMMA ReachedExists ==
  ASSUME NEW s, NEW k \in Nat
  PROVE  \E r : Reached(s, k, r)
<1> DEFINE T == {m \in Nat : \E r : Reached(s, m, r)}
<1>1. 0 \in T
  <2> DEFINE r == [n \in 0 .. 0 |-> InGraph(s)]
  <2>1. r = [n \in 0 .. 0 |-> IF n = 0 THEN InGraph(s) ELSE r[n - 1] \cup UNION {InGraph(d) : d \in r[n - 1]}]
    OBVIOUS
  <2> HIDE DEF r
  <2>2. Reached(s, 0, r)
    BY <2>1 DEF Reached
  <2> QED
    BY <2>2
<1>2. ASSUME NEW m \in T PROVE m + 1 \in T
  <2>1. m \in Nat /\ m + 1 \in Nat
    OBVIOUS
  <2>2. PICK r : Reached(s, m, r)
    OBVIOUS
  <2> DEFINE next(f, n) == IF n = 0 THEN InGraph(s) ELSE f[n - 1] \cup UNION {InGraph(d) : d \in f[n - 1]}
             g == [n \in 0 .. m + 1 |-> IF n <= m THEN r[n] ELSE next(r, n)]
  <2>3. r = [n \in 0 .. m |-> next(r, n)]
    BY <2>2 DEF Reached
  <2>4. ASSUME NEW n \in 0 .. m + 1 PROVE g[n] = next(g, n)
    <3>1. n = 0 \/ (n # 0 /\ n - 1 \in 0 .. m /\ n - 1 \in 0 .. m + 1)
      BY <2>1
    <3>2. n # 0 => g[n - 1] = r[n - 1]
      BY <2>1, <3>1
    <3>3. next(g, n) = next(r, n)
      BY <3>2
    <3>4. CASE n <= m
      <4>1. n \in 0 .. m /\ g[n] = r[n]
        BY <2>1, <3>4
      <4> HIDE DEF g, next
      <4> QED
        BY <2>3, <3>3, <4>1
    <3>5. CASE ~ (n <= m)
      BY <3>3, <3>5
    <3> QED
      BY <3>4, <3>5
  <2>5. g = [n \in 0 .. m + 1 |-> next(g, n)]
    <3>1. g = [n \in 0 .. m + 1 |-> g[n]]
      OBVIOUS
    <3> HIDE DEF g, next
    <3> QED
      BY <2>4, <3>1
  <2> HIDE DEF g
  <2>6. Reached(s, m + 1, g)
    BY <2>5 DEF Reached
  <2> QED
    BY <2>1, <2>6
<1>3. T = Nat
  <2> HIDE DEF T
  <2>1. T \in SUBSET Nat
    BY DEF T
  <2> QED
    BY <1>1, <1>2, <2>1, Induct
<1> QED
  BY <1>3

(* What a service stands on stays in every set that is closed.             *)
LEMMA StandsOnClosed ==
  ASSUME NEW s, NEW C, InGraph(s) \subseteq C, \A d \in C : InGraph(d) \subseteq C
  PROVE  TransitiveDependencies(s) \subseteq C
<1> DEFINE k == Cardinality(Names)
           r == CHOOSE r : Reached(s, k, r)
<1>1. k \in Nat
  BY ServicesAssumption, FS_CardinalityType DEF ServicesAssumption
<1>2. Reached(s, k, r)
  BY <1>1, ReachedExists
<1>3. TransitiveDependencies(s) = r[k]
  BY DEF TransitiveDependencies, Reached
<1> HIDE DEF k, r
<1> DEFINE T == {n \in Nat : n <= k => r[n] \subseteq C}
<1>4. 0 \in T
  <2>1. r[0] = InGraph(s)
    BY <1>1, <1>2 DEF Reached
  <2> QED
    BY <2>1
<1>5. ASSUME NEW n \in T PROVE n + 1 \in T
  <2>1. n \in Nat /\ n + 1 \in Nat
    OBVIOUS
  <2>2. ASSUME n + 1 <= k PROVE r[n + 1] \subseteq C
    <3>1. n + 1 \in 0 .. k /\ n + 1 # 0 /\ (n + 1) - 1 = n /\ n <= k
      BY <1>1, <2>1, <2>2
    <3>2. r[n + 1] = r[n] \cup UNION {InGraph(d) : d \in r[n]}
      BY <1>2, <3>1 DEF Reached
    <3>3. r[n] \subseteq C
      BY <3>1
    <3> QED
      BY <3>2, <3>3
  <2> QED
    BY <2>1, <2>2
<1>6. T = Nat
  <2> HIDE DEF T
  <2>1. T \in SUBSET Nat
    BY DEF T
  <2> QED
    BY <1>4, <1>5, <2>1, Induct
<1> QED
  BY <1>1, <1>3, <1>6

(* An order in which every service comes after all it depends on.          *)
Ordered(q) ==
  /\ q \in Seq(Names) /\ Distinct(q)
  /\ \A i \in DOMAIN q : InGraph(q[i]) \subseteq {q[j] : j \in 1 .. i - 1}

LEMMA StandsOnEarlier ==
  ASSUME NEW q, Ordered(q), NEW i \in DOMAIN q, NEW j \in DOMAIN q, q[j] \in TransitiveDependencies(q[i])
  PROVE  j < i
<1> DEFINE C == {q[k] : k \in 1 .. i - 1}
<1>1. DOMAIN q = 1 .. Len(q) /\ Len(q) \in Nat
  BY DEF Ordered
<1>2. InGraph(q[i]) \subseteq C
  BY DEF Ordered
<1>3. ASSUME NEW d \in C PROVE InGraph(d) \subseteq C
  <2>1. PICK k \in 1 .. i - 1 : d = q[k]
    OBVIOUS
  <2>2. k \in DOMAIN q /\ \A l \in 1 .. k - 1 : l \in 1 .. i - 1
    BY <1>1
  <2>3. InGraph(d) \subseteq {q[l] : l \in 1 .. k - 1}
    BY <2>1, <2>2 DEF Ordered
  <2> QED
    BY <2>2, <2>3
<1>4. TransitiveDependencies(q[i]) \subseteq C
  <2> HIDE DEF C
  <2> QED
    BY <1>2, <1>3, StandsOnClosed
<1>5. PICK k \in 1 .. i - 1 : q[j] = q[k]
  BY <1>4
<1>6. k \in DOMAIN q /\ k < i
  BY <1>1
<1> QED
  BY <1>5, <1>6 DEF Ordered, Distinct

(* Of finitely many numbers one is the largest.                            *)
LEMMA LargestExists ==
  ASSUME NEW S, IsFiniteSet(S), S # {}, NEW f, \A d \in S : f[d] \in Nat
  PROVE  \E d \in S : \A e \in S : f[e] <= f[d]
<1> DEFINE OfSize(n) == {A \in SUBSET S : Cardinality(A) = n + 1}
           T == {n \in Nat : \A A \in OfSize(n) : \E d \in A : \A e \in A : f[e] <= f[d]}
<1>1. 0 \in T
  <2>1. ASSUME NEW A \in SUBSET S, Cardinality(A) = 1 PROVE \E d \in A : \A e \in A : f[e] <= f[d]
    <3>1. IsFiniteSet(A)
      BY FS_Subset
    <3>2. PICK x : A = {x}
      BY <2>1, <3>1, FS_Singleton
    <3>3. f[x] \in Nat
      BY <3>2
    <3> QED
      BY <3>2, <3>3
  <2> QED
    BY <2>1
<1>2. ASSUME NEW n \in T PROVE n + 1 \in T
  <2>1. ASSUME NEW A \in SUBSET S, Cardinality(A) = (n + 1) + 1 PROVE \E d \in A : \A e \in A : f[e] <= f[d]
    <3>1. IsFiniteSet(A) /\ A # {} /\ n \in Nat
      BY <2>1, FS_Subset, FS_EmptySet
    <3>2. PICK x \in A : TRUE
      BY <3>1
    <3>3. Cardinality(A \ {x}) = n + 1
      <4>1. Cardinality(A \ {x}) = Cardinality(A) - 1
        BY <3>1, <3>2, FS_RemoveElement
      <4> QED
        BY <2>1, <3>1, <4>1
    <3>4. PICK d \in A \ {x} : \A e \in A \ {x} : f[e] <= f[d]
      BY <3>3
    <3>5. f[x] \in Nat /\ f[d] \in Nat /\ \A e \in A : f[e] \in Nat
      BY <3>2
    <3>6. CASE f[x] <= f[d]
      BY <3>4, <3>6
    <3>7. CASE f[d] <= f[x]
      BY <3>2, <3>4, <3>5, <3>7
    <3> QED
      BY <3>5, <3>6, <3>7
  <2> QED
    BY <2>1
<1>3. T = Nat
  <2> HIDE DEF T
  <2>1. T \in SUBSET Nat
    BY DEF T
  <2> QED
    BY <1>1, <1>2, <2>1, Induct
<1>4. Cardinality(S) \in Nat /\ Cardinality(S) # 0
  BY FS_CardinalityType, FS_EmptySet
<1>5. Cardinality(S) - 1 \in Nat /\ S \in OfSize(Cardinality(S) - 1)
  BY <1>4
<1> QED
  BY <1>3, <1>5

(* The depth of a service, given those of what it depends on.              *)
Deep(f, s) ==
  IF InGraph(s) = {} THEN 0
  ELSE 1 + CHOOSE m \in {f[d] : d \in InGraph(s)} : \A d \in InGraph(s) : f[d] <= m

LEMMA GraphFinite == ASSUME NEW s PROVE IsFiniteSet(InGraph(s)) /\ InGraph(s) \subseteq Names
<1>1. InGraph(s) \in SUBSET Names
  BY DEF InGraph
<1> QED
  BY <1>1, ServicesAssumption, FS_Subset DEF ServicesAssumption

LEMMA DeepIs ==
  ASSUME NEW f, NEW s, \A d \in InGraph(s) : f[d] \in Nat
  PROVE  /\ Deep(f, s) \in Nat
         /\ \A d \in InGraph(s) : f[d] < Deep(f, s)
         /\ InGraph(s) # {} => \E d \in InGraph(s) : Deep(f, s) = f[d] + 1
<1>1. CASE InGraph(s) = {}
  BY <1>1 DEF Deep
<1>2. CASE InGraph(s) # {}
  <2> DEFINE m == CHOOSE n \in {f[d] : d \in InGraph(s)} : \A d \in InGraph(s) : f[d] <= n
  <2>1. \E n \in {f[d] : d \in InGraph(s)} : \A d \in InGraph(s) : f[d] <= n
    BY <1>2, GraphFinite, LargestExists
  <2>2. m \in {f[d] : d \in InGraph(s)} /\ \A d \in InGraph(s) : f[d] <= m
    BY <2>1
  <2>3. Deep(f, s) = 1 + m
    BY <1>2 DEF Deep
  <2> HIDE DEF m
  <2> QED
    BY <2>2, <2>3
<1> QED
  BY <1>1, <1>2

LEMMA DeepSame ==
  ASSUME NEW f, NEW g, NEW s, \A d \in InGraph(s) : f[d] \in Nat /\ g[d] = f[d]
  PROVE  Deep(g, s) = Deep(f, s)
<1>1. CASE InGraph(s) = {}
  BY <1>1 DEF Deep
<1>2. CASE InGraph(s) # {}
  <2>1. PICK d \in InGraph(s) : Deep(f, s) = f[d] + 1
    BY <1>2, DeepIs
  <2>2. PICK e \in InGraph(s) : Deep(g, s) = g[e] + 1
    BY <1>2, DeepIs
  <2>3. f[e] < f[d] + 1 /\ g[d] < g[e] + 1
    BY <2>1, <2>2, DeepIs
  <2>4. f[d] \in Nat /\ f[e] \in Nat /\ g[d] = f[d] /\ g[e] = f[e]
    OBVIOUS
  <2>5. f[d] = f[e]
    BY <2>3, <2>4
  <2> QED
    BY <2>1, <2>2, <2>4, <2>5
<1> QED
  BY <1>1, <1>2

\* What is done for an order's first k services.
DeepUpTo(f, q, k) == \A j \in DOMAIN q : j <= k => f[q[j]] \in Nat /\ f[q[j]] = Deep(f, q[j])

LEMMA EarlierDeep ==
  ASSUME NEW q, Ordered(q), NEW k \in Nat, NEW f, DeepUpTo(f, q, k), NEW i \in DOMAIN q, i <= k + 1
  PROVE  \A d \in InGraph(q[i]) : f[d] \in Nat
<1> SUFFICES ASSUME NEW d \in InGraph(q[i]) PROVE f[d] \in Nat
  OBVIOUS
<1>1. DOMAIN q = 1 .. Len(q) /\ Len(q) \in Nat
  BY DEF Ordered
<1>2. PICK j \in 1 .. i - 1 : d = q[j]
  BY DEF Ordered
<1>3. j \in DOMAIN q /\ j <= k
  BY <1>1
<1> QED
  BY <1>2, <1>3 DEF DeepUpTo

LEMMA DeepExists ==
  ASSUME NEW q, Ordered(q), ToSet(q) = Names
  PROVE  \E f : f = [s \in Names |-> Deep(f, s)]
<1> DEFINE T == {k \in Nat : \E f \in [Names -> Nat] : DeepUpTo(f, q, k)}
<1>1. DOMAIN q = 1 .. Len(q) /\ Len(q) \in Nat /\ \A i \in DOMAIN q : q[i] \in Names
  BY DEF Ordered
<1>2. 0 \in T
  <2>1. [s \in Names |-> 0] \in [Names -> Nat] /\ DeepUpTo([s \in Names |-> 0], q, 0)
    BY <1>1 DEF DeepUpTo
  <2> QED
    BY <2>1
<1>3. ASSUME NEW k \in T PROVE k + 1 \in T
  <2>1. k \in Nat /\ k + 1 \in Nat
    OBVIOUS
  <2>2. PICK f \in [Names -> Nat] : DeepUpTo(f, q, k)
    OBVIOUS
  <2>3. CASE k + 1 \notin DOMAIN q
    <3>1. \A j \in DOMAIN q : j <= k + 1 => j <= k
      BY <1>1, <2>1, <2>3
    <3>2. DeepUpTo(f, q, k + 1)
      BY <2>2, <3>1 DEF DeepUpTo
    <3> QED
      BY <2>1, <3>2
  <2>4. CASE k + 1 \in DOMAIN q
    <3>1. PICK x \in Names : x = q[k + 1]
      BY <1>1, <2>4
    <3>2. PICK n : n = Deep(f, x)
      OBVIOUS
    <3>3. n \in Nat
      <4>1. \A d \in InGraph(x) : f[d] \in Nat
        BY <2>1, <2>2, <2>4, <3>1, EarlierDeep
      <4> QED
        BY <3>2, <4>1, DeepIs
    <3>4. PICK g \in [Names -> Nat] : g = [f EXCEPT ![x] = n]
      BY <3>3
    <3>5. ASSUME NEW i \in DOMAIN q, i <= k + 1 PROVE Deep(g, q[i]) = Deep(f, q[i])
      <4>1. \A d \in InGraph(q[i]) : f[d] \in Nat
        BY <2>1, <2>2, <3>5, EarlierDeep
      <4>2. ASSUME NEW d \in InGraph(q[i]) PROVE g[d] = f[d]
        <5>1. PICK j \in 1 .. i - 1 : d = q[j]
          BY DEF Ordered
        <5>2. j \in DOMAIN q /\ j # k + 1
          BY <1>1, <2>1, <3>5
        <5>3. d # x /\ d \in Names
          BY <1>1, <2>4, <3>1, <5>1, <5>2 DEF Ordered, Distinct
        <5> QED
          BY <3>4, <5>3
      <4> QED
        BY <4>1, <4>2, DeepSame
    <3>6. ASSUME NEW i \in DOMAIN q, i <= k + 1 PROVE g[q[i]] \in Nat /\ g[q[i]] = Deep(g, q[i])
      <4>1. q[i] \in Names
        BY <1>1
      <4>2. CASE i = k + 1
        BY <3>1, <3>2, <3>4, <3>5, <3>6, <4>2
      <4>3. CASE i # k + 1
        <5>1. q[i] # x /\ i <= k
          <6>1. i <= k
            BY <1>1, <2>1, <3>6, <4>3
          <6>2. q[i] # q[k + 1]
            BY <2>4, <4>3 DEF Ordered, Distinct
          <6> QED
            BY <3>1, <6>1, <6>2
        <5>2. g[q[i]] = f[q[i]]
          BY <3>4, <4>1, <5>1
        <5>3. f[q[i]] = Deep(f, q[i]) /\ f[q[i]] \in Nat
          BY <2>2, <5>1 DEF DeepUpTo
        <5> QED
          BY <3>5, <3>6, <5>2, <5>3
      <4> QED
        BY <4>2, <4>3
    <3>7. DeepUpTo(g, q, k + 1)
      BY <3>6 DEF DeepUpTo
    <3> QED
      BY <2>1, <3>7
  <2> QED
    BY <2>3, <2>4
<1>4. T = Nat
  <2> HIDE DEF T
  <2>1. T \in SUBSET Nat
    BY DEF T
  <2> QED
    BY <1>2, <1>3, <2>1, Induct
<1>5. PICK f \in [Names -> Nat] : DeepUpTo(f, q, Len(q))
  BY <1>1, <1>4
<1>6. ASSUME NEW s \in Names PROVE f[s] = Deep(f, s)
  <2>1. PICK i \in DOMAIN q : s = q[i]
    BY DEF ToSet
  <2>2. i <= Len(q)
    BY <1>1
  <2> QED
    BY <1>5, <2>1, <2>2 DEF DeepUpTo
<1>7. f = [s \in Names |-> f[s]]
  OBVIOUS
<1>8. [s \in Names |-> f[s]] = [s \in Names |-> Deep(f, s)]
  BY <1>6
<1> QED
  BY <1>7, <1>8

(* What a service stands on has a lower priority than it.                  *)
LEMMA PriorityFalls ==
  ASSUME NEW q, Ordered(q), ToSet(q) = Names, NEW s \in Names
  PROVE  /\ Priority[s] \in Nat
         /\ \A d \in TransitiveDependencies(s) \cap Names : Priority[d] < Priority[s]
<1> DEFINE p == CHOOSE f : f = [x \in Names |-> Deep(f, x)]
<1>1. p = [x \in Names |-> Deep(p, x)]
  BY DeepExists
<1>2. Priority = p
  BY DEF Priority, Deep
<1> HIDE DEF p
<1>3. DOMAIN q = 1 .. Len(q) /\ Len(q) \in Nat /\ \A i \in DOMAIN q : q[i] \in Names
  BY DEF Ordered
<1> DEFINE T == {k \in Nat : DeepUpTo(p, q, k)}
<1>4. 0 \in T
  BY <1>3 DEF DeepUpTo
<1>5. ASSUME NEW k \in T PROVE k + 1 \in T
  <2>1. k \in Nat /\ k + 1 \in Nat /\ DeepUpTo(p, q, k)
    OBVIOUS
  <2>2. ASSUME NEW i \in DOMAIN q, i <= k + 1 PROVE p[q[i]] \in Nat /\ p[q[i]] = Deep(p, q[i])
    <3>1. \A d \in InGraph(q[i]) : p[d] \in Nat
      BY <2>1, <2>2, EarlierDeep
    <3>2. Deep(p, q[i]) \in Nat
      BY <3>1, DeepIs
    <3>3. p[q[i]] = Deep(p, q[i])
      BY <1>1, <1>3
    <3> QED
      BY <3>2, <3>3
  <2> QED
    BY <2>1, <2>2 DEF DeepUpTo
<1>6. T = Nat
  <2> HIDE DEF T
  <2>1. T \in SUBSET Nat
    BY DEF T
  <2> QED
    BY <1>4, <1>5, <2>1, Induct
<1>7. \A x \in Names : p[x] \in Nat
  <2> SUFFICES ASSUME NEW x \in Names PROVE p[x] \in Nat
    OBVIOUS
  <2>1. PICK i \in DOMAIN q : x = q[i]
    BY DEF ToSet
  <2>2. i <= Len(q) /\ DeepUpTo(p, q, Len(q))
    BY <1>3, <1>6
  <2> QED
    BY <2>1, <2>2 DEF DeepUpTo
<1>8. ASSUME NEW x \in Names, NEW d \in InGraph(x) PROVE d \in Names /\ p[d] < p[x]
  <2>1. \A e \in InGraph(x) : p[e] \in Nat
    BY <1>7, GraphFinite
  <2>2. p[x] = Deep(p, x) /\ d \in Names
    BY <1>1, GraphFinite
  <2> QED
    BY <2>1, <2>2, DeepIs
<1> DEFINE C == {d \in Names : p[d] < p[s]}
<1>9. InGraph(s) \subseteq C
  BY <1>8
<1>10. ASSUME NEW d \in C PROVE InGraph(d) \subseteq C
  <2>1. ASSUME NEW e \in InGraph(d) PROVE e \in C
    <3>1. e \in Names /\ p[e] < p[d] /\ p[d] < p[s]
      BY <1>8
    <3>2. p[e] \in Nat /\ p[d] \in Nat /\ p[s] \in Nat
      BY <1>7, <3>1
    <3> QED
      BY <3>1, <3>2
  <2> QED
    BY <2>1
<1>11. TransitiveDependencies(s) \subseteq C
  <2> HIDE DEF C
  <2> QED
    BY <1>9, <1>10, StandsOnClosed
<1> QED
  BY <1>2, <1>7, <1>11

(* The resolved order is sound.                                            *)
LEMMA GroupsApart ==
  ASSUME Ordered(order), ToSet(order) = Names
  PROVE  /\ ToSet(order) = Names /\ Len(order) = Cardinality(Names)
         /\ \A i, j \in DOMAIN order : order[j] \in TransitiveDependencies(order[i]) => j < i
         /\ \A p \in DOMAIN Groups : \A s, t \in Groups[p] : s \notin TransitiveDependencies(t)
<1>1. Len(order) = Cardinality(Names)
  <2>1. DOMAIN order = 1 .. Len(order) /\ Len(order) \in Nat /\ order \in [1 .. Len(order) -> Names]
    BY DEF Ordered
  <2>2. order \in Injection(1 .. Len(order), Names)
    BY <2>1 DEF Injection, IsInjective, Ordered, Distinct
  <2>3. order \in Surjection(1 .. Len(order), Names)
    BY <2>1 DEF Surjection, ToSet
  <2>4. Cardinality(1 .. Len(order)) = Len(order) /\ IsFiniteSet(1 .. Len(order))
    <3> DEFINE n == Len(order)
    <3>1. n \in Nat
      BY <2>1
    <3> HIDE DEF n
    <3>2. IsFiniteSet(1 .. n) /\ Cardinality(1 .. n) = IF 1 > n THEN 0 ELSE n - 1 + 1
      BY <3>1, FS_Interval
    <3> QED
      BY <3>1, <3>2 DEF n
  <2>5. Cardinality(1 .. Len(order)) = Cardinality(Names)
    BY <2>2, <2>3, ServicesAssumption, FS_Injection DEF ServicesAssumption
  <2> QED
    BY <2>4, <2>5
<1>2. \A i, j \in DOMAIN order : order[j] \in TransitiveDependencies(order[i]) => j < i
  BY StandsOnEarlier
<1>3. ASSUME NEW p \in DOMAIN Groups, NEW s \in Groups[p], NEW t \in Groups[p] PROVE s \notin TransitiveDependencies(t)
  <2>1. s \in Names /\ t \in Names /\ Priority[s] = p /\ Priority[t] = p
    BY <1>3 DEF Groups
  <2>2. Priority[s] \in Nat
    BY <2>1, PriorityFalls
  <2>3. \A d \in TransitiveDependencies(t) \cap Names : Priority[d] < Priority[t]
    BY <2>1, PriorityFalls
  <2> QED
    BY <2>1, <2>2, <2>3
<1> QED
  BY <1>1, <1>2, <1>3

-----------------------------------------------------------------------------
(* The search for cycles.                                                  *)

\* Every set of the services S has one that depends on no other of it.
Grounded(S) == \A T \in SUBSET S : T # {} => \E s \in T : dependencies[s] \cap T = {}

Chain(q) == \A i \in 1 .. Len(q) - 1 : q[i + 1] \in dependencies[q[i]]

Black == {s \in Names : color[s] = "black"}

\* The path is a chain of the gray services, and what the black ones depend on is black.
SearchInv ==
  /\ dependencies \in [Names -> SUBSET (Names \cup {Unknown})]
  /\ pc # "build" /\ error # "KeyError" => dependencies \in [Names -> SUBSET Names]
  /\ color \in [Names -> {"white", "gray", "black"}]
  /\ path \in Seq(Names) /\ Chain(path)
  /\ pc = "build" => path = <<>> /\ color = White /\ error = "none"
  /\ pc = "cycles" =>
       /\ error = "none"
       /\ {s \in Names : color[s] = "gray"} = ToSet(path) /\ Distinct(path)
       /\ Grounded(Black) /\ \A s \in Black : dependencies[s] \subseteq Black
  /\ error = "circular" => path # <<>> /\ Head(path) \in dependencies[Top]

LEMMA SearchInit == Init => SearchInv
<1> SUFFICES ASSUME Init PROVE SearchInv
  OBVIOUS
<1>1. path = <<>> /\ path \in Seq(Names) /\ Len(path) = 0
  BY DEF Init
<1>2. Chain(path)
  BY <1>1 DEF Chain
<1> QED
  BY <1>1, <1>2 DEF Init, SearchInv, White

\* What is done with the order has begun.
Resolved == {"resolved", "up", "container", "health", "gather", "testing", "stop", "stopping", "over"}

LEMMA Onward ==
  ASSUME Start \/ Stop
  PROVE  /\ UNCHANGED resolving /\ pc \in Resolved /\ pc' \in Resolved /\ (pc = "over" => pc' = "over")
BY DEF Start, Stop, StartServices, WriteComposeFile, FailStart, ComposeUp, WaitForContainer, TryHealth, WaitForAll,
   AskAgain, Gather, EndTest, StopServices, StopService, ComposeDown, Return, Resolved

LEMMA SearchStays ==
  ASSUME SearchInv, UNCHANGED <<dependencies, error, color, path>>, pc # "build", pc' \notin {"build", "cycles"}
  PROVE  SearchInv'
BY DEF SearchInv, Chain, Top, Last

(* A service that is left joins the black ones, all it depends on being    *)
(* among them.                                                             *)
LEMMA GroundedGrows ==
  ASSUME NEW B, Grounded(B), NEW x, x \notin B, dependencies[x] \subseteq B, \A s \in B : dependencies[s] \subseteq B
  PROVE  Grounded(B \cup {x})
<1> SUFFICES ASSUME NEW T \in SUBSET (B \cup {x}), T # {} PROVE \E s \in T : dependencies[s] \cap T = {}
  BY DEF Grounded
<1>1. CASE T \cap B = {}
  <2>1. T = {x}
    BY <1>1
  <2> QED
    BY <2>1
<1>2. CASE T \cap B # {}
  <2>1. PICK s \in T \cap B : dependencies[s] \cap (T \cap B) = {}
    <3>1. T \cap B \in SUBSET B
      OBVIOUS
    <3> QED
      BY <1>2, <3>1 DEF Grounded
  <2>2. dependencies[s] \subseteq B
    OBVIOUS
  <2> QED
    BY <2>1, <2>2
<1> QED
  BY <1>1, <1>2

LEMMA SearchBuild ==
  ASSUME SearchInv, Build PROVE SearchInv'
<1>1. pc = "build" /\ UNCHANGED <<dependencies, color, path>> /\ path = <<>> /\ color = White
  BY DEF Build, SearchInv
<1>2. Chain(path)' /\ Distinct(path) /\ ToSet(path) = {}
  BY <1>1 DEF SearchInv, Chain, Distinct, ToSet
<1>3. CASE \E s \in Names : dependencies[s] \notin SUBSET Names
  BY <1>1, <1>2, <1>3 DEF Build, SearchInv
<1>4. CASE \A s \in Names : dependencies[s] \in SUBSET Names
  <2>1. error' = error /\ pc' = "cycles"
    BY <1>4 DEF Build
  <2>2. dependencies' \in [Names -> SUBSET Names]
    BY <1>1, <1>4 DEF SearchInv
  <2>3. Black' = {} /\ {s \in Names : color'[s] = "gray"} = {}
    BY <1>1 DEF White, Black
  <2>4. Grounded(Black)'
    BY <2>3 DEF Grounded
  <2>5. error = "none"
    BY <1>1 DEF SearchInv
  <2> QED
    BY <1>1, <1>2, <2>1, <2>2, <2>3, <2>4, <2>5 DEF SearchInv
<1> QED
  BY <1>3, <1>4

LEMMA SearchVisit ==
  ASSUME SearchInv, NEW s \in Names, Visit(s) PROVE SearchInv'
<1>1. /\ pc = "cycles" /\ color[s] = "white" /\ (path # <<>> => s \in dependencies[Top])
      /\ color' = [color EXCEPT ![s] = "gray"] /\ path' = Append(path, s)
      /\ UNCHANGED <<dependencies, error, pc>>
  BY DEF Visit
<1>2. /\ color \in [Names -> {"white", "gray", "black"}] /\ path \in Seq(Names) /\ Chain(path)
      /\ {x \in Names : color[x] = "gray"} = ToSet(path) /\ Distinct(path)
  BY <1>1 DEF SearchInv
<1>3. path' \in Seq(Names) /\ ToSet(path') = ToSet(path) \cup {s} /\ s \notin ToSet(path) /\ Distinct(path')
  <2>1. s \notin ToSet(path)
    BY <1>1, <1>2
  <2> QED
    BY <1>1, <1>2, <2>1, WithOneMore
<1>4. Chain(path)'
  <2> SUFFICES ASSUME NEW i \in 1 .. Len(path') - 1 PROVE path'[i + 1] \in dependencies[path'[i]]
    BY <1>1 DEF Chain
  <2>1. Len(path') = Len(path) + 1 /\ Len(path) \in Nat
    BY <1>1, <1>2
  <2>2. CASE i = Len(path)
    <3>1. path # <<>> /\ path'[i] = path[Len(path)] /\ path'[i + 1] = s
      BY <1>1, <1>2, <2>1, <2>2
    <3> QED
      BY <1>1, <2>2, <3>1 DEF Top, Last
  <2>3. CASE i # Len(path)
    <3>1. i \in 1 .. Len(path) - 1
      BY <2>1, <2>3
    <3>2. path'[i] = path[i] /\ path'[i + 1] = path[i + 1]
      BY <1>1, <1>2, <2>1, <3>1
    <3> QED
      BY <1>2, <3>1, <3>2 DEF Chain
  <2> QED
    BY <2>2, <2>3
<1>5. /\ color' \in [Names -> {"white", "gray", "black"}] /\ Black' = Black
      /\ {x \in Names : color'[x] = "gray"} = ToSet(path) \cup {s}
  BY <1>1, <1>2 DEF Black
<1>6. /\ Grounded(Black)' /\ \A x \in Black' : dependencies'[x] \subseteq Black'
  BY <1>1, <1>5 DEF SearchInv, Grounded
<1> QED
  BY <1>1, <1>3, <1>4, <1>5, <1>6 DEF SearchInv

LEMMA SearchClose ==
  ASSUME SearchInv, NEW s \in Names, CloseCycle(s) PROVE SearchInv'
<1> DEFINE k == CHOOSE i \in DOMAIN path : path[i] = s
           r == SubSeq(path, k, Len(path))
<1>1. /\ pc = "cycles" /\ color[s] = "gray" /\ s \in dependencies[Top]
      /\ error' = "circular" /\ pc' = "over" /\ path' = r
      /\ UNCHANGED <<dependencies, color>>
  BY DEF CloseCycle
<1>2. /\ color \in [Names -> {"white", "gray", "black"}] /\ path \in Seq(Names) /\ Chain(path)
      /\ {x \in Names : color[x] = "gray"} = ToSet(path)
      /\ dependencies \in [Names -> SUBSET Names]
  BY <1>1 DEF SearchInv
<1>3. k \in DOMAIN path /\ path[k] = s
  BY <1>1, <1>2 DEF ToSet
<1>4. k \in 1 .. Len(path) /\ Len(path) \in Nat
  BY <1>2, <1>3
<1> HIDE DEF k
<1>5. /\ r \in Seq(Names) /\ Len(r) = Len(path) - k + 1
      /\ \A i \in 1 .. Len(path) - k + 1 : r[i] = path[k + i - 1]
  BY <1>2, <1>4
<1> HIDE DEF r
<1>6. r # <<>> /\ Head(r) = s /\ Last(r) = Last(path)
  <2>1. Len(r) \in 1 .. Len(path) - k + 1 /\ 1 \in 1 .. Len(path) - k + 1 /\ k + Len(r) - 1 = Len(path) /\ k + 1 - 1 = k
    BY <1>4, <1>5
  <2>2. r[1] = s /\ r[Len(r)] = path[Len(path)]
    BY <1>3, <1>5, <2>1
  <2>3. r # <<>> /\ Head(r) = r[1]
    BY <1>5, <2>1
  <2> QED
    BY <2>2, <2>3 DEF Last
<1>7. Chain(r)
  <2> SUFFICES ASSUME NEW i \in 1 .. Len(r) - 1 PROVE r[i + 1] \in dependencies[r[i]]
    BY DEF Chain
  <2> DEFINE j == k + i - 1
  <2>1. /\ j \in 1 .. Len(path) - 1 /\ j + 1 = k + (i + 1) - 1
        /\ i \in 1 .. Len(path) - k + 1 /\ i + 1 \in 1 .. Len(path) - k + 1
    BY <1>4, <1>5
  <2>2. r[i] = path[j] /\ r[i + 1] = path[j + 1]
    BY <1>5, <2>1
  <2> HIDE DEF j
  <2> QED
    BY <1>2, <2>1, <2>2 DEF Chain
<1>8. Chain(path)' /\ Head(path') \in dependencies'[Top']
  BY <1>1, <1>6, <1>7 DEF Chain, Top
<1> QED
  BY <1>1, <1>2, <1>5, <1>6, <1>8 DEF SearchInv

LEMMA SearchLeave ==
  ASSUME SearchInv, LeaveVisit PROVE SearchInv'
<1> DEFINE n == Len(path)
           x == path[n]
<1>1. /\ pc = "cycles" /\ path # <<>> /\ (\A d \in dependencies[x] : color[d] = "black")
      /\ color' = [color EXCEPT ![x] = "black"] /\ path' = SubSeq(path, 1, n - 1)
      /\ UNCHANGED <<dependencies, error, pc>>
  BY DEF LeaveVisit, Top, Last, Front
<1>2. /\ color \in [Names -> {"white", "gray", "black"}] /\ path \in Seq(Names) /\ Chain(path)
      /\ {s \in Names : color[s] = "gray"} = ToSet(path) /\ Distinct(path)
      /\ dependencies \in [Names -> SUBSET Names]
      /\ Grounded(Black) /\ (\A s \in Black : dependencies[s] \subseteq Black)
  BY <1>1 DEF SearchInv
<1>3. n \in Nat /\ n >= 1 /\ n \in DOMAIN path /\ DOMAIN path = 1 .. n
  BY <1>1, <1>2
<1>4. /\ path' \in Seq(Names) /\ Len(path') = n - 1 /\ DOMAIN path' = 1 .. n - 1
      /\ \A i \in 1 .. n - 1 : path'[i] = path[i] /\ i \in DOMAIN path
  BY <1>1, <1>2, <1>3
<1>5. x \in Names /\ color[x] = "gray"
  BY <1>2, <1>3 DEF ToSet
<1>6. ToSet(path') = ToSet(path) \ {x} /\ Distinct(path')
  <2>1. \A i \in DOMAIN path : i \in 1 .. n - 1 \/ i = n
    BY <1>3
  <2>2. \A i \in 1 .. n - 1 : path[i] # x
    BY <1>2, <1>3, <1>4 DEF Distinct
  <2> HIDE DEF n, x
  <2>3. ToSet(path') = {path[i] : i \in 1 .. n - 1}
    BY <1>4 DEF ToSet
  <2>4. ToSet(path) = {path[i] : i \in 1 .. n - 1} \cup {x}
    BY <1>3, <1>4, <2>1 DEF ToSet, x
  <2>5. Distinct(path')
    BY <1>2, <1>4 DEF Distinct
  <2> QED
    BY <2>2, <2>3, <2>4, <2>5
<1>7. Chain(path)'
  <2> SUFFICES ASSUME NEW i \in 1 .. Len(path') - 1 PROVE path'[i + 1] \in dependencies[path'[i]]
    BY <1>1 DEF Chain
  <2>1. i \in 1 .. n - 1 /\ i + 1 \in 1 .. n - 1 /\ i \in 1 .. Len(path) - 1
    BY <1>3, <1>4
  <2> QED
    BY <1>2, <1>4, <2>1 DEF Chain
<1> HIDE DEF n, x
<1>8. /\ color' \in [Names -> {"white", "gray", "black"}] /\ Black' = Black \cup {x}
      /\ {s \in Names : color'[s] = "gray"} = ToSet(path) \ {x}
      /\ x \notin Black
  BY <1>1, <1>2, <1>5 DEF Black
<1>9. dependencies[x] \subseteq Black
  BY <1>1, <1>2, <1>5 DEF Black
<1>10. Grounded(Black \cup {x})
  BY <1>2, <1>8, <1>9, GroundedGrows
<1>11. Grounded(Black)' /\ \A s \in Black' : dependencies'[s] \subseteq Black'
  BY <1>1, <1>2, <1>8, <1>9, <1>10 DEF Grounded
<1> QED
  BY <1>1, <1>2, <1>4, <1>6, <1>7, <1>8, <1>11 DEF SearchInv

-----------------------------------------------------------------------------
(* The sort.                                                               *)

\* What has no dependency left out of the order is in the order or in the queue.
SortInv ==
  /\ order \in Seq(Names) /\ queue \in Seq(Names)
  /\ pc \in {"build", "cycles", "sort"} \cup Resolved
  /\ pc \in {"build", "cycles"} => order = <<>>
  /\ pc \in {"build", "cycles", "sort"} \cup (Resolved \ {"over"}) => error = "none"
  /\ pc \in {"sort"} \cup Resolved /\ error = "none" => Ordered(order)
  /\ pc \in Resolved /\ error = "none" => ToSet(order) = Names
  /\ pc = "sort" =>
       /\ Grounded(Names)
       /\ Distinct(queue) /\ ToSet(order) \cap ToSet(queue) = {}
       /\ inDegree = [s \in Names |-> Cardinality(dependencies[s] \ ToSet(order))]
       /\ \A s \in Names : dependencies[s] \subseteq ToSet(order) <=> s \in ToSet(order) \cup ToSet(queue)

LEMMA SortInit == Init => SortInv
BY DEF Init, SortInv, Resolved

LEMMA SortStays ==
  ASSUME SortInv, UNCHANGED <<dependencies, error, order, queue>>,
         \/ pc \in Resolved /\ pc' \in Resolved /\ (pc = "over" => pc' = "over")
         \/ pc \in {"build", "cycles"} /\ pc' = pc
  PROVE  SortInv'
BY DEF SortInv, Ordered, InGraph, Resolved

LEMMA SortBuild == ASSUME SortInv, Build PROVE SortInv'
BY DEF Build, SortInv, Resolved

LEMMA SortClose == ASSUME SortInv, NEW s \in Names, CloseCycle(s) PROVE SortInv'
BY DEF CloseCycle, SortInv, Resolved

LEMMA DependenciesFinite ==
  ASSUME NEW S \in SUBSET Names
  PROVE  IsFiniteSet(S) /\ Cardinality(S) \in Nat
BY ServicesAssumption, FS_Subset, FS_CardinalityType DEF ServicesAssumption

LEMMA SortBegin == ASSUME SearchInv, SortInv, BeginSort PROVE SortInv'
<1>1. /\ pc = "cycles" /\ pc' = "sort" /\ (\A s \in Names : color[s] = "black")
      /\ inDegree' = [s \in Names |-> Cardinality(dependencies[s])]
      /\ queue' \in SetToSeqs({s \in Names : dependencies[s] = {}})
      /\ UNCHANGED <<dependencies, error, order>>
  BY DEF BeginSort, ByPriority
<1>2. error = "none" /\ order = <<>> /\ ToSet(order) = {}
  BY <1>1 DEF SortInv, ToSet
<1>3. Grounded(Names)
  <2>1. Black = Names
    BY <1>1 DEF Black
  <2> QED
    BY <1>1, <2>1 DEF SearchInv
<1> DEFINE S == {s \in Names : dependencies[s] = {}}
<1>4. S \in SUBSET Names /\ queue' \in SetToSeqs(S)
  BY <1>1
<1>5. queue' \in Seq(S) /\ Distinct(queue') /\ ToSet(queue') = S
  BY <1>4, DependenciesFinite, SeqsOfSet
<1>6. queue' \in Seq(Names)
  <2> HIDE DEF S
  <2> QED
    BY <1>4, <1>5
<1>7. Ordered(order)'
  BY <1>1, <1>2 DEF Ordered, Distinct
<1>8. inDegree' = [s \in Names |-> Cardinality(dependencies[s] \ {})]
  <2>1. \A s \in Names : dependencies[s] \ {} = dependencies[s]
    OBVIOUS
  <2> QED
    BY <1>1, <2>1
<1>9. \A s \in Names : dependencies[s] \subseteq ToSet(order) <=> s \in ToSet(order) \cup ToSet(queue')
  BY <1>2, <1>5
<1>10. order' = <<>> /\ order' \in Seq(Names) /\ ToSet(order') = {} /\ error' = "none"
  BY <1>1, <1>2
<1> HIDE DEF S
<1> QED
  BY <1>1, <1>2, <1>3, <1>5, <1>6, <1>7, <1>8, <1>9, <1>10 DEF SortInv, Grounded, Resolved

LEMMA SortTake == ASSUME SearchInv, SortInv, TakeFromQueue PROVE SortInv'
<1> DEFINE s == Head(queue)
           lowered == [t \in Names |-> inDegree[t] - (IF t \in Dependents(s) THEN 1 ELSE 0)]
           available == {t \in Dependents(s) : lowered[t] = 0}
           O == ToSet(order)
           O1 == ToSet(order')
<1>1. /\ pc = "sort" /\ queue # <<>> /\ inDegree' = lowered /\ order' = Append(order, s)
      /\ UNCHANGED <<dependencies, error, pc>>
  BY DEF TakeFromQueue
<1>2. PICK more \in SetToSeqs(available) : queue' = Tail(queue) \o more
  BY DEF TakeFromQueue, ByPriority
<1>3. /\ order \in Seq(Names) /\ queue \in Seq(Names) /\ error = "none" /\ Ordered(order) /\ Grounded(Names)
      /\ Distinct(queue) /\ O \cap ToSet(queue) = {}
      /\ inDegree = [t \in Names |-> Cardinality(dependencies[t] \ O)]
      /\ \A t \in Names : dependencies[t] \subseteq O <=> t \in O \cup ToSet(queue)
      /\ dependencies \in [Names -> SUBSET Names]
  BY <1>1 DEF SearchInv, SortInv
<1>4. /\ Tail(queue) \in Seq(Names) /\ s \in Names /\ s \in ToSet(queue)
      /\ Distinct(Tail(queue)) /\ ToSet(Tail(queue)) = ToSet(queue) \ {s}
  BY <1>1, <1>3, WithoutTheFirst
<1>5. s \notin O /\ dependencies[s] \subseteq O
  BY <1>3, <1>4
<1>6. PICK y \in Names : y = s
  BY <1>4
<1>7. order' \in Seq(Names) /\ O1 = O \cup {y} /\ Distinct(order')
  <2>1. order' = Append(order, y) /\ y \notin O /\ Distinct(order)
    BY <1>1, <1>3, <1>5, <1>6 DEF Ordered
  <2> QED
    BY <1>3, <2>1, WithOneMore
<1>8. available \in SUBSET Names /\ available = {t \in Names : y \in dependencies[t] /\ lowered[t] = 0}
  BY <1>6 DEF Dependents
<1>9. ASSUME NEW t \in Names
      PROVE  /\ lowered[t] = Cardinality(dependencies[t] \ O1)
             /\ lowered[t] = 0 <=> dependencies[t] \subseteq O1
  <2> DEFINE D == dependencies[t] \ O
  <2>1. D \in SUBSET Names /\ dependencies[t] \ O1 = D \ {y} /\ D \ {y} \in SUBSET Names
    BY <1>3, <1>7
  <2>2. lowered[t] = Cardinality(D) - (IF y \in dependencies[t] THEN 1 ELSE 0)
    BY <1>3, <1>6 DEF Dependents
  <2>3. y \in D <=> y \in dependencies[t]
    BY <1>5, <1>6
  <2> HIDE DEF D, lowered
  <2>4. Cardinality(D \ {y}) = (IF y \in D THEN Cardinality(D) - 1 ELSE Cardinality(D)) /\ Cardinality(D) \in Nat
    BY <2>1, DependenciesFinite, FS_RemoveElement
  <2>5. lowered[t] = Cardinality(D \ {y})
    BY <2>2, <2>3, <2>4
  <2>6. IsFiniteSet(D \ {y})
    BY <2>1, DependenciesFinite
  <2>7. Cardinality(D \ {y}) = 0 <=> D \ {y} = {}
    BY <2>6, FS_EmptySet
  <2>8. D \ {y} = {} <=> dependencies[t] \subseteq O1
    BY <2>1
  <2> QED
    BY <2>1, <2>5, <2>7, <2>8
<1>10. available = {t \in Names : y \in dependencies[t] /\ dependencies[t] \subseteq O1}
  BY <1>8, <1>9
<1> HIDE DEF available, lowered, s
<1>11. more \in Seq(available) /\ Distinct(more) /\ ToSet(more) = available
  BY <1>2, <1>8, DependenciesFinite, SeqsOfSet
<1>12. more \in Seq(Names)
  BY <1>8, <1>11
<1>13. ToSet(Tail(queue)) \cap available = {}
  BY <1>3, <1>4, <1>5, <1>6, <1>10
<1>14. queue' \in Seq(Names) /\ Distinct(queue') /\ ToSet(queue') = (ToSet(queue) \ {y}) \cup available
  <2> DEFINE q == Tail(queue)
  <2>1. q \in Seq(Names) /\ Distinct(q) /\ ToSet(q) = ToSet(queue) \ {y}
    BY <1>4, <1>6
  <2>2. queue' = q \o more /\ ToSet(q) \cap ToSet(more) = {} /\ Distinct(more)
    BY <1>2, <1>11, <1>13
  <2> HIDE DEF q
  <2>3. queue' \in Seq(Names) /\ Distinct(queue') /\ ToSet(queue') = ToSet(q) \cup ToSet(more)
    BY <1>12, <2>1, <2>2, OneAfterTheOther
  <2> QED
    BY <1>11, <2>1, <2>3
<1>15. O1 \cap ToSet(queue') = {}
  <2>1. y \notin available
    BY <1>5, <1>6, <1>10
  <2>2. O \cap available = {}
    BY <1>3, <1>5, <1>6, <1>10
  <2> QED
    BY <1>3, <1>7, <1>14, <2>1, <2>2
<1>16. ASSUME NEW t \in Names PROVE dependencies[t] \subseteq O1 <=> t \in O1 \cup ToSet(queue')
  <2>1. CASE y \in dependencies[t]
    <3>1. ~ (dependencies[t] \subseteq O)
      BY <1>5, <1>6, <2>1
    <3>2. t \notin O \cup ToSet(queue)
      BY <1>3, <3>1
    <3>3. t # y
      BY <1>4, <1>6, <3>2
    <3> QED
      BY <1>7, <1>10, <1>14, <2>1, <3>2, <3>3
  <2>2. CASE y \notin dependencies[t]
    <3>1. dependencies[t] \subseteq O1 <=> dependencies[t] \subseteq O
      BY <1>7, <2>2
    <3>2. t \notin available
      BY <1>10, <2>2
    <3>3. t \in O1 \cup ToSet(queue') <=> t \in O \cup ToSet(queue)
      BY <1>4, <1>6, <1>7, <1>14, <3>2
    <3> QED
      BY <1>3, <3>1, <3>3
  <2> QED
    BY <2>1, <2>2
<1>17. ASSUME NEW i \in DOMAIN order' PROVE InGraph(order'[i]) \subseteq {order'[j] : j \in 1 .. i - 1}
  <2>1. /\ DOMAIN order' = 1 .. Len(order) + 1 /\ Len(order) \in Nat /\ DOMAIN order = 1 .. Len(order)
        /\ order'[Len(order) + 1] = y /\ \A j \in DOMAIN order : order'[j] = order[j]
    BY <1>1, <1>3, <1>6
  <2>2. i \in DOMAIN order \/ i = Len(order) + 1
    BY <2>1
  <2>3. \A j \in 1 .. i - 1 : j \in DOMAIN order
    BY <2>1
  <2>4. {order'[j] : j \in 1 .. i - 1} = {order[j] : j \in 1 .. i - 1}
    BY <2>1, <2>3
  <2>5. CASE i \in DOMAIN order
    BY <1>3, <2>1, <2>4, <2>5 DEF Ordered
  <2>6. CASE i = Len(order) + 1
    <3>1. 1 .. i - 1 = DOMAIN order
      BY <2>1, <2>6
    <3>2. InGraph(y) \subseteq O
      BY <1>5, <1>6 DEF InGraph
    <3> QED
      BY <2>1, <2>4, <2>6, <3>1, <3>2 DEF ToSet
  <2> QED
    BY <2>2, <2>5, <2>6
<1>18. Ordered(order)'
  BY <1>1, <1>7, <1>17 DEF Ordered, InGraph
<1>19. inDegree' = [t \in Names |-> Cardinality(dependencies'[t] \ O1)]
  <2>1. lowered = [t \in Names |-> lowered[t]]
    BY DEF lowered
  <2> QED
    BY <1>1, <1>9, <2>1
<1> QED
  BY <1>1, <1>3, <1>7, <1>14, <1>15, <1>16, <1>18, <1>19 DEF SortInv, Grounded, Resolved

(* At the end of the queue every service has its place: of those without   *)
(* one, some would depend on none of them.                                 *)
LEMMA SortEnds ==
  ASSUME SearchInv, SortInv, pc = "sort", queue = <<>>
  PROVE  ToSet(order) = Names /\ Len(order) = Cardinality(Names)
<1>1. /\ Grounded(Names) /\ Ordered(order) /\ ToSet(queue) = {} /\ dependencies \in [Names -> SUBSET Names]
      /\ \A s \in Names : dependencies[s] \subseteq ToSet(order) <=> s \in ToSet(order) \cup ToSet(queue)
  BY DEF SearchInv, SortInv, ToSet
<1>2. ToSet(order) \subseteq Names
  BY <1>1 DEF Ordered, ToSet
<1>3. ASSUME Names \ ToSet(order) # {} PROVE FALSE
  <2>1. Names \ ToSet(order) \in SUBSET Names
    OBVIOUS
  <2>2. PICK s \in Names \ ToSet(order) : dependencies[s] \cap (Names \ ToSet(order)) = {}
    BY <1>1, <1>3, <2>1 DEF Grounded
  <2>3. dependencies[s] \subseteq ToSet(order)
    BY <1>1, <2>2
  <2> QED
    BY <1>1, <2>2, <2>3
<1>4. ToSet(order) = Names
  BY <1>2, <1>3
<1> QED
  BY <1>1, <1>4, GroupsApart

LEMMA SortEnd == ASSUME SearchInv, SortInv, EndSort PROVE SortInv' /\ pc' = "resolved" /\ error' = error
<1>1. pc = "sort" /\ queue = <<>> /\ UNCHANGED <<dependencies, queue, order>>
  BY DEF EndSort
<1>2. ToSet(order) = Names /\ Len(order) = Cardinality(Names)
  BY <1>1, SortEnds
<1>3. pc' = "resolved" /\ error' = error
  BY <1>2 DEF EndSort
<1> QED
  BY <1>1, <1>2, <1>3 DEF SortInv, Ordered, InGraph, Resolved

LEMMA ResolveNext == SearchInv /\ SortInv /\ [Next]_vars => SearchInv' /\ SortInv'
<1> SUFFICES ASSUME SearchInv, SortInv, [Next]_vars PROVE SearchInv' /\ SortInv'
  OBVIOUS
<1>1. CASE UNCHANGED vars
  <2>1. UNCHANGED <<pc, dependencies, error, color, path, inDegree, queue, order>>
    BY <1>1 DEF vars, resolving
  <2>2. SearchInv'
    BY <2>1 DEF SearchInv, Chain, Top, Last, Grounded, Black
  <2>3. SortInv'
    BY <2>1 DEF SortInv, Ordered, InGraph, Grounded
  <2> QED
    BY <2>2, <2>3
<1>2. CASE Start \/ Stop
  <2>1. /\ UNCHANGED <<dependencies, error, color, path, queue, order>>
        /\ pc \in Resolved /\ pc' \in Resolved /\ (pc = "over" => pc' = "over")
    BY <1>2, Onward DEF resolving
  <2>2. SearchInv'
    BY <2>1, SearchStays DEF Resolved
  <2> QED
    BY <2>1, <2>2, SortStays
<1>3. CASE Build
  BY <1>3, SearchBuild, SortBuild
<1>4. ASSUME NEW s \in Names, CloseCycle(s) PROVE SearchInv' /\ SortInv'
  BY <1>4, SearchClose, SortClose
<1>5. CASE LeaveVisit \/ \E s \in Names : Visit(s)
  <2>1. SearchInv'
    BY <1>5, SearchVisit, SearchLeave
  <2>2. UNCHANGED <<dependencies, error, order, queue, pc>> /\ pc = "cycles"
    BY <1>5 DEF LeaveVisit, Visit
  <2> QED
    BY <2>1, <2>2, SortStays
<1>6. CASE BeginSort
  <2>1. pc = "cycles" /\ pc' = "sort" /\ color' = White /\ UNCHANGED <<dependencies, error, path>>
    BY <1>6 DEF BeginSort
  <2>2. SearchInv'
    BY <2>1 DEF SearchInv, Chain, White
  <2> QED
    BY <1>6, <2>2, SortBegin
<1>7. CASE TakeFromQueue
  <2>1. pc = "sort" /\ UNCHANGED <<dependencies, error, color, path, pc>>
    BY <1>7 DEF TakeFromQueue
  <2> QED
    BY <1>7, <2>1, SearchStays, SortTake
<1>8. CASE EndSort
  <2>1. pc = "sort" /\ pc' = "resolved" /\ UNCHANGED <<dependencies, error, color, path>> /\ SortInv'
    BY <1>8, SortEnd DEF EndSort
  <2> QED
    BY <2>1, SearchStays
<1> QED
  BY <1>1, <1>2, <1>3, <1>4, <1>5, <1>6, <1>7, <1>8 DEF Next, Resolve

LEMMA ResolvedSound == SearchInv /\ SortInv => OrderIsSound
<1> SUFFICES ASSUME SearchInv, SortInv PROVE OrderIsSound
  OBVIOUS
<1>1. ASSUME pc \notin {"build", "cycles", "sort"}, error = "none"
      PROVE  /\ ToSet(order) = Names /\ Len(order) = Cardinality(Names)
             /\ \A i, j \in DOMAIN order : order[j] \in TransitiveDependencies(order[i]) => j < i
             /\ \A p \in DOMAIN Groups : \A s, t \in Groups[p] : s \notin TransitiveDependencies(t)
  BY <1>1, GroupsApart DEF SortInv
<1>2. error = "circular" => path # <<>> /\ Head(path) \in dependencies[Top] /\ Chain(path)
  BY DEF SearchInv
<1> QED
  BY <1>1, <1>2 DEF OrderIsSound, Chain

-----------------------------------------------------------------------------
(* Starting and stopping.                                                  *)

Before == {"build", "cycles", "sort", "resolved"}
Starting == {"up", "container", "health"}
AtTest == {"gather", "testing"}

ServiceTypes ==
  /\ state \in [Names -> {"stopped", "starting", "healthy", "unhealthy", "failed", "stopping"}]
  /\ container \in [Names -> {"absent", "up", "stopped"}]
  /\ waiting \in [Names -> {"none", "asking", "passed", "failed"}]
  /\ profile \subseteq Names /\ left \subseteq profile /\ running \subseteq profile

\* What runs and has obeyed is up, and what it depends on runs too.
Supported ==
  \A s \in running \ troubled : container[s] = "up" /\ dependencies[s] \subseteq running \ troubled

Clean == ~ composeFile /\ running = {} /\ \A s \in Names : container[s] = "absent"

\* Nothing was started but the service that failed.
OnlyFailed ==
  /\ running = {} /\ \A s \in Names : waiting[s] = "none"
  /\ \E s \in Names : state[s] = "failed" /\ \A d \in Names \ {s} : container[d] = "absent"

EarlyInv ==
  /\ pc \in Before => Clean
  /\ pc \in Before \cup Starting => \A s \in Names : waiting[s] = "none"
  /\ pc \in Before \cup Starting \cup AtTest => troubled = {}

\* What was started runs, and is healthy but for what a later check has given up.
StartInv ==
  /\ pc \in Starting \cup AtTest =>
       /\ profile # {} /\ \A s \in profile : dependencies[s] \subseteq profile
       /\ running = profile \ left
       /\ \A s \in Names :
             container[s] # "absent" =>
               s \in running \/ (pc \in {"container", "health"} /\ s = FirstIn(left, order))
       /\ \A s \in running : waiting[s] # "failed" => state[s] = "healthy"
  /\ pc \in {"container", "health"} => left # {} /\ container[FirstIn(left, order)] = "up"
  /\ pc \in AtTest => left = {}
  /\ pc = "testing" => \A s \in profile : waiting[s] = "passed"

StopInv ==
  /\ pc = "stopping" => left \subseteq running /\ running \subseteq left \cup troubled
  /\ pc = "stop" /\ troubled = {} => running # {} \/ Clean \/ OnlyFailed
  /\ pc = "over" /\ troubled = {} => Clean \/ OnlyFailed

ServiceInv == ServiceTypes /\ Supported /\ EarlyInv /\ StartInv /\ StopInv

LEMMA ServiceInit == Init => ServiceInv
BY DEF Init, ServiceInv, ServiceTypes, Supported, EarlyInv, StartInv, StopInv, Clean, Before, Starting, AtTest

(* The first of an order's services depends on none of the others, and     *)
(* none of them depends on the last one.                                   *)
LEMMA FirstIs ==
  ASSUME NEW q \in Seq(Names), NEW S, S # {}, S \subseteq ToSet(q)
  PROVE  \E i \in DOMAIN q : FirstIn(S, q) = q[i] /\ q[i] \in S /\ \A j \in DOMAIN q : q[j] \in S => i <= j
<1> DEFINE T == {i \in DOMAIN q : q[i] \in S}
<1>1. T \in SUBSET Nat /\ T # {}
  BY DEF ToSet
<1>2. FirstIn(S, q) = q[Min(T)]
  BY DEF FirstIn
<1>3. Min(T) \in T /\ \A j \in T : Min(T) <= j
  <2> HIDE DEF T
  <2>1. PICK x \in T : \A y \in T : x <= y
    BY <1>1, MinNat
  <2> QED
    BY <2>1 DEF Min
<1> QED
  BY <1>2, <1>3

LEMMA FirstStands ==
  ASSUME SearchInv, SortInv, error = "none", pc \in Resolved, NEW S \in SUBSET Names, S # {}
  PROVE  FirstIn(S, order) \in S /\ dependencies[FirstIn(S, order)] \cap S = {}
<1>1. /\ Ordered(order) /\ ToSet(order) = Names /\ order \in Seq(Names)
      /\ dependencies \in [Names -> SUBSET Names]
  BY DEF SearchInv, SortInv, Resolved
<1>2. PICK i \in DOMAIN order : FirstIn(S, order) = order[i] /\ order[i] \in S /\ \A j \in DOMAIN order : order[j] \in S => i <= j
  BY <1>1, FirstIs
<1>3. ASSUME NEW d \in dependencies[order[i]], d \in S PROVE FALSE
  <2>1. d \in InGraph(order[i])
    BY <1>1, <1>3 DEF InGraph
  <2>2. PICK j \in 1 .. i - 1 : d = order[j]
    BY <1>1, <2>1 DEF Ordered
  <2>3. j \in DOMAIN order /\ ~ (i <= j)
    BY <1>1, <2>2
  <2> QED
    BY <1>2, <1>3, <2>2, <2>3
<1> QED
  BY <1>2, <1>3

LEMMA LastStands ==
  ASSUME SearchInv, SortInv, error = "none", pc \in Resolved, NEW S \in SUBSET Names, S # {}
  PROVE  FirstIn(S, ShutdownOrder) \in S /\ \A r \in S : FirstIn(S, ShutdownOrder) \notin dependencies[r]
<1> DEFINE n == Len(order)
<1>1. /\ Ordered(order) /\ ToSet(order) = Names /\ order \in Seq(Names) /\ n \in Nat /\ DOMAIN order = 1 .. n
      /\ dependencies \in [Names -> SUBSET Names] /\ Distinct(order)
  BY DEF SearchInv, SortInv, Resolved, Ordered
<1> DEFINE q == ShutdownOrder
<1>2. q = [i \in 1 .. n |-> order[(n - i) + 1]]
  BY DEF ShutdownOrder, Reverse
<1> HIDE DEF n
<1>3. \A i \in 1 .. n : (n - i) + 1 \in 1 .. n /\ (n - ((n - i) + 1)) + 1 = i
  BY <1>1
<1> HIDE DEF q
<1>4. q \in Seq(Names) /\ DOMAIN q = 1 .. n /\ \A i \in 1 .. n : q[i] \in Names
  <2>1. \A i \in 1 .. n : order[(n - i) + 1] \in Names
    BY <1>1, <1>3
  <2>2. q \in [1 .. n -> Names]
    BY <1>2, <2>1
  <2> QED
    BY <1>1, <2>2
<1>5. \A i \in 1 .. n : order[i] = q[(n - i) + 1]
  BY <1>2, <1>3
<1>6. ToSet(q) = Names
  <2>1. \A i \in 1 .. n : order[i] \in ToSet(q)
    BY <1>3, <1>4, <1>5 DEF ToSet
  <2>2. Names \subseteq ToSet(q)
    BY <1>1, <2>1 DEF ToSet
  <2>3. \A i \in DOMAIN q : q[i] \in Names
    BY <1>4
  <2>4. ToSet(q) \subseteq Names
    BY <2>3 DEF ToSet
  <2> QED
    BY <2>2, <2>4
<1>7. PICK i \in DOMAIN q : FirstIn(S, q) = q[i] /\ q[i] \in S /\ \A j \in DOMAIN q : q[j] \in S => i <= j
  BY <1>4, <1>6, FirstIs
<1>8. ASSUME NEW r \in S, q[i] \in dependencies[r] PROVE FALSE
  <2>1. PICK k \in 1 .. n : r = order[k]
    BY <1>1 DEF ToSet
  <2>2. q[i] \in InGraph(order[k])
    BY <1>1, <1>7, <1>8, <2>1 DEF InGraph
  <2>3. PICK l \in 1 .. k - 1 : q[i] = order[l]
    BY <1>1, <2>1, <2>2 DEF Ordered
  <2>4. q[i] = order[(n - i) + 1] /\ (n - i) + 1 \in 1 .. n /\ i \in 1 .. n
    BY <1>2, <1>3, <1>4
  <2>5. l \in 1 .. n /\ l < k
    BY <1>1, <2>1, <2>3
  <2>6. l = (n - i) + 1
    BY <1>1, <2>3, <2>4, <2>5 DEF Distinct
  <2>7. q[(n - k) + 1] \in S /\ (n - k) + 1 \in DOMAIN q
    BY <1>3, <1>4, <1>5, <2>1
  <2>8. i <= (n - k) + 1
    BY <1>7, <2>7
  <2> QED
    BY <1>1, <2>4, <2>5, <2>6, <2>8
<1> QED
  BY <1>7, <1>8 DEF q

LEMMA ServiceSame ==
  ASSUME ServiceInv, UNCHANGED <<dependencies, order, starting, docker, pc>>
  PROVE  ServiceInv'
BY DEF ServiceInv, ServiceTypes, Supported, EarlyInv, StartInv, StopInv, OnlyFailed, Clean, starting, docker

LEMMA ServiceResolve ==
  ASSUME ServiceInv, Resolve PROVE ServiceInv'
<1>1. /\ pc \in {"build", "cycles", "sort"} /\ pc' \in Before \cup {"over"}
      /\ UNCHANGED <<dependencies, starting, docker>>
  BY DEF Resolve, Build, Visit, CloseCycle, LeaveVisit, BeginSort, TakeFromQueue, EndSort, Before
<1>2. Clean /\ Clean' /\ troubled = {} /\ \A s \in Names : waiting[s] = "none"
  BY <1>1 DEF ServiceInv, EarlyInv, Before, Clean, starting, docker
<1>3. UNCHANGED <<profile, left, waiting, state, running, container, troubled>>
  BY <1>1 DEF starting, docker
<1>4. ServiceTypes' /\ Supported'
  BY <1>1, <1>3 DEF ServiceInv, ServiceTypes, Supported
<1>5. EarlyInv' /\ StartInv' /\ StopInv'
  BY <1>1, <1>2, <1>3 DEF EarlyInv, StartInv, StopInv, Before, Starting, AtTest
<1> QED
  BY <1>4, <1>5 DEF ServiceInv

LEMMA ServiceBegin ==
  ASSUME ServiceInv, NEW P \in Profiles, StartServices(P) PROVE ServiceInv'
<1>1. /\ pc = "resolved" /\ (\A s \in P : dependencies[s] \subseteq P) /\ profile' = P /\ left' = P
      /\ UNCHANGED <<dependencies, waiting, state, running, container, troubled>>
      /\ \/ pc' = "up"
         \/ pc' = "stop" /\ composeFile' = FALSE
  BY DEF StartServices, ServiceProfile, WriteComposeFile, FailStart, resolving
<1>2. P \subseteq Names /\ P # {}
  BY ServicesAssumption DEF ServicesAssumption
<1>3. /\ Clean /\ running = {} /\ troubled = {} /\ (\A s \in Names : container[s] = "absent")
      /\ \A s \in Names : waiting[s] = "none"
  BY <1>1 DEF ServiceInv, EarlyInv, Before, Clean
<1>4. ServiceTypes' /\ Supported'
  BY <1>1, <1>2, <1>3 DEF ServiceInv, ServiceTypes, Supported
<1>5. EarlyInv' /\ StartInv'
  BY <1>1, <1>2, <1>3 DEF EarlyInv, StartInv, Before, Starting, AtTest
<1>6. StopInv'
  BY <1>1, <1>3 DEF StopInv, Clean
<1> QED
  BY <1>4, <1>5, <1>6 DEF ServiceInv

(* A start fails.                                                          *)
LEMMA ServiceFails ==
  ASSUME ServiceInv, pc \in Starting \cup AtTest, FailStart(state'), UNCHANGED <<dependencies, profile, left, waiting, running, troubled>>,
         state' \in [Names -> {"stopped", "starting", "healthy", "unhealthy", "failed", "stopping"}],
         container' \in [Names -> {"absent", "up", "stopped"}],
         \A s \in running : container'[s] = container[s],
         running = {} =>
           /\ \A s \in Names : waiting[s] = "none"
           /\ \E s \in Names : state'[s] = "failed" /\ \A d \in Names \ {s} : container'[d] = "absent"
  PROVE  ServiceInv'
<1>1. pc' = "stop"
  BY DEF FailStart
<1>2. ServiceTypes' /\ Supported'
  BY DEF ServiceInv, ServiceTypes, Supported
<1>3. EarlyInv' /\ StartInv'
  BY <1>1 DEF EarlyInv, StartInv, Before, Starting, AtTest
<1>4. StopInv'
  BY <1>1 DEF StopInv, OnlyFailed
<1> QED
  BY <1>2, <1>3, <1>4 DEF ServiceInv

LEMMA ServiceUp ==
  ASSUME SearchInv, SortInv, ServiceInv, ComposeUp PROVE ServiceInv'
<1>1. /\ pc = "up" /\ left # {} /\ left \in SUBSET Names /\ error = "none" /\ pc \in Resolved
      /\ UNCHANGED <<dependencies, order, profile, left, waiting, running, troubled>>
  BY DEF ComposeUp, ServiceInv, ServiceTypes, SortInv, Resolved, resolving
<1>2. PICK s \in left : s = FirstIn(left, order)
  BY <1>1, FirstStands
<1>3. /\ running = profile \ left /\ profile # {} /\ (\A x \in profile : dependencies[x] \subseteq profile)
      /\ (\A x \in Names : waiting[x] = "none") /\ troubled = {}
      /\ (\A x \in Names : container[x] # "absent" => x \in running)
      /\ (\A x \in running : waiting[x] # "failed" => state[x] = "healthy")
      /\ s \in Names /\ s \notin running /\ profile \subseteq Names
  BY <1>1, <1>2 DEF ServiceInv, ServiceTypes, EarlyInv, StartInv, Starting
<1>4. /\ state \in [Names -> {"stopped", "starting", "healthy", "unhealthy", "failed", "stopping"}]
      /\ container \in [Names -> {"absent", "up", "stopped"}]
  BY DEF ServiceInv, ServiceTypes
<1>5. CASE /\ container' = [container EXCEPT ![s] = "up"] /\ state' = [state EXCEPT ![s] = "starting"]
           /\ pc' = "container"
  <2>1. /\ container'[s] = "up" /\ \A x \in Names \ {s} : container'[x] = container[x]
        /\ \A x \in Names \ {s} : state'[x] = state[x]
    BY <1>3, <1>4, <1>5
  <2>2. ServiceTypes'
    BY <1>1, <1>4, <1>5 DEF ServiceInv, ServiceTypes
  <2>3. Supported'
    BY <1>1, <1>3, <2>1 DEF ServiceInv, Supported, ServiceTypes
  <2>4. EarlyInv' /\ StopInv'
    BY <1>1, <1>3, <1>5 DEF EarlyInv, StopInv, Before, Starting, AtTest
  <2>5. FirstIn(left, order)' = s
    BY <1>1, <1>2
  <2>6. StartInv'
    BY <1>1, <1>3, <1>5, <2>1, <2>5 DEF StartInv, Before, Starting, AtTest
  <2> QED
    BY <2>2, <2>3, <2>4, <2>6 DEF ServiceInv
<1>6. CASE /\ container' \in {container, [container EXCEPT ![s] = "up"]}
           /\ FailStart([state EXCEPT ![s] = "failed"])
  <2>1. FailStart(state') /\ state' = [state EXCEPT ![s] = "failed"]
    BY <1>6 DEF FailStart
  <2>2. /\ state' \in [Names -> {"stopped", "starting", "healthy", "unhealthy", "failed", "stopping"}]
        /\ container' \in [Names -> {"absent", "up", "stopped"}] /\ state'[s] = "failed"
        /\ \A x \in Names \ {s} : container'[x] = container[x]
    BY <1>3, <1>4, <1>6, <2>1
  <2>3. \A x \in running : container'[x] = container[x]
    BY <1>3, <2>2
  <2>4. running = {} => \A x \in Names \ {s} : container'[x] = "absent"
    BY <1>3, <2>2
  <2> QED
    BY <1>1, <1>3, <2>1, <2>2, <2>3, <2>4, ServiceFails DEF Starting
<1> QED
  BY <1>2, <1>5, <1>6 DEF ComposeUp

LEMMA ServiceWait ==
  ASSUME SearchInv, SortInv, ServiceInv, WaitForContainer \/ TryHealth PROVE ServiceInv'
<1>1. /\ pc \in {"container", "health"} /\ left # {} /\ left \in SUBSET Names /\ error = "none" /\ pc \in Resolved
      /\ UNCHANGED <<dependencies, order, profile, waiting, container, composeFile, troubled>>
  BY DEF WaitForContainer, TryHealth, ServiceInv, ServiceTypes, StartInv, SortInv, Resolved, resolving, docker
<1>2. PICK s \in left : s = FirstIn(left, order)
  BY <1>1, FirstStands
<1>3. dependencies[s] \cap left = {}
  BY <1>1, <1>2, FirstStands
<1>4. /\ running = profile \ left /\ profile # {} /\ (\A x \in profile : dependencies[x] \subseteq profile)
      /\ (\A x \in Names : waiting[x] = "none") /\ troubled = {}
      /\ (\A x \in Names : container[x] # "absent" => x \in running \/ x = s)
      /\ (\A x \in running : waiting[x] # "failed" => state[x] = "healthy")
      /\ s \in Names /\ s \in profile /\ s \notin running /\ profile \subseteq Names /\ container[s] = "up"
  BY <1>1, <1>2 DEF ServiceInv, ServiceTypes, EarlyInv, StartInv, Starting
<1>5. /\ state \in [Names -> {"stopped", "starting", "healthy", "unhealthy", "failed", "stopping"}]
      /\ container \in [Names -> {"absent", "up", "stopped"}]
  BY DEF ServiceInv, ServiceTypes
<1>6. CASE pc' \in {"container", "health"} /\ UNCHANGED <<state, running, left>>
  <2>1. ServiceTypes' /\ Supported'
    BY <1>1, <1>6 DEF ServiceInv, ServiceTypes, Supported
  <2>2. EarlyInv' /\ StopInv'
    BY <1>1, <1>4, <1>6 DEF EarlyInv, StopInv, Before, Starting, AtTest
  <2>3. FirstIn(left, order)' = s
    BY <1>1, <1>2, <1>6
  <2>4. StartInv'
    BY <1>1, <1>4, <1>6, <2>3 DEF StartInv, Starting, AtTest
  <2> QED
    BY <2>1, <2>2, <2>4 DEF ServiceInv
<1>7. CASE FailStart([state EXCEPT ![s] = "failed"]) /\ UNCHANGED <<running, left>>
  <2>1. FailStart(state') /\ state' = [state EXCEPT ![s] = "failed"]
    BY <1>7 DEF FailStart
  <2>2. /\ state' \in [Names -> {"stopped", "starting", "healthy", "unhealthy", "failed", "stopping"}]
        /\ state'[s] = "failed"
    BY <1>4, <1>5, <2>1
  <2>3. running = {} => \A x \in Names \ {s} : container'[x] = "absent"
    BY <1>1, <1>4
  <2> QED
    BY <1>1, <1>4, <1>5, <1>7, <2>1, <2>2, <2>3, ServiceFails DEF Starting
<1>8. CASE /\ state' = [state EXCEPT ![s] = "healthy"] /\ running' = running \cup {s}
           /\ left' = left \ {s} /\ pc' = "up"
  <2>1. state'[s] = "healthy" /\ \A x \in Names \ {s} : state'[x] = state[x]
    BY <1>4, <1>5, <1>8
  <2>2. ServiceTypes'
    BY <1>1, <1>2, <1>4, <1>5, <1>8 DEF ServiceInv, ServiceTypes
  <2>3. dependencies[s] \subseteq running
    BY <1>3, <1>4
  <2>4. Supported'
    BY <1>1, <1>4, <1>8, <2>3 DEF ServiceInv, Supported
  <2>5. EarlyInv' /\ StopInv'
    BY <1>1, <1>4, <1>8 DEF EarlyInv, StopInv, Before, Starting, AtTest
  <2>6. running' = profile' \ left'
    BY <1>1, <1>2, <1>4, <1>8
  <2>7. StartInv'
    BY <1>1, <1>4, <1>8, <2>1, <2>6 DEF StartInv, Starting, AtTest
  <2> QED
    BY <2>2, <2>4, <2>5, <2>7 DEF ServiceInv
<1>9. CASE WaitForContainer
  <2>1. UNCHANGED <<running, left>> /\ ((pc' = "health" /\ UNCHANGED state) \/ FailStart([state EXCEPT ![s] = "failed"]))
    BY <1>2, <1>9 DEF WaitForContainer
  <2> QED
    BY <1>6, <1>7, <2>1
<1>10. CASE TryHealth
  <2>1. \/ /\ state' = [state EXCEPT ![s] = "healthy"] /\ running' = running \cup {s}
           /\ left' = left \ {s} /\ pc' = "up"
        \/ UNCHANGED <<running, left, pc, state>>
        \/ UNCHANGED <<running, left>> /\ FailStart([state EXCEPT ![s] = "failed"])
    BY <1>2, <1>10 DEF TryHealth
  <2> QED
    BY <1>1, <1>6, <1>7, <1>8, <2>1
<1> QED
  BY <1>9, <1>10

LEMMA ServiceGather ==
  ASSUME ServiceInv, WaitForAll \/ Gather \/ EndTest PROVE ServiceInv'
<1>1. /\ pc \in Starting \cup AtTest /\ left = {}
      /\ UNCHANGED <<dependencies, order, profile, left, state, running, container, composeFile, troubled>>
  BY DEF WaitForAll, Gather, EndTest, ServiceInv, StartInv, Starting, AtTest, resolving, docker, FailStart
<1>2. /\ running = profile /\ profile # {} /\ (\A x \in profile : dependencies[x] \subseteq profile)
      /\ troubled = {} /\ profile \subseteq Names
      /\ (\A x \in running : waiting[x] # "failed" => state[x] = "healthy")
  BY <1>1 DEF ServiceInv, ServiceTypes, EarlyInv, StartInv
<1>3. CASE WaitForAll
  <2>1. /\ pc = "up" /\ pc' = "gather"
        /\ waiting' = [s \in Names |-> IF s \in profile THEN "asking" ELSE "none"]
    BY <1>3 DEF WaitForAll
  <2>2. /\ waiting' \in [Names -> {"none", "asking", "passed", "failed"}]
        /\ (\A x \in Names : waiting[x] = "none" /\ waiting'[x] # "failed")
    BY <2>1 DEF ServiceInv, EarlyInv, Starting
  <2>3. \A x \in Names : container[x] # "absent" => x \in running
    BY <2>1 DEF ServiceInv, StartInv, Starting
  <2>4. \A x \in running : state[x] = "healthy"
    BY <1>2, <2>2
  <2>5. ServiceTypes' /\ Supported'
    BY <1>1, <2>2 DEF ServiceInv, ServiceTypes, Supported
  <2>6. EarlyInv' /\ StopInv'
    BY <1>1, <1>2, <2>1 DEF EarlyInv, StopInv, Before, Starting, AtTest
  <2>7. StartInv'
    BY <1>1, <1>2, <2>1, <2>3, <2>4 DEF StartInv, Starting, AtTest
  <2> QED
    BY <2>5, <2>6, <2>7 DEF ServiceInv
<1>4. CASE Gather \/ EndTest
  <2>1. /\ pc \in AtTest /\ pc' \in {"testing", "stop"} /\ UNCHANGED waiting
        /\ pc' = "testing" => \A s \in profile : waiting[s] = "passed"
    BY <1>4 DEF Gather, EndTest, FailStart, AtTest
  <2>2. \A x \in Names : container[x] # "absent" => x \in running
    BY <2>1 DEF ServiceInv, StartInv, AtTest
  <2>3. ServiceTypes' /\ Supported'
    BY <1>1, <2>1 DEF ServiceInv, ServiceTypes, Supported
  <2>4. EarlyInv' /\ StopInv'
    BY <1>1, <1>2, <2>1 DEF EarlyInv, StopInv, Before, Starting, AtTest
  <2>5. StartInv'
    BY <1>1, <1>2, <2>1, <2>2 DEF StartInv, Starting, AtTest
  <2> QED
    BY <2>3, <2>4, <2>5 DEF ServiceInv
<1> QED
  BY <1>3, <1>4

(* A health check that goes on, even when the test is long over.           *)
LEMMA ServiceAsk ==
  ASSUME ServiceInv, NEW s \in Names, AskAgain(s) PROVE ServiceInv'
<1>1. /\ waiting[s] = "asking" /\ pc \in {"gather", "over", "stopping"}
      /\ UNCHANGED <<dependencies, order, profile, left, running, container, composeFile, troubled, pc>>
  BY DEF AskAgain, resolving, docker
<1>2. /\ state \in [Names -> {"stopped", "starting", "healthy", "unhealthy", "failed", "stopping"}]
      /\ waiting \in [Names -> {"none", "asking", "passed", "failed"}]
  BY DEF ServiceInv, ServiceTypes
<1>3. \/ waiting' = [waiting EXCEPT ![s] = "passed"] /\ UNCHANGED state
      \/ UNCHANGED <<waiting, state>>
      \/ waiting' = [waiting EXCEPT ![s] = "failed"] /\ state' = [state EXCEPT ![s] = "unhealthy"]
  BY DEF AskAgain
<1>4. /\ waiting' \in [Names -> {"none", "asking", "passed", "failed"}]
      /\ state' \in [Names -> {"stopped", "starting", "healthy", "unhealthy", "failed", "stopping"}]
      /\ \A x \in Names \ {s} : waiting'[x] = waiting[x] /\ state'[x] = state[x]
      /\ waiting'[s] # "failed" => state'[s] = state[s]
  BY <1>2, <1>3
<1>5. ServiceTypes' /\ Supported'
  BY <1>1, <1>4 DEF ServiceInv, ServiceTypes, Supported
<1>6. EarlyInv'
  BY <1>1 DEF ServiceInv, EarlyInv, Before, Starting, AtTest
<1>7. StartInv'
  <2>1. CASE pc = "gather"
    <3>1. /\ running = profile \ left /\ profile # {} /\ (\A x \in profile : dependencies[x] \subseteq profile)
          /\ left = {} /\ (\A x \in Names : container[x] # "absent" => x \in running)
          /\ (\A x \in running : waiting[x] # "failed" => state[x] = "healthy")
          /\ running \subseteq Names
      BY <2>1 DEF ServiceInv, ServiceTypes, StartInv, AtTest
    <3>2. \A x \in running : waiting'[x] # "failed" => state'[x] = "healthy"
      BY <1>1, <1>4, <3>1
    <3> QED
      BY <1>1, <2>1, <3>1, <3>2 DEF StartInv, Starting, AtTest
  <2>2. CASE pc # "gather"
    BY <1>1, <2>2 DEF StartInv, Starting, AtTest
  <2> QED
    BY <2>1, <2>2
<1>8. StopInv'
  <2>1. ~ OnlyFailed
    BY <1>1 DEF OnlyFailed
  <2> QED
    BY <1>1, <2>1 DEF ServiceInv, StopInv, Clean
<1> QED
  BY <1>5, <1>6, <1>7, <1>8 DEF ServiceInv

LEMMA ServiceStop ==
  ASSUME ServiceInv, StopServices PROVE ServiceInv'
<1>1. /\ pc = "stop" /\ UNCHANGED <<dependencies, order, profile, waiting, state, running, container, composeFile, troubled>>
      /\ \/ running = {} /\ left' = {} /\ pc' \in {"stop", "over"}
         \/ running # {} /\ left' = running /\ pc' = "stopping"
  BY DEF StopServices, Return, resolving, docker
<1>2. ServiceTypes' /\ Supported'
  BY <1>1 DEF ServiceInv, ServiceTypes, Supported
<1>3. EarlyInv' /\ StartInv'
  BY <1>1 DEF EarlyInv, StartInv, Before, Starting, AtTest
<1>4. StopInv'
  BY <1>1 DEF ServiceInv, StopInv, Clean, OnlyFailed
<1> QED
  BY <1>2, <1>3, <1>4 DEF ServiceInv

LEMMA ServiceStopOne ==
  ASSUME SearchInv, SortInv, ServiceInv, StopService PROVE ServiceInv'
<1>1. /\ pc = "stopping" /\ left # {} /\ left \in SUBSET Names /\ error = "none" /\ pc \in Resolved
      /\ UNCHANGED <<dependencies, order, profile, waiting, composeFile, pc>>
  BY DEF StopService, ServiceInv, ServiceTypes, SortInv, Resolved, resolving
<1>2. PICK s \in left : s = FirstIn(left, ShutdownOrder) /\ \A r \in left : s \notin dependencies[r]
  BY <1>1, LastStands
<1>3. /\ left' = left \ {s} /\ state' = [state EXCEPT ![s] = "stopping"]
      /\ \/ /\ container' = [container EXCEPT ![s] = "stopped"]
            /\ running' = running \ {s} /\ troubled' = troubled
         \/ /\ troubled' = troubled \cup {s}
            /\ UNCHANGED <<container, running>>
  BY <1>2 DEF StopService
<1>4. /\ left \subseteq running /\ running \subseteq left \cup troubled /\ s \in Names
      /\ container \in [Names -> {"absent", "up", "stopped"}]
      /\ state \in [Names -> {"stopped", "starting", "healthy", "unhealthy", "failed", "stopping"}]
      /\ running \subseteq Names
  BY <1>1 DEF ServiceInv, ServiceTypes, StopInv
<1>5. /\ container' \in [Names -> {"absent", "up", "stopped"}]
      /\ \A x \in Names \ {s} : container'[x] = container[x]
      /\ state' \in [Names -> {"stopped", "starting", "healthy", "unhealthy", "failed", "stopping"}]
  BY <1>3, <1>4
<1>6. ServiceTypes'
  BY <1>1, <1>3, <1>5 DEF ServiceInv, ServiceTypes
<1>7. Supported'
  <2>1. /\ running' \ troubled' = (running \ troubled) \ {s}
        /\ running \ troubled \subseteq left
    BY <1>3, <1>4
  <2>2. \A r \in (running \ troubled) \ {s} :
          container'[r] = "up" /\ dependencies[r] \subseteq (running \ troubled) \ {s}
    BY <1>2, <1>4, <1>5, <2>1 DEF ServiceInv, Supported
  <2> QED
    BY <1>1, <2>1, <2>2 DEF Supported
<1>8. EarlyInv' /\ StartInv'
  BY <1>1 DEF EarlyInv, StartInv, Before, Starting, AtTest
<1>9. StopInv'
  BY <1>1, <1>3, <1>4 DEF StopInv
<1> QED
  BY <1>6, <1>7, <1>8, <1>9 DEF ServiceInv

LEMMA ServiceDown ==
  ASSUME ServiceInv, ComposeDown PROVE ServiceInv'
<1>1. /\ pc = "stopping" /\ left = {} /\ pc' \in {"stop", "over"}
      /\ UNCHANGED <<dependencies, order, profile, left, waiting>>
      /\ \/ /\ \/ container' = [s \in Names |-> "absent"]
               \/ container' = container /\ troubled' = troubled \cup {"down"}
            /\ composeFile' = FALSE /\ running' = {} /\ state' = [s \in Names |-> "stopped"]
         \/ /\ troubled' = troubled \cup {"down"}
            /\ UNCHANGED <<container, composeFile, running, state>>
  BY DEF ComposeDown, Return, resolving
<1>2. running \subseteq troubled
  BY <1>1 DEF ServiceInv, StopInv
<1>3. ServiceTypes'
  BY <1>1 DEF ServiceInv, ServiceTypes
<1>4. Supported'
  <2>1. running' = {} \/ running' \subseteq troubled'
    BY <1>1, <1>2
  <2> QED
    BY <2>1 DEF Supported
<1>5. EarlyInv' /\ StartInv'
  BY <1>1 DEF EarlyInv, StartInv, Before, Starting, AtTest
<1>6. StopInv'
  BY <1>1 DEF StopInv, Clean
<1> QED
  BY <1>3, <1>4, <1>5, <1>6 DEF ServiceInv

LEMMA ServiceNext == SearchInv /\ SortInv /\ ServiceInv /\ [Next]_vars => ServiceInv'
<1> SUFFICES ASSUME SearchInv, SortInv, ServiceInv, [Next]_vars PROVE ServiceInv'
  OBVIOUS
<1>1. CASE UNCHANGED vars
  BY <1>1, ServiceSame DEF vars, resolving
<1>2. CASE Resolve
  BY <1>2, ServiceResolve
<1>3. CASE Start
  BY <1>3, ServiceBegin, ServiceUp, ServiceWait, ServiceGather, ServiceAsk DEF Start
<1>4. CASE Stop
  BY <1>4, ServiceGather, ServiceStop, ServiceStopOne, ServiceDown DEF Stop
<1> QED
  BY <1>1, <1>2, <1>3, <1>4 DEF Next

LEMMA ServiceStarted == SearchInv /\ SortInv /\ ServiceInv => StartedInOrder
<1> SUFFICES ASSUME SearchInv, SortInv, ServiceInv PROVE StartedInOrder
  OBVIOUS
<1>1. UpAboveItsDependencies
  <2> DEFINE R == running \ troubled
  <2> SUFFICES ASSUME NEW s \in R PROVE \A d \in TransitiveDependencies(s) : container[d] = "up"
    BY DEF UpAboveItsDependencies
  <2>1. \A d \in R : container[d] = "up" /\ InGraph(d) \subseteq R
    BY DEF ServiceInv, Supported, InGraph
  <2> HIDE DEF R
  <2>2. TransitiveDependencies(s) \subseteq R
    BY <2>1, StandsOnClosed
  <2> QED
    BY <2>1, <2>2
<1>2. HandedOverHealthy
  <2> SUFFICES ASSUME pc = "testing", NEW s \in profile
               PROVE  s \in running /\ state[s] = "healthy" /\ container[s] = "up"
    BY DEF HandedOverHealthy
  <2>1. s \in running /\ troubled = {} /\ waiting[s] = "passed" /\ (waiting[s] # "failed" => state[s] = "healthy")
    BY DEF ServiceInv, EarlyInv, StartInv, AtTest
  <2>2. container[s] = "up"
    BY <2>1 DEF ServiceInv, Supported
  <2> QED
    BY <2>1, <2>2
<1> QED
  BY <1>1, <1>2, ResolvedSound DEF StartedInOrder

(* Whatever the dependencies of finitely many services, an order is        *)
(* resolved only if it is sound, a cycle reported only if there is one; a  *)
(* service that runs stands on services that run, from its start to its    *)
(* stop; and the test gets healthy ones (resolve_startup_order,            *)
(* start_services, stop_services).                                         *)
THEOREM ServicesStartInOrder == Spec => []StartedInOrder
BY SearchInit, SortInit, ServiceInit, ResolveNext, ServiceNext, ServiceStarted, PTL DEF Spec

(* When the environment is left nothing of it remains, unless Docker did   *)
(* not obey or the very first service did not start (service_environment). *)
THEOREM NothingRemains == Spec => []EverythingIsRemoved
<1>1. ServiceInv => EverythingIsRemoved
  BY DEF ServiceInv, StopInv, Clean, OnlyFailed, EverythingIsRemoved
<1> QED
  BY SearchInit, SortInit, ServiceInit, ResolveNext, ServiceNext, <1>1, PTL DEF Spec
=============================================================================
