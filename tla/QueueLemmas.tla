----------------------------- MODULE QueueLemmas ------------------------------
(***************************************************************************)
(* Facts about the event queues of the OMX components: sequences of        *)
(* entries with two parameters, either of which may name a buffer.         *)
(***************************************************************************)
EXTENDS Integers, Sequences, FiniteSets, FiniteSetTheorems, SequenceTheorems, TLAPS

(* A set that has 0 and with every number its successor has every number.  *)
(* Proved from the order of the finite sets 0 .. n - 1: the library's      *)
(* induction principles are about operators, this one is about a set.      *)
LEMMA Induction ==
  ASSUME NEW S, 0 \in S, \A n \in Nat : n \in S => n + 1 \in S
  PROVE  Nat \subseteq S
<1> DEFINE R == StrictSubsetOrdering(Nat)
           Missing == Nat \ S
           T == {0 .. n - 1 : n \in Missing}
<1> SUFFICES ASSUME Missing # {} PROVE FALSE
  OBVIOUS
<1>1. IsWellFoundedOn(R, FiniteSubsetsOf(Nat))
  BY FS_StrictSubsetOrderingWellFounded
<1>2. T \subseteq FiniteSubsetsOf(Nat) /\ T # {}
  <2>1. \A n \in Nat : 0 .. n - 1 \in SUBSET Nat /\ IsFiniteSet(0 .. n - 1)
    BY FS_Interval
  <2> QED
    BY <2>1 DEF FiniteSubsetsOf
<1>3. \E x \in T : \A y \in T : <<y, x>> \notin R
  <2> HIDE DEF R, T
  <2> QED
    BY <1>1, <1>2, WFMin
<1>4. PICK n \in Missing : \A m \in Missing : <<0 .. m - 1, 0 .. n - 1>> \notin R
  BY <1>3
<1>5. n # 0 /\ n - 1 \in Missing
  OBVIOUS
<1>6. 0 .. (n - 1) - 1 \subseteq 0 .. n - 1 /\ n - 1 \in 0 .. n - 1 /\ n - 1 \notin 0 .. (n - 1) - 1
  BY <1>5
<1>7. <<0 .. (n - 1) - 1, 0 .. n - 1>> \in R
  BY <1>6 DEF StrictSubsetOrdering
<1> QED
  BY <1>4, <1>5, <1>7
-------------------------------------------------------------------------------
(* The buffers of B that a queue names, and that it names each at most     *)
(* once.                                                                   *)
Named(e) == {e.p1, e.p2}
NamedIn(q, B) == {b \in B : \E i \in DOMAIN q : b \in Named(q[i])}
Once(q, B) == \A i, j \in DOMAIN q : i # j => Named(q[i]) \cap Named(q[j]) \cap B = {}

(* An empty queue names no buffer.                                         *)
LEMMA EmptyNamed == ASSUME NEW B PROVE NamedIn(<< >>, B) = {} /\ Once(<< >>, B)
  BY DEF NamedIn, Once

(* An entry behind the others (m_etb_q.insert_entry and the like).         *)
LEMMA AppendNamed ==
  ASSUME NEW E, NEW q \in Seq(E), NEW e \in E, NEW B
  PROVE  /\ Append(q, e) \in Seq(E)
         /\ NamedIn(Append(q, e), B) = NamedIn(q, B) \cup (Named(e) \cap B)
         /\ Once(q, B) /\ Named(e) \cap NamedIn(q, B) = {} => Once(Append(q, e), B)
<1>1. /\ Append(q, e) \in Seq(E) /\ DOMAIN Append(q, e) = DOMAIN q \cup {Len(q) + 1}
      /\ Append(q, e)[Len(q) + 1] = e /\ \A i \in DOMAIN q : Append(q, e)[i] = q[i]
  BY AppendProperties
<1>2. NamedIn(Append(q, e), B) = NamedIn(q, B) \cup (Named(e) \cap B)
  BY <1>1 DEF NamedIn
<1>3. ASSUME Once(q, B), Named(e) \cap NamedIn(q, B) = {} PROVE Once(Append(q, e), B)
  <2>1. \A i \in DOMAIN q : Named(q[i]) \cap Named(e) \cap B = {}
    BY <1>3 DEF NamedIn
  <2> QED
    BY <1>1, <1>3, <2>1 DEF Once
<1> QED
  BY <1>1, <1>2, <1>3

(* The first entry taken (pop_entry).                                      *)
LEMMA TailNamed ==
  ASSUME NEW E, NEW q \in Seq(E), q # << >>, NEW B
  PROVE  /\ Tail(q) \in Seq(E) /\ Head(q) \in E
         /\ NamedIn(q, B) = NamedIn(Tail(q), B) \cup (Named(Head(q)) \cap B)
         /\ Once(q, B) => Once(Tail(q), B) /\ Named(Head(q)) \cap NamedIn(Tail(q), B) = {}
<1>1. /\ Tail(q) \in Seq(E) /\ Head(q) \in E /\ Head(q) = q[1] /\ 1 \in DOMAIN q
      /\ \A i \in DOMAIN Tail(q) : i + 1 \in DOMAIN q /\ i # 0 /\ Tail(q)[i] = q[i + 1]
      /\ \A i \in DOMAIN q : i = 1 \/ (i - 1 \in DOMAIN Tail(q) /\ q[i] = Tail(q)[i - 1])
  OBVIOUS
<1>2. NamedIn(q, B) = NamedIn(Tail(q), B) \cup (Named(Head(q)) \cap B)
  <2>1. ASSUME NEW b \in B, NEW i \in DOMAIN q, b \in Named(q[i])
        PROVE  b \in NamedIn(Tail(q), B) \cup (Named(Head(q)) \cap B)
    BY <1>1, <2>1 DEF NamedIn
  <2>2. ASSUME NEW b \in B, NEW i \in DOMAIN Tail(q), b \in Named(Tail(q)[i])
        PROVE  b \in NamedIn(q, B)
    BY <1>1, <2>2 DEF NamedIn
  <2>3. Named(Head(q)) \cap B \subseteq NamedIn(q, B)
    BY <1>1 DEF NamedIn
  <2> QED
    BY <2>1, <2>2, <2>3 DEF NamedIn
<1>3. ASSUME Once(q, B)
      PROVE  Once(Tail(q), B) /\ Named(Head(q)) \cap NamedIn(Tail(q), B) = {}
  <2>1. Once(Tail(q), B)
    <3> SUFFICES ASSUME NEW i \in DOMAIN Tail(q), NEW j \in DOMAIN Tail(q), i # j
                 PROVE  Named(Tail(q)[i]) \cap Named(Tail(q)[j]) \cap B = {}
      BY DEF Once
    <3>1. i + 1 # j + 1 /\ i + 1 \in DOMAIN q /\ j + 1 \in DOMAIN q
      BY <1>1
    <3> QED
      BY <1>1, <1>3, <3>1 DEF Once
  <2>2. \A i \in DOMAIN Tail(q) : Named(q[1]) \cap Named(q[i + 1]) \cap B = {}
    <3> TAKE i \in DOMAIN Tail(q)
    <3>1. 1 # i + 1 /\ i + 1 \in DOMAIN q
      BY <1>1
    <3> QED
      BY <1>1, <1>3, <3>1 DEF Once
  <2> QED
    BY <1>1, <2>1, <2>2 DEF NamedIn
<1> QED
  BY <1>1, <1>2, <1>3

(* One entry that names one buffer, put behind a queue.                    *)
LEMMA EntryAdded ==
  ASSUME NEW E, NEW q \in Seq(E), NEW B, Once(q, B), NEW e \in E, NEW b \in B,
         Named(e) \cap B = {b}, b \notin NamedIn(q, B)
  PROVE  /\ Append(q, e) \in Seq(E) /\ Once(Append(q, e), B)
         /\ NamedIn(Append(q, e), B) = NamedIn(q, B) \cup {b}
<1>1. Named(e) \cap NamedIn(q, B) = {}
  BY DEF NamedIn
<1> QED
  BY <1>1, AppendNamed

(* One that names one buffer, taken from the front.                        *)
LEMMA EntryTaken ==
  ASSUME NEW E, NEW q \in Seq(E), q # << >>, NEW B, Once(q, B), NEW b \in B,
         Named(Head(q)) \cap B = {b}
  PROVE  /\ Tail(q) \in Seq(E) /\ Once(Tail(q), B)
         /\ NamedIn(q, B) = NamedIn(Tail(q), B) \cup {b}
         /\ b \notin NamedIn(Tail(q), B)
  BY TailNamed

(* Entries without a buffer behind the others.                             *)
LEMMA ConcatNamed ==
  ASSUME NEW E, NEW q \in Seq(E), NEW r \in Seq(E), NEW B, NamedIn(r, B) = {}
  PROVE  /\ q \o r \in Seq(E) /\ NamedIn(q \o r, B) = NamedIn(q, B)
         /\ Once(q, B) => Once(q \o r, B)
<1>1. /\ q \o r \in Seq(E) /\ \A i \in DOMAIN q : i \in DOMAIN (q \o r) /\ (q \o r)[i] = q[i]
      /\ \A i \in DOMAIN (q \o r) :
           i \in DOMAIN q \/ (i - Len(q) \in DOMAIN r /\ (q \o r)[i] = r[i - Len(q)])
  OBVIOUS
<1>2. \A i \in DOMAIN r : Named(r[i]) \cap B = {}
  BY DEF NamedIn
<1>3. NamedIn(q \o r, B) = NamedIn(q, B)
  BY <1>1, <1>2 DEF NamedIn
<1>4. Once(q, B) => Once(q \o r, B)
  BY <1>1, <1>2 DEF Once
<1> QED
  BY <1>1, <1>3, <1>4

(* How often a queue names a buffer, when it names it at most once.        *)
LEMMA CountNamed ==
  ASSUME NEW E, NEW q \in Seq(E), NEW B, NEW b \in B, Once(q, B)
  PROVE  Cardinality({i \in DOMAIN q : q[i].p1 = b \/ q[i].p2 = b})
           = IF b \in NamedIn(q, B) THEN 1 ELSE 0
<1> DEFINE S == {i \in DOMAIN q : q[i].p1 = b \/ q[i].p2 = b}
<1>1. CASE b \in NamedIn(q, B)
  <2>1. PICK i \in DOMAIN q : b \in Named(q[i])
    BY <1>1 DEF NamedIn
  <2>2. S = {i}
    BY <2>1 DEF Once, Named
  <2> QED
    BY <1>1, <2>2, FS_Singleton
<1>2. CASE b \notin NamedIn(q, B)
  <2>1. S = {}
    BY <1>2 DEF NamedIn, Named
  <2> QED
    BY <1>2, <2>1, FS_EmptySet
<1> QED
  BY <1>1, <1>2
-------------------------------------------------------------------------------
(* A queue without the entries of one kind, worked out entry by entry.     *)
KeepStep(q, id, F, i) ==
  IF i = 0 THEN << >> ELSE IF q[i].id = id THEN F[i - 1] ELSE Append(F[i - 1], q[i])
Keeps(q, id, F) == F = [i \in 0 .. Len(q) |-> KeepStep(q, id, F, i)]
Kept(q, id) == (CHOOSE F : Keeps(q, id, F))[Len(q)]

(* The working out is one of the queue's prefixes: such a function exists. *)
LEMMA KeepsExists == ASSUME NEW q, NEW id, Len(q) \in Nat PROVE \E F : Keeps(q, id, F)
<1> DEFINE Upto(n) == \E F : F = [i \in 0 .. n |-> KeepStep(q, id, F, i)]
           S == {n \in Nat : Upto(n)}
<1>1. 0 \in S
  <2> DEFINE F == [i \in 0 .. 0 |-> << >>]
  <2>1. F = [i \in 0 .. 0 |-> KeepStep(q, id, F, i)]
    BY DEF KeepStep
  <2> HIDE DEF F
  <2> QED
    BY <2>1
<1>2. ASSUME NEW n \in Nat, n \in S PROVE n + 1 \in S
  <2>1. PICK F : F = [i \in 0 .. n |-> KeepStep(q, id, F, i)]
    BY <1>2
  <2> DEFINE G == [i \in 0 .. n + 1 |-> IF i = n + 1 THEN KeepStep(q, id, F, i) ELSE F[i]]
  <2>2. \A i \in 0 .. n + 1 : KeepStep(q, id, F, i) = KeepStep(q, id, G, i)
    BY DEF KeepStep
  <2>3. \A i \in 0 .. n : F[i] = KeepStep(q, id, F, i)
    BY <2>1
  <2>4. \A i \in 0 .. n + 1 : G[i] = KeepStep(q, id, G, i)
    BY <2>2, <2>3
  <2>5. G = [i \in 0 .. n + 1 |-> G[i]]
    OBVIOUS
  <2> HIDE DEF G
  <2>6. G = [i \in 0 .. n + 1 |-> KeepStep(q, id, G, i)]
    BY <2>4, <2>5
  <2> QED
    BY <2>6
<1>3. Nat \subseteq S
  <2> HIDE DEF S
  <2> QED
    BY <1>1, <1>2, Induction
<1> QED
  BY <1>3 DEF Keeps

(* What is kept is in the queue as before, each entry as often.            *)
LEMMA KeptNamed ==
  ASSUME NEW E, NEW q \in Seq(E), NEW id, NEW B
  PROVE  /\ Kept(q, id) \in Seq({e \in E : e.id # id})
         /\ NamedIn(Kept(q, id), B)
              = {b \in B : \E i \in DOMAIN q : q[i].id # id /\ b \in Named(q[i])}
         /\ Once(q, B) => Once(Kept(q, id), B)
<1> DEFINE D == {e \in E : e.id # id}
           From(n) == {b \in B : \E i \in 1 .. n : q[i].id # id /\ b \in Named(q[i])}
<1>1. Len(q) \in Nat /\ DOMAIN q = 1 .. Len(q) /\ \A i \in 1 .. Len(q) : q[i] \in E
  OBVIOUS
<1>2. PICK F : Keeps(q, id, F) /\ Kept(q, id) = F[Len(q)]
  BY <1>1, KeepsExists DEF Kept
<1>3. \A i \in 0 .. Len(q) : F[i] = KeepStep(q, id, F, i)
  BY <1>2 DEF Keeps
<1> DEFINE Good(n) == /\ F[n] \in Seq(D) /\ NamedIn(F[n], B) = From(n)
                      /\ Once(q, B) => Once(F[n], B)
           S == {n \in Nat : n <= Len(q) => Good(n)}
<1>4. 0 \in S
  <2>1. F[0] = << >>
    BY <1>1, <1>3 DEF KeepStep
  <2>2. << >> \in Seq(D) /\ From(0) = {}
    OBVIOUS
  <2>3. Good(0)
    <3> HIDE DEF D, From
    <3> QED
      BY <2>1, <2>2, EmptyNamed
  <2> QED
    BY <2>3
<1>5. ASSUME NEW n \in Nat, n \in S PROVE n + 1 \in S
  <2> SUFFICES ASSUME n + 1 <= Len(q) PROVE Good(n + 1)
    OBVIOUS
  <2>0. n + 1 \in DOMAIN q /\ q[n + 1] \in E /\ Good(n)
    BY <1>1, <1>5
  <2>1. F[n + 1] = IF q[n + 1].id = id THEN F[n] ELSE Append(F[n], q[n + 1])
    BY <1>1, <1>3 DEF KeepStep
  <2>2. From(n + 1) = From(n) \cup (IF q[n + 1].id = id THEN {} ELSE Named(q[n + 1]) \cap B)
    OBVIOUS
  <2>3. CASE q[n + 1].id = id
    <3>1. F[n + 1] = F[n] /\ From(n + 1) = From(n)
      BY <2>1, <2>2, <2>3
    <3> QED
      BY <2>0, <3>1
  <2>4. CASE q[n + 1].id # id
    <3>1. Once(q, B) => Named(q[n + 1]) \cap From(n) = {}
      <4> SUFFICES ASSUME Once(q, B), NEW b \in From(n), b \in Named(q[n + 1]) PROVE FALSE
        OBVIOUS
      <4>1. PICK i \in 1 .. n : b \in Named(q[i])
        OBVIOUS
      <4>2. i \in DOMAIN q /\ i # n + 1 /\ b \in B
        BY <1>1, <2>0
      <4> QED
        BY <2>0, <4>1, <4>2 DEF Once
    <3>2. q[n + 1] \in D /\ F[n + 1] = Append(F[n], q[n + 1])
      BY <2>0, <2>1, <2>4
    <3> HIDE DEF D, From
    <3>3. /\ Append(F[n], q[n + 1]) \in Seq(D)
          /\ NamedIn(Append(F[n], q[n + 1]), B) = NamedIn(F[n], B) \cup (Named(q[n + 1]) \cap B)
          /\ Once(F[n], B) /\ Named(q[n + 1]) \cap NamedIn(F[n], B) = {}
               => Once(Append(F[n], q[n + 1]), B)
      BY <2>0, <3>2, AppendNamed
    <3> QED
      BY <2>0, <2>2, <2>4, <3>1, <3>2, <3>3
  <2> QED
    BY <2>3, <2>4
<1>6. Nat \subseteq S
  <2> HIDE DEF S
  <2> QED
    BY <1>4, <1>5, Induction
<1>7. Good(Len(q))
  <2>1. Len(q) \in S
    <3> HIDE DEF S
    <3> QED
      BY <1>1, <1>6
  <2> HIDE DEF Good
  <2> QED
    BY <1>1, <2>1
<1> QED
  BY <1>1, <1>2, <1>7
-------------------------------------------------------------------------------
(***************************************************************************)
(* What comes in which order in a queue: an entry of D is in it; at most   *)
(* one is; no entry of F comes after one of D.  Fewer: whatever of K is in *)
(* p, and in which order, is so in q.                                      *)
(***************************************************************************)
Has(q, D) == \E i \in DOMAIN q : q[i] \in D
AtMostOne(q, D) == \A i, j \in DOMAIN q : q[i] \in D /\ q[j] \in D => i = j
Before(q, D, F) == \A i, j \in DOMAIN q : i < j /\ q[i] \in D => q[j] \notin F
Fewer(q, p, K) ==
  \A D \in SUBSET K :
    /\ Has(p, D) => Has(q, D)
    /\ AtMostOne(q, D) => AtMostOne(p, D)
    /\ \A F \in SUBSET K : Before(q, D, F) => Before(p, D, F)

(* An empty queue has nothing.                                             *)
LEMMA EmptyHas ==
  ASSUME NEW D, NEW F
  PROVE  ~ Has(<< >>, D) /\ AtMostOne(<< >>, D) /\ Before(<< >>, D, F)
  BY DEF Has, AtMostOne, Before

(* What is true of a queue when its first entry is taken.                  *)
LEMMA TailHas ==
  ASSUME NEW E, NEW q \in Seq(E), q # << >>, NEW D
  PROVE  /\ Has(Tail(q), D) => Has(q, D)
         /\ Head(q) \notin D => (Has(q, D) => Has(Tail(q), D))
         /\ Head(q) \in D => Has(q, D)
         /\ AtMostOne(q, D) => /\ AtMostOne(Tail(q), D)
                               /\ Head(q) \in D => ~ Has(Tail(q), D)
<1>1. /\ Head(q) = q[1] /\ 1 \in DOMAIN q
      /\ \A i \in DOMAIN Tail(q) : i + 1 \in DOMAIN q /\ i # 0 /\ Tail(q)[i] = q[i + 1]
      /\ \A i \in DOMAIN q : i = 1 \/ (i - 1 \in DOMAIN Tail(q) /\ q[i] = Tail(q)[i - 1])
      /\ DOMAIN q \subseteq Int /\ DOMAIN Tail(q) \subseteq Int
  OBVIOUS
<1>2. /\ Has(Tail(q), D) => Has(q, D)
      /\ Head(q) \notin D => (Has(q, D) => Has(Tail(q), D))
      /\ Head(q) \in D => Has(q, D)
  BY ONLY <1>1 DEF Has
<1>3. ASSUME AtMostOne(q, D) PROVE AtMostOne(Tail(q), D)
  BY ONLY <1>1, <1>3 DEF AtMostOne
<1>4. ASSUME AtMostOne(q, D), Head(q) \in D PROVE ~ Has(Tail(q), D)
  BY ONLY <1>1, <1>4 DEF AtMostOne, Has
<1> QED
  BY <1>2, <1>3, <1>4

(* Nor does taking it change the order of the others.                     *)
LEMMA TailBefore ==
  ASSUME NEW E, NEW q \in Seq(E), q # << >>, NEW D, NEW F, Before(q, D, F)
  PROVE  /\ Before(Tail(q), D, F)
         /\ Head(q) \in D => ~ Has(Tail(q), F)
<1>1. /\ Head(q) = q[1] /\ 1 \in DOMAIN q
      /\ \A i \in DOMAIN Tail(q) : i + 1 \in DOMAIN q /\ i > 0 /\ Tail(q)[i] = q[i + 1]
      /\ DOMAIN q \subseteq Int /\ DOMAIN Tail(q) \subseteq Int
  OBVIOUS
<1>2. Before(Tail(q), D, F)
  BY <1>1 DEF Before
<1>3. Head(q) \in D => ~ Has(Tail(q), F)
  BY <1>1 DEF Before, Has
<1> QED
  BY <1>2, <1>3

(* And when one is put behind the others.                                  *)
LEMMA AppendHas ==
  ASSUME NEW E, NEW q \in Seq(E), NEW e \in E, NEW D, NEW F
  PROVE  /\ Has(Append(q, e), D) <=> Has(q, D) \/ e \in D
         /\ AtMostOne(q, D) /\ (Has(q, D) => e \notin D) => AtMostOne(Append(q, e), D)
         /\ Before(q, D, F) /\ (Has(q, D) => e \notin F) => Before(Append(q, e), D, F)
<1>1. /\ DOMAIN Append(q, e) = DOMAIN q \cup {Len(q) + 1}
      /\ Append(q, e)[Len(q) + 1] = e /\ \A i \in DOMAIN q : Append(q, e)[i] = q[i]
      /\ \A i \in DOMAIN q : i < Len(q) + 1 /\ i \in Int
      /\ Len(q) \in Int
  BY AppendProperties
<1>2. Has(Append(q, e), D) <=> Has(q, D) \/ e \in D
  BY ONLY <1>1 DEF Has
<1>3. AtMostOne(q, D) /\ (Has(q, D) => e \notin D) => AtMostOne(Append(q, e), D)
  BY ONLY <1>1 DEF Has, AtMostOne
<1>4. Before(q, D, F) /\ (Has(q, D) => e \notin F) => Before(Append(q, e), D, F)
  BY ONLY <1>1 DEF Has, Before
<1> QED
  BY <1>2, <1>3, <1>4

(* Taking the first entry keeps what is ordered and what is not there.     *)
LEMMA FewerTail ==
  ASSUME NEW E, NEW q \in Seq(E), q # << >>, NEW K
  PROVE  Fewer(q, Tail(q), K)
  BY TailHas, TailBefore DEF Fewer

(* Entries of another kind put behind the others.                          *)
LEMMA FewerConcat ==
  ASSUME NEW E, NEW q \in Seq(E), NEW r \in Seq(E), NEW K, ~ Has(r, K)
  PROVE  Fewer(q, q \o r, K)
<1>1. /\ \A i \in DOMAIN (q \o r) :
           \/ i \in DOMAIN q /\ (q \o r)[i] = q[i]
           \/ i - Len(q) \in DOMAIN r /\ (q \o r)[i] = r[i - Len(q)]
      /\ DOMAIN q \subseteq DOMAIN (q \o r)
  OBVIOUS
<1>2. \A i \in DOMAIN (q \o r) : (q \o r)[i] \in K => i \in DOMAIN q /\ (q \o r)[i] = q[i]
  BY <1>1 DEF Has
<1>3. ASSUME NEW D \in SUBSET K
      PROVE  /\ Has(q \o r, D) => Has(q, D)
             /\ AtMostOne(q, D) => AtMostOne(q \o r, D)
  BY ONLY <1>2, <1>3 DEF Has, AtMostOne
<1>4. ASSUME NEW D \in SUBSET K, NEW F \in SUBSET K, Before(q, D, F)
      PROVE  Before(q \o r, D, F)
  BY ONLY <1>2, <1>4 DEF Before
<1> QED
  BY <1>3, <1>4 DEF Fewer

(* Two such steps in a row are one.                                        *)
LEMMA FewerTwice ==
  ASSUME NEW q, NEW p, NEW r, NEW K, Fewer(q, p, K), Fewer(p, r, K)
  PROVE  Fewer(q, r, K)
  BY DEF Fewer
===============================================================================
