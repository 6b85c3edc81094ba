--------------------------- MODULE VscListTheorems ---------------------------
(***************************************************************************)
(* What the list operations do to the set of linked entries and to the     *)
(* length, for lists of any length.  The proofs about the components use   *)
(* these facts and never look inside a sequence.                           *)
(***************************************************************************)
EXTENDS VscList, SequenceTheorems, FiniteSetTheorems, TLAPS

\* list_add_tail links one more entry.
LEMMA AddTailFacts ==
    ASSUME NEW S, NEW q \in Seq(S), NEW c \in S
    PROVE  /\ AddTail(q, c) \in Seq(S)
           /\ Len(AddTail(q, c)) = Len(q) + 1
           /\ ToSet(AddTail(q, c)) = ToSet(q) \union {c}
           /\ NoDup(q) /\ c \notin ToSet(q) => NoDup(AddTail(q, c))
<1>1. /\ AddTail(q, c) \in Seq(S)
      /\ Len(AddTail(q, c)) = Len(q) + 1
      /\ \A i \in 1 .. Len(q) : AddTail(q, c)[i] = q[i]
      /\ AddTail(q, c)[Len(q) + 1] = c
  BY AppendProperties DEF AddTail
<1>2. Len(q) \in Nat /\ DOMAIN q = 1 .. Len(q)
      /\ DOMAIN AddTail(q, c) = 1 .. Len(q) + 1
  BY <1>1, LenProperties
<1>3. ToSet(AddTail(q, c)) = ToSet(q) \union {c}
  BY <1>1, <1>2 DEF ToSet
<1>4. NoDup(q) /\ c \notin ToSet(q) => NoDup(AddTail(q, c))
  BY <1>1, <1>2 DEF ToSet, NoDup, IsInjective
<1> QED BY <1>1, <1>3, <1>4

\* The first entry leaves.
LEMMA TailFacts ==
    ASSUME NEW S, NEW q \in Seq(S), q # <<>>
    PROVE  /\ Head(q) \in ToSet(q)
           /\ Tail(q) \in Seq(S)
           /\ Len(Tail(q)) = Len(q) - 1
           /\ NoDup(q) => /\ NoDup(Tail(q))
                          /\ ToSet(Tail(q)) = ToSet(q) \ {Head(q)}
<1>1. /\ Head(q) = q[1] /\ Tail(q) \in Seq(S) /\ Len(Tail(q)) = Len(q) - 1
      /\ \A i \in 1 .. Len(Tail(q)) : Tail(q)[i] = q[i + 1]
  BY HeadTailProperties
<1>2. /\ Len(q) \in Nat \ {0} /\ DOMAIN q = 1 .. Len(q)
      /\ DOMAIN Tail(q) = 1 .. Len(q) - 1
  BY <1>1, LenProperties, EmptySeq
<1>3. Head(q) \in ToSet(q)
  BY <1>1, <1>2 DEF ToSet
<1>4. ASSUME NoDup(q) PROVE NoDup(Tail(q))
  BY <1>1, <1>2, <1>4 DEF NoDup, IsInjective
<1>5. ASSUME NoDup(q) PROVE ToSet(Tail(q)) = ToSet(q) \ {Head(q)}
  <2>1. ToSet(Tail(q)) \subseteq ToSet(q) \ {Head(q)}
    BY <1>1, <1>2, <1>5 DEF ToSet, NoDup, IsInjective
  <2>2. ASSUME NEW t \in ToSet(q), t # Head(q) PROVE t \in ToSet(Tail(q))
    <3>1. PICK i \in 1 .. Len(q) : q[i] = t
      BY <1>2 DEF ToSet
    <3>2. i - 1 \in 1 .. Len(Tail(q)) /\ Tail(q)[i - 1] = t
      BY <1>1, <1>2, <2>2, <3>1
    <3> QED BY <3>2, <1>1, <1>2 DEF ToSet
  <2> QED BY <2>1, <2>2
<1> QED BY <1>1, <1>3, <1>4, <1>5

\* The part of a sequence after its first k elements.
LEMMA RestProperties ==
    ASSUME NEW S, NEW q \in Seq(S), NEW k \in 0 .. Len(q)
    PROVE  /\ SubSeq(q, k + 1, Len(q)) \in Seq(S)
           /\ Len(SubSeq(q, k + 1, Len(q))) = Len(q) - k
           /\ \A i \in 1 .. Len(q) - k : SubSeq(q, k + 1, Len(q))[i] = q[k + i]
<1>1. /\ Len(q) \in Nat /\ k \in Int /\ k + 1 \in Int /\ Len(q) \in Int
      /\ \A i \in k + 1 .. Len(q) : q[i] \in S
  BY LenProperties
<1> DEFINE r == SubSeq(q, k + 1, Len(q))
<1>2. /\ r \in Seq(S)
      /\ Len(r) = IF k + 1 <= Len(q) THEN Len(q) - (k + 1) + 1 ELSE 0
      /\ \A i \in 1 .. Len(q) - (k + 1) + 1 : r[i] = q[k + 1 + i - 1]
  BY <1>1, SubSeqProperties
<1> HIDE DEF r
<1>3. Len(r) = Len(q) - k
  BY <1>1, <1>2
<1>4. ASSUME NEW i \in 1 .. Len(q) - k PROVE r[i] = q[k + i]
  <2>1. i \in 1 .. Len(q) - (k + 1) + 1 /\ k + 1 + i - 1 = k + i
    BY <1>1
  <2> QED BY <1>2, <2>1
<1> QED BY <1>2, <1>3, <1>4 DEF r

\* What is left when the entry at one position leaves.
LEMMA RemoveAtFacts ==
    ASSUME NEW S, NEW q \in Seq(S), NEW k \in 1 .. Len(q)
    PROVE  /\ RemoveAt(q, k) \in Seq(S) /\ Len(RemoveAt(q, k)) = Len(q) - 1
           /\ DOMAIN RemoveAt(q, k) = 1 .. Len(q) - 1
           /\ \A i \in 1 .. Len(q) - 1 :
                 RemoveAt(q, k)[i] = IF i < k THEN q[i] ELSE q[i + 1]
<1> DEFINE d == RemoveAt(q, k)
           a == SubSeq(q, 1, k - 1)
           b == SubSeq(q, k + 1, Len(q))
<1>1. Len(q) \in Nat /\ k \in 0 .. Len(q) /\ k \in 1 .. Len(q)
  BY LenProperties
<1>2. a \in Seq(S) /\ Len(a) = k - 1 /\ \A i \in 1 .. k - 1 : a[i] = q[i]
  BY <1>1, SubSeqProperties
<1>3. /\ b \in Seq(S) /\ Len(b) = Len(q) - k
      /\ \A i \in 1 .. Len(q) - k : b[i] = q[k + i]
  BY <1>1, RestProperties
<1>4. d = a \o b
  BY DEF RemoveAt
<1> HIDE DEF a, b, d
<1>5. /\ d \in Seq(S) /\ Len(d) = Len(a) + Len(b)
      /\ \A i \in 1 .. Len(a) + Len(b) :
             d[i] = IF i <= Len(a) THEN a[i] ELSE b[i - Len(a)]
  BY <1>2, <1>3, <1>4, ConcatProperties
<1>6. Len(d) = Len(q) - 1 /\ DOMAIN d = 1 .. Len(q) - 1
  <2>1. Len(d) = Len(q) - 1
    BY <1>1, <1>2, <1>3, <1>5
  <2> QED BY <2>1, <1>5, LenProperties
<1>7. ASSUME NEW i \in 1 .. Len(q) - 1
      PROVE  d[i] = IF i < k THEN q[i] ELSE q[i + 1]
  <2>1. d[i] = IF i <= k - 1 THEN a[i] ELSE b[i - (k - 1)]
    <3>1. Len(a) = k - 1 /\ i \in 1 .. Len(a) + Len(b)
      BY <1>1, <1>2, <1>3
    <3> QED BY <1>5, <3>1
  <2>2. CASE i < k
    <3>1. i <= k - 1 /\ i \in 1 .. k - 1
      BY <1>1, <2>2
    <3> QED BY <1>2, <2>1, <2>2, <3>1
  <2>3. CASE ~ (i < k)
    <3>1. ~ (i <= k - 1) /\ i - (k - 1) \in 1 .. Len(q) - k
          /\ k + (i - (k - 1)) = i + 1
      BY <1>1, <2>3
    <3> QED BY <1>3, <2>1, <2>3, <3>1
  <2> QED BY <2>2, <2>3
<1> QED BY <1>5, <1>6, <1>7 DEF d

\* list_del_init unlinks the entry it is given, and is harmless on a queue the
\* entry is not on.
LEMMA DelFacts ==
    ASSUME NEW S, NEW q \in Seq(S), NEW c
    PROVE  /\ Del(q, c) \in Seq(S)
           /\ c \notin ToSet(q) => Del(q, c) = q
           /\ c \in ToSet(q) => Len(Del(q, c)) = Len(q) - 1
           /\ NoDup(q) => /\ NoDup(Del(q, c))
                          /\ ToSet(Del(q, c)) = ToSet(q) \ {c}
<1>1. CASE c \notin ToSet(q)
  BY <1>1 DEF Del, On
<1>2. CASE c \in ToSet(q)
  <2> DEFINE k == CHOOSE i \in DOMAIN q : q[i] = c
             d == Del(q, c)
  <2>1. Len(q) \in Nat /\ DOMAIN q = 1 .. Len(q)
    BY LenProperties
  <2>2. k \in 1 .. Len(q) /\ q[k] = c
    BY <1>2, <2>1 DEF ToSet
  <2>3. d = RemoveAt(q, k)
    BY <1>2 DEF Del, On
  <2> HIDE DEF k
  <2>4. /\ d \in Seq(S) /\ Len(d) = Len(q) - 1
        /\ DOMAIN d = 1 .. Len(q) - 1
        /\ \A i \in 1 .. Len(q) - 1 : d[i] = IF i < k THEN q[i] ELSE q[i + 1]
    <3> DEFINE r == RemoveAt(q, k)
    <3>1. k \in 1 .. Len(q)
      BY <2>2
    <3>2. /\ r \in Seq(S) /\ Len(r) = Len(q) - 1 /\ DOMAIN r = 1 .. Len(q) - 1
          /\ \A i \in 1 .. Len(q) - 1 : r[i] = IF i < k THEN q[i] ELSE q[i + 1]
      BY <3>1, RemoveAtFacts
    <3> HIDE DEF r
    <3>3. d = r
      BY <2>3 DEF r
    <3> QED BY <3>2, <3>3
  <2> HIDE DEF d
  <2>5. ASSUME NoDup(q) PROVE NoDup(d)
    <3> DEFINE from(i) == IF i < k THEN i ELSE i + 1
    <3>1. ASSUME NEW a \in 1 .. Len(q) - 1, NEW b \in 1 .. Len(q) - 1,
                 d[a] = d[b]
          PROVE  a = b
      <4>1. /\ from(a) \in 1 .. Len(q) /\ d[a] = q[from(a)]
            /\ from(b) \in 1 .. Len(q) /\ d[b] = q[from(b)]
        BY <2>1, <2>2, <2>4
      <4>2. q[from(a)] = q[from(b)] => from(a) = from(b)
        BY <2>1, <2>5, <4>1 DEF NoDup, IsInjective
      <4>3. from(a) = from(b)
        BY <3>1, <4>1, <4>2
      <4> QED BY <4>3, <2>1, <2>2
    <3> QED BY <2>4, <3>1 DEF NoDup, IsInjective
  <2>6. ASSUME NoDup(q) PROVE ToSet(d) = ToSet(q) \ {c}
    <3>1. ASSUME NEW t \in ToSet(d) PROVE t \in ToSet(q) \ {c}
      <4>1. PICK a \in DOMAIN d : d[a] = t
        BY DEF ToSet
      <4>2. PICK i \in 1 .. Len(q) : q[i] = t /\ i # k
        <5>1. CASE a < k
          BY <2>1, <2>2, <2>4, <4>1, <5>1
        <5>2. CASE ~ (a < k)
          BY <2>1, <2>2, <2>4, <4>1, <5>2
        <5> QED BY <5>1, <5>2
      <4>3. q[i] # q[k]
        BY <2>1, <2>2, <2>6, <4>2 DEF NoDup, IsInjective
      <4> QED BY <2>1, <2>2, <4>2, <4>3 DEF ToSet
    <3>2. ASSUME NEW t \in ToSet(q), t # c PROVE t \in ToSet(d)
      <4>1. PICK i \in 1 .. Len(q) : q[i] = t
        BY <2>1 DEF ToSet
      <4>2. CASE i < k
        BY <2>1, <2>2, <2>4, <4>1, <4>2 DEF ToSet
      <4>3. CASE i > k
        <5>1. i - 1 \in 1 .. Len(q) - 1 /\ d[i - 1] = t
          BY <2>1, <2>2, <2>4, <4>1, <4>3
        <5> QED BY <5>1, <2>4 DEF ToSet
      <4> QED BY <2>1, <2>2, <3>2, <4>1, <4>2, <4>3
    <3> QED BY <3>1, <3>2
  <2> QED BY <1>2, <2>4, <2>5, <2>6 DEF d
<1> QED BY <1>1, <1>2

\* A batch taken from the head and the rest of the queue share it out.
LEMMA BatchFacts ==
    ASSUME NEW S, NEW q \in Seq(S), NEW n \in Nat
    PROVE  /\ Batch(q, n) \in Seq(S) /\ Rest(q, n) \in Seq(S)
           /\ Len(Batch(q, n)) + Len(Rest(q, n)) = Len(q)
           /\ ToSet(q) = ToSet(Batch(q, n)) \union ToSet(Rest(q, n))
           /\ NoDup(q) => /\ NoDup(Batch(q, n)) /\ NoDup(Rest(q, n))
                          /\ ToSet(Batch(q, n)) \intersect ToSet(Rest(q, n)) = {}
<1> DEFINE k == IF Len(q) < n THEN Len(q) ELSE n
           b == Batch(q, n)
           r == Rest(q, n)
<1>1. Len(q) \in Nat /\ DOMAIN q = 1 .. Len(q)
  BY LenProperties
<1>2. k \in 0 .. Len(q)
  BY <1>1
<1>3. b = SubSeq(q, 1, k) /\ r = SubSeq(q, k + 1, Len(q))
  BY DEF Batch, Rest
<1> HIDE DEF k
<1>4. /\ b \in Seq(S) /\ Len(b) = k /\ DOMAIN b = 1 .. k
      /\ \A i \in 1 .. k : b[i] = q[i]
  BY <1>1, <1>2, <1>3, SubSeqProperties, LenProperties
<1>5. /\ r \in Seq(S) /\ Len(r) = Len(q) - k /\ DOMAIN r = 1 .. Len(q) - k
      /\ \A i \in 1 .. Len(q) - k : r[i] = q[k + i]
  <2>1. /\ r \in Seq(S) /\ Len(r) = Len(q) - k
        /\ \A i \in 1 .. Len(q) - k : r[i] = q[k + i]
    BY <1>2, <1>3, RestProperties
  <2> QED BY <2>1, LenProperties
<1> HIDE DEF b, r
<1>6. ToSet(q) = ToSet(b) \union ToSet(r)
  <2>1. ToSet(b) \subseteq ToSet(q)
    BY <1>1, <1>2, <1>4 DEF ToSet
  <2>3. \A i \in 1 .. Len(q) - k : k + i \in 1 .. Len(q)
    BY <1>1, <1>2
  <2>4. ToSet(r) \subseteq ToSet(q)
    BY <1>1, <1>5, <2>3 DEF ToSet
  <2>2. ASSUME NEW t \in ToSet(q) PROVE t \in ToSet(b) \union ToSet(r)
    <3>1. PICK i \in 1 .. Len(q) : q[i] = t
      BY <1>1 DEF ToSet
    <3>2. CASE i <= k
      BY <1>2, <1>4, <3>1, <3>2 DEF ToSet
    <3>3. CASE i > k
      <4>1. i - k \in 1 .. Len(q) - k /\ r[i - k] = t
        BY <1>1, <1>2, <1>5, <3>1, <3>3
      <4> QED BY <4>1, <1>5 DEF ToSet
    <3> QED BY <1>1, <1>2, <3>1, <3>2, <3>3
  <2> QED BY <2>1, <2>2, <2>4
<1>7. ASSUME NoDup(q)
      PROVE  NoDup(b) /\ NoDup(r) /\ ToSet(b) \intersect ToSet(r) = {}
  <2>1. NoDup(b)
    BY <1>1, <1>2, <1>4, <1>7 DEF NoDup, IsInjective
  <2>2. ASSUME NEW i \in 1 .. Len(q) - k
        PROVE  /\ k + i \in 1 .. Len(q)
               /\ \A j \in 1 .. Len(q) : q[j] = r[i] => j = k + i
    <3>1. k + i \in DOMAIN q /\ r[i] = q[k + i]
      BY <1>1, <1>2, <1>5
    <3>2. \A j \in DOMAIN q : q[j] = q[k + i] => j = k + i
      BY <1>7, <3>1 DEF NoDup, IsInjective
    <3> QED BY <1>1, <3>1, <3>2
  <2>3. NoDup(r)
    <3> SUFFICES ASSUME NEW i \in 1 .. Len(q) - k, NEW j \in 1 .. Len(q) - k,
                        r[i] = r[j]
                 PROVE  i = j
      BY <1>5 DEF NoDup, IsInjective
    <3>1. k + i = k + j
      BY <1>5, <2>2
    <3> QED BY <3>1, <1>1, <1>2
  <2>4. ToSet(b) \intersect ToSet(r) = {}
    <3> SUFFICES ASSUME NEW i \in 1 .. k, NEW j \in 1 .. Len(q) - k, b[i] = r[j]
                 PROVE  FALSE
      BY <1>4, <1>5 DEF ToSet
    <3>1. i \in 1 .. Len(q) /\ q[i] = r[j]
      BY <1>1, <1>2, <1>4
    <3>2. i = k + j
      BY <2>2, <3>1
    <3> QED BY <3>2, <1>1, <1>2
  <2> QED BY <2>1, <2>3, <2>4
<1>8. Len(b) + Len(r) = Len(q)
  BY <1>1, <1>2, <1>4, <1>5
<1> QED BY <1>4, <1>5, <1>6, <1>7, <1>8 DEF b, r

\* Two queues joined (list_splice, or a batch added entry by entry).
LEMMA JoinFacts ==
    ASSUME NEW S, NEW p \in Seq(S), NEW q \in Seq(S)
    PROVE  /\ p \o q \in Seq(S)
           /\ Len(p \o q) = Len(p) + Len(q)
           /\ ToSet(p \o q) = ToSet(p) \union ToSet(q)
           /\ NoDup(p \o q) <=> /\ NoDup(p) /\ NoDup(q)
                                /\ ToSet(p) \intersect ToSet(q) = {}
<1>1. /\ Len(p) \in Nat /\ DOMAIN p = 1 .. Len(p)
      /\ Len(q) \in Nat /\ DOMAIN q = 1 .. Len(q)
  BY LenProperties
<1>2. /\ p \o q \in Seq(S) /\ Len(p \o q) = Len(p) + Len(q)
      /\ DOMAIN (p \o q) = 1 .. Len(p) + Len(q)
      /\ \A i \in 1 .. Len(p) : (p \o q)[i] = p[i]
      /\ \A i \in 1 .. Len(q) : (p \o q)[Len(p) + i] = q[i]
  BY <1>1, ConcatProperties, LenProperties
<1>3. \A k \in 1 .. Len(p) + Len(q) :
          \/ k \in 1 .. Len(p) /\ (p \o q)[k] = p[k]
          \/ k - Len(p) \in 1 .. Len(q) /\ (p \o q)[k] = q[k - Len(p)]
  BY <1>1, <1>2
<1>4. ToSet(p \o q) = ToSet(p) \union ToSet(q)
  <2>1. ToSet(p \o q) \subseteq ToSet(p) \union ToSet(q)
    BY <1>1, <1>2, <1>3 DEF ToSet
  <2>2. ToSet(p) \subseteq ToSet(p \o q)
    BY <1>1, <1>2 DEF ToSet
  <2>3. ASSUME NEW i \in 1 .. Len(q) PROVE q[i] \in ToSet(p \o q)
    <3>1. Len(p) + i \in DOMAIN (p \o q) /\ (p \o q)[Len(p) + i] = q[i]
      BY <1>1, <1>2
    <3> QED BY <3>1 DEF ToSet
  <2> QED BY <1>1, <2>1, <2>2, <2>3 DEF ToSet
<1>5. ASSUME NoDup(p \o q)
      PROVE  NoDup(p) /\ NoDup(q) /\ ToSet(p) \intersect ToSet(q) = {}
  <2>1. NoDup(p)
    BY <1>1, <1>2, <1>5 DEF NoDup, IsInjective
  <2>2. NoDup(q)
    <3> SUFFICES ASSUME NEW i \in 1 .. Len(q), NEW j \in 1 .. Len(q), q[i] = q[j]
                 PROVE  i = j
      BY <1>1 DEF NoDup, IsInjective
    <3>1. /\ Len(p) + i \in DOMAIN (p \o q) /\ (p \o q)[Len(p) + i] = q[i]
          /\ Len(p) + j \in DOMAIN (p \o q) /\ (p \o q)[Len(p) + j] = q[j]
      BY <1>1, <1>2
    <3>2. Len(p) + i = Len(p) + j
      BY <1>5, <3>1 DEF NoDup, IsInjective
    <3> QED BY <3>2, <1>1
  <2>3. ASSUME NEW i \in 1 .. Len(p), NEW j \in 1 .. Len(q) PROVE p[i] # q[j]
    <3>1. i # Len(p) + j /\ i \in DOMAIN (p \o q) /\ Len(p) + j \in DOMAIN (p \o q)
      BY <1>1, <1>2
    <3> QED BY <3>1, <1>2, <1>5 DEF NoDup, IsInjective
  <2> QED BY <1>1, <2>1, <2>2, <2>3 DEF ToSet
<1>6. ASSUME NoDup(p), NoDup(q), ToSet(p) \intersect ToSet(q) = {}
      PROVE  NoDup(p \o q)
  <2> SUFFICES ASSUME NEW i \in 1 .. Len(p) + Len(q),
                      NEW j \in 1 .. Len(p) + Len(q), (p \o q)[i] = (p \o q)[j]
               PROVE  i = j
    BY <1>2 DEF NoDup, IsInjective
  <2>1. \A x \in 1 .. Len(p), y \in 1 .. Len(q) : p[x] # q[y]
    BY <1>1, <1>6 DEF ToSet
  <2>2. CASE i \in 1 .. Len(p) /\ j \in 1 .. Len(p)
    BY <1>1, <1>2, <1>6, <2>2 DEF NoDup, IsInjective
  <2>3. CASE i - Len(p) \in 1 .. Len(q) /\ j - Len(p) \in 1 .. Len(q)
    <3>1. q[i - Len(p)] = q[j - Len(p)]
      BY <1>1, <1>3, <2>3
    <3>2. i - Len(p) = j - Len(p)
      BY <1>1, <1>6, <2>3, <3>1 DEF NoDup, IsInjective
    <3> QED BY <3>2, <1>1
  <2> QED BY <1>1, <1>3, <2>1, <2>2, <2>3
<1> QED BY <1>2, <1>4, <1>5, <1>6

\* The empty queue.
LEMMA EmptyFacts ==
    /\ ToSet(<<>>) = {} /\ Len(<<>>) = 0 /\ NoDup(<<>>)
    /\ \A S : \A q \in Seq(S) : q # <<>> => Len(q) > 0
  BY EmptySeq, LenProperties DEF ToSet, NoDup, IsInjective

-----------------------------------------------------------------------------
(***************************************************************************)
(* removeQ of many entries.  The induction is over the length of the list,  *)
(* by the least length for which the fact would fail.                      *)
(***************************************************************************)

\* Every set of numbers has a least one.
LEMMA LeastNat ==
    ASSUME NEW T \in SUBSET Nat, T # {}
    PROVE  \E n \in T : \A k \in T : n <= k
<1> DEFINE Less == OpToRel(<, Nat)
<1>1. \A i, j \in Nat : <<i, j>> \in Less <=> i < j
  BY DEF OpToRel
<1>2. IsWellFoundedOn(Less, Nat)
  BY NatLessThanWellFounded
<1> HIDE DEF Less
<1>3. PICK n \in T : \A k \in T : ~ (<<k, n>> \in Less)
  BY <1>2, WFMin
<1>4. n \in Nat /\ \A k \in T : k \in Nat /\ ~ (k < n)
  BY <1>1, <1>3
<1> QED BY <1>3, <1>4

\* f lists K in ascending order, all of it.
Lists(f, K) == /\ f \in [1 .. Cardinality(K) -> K]
               /\ \A i, j \in 1 .. Cardinality(K) : i < j => f[i] < f[j]
               /\ \A k \in K : \E i \in 1 .. Cardinality(K) : f[i] = k

\* One position more, above the others, goes to the end of the list.
LEMMA ListsOneMore ==
    ASSUME NEW n \in Nat, NEW K \in SUBSET (1 .. n), NEW f, Lists(f, K)
    PROVE  \E g : Lists(g, K \union {n + 1})
<1> DEFINE c == Cardinality(K)
           L == K \union {n + 1}
           g == [i \in 1 .. c + 1 |-> IF i <= c THEN f[i] ELSE n + 1]
<1>1. IsFiniteSet(K) /\ c \in Nat
  <2>1. IsFiniteSet(1 .. n)
    BY FS_Interval
  <2>2. IsFiniteSet(K)
    BY <2>1, FS_Subset
  <2> QED BY <2>2, FS_CardinalityType
<1>2. n + 1 \notin K /\ Cardinality(L) = c + 1
  BY <1>1, FS_AddElement
<1>3. /\ \A i \in 1 .. c : f[i] \in K /\ f[i] \in 1 .. n
      /\ \A i, j \in 1 .. c : i < j => f[i] < f[j]
      /\ \A k \in K : \E i \in 1 .. c : f[i] = k
  BY DEF Lists
<1> HIDE DEF c
<1>4. g \in [1 .. c + 1 -> L]
  BY <1>1, <1>3
<1>5. ASSUME NEW i \in 1 .. c + 1, NEW j \in 1 .. c + 1, i < j PROVE g[i] < g[j]
  <2>1. i \in 1 .. c /\ g[i] = f[i]
    BY <1>1, <1>5
  <2>2. CASE j <= c
    BY <1>1, <1>3, <1>5, <2>1, <2>2
  <2>3. CASE ~ (j <= c)
    BY <1>1, <1>3, <2>1, <2>3
  <2> QED BY <2>2, <2>3
<1>6. ASSUME NEW k \in L PROVE \E i \in 1 .. c + 1 : g[i] = k
  <2>1. CASE k = n + 1
    BY <1>1, <2>1
  <2>2. CASE k \in K
    <3>1. PICK i \in 1 .. c : f[i] = k
      BY <1>3, <2>2
    <3>2. i \in 1 .. c + 1 /\ g[i] = k
      BY <1>1, <3>1
    <3> QED BY <3>2
  <2> QED BY <2>1, <2>2
<1> HIDE DEF g, L
<1>7. Lists(g, L)
  BY <1>2, <1>4, <1>5, <1>6 DEF Lists
<1> QED BY <1>7 DEF L

LEMMA AscendingFacts ==
    ASSUME NEW n \in Nat, NEW K \in SUBSET (1 .. n)
    PROVE  Lists(Ascending(K), K) /\ Cardinality(K) \in Nat
<1> DEFINE Bad == {m \in Nat : \E J \in SUBSET (1 .. m) : \A f : ~ Lists(f, J)}
<1>1. Bad = {}
  <2> SUFFICES ASSUME Bad # {} PROVE FALSE
    OBVIOUS
  <2>1. PICK m \in Bad : \A k \in Bad : m <= k
    BY LeastNat
  <2>2. PICK J \in SUBSET (1 .. m) : \A f : ~ Lists(f, J)
    OBVIOUS
  <2>3. CASE J = {}
    <3>1. Cardinality(J) = 0 /\ 1 .. 0 = {}
      BY <2>3, FS_EmptySet
    <3>2. Lists([i \in 1 .. 0 |-> i], J)
      BY <2>3, <3>1 DEF Lists
    <3> QED BY <2>2, <3>2
  <2>4. CASE J # {}
    <3>1. m \in Nat /\ m # 0
      <4>1. 1 .. 0 = {}
        OBVIOUS
      <4> QED BY <2>4, <4>1
    <3>2. m - 1 \in Nat /\ m - 1 \notin Bad
      BY <2>1, <3>1
    <3> DEFINE H == J \ {m}
    <3>3. H \in SUBSET (1 .. m - 1)
      BY <3>1
    <3>4. PICK f : Lists(f, H)
      BY <3>2, <3>3
    <3>5. CASE m \notin J
      <4>1. H = J
        BY <3>5
      <4> QED BY <2>2, <3>4, <4>1
    <3>6. CASE m \in J
      <4>1. J = H \union {m - 1 + 1}
        BY <3>1, <3>6
      <4> HIDE DEF H
      <4>2. \E g : Lists(g, H \union {m - 1 + 1})
        BY <3>2, <3>3, <3>4, ListsOneMore
      <4> QED BY <2>2, <4>1, <4>2
    <3> QED BY <3>5, <3>6
  <2> QED BY <2>3, <2>4
<1>2. \E f : Lists(f, K)
  BY <1>1
<1>3. IsFiniteSet(K) /\ Cardinality(K) \in Nat
  <2>1. IsFiniteSet(1 .. n)
    BY FS_Interval
  <2>2. IsFiniteSet(K)
    BY <2>1, FS_Subset
  <2> QED BY <2>2, FS_CardinalityType
<1>4. \E f \in [1 .. Cardinality(K) -> K] :
         \A i, j \in DOMAIN f : i < j => f[i] < f[j]
  BY <1>2 DEF Lists
<1> DEFINE a == Ascending(K)
<1>5. /\ a \in [1 .. Cardinality(K) -> K]
      /\ \A i, j \in 1 .. Cardinality(K) : i < j => a[i] < a[j]
  BY <1>4 DEF Ascending
<1> HIDE DEF a
\* An ascending list of as many numbers as there are is one of all of them.
<1>6. \A i, j \in 1 .. Cardinality(K) : a[i] = a[j] => i = j
  <2> SUFFICES ASSUME NEW i \in 1 .. Cardinality(K),
                      NEW j \in 1 .. Cardinality(K), a[i] = a[j], i # j
               PROVE  FALSE
    OBVIOUS
  <2>1. i \in Nat /\ j \in Nat /\ a[i] \in Nat
    <3>1. i \in Nat /\ j \in Nat
      BY <1>3
    <3>2. a[i] \in K
      BY <1>5
    <3>3. a[i] \in 1 .. n
      BY <3>2
    <3> QED BY <3>1, <3>3
  <2>2. i < j \/ j < i
    BY <2>1
  <2> QED BY <1>5, <2>1, <2>2
<1>7. a \in Injection(1 .. Cardinality(K), K)
  BY <1>5, <1>6 DEF Injection, IsInjective
<1>8. Cardinality(1 .. Cardinality(K)) = Cardinality(K)
  BY <1>3, FS_Interval
<1>9. a \in Surjection(1 .. Cardinality(K), K)
  BY <1>3, <1>7, <1>8, FS_Injection
<1>10. \A k \in K : \E i \in 1 .. Cardinality(K) : a[i] = k
  BY <1>9 DEF Surjection
<1> QED BY <1>3, <1>5, <1>10 DEF Lists, a

\* A list has as many entries as there are different ones, if none is there
\* twice.
LEMMA LenIsCardinality ==
    ASSUME NEW S, NEW q \in Seq(S), NoDup(q)
    PROVE  IsFiniteSet(ToSet(q)) /\ Cardinality(ToSet(q)) = Len(q)
<1>1. Len(q) \in Nat /\ DOMAIN q = 1 .. Len(q) /\ q \in [1 .. Len(q) -> S]
  BY LenProperties
<1>2. q \in [1 .. Len(q) -> ToSet(q)]
  BY <1>1 DEF ToSet
<1>3. \A i, j \in 1 .. Len(q) : q[i] = q[j] => i = j
  BY <1>1 DEF NoDup, IsInjective
<1>4. \A c \in ToSet(q) : \E i \in 1 .. Len(q) : q[i] = c
  BY <1>1 DEF ToSet
<1>5. q \in Bijection(1 .. Len(q), ToSet(q))
  BY <1>2, <1>3, <1>4 DEF Bijection, Injection, Surjection, IsInjective
<1>6. ExistsBijection(1 .. Len(q), ToSet(q))
  BY <1>5 DEF ExistsBijection
<1>7. IsFiniteSet(1 .. Len(q)) /\ Cardinality(1 .. Len(q)) = Len(q)
  BY <1>1, FS_Interval
<1> QED BY <1>6, <1>7, FS_Bijection

LEMMA DelAllFacts ==
    ASSUME NEW S, NEW q \in Seq(S), NEW R
    PROVE  /\ DelAll(q, R) \in Seq(S)
           /\ ToSet(DelAll(q, R)) = ToSet(q) \ R
           /\ NoDup(q) => NoDup(DelAll(q, R))
<1> DEFINE K == {i \in DOMAIN q : q[i] \notin R}
           a == Ascending(K)
           d == DelAll(q, R)
           n == Cardinality(K)
<1>1. Len(q) \in Nat /\ DOMAIN q = 1 .. Len(q) /\ q \in [1 .. Len(q) -> S]
  BY LenProperties
<1>2. K \in SUBSET (1 .. Len(q))
  BY <1>1
<1>3. d = [i \in 1 .. n |-> q[a[i]]]
  BY DEF DelAll
<1> HIDE DEF a, d
<1>4. Lists(a, K) /\ n \in Nat
  BY <1>1, <1>2, AscendingFacts DEF a
<1>5. /\ \A i \in 1 .. n : a[i] \in K
      /\ \A i, j \in 1 .. n : i < j => a[i] < a[j]
      /\ \A k \in K : \E i \in 1 .. n : a[i] = k
  BY <1>4 DEF Lists
<1>6. \A k \in K : k \in 1 .. Len(q) /\ k \in Nat /\ q[k] \in S /\ q[k] \notin R
  BY <1>1
<1>7. \A k \in 1 .. Len(q) : q[k] \notin R => k \in K
  BY <1>1
<1> HIDE DEF K, n
<1>8. d \in Seq(S) /\ DOMAIN d = 1 .. n
  <2>1. \A i \in 1 .. n : q[a[i]] \in S
    BY <1>5, <1>6
  <2> QED BY <1>3, <1>4, <2>1, IsASeq
<1>9. ToSet(d) = ToSet(q) \ R
  <2>1. ASSUME NEW c \in ToSet(d) PROVE c \in ToSet(q) \ R
    <3>1. PICK i \in 1 .. n : c = q[a[i]]
      BY <1>3, <1>8 DEF ToSet
    <3>2. a[i] \in 1 .. Len(q) /\ q[a[i]] \notin R
      BY <1>5, <1>6
    <3> QED BY <1>1, <3>1, <3>2 DEF ToSet
  <2>2. ASSUME NEW c \in ToSet(q) \ R PROVE c \in ToSet(d)
    <3>1. PICK k \in 1 .. Len(q) : c = q[k]
      BY <1>1 DEF ToSet
    <3>2. PICK i \in 1 .. n : a[i] = k
      BY <1>5, <1>7, <3>1
    <3>3. d[i] = c
      BY <1>3, <3>1, <3>2
    <3> QED BY <1>8, <3>3 DEF ToSet
  <2> QED BY <2>1, <2>2
<1>10. ASSUME NoDup(q) PROVE NoDup(d)
  <2> SUFFICES ASSUME NEW i \in 1 .. n, NEW j \in 1 .. n, d[i] = d[j]
               PROVE  i = j
    BY <1>8 DEF NoDup, IsInjective
  <2>1. a[i] \in 1 .. Len(q) /\ a[j] \in 1 .. Len(q) /\ q[a[i]] = q[a[j]]
    BY <1>3, <1>5, <1>6
  <2>2. a[i] = a[j]
    BY <1>1, <1>10, <2>1 DEF NoDup, IsInjective
  <2>3. a[i] \in Nat /\ i \in Nat /\ j \in Nat
    BY <1>4, <2>1
  <2> QED BY <1>5, <2>2, <2>3
<1> QED BY <1>8, <1>9, <1>10 DEF d

LEMMA ReverseFacts ==
    ASSUME NEW S, NEW q \in Seq(S)
    PROVE  /\ Reverse(q) \in Seq(S)
           /\ ToSet(Reverse(q)) = ToSet(q)
           /\ NoDup(q) => NoDup(Reverse(q))
<1> DEFINE n == Len(q)
           r == Reverse(q)
<1>1. n \in Nat /\ DOMAIN q = 1 .. n /\ \A i \in 1 .. n : q[i] \in S
  BY LenProperties, ElementOfSeq
<1>2. r = [i \in 1 .. n |-> q[(n - i) + 1]]
  BY DEF Reverse
<1> HIDE DEF n, r
<1>3. \A i \in 1 .. n : (n - i) + 1 \in 1 .. n
  BY <1>1
<1>4. r \in Seq(S) /\ DOMAIN r = 1 .. n
  <2>1. \A i \in 1 .. n : q[(n - i) + 1] \in S
    BY <1>1, <1>3
  <2> QED BY <1>1, <1>2, <2>1, IsASeq
<1>5. ToSet(r) = ToSet(q)
  <2>1. ASSUME NEW c \in ToSet(r) PROVE c \in ToSet(q)
    BY <1>1, <1>2, <1>3, <1>4 DEF ToSet
  <2>2. ASSUME NEW c \in ToSet(q) PROVE c \in ToSet(r)
    <3>1. PICK k \in 1 .. n : c = q[k]
      BY <1>1 DEF ToSet
    <3>2. (n - k) + 1 \in 1 .. n /\ (n - ((n - k) + 1)) + 1 = k
      BY <1>1
    <3>3. r[(n - k) + 1] = c
      BY <1>2, <3>1, <3>2
    <3> QED BY <1>4, <3>2, <3>3 DEF ToSet
  <2> QED BY <2>1, <2>2
<1>6. ASSUME NoDup(q) PROVE NoDup(r)
  <2> SUFFICES ASSUME NEW i \in 1 .. n, NEW j \in 1 .. n, r[i] = r[j]
               PROVE  i = j
    BY <1>4 DEF NoDup, IsInjective
  <2>1. (n - i) + 1 = (n - j) + 1
    BY <1>1, <1>2, <1>3, <1>6 DEF NoDup, IsInjective
  <2> QED BY <1>1, <2>1
<1> QED BY <1>4, <1>5, <1>6 DEF r

-----------------------------------------------------------------------------
(***************************************************************************)
(* Two queues in a row, and what a function says of their entries.         *)
(***************************************************************************)

\* The head of the second queue moves to the tail of the first.
LEMMA ShiftHead ==
    ASSUME NEW S, NEW p \in Seq(S), NEW q \in Seq(S), q # <<>>
    PROVE  AddTail(p, Head(q)) \o Tail(q) = p \o q
<1> DEFINE a == AddTail(p, Head(q))
           t == Tail(q)
<1>1. /\ Len(p) \in Nat /\ Len(q) \in Nat \ {0} /\ Head(q) = q[1]
      /\ t \in Seq(S) /\ Len(t) = Len(q) - 1
      /\ \A i \in 1 .. Len(t) : t[i] = q[i + 1]
  BY HeadTailProperties, LenProperties, EmptySeq
<1>2. Head(q) \in S
  BY <1>1, ElementOfSeq
<1>3. /\ a \in Seq(S) /\ Len(a) = Len(p) + 1 /\ a[Len(p) + 1] = q[1]
      /\ \A i \in 1 .. Len(p) : a[i] = p[i]
  BY <1>1, <1>2, AppendProperties DEF AddTail
<1> HIDE DEF a, t
<1>4. /\ a \o t \in Seq(S) /\ Len(a \o t) = Len(a) + Len(t)
      /\ \A i \in 1 .. Len(a) + Len(t) :
             (a \o t)[i] = IF i <= Len(a) THEN a[i] ELSE t[i - Len(a)]
  BY <1>1, <1>3, ConcatProperties
<1>5. /\ p \o q \in Seq(S) /\ Len(p \o q) = Len(p) + Len(q)
      /\ \A i \in 1 .. Len(p) + Len(q) :
             (p \o q)[i] = IF i <= Len(p) THEN p[i] ELSE q[i - Len(p)]
  BY ConcatProperties
<1>6. Len(a \o t) = Len(p \o q)
  BY <1>1, <1>3, <1>4, <1>5
<1>7. ASSUME NEW i \in 1 .. Len(p \o q) PROVE (a \o t)[i] = (p \o q)[i]
  <2>1. i \in 1 .. Len(p) + Len(q) /\ i \in 1 .. Len(a) + Len(t)
    BY <1>4, <1>5, <1>6
  <2>2. CASE i <= Len(p)
    BY <1>1, <1>3, <1>4, <1>5, <2>1, <2>2
  <2>3. CASE i = Len(p) + 1
    <3>1. (a \o t)[i] = q[1] /\ (p \o q)[i] = q[i - Len(p)] /\ i - Len(p) = 1
      BY <1>1, <1>3, <1>4, <1>5, <2>1, <2>3
    <3> QED BY <3>1
  <2>4. CASE i > Len(p) + 1
    <3>1. (a \o t)[i] = t[i - (Len(p) + 1)] /\ (p \o q)[i] = q[i - Len(p)]
      BY <1>1, <1>3, <1>4, <1>5, <2>1, <2>4
    <3>2. /\ i - (Len(p) + 1) \in 1 .. Len(t)
          /\ i - (Len(p) + 1) + 1 = i - Len(p)
      BY <1>1, <2>1, <2>4
    <3> QED BY <3>1, <3>2, <1>1
  <2> QED BY <1>1, <2>1, <2>2, <2>3, <2>4
<1> QED BY <1>4, <1>5, <1>6, <1>7, SeqEqual DEF a, t

\* An entry joins the tail of the second queue.
LEMMA JoinTail ==
    ASSUME NEW S, NEW p \in Seq(S), NEW q \in Seq(S), NEW c \in S
    PROVE  p \o AddTail(q, c) = AddTail(p \o q, c)
<1>1. <<c>> \in Seq(S)
  OBVIOUS
<1>2. p \o q \in Seq(S) /\ AddTail(q, c) = q \o <<c>>
  BY AppendIsConcat, ConcatProperties DEF AddTail
<1>3. AddTail(p \o q, c) = (p \o q) \o <<c>>
  BY <1>2, AppendIsConcat DEF AddTail
<1> QED BY <1>1, <1>2, <1>3, ConcatAssociative


\* removeQ of an entry of one of two queues takes it out of the row.
LEMMA JoinDel ==
    ASSUME NEW S, NEW p \in Seq(S), NEW q \in Seq(S),
           ToSet(p) \intersect ToSet(q) = {},
           NEW c \in ToSet(p) \union ToSet(q)
    PROVE  \E k \in 1 .. Len(p \o q) :
               (p \o q)[k] = c /\ Del(p, c) \o Del(q, c) = RemoveAt(p \o q, k)
<1> DEFINE s == p \o q
<1>1. /\ Len(p) \in Nat /\ DOMAIN p = 1 .. Len(p)
      /\ Len(q) \in Nat /\ DOMAIN q = 1 .. Len(q)
  BY LenProperties
<1>2. /\ s \in Seq(S) /\ Len(s) = Len(p) + Len(q)
      /\ \A i \in 1 .. Len(p) + Len(q) :
             s[i] = IF i <= Len(p) THEN p[i] ELSE q[i - Len(p)]
  BY ConcatProperties
<1> HIDE DEF s
<1>3. CASE c \in ToSet(p)
  <2>1. Del(q, c) = q
    BY <1>3 DEF Del, On
  <2>2. PICK k \in 1 .. Len(p) : p[k] = c /\ Del(p, c) = RemoveAt(p, k)
    BY <1>1, <1>3 DEF Del, On, ToSet
  <2>3. k \in 1 .. Len(s) /\ s[k] = c
    BY <1>1, <1>2, <2>2
  <2> DEFINE d == RemoveAt(p, k)
             e == d \o q
             r == RemoveAt(s, k)
  <2>4. /\ d \in Seq(S) /\ Len(d) = Len(p) - 1
        /\ \A i \in 1 .. Len(p) - 1 : d[i] = IF i < k THEN p[i] ELSE p[i + 1]
    BY RemoveAtFacts
  <2>5. /\ r \in Seq(S) /\ Len(r) = Len(s) - 1
        /\ \A i \in 1 .. Len(s) - 1 : r[i] = IF i < k THEN s[i] ELSE s[i + 1]
    BY <1>2, <2>3, RemoveAtFacts
  <2> HIDE DEF d, r
  <2>6. /\ e \in Seq(S) /\ Len(e) = Len(d) + Len(q)
        /\ \A i \in 1 .. Len(d) + Len(q) :
               e[i] = IF i <= Len(d) THEN d[i] ELSE q[i - Len(d)]
    BY <2>4, ConcatProperties
  <2> HIDE DEF e
  <2>7. Len(e) = Len(r)
    BY <1>1, <1>2, <2>4, <2>5, <2>6
  <2>8. ASSUME NEW i \in 1 .. Len(r) PROVE e[i] = r[i]
    <3>1. /\ i \in 1 .. Len(s) - 1 /\ i \in 1 .. Len(d) + Len(q)
          /\ i \in 1 .. Len(p) + Len(q) /\ i + 1 \in 1 .. Len(p) + Len(q)
      BY <1>1, <1>2, <2>4, <2>5
    <3>2. /\ e[i] = IF i <= Len(p) - 1 THEN d[i] ELSE q[i - (Len(p) - 1)]
          /\ r[i] = IF i < k THEN s[i] ELSE s[i + 1]
      BY <2>4, <2>5, <2>6, <3>1
    <3>3. CASE i < k
      <4>1. i <= Len(p) - 1 /\ i \in 1 .. Len(p) - 1 /\ i <= Len(p)
        BY <1>1, <3>1, <3>3
      <4> QED BY <1>2, <2>4, <3>1, <3>2, <3>3, <4>1
    <3>4. CASE ~ (i < k) /\ i <= Len(p) - 1
      <4>1. i \in 1 .. Len(p) - 1 /\ i + 1 <= Len(p)
        BY <1>1, <3>1, <3>4
      <4> QED BY <1>2, <2>4, <3>1, <3>2, <3>4, <4>1
    <3>5. CASE ~ (i <= Len(p) - 1)
      <4>1. ~ (i < k) /\ ~ (i + 1 <= Len(p)) /\ i + 1 - Len(p) = i - (Len(p) - 1)
        BY <1>1, <3>1, <3>5
      <4> QED BY <1>2, <3>1, <3>2, <3>5, <4>1
    <3> QED BY <3>3, <3>4, <3>5
  <2>9. e = r
    BY <2>5, <2>6, <2>7, <2>8, SeqEqual
  <2> QED BY <2>1, <2>2, <2>3, <2>9 DEF d, e, r, s
<1>4. CASE c \in ToSet(q)
  <2>1. Del(p, c) = p
    BY <1>4 DEF Del, On
  <2>2. PICK j \in 1 .. Len(q) : q[j] = c /\ Del(q, c) = RemoveAt(q, j)
    BY <1>1, <1>4 DEF Del, On, ToSet
  <2> DEFINE k == Len(p) + j
             d == RemoveAt(q, j)
             e == p \o d
             r == RemoveAt(s, k)
  <2>3. k \in 1 .. Len(s) /\ s[k] = c
    <3>1. k \in 1 .. Len(p) + Len(q) /\ ~ (k <= Len(p)) /\ k - Len(p) = j
      BY <1>1
    <3> QED BY <1>2, <2>2, <3>1
  <2>4. /\ d \in Seq(S) /\ Len(d) = Len(q) - 1
        /\ \A i \in 1 .. Len(q) - 1 : d[i] = IF i < j THEN q[i] ELSE q[i + 1]
    BY RemoveAtFacts
  <2>5. /\ r \in Seq(S) /\ Len(r) = Len(s) - 1
        /\ \A i \in 1 .. Len(s) - 1 : r[i] = IF i < k THEN s[i] ELSE s[i + 1]
    BY <1>2, <2>3, RemoveAtFacts
  <2> HIDE DEF d, r
  <2>6. /\ e \in Seq(S) /\ Len(e) = Len(p) + Len(d)
        /\ \A i \in 1 .. Len(p) + Len(d) :
               e[i] = IF i <= Len(p) THEN p[i] ELSE d[i - Len(p)]
    BY <2>4, ConcatProperties
  <2> HIDE DEF e
  <2>7. Len(e) = Len(r)
    BY <1>1, <1>2, <2>4, <2>5, <2>6
  <2>8. ASSUME NEW i \in 1 .. Len(r) PROVE e[i] = r[i]
    <3>1. /\ i \in 1 .. Len(s) - 1 /\ i \in 1 .. Len(p) + Len(d)
          /\ i \in 1 .. Len(p) + Len(q) /\ i + 1 \in 1 .. Len(p) + Len(q)
      BY <1>1, <1>2, <2>4, <2>5
    <3>2. /\ e[i] = IF i <= Len(p) THEN p[i] ELSE d[i - Len(p)]
          /\ r[i] = IF i < k THEN s[i] ELSE s[i + 1]
      BY <2>5, <2>6, <3>1
    <3>3. CASE i <= Len(p)
      <4>1. i < k
        BY <1>1, <3>1, <3>3
      <4> QED BY <1>2, <3>1, <3>2, <3>3, <4>1
    <3>4. CASE ~ (i <= Len(p))
      <4>1. /\ i - Len(p) \in 1 .. Len(q) - 1 /\ ~ (i + 1 <= Len(p))
            /\ (i < k) <=> (i - Len(p) < j) /\ i + 1 - Len(p) = i - Len(p) + 1
        BY <1>1, <1>2, <3>1, <3>4
      <4>2. d[i - Len(p)] = IF i < k THEN q[i - Len(p)] ELSE q[i + 1 - Len(p)]
        BY <2>4, <4>1
      <4> QED BY <1>2, <3>1, <3>2, <3>4, <4>1, <4>2
    <3> QED BY <3>3, <3>4
  <2>9. e = r
    BY <2>5, <2>6, <2>7, <2>8, SeqEqual
  <2> QED BY <2>1, <2>2, <2>3, <2>9 DEF d, e, r, s
<1> QED BY <1>3, <1>4

\* What f says of the members of S.
Values(f, S) == {f[c] : c \in S}

\* The image has the length of the queue, and its entries in their order.
LEMMA ImageFacts ==
    ASSUME NEW S, NEW q \in Seq(S), NEW f
    PROVE  /\ Image(f, q) \in Seq(Values(f, S)) /\ Len(Image(f, q)) = Len(q)
           /\ \A i \in 1 .. Len(q) : Image(f, q)[i] = f[q[i]]
<1> DEFINE T == Values(f, S)
<1>1. Len(q) \in Nat /\ DOMAIN q = 1 .. Len(q)
  BY LenProperties
<1>2. \A i \in 1 .. Len(q) : f[q[i]] \in T
  BY ElementOfSeq DEF Values
<1> HIDE DEF T
<1>3. Image(f, q) \in Seq(T)
  BY <1>1, <1>2, IsASeq DEF Image
<1>4. DOMAIN Image(f, q) = 1 .. Len(q)
  BY DEF Image
<1>5. Len(Image(f, q)) = Len(q)
  BY <1>1, <1>3, <1>4, LenProperties
<1> QED BY <1>3, <1>5 DEF Image, T

\* The image depends on what f says of the entries only.
LEMMA ImageSame ==
    ASSUME NEW S, NEW q \in Seq(S), NEW f, NEW g, \A c \in ToSet(q) : f[c] = g[c]
    PROVE  Image(f, q) = Image(g, q)
<1>1. \A i \in 1 .. Len(q) : f[q[i]] = g[q[i]]
  BY LenProperties DEF ToSet
<1> QED BY <1>1 DEF Image

LEMMA ImageTail ==
    ASSUME NEW S, NEW q \in Seq(S), NEW c \in S,
           NEW f
    PROVE  Image(f, AddTail(q, c)) = AddTail(Image(f, q), f[c])
<1>0. PICK T : T = Values(f, S)
  OBVIOUS
<1> DEFINE a == AddTail(q, c)
           m == Image(f, q)
           l == Image(f, a)
           r == AddTail(m, f[c])
<1>1. /\ a \in Seq(S) /\ Len(a) = Len(q) + 1 /\ a[Len(q) + 1] = c
      /\ \A i \in 1 .. Len(q) : a[i] = q[i]
  BY AppendProperties DEF AddTail
<1>2. /\ m \in Seq(T) /\ Len(m) = Len(q)
      /\ \A i \in 1 .. Len(q) : m[i] = f[q[i]]
  BY <1>0, ImageFacts
<1>3. Len(q) \in Nat /\ f[c] \in T
  BY <1>0, LenProperties DEF Values
<1> HIDE DEF a, m
<1>4. /\ l \in Seq(T) /\ Len(l) = Len(a)
      /\ \A i \in 1 .. Len(a) : l[i] = f[a[i]]
  BY <1>0, <1>1, ImageFacts
<1>5. /\ r \in Seq(T) /\ Len(r) = Len(m) + 1 /\ r[Len(m) + 1] = f[c]
      /\ \A i \in 1 .. Len(m) : r[i] = m[i]
  BY <1>2, <1>3, AppendProperties DEF AddTail
<1> HIDE DEF l, r
<1>6. ASSUME NEW i \in 1 .. Len(r) PROVE l[i] = r[i]
  <2>1. i \in 1 .. Len(q) \/ i = Len(q) + 1
    BY <1>2, <1>3, <1>5
  <2>2. i \in 1 .. Len(a)
    BY <1>1, <1>2, <1>5
  <2> QED BY <1>1, <1>2, <1>4, <1>5, <2>1, <2>2
<1>7. l = r
  BY <1>1, <1>2, <1>4, <1>5, <1>6, SeqEqual
<1> QED BY <1>7 DEF a, m, l, r

\* The image of a part is the part of the image.
LEMMA ImagePart ==
    ASSUME NEW S, NEW q \in Seq(S), NEW f,
           NEW a \in 1 .. Len(q) + 1, NEW b \in 0 .. Len(q)
    PROVE  Image(f, SubSeq(q, a, b)) = SubSeq(Image(f, q), a, b)
<1>0. PICK T : T = Values(f, S)
  OBVIOUS
<1> DEFINE p == SubSeq(q, a, b)
           m == Image(f, q)
           l == Image(f, p)
           r == SubSeq(m, a, b)
<1>1. Len(q) \in Nat /\ DOMAIN q = 1 .. Len(q) /\ a \in Nat /\ b \in Nat
  BY LenProperties
<1>2. \A i \in a .. b : i \in 1 .. Len(q)
  BY <1>1
<1>3. \A i \in 1 .. Len(q) : q[i] \in S /\ f[q[i]] \in T
  BY <1>0, <1>1, ElementOfSeq DEF Values
<1>4. /\ p \in Seq(S) /\ Len(p) = IF a <= b THEN b - a + 1 ELSE 0
      /\ \A i \in 1 .. b - a + 1 : p[i] = q[a + i - 1]
  BY <1>1, <1>2, <1>3, SubSeqProperties
<1>5. /\ m \in Seq(T) /\ Len(m) = Len(q)
      /\ \A i \in 1 .. Len(q) : m[i] = f[q[i]]
  BY <1>0, ImageFacts
<1>6. \A i \in 1 .. Len(q) : m[i] \in T
  BY <1>3, <1>5
<1> HIDE DEF p, m
<1>7. /\ r \in Seq(T) /\ Len(r) = IF a <= b THEN b - a + 1 ELSE 0
      /\ \A i \in 1 .. b - a + 1 : r[i] = m[a + i - 1]
  BY <1>1, <1>2, <1>6, SubSeqProperties
<1>8. \A i \in 1 .. Len(p) : i \in 1 .. b - a + 1 /\ a + i - 1 \in a .. b
  BY <1>1, <1>4
<1>9. /\ l \in Seq(T) /\ Len(l) = Len(p)
       /\ \A i \in 1 .. Len(p) : l[i] = f[p[i]]
  BY <1>0, <1>4, ImageFacts
<1> HIDE DEF l, r
<1>10. ASSUME NEW i \in 1 .. Len(r) PROVE l[i] = r[i]
  <2>1. i \in 1 .. Len(p) /\ i \in 1 .. b - a + 1 /\ a + i - 1 \in 1 .. Len(q)
    BY <1>2, <1>4, <1>7, <1>8
  <2> QED BY <1>4, <1>5, <1>7, <1>9, <2>1
<1>11. l = r
  BY <1>4, <1>7, <1>9, <1>10, SeqEqual
<1> QED BY <1>11 DEF p, m, l, r

LEMMA ImageRemove ==
    ASSUME NEW S, NEW q \in Seq(S), NEW f,
           NEW k \in 1 .. Len(q)
    PROVE  Image(f, RemoveAt(q, k)) = RemoveAt(Image(f, q), k)
<1>0. PICK T : T = Values(f, S)
  OBVIOUS
<1> DEFINE p == RemoveAt(q, k)
           m == Image(f, q)
           l == Image(f, p)
           r == RemoveAt(m, k)
<1>1. Len(q) \in Nat /\ DOMAIN q = 1 .. Len(q)
  BY LenProperties
<1>2. /\ p \in Seq(S) /\ Len(p) = Len(q) - 1 /\ DOMAIN p = 1 .. Len(q) - 1
      /\ \A i \in 1 .. Len(q) - 1 : p[i] = IF i < k THEN q[i] ELSE q[i + 1]
  BY RemoveAtFacts
<1>3. /\ m \in Seq(T) /\ Len(m) = Len(q)
      /\ \A i \in 1 .. Len(q) : m[i] = f[q[i]]
  BY <1>0, ImageFacts
<1> HIDE DEF p, m
<1>4. /\ r \in Seq(T) /\ Len(r) = Len(q) - 1
      /\ \A i \in 1 .. Len(q) - 1 : r[i] = IF i < k THEN m[i] ELSE m[i + 1]
  BY <1>3, RemoveAtFacts
<1>5. \A i \in 1 .. Len(q) - 1 : i \in 1 .. Len(q) /\ i + 1 \in 1 .. Len(q)
  BY <1>1
<1>6. /\ l \in Seq(T) /\ Len(l) = Len(p)
      /\ \A i \in 1 .. Len(p) : l[i] = f[p[i]]
  <2>1. p \in Seq(S)
    BY <1>2
  <2> QED BY <1>0, <2>1, ImageFacts
<1> HIDE DEF l, r
<1>7. ASSUME NEW i \in 1 .. Len(r) PROVE l[i] = r[i]
  <2>1. i \in 1 .. Len(q) - 1 /\ i \in 1 .. Len(q) /\ i + 1 \in 1 .. Len(q)
    BY <1>4, <1>5
  <2>2. l[i] = f[p[i]] /\ r[i] = IF i < k THEN m[i] ELSE m[i + 1]
    BY <1>2, <1>4, <1>6, <2>1
  <2>3. m[i] = f[q[i]] /\ m[i + 1] = f[q[i + 1]]
    BY <1>3, <2>1
  <2> QED BY <1>2, <2>1, <2>2, <2>3
<1>8. l = r
  BY <1>2, <1>4, <1>6, <1>7, SeqEqual
<1> QED BY <1>8 DEF p, m, l, r

\* The entries of the image are what f says of the entries.
LEMMA ImageSet ==
    ASSUME NEW S, NEW q \in Seq(S), NEW f, NEW z
    PROVE  z \in ToSet(Image(f, q)) <=> \E c \in ToSet(q) : f[c] = z
<1>1. DOMAIN q = 1 .. Len(q) /\ DOMAIN Image(f, q) = 1 .. Len(q)
  BY LenProperties DEF Image
<1>2. \A i \in 1 .. Len(q) : Image(f, q)[i] = f[q[i]]
  BY DEF Image
<1> QED BY <1>1, <1>2 DEF ToSet

\* Entries leave from the head of the first of two queues.
LEMMA DropFromJoin ==
    ASSUME NEW S, NEW p \in Seq(S), NEW q \in Seq(S), NEW n \in 1 .. Len(p)
    PROVE  SubSeq(p \o q, n + 1, Len(p \o q)) = SubSeq(p, n + 1, Len(p)) \o q
<1> DEFINE s == p \o q
           r == SubSeq(s, n + 1, Len(s))
           d == SubSeq(p, n + 1, Len(p))
           e == d \o q
<1>1. Len(p) \in Nat /\ Len(q) \in Nat /\ n \in Nat /\ n \in 0 .. Len(p)
  BY LenProperties
<1>2. /\ s \in Seq(S) /\ Len(s) = Len(p) + Len(q)
      /\ \A i \in 1 .. Len(p) + Len(q) :
             s[i] = IF i <= Len(p) THEN p[i] ELSE q[i - Len(p)]
  BY ConcatProperties
<1>3. /\ d \in Seq(S) /\ Len(d) = Len(p) - n
      /\ \A i \in 1 .. Len(p) - n : d[i] = p[n + i]
  BY <1>1, RestProperties
<1> HIDE DEF s, d
<1>4. /\ r \in Seq(S) /\ Len(r) = Len(s) - n
      /\ \A i \in 1 .. Len(s) - n : r[i] = s[n + i]
  <2>1. n \in 0 .. Len(s)
    BY <1>1, <1>2
  <2> QED BY <1>2, <2>1, RestProperties
<1>5. /\ e \in Seq(S) /\ Len(e) = Len(d) + Len(q)
      /\ \A i \in 1 .. Len(d) + Len(q) :
             e[i] = IF i <= Len(d) THEN d[i] ELSE q[i - Len(d)]
  BY <1>3, ConcatProperties
<1> HIDE DEF r, e
<1>6. Len(r) = Len(e)
  BY <1>1, <1>2, <1>3, <1>4, <1>5
<1>7. ASSUME NEW i \in 1 .. Len(e) PROVE r[i] = e[i]
  <2>1. /\ i \in 1 .. Len(s) - n /\ i \in 1 .. Len(d) + Len(q)
        /\ n + i \in 1 .. Len(p) + Len(q)
    BY <1>1, <1>2, <1>3, <1>5
  <2>2. /\ r[i] = IF n + i <= Len(p) THEN p[n + i] ELSE q[n + i - Len(p)]
        /\ e[i] = IF i <= Len(p) - n THEN d[i] ELSE q[i - (Len(p) - n)]
    BY <1>2, <1>3, <1>4, <1>5, <2>1
  <2>3. /\ n + i <= Len(p) <=> i <= Len(p) - n
        /\ n + i - Len(p) = i - (Len(p) - n)
        /\ i <= Len(p) - n => i \in 1 .. Len(p) - n
    BY <1>1, <2>1
  <2> QED BY <1>3, <2>2, <2>3
<1>8. r = e
  BY <1>4, <1>5, <1>6, <1>7, SeqEqual
<1> QED BY <1>8 DEF s, r, d, e

=============================================================================
