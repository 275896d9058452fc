---------------------------- MODULE QueueLemmas ----------------------------
(* Numbers, and queues without duplicates: sequences that are injective     *)
(* functions.                                                               *)
EXTENDS Sublist, FiniteSetTheorems, TLAPS

\* Induction over the natural numbers, for a set.
LEMMA SetInduction ==
  ASSUME NEW S, 0 \in S, \A n \in Nat : n \in S => n + 1 \in S
  PROVE  Nat \subseteq S
  <1> DEFINE T == Nat \ S
  <1>1. SUFFICES ASSUME T # {} PROVE FALSE
    OBVIOUS
  <1>2. PICK x \in T : \A y \in T : ~(<<y, x>> \in OpToRel(<, Nat))
    BY <1>1, WFMin, NatLessThanWellFounded
  <1>3. x \in Nat \ {0} /\ x - 1 \in Nat /\ x - 1 \notin S
    OBVIOUS
  <1>4. <<x - 1, x>> \in OpToRel(<, Nat)
    BY <1>3 DEF OpToRel
  <1>. QED BY <1>2, <1>3, <1>4

\* A number below the modulus is its own remainder.
LEMMA ModSmall == \A w \in Nat \ {0} : \A x \in 0..(w - 1) : x % w = x
  OBVIOUS

\* The elements of two sequences in a row.
LEMMA ConcatElements ==
  ASSUME NEW S, NEW s \in Seq(S), NEW t \in Seq(S)
  PROVE  /\ s \o t \in Seq(S)
         /\ Len(s \o t) = Len(s) + Len(t)
         /\ \A i \in 1..(Len(s) + Len(t)) :
              (s \o t)[i] = IF i <= Len(s) THEN s[i] ELSE t[i - Len(s)]
  OBVIOUS

\* Appending a new element keeps a queue duplicate-free.
LEMMA AppendOnce ==
  ASSUME NEW S, NEW q \in Seq(S), NEW e \in S, IsInjective(q), e \notin Range(q)
  PROVE  /\ IsInjective(Append(q, e))
         /\ Range(Append(q, e)) = Range(q) \cup {e}
  <1>1. /\ Len(Append(q, e)) = Len(q) + 1
        /\ \A i \in 1..Len(q) : Append(q, e)[i] = q[i]
        /\ Append(q, e)[Len(q) + 1] = e
        /\ DOMAIN Append(q, e) = 1..(Len(q) + 1)
        /\ DOMAIN q = 1..Len(q)
        /\ Len(q) \in Nat
    OBVIOUS
  <1>2. IsInjective(Append(q, e))
    BY <1>1 DEF IsInjective, Range
  <1>3. Range(Append(q, e)) = Range(q) \cup {e}
    BY <1>1 DEF Range
  <1>. QED BY <1>2, <1>3

\* Popping the head of a duplicate-free queue removes it from the queue.
LEMMA PopOnce ==
  ASSUME NEW S, NEW q \in Seq(S), q # <<>>, IsInjective(q)
  PROVE  /\ Head(q) \in S
         /\ Head(q) \in Range(q)
         /\ Tail(q) \in Seq(S)
         /\ IsInjective(Tail(q))
         /\ Range(Tail(q)) = Range(q) \ {Head(q)}
  <1>1. /\ Len(q) \in Nat \ {0}
        /\ Head(q) = q[1]
        /\ Head(q) \in S
        /\ Tail(q) \in Seq(S)
        /\ DOMAIN q = 1..Len(q)
        /\ DOMAIN Tail(q) = 1..(Len(q) - 1)
        /\ \A i \in 1..(Len(q) - 1) : Tail(q)[i] = q[i + 1]
    OBVIOUS
  <1>2. IsInjective(Tail(q))
    BY <1>1 DEF IsInjective
  <1>3. Head(q) \in Range(q)
    BY <1>1 DEF Range
  <1>4. ASSUME NEW x \in Range(Tail(q)) PROVE x \in Range(q) \ {Head(q)}
    <2>1. PICK i \in 1..(Len(q) - 1) : x = q[i + 1]
      BY <1>1, <1>4 DEF Range
    <2>2. i + 1 \in DOMAIN q /\ 1 \in DOMAIN q /\ i + 1 # 1
      BY <1>1
    <2>. QED BY <1>1, <2>1, <2>2 DEF Range, IsInjective
  <1>5. ASSUME NEW x \in Range(q), x # Head(q) PROVE x \in Range(Tail(q))
    <2>1. PICK i \in 1..Len(q) : x = q[i]
      BY <1>1, <1>5 DEF Range
    <2>2. i # 1 BY <1>1, <1>5, <2>1
    <2>3. i - 1 \in DOMAIN Tail(q) /\ Tail(q)[i - 1] = q[i]
      BY <1>1, <2>2
    <2>. QED BY <2>1, <2>3, Zenon DEF Range
  <1>. QED BY <1>1, <1>2, <1>3, <1>4, <1>5

\* Cutting such a sequence cuts its elements in two; the first part has as many
\* as it is long.
LEMMA SplitOnce ==
  ASSUME NEW S, NEW q \in Seq(S), IsInjective(q), NEW m \in 0..Len(q)
  PROVE  /\ SubSeq(q, m + 1, Len(q)) \in Seq(S)
         /\ Len(SubSeq(q, m + 1, Len(q))) = Len(q) - m
         /\ IsInjective(SubSeq(q, m + 1, Len(q)))
         /\ Range(SubSeq(q, 1, m)) \subseteq Range(q)
         /\ Range(SubSeq(q, m + 1, Len(q))) = Range(q) \ Range(SubSeq(q, 1, m))
         /\ IsFiniteSet(Range(SubSeq(q, 1, m)))
         /\ Cardinality(Range(SubSeq(q, 1, m))) = m
  <1> DEFINE f == SubSeq(q, 1, m)
             g == SubSeq(q, m + 1, Len(q))
  <1>1. /\ Len(q) \in Nat /\ DOMAIN q = 1..Len(q)
        /\ f \in Seq(S) /\ DOMAIN f = 1..m /\ \A i \in 1..m : f[i] = q[i]
        /\ g \in Seq(S) /\ Len(g) = Len(q) - m /\ DOMAIN g = 1..(Len(q) - m)
        /\ \A i \in 1..(Len(q) - m) : g[i] = q[m + i]
    OBVIOUS
  <1> HIDE DEF f, g
  <1>2. IsInjective(g)
    <2>1. SUFFICES ASSUME NEW a \in 1..(Len(q) - m), NEW b \in 1..(Len(q) - m), g[a] = g[b]
                   PROVE  a = b
      BY <1>1 DEF IsInjective
    <2>2. m + a \in DOMAIN q /\ m + b \in DOMAIN q /\ q[m + a] = q[m + b]
      BY <1>1, <2>1
    <2>3. m + a = m + b
      BY <2>2 DEF IsInjective
    <2>. QED BY <1>1, <2>3
  <1>3. Range(f) \subseteq Range(q)
    BY <1>1 DEF Range
  <1>4. ASSUME NEW x \in Range(g) PROVE x \in Range(q) \ Range(f)
    <2>1. PICK i \in 1..(Len(q) - m) : x = q[m + i]
      BY <1>1, Zenon DEF Range
    <2>2. m + i \in DOMAIN q /\ \A j \in 1..m : j \in DOMAIN q /\ j # m + i
      BY <1>1
    <2>. QED BY <1>1, <2>1, <2>2, ZenonT(60) DEF Range, IsInjective
  <1>5. ASSUME NEW x \in Range(q), x \notin Range(f) PROVE x \in Range(g)
    <2>1. PICK i \in 1..Len(q) : x = q[i]
      BY <1>1 DEF Range
    <2>2. i \notin 1..m
      BY <1>1, <1>5, <2>1, SMTT(60) DEF Range
    <2>3. i - m \in 1..(Len(q) - m) /\ g[i - m] = q[i]
      BY <1>1, <2>2
    <2>. QED BY <1>1, <2>1, <2>3, SMTT(60) DEF Range
  <1>6. f \in Bijection(1..m, Range(f))
    <2>1. f \in [1..m -> Range(f)]
      BY <1>1 DEF Range
    <2>2. IsInjective(f)
      BY <1>1 DEF IsInjective
    <2>3. \A t \in Range(f) : \E s \in 1..m : f[s] = t
      BY <1>1 DEF Range
    <2>. QED BY <2>1, <2>2, <2>3 DEF Bijection, Injection, Surjection, IsInjective
  <1>7. IsFiniteSet(1..m) /\ Cardinality(1..m) = m
    BY FS_Interval
  <1>8. ExistsBijection(1..m, Range(f))
    BY <1>6 DEF ExistsBijection
  <1>9. IsFiniteSet(Range(f)) /\ Cardinality(Range(f)) = m
    BY <1>7, <1>8, FS_Bijection
  <1>. QED BY <1>1, <1>2, <1>3, <1>4, <1>5, <1>9, Zenon DEF f, g

\* Such a sequence has as many elements as it is long.
LEMMA CardOnce ==
  ASSUME NEW S, NEW q \in Seq(S), IsInjective(q)
  PROVE  /\ Range(q) \subseteq S
         /\ IsFiniteSet(Range(q))
         /\ Cardinality(Range(q)) = Len(q)
  <1>1. Len(q) \in 0..Len(q)
    OBVIOUS
  <1>2. SubSeq(q, 1, Len(q)) = q
    OBVIOUS
  <1>3. Range(q) \subseteq S
    BY DEF Range
  <1>4. \A m \in 0..Len(q) : /\ IsFiniteSet(Range(SubSeq(q, 1, m)))
                            /\ Cardinality(Range(SubSeq(q, 1, m))) = m
    BY SplitOnce
  <1>. QED BY <1>1, <1>2, <1>3, <1>4, Zenon

\* A sequence without its element in place k.
Cut(q, k) == SubSeq(q, 1, k - 1) \o SubSeq(q, k + 1, Len(q))

\* Removing the element in place k of such a sequence removes it from its elements.
LEMMA CutOnce ==
  ASSUME NEW S, NEW q \in Seq(S), IsInjective(q), NEW k \in 1..Len(q)
  PROVE  /\ Cut(q, k) \in Seq(S)
         /\ IsInjective(Cut(q, k))
         /\ Range(Cut(q, k)) = Range(q) \ {q[k]}
         /\ Len(Cut(q, k)) = Len(q) - 1
  <1> DEFINE r == Cut(q, k)
  <1>1. /\ Len(q) \in Nat /\ DOMAIN q = 1..Len(q)
        /\ r \in Seq(S) /\ DOMAIN r = 1..(Len(q) - 1) /\ Len(r) = Len(q) - 1
        /\ \A i \in 1..(Len(q) - 1) : r[i] = IF i < k THEN q[i] ELSE q[i + 1]
    <2> DEFINE f == SubSeq(q, 1, k - 1)
               g == SubSeq(q, k + 1, Len(q))
    <2>1. /\ Len(q) \in Nat /\ DOMAIN q = 1..Len(q)
          /\ f \in Seq(S) /\ Len(f) = k - 1 /\ \A i \in 1..(k - 1) : f[i] = q[i]
          /\ g \in Seq(S) /\ Len(g) = Len(q) - k
          /\ \A i \in 1..(Len(q) - k) : g[i] = q[k + i]
      OBVIOUS
    <2> HIDE DEF f, g
    <2>a. Len(f) + Len(g) = Len(q) - 1 /\ k \in Nat
      BY <2>1
    <2>b. /\ f \o g \in Seq(S) /\ Len(f \o g) = Len(f) + Len(g)
          /\ \A i \in 1..(Len(f) + Len(g)) :
               (f \o g)[i] = IF i <= Len(f) THEN f[i] ELSE g[i - Len(f)]
      BY <2>1, ConcatElements, Zenon
    <2>c. DOMAIN (f \o g) = 1..Len(f \o g)
      BY <2>b
    <2>d. \A i \in 1..(Len(q) - 1) : (i <= Len(f)) <=> (i < k)
      BY <2>1
    <2>2. /\ f \o g \in Seq(S) /\ Len(f \o g) = Len(q) - 1
          /\ DOMAIN (f \o g) = 1..(Len(q) - 1)
          /\ \A i \in 1..(Len(q) - 1) :
               (f \o g)[i] = IF i < k THEN f[i] ELSE g[i - (k - 1)]
      BY <2>1, <2>a, <2>b, <2>c, <2>d, SMTT(60)
    <2>3. \A i \in 1..(Len(q) - 1) : ~(i < k) => i - (k - 1) \in 1..(Len(q) - k)
                                                /\ k + (i - (k - 1)) = i + 1
      BY <2>1
    <2>4. r = f \o g
      BY DEF Cut, f, g
    <2>5. \A i \in 1..(Len(q) - 1) : i < k => i \in 1..(k - 1)
      BY <2>1
    <2> HIDE DEF r
    <2>. QED BY <2>1, <2>2, <2>3, <2>4, <2>5, Zenon
  <1> HIDE DEF r
  <1>2. IsInjective(r)
    <2> DEFINE j(i) == IF i < k THEN i ELSE i + 1
    <2>1. SUFFICES ASSUME NEW a \in 1..(Len(q) - 1), NEW b \in 1..(Len(q) - 1), r[a] = r[b]
                   PROVE  a = b
      BY <1>1 DEF IsInjective
    <2>2. j(a) \in DOMAIN q /\ j(b) \in DOMAIN q /\ q[j(a)] = q[j(b)]
      BY <1>1, <2>1
    <2>3. j(a) = j(b)
      BY <2>2 DEF IsInjective
    <2>. QED BY <1>1, <2>3
  <1>3. Range(r) = Range(q) \ {q[k]}
    <2>1. ASSUME NEW x \in Range(r) PROVE x \in Range(q) \ {q[k]}
      <3>1. PICK i \in 1..(Len(q) - 1) : x = r[i]
        BY <1>1 DEF Range
      <3>2. \E j \in 1..Len(q) : j # k /\ x = q[j]
        BY <1>1, <3>1
      <3>. QED BY <1>1, <3>2, Zenon DEF Range, IsInjective
    <2>2. ASSUME NEW x \in Range(q), x # q[k] PROVE x \in Range(r)
      <3>1. PICK j \in 1..Len(q) : x = q[j]
        BY <1>1 DEF Range
      <3>2. CASE j < k
        <4>1. j \in 1..(Len(q) - 1) /\ r[j] = x
          BY <1>1, <3>1, <3>2
        <4>. QED BY <1>1, <4>1 DEF Range
      <3>3. CASE j > k
        <4>1. j - 1 \in 1..(Len(q) - 1) /\ r[j - 1] = x
          BY <1>1, <3>1, <3>3
        <4>. QED BY <1>1, <4>1, SMTT(60) DEF Range
      <3>4. j # k
        BY <2>2, <3>1
      <3>. QED BY <1>1, <3>2, <3>3, <3>4
    <2>. QED BY <2>1, <2>2
  <1>. QED BY <1>1, <1>2, <1>3 DEF r

\* Unlinking an element of such a sequence removes it from its elements.
LEMMA UnlinkOnce ==
  ASSUME NEW S, NEW q \in Seq(S), IsInjective(q), NEW e \in Range(q)
  PROVE  /\ Unlink(q, e) \in Seq(S)
         /\ IsInjective(Unlink(q, e))
         /\ Range(Unlink(q, e)) = Range(q) \ {e}
         /\ Len(Unlink(q, e)) = Len(q) - 1
         /\ q # <<>>
  <1>1. PICK k \in 1..Len(q) : q[k] = e
    BY DEF Range
  <1>2. \A j \in DOMAIN q : q[j] = e => j = k
    BY <1>1 DEF IsInjective
  <1>3. (CHOOSE i \in DOMAIN q : q[i] = e /\ \A j \in 1..(i - 1) : q[j] # e) = k
    BY <1>1, <1>2
  <1>4. Unlink(q, e) = Cut(q, k)
    BY <1>3, Zenon DEF Unlink, Cut
  <1>5. /\ Cut(q, k) \in Seq(S) /\ IsInjective(Cut(q, k))
        /\ Range(Cut(q, k)) = Range(q) \ {q[k]} /\ Len(Cut(q, k)) = Len(q) - 1
    BY CutOnce
  <1>6. q # <<>>
    BY <1>1
  <1>. QED BY <1>1, <1>4, <1>5, <1>6, Zenon

\* A sequence with one new element in place k, and else in the order of q.
LEMMA ExtendOnce ==
  ASSUME NEW S, NEW q \in Seq(S), NEW e \in S, IsInjective(q), e \notin Range(q),
         NEW r \in Seq(S), Len(r) = Len(q) + 1, NEW k \in 1..(Len(q) + 1),
         r[k] = e,
         \A i \in 1..Len(q) : r[IF i < k THEN i ELSE i + 1] = q[i]
  PROVE  IsInjective(r) /\ Range(r) = Range(q) \cup {e}
  <1>1. Len(q) \in Nat /\ DOMAIN q = 1..Len(q) /\ DOMAIN r = 1..(Len(q) + 1)
    OBVIOUS
  <1>2. ASSUME NEW i \in 1..(Len(q) + 1), i # k
        PROVE  \E j \in 1..Len(q) : r[i] = q[j] /\ i = IF j < k THEN j ELSE j + 1
    <2>1. CASE i < k
      <3>1. i \in 1..Len(q)
        BY <1>1, <2>1
      <3>. QED BY <2>1, <3>1
    <2>2. CASE i > k
      <3>1. i - 1 \in 1..Len(q) /\ ~(i - 1 < k) /\ (i - 1) + 1 = i
        BY <1>1, <2>2
      <3>. QED BY <3>1, Zenon
    <2>. QED BY <1>1, <1>2, <2>1, <2>2
  <1>3. ASSUME NEW j \in 1..Len(q)
        PROVE  /\ q[j] # e
               /\ \E i \in 1..(Len(q) + 1) : r[i] = q[j]
    <2>1. (IF j < k THEN j ELSE j + 1) \in 1..(Len(q) + 1)
      BY <1>1
    <2>2. q[j] # e
      BY <1>1 DEF Range
    <2>. QED BY <2>1, <2>2
  <1>4. IsInjective(r)
    <2>1. SUFFICES ASSUME NEW a \in 1..(Len(q) + 1), NEW b \in 1..(Len(q) + 1), r[a] = r[b]
                   PROVE  a = b
      BY <1>1 DEF IsInjective
    <2>2. CASE a = k \/ b = k
      BY <1>2, <1>3, <2>1, <2>2
    <2>3. CASE a # k /\ b # k
      <3>1. PICK i \in 1..Len(q) : r[a] = q[i] /\ a = IF i < k THEN i ELSE i + 1
        BY <1>2, <2>3
      <3>2. PICK j \in 1..Len(q) : r[b] = q[j] /\ b = IF j < k THEN j ELSE j + 1
        BY <1>2, <2>3
      <3>3. i = j
        BY <1>1, <2>1, <3>1, <3>2, Zenon DEF IsInjective
      <3>. QED BY <3>1, <3>2, <3>3
    <2>. QED BY <2>2, <2>3
  <1>5. Range(r) = Range(q) \cup {e}
    <2>1. ASSUME NEW x \in Range(r) PROVE x \in Range(q) \cup {e}
      <3>1. PICK i \in 1..(Len(q) + 1) : x = r[i]
        BY <1>1 DEF Range
      <3>2. CASE i = k
        BY <3>1, <3>2
      <3>3. CASE i # k
        <4>1. PICK j \in 1..Len(q) : r[i] = q[j]
          BY <1>2, <3>3
        <4>. QED BY <1>1, <3>1, <4>1 DEF Range
      <3>. QED BY <3>2, <3>3
    <2>2. e \in Range(r)
      BY <1>1 DEF Range
    <2>3. ASSUME NEW x \in Range(q) PROVE x \in Range(r)
      <3>1. PICK j \in 1..Len(q) : x = q[j]
        BY <1>1 DEF Range
      <3>2. PICK i \in 1..(Len(q) + 1) : r[i] = q[j]
        BY <1>3
      <3>. QED BY <1>1, <3>1, <3>2 DEF Range
    <2>. QED BY <2>1, <2>2, <2>3
  <1>. QED BY <1>4, <1>5

\* Pushing a new element in front keeps a queue duplicate-free.
LEMMA PushOnce ==
  ASSUME NEW S, NEW q \in Seq(S), NEW e \in S, IsInjective(q), e \notin Range(q)
  PROVE  /\ <<e>> \o q \in Seq(S)
         /\ Len(<<e>> \o q) = Len(q) + 1
         /\ IsInjective(<<e>> \o q)
         /\ Range(<<e>> \o q) = Range(q) \cup {e}
  <1> DEFINE r == <<e>> \o q
  <1>1. /\ r \in Seq(S) /\ Len(r) = Len(q) + 1 /\ Len(q) \in Nat
        /\ r[1] = e /\ \A i \in 1..Len(q) : r[i + 1] = q[i]
    OBVIOUS
  <1> HIDE DEF r
  <1>2. 1 \in 1..(Len(q) + 1) /\ \A i \in 1..Len(q) : r[IF i < 1 THEN i ELSE i + 1] = q[i]
    BY <1>1
  <1>3. IsInjective(r) /\ Range(r) = Range(q) \cup {e}
    BY <1>1, <1>2, ExtendOnce
  <1>. QED BY <1>1, <1>3 DEF r

\* As does inserting it after the first element.
LEMMA InsertOnce ==
  ASSUME NEW S, NEW q \in Seq(S), q # <<>>, NEW e \in S, IsInjective(q), e \notin Range(q)
  PROVE  /\ <<Head(q), e>> \o Tail(q) \in Seq(S)
         /\ IsInjective(<<Head(q), e>> \o Tail(q))
         /\ Range(<<Head(q), e>> \o Tail(q)) = Range(q) \cup {e}
  <1> DEFINE h == <<Head(q), e>>
             g == Tail(q)
             r == h \o g
  <1>1. Len(q) \in Nat \ {0}
    OBVIOUS
  <1>2. h \in Seq(S) /\ Len(h) = 2 /\ h[1] = q[1] /\ h[2] = e
    BY <1>1
  <1>3. g \in Seq(S) /\ Len(g) = Len(q) - 1 /\ \A i \in 1..(Len(q) - 1) : g[i] = q[i + 1]
    BY <1>1
  <1> HIDE DEF h, g
  <1>4. /\ r \in Seq(S) /\ Len(r) = Len(q) + 1
        /\ r[1] = q[1] /\ r[2] = e /\ \A i \in 3..(Len(q) + 1) : r[i] = g[i - 2]
    <2>1. /\ r \in Seq(S) /\ Len(r) = Len(h) + Len(g)
          /\ \A i \in 1..(Len(h) + Len(g)) : r[i] = IF i <= Len(h) THEN h[i] ELSE g[i - Len(h)]
      BY <1>2, <1>3, ConcatElements, Zenon
    <2> HIDE DEF r
    <2>. QED BY <1>1, <1>2, <1>3, <2>1
  <1> HIDE DEF r
  <1>5. 2 \in 1..(Len(q) + 1) /\ \A i \in 1..Len(q) : r[IF i < 2 THEN i ELSE i + 1] = q[i]
    <2>1. \A i \in 1..Len(q) : i < 2 => i = 1
      OBVIOUS
    <2>2. ASSUME NEW i \in 1..Len(q), ~(i < 2) PROVE r[i + 1] = q[i]
      <3>1. i + 1 \in 3..(Len(q) + 1) /\ (i + 1) - 2 \in 1..(Len(q) - 1) /\ ((i + 1) - 2) + 1 = i
        BY <1>1, <2>2
      <3>. QED BY <1>3, <1>4, <3>1
    <2>. QED BY <1>1, <1>4, <2>1, <2>2
  <1>6. IsInjective(r) /\ Range(r) = Range(q) \cup {e}
    BY <1>4, <1>5, ExtendOnce, SMTT(60)
  <1>. QED BY <1>4, <1>6 DEF r, h, g

=============================================================================
