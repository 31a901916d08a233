---------------------------- MODULE StackProofs ----------------------------
(***************************************************************************)
(* What filtering a stack of windows leaves, for stacks of any length.     *)
(* A fact about every stack is proved as one about the set of stacks that  *)
(* have it: the set that holds the empty one and is closed under Append.   *)
(***************************************************************************)
EXTENDS Stack, SequenceTheorems, WellFoundedInduction, TLAPS

\* A set of numbers has a least one.
LEMMA NatMin ==
  ASSUME NEW T \in SUBSET Nat, T # {}
  PROVE  \E x \in T : \A y \in T : x <= y
<1> DEFINE R == OpToRel(<, Nat)
<1>1. IsWellFoundedOn(R, Nat)
  BY NatLessThanWellFounded
<1>2. PICK x \in T : \A y \in T : ~(<<y, x>> \in R)
  <2> HIDE DEF R
  <2> QED BY <1>1, WFMin
<1>3. \A y \in T : ~(y < x)
  BY <1>2 DEF OpToRel
<1> QED
  BY <1>3

\* Induction over sequences that grow at their end, for a set of them.
LEMMA SeqsByAppend ==
  ASSUME NEW A, NEW T \in SUBSET Seq(A),
         <<>> \in T,
         \A s \in T, x \in A : Append(s, x) \in T
  PROVE  T = Seq(A)
<1> SUFFICES ASSUME NEW bad \in Seq(A), bad \notin T PROVE FALSE
  OBVIOUS
<1> DEFINE L == {n \in Nat : \E s \in Seq(A) : s \notin T /\ Len(s) = n}
<1>1. Len(bad) \in L
  OBVIOUS
<1>2. PICK n \in L : \A m \in L : n <= m
  <2>1. L \in SUBSET Nat /\ L # {}
    BY <1>1
  <2> HIDE DEF L
  <2> QED BY <2>1, NatMin
<1>3. PICK s \in Seq(A) : s \notin T /\ Len(s) = n
  OBVIOUS
<1>4. PICK t \in Seq(A), x \in A : s = Append(t, x)
  BY <1>3, SequenceEmptyOrAppend
<1>5. Len(t) < n /\ Len(t) \in Nat
  <2>1. Len(s) = Len(t) + 1 /\ Len(t) \in Nat
    BY <1>4, AppendProperties
  <2> QED
    BY <1>3, <2>1
<1>6. t \in T
  <2>1. t \notin T => Len(t) \in L
    BY <1>5
  <2>2. Len(t) \notin L
    <3> HIDE DEF L
    <3>1. n \in Nat
      BY DEF L
    <3> QED BY <1>2, <1>5, <3>1
  <2> QED BY <2>1, <2>2
<1> QED
  BY <1>3, <1>4, <1>6

\* The elements of a stack after one more is put on top.
LEMMA ToSetAppend ==
  ASSUME NEW A, NEW s \in Seq(A), NEW x \in A
  PROVE  ToSet(Append(s, x)) = ToSet(s) \cup {x}
<1>1. /\ DOMAIN s = 1..Len(s) /\ DOMAIN Append(s, x) = 1..(Len(s) + 1) /\ Len(s) \in Nat
      /\ \A i \in 1..Len(s) : Append(s, x)[i] = s[i]
      /\ Append(s, x)[Len(s) + 1] = x
  OBVIOUS
<1> QED
  BY <1>1 DEF ToSet

\* The elements of a stack are of the kind stacked.
LEMMA ToSetType ==
  ASSUME NEW A, NEW s \in Seq(A)
  PROVE  ToSet(s) \subseteq A
BY DEF ToSet

\* What is put on a stack is its last, over what was there.
LEMMA LastOfAppend ==
  ASSUME NEW A, NEW s \in Seq(A), NEW x \in A
  PROVE  /\ Append(s, x) \in Seq(A) /\ Append(s, x) # <<>>
         /\ Last(Append(s, x)) = x /\ Front(Append(s, x)) = s
<1> DEFINE t == Append(s, x)
<1>1. /\ t \in Seq(A) /\ Len(t) = Len(s) + 1 /\ Len(s) \in Nat /\ t[Len(t)] = x /\ t # <<>>
      /\ \A i \in 1..Len(s) : t[i] = s[i]
  OBVIOUS
<1> HIDE DEF t
<1>2. /\ Front(t) \in Seq(A) /\ Len(Front(t)) = Len(s)
      /\ \A i \in 1..Len(s) : Front(t)[i] = t[i]
  BY <1>1 DEF Front
<1>3. Front(t) = s
  BY <1>1, <1>2, SeqEqual
<1> QED
  BY <1>1, <1>3 DEF Last, t

\* A stack that is not empty is the rest of it under its last.
LEMMA FrontLast ==
  ASSUME NEW A, NEW s \in Seq(A), s # <<>>
  PROVE  /\ s = Append(Front(s), Last(s)) /\ Front(s) \in Seq(A) /\ Last(s) \in A
         /\ ToSet(s) = ToSet(Front(s)) \cup {Last(s)}
<1>1. PICK t \in Seq(A), x \in A : s = Append(t, x)
  BY SequenceEmptyOrAppend
<1>2. Front(s) = t /\ Last(s) = x
  BY <1>1, LastOfAppend
<1> QED
  BY <1>1, <1>2, ToSetAppend

\* The elements of two stacks, one on the other.
LEMMA ToSetConcat ==
  ASSUME NEW A, NEW s \in Seq(A), NEW t \in Seq(A)
  PROVE  ToSet(s \o t) = ToSet(s) \cup ToSet(t)
<1>1. /\ DOMAIN s = 1..Len(s) /\ DOMAIN t = 1..Len(t) /\ DOMAIN (s \o t) = 1..(Len(s) + Len(t))
      /\ Len(s) \in Nat /\ Len(t) \in Nat
      /\ \A i \in 1..Len(s) : (s \o t)[i] = s[i]
      /\ \A i \in 1..Len(t) : (s \o t)[Len(s) + i] = t[i]
  OBVIOUS
<1>2. ASSUME NEW i \in 1..(Len(s) + Len(t)) PROVE (s \o t)[i] \in ToSet(s) \cup ToSet(t)
  <2>1. CASE i \in 1..Len(s)
    BY <1>1, <2>1 DEF ToSet
  <2>2. CASE i \notin 1..Len(s)
    <3>1. i - Len(s) \in 1..Len(t) /\ i = Len(s) + (i - Len(s))
      BY <1>1, <2>2
    <3> QED
      BY <1>1, <3>1 DEF ToSet
  <2> QED
    BY <2>1, <2>2
<1>3. \A i \in 1..Len(t) : Len(s) + i \in 1..(Len(s) + Len(t))
  BY <1>1
<1>4. \A i \in 1..Len(s) : i \in 1..(Len(s) + Len(t))
  BY <1>1
<1>5. ToSet(s) \subseteq ToSet(s \o t)
  BY <1>1, <1>4 DEF ToSet
<1>6. ToSet(t) \subseteq ToSet(s \o t)
  BY <1>1, <1>3 DEF ToSet
<1>7. ToSet(s \o t) \subseteq ToSet(s) \cup ToSet(t)
  BY <1>1, <1>2 DEF ToSet
<1> QED
  BY <1>5, <1>6, <1>7

\* Only the empty stack has no element.
LEMMA EmptyToSet ==
  ASSUME NEW A, NEW s \in Seq(A)
  PROVE  s = <<>> <=> ToSet(s) = {}
<1>1. ToSet(<<>>) = {}
  BY DEF ToSet
<1>2. ASSUME s # <<>> PROVE s[1] \in ToSet(s)
  <2>1. 1 \in DOMAIN s
    BY <1>2
  <2> QED
    BY <2>1 DEF ToSet
<1> QED
  BY <1>1, <1>2

\* One stack on another, with its last put on afterwards.
LEMMA ConcatAppend ==
  ASSUME NEW A, NEW s \in Seq(A), NEW t \in Seq(A), NEW x \in A
  PROVE  s \o Append(t, x) = Append(s \o t, x)
OBVIOUS

\* k[n] is what the filter leaves of the first n elements.
Kept(seq, S, k) ==
  k = [n \in 0..Len(seq) |->
         IF n = 0 THEN <<>>
         ELSE IF seq[n] \in S THEN Append(k[n - 1], seq[n]) ELSE k[n - 1]]

\* The filters of two stacks agree as far as the stacks do.
LEMMA KeptUnique ==
  ASSUME NEW A, NEW s \in Seq(A), NEW t \in Seq(A), NEW S, NEW j, NEW k,
         Kept(s, S, j), Kept(t, S, k),
         Len(s) <= Len(t), \A i \in 1..Len(s) : s[i] = t[i]
  PROVE  j[Len(s)] = k[Len(s)]
<1> DEFINE T == {n \in 0..Len(s) : j[n] # k[n]}
<1> SUFFICES ASSUME T # {} PROVE FALSE
  OBVIOUS
<1>1. PICK n \in T : \A m \in T : n <= m
  <2>1. T \in SUBSET Nat
    OBVIOUS
  <2> HIDE DEF T
  <2> QED BY <2>1, NatMin
<1>2. n # 0
  BY DEF Kept
<1>3. n - 1 \in 0..Len(s) /\ n \in 1..Len(s) /\ n \in 0..Len(t)
  BY <1>2
<1>4. j[n - 1] = k[n - 1]
  BY <1>1, <1>3
<1>5. s[n] = t[n]
  BY <1>3
<1>6. j[n] = IF s[n] \in S THEN Append(j[n - 1], s[n]) ELSE j[n - 1]
  BY <1>2, <1>3 DEF Kept
<1>7. k[n] = IF t[n] \in S THEN Append(k[n - 1], t[n]) ELSE k[n - 1]
  BY <1>2, <1>3 DEF Kept
<1> QED
  BY <1>4, <1>5, <1>6, <1>7

\* The filter of a stack extends to one more element.
LEMMA KeptExtends ==
  ASSUME NEW A, NEW s \in Seq(A), NEW x \in A, NEW S, NEW j, Kept(s, S, j)
  PROVE  \E k : Kept(Append(s, x), S, k)
<1> DEFINE t == Append(s, x)
           last == IF x \in S THEN Append(j[Len(s)], x) ELSE j[Len(s)]
           k == [n \in 0..Len(t) |-> IF n = Len(t) THEN last ELSE j[n]]
<1>1. /\ Len(t) = Len(s) + 1 /\ Len(s) \in Nat /\ t[Len(t)] = x
      /\ \A i \in 1..Len(s) : t[i] = s[i]
  OBVIOUS
<1>2. ASSUME NEW n \in 0..Len(t)
      PROVE  k[n] = IF n = 0 THEN <<>>
                    ELSE IF t[n] \in S THEN Append(k[n - 1], t[n]) ELSE k[n - 1]
  <2>1. CASE n = Len(t)
    BY <1>1, <2>1
  <2>2. CASE n # Len(t)
    <3>1. k[n] = j[n] /\ n \in 0..Len(s) /\ (n # 0 => n - 1 \in 0..Len(s) /\ t[n] = s[n] /\ k[n - 1] = j[n - 1])
      BY <1>1, <2>2
    <3> QED
      BY <3>1 DEF Kept
  <2> QED
    BY <2>1, <2>2
<1> HIDE DEF last, t
<1>3. Kept(t, S, k)
  BY <1>2 DEF Kept
<1> QED
  BY <1>3 DEF t

\* Every stack has a filter, so that the recursion of Within defines it.
LEMMA KeptExists ==
  ASSUME NEW A, NEW s \in Seq(A), NEW S
  PROVE  \E k : Kept(s, S, k)
<1> DEFINE T == {q \in Seq(A) : \E k : Kept(q, S, k)}
<1>1. <<>> \in T
  <2>1. Kept(<<>>, S, [n \in 0..0 |-> <<>>])
    BY DEF Kept
  <2> QED
    BY <2>1
<1>2. \A q \in T, x \in A : Append(q, x) \in T
  BY KeptExtends
<1>3. T \in SUBSET Seq(A)
  OBVIOUS
<1> HIDE DEF T
<1>4. T = Seq(A)
  BY <1>1, <1>2, <1>3, SeqsByAppend
<1> QED
  BY <1>4 DEF T

\* Within is the last value of that filter.
LEMMA WithinKept ==
  ASSUME NEW A, NEW s \in Seq(A), NEW S, NEW k, Kept(s, S, k)
  PROVE  Within(s, S) = k[Len(s)]
<1>1. \E j : Kept(s, S, j) /\ Within(s, S) = j[Len(s)]
  BY DEF Within, Kept
<1> QED
  BY <1>1, KeptUnique

\* Filtering the empty stack.
LEMMA WithinEmpty ==
  ASSUME NEW S
  PROVE  Within(<<>>, S) = <<>>
<1>1. Kept(<<>>, S, [n \in 0..0 |-> <<>>])
  BY DEF Kept
<1> QED
  BY <1>1, WithinKept, EmptySeq

\* Filtering what is put on a stack: the equation the other lemmas rest on.
LEMMA WithinAppend ==
  ASSUME NEW A, NEW s \in Seq(A), NEW x \in A, NEW S
  PROVE  Within(Append(s, x), S) = IF x \in S THEN Append(Within(s, S), x) ELSE Within(s, S)
<1> DEFINE t == Append(s, x)
<1>1. /\ t \in Seq(A) /\ Len(t) = Len(s) + 1 /\ Len(s) \in Nat /\ t[Len(t)] = x
      /\ \A i \in 1..Len(s) : s[i] = t[i]
  OBVIOUS
<1> HIDE DEF t
<1>2. PICK j : Kept(s, S, j)
  BY KeptExists
<1>3. PICK k : Kept(t, S, k)
  BY <1>1, KeptExists
<1>4. j[Len(s)] = k[Len(s)]
  BY <1>1, <1>2, <1>3, KeptUnique
<1>5. k[Len(t)] = IF x \in S THEN Append(k[Len(s)], x) ELSE k[Len(s)]
  <2>1. Len(t) \in 0..Len(t) /\ Len(t) # 0 /\ Len(t) - 1 = Len(s)
    BY <1>1
  <2>2. k[Len(t)] = IF t[Len(t)] \in S THEN Append(k[Len(t) - 1], t[Len(t)]) ELSE k[Len(t) - 1]
    BY <1>3, <2>1 DEF Kept
  <2> QED
    BY <1>1, <2>1, <2>2
<1>6. Within(s, S) = j[Len(s)] /\ Within(t, S) = k[Len(t)]
  BY <1>1, <1>2, <1>3, WithinKept
<1> QED
  BY <1>4, <1>5, <1>6 DEF t

-----------------------------------------------------------------------------
(* What Within does.                                                       *)

\* The elements that are left are those of both.
LEMMA WithinType ==
  ASSUME NEW A, NEW s \in Seq(A), NEW S
  PROVE  /\ Within(s, S) \in Seq(A)
         /\ ToSet(Within(s, S)) = ToSet(s) \cap S
<1> DEFINE P(q) == Within(q, S) \in Seq(A) /\ ToSet(Within(q, S)) = ToSet(q) \cap S
           T == {q \in Seq(A) : P(q)}
<1>1. <<>> \in T
  <2>1. Within(<<>>, S) = <<>> /\ ToSet(<<>>) = {}
    BY WithinEmpty DEF ToSet
  <2>2. P(<<>>)
    BY <2>1, EmptySeq
  <2> HIDE DEF P
  <2> QED BY <2>2, EmptySeq
<1>2. ASSUME NEW q \in T, NEW x \in A PROVE Append(q, x) \in T
  <2>1. Append(q, x) \in Seq(A) /\ ToSet(Append(q, x)) = ToSet(q) \cup {x}
    BY ToSetAppend
  <2>2. CASE x \in S
    <3>1. Within(Append(q, x), S) = Append(Within(q, S), x)
      BY <2>2, WithinAppend
    <3>2. ToSet(Append(Within(q, S), x)) = ToSet(Within(q, S)) \cup {x}
      BY ToSetAppend
    <3>3. Append(Within(q, S), x) \in Seq(A)
      OBVIOUS
    <3> QED
      BY <2>1, <2>2, <3>1, <3>2, <3>3
  <2>3. CASE x \notin S
    BY <2>1, <2>3, WithinAppend
  <2> QED
    BY <2>2, <2>3
<1>3. T \in SUBSET Seq(A)
  OBVIOUS
<1> HIDE DEF T
<1>4. T = Seq(A)
  BY <1>1, <1>2, <1>3, SeqsByAppend
<1> QED
  BY <1>4 DEF T

\* Two filters that agree on the elements of the stack agree.
LEMMA WithinSame ==
  ASSUME NEW A, NEW s \in Seq(A), NEW S, NEW R, ToSet(s) \cap S = ToSet(s) \cap R
  PROVE  Within(s, S) = Within(s, R)
<1> DEFINE T == {q \in Seq(A) : ToSet(q) \cap S = ToSet(q) \cap R => Within(q, S) = Within(q, R)}
<1>1. <<>> \in T
  BY WithinEmpty
<1>2. ASSUME NEW q \in T, NEW x \in A PROVE Append(q, x) \in T
  <2>1. Append(q, x) \in Seq(A) /\ ToSet(Append(q, x)) = ToSet(q) \cup {x}
    BY ToSetAppend
  <2>2. /\ Within(Append(q, x), S) = IF x \in S THEN Append(Within(q, S), x) ELSE Within(q, S)
        /\ Within(Append(q, x), R) = IF x \in R THEN Append(Within(q, R), x) ELSE Within(q, R)
    BY WithinAppend
  <2>3. ASSUME ToSet(Append(q, x)) \cap S = ToSet(Append(q, x)) \cap R
        PROVE  ToSet(q) \cap S = ToSet(q) \cap R /\ (x \in S <=> x \in R)
    BY <2>1, <2>3
  <2> QED
    BY <2>1, <2>2, <2>3
<1>3. T \in SUBSET Seq(A)
  OBVIOUS
<1> HIDE DEF T
<1>4. T = Seq(A)
  BY <1>1, <1>2, <1>3, SeqsByAppend
<1> QED
  BY <1>4 DEF T

\* A filter that every element passes changes nothing.
LEMMA WithinAll ==
  ASSUME NEW A, NEW s \in Seq(A), NEW S, ToSet(s) \subseteq S
  PROVE  Within(s, S) = s
<1> DEFINE T == {q \in Seq(A) : ToSet(q) \subseteq S => Within(q, S) = q}
<1>1. <<>> \in T
  BY WithinEmpty
<1>2. ASSUME NEW q \in T, NEW x \in A PROVE Append(q, x) \in T
  <2>1. Append(q, x) \in Seq(A) /\ ToSet(Append(q, x)) = ToSet(q) \cup {x}
    BY ToSetAppend
  <2> QED
    BY <2>1, WithinAppend
<1>3. T \in SUBSET Seq(A)
  OBVIOUS
<1> HIDE DEF T
<1>4. T = Seq(A)
  BY <1>1, <1>2, <1>3, SeqsByAppend
<1> QED
  BY <1>4 DEF T

\* A filter leaves nothing when no element passes it.
LEMMA WithinNone ==
  ASSUME NEW A, NEW s \in Seq(A), NEW S
  PROVE  Within(s, S) = <<>> <=> ToSet(s) \cap S = {}
BY WithinType, EmptyToSet

\* One filter after the other.
LEMMA WithinWithin ==
  ASSUME NEW A, NEW s \in Seq(A), NEW S, NEW R
  PROVE  Within(Within(s, S), R) = Within(s, S \cap R)
<1> DEFINE T == {q \in Seq(A) : Within(Within(q, S), R) = Within(q, S \cap R)}
<1>1. <<>> \in T
  BY WithinEmpty
<1>2. ASSUME NEW q \in T, NEW x \in A PROVE Append(q, x) \in T
  <2>1. Append(q, x) \in Seq(A) /\ Within(q, S) \in Seq(A)
    BY WithinType
  <2>2. Within(Append(q, x), S) = IF x \in S THEN Append(Within(q, S), x) ELSE Within(q, S)
    BY WithinAppend
  <2>3. Within(Append(q, x), S \cap R) =
          IF x \in S \cap R THEN Append(Within(q, S \cap R), x) ELSE Within(q, S \cap R)
    BY WithinAppend
  <2>4. Within(Append(Within(q, S), x), R) =
          IF x \in R THEN Append(Within(Within(q, S), R), x) ELSE Within(Within(q, S), R)
    BY <2>1, WithinAppend
  <2>5. Within(Within(q, S), R) = Within(q, S \cap R)
    OBVIOUS
  <2>6. Within(Within(Append(q, x), S), R) = Within(Append(q, x), S \cap R)
    <3>1. CASE x \in S
      <4>1. Within(Append(q, x), S) = Append(Within(q, S), x)
        BY <2>2, <3>1
      <4>2. x \in S \cap R <=> x \in R
        BY <3>1
      <4> HIDE DEF T
      <4> QED BY <2>3, <2>4, <2>5, <4>1, <4>2, Zenon
    <3>2. CASE x \notin S
      BY <3>2, <2>2, <2>3, <2>5
    <3> QED BY <3>1, <3>2
  <2> QED
    BY <2>1, <2>6
<1>3. T \in SUBSET Seq(A)
  OBVIOUS
<1> HIDE DEF T
<1>4. T = Seq(A)
  BY <1>1, <1>2, <1>3, SeqsByAppend
<1> QED
  BY <1>4 DEF T

\* Filtering two stacks, one on the other.
LEMMA WithinConcat ==
  ASSUME NEW A, NEW s \in Seq(A), NEW t \in Seq(A), NEW S
  PROVE  Within(s \o t, S) = Within(s, S) \o Within(t, S)
<1> DEFINE T == {q \in Seq(A) : Within(s \o q, S) = Within(s, S) \o Within(q, S)}
<1>0. Within(s, S) \in Seq(A)
  BY WithinType
<1>1. <<>> \in T
  BY <1>0, WithinEmpty
<1>2. ASSUME NEW q \in T, NEW x \in A PROVE Append(q, x) \in T
  <2>1. Append(q, x) \in Seq(A) /\ s \o q \in Seq(A) /\ Within(q, S) \in Seq(A)
    BY WithinType
  <2>2. s \o Append(q, x) = Append(s \o q, x)
    BY ConcatAppend
  <2>3. Within(s, S) \o Append(Within(q, S), x) = Append(Within(s, S) \o Within(q, S), x)
    BY <1>0, <2>1, ConcatAppend
  <2>4. Within(Append(q, x), S) = IF x \in S THEN Append(Within(q, S), x) ELSE Within(q, S)
    BY WithinAppend
  <2>5. Within(Append(s \o q, x), S) =
          IF x \in S THEN Append(Within(s \o q, S), x) ELSE Within(s \o q, S)
    <3> DEFINE u == s \o q
    <3>1. u \in Seq(A)
      BY <2>1
    <3> HIDE DEF u
    <3>2. Within(Append(u, x), S) = IF x \in S THEN Append(Within(u, S), x) ELSE Within(u, S)
      BY <3>1, WithinAppend
    <3> QED BY <3>2 DEF u
  <2> QED
    BY <2>1, <2>2, <2>3, <2>4, <2>5
<1>3. T \in SUBSET Seq(A)
  OBVIOUS
<1> HIDE DEF T
<1>4. T = Seq(A)
  BY <1>1, <1>2, <1>3, SeqsByAppend
<1> QED
  BY <1>4 DEF T

\* What stays last.
LEMMA WithinLast ==
  ASSUME NEW A, NEW s \in Seq(A), NEW S, s # <<>>, Last(s) \in S
  PROVE  Within(s, S) # <<>> /\ Last(Within(s, S)) = Last(s)
         /\ Within(s, S) = Append(Within(Front(s), S), Last(s))
<1>1. s = Append(Front(s), Last(s)) /\ Front(s) \in Seq(A) /\ Last(s) \in A
  BY FrontLast
<1>2. Within(s, S) = Append(Within(Front(s), S), Last(s))
  BY <1>1, WithinAppend
<1>3. Within(Front(s), S) \in Seq(A)
  BY <1>1, WithinType
<1> QED
  BY <1>1, <1>2, <1>3, LastOfAppend

\* What removing elements leaves.
LEMMA WithoutIs ==
  ASSUME NEW A, NEW s \in Seq(A), NEW S
  PROVE  /\ Without(s, S) \in Seq(A)
         /\ ToSet(Without(s, S)) = ToSet(s) \ S
         /\ Without(s, S) = Within(s, ToSet(s) \ S)
BY WithinType DEF Without
=============================================================================
