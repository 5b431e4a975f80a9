------------------------------ MODULE TaskLists -----------------------------
(***************************************************************************)
(* Lemmas about lists of calls under way. The parts of the program keep    *)
(* such lists as sequences: a call is added at the end, goes on in its     *)
(* place, and is taken out wherever it stands, since calls end in any      *)
(* order.                                                                  *)
(***************************************************************************)
EXTENDS Integers, SequencesExt, SequenceTheorems, FiniteSetTheorems, TLAPS

\* The sequence s has at most one element of Q.
Only(s, Q) == \A j, k \in DOMAIN s : s[j] \in Q /\ s[k] \in Q => j = k

\* The sequence s has no element of Q.
NoneOf(s, Q) == \A j \in DOMAIN s : s[j] \notin Q

\* What the community module's RemoveAt leaves, and where.
LEMMA WhatIsLeft ==
  ASSUME NEW S, NEW s \in Seq(S), NEW i \in DOMAIN s
  PROVE  /\ RemoveAt(s, i) \in Seq(S) /\ Len(RemoveAt(s, i)) = Len(s) - 1
         /\ \A j \in 1..(Len(s) - 1) :
              RemoveAt(s, i)[j] = IF j < i THEN s[j] ELSE s[j + 1]
<1> DEFINE t == RemoveAt(s, i)
           a == SubSeq(s, 1, i - 1)
           b == SubSeq(s, i + 1, Len(s))
<1>1. i \in 1..Len(s) /\ Len(s) \in Nat
  OBVIOUS
<1>2. a \in Seq(S) /\ Len(a) = i - 1 /\ \A j \in 1..(i - 1) : a[j] = s[j]
  BY <1>1
<1>3. b \in Seq(S) /\ Len(b) = Len(s) - i /\ \A j \in 1..(Len(s) - i) : b[j] = s[i + j]
  BY <1>1
<1>4. t = a \o b
  BY DEF RemoveAt
<1> HIDE DEF a, b, t
<1>5. t \in Seq(S) /\ Len(t) = Len(s) - 1
  BY <1>1, <1>2, <1>3, <1>4
<1>6. \A k \in 1..(Len(a) + Len(b)) : t[k] = IF k <= Len(a) THEN a[k] ELSE b[k - Len(a)]
  BY ONLY <1>2, <1>3, <1>4, ConcatProperties
<1>7. ASSUME NEW j \in 1..(Len(s) - 1)
      PROVE  t[j] = IF j < i THEN s[j] ELSE s[j + 1]
  <2>1. /\ j \in 1..(Len(a) + Len(b)) /\ j \in Int /\ i \in Int /\ Len(a) = i - 1
        /\ (j <= Len(a) <=> j < i)
    BY <1>1, <1>2, <1>3
  <2>2. CASE j < i
    <3>1. t[j] = a[j] /\ j \in 1..(i - 1)
      BY <1>6, <2>1, <2>2
    <3> QED
      BY <1>2, <2>2, <3>1
  <2>3. CASE ~ (j < i)
    <3>1. t[j] = b[j - Len(a)]
      BY <1>6, <2>1, <2>3
    <3>2. j - Len(a) \in 1..(Len(s) - i) /\ i + (j - Len(a)) = j + 1
      BY ONLY <1>1, <2>1, <2>3, j \in 1..(Len(s) - 1)
    <3> QED
      BY <1>3, <2>3, <3>1, <3>2
  <2> QED
    BY <2>2, <2>3
<1> QED
  BY <1>5, <1>7 DEF t

\* A call ends: the others are still there, and they alone.
LEMMA RemovedOne ==
  ASSUME NEW S, NEW s \in Seq(S), NEW i \in DOMAIN s, NEW t, t = RemoveAt(s, i)
  PROVE  /\ t \in Seq(S) /\ Len(t) = Len(s) - 1
         /\ \A j \in DOMAIN t : \E k \in DOMAIN s \ {i} : t[j] = s[k]
         /\ \A k \in DOMAIN s \ {i} : \E j \in DOMAIN t : t[j] = s[k]
         /\ Len(s) <= 1 => t = <<>>
<1>2. /\ t \in Seq(S) /\ Len(t) = Len(s) - 1
      /\ \A j \in 1..(Len(s) - 1) : t[j] = IF j < i THEN s[j] ELSE s[j + 1]
  BY WhatIsLeft
<1>3. /\ Len(s) \in Nat /\ DOMAIN s = 1..Len(s) /\ DOMAIN t = 1..(Len(s) - 1) /\ i \in 1..Len(s)
      /\ \A n \in 1..Len(s) : n \in Int
  BY <1>2
<1>4. ASSUME NEW j \in DOMAIN t PROVE \E k \in DOMAIN s \ {i} : t[j] = s[k]
  <2>1. CASE j < i
    BY <1>2, <1>3, <2>1
  <2>2. CASE ~ (j < i)
    <3>1. j + 1 \in DOMAIN s \ {i} /\ t[j] = s[j + 1]
      BY <1>2, <1>3, <2>2
    <3> QED
      BY <3>1
  <2> QED
    BY <2>1, <2>2
<1>5. ASSUME NEW k \in DOMAIN s \ {i} PROVE \E j \in DOMAIN t : t[j] = s[k]
  <2>1. CASE k < i
    <3>1. k \in DOMAIN t /\ t[k] = s[k]
      BY <1>2, <1>3, <2>1
    <3> QED
      BY <3>1
  <2>2. CASE ~ (k < i)
    <3>1. k - 1 \in DOMAIN t /\ ~ (k - 1 < i) /\ (k - 1) + 1 = k
      BY <1>3, <2>2
    <3>2. t[k - 1] = s[k]
      BY <1>2, <1>3, <3>1
    <3> QED
      BY <3>1, <3>2
  <2> QED
    BY <2>1, <2>2
<1>6. Len(s) <= 1 => t = <<>>
  BY <1>2, <1>3
<1> QED
  BY <1>2, <1>4, <1>5, <1>6

\* The same, of what the list becomes.
LEMMA OneLess ==
  ASSUME NEW S, NEW s \in Seq(S), NEW i \in DOMAIN s
  PROVE  /\ RemoveAt(s, i) \in Seq(S) /\ Len(RemoveAt(s, i)) = Len(s) - 1
         /\ \A j \in DOMAIN RemoveAt(s, i) : \E k \in DOMAIN s \ {i} : RemoveAt(s, i)[j] = s[k]
         /\ \A k \in DOMAIN s \ {i} : \E j \in DOMAIN RemoveAt(s, i) : RemoveAt(s, i)[j] = s[k]
         /\ Len(s) <= 1 => RemoveAt(s, i) = <<>>
<1>1. PICK t : t = RemoveAt(s, i)
  OBVIOUS
<1> QED
  BY <1>1, RemovedOne

\* ... and if it was the only one of its kind, none of the kind is left.
LEMMA OnlyOneLess ==
  ASSUME NEW S, NEW s \in Seq(S), NEW i \in DOMAIN s, NEW Q, Only(s, Q)
  PROVE  /\ Only(RemoveAt(s, i), Q)
         /\ s[i] \in Q => NoneOf(RemoveAt(s, i), Q)
<1>1. PICK t : t = RemoveAt(s, i)
  OBVIOUS
<1>2. /\ t \in Seq(S) /\ Len(t) = Len(s) - 1
      /\ \A j \in 1..(Len(s) - 1) : t[j] = IF j < i THEN s[j] ELSE s[j + 1]
  BY <1>1, WhatIsLeft
<1>3. /\ Len(s) \in Nat /\ DOMAIN s = 1..Len(s) /\ DOMAIN t = 1..(Len(s) - 1) /\ i \in 1..Len(s)
      /\ \A n \in 1..Len(s) : n \in Int
  BY <1>2
<1> DEFINE at(j) == IF j < i THEN j ELSE j + 1
<1>4. \A j \in DOMAIN t : at(j) \in DOMAIN s /\ at(j) # i /\ t[j] = s[at(j)]
  BY <1>2, <1>3
<1>5. \A j, k \in DOMAIN t : at(j) = at(k) => j = k
  BY <1>3
<1> HIDE DEF at
<1>6. Only(t, Q)
  BY <1>4, <1>5 DEF Only
<1>7. s[i] \in Q => NoneOf(t, Q)
  BY <1>4 DEF Only, NoneOf
<1> QED
  BY <1>1, <1>6, <1>7

\* A call begins.
LEMMA OneMore ==
  ASSUME NEW S, NEW s \in Seq(S), NEW x \in S
  PROVE  /\ Append(s, x) \in Seq(S) /\ Len(Append(s, x)) = Len(s) + 1 /\ Len(s) \in Nat
         /\ DOMAIN Append(s, x) = DOMAIN s \cup {Len(s) + 1} /\ Len(s) + 1 \notin DOMAIN s
         /\ Append(s, x)[Len(s) + 1] = x
         /\ \A j \in DOMAIN s : Append(s, x)[j] = s[j]
OBVIOUS

\* A call of another kind, or the first of this one, leaves at most one of the kind.
LEMMA OnlyOneMore ==
  ASSUME NEW S, NEW s \in Seq(S), NEW x \in S, NEW Q,
         Only(s, Q), NoneOf(s, Q) \/ x \notin Q
  PROVE  Only(Append(s, x), Q)
<1>1. PICK t : t = Append(s, x)
  OBVIOUS
<1>2. /\ DOMAIN t = DOMAIN s \cup {Len(s) + 1} /\ Len(s) + 1 \notin DOMAIN s
      /\ t[Len(s) + 1] = x /\ \A j \in DOMAIN s : t[j] = s[j]
  BY <1>1, OneMore
<1>3. Only(t, Q)
  BY <1>2 DEF Only, NoneOf
<1> QED
  BY <1>1, <1>3

\* A call goes on in its place.
LEMMA OneChanged ==
  ASSUME NEW S, NEW s \in Seq(S), NEW i \in DOMAIN s, NEW x \in S
  PROVE  /\ [s EXCEPT ![i] = x] \in Seq(S) /\ Len([s EXCEPT ![i] = x]) = Len(s)
         /\ DOMAIN [s EXCEPT ![i] = x] = DOMAIN s
         /\ [s EXCEPT ![i] = x][i] = x
         /\ \A j \in DOMAIN s \ {i} : [s EXCEPT ![i] = x][j] = s[j]
OBVIOUS

\* A call that goes on leaves at most one of the kind.
LEMMA OnlyOneChanged ==
  ASSUME NEW S, NEW s \in Seq(S), NEW i \in DOMAIN s, NEW x \in S, NEW Q,
         Only(s, Q), s[i] \in Q \/ x \notin Q
  PROVE  /\ Only([s EXCEPT ![i] = x], Q)
         /\ s[i] \in Q => \A j \in DOMAIN s \ {i} : s[j] \notin Q
<1>1. PICK t : t = [s EXCEPT ![i] = x]
  OBVIOUS
<1>2. DOMAIN t = DOMAIN s /\ t[i] = x /\ \A j \in DOMAIN s \ {i} : t[j] = s[j]
  BY <1>1, OneChanged
<1>3. Only(t, Q) /\ (s[i] \in Q => \A j \in DOMAIN s \ {i} : s[j] \notin Q)
  BY <1>2 DEF Only
<1> QED
  BY <1>1, <1>3

\* Nothing is under way.
LEMMA NothingListed ==
  ASSUME NEW S
  PROVE  /\ <<>> \in Seq(S) /\ Len(<<>>) = 0 /\ DOMAIN <<>> = {}
         /\ \A Q : Only(<<>>, Q) /\ NoneOf(<<>>, Q)
BY DEF Only, NoneOf

\* The community module's SetToSeq lists a finite set, each element once.
LEMMA SetListed ==
  ASSUME NEW S, IsFiniteSet(S)
  PROVE  /\ SetToSeq(S) \in Seq(S) /\ Len(SetToSeq(S)) = Cardinality(S)
         /\ DOMAIN SetToSeq(S) = 1..Cardinality(S) /\ Cardinality(S) \in Nat
         /\ \A j, k \in DOMAIN SetToSeq(S) : SetToSeq(S)[j] = SetToSeq(S)[k] => j = k
         /\ \A x \in S : \E j \in DOMAIN SetToSeq(S) : SetToSeq(S)[j] = x
<1> DEFINE n == Cardinality(S)
<1>1. n \in Nat /\ ExistsBijection(1..n, S)
  BY FS_CardinalityType
<1>2. \E f \in [1..n -> S] : IsInjective(f)
  BY <1>1 DEF ExistsBijection, Bijection, Injection
<1>3. SetToSeq(S) \in [1..n -> S] /\ IsInjective(SetToSeq(S))
  BY <1>2 DEF SetToSeq
<1>4. \A j, k \in DOMAIN SetToSeq(S) : SetToSeq(S)[j] = SetToSeq(S)[k] => j = k
  BY <1>3 DEF IsInjective
<1>6. SetToSeq(S) \in Surjection(1..n, S)
  <2>1. SetToSeq(S) \in Injection(1..n, S)
    BY <1>3 DEF Injection
  <2>2. Cardinality(1..n) = n /\ IsFiniteSet(1..n)
    BY <1>1, FS_Interval
  <2> QED
    BY <2>1, <2>2, FS_Injection
<1>7. \A x \in S : \E j \in DOMAIN SetToSeq(S) : SetToSeq(S)[j] = x
  BY <1>3, <1>6 DEF Surjection
<1> HIDE DEF n
<1>5. SetToSeq(S) \in Seq(S) /\ Len(SetToSeq(S)) = n /\ DOMAIN SetToSeq(S) = 1..n
  BY <1>1, <1>3
<1> QED
  BY <1>1, <1>4, <1>5, <1>7 DEF n

-----------------------------------------------------------------------------
\* c is in s, and the only element of Q there.
Sole(s, Q, c) == c \in Q /\ Only(s, Q) /\ \E j \in DOMAIN s : s[j] = c

\* t has no other elements of Q than s has: none if s has none, and one if s has that one.
AsBefore(s, t, Q) == (NoneOf(s, Q) => NoneOf(t, Q)) /\ \A c : Sole(s, Q, c) => Sole(t, Q, c)

\* When a call begins, it is the only one of its kind if there was none; the
\* others are as before.
LEMMA SoleMore ==
  ASSUME NEW S, NEW s \in Seq(S), NEW x \in S, NEW Q, NEW t, t = Append(s, x)
  PROVE  /\ t \in Seq(S)
         /\ x \in Q /\ NoneOf(s, Q) => Sole(t, Q, x)
         /\ x \notin Q => AsBefore(s, t, Q)
<1>1. /\ t \in Seq(S) /\ DOMAIN t = DOMAIN s \cup {Len(s) + 1} /\ Len(s) + 1 \notin DOMAIN s
      /\ t[Len(s) + 1] = x /\ \A j \in DOMAIN s : t[j] = s[j]
  BY OneMore
<1>2. x \in Q /\ NoneOf(s, Q) => Sole(t, Q, x)
  BY <1>1 DEF Sole, Only, NoneOf
<1>3. ASSUME x \notin Q PROVE AsBefore(s, t, Q)
  BY <1>1, <1>3 DEF AsBefore, Sole, Only, NoneOf
<1> QED
  BY <1>1, <1>2, <1>3

\* When a call ends that was the only one of its kind, none is left; calls of
\* another kind are as before.
LEMMA SoleLess ==
  ASSUME NEW S, NEW s \in Seq(S), NEW i \in DOMAIN s, NEW Q, NEW t, t = RemoveAt(s, i)
  PROVE  /\ t \in Seq(S)
         /\ s[i] \in Q => \A c : Sole(s, Q, c) => c = s[i] /\ NoneOf(t, Q)
         /\ NoneOf(s, Q) => NoneOf(t, Q)
         /\ s[i] \notin Q => AsBefore(s, t, Q)
<1>1. /\ t \in Seq(S)
      /\ \A j \in DOMAIN t : \E k \in DOMAIN s \ {i} : t[j] = s[k]
      /\ \A k \in DOMAIN s \ {i} : \E j \in DOMAIN t : t[j] = s[k]
  BY RemovedOne
<1>2. Only(s, Q) => Only(t, Q) /\ (s[i] \in Q => NoneOf(t, Q))
  BY OnlyOneLess
<1>3. s[i] \in Q => \A c : Sole(s, Q, c) => c = s[i] /\ NoneOf(t, Q)
  BY <1>2 DEF Sole, Only
<1>4. NoneOf(s, Q) => NoneOf(t, Q)
  BY <1>1 DEF NoneOf
<1>5. ASSUME s[i] \notin Q, NEW c, Sole(s, Q, c) PROVE Sole(t, Q, c)
  <2>1. PICK k \in DOMAIN s : s[k] = c /\ c \in Q
    BY <1>5 DEF Sole
  <2>2. k \in DOMAIN s \ {i}
    BY <1>5, <2>1
  <2>3. \E j \in DOMAIN t : t[j] = c
    BY <1>1, <2>1, <2>2
  <2> QED
    BY <1>2, <1>5, <2>1, <2>3 DEF Sole
<1> QED
  BY <1>1, <1>3, <1>4, <1>5 DEF AsBefore

\* t differs from s at most in what stands at i.
ChangedAt(s, t, i) == DOMAIN t = DOMAIN s /\ \A j \in DOMAIN s \ {i} : t[j] = s[j]

\* The same when a call goes on as another one.
LEMMA SoleChanged ==
  ASSUME NEW s, NEW t, NEW i \in DOMAIN s, NEW Q, ChangedAt(s, t, i)
  PROVE  /\ s[i] \in Q /\ t[i] \in Q => \A c : Sole(s, Q, c) => c = s[i] /\ Sole(t, Q, t[i])
         /\ s[i] \in Q /\ t[i] \notin Q => \A c : Sole(s, Q, c) => c = s[i] /\ NoneOf(t, Q)
         /\ s[i] \notin Q /\ t[i] \notin Q => AsBefore(s, t, Q)
<1>1. DOMAIN t = DOMAIN s /\ \A j \in DOMAIN s \ {i} : t[j] = s[j]
  BY DEF ChangedAt
<1>2. s[i] \in Q /\ t[i] \in Q => \A c : Sole(s, Q, c) => c = s[i] /\ Sole(t, Q, t[i])
  BY <1>1 DEF Sole, Only
<1>3. s[i] \in Q /\ t[i] \notin Q => \A c : Sole(s, Q, c) => c = s[i] /\ NoneOf(t, Q)
  BY <1>1 DEF Sole, Only, NoneOf
<1>4. ASSUME s[i] \notin Q, t[i] \notin Q PROVE AsBefore(s, t, Q)
  <2>1. NoneOf(s, Q) => NoneOf(t, Q)
    BY <1>1, <1>4 DEF NoneOf
  <2>2. ASSUME NEW c, Sole(s, Q, c) PROVE Sole(t, Q, c)
    <3>1. PICK k \in DOMAIN s : s[k] = c /\ c \in Q
      BY <2>2 DEF Sole
    <3>2. k # i /\ t[k] = c
      BY <1>1, <1>4, <3>1
    <3>3. Only(t, Q)
      BY <1>1, <1>4, <2>2 DEF Sole, Only
    <3> QED
      BY <1>1, <3>1, <3>2, <3>3 DEF Sole
  <2> QED
    BY <2>1, <2>2 DEF AsBefore
<1> QED
  BY <1>1, <1>2, <1>3, <1>4

\* A list is as it was; and as before one that is as before.
LEMMA StillAsBefore ==
  ASSUME NEW r, NEW s, NEW t, NEW Q
  PROVE  AsBefore(s, s, Q) /\ (AsBefore(r, s, Q) /\ AsBefore(s, t, Q) => AsBefore(r, t, Q))
BY DEF AsBefore

\* A list of which only some elements are kept, all of Q among them.
LEMMA SoleKept ==
  ASSUME NEW S, NEW s \in Seq(S), NEW K \in SUBSET (DOMAIN s),
         NEW t, t = [n \in DOMAIN SetToSeq(K) |-> s[SetToSeq(K)[n]]]
  PROVE  /\ t \in Seq(S)
         /\ \A j \in DOMAIN t : \E k \in K : t[j] = s[k]
         /\ \A Q : (\A k \in DOMAIN s \ K : s[k] \notin Q) => AsBefore(s, t, Q)
<1>1. IsFiniteSet(K)
  <2>1. Len(s) \in Nat /\ DOMAIN s = 1..Len(s)
    OBVIOUS
  <2>2. IsFiniteSet(1..Len(s))
    BY <2>1, FS_Interval
  <2>3. K \in SUBSET (1..Len(s))
    BY <2>1
  <2> QED
    BY <2>2, <2>3, FS_Subset
<1>2. PICK u : u = SetToSeq(K)
  OBVIOUS
<1>3. /\ Cardinality(K) \in Nat /\ DOMAIN u = 1..Cardinality(K)
      /\ \A j \in DOMAIN u : u[j] \in K
      /\ \A j, k \in DOMAIN u : u[j] = u[k] => j = k
      /\ \A x \in K : \E j \in DOMAIN u : u[j] = x
  <2>1. u \in Seq(K)
    BY <1>1, <1>2, SetListed
  <2> QED
    BY <1>1, <1>2, <2>1, SetListed
<1>4. DOMAIN t = DOMAIN u /\ \A j \in DOMAIN u : t[j] = s[u[j]]
  BY <1>2
<1>5. t \in Seq(S)
  <2>1. \A j \in 1..Cardinality(K) : t[j] \in S
    BY <1>3, <1>4
  <2>2. t = [j \in 1..Cardinality(K) |-> t[j]]
    BY <1>2, <1>3
  <2> QED
    BY <1>3, <2>1, <2>2
<1>6. ASSUME NEW Q, \A k \in DOMAIN s \ K : s[k] \notin Q
      PROVE  AsBefore(s, t, Q)
  <2>1. NoneOf(s, Q) => NoneOf(t, Q)
    BY <1>3, <1>4 DEF NoneOf
  <2>2. ASSUME NEW c, Sole(s, Q, c) PROVE Sole(t, Q, c)
    <3>1. PICK k \in DOMAIN s : s[k] = c /\ c \in Q
      BY <2>2 DEF Sole
    <3>2. k \in K
      BY <1>6, <3>1
    <3>3. \E j \in DOMAIN t : t[j] = c
      BY <1>3, <1>4, <3>1, <3>2
    <3>4. Only(t, Q)
      BY <1>3, <1>4, <2>2 DEF Sole, Only
    <3> QED
      BY <3>1, <3>3, <3>4 DEF Sole
  <2> QED
    BY <2>1, <2>2 DEF AsBefore
<1> QED
  BY <1>3, <1>4, <1>5, <1>6
=============================================================================
