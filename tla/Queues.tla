------------------------------- MODULE Queues -------------------------------
(***************************************************************************)
(* Facts about the sequences that model threadlists, wait channels and the *)
(* lists of the heap: a queue on which nobody is twice stays one when a    *)
(* member is added at its end or taken off its head, when it is cut in     *)
(* two, and when it is put behind another.                                 *)
(***************************************************************************)
EXTENDS Naturals, Sequences, Functions, TLAPS

\* The provers that a step is given to, one after the other, and their time in seconds.
USE SMTT(30), Z3T(30), ZenonT(20)

\* A queue: members of S, each at most once.
Queue(S) == {s \in Seq(S) : IsInjective(s)}

\* Whether anybody is queued.
LEMMA QueueEmpty ==
  ASSUME NEW S, NEW s \in Seq(S)
  PROVE  /\ s = <<>> <=> Range(s) = {}
         /\ Range(s) \subseteq S
         /\ s = <<>> <=> Len(s) = 0
         /\ Len(s) \in Nat
  BY DEF Range

\* The empty queue holds nothing.
LEMMA EmptyQueue ==
  ASSUME NEW S
  PROVE  <<>> \in Queue(S) /\ Range(<<>>) = {}
  BY DEF Queue, Range, IsInjective

\* What is in a queue after an element has been added, ...
LEMMA QueueAppend ==
  ASSUME NEW S, NEW s \in Queue(S), NEW x \in S, x \notin Range(s)
  PROVE  Append(s, x) \in Queue(S) /\ Range(Append(s, x)) = Range(s) \cup {x}
<1> DEFINE a == Append(s, x)
<1>1. /\ a \in Seq(S) /\ Len(a) = Len(s) + 1 /\ Len(s) \in Nat
      /\ DOMAIN a = 1 .. Len(s) + 1 /\ DOMAIN s = 1 .. Len(s)
      /\ \A i \in 1 .. Len(s) : a[i] = s[i]
      /\ a[Len(s) + 1] = x
  BY DEF Queue
<1> HIDE DEF a
<1>2. IsInjective(a)
  <2> SUFFICES ASSUME NEW i \in DOMAIN a, NEW j \in DOMAIN a, a[i] = a[j] PROVE i = j
    BY DEF IsInjective
  <2>1. \A k \in 1 .. Len(s) : s[k] # x
    BY <1>1 DEF Range
  <2>2. CASE i \in 1 .. Len(s) /\ j \in 1 .. Len(s)
    BY <1>1, <2>2 DEF Queue, IsInjective
  <2>3. CASE i = Len(s) + 1 \/ j = Len(s) + 1
    BY <1>1, <2>1, <2>3
  <2> QED BY <1>1, <2>2, <2>3
<1>3. Range(a) = Range(s) \cup {x}
  BY <1>1 DEF Range
<1> QED BY <1>1, <1>2, <1>3 DEF Queue, a

\* ... and after the first has been taken.
LEMMA QueueTail ==
  ASSUME NEW S, NEW s \in Queue(S), s # <<>>
  PROVE  /\ Head(s) \in S /\ Head(s) \in Range(s)
         /\ Tail(s) \in Queue(S) /\ Range(Tail(s)) = Range(s) \ {Head(s)}
         /\ Len(Tail(s)) = Len(s) - 1 /\ Len(s) \in Nat \ {0}
<1> DEFINE b == Tail(s)
<1>1. /\ b \in Seq(S) /\ Len(b) = Len(s) - 1 /\ Len(s) \in Nat \ {0}
      /\ DOMAIN b = 1 .. Len(s) - 1 /\ DOMAIN s = 1 .. Len(s)
      /\ \A i \in 1 .. Len(s) - 1 : b[i] = s[i + 1]
      /\ Head(s) = s[1]
  BY DEF Queue
<1> HIDE DEF b
<1>2. IsInjective(b)
  <2> SUFFICES ASSUME NEW i \in DOMAIN b, NEW j \in DOMAIN b, b[i] = b[j] PROVE i = j
    BY DEF IsInjective
  <2>1. /\ i + 1 \in DOMAIN s /\ j + 1 \in DOMAIN s /\ s[i + 1] = s[j + 1]
        /\ i \in Nat /\ j \in Nat
    BY <1>1
  <2>2. i + 1 = j + 1
    BY <2>1 DEF Queue, IsInjective
  <2> QED BY <2>1, <2>2
<1>3. Range(b) = Range(s) \ {Head(s)}
  <2>1. ASSUME NEW i \in DOMAIN b PROVE b[i] \in Range(s) /\ b[i] # Head(s)
    <3>1. i + 1 \in DOMAIN s /\ b[i] = s[i + 1] /\ 1 \in DOMAIN s /\ i + 1 # 1
      BY <1>1
    <3> QED BY <1>1, <3>1 DEF Queue, IsInjective, Range
  <2>2. ASSUME NEW i \in DOMAIN s, s[i] # Head(s) PROVE s[i] \in Range(b)
    <3>1. i - 1 \in DOMAIN b /\ b[i - 1] = s[i]
      BY <1>1, <2>2
    <3> QED BY <3>1 DEF Range
  <2> QED BY <2>1, <2>2 DEF Range
<1>4. Head(s) \in S /\ Head(s) \in Range(s)
  BY <1>1 DEF Range, Queue
<1> QED BY <1>1, <1>2, <1>3, <1>4 DEF Queue, b

\* A queue cut after n: the first n, and the others.
LEMMA QueueCut ==
  ASSUME NEW S, NEW s \in Queue(S), NEW n \in 0 .. Len(s)
  PROVE  LET l == SubSeq(s, 1, n)
             r == SubSeq(s, n + 1, Len(s))
         IN /\ l \in Queue(S) /\ r \in Queue(S)
            /\ Len(l) = n /\ Len(r) = Len(s) - n
            /\ Range(l) \cup Range(r) = Range(s) /\ Range(l) \cap Range(r) = {}
<1> DEFINE l == SubSeq(s, 1, n)
           r == SubSeq(s, n + 1, Len(s))
<1>1. /\ l \in Seq(S) /\ Len(l) = n /\ DOMAIN l = 1 .. n /\ DOMAIN s = 1 .. Len(s)
      /\ Len(s) \in Nat /\ n \in Nat /\ n <= Len(s)
      /\ \A i \in 1 .. n : l[i] = s[i]
  BY DEF Queue
<1>2. /\ r \in Seq(S) /\ Len(r) = Len(s) - n /\ DOMAIN r = 1 .. Len(s) - n
      /\ \A i \in 1 .. Len(s) - n : r[i] = s[i + n]
  BY DEF Queue
<1> HIDE DEF l, r
<1>3. IsInjective(l)
  BY <1>1 DEF Queue, IsInjective
<1>4. IsInjective(r)
  <2> SUFFICES ASSUME NEW i \in DOMAIN r, NEW j \in DOMAIN r, r[i] = r[j] PROVE i = j
    BY DEF IsInjective
  <2>1. /\ i + n \in DOMAIN s /\ j + n \in DOMAIN s /\ s[i + n] = s[j + n]
        /\ i \in Nat /\ j \in Nat
    BY <1>1, <1>2
  <2>2. i + n = j + n
    BY <2>1 DEF Queue, IsInjective
  <2> QED BY <1>1, <2>1, <2>2
<1>5. Range(l) \cup Range(r) = Range(s)
  <2>1. ASSUME NEW i \in DOMAIN s PROVE s[i] \in Range(l) \cup Range(r)
    <3>1. CASE i <= n
      BY <1>1, <3>1 DEF Range
    <3>2. CASE i > n
      <4>1. i - n \in DOMAIN r /\ r[i - n] = s[i]
        BY <1>1, <1>2, <3>2
      <4> QED BY <4>1 DEF Range
    <3> QED BY <1>1, <3>1, <3>2
  <2>2. \A i \in DOMAIN l : l[i] \in Range(s)
    BY <1>1 DEF Range
  <2>3. \A i \in DOMAIN r : i + n \in DOMAIN s /\ r[i] = s[i + n]
    BY <1>1, <1>2
  <2>4. \A i \in DOMAIN r : r[i] \in Range(s)
    BY <2>3 DEF Range
  <2> QED BY <2>1, <2>2, <2>4 DEF Range
<1>6. Range(l) \cap Range(r) = {}
  <2> SUFFICES ASSUME NEW i \in DOMAIN l, NEW j \in DOMAIN r, l[i] = r[j] PROVE FALSE
    BY DEF Range
  <2>1. i \in DOMAIN s /\ j + n \in DOMAIN s /\ s[i] = s[j + n] /\ i # j + n
    BY <1>1, <1>2
  <2> QED BY <2>1 DEF Queue, IsInjective
<1> QED BY Zenon, <1>1, <1>2, <1>3, <1>4, <1>5, <1>6 DEF Queue, l, r

\* A queue put behind another.
LEMMA QueueConcat ==
  ASSUME NEW S, NEW s \in Queue(S), NEW u \in Queue(S), Range(s) \cap Range(u) = {}
  PROVE  /\ s \o u \in Queue(S) /\ Range(s \o u) = Range(s) \cup Range(u)
         /\ Len(s \o u) = Len(s) + Len(u)
<1> DEFINE a == s \o u
<1>1. /\ a \in Seq(S) /\ Len(a) = Len(s) + Len(u) /\ DOMAIN a = 1 .. Len(s) + Len(u)
      /\ DOMAIN s = 1 .. Len(s) /\ DOMAIN u = 1 .. Len(u) /\ Len(s) \in Nat /\ Len(u) \in Nat
      /\ \A i \in 1 .. Len(s) + Len(u) : a[i] = IF i <= Len(s) THEN s[i] ELSE u[i - Len(s)]
  BY DEF Queue
<1> HIDE DEF a
<1>2. \A i \in DOMAIN a : \/ i \in DOMAIN s /\ a[i] = s[i]
                          \/ i - Len(s) \in DOMAIN u /\ a[i] = u[i - Len(s)]
  BY <1>1
<1>3. \A i \in DOMAIN s, j \in DOMAIN u : s[i] # u[j]
  BY DEF Range
<1>4. IsInjective(a)
  <2> SUFFICES ASSUME NEW i \in DOMAIN a, NEW j \in DOMAIN a, a[i] = a[j] PROVE i = j
    BY DEF IsInjective
  <2>1. CASE i <= Len(s) /\ j <= Len(s)
    BY <1>1, <2>1 DEF Queue, IsInjective
  <2>2. CASE i > Len(s) /\ j > Len(s)
    <3>1. /\ i - Len(s) \in DOMAIN u /\ j - Len(s) \in DOMAIN u
          /\ u[i - Len(s)] = u[j - Len(s)]
      BY <1>1, <2>2
    <3>2. i - Len(s) = j - Len(s)
      BY <3>1 DEF Queue, IsInjective
    <3> QED BY <1>1, <3>2
  <2>3. CASE i <= Len(s) /\ j > Len(s)
    <3>1. i \in DOMAIN s /\ a[i] = s[i] /\ j - Len(s) \in DOMAIN u /\ a[j] = u[j - Len(s)]
      BY <1>1, <2>3
    <3> QED BY Zenon, <1>3, <3>1
  <2>4. CASE i > Len(s) /\ j <= Len(s)
    <3>1. j \in DOMAIN s /\ a[j] = s[j] /\ i - Len(s) \in DOMAIN u /\ a[i] = u[i - Len(s)]
      BY <1>1, <2>4
    <3> QED BY Zenon, <1>3, <3>1
  <2> QED BY <1>1, <2>1, <2>2, <2>3, <2>4
<1>5. Range(a) = Range(s) \cup Range(u)
  <2>1. \A i \in DOMAIN a : a[i] \in Range(s) \cup Range(u)
    BY <1>2 DEF Range
  <2>2. \A i \in DOMAIN s : i \in DOMAIN a /\ a[i] = s[i]
    BY <1>1
  <2>3. \A i \in DOMAIN u : i + Len(s) \in DOMAIN a /\ a[i + Len(s)] = u[i]
    BY <1>1
  <2> QED BY <2>1, <2>2, <2>3 DEF Range
<1> QED BY <1>1, <1>4, <1>5 DEF Queue, a
=============================================================================
