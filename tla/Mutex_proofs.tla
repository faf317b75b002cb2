---------------------------- MODULE Mutex_proofs ----------------------------
(***************************************************************************)
(* What joining and leaving the queue of a mutex does to it, whoever is in *)
(* it: the lemmas that the proofs of Authenticator and JwtVerifier share.  *)
(***************************************************************************)
EXTENDS Mutex, SequenceTheorems, TLAPS

Distinct(q) == \A i, j \in 1 .. Len(q) : q[i] = q[j] => i = j
InQueue(q, d) == \E i \in 1 .. Len(q) : q[i] = d

\* A queue without one of its members.
LEMMA WithoutOne ==
  ASSUME NEW S, NEW q \in Seq(S), Distinct(q), NEW p \in 1 .. Len(q)
  PROVE  LET r == Without(q, p)
         IN  /\ r \in Seq(S) /\ Distinct(r)
             /\ \A d : InQueue(r, d) <=> InQueue(q, d) /\ d # q[p]
             /\ p # 1 => r[1] = q[1]
<1> DEFINE n == Len(q)
           front == SubSeq(q, 1, p - 1)
           back == SubSeq(q, p + 1, n)
           r == front \o back
<1>1. n \in Nat /\ p \in Int /\ 1 <= p /\ p <= n /\ \A i \in 1 .. n : q[i] \in S
  OBVIOUS
<1>2. r = Without(q, p)
  BY DEF Without
<1>3. /\ front \in Seq(S) /\ Len(front) = p - 1
      /\ \A i \in 1 .. p - 1 : front[i] = q[i]
  <2> HIDE DEF n
  <2>1. 1 \in Int /\ p - 1 \in Int /\ \A i \in 1 .. p - 1 : q[i] \in S
    BY <1>1
  <2>2. /\ front \in Seq(S)
        /\ Len(front) = IF 1 <= p - 1 THEN p - 1 - 1 + 1 ELSE 0
        /\ \A i \in 1 .. p - 1 - 1 + 1 : front[i] = q[1 + i - 1]
    BY <2>1, SubSeqProperties
  <2> HIDE DEF front
  <2>3. \A i \in 1 .. p - 1 : i \in 1 .. p - 1 - 1 + 1 /\ 1 + i - 1 = i
    BY <1>1
  <2>4. \A i \in 1 .. p - 1 : front[i] = q[i]
    BY <2>2, <2>3
  <2>5. Len(front) = p - 1
    BY <1>1, <2>2
  <2> QED  BY <2>2, <2>4, <2>5
<1>4. /\ back \in Seq(S) /\ Len(back) = n - p
      /\ \A i \in 1 .. n - p : back[i] = q[p + i]
  <2> HIDE DEF n
  <2>1. p + 1 \in Int /\ n \in Int /\ \A i \in p + 1 .. n : q[i] \in S
    BY <1>1
  <2>2. /\ back \in Seq(S)
        /\ Len(back) = IF p + 1 <= n THEN n - (p + 1) + 1 ELSE 0
        /\ \A i \in 1 .. n - (p + 1) + 1 : back[i] = q[p + 1 + i - 1]
    BY <2>1, SubSeqProperties
  <2> HIDE DEF back
  <2>3. \A i \in 1 .. n - p : i \in 1 .. n - (p + 1) + 1 /\ p + 1 + i - 1 = p + i
    BY <1>1
  <2>4. \A i \in 1 .. n - p : back[i] = q[p + i]
    BY <2>2, <2>3
  <2>5. Len(back) = n - p
    BY <1>1, <2>2
  <2> QED  BY <2>2, <2>4, <2>5
<1> HIDE DEF front, back
<1>5. /\ r \in Seq(S) /\ Len(r) = p - 1 + (n - p)
      /\ \A i \in 1 .. p - 1 + (n - p) :
           r[i] = IF i <= p - 1 THEN front[i] ELSE back[i - (p - 1)]
  <2>1. front \in Seq(S) /\ back \in Seq(S)
    BY <1>3, <1>4
  <2>2. /\ r \in Seq(S) /\ Len(r) = Len(front) + Len(back)
        /\ \A i \in 1 .. Len(front) + Len(back) :
             r[i] = IF i <= Len(front) THEN front[i] ELSE back[i - Len(front)]
    BY <2>1, ConcatProperties
  <2>3. Len(front) = p - 1 /\ Len(back) = n - p
    BY <1>3, <1>4
  <2> HIDE DEF r
  <2> QED  BY <2>2, <2>3
<1> HIDE DEF r, n
<1>6. /\ Len(r) = n - 1
      /\ \A i \in 1 .. n - 1 : /\ i < p => r[i] = q[i]
                               /\ i >= p => r[i] = q[i + 1]
  <2>1. Len(r) = n - 1
    <3>1. p - 1 + (n - p) = n - 1
      BY <1>1
    <3> QED  BY <1>5, <3>1
  <2>2. ASSUME NEW i \in 1 .. n - 1, i < p  PROVE r[i] = q[i]
    <3>1. i \in 1 .. p - 1 /\ i \in 1 .. p - 1 + (n - p) /\ i <= p - 1
      BY <1>1, <2>2
    <3> QED  BY <1>3, <1>5, <3>1
  <2>3. ASSUME NEW i \in 1 .. n - 1, i >= p  PROVE r[i] = q[i + 1]
    <3>1. /\ i \in 1 .. p - 1 + (n - p) /\ ~ (i <= p - 1)
          /\ i - (p - 1) \in 1 .. n - p /\ p + (i - (p - 1)) = i + 1
      BY <1>1, <2>3
    <3> QED  BY <1>4, <1>5, <3>1
  <2> QED  BY <2>1, <2>2, <2>3
<1>7. \A i \in 1 .. n - 1 : \E j \in 1 .. n :
        /\ j # p /\ r[i] = q[j] /\ j = (IF i < p THEN i ELSE i + 1)
  <2> TAKE i \in 1 .. n - 1
  <2>1. CASE i < p
    BY <1>1, <1>6, <2>1
  <2>2. CASE ~ (i < p)
    <3>1. i >= p /\ i + 1 \in 1 .. n /\ i + 1 # p
      BY <1>1, <2>2
    <3> QED  BY <1>6, <2>2, <3>1
  <2> QED  BY <2>1, <2>2
<1>8. \A i, j \in 1 .. n : q[i] = q[j] => i = j
  BY DEF Distinct, n
<1>9. Distinct(r)
  <2> SUFFICES ASSUME NEW i \in 1 .. n - 1, NEW j \in 1 .. n - 1, r[i] = r[j]
               PROVE  i = j
    BY <1>6 DEF Distinct
  <2>1. (IF i < p THEN i ELSE i + 1) = (IF j < p THEN j ELSE j + 1)
    BY <1>7, <1>8
  <2> QED  BY <1>1, <2>1
<1>10. ASSUME NEW d  PROVE InQueue(r, d) <=> InQueue(q, d) /\ d # q[p]
  <2>1. ASSUME NEW i \in 1 .. n - 1, r[i] = d
        PROVE  InQueue(q, d) /\ d # q[p]
    <3>1. PICK j \in 1 .. n : j # p /\ q[j] = d
      BY <1>7, <2>1
    <3> QED  BY <1>8, <3>1 DEF InQueue, n
  <2>2. ASSUME NEW j \in 1 .. n, q[j] = d, d # q[p]
        PROVE  \E i \in 1 .. n - 1 : r[i] = d
    <3>1. CASE j < p
      <4>1. j \in 1 .. n - 1
        BY <1>1, <3>1
      <4> QED  BY <1>6, <2>2, <3>1, <4>1
    <3>2. CASE ~ (j < p)
      <4>1. j - 1 \in 1 .. n - 1 /\ j - 1 >= p /\ (j - 1) + 1 = j
        BY <1>1, <2>2, <3>2
      <4> QED  BY <1>6, <2>2, <4>1
    <3> QED  BY <3>1, <3>2
  <2>3. InQueue(r, d) <=> \E i \in 1 .. n - 1 : r[i] = d
    BY <1>6 DEF InQueue
  <2>4. InQueue(q, d) <=> \E j \in 1 .. n : q[j] = d
    BY DEF InQueue, n
  <2> QED  BY <2>1, <2>2, <2>3, <2>4
<1>11. p # 1 => r[1] = q[1]
  <2> SUFFICES ASSUME p # 1  PROVE r[1] = q[1]
    OBVIOUS
  <2>1. 1 \in 1 .. n - 1 /\ 1 < p
    BY <1>1
  <2> QED  BY <1>6, <2>1
<1> QED  BY <1>2, <1>5, <1>9, <1>10, <1>11

\* Whoever leaves the queue leaves everyone else in their place.
LEMMA ReleasedOne ==
  ASSUME NEW S, NEW q \in Seq(S), Distinct(q), NEW c, InQueue(q, c)
  PROVE  /\ Released(q, c) \in Seq(S) /\ Distinct(Released(q, c))
         /\ \A d : InQueue(Released(q, c), d) <=> InQueue(q, d) /\ d # c
         /\ q[1] # c => Released(q, c)[1] = q[1]
<1> DEFINE p == CHOOSE i \in DOMAIN q : q[i] = c
<1>1. DOMAIN q = 1 .. Len(q)
  OBVIOUS
<1>2. \E i \in DOMAIN q : q[i] = c
  BY <1>1 DEF InQueue
<1>3. p \in 1 .. Len(q) /\ q[p] = c
  BY <1>1, <1>2
<1>4. Released(q, c) = Without(q, p)
  BY <1>2 DEF Released
<1> HIDE DEF p
<1>5. /\ Without(q, p) \in Seq(S) /\ Distinct(Without(q, p))
      /\ \A d : InQueue(Without(q, p), d) <=> InQueue(q, d) /\ d # q[p]
      /\ p # 1 => Without(q, p)[1] = q[1]
  BY <1>3, WithoutOne
<1> QED  BY <1>3, <1>4, <1>5

\* Whoever joins the queue is its last.
LEMMA JoinedLast ==
  ASSUME NEW S, NEW q \in Seq(S), Distinct(q), NEW c \in S, ~ InQueue(q, c)
  PROVE  /\ Append(q, c) \in Seq(S) /\ Distinct(Append(q, c))
         /\ \A d : InQueue(Append(q, c), d) <=> InQueue(q, d) \/ d = c
         /\ q # << >> => Append(q, c)[1] = q[1]
<1> DEFINE n == Len(q)
           r == Append(q, c)
<1>1. /\ n \in Nat /\ r \in Seq(S) /\ Len(r) = n + 1 /\ r[n + 1] = c
      /\ \A i \in 1 .. n : r[i] = q[i]
      /\ q # << >> => n > 0
  OBVIOUS
<1>2. /\ \A i, j \in 1 .. n : q[i] = q[j] => i = j
      /\ \A i \in 1 .. n : q[i] # c
  BY DEF Distinct, InQueue
<1> HIDE DEF n, r
<1>3. /\ \A i \in 1 .. n + 1 : i \in 1 .. n \/ i = n + 1
      /\ \A i \in 1 .. n : i \in 1 .. n + 1
      /\ n + 1 \in 1 .. n + 1
  BY <1>1
<1>4. \A i, j \in 1 .. n + 1 : r[i] = r[j] => i = j
  BY <1>1, <1>2, <1>3
<1>5. \A d : (\E i \in 1 .. n + 1 : r[i] = d) <=> (\E i \in 1 .. n : q[i] = d) \/ d = c
  BY <1>1, <1>3
<1>6. q # << >> => 1 \in 1 .. n
  BY <1>1
<1>7. Distinct(r)
  BY <1>1, <1>4 DEF Distinct
<1>8. \A d : InQueue(r, d) <=> InQueue(q, d) \/ d = c
  <2>1. \A d : InQueue(r, d) <=> \E i \in 1 .. n + 1 : r[i] = d
    BY <1>1 DEF InQueue
  <2>2. \A d : InQueue(q, d) <=> \E i \in 1 .. n : q[i] = d
    BY DEF InQueue, n
  <2> QED  BY <1>5, <2>1, <2>2
<1> QED  BY <1>1, <1>6, <1>7, <1>8 DEF r

\* Who is in a queue's first place is its head.
LEMMA FirstIsHead ==
  ASSUME NEW S, NEW q \in Seq(S), NEW d, InQueue(q, d)
  PROVE  q # << >> /\ Head(q) = q[1] /\ Len(q) \in Nat /\ 1 \in 1 .. Len(q)
<1>1. PICK i \in 1 .. Len(q) : q[i] = d
  BY DEF InQueue
<1>2. Len(q) \in Nat /\ 1 <= Len(q)
  BY <1>1
<1>3. q # << >>
  BY <1>2
<1> QED  BY <1>2, <1>3
=============================================================================
